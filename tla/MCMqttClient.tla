---------------------------- MODULE MCMqttClient ----------------------------
(***************************************************************************)
(* MqttClient with packets of one extent and of two.                       *)
(***************************************************************************)
EXTENDS MqttClient

MCShape == [k \in Kinds |-> IF k \in {"ping", "disconnect"} THEN <<2>> ELSE <<1, 2>>]
=============================================================================
