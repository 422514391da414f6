----------------------------- MODULE MCMqttRecv -----------------------------
(***************************************************************************)
(* MqttRecv with packets that reach every branch of the parser and of the  *)
(* handlers that answer.                                                   *)
(***************************************************************************)
EXTENDS MqttRecv

PingResp  == <<208, 128, 0>>             \* its length 0 in two bytes
Publish   == <<50, 5, 0, 1, 116, 1, 1>>  \* QoS 1, topic "t", id 257
PubRel    == <<98, 2, 0, 1>>
Oversized == <<48, 7, 0, 1, 116, 9, 9, 9, 9>>
BadLength == <<208, 128, 128, 128, 0>>   \* in four bytes
WrongType == <<16, 0>>

MCPackets == {PingResp, Publish, PubRel, Oversized, BadLength, WrongType}

(* For the run without errors: two packets, one longer than the other. *)
MCSimplePackets == {PingResp, Publish}
=============================================================================
