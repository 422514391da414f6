--------------------------- MODULE MCMqttSession ----------------------------
(***************************************************************************)
(* MqttSession with a message of each quality of service, and two of level *)
(* 1 whose ids differ in their high byte only.                             *)
(***************************************************************************)
EXTENDS MqttSession

CONSTANTS plain, near, far, once

MCTraffic == [c \in Callers |->
  IF c = "app" THEN {{plain, near, far}, {plain, far, once}} ELSE {{near, once}}]
MCMsgId   == [m \in Msgs |-> IF m = near THEN 1 ELSE IF m = far THEN 257 ELSE
                             IF m = once THEN 2 ELSE 3]
MCMsgQos  == [m \in Msgs |-> IF m = plain THEN 0 ELSE IF m = once THEN 2 ELSE 1]
MCOwnQos  == <<2, 1>>
=============================================================================
