---------------------------- MODULE MqttDelivery ----------------------------
(***************************************************************************)
(* What mqtt.h:56-60 promises of the three levels of service, of a message *)
(* in either direction: at most once for level 0, at least once for level  *)
(* 1, once for level 2; and that a message the sender may forget has been  *)
(* handed over.  Two troubles of the receiver are part of the picture: one *)
(* that goes on after an error may hand over a message of level 1 or 2     *)
(* again, and one that also answers with another number may make the       *)
(* sender forget a message that was never handed over.                     *)
(***************************************************************************)
EXTENDS Naturals

CONSTANTS
  Messages, \* the messages of both directions
  Level     \* the quality of service of each

VARIABLES
  heard,    \* how often the receiver's application was handed the message
  settled,  \* messages that the sender knows to have arrived
  trouble   \* of the receiver: "none", "retried" or "renumbered"

vars == <<heard, settled, trouble>>

Init ==
  /\ heard = [m \in Messages |-> 0]
  /\ settled = {}
  /\ trouble = "none"

Worse ==
  \/ trouble' = trouble
  \/ trouble = "none" /\ trouble' \in {"retried", "renumbered"}
  \/ trouble = "retried" /\ trouble' = "renumbered"

Hear(m) ==
  /\ \/ heard[m] = 0
     \/ trouble # "none" /\ Level[m] > 0
  /\ heard' = [heard EXCEPT ![m] = @ + 1]
  /\ Worse
  /\ UNCHANGED settled

Settle(m) ==
  /\ Level[m] > 0
  /\ m \notin settled
  /\ heard[m] > 0 \/ trouble = "renumbered"
  /\ settled' = settled \cup {m}
  /\ UNCHANGED <<heard, trouble>>

Trip == Worse /\ UNCHANGED <<heard, settled>>

Next == Trip \/ \E m \in Messages : Hear(m) \/ Settle(m)

Spec == Init /\ [][Next]_vars
=============================================================================
