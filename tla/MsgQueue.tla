------------------------------ MODULE MsgQueue ------------------------------
(***************************************************************************)
(* msgqueue: System V queues that outlive their processes.  mainsrc3       *)
(* creates its queue, starts a thread that receives from it and sends to   *)
(* it; mainsrc0 sends, mainsrc1 receives.  mainsrc0 does not set its key:  *)
(* it may get any queue.  Any number of each may run at a time, and each   *)
(* may be killed at any place.  The kernel's queue is external.            *)
(***************************************************************************)
EXTENDS Naturals, Sequences, FiniteSets

CONSTANTS
  Procs,      \* processes
  ProgramOf,  \* what each runs: "main0", "main1", "main3"
  Keys,       \* the keys of queues
  BadKeys,    \* those below 0
  MSGKEY,     \* mainsrc1's
  MSG_KEY_xx, \* mainsrc3's
  QueueMax,   \* messages that fit in a queue
  MaxSent     \* bound: messages sent to a queue

ASSUME MsgQueueAssumption ==
  /\ ProgramOf \in [Procs -> {"main0", "main1", "main3"}]
  /\ {MSGKEY, MSG_KEY_xx} \subseteq Keys \ BadKeys
  /\ QueueMax \in Nat /\ MaxSent \in Nat

VARIABLES
  exists,   \* keys whose queue has been created
  queue,    \* the messages in each
  sent,     \* how many were sent to each
  keyOf,    \* each process's queue
  snd,      \* its sending thread: "off", "check", "create", "send", "end"
  rcv,      \* its receiving thread: "off", "look", "wait", "show", "end"
  hand,     \* the message it has taken and not shown
  shown,    \* what each process has shown, in order
  lost      \* messages that a process which was killed had taken

queueVars == <<exists, queue, sent, keyOf, snd, rcv, hand, shown, lost>>

QueueInit ==
  /\ exists = {}
  /\ queue = [k \in Keys |-> <<>>]
  /\ sent = [k \in Keys |-> 0]
  /\ keyOf = [p \in Procs |-> MSGKEY]
  /\ snd = [p \in Procs |-> "off"]
  /\ rcv = [p \in Procs |-> "off"]
  /\ hand = [p \in Procs |-> {}]
  /\ shown = [p \in Procs |-> <<>>]
  /\ lost = {}

-----------------------------------------------------------------------------
KeysOf(p) ==
  CASE ProgramOf[p] = "main0" -> Keys
    [] ProgramOf[p] = "main1" -> {MSGKEY}
    [] ProgramOf[p] = "main3" -> {MSG_KEY_xx}

QueueStart(p) ==
  /\ snd[p] = "off" /\ rcv[p] = "off"
  /\ IF ProgramOf[p] = "main1"
     THEN rcv' = [rcv EXCEPT ![p] = "look"] /\ UNCHANGED snd
     ELSE snd' = [snd EXCEPT ![p] = "check"] /\ UNCHANGED rcv
  /\ \E k \in KeysOf(p) : keyOf' = [keyOf EXCEPT ![p] = k]
  /\ UNCHANGED <<exists, queue, sent, hand, shown, lost>>

(* main3 starts its receiving thread when it has its queue. *)
Ready(p) ==
  /\ snd' = [snd EXCEPT ![p] = "send"]
  /\ rcv' = IF ProgramOf[p] = "main3" THEN [rcv EXCEPT ![p] = "look"] ELSE rcv

(* queue_create: queue_isexist, then msgget with IPC_CREAT, which also takes
   a queue that another process has created in between. *)
QueueIsExist(p) ==
  /\ snd[p] = "check"
  /\ IF keyOf[p] \in exists
     THEN Ready(p)
     ELSE snd' = [snd EXCEPT ![p] = "create"] /\ UNCHANGED rcv
  /\ UNCHANGED <<exists, queue, sent, keyOf, hand, shown, lost>>

QueueNoKey(p) ==
  /\ snd[p] = "create"
  /\ keyOf[p] \in BadKeys
  /\ snd' = [snd EXCEPT ![p] = "end"]
  /\ UNCHANGED <<exists, queue, sent, keyOf, rcv, hand, shown, lost>>

(* Mutant: a queue that exists is made anew. *)
QueueCreateAnew(p) ==
  /\ snd[p] = "create"
  /\ keyOf[p] \notin BadKeys
  /\ exists' = exists \cup {keyOf[p]}
  /\ queue' = [queue EXCEPT ![keyOf[p]] = <<>>]
  /\ Ready(p)
  /\ UNCHANGED <<sent, keyOf, hand, shown, lost>>

QueueCreate(p) ==
  /\ snd[p] = "create"
  /\ keyOf[p] \notin BadKeys
  /\ exists' = exists \cup {keyOf[p]}
  /\ Ready(p)
  /\ UNCHANGED <<queue, sent, keyOf, hand, shown, lost>>

(* msg_snd blocks while the queue is full. *)
MsgSnd(p) ==
  LET k == keyOf[p] IN
  /\ snd[p] = "send"
  /\ Len(queue[k]) < QueueMax
  /\ sent[k] < MaxSent
  /\ sent' = [sent EXCEPT ![k] = @ + 1]
  /\ queue' = [queue EXCEPT ![k] = Append(@, sent'[k])]
  /\ UNCHANGED <<exists, keyOf, snd, rcv, hand, shown, lost>>

(* The receiver looks for the queue once; without one, msgrcv fails and the
   process exits. *)
Look(p) ==
  /\ rcv[p] = "look"
  /\ rcv' = [rcv EXCEPT ![p] = IF keyOf[p] \in exists THEN "wait" ELSE "end"]
  /\ snd' = [snd EXCEPT ![p] = IF keyOf[p] \in exists THEN @ ELSE "end"]
  /\ UNCHANGED <<exists, queue, sent, keyOf, hand, shown, lost>>

MsgRcv(p) ==
  LET k == keyOf[p] IN
  /\ rcv[p] = "wait"
  /\ queue[k] # <<>>
  /\ hand' = [hand EXCEPT ![p] = {Head(queue[k])}]
  /\ queue' = [queue EXCEPT ![k] = Tail(@)]
  /\ rcv' = [rcv EXCEPT ![p] = "show"]
  /\ UNCHANGED <<exists, sent, keyOf, snd, shown, lost>>

ShowMsg(p) ==
  \E n \in hand[p] :
    /\ rcv[p] = "show"
    /\ shown' = [shown EXCEPT ![p] = Append(@, n)]
    /\ hand' = [hand EXCEPT ![p] = {}]
    /\ rcv' = [rcv EXCEPT ![p] = "wait"]
    /\ UNCHANGED <<exists, queue, sent, keyOf, snd, lost>>

(* Killed, with both threads. *)
QueueKill(p) ==
  /\ snd[p] \notin {"off", "end"} \/ rcv[p] \notin {"off", "end"}
  /\ snd' = [snd EXCEPT ![p] = "end"]
  /\ rcv' = [rcv EXCEPT ![p] = "end"]
  /\ lost' = lost \cup (hand[p] \X {keyOf[p]})
  /\ hand' = [hand EXCEPT ![p] = {}]
  /\ UNCHANGED <<exists, queue, sent, keyOf, shown>>

QueueNext == \E p \in Procs :
  \/ QueueStart(p)
  \/ QueueIsExist(p)
  \/ QueueNoKey(p)
  \/ QueueCreate(p)
  \/ MsgSnd(p)
  \/ Look(p)
  \/ MsgRcv(p)
  \/ ShowMsg(p)
  \/ QueueKill(p)

QueueSpec == QueueInit /\ [][QueueNext]_queueVars

-----------------------------------------------------------------------------
QueueTypeOK ==
  /\ exists \subseteq Keys
  /\ queue \in [Keys -> Seq(1 .. MaxSent)]
  /\ sent \in [Keys -> 0 .. MaxSent]
  /\ keyOf \in [Procs -> Keys]
  /\ snd \in [Procs -> {"off", "check", "create", "send", "end"}]
  /\ rcv \in [Procs -> {"off", "look", "wait", "show", "end"}]
  /\ hand \in [Procs -> SUBSET (1 .. MaxSent)]
  /\ shown \in [Procs -> Seq(1 .. MaxSent)]
  /\ lost \subseteq (1 .. MaxSent) \X Keys

Holders(k, n) ==
  { p \in Procs : keyOf[p] = k /\ (n \in hand[p] \/ \E i \in DOMAIN shown[p] : shown[p][i] = n) }

(***************************************************************************)
(* queue.c:13-54, mainsrc3/main.c:5-16, mloop.c:18-37.  Whichever process  *)
(* creates a queue and however often they are killed and started, every    *)
(* message sent is in the queue, with one receiver, or was lost with a     *)
(* receiver that was killed before it showed it; no receiver shows an      *)
(* earlier message after a later one; and mainsrc3's thread finds the      *)
(* queue that main created.                                                *)
(***************************************************************************)
QueueKeeps ==
  /\ \A k \in Keys : \A n \in 1 .. sent[k] :
       LET places == Cardinality({ i \in DOMAIN queue[k] : queue[k][i] = n })
                     + Cardinality(Holders(k, n)) + (IF <<n, k>> \in lost THEN 1 ELSE 0)
       IN  places = 1
  /\ \A p \in Procs : \A i, j \in DOMAIN shown[p] : i < j => shown[p][i] < shown[p][j]
  /\ \A p \in Procs : rcv[p] = "look" /\ ProgramOf[p] = "main3" => keyOf[p] \in exists
=============================================================================
