----------------------------- MODULE NetServer ------------------------------
(***************************************************************************)
(* net/cs0: the server forks a child for each connection, which answers    *)
(* its client; the client (client.c) sends a line and waits for the answer.*)
(*                                                                         *)
(* A child whose client has closed returns from process_client_handle into *)
(* the loop of main, where it calls accept for ever on the socket that it  *)
(* has closed; one whose client was killed with data on its way writes and *)
(* dies of SIGPIPE, and nobody waits for it.  Either way its place in the  *)
(* process table is never given back.  The kernel (external) holds one     *)
(* connection more than BACKLOG and lets further clients try again.        *)
(***************************************************************************)
EXTENDS Naturals, Sequences, FiniteSets

CONSTANTS
  Clients,
  BACKLOG,
  MaxProcs, \* children that the process table has room for
  MaxAsks   \* bound: lines a client sends

ASSUME NetServerAssumption ==
  BACKLOG \in Nat /\ MaxProcs \in Nat /\ MaxAsks \in Nat

VARIABLES
  backlog,  \* connections that wait for accept
  sc,       \* the connection the parent has accepted and not passed on
  child,    \* of each client: "none", "read", "write", "spin", "zombie"
  cli,      \* the client: "new", "idle", "asked", "refused", "gone"
  asks,     \* lines it has sent
  request,  \* a line on its way
  reply,    \* an answer on its way
  shut      \* how the server's end sees the client: "open", "fin", "reset"

netVars == <<backlog, sc, child, cli, asks, request, reply, shut>>

NetInit ==
  /\ backlog = <<>>
  /\ sc = {}
  /\ child = [c \in Clients |-> "none"]
  /\ cli = [c \in Clients |-> "new"]
  /\ asks = [c \in Clients |-> 0]
  /\ request = [c \in Clients |-> FALSE]
  /\ reply = [c \in Clients |-> FALSE]
  /\ shut = [c \in Clients |-> "open"]

-----------------------------------------------------------------------------
(***************************************************************************)
(* The clients.                                                            *)
(***************************************************************************)
ConnectTo(c) ==
  /\ cli[c] = "new"
  /\ Len(backlog) <= BACKLOG
  /\ cli' = [cli EXCEPT ![c] = "idle"]
  /\ backlog' = Append(backlog, c)
  /\ UNCHANGED <<sc, child, asks, request, reply, shut>>

Ask(c) ==
  /\ cli[c] = "idle"
  /\ asks[c] < MaxAsks
  /\ cli' = [cli EXCEPT ![c] = "asked"]
  /\ asks' = [asks EXCEPT ![c] = @ + 1]
  /\ request' = [request EXCEPT ![c] = TRUE]
  /\ UNCHANGED <<backlog, sc, child, reply, shut>>

Answered(c) ==
  /\ cli[c] = "asked"
  /\ reply[c]
  /\ cli' = [cli EXCEPT ![c] = "idle"]
  /\ reply' = [reply EXCEPT ![c] = FALSE]
  /\ UNCHANGED <<backlog, sc, child, asks, request, shut>>

(* It is killed: it leaves its loop in no other way. *)
Quit(c) ==
  /\ cli[c] \in {"idle", "asked"}
  /\ cli' = [cli EXCEPT ![c] = "gone"]
  /\ shut' = [shut EXCEPT ![c] = IF reply[c] THEN "reset" ELSE "fin"]
  /\ request' = [request EXCEPT ![c] = @ /\ ~reply[c]]
  /\ reply' = [reply EXCEPT ![c] = FALSE]
  /\ UNCHANGED <<backlog, sc, child, asks>>

-----------------------------------------------------------------------------
(***************************************************************************)
(* The parent.                                                             *)
(***************************************************************************)
Accept ==
  /\ sc = {}
  /\ backlog # <<>>
  /\ sc' = {Head(backlog)}
  /\ backlog' = Tail(backlog)
  /\ UNCHANGED <<child, cli, asks, request, reply, shut>>

Children == { c \in Clients : child[c] # "none" }

(* Mutant: the parent, too, answers the client. *)
ForkBoth ==
  \E c \in sc :
    /\ Cardinality(Children) < MaxProcs
    /\ child' = [child EXCEPT ![c] = "read"]
    /\ UNCHANGED <<backlog, sc, cli, asks, request, reply, shut>>

Fork ==
  \E c \in sc :
    /\ Cardinality(Children) < MaxProcs
    /\ child' = [child EXCEPT ![c] = "read"]
    /\ sc' = {}
    /\ UNCHANGED <<backlog, cli, asks, request, reply, shut>>

(* -1 takes the parent's branch: it closes the only end of the connection. *)
ForkFails ==
  \E c \in sc :
    /\ Cardinality(Children) = MaxProcs
    /\ sc' = {}
    /\ cli' = [cli EXCEPT ![c] = IF @ = "gone" THEN @ ELSE "refused"]
    /\ UNCHANGED <<backlog, child, asks, request, reply, shut>>

-----------------------------------------------------------------------------
(***************************************************************************)
(* process_client_handle in a child.  A read that fails is answered like a *)
(* line, with "-1 bytes".                                                  *)
(***************************************************************************)
ChildRead(c) ==
  /\ child[c] = "read"
  /\ request[c] \/ shut[c] # "open"
  /\ child' = [child EXCEPT ![c] =
       IF request[c] \/ shut[c] = "reset" THEN "write" ELSE "spin"]
  /\ request' = [request EXCEPT ![c] = FALSE]
  /\ UNCHANGED <<backlog, sc, cli, asks, reply, shut>>

(* The first answer to a client that is gone is met with a reset. *)
ChildWrite(c) ==
  /\ child[c] = "write"
  /\ child' = [child EXCEPT ![c] = IF shut[c] = "reset" THEN "zombie" ELSE "read"]
  /\ reply' = [reply EXCEPT ![c] = shut[c] = "open"]
  /\ shut' = [shut EXCEPT ![c] = IF @ = "fin" THEN "reset" ELSE @]
  /\ UNCHANGED <<backlog, sc, cli, asks, request>>

-----------------------------------------------------------------------------
Parent == Accept \/ Fork \/ ForkFails

Child(c) == ChildRead(c) \/ ChildWrite(c)

NetNext ==
  \/ Parent
  \/ \E c \in Clients :
       \/ ConnectTo(c)
       \/ Ask(c)
       \/ Answered(c)
       \/ Quit(c)
       \/ Child(c)

(* The parent, each child and each client that waits are scheduled. *)
NetFairness ==
  /\ WF_netVars(Parent)
  /\ \A c \in Clients : WF_netVars(Child(c)) /\ WF_netVars(Answered(c))

NetTypeOK ==
  /\ backlog \in Seq(Clients)
  /\ sc \subseteq Clients
  /\ child \in [Clients -> {"none", "read", "write", "spin", "zombie"}]
  /\ cli \in [Clients -> {"new", "idle", "asked", "refused", "gone"}]
  /\ asks \in [Clients -> 0 .. MaxAsks]
  /\ request \in [Clients -> BOOLEAN]
  /\ reply \in [Clients -> BOOLEAN]
  /\ shut \in [Clients -> {"open", "fin", "reset"}]

(***************************************************************************)
(* server.c:67-88.  Whatever the other clients do, be they silent or       *)
(* killed, a client that asks is answered: until as many clients as there  *)
(* is room for processes have been there, from then on new ones are turned *)
(* away.                                                                   *)
(***************************************************************************)
Served ==
  \A c \in Clients : cli[c] = "asked" ~>
    \/ cli[c] \in {"idle", "gone"}
    \/ cli[c] = "refused" /\ Cardinality(Children) = MaxProcs
=============================================================================
