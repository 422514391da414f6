---------------------------- MODULE MqttSession -----------------------------
(***************************************************************************)
(* The exchanges of MQTT packets between the client and a server: PUBLISH, *)
(* PUBACK, PUBREC, PUBREL, PUBCOMP in both directions, over connections    *)
(* that end.  The client's answers are those of Mqtt_Dispatch and its      *)
(* handlers (mqtt/sdk/mqtt.c); it keeps nothing of an exchange and repeats *)
(* nothing.  A packet is the unit here: how the stream is cut into reads   *)
(* is MqttRecv, how the client's own packets are sent in parts MqttClient. *)
(*                                                                         *)
(* As in MqttRecv the caller is the sample, which ends on an error, or a   *)
(* loop like mqtt_app.c's, with its handlers set, which polls again:       *)
(* Mqtt_RecvPkt then begins at the front of a buffer that it has already   *)
(* dispatched from and written into.  The server is external and keeps to  *)
(* MQTT 3.1.1; as the client asks for a clean session, it repeats nothing  *)
(* on a new connection.                                                    *)
(***************************************************************************)
EXTENDS Integers, Sequences, FiniteSets

CONSTANTS
  Callers,  \* "sample", "app"
  Msgs,     \* what the server may publish
  Traffic,  \* bound: to each caller it publishes one of these sets
  MsgId,    \* the packet id it gives to each
  MsgQos,   \* and its quality of service
  OwnQos,   \* the quality of service of the client's 1st, 2nd, ... publish
  MaxConns  \* bound: connections

PktIds == 1 .. 65535

ASSUME MqttSessionAssumption ==
  /\ Callers \subseteq {"sample", "app"}
  /\ Traffic \in [Callers -> SUBSET SUBSET Msgs]
  /\ MsgId \in [Msgs -> PktIds]
  /\ \A m, n \in Msgs : MsgId[m] = MsgId[n] => m = n
  /\ MsgQos \in [Msgs -> 0 .. 2]
  /\ OwnQos \in Seq(0 .. 2)
  /\ MaxConns \in Nat

Own == DOMAIN OwnQos

VARIABLES
  caller,
  conns,    \* connections so far
  open,     \* the client's end of the connection
  peer,     \* the server's end
  session,  \* the server has taken the client's CONNECT
  toClient, \* packets on their way
  toServer,
  down,     \* how far the server is with each of its messages
  held,     \* ids of the client's QoS 2 publishes that it keeps
  got,      \* how often it was handed each of the client's publishes
  pktId,    \* g_pkt_id - 1
  since,    \* its value when this connection was made
  armed,    \* the socket's registration with epoll
  pc,
  buf,      \* the packets in bgn .. pos
  cursor,   \* how many of them Mqtt_RecvPkt has dispatched
  heard,    \* how often handle_publish was called with each message
  told,     \* the client's publishes whose PUBACK or PUBCOMP it has seen
  faults

link   == <<conns, open, peer>>
server == <<session, down, held, got>>
wires  == <<toClient, toServer>>
recv   == <<armed, pc, buf, cursor>>
app    == <<heard, told>>
ids    == <<pktId, since>>
vars   == <<caller, link, server, wires, ids, recv, app, faults>>

-----------------------------------------------------------------------------
Pkt(type, id) == [type |-> type, id |-> id]
Publish(msg, id, qos) == [type |-> "PUBLISH", id |-> id, msg |-> msg, qos |-> qos]

Connection ==
  /\ open' = TRUE
  /\ peer' = TRUE
  /\ session' = FALSE
  /\ held' = {}
  /\ toClient' = <<>>
  /\ toServer' = <<Pkt("CONNECT", 0)>>
  /\ armed' = "oneshot"

Init ==
  /\ caller \in Callers
  /\ conns = IF caller = "app" THEN 1 ELSE 0
  /\ open = (caller = "app")
  /\ peer = open
  /\ session = FALSE
  /\ toClient = <<>>
  /\ toServer = IF open THEN <<Pkt("CONNECT", 0)>> ELSE <<>>
  /\ down = [m \in Msgs |-> "new"]
  /\ held = {}
  /\ got = [o \in Own |-> 0]
  /\ pktId = 0
  /\ since = 0
  /\ armed = IF open THEN "oneshot" ELSE "off"
  /\ pc = "epoll"
  /\ buf = <<>>
  /\ cursor = 0
  /\ heard = [m \in Msgs |-> 0]
  /\ told = {}
  /\ faults = {}

-----------------------------------------------------------------------------
(***************************************************************************)
(* The server.                                                             *)
(***************************************************************************)
Arrives(pkts) == toClient' = IF open THEN toClient \o pkts ELSE toClient

Serve(m) ==
  /\ session
  /\ down[m] = "new"
  /\ \E t \in Traffic[caller] : { n \in Msgs : down[n] # "new" } \cup {m} \subseteq t
  /\ down' = [down EXCEPT ![m] = "sent"]
  /\ Arrives(<<Publish(m, MsgId[m], MsgQos[m])>>)
  /\ UNCHANGED <<caller, link, session, held, got, toServer, ids, recv, app, faults>>

(* What it has not read is lost. *)
ServerCloses ==
  /\ peer' = FALSE
  /\ session' = FALSE
  /\ toServer' = <<>>
  /\ UNCHANGED <<caller, conns, open, down, held, got, toClient, ids, recv, app, faults>>

(* The client is not known or the server goes down. *)
Hangup == peer /\ ServerCloses

(* It reads the end of the stream, or an answer that was sent in part. *)
ServerEof ==
  /\ peer
  /\ \/ ~open /\ toServer = <<>>
     \/ toServer # <<>> /\ toServer[1].type = "TORN"
  /\ ServerCloses

InFlight(id, at) == { m \in Msgs : MsgId[m] = id /\ down[m] = at }

Move(ms, to) == down' = [m \in Msgs |-> IF m \in ms THEN to ELSE down[m]]

ServerTakes(p) ==
  \/ /\ p.type = "CONNECT"
     /\ session' = TRUE
     /\ Arrives(<<Pkt("CONNACK", 0)>>)
     /\ UNCHANGED <<down, held, got>>
  \/ /\ p.type = "PUBLISH" /\ p.qos < 2
     /\ got' = [got EXCEPT ![p.msg] = @ + 1]
     /\ Arrives(IF p.qos = 1 THEN <<Pkt("PUBACK", p.id)>> ELSE <<>>)
     /\ UNCHANGED <<session, down, held>>
  \/ /\ p.type = "PUBLISH" /\ p.qos = 2
     /\ got' = [got EXCEPT ![p.msg] = IF p.id \in held THEN @ ELSE @ + 1]
     /\ held' = held \cup {p.id}
     /\ Arrives(<<Pkt("PUBREC", p.id)>>)
     /\ UNCHANGED <<session, down>>
  \/ /\ p.type = "PUBREL"
     /\ held' = held \ {p.id}
     /\ Arrives(<<Pkt("PUBCOMP", p.id)>>)
     /\ UNCHANGED <<session, down, got>>
  \/ /\ p.type = "PUBACK"
     /\ Move({ m \in InFlight(p.id, "sent") : MsgQos[m] = 1 }, "done")
     /\ UNCHANGED <<session, held, got, toClient>>
  \/ /\ p.type = "PUBREC"
     /\ LET ms == { m \in InFlight(p.id, "sent") : MsgQos[m] = 2 }
        IN  /\ Move(ms, "received")
            /\ Arrives(IF ms # {} THEN <<Pkt("PUBREL", p.id)>> ELSE <<>>)
     /\ UNCHANGED <<session, held, got>>
  \/ /\ p.type = "PUBCOMP"
     /\ Move(InFlight(p.id, "received"), "done")
     /\ UNCHANGED <<session, held, got, toClient>>

ServerReads ==
  /\ peer
  /\ toServer # <<>>
  /\ ServerTakes(Head(toServer))
  /\ toServer' = Tail(toServer)
  /\ UNCHANGED <<caller, link, ids, recv, app, faults>>

-----------------------------------------------------------------------------
(***************************************************************************)
(* The sample's commands.  A connection that ends takes with it what the   *)
(* server had in flight: CONNECT asks for a clean session.                 *)
(***************************************************************************)
Connect ==
  /\ caller = "sample" /\ pc = "epoll"
  /\ conns < MaxConns
  /\ conns' = conns + 1
  /\ Connection
  /\ Move({ m \in Msgs : down[m] \in {"sent", "received"} }, "dropped")
  /\ since' = pktId
  /\ UNCHANGED <<caller, got, pktId, pc, buf, cursor, app, faults>>

(* The socket is closed: what has come and was not read is lost. *)
Closed ==
  /\ open' = FALSE
  /\ armed' = "off"
  /\ toClient' = <<>>

Disconnect ==
  /\ caller = "sample" /\ pc = "epoll"
  /\ open
  /\ Closed
  /\ UNCHANGED <<caller, conns, peer, server, toServer, ids, pc, buf, cursor, app, faults>>

Sends(pkts) == toServer' = IF peer THEN toServer \o pkts ELSE toServer

(* publish, with the next packet id; sent whole here. *)
CmdPublish ==
  /\ caller = "sample" /\ pc = "epoll"
  /\ open
  /\ pktId < Len(OwnQos)
  /\ pktId' = pktId + 1
  /\ Sends(<<Publish(pktId', pktId', OwnQos[pktId'])>>)
  /\ UNCHANGED <<caller, link, server, toClient, since, recv, app, faults>>

-----------------------------------------------------------------------------
(***************************************************************************)
(* The client's loop: epoll_wait, HandleSocket, Mqtt_RecvPkt.              *)
(***************************************************************************)
Poll ==
  /\ pc = "epoll"
  /\ open /\ armed # "off"
  /\ toClient # <<>> \/ ~peer
  /\ pc' = "first"
  /\ armed' = IF armed = "oneshot" THEN "off" ELSE armed
  /\ UNCHANGED <<caller, link, server, wires, ids, buf, cursor, app, faults>>

(* read() returns what has arrived, or the first of it. *)
RecvData(n) ==
  /\ pc \in {"first", "recv"}
  /\ buf' = buf \o SubSeq(toClient, 1, n)
  /\ toClient' = SubSeq(toClient, n + 1, Len(toClient))
  /\ cursor' = 0
  /\ pc' = "parse"
  /\ UNCHANGED <<caller, link, server, toServer, ids, armed, app, faults>>

RecvAgain ==
  /\ pc = "recv"
  /\ toClient = <<>> /\ peer
  /\ armed' = "level"
  /\ pc' = "epoll"
  /\ UNCHANGED <<caller, link, server, wires, ids, buf, cursor, app, faults>>

RecvEof ==
  /\ pc \in {"first", "recv"}
  /\ toClient = <<>> /\ ~peer
  /\ Closed
  /\ buf' = <<>>
  /\ pc' = "epoll"
  /\ UNCHANGED <<caller, conns, peer, server, toServer, ids, cursor, app, faults>>

-----------------------------------------------------------------------------
(***************************************************************************)
(* Mqtt_Dispatch of the packet at cursor.                                  *)
(***************************************************************************)
Front == buf[cursor + 1]

(* Mqtt_HandlePublish writes a NUL behind the topic: over the high byte of
   the id, or, at QoS 0, where moving the topic has destroyed its length. *)
Damaged(p) ==
  IF p.type # "PUBLISH" THEN p
  ELSE IF p.qos = 0 THEN [p EXCEPT !.type = "BAD"]
  ELSE [p EXCEPT !.id = p.id % 256]

Refused(p) ==
  \/ p.type = "BAD"
  \/ p.type = "PUBLISH" /\ p.qos > 0 /\ p.id = 0

(* Mutant: PUBREL is taken for the end of the exchange. *)
AnswerShort(p) ==
  CASE p.type = "PUBLISH" /\ p.qos = 1 -> <<Pkt("PUBACK", p.id)>>
    [] p.type = "PUBLISH" /\ p.qos = 2 -> <<Pkt("PUBREC", p.id)>>
    [] p.type = "PUBREC"               -> <<Pkt("PUBREL", p.id)>>
    [] OTHER                           -> <<>>

Answer(p) ==
  CASE p.type = "PUBLISH" /\ p.qos = 1 -> <<Pkt("PUBACK", p.id)>>
    [] p.type = "PUBLISH" /\ p.qos = 2 -> <<Pkt("PUBREC", p.id)>>
    [] p.type = "PUBREC"               -> <<Pkt("PUBREL", p.id)>>
    [] p.type = "PUBREL"               -> <<Pkt("PUBCOMP", p.id)>>
    [] OTHER                           -> <<>>

(* The callbacks: handle_publish; handle_pub_ack and handle_pub_comp, which
   tell the user the id. *)
Called(p) ==
  /\ heard' = IF p.type = "PUBLISH" THEN [heard EXCEPT ![p.msg] = @ + 1] ELSE heard
  /\ told' = IF p.type \in {"PUBACK", "PUBCOMP"} THEN told \cup {p.id} ELSE told

Renumbered(p) == p.type = "PUBLISH" /\ p.qos > 0 /\ p.id # MsgId[p.msg]

Meets(p) == IF Renumbered(p) THEN faults \cup {"renumbered"} ELSE faults

Dispatch ==
  /\ pc = "parse"
  /\ cursor < Len(buf)
  /\ ~Refused(Front)
  /\ Called(Front)
  /\ Sends(Answer(Front))
  /\ buf' = [buf EXCEPT ![cursor + 1] = Damaged(Front)]
  /\ cursor' = cursor + 1
  /\ faults' = Meets(Front)
  /\ UNCHANGED <<caller, link, server, toClient, ids, armed, pc>>

(* Mqtt_RecvPkt returns an error with the buffer as it is: the sample ends,
   the other caller polls again. *)
Fail ==
  /\ cursor' = 0
  /\ IF caller = "sample"
     THEN pc' = "exit" /\ Closed
     ELSE pc' = "epoll" /\ UNCHANGED <<open, armed, toClient>>
  /\ UNCHANGED <<caller, conns, peer, server, ids>>

(* The callback was called, but the answer went out in part or not at all. *)
DispatchFails ==
  /\ pc = "parse"
  /\ cursor < Len(buf)
  /\ ~Refused(Front)
  /\ Answer(Front) # <<>>
  /\ Called(Front)
  /\ \E part \in {<<>>, <<Pkt("TORN", 0)>>} : Sends(part)
  /\ buf' = [buf EXCEPT ![cursor + 1] = Damaged(Front)]
  /\ faults' = Meets(Front) \cup (IF caller = "app" THEN {"retried"} ELSE {})
  /\ Fail

Illegal ==
  /\ pc = "parse"
  /\ cursor < Len(buf)
  /\ Refused(Front)
  /\ UNCHANGED <<toServer, buf, app, faults>>
  /\ Fail

(* Mutant: the packets that were dispatched stay in the buffer. *)
FinishKeeps ==
  /\ pc = "parse"
  /\ cursor = Len(buf)
  /\ cursor' = 0
  /\ pc' = "recv"
  /\ UNCHANGED <<caller, link, server, wires, ids, armed, buf, app, faults>>

Finish ==
  /\ pc = "parse"
  /\ cursor = Len(buf)
  /\ buf' = <<>>
  /\ cursor' = 0
  /\ pc' = "recv"
  /\ UNCHANGED <<caller, link, server, wires, ids, armed, app, faults>>

-----------------------------------------------------------------------------
RecvPkt ==
  \/ toClient # <<>> /\ \E n \in {1, Len(toClient)} : RecvData(n)
  \/ RecvAgain
  \/ RecvEof
  \/ Dispatch
  \/ Illegal
  \/ Finish

Next ==
  \/ \E m \in Msgs : Serve(m)
  \/ Hangup
  \/ ServerEof
  \/ ServerReads
  \/ Connect
  \/ Disconnect
  \/ CmdPublish
  \/ Poll
  \/ RecvPkt
  \/ DispatchFails

Spec == Init /\ [][Next]_vars

(* The client's loop runs, and the server reads what it is sent. *)
FairSpec == Spec /\ WF_vars(Poll \/ RecvPkt) /\ WF_vars(ServerReads)

-----------------------------------------------------------------------------
Both == (Msgs \X {"down"}) \cup (Own \X {"up"})

LevelOf == [x \in Both |-> IF x[2] = "down" THEN MsgQos[x[1]] ELSE OwnQos[x[1]]]

HandedOver == [x \in Both |-> IF x[2] = "down" THEN heard[x[1]] ELSE got[x[1]]]

Settled ==
  { x \in Msgs \X {"down"} : MsgQos[x[1]] > 0 /\ down[x[1]] = "done" }
    \cup { x \in Own \X {"up"} : x[1] \in told }

Trouble ==
  IF "renumbered" \in faults THEN "renumbered"
  ELSE IF "retried" \in faults THEN "retried" ELSE "none"

Delivery == INSTANCE MqttDelivery WITH
  Messages <- Both, Level <- LevelOf,
  heard <- HandedOver, settled <- Settled, trouble <- Trouble

(***************************************************************************)
(* mqtt.h:56-60, mqtt.c:390-648.  The exchanges deliver what the levels of *)
(* service promise, whatever connections end: no message is handed over    *)
(* twice, and none is acknowledged in either direction before it has been  *)
(* handed over, unless a caller goes on after an error.                    *)
(***************************************************************************)
Delivers == Delivery!Spec

Broken == ~open \/ ~peer \/ faults # {}

(***************************************************************************)
(* mqtt.c:534-648.  The client answers every step of an exchange, so that  *)
(* each one comes to its end, in both directions at once, unless its       *)
(* connection ends or the client has met an error.                         *)
(***************************************************************************)
Completes ==
  /\ \A m \in Msgs : (MsgQos[m] > 0 /\ down[m] = "sent")
                       ~> (down[m] \in {"done", "dropped"} \/ Broken)
  /\ \A o \in Own : (OwnQos[o] > 0 /\ since < o /\ o <= pktId)
                      ~> (o \in told \/ o <= since \/ Broken)
=============================================================================
