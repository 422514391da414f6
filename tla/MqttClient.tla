----------------------------- MODULE MqttClient -----------------------------
(***************************************************************************)
(* The MQTT client of mqtt/doc/sample.c: one thread that waits in          *)
(* epoll_wait for a command on stdin or for its socket, and Mqtt_SendPkt   *)
(* of the SDK, which writes the packet in mqttbuf from an offset on.  The  *)
(* kernel may take only a part of a packet; the client then remembers how  *)
(* much (sendedbytes) and goes on when the socket is writable.             *)
(*                                                                         *)
(* A packet is its extents, a byte is known by its packet and its place.   *)
(* Receiving is one packet a call: module MqttRecv has its detail.  The    *)
(* addresses of an extent's header and payload are those of a 32-bit       *)
(* target, where payload + (offset - bytes) wraps to payload - d.          *)
(***************************************************************************)
EXTENDS Integers, Sequences, SequencesExt

CONSTANTS
  Shape,     \* the lengths of the extents that each kind of packet is packed into
  MaxTyped,  \* bound: commands typed
  MaxInput   \* bound: packets from the server

(* ping stands for every command that packs one packet behind what is in the
   buffer: subscribe, unsubscribe and cmdret as well. *)
Commands == {"connect", "ping", "publish", "push_dp", "disconnect", "help", "exit"}

(* The packets that commands and HandleCmd pack. *)
Kinds == {"connect", "ping", "publish", "push_dp", "disconnect", "cmdret"}

ASSUME MqttClientAssumption ==
  /\ Shape \in [Kinds -> Seq(Nat \ {0})]
  /\ \A k \in Kinds : Shape[k] # <<>>
  /\ MaxTyped \in Nat
  /\ MaxInput \in Nat

VARIABLES
  typed,     \* the command waiting on stdin, or "none"
  typedN,    \* how many commands have been typed
  inputs,    \* how many packets the server has sent
  incoming,  \* those not read yet: "ack me", "command" or "other"
  eof,       \* the server has closed the connection
  fd,        \* "none" before the first connect, then "open" or "closed"
  interest,  \* the events of the socket that epoll watches
  oneshot,   \* whether it stops after reporting one
  batch,     \* events[]: what epoll_wait returned and is not handled yet
  pc,        \* where the client is
  mqttbuf,   \* the extents packed
  sended,    \* sendedbytes
  packed,    \* how many packets have been packed
  wire,      \* the bytes written to this connection
  due,       \* the bytes that are to be on it, in their order
  faults     \* what has happened that the client does not cope with

user   == <<typed, typedN>>
server == <<inputs, incoming, eof>>
epoll  == <<interest, oneshot>>
out    == <<mqttbuf, sended, packed, wire, due>>
vars   == <<user, server, fd, epoll, batch, pc, out, faults>>

-----------------------------------------------------------------------------
(***************************************************************************)
(* Packets and their bytes.                                                *)
(***************************************************************************)
Extents(kind) ==
  [i \in DOMAIN Shape[kind] |-> [pkt |-> packed + 1, kind |-> kind, ext |-> i,
                                 len |-> Shape[kind][i]]]

ExtentBytes(e) == [i \in 1 .. e.len |-> [pkt |-> e.pkt, kind |-> e.kind, at |-> <<e.ext, i>>]]

Bytes(exts) == FlattenSeq([i \in DOMAIN exts |-> ExtentBytes(exts[i])])

AckByte == [pkt |-> 0, kind |-> "ack", at |-> <<1, 1>>]

(* A byte of an extent's header, in front of its payload. *)
HeaderByte == [pkt |-> 0, kind |-> "header", at |-> <<1, 1>>]

(* buffered_bytes. *)
Buffered(exts) == FoldSeq(LAMBDA e, sum : e.len + sum, 0, exts)

(* How many bytes the first k extents hold. *)
Before(exts, k) == Buffered(SubSeq(exts, 1, k))

(* The extents that Mqtt_SendPkt skips: until their bytes reach offset. *)
Skipped(exts, offset) ==
  CHOOSE k \in 0 .. Len(exts) :
    /\ Before(exts, k) >= offset
    /\ \A j \in 0 .. k - 1 : Before(exts, j) < offset

(* Mutant: the extents that end at offset are not skipped. *)
GatheredTwice(exts, offset) ==
  IF offset = 0 THEN Bytes(exts)
  ELSE Bytes(SubSeq(exts, Skipped(exts, offset), Len(exts)))

(***************************************************************************)
(* The iovec of Mqtt_SendPkt.  When offset lies inside an extent, that one *)
(* is skipped as a whole and the next is sent with as many bytes from in   *)
(* front of its payload; when that was the last one, nothing is sent.      *)
(***************************************************************************)
Gathered(exts, offset) ==
  LET k == Skipped(exts, offset)
      d == Before(exts, k) - offset
  IN  IF offset >= Buffered(exts) \/ k = Len(exts) THEN <<>>
      ELSE [i \in 1 .. d |-> HeaderByte] \o Bytes(SubSeq(exts, k + 1, Len(exts)))

(* offset is where an extent begins. *)
OnBoundary(exts, offset) == \E k \in 0 .. Len(exts) : Before(exts, k) = offset

Init ==
  /\ typed = "none"
  /\ typedN = 0
  /\ inputs = 0
  /\ incoming = <<>>
  /\ eof = FALSE
  /\ fd = "none"
  /\ interest = {}
  /\ oneshot = FALSE
  /\ batch = <<>>
  /\ pc = "main"
  /\ mqttbuf = <<>>
  /\ sended = -1
  /\ packed = 0
  /\ wire = <<>>
  /\ due = <<>>
  /\ faults = {}

-----------------------------------------------------------------------------
(* The user and the server. *)
Type(c) ==
  /\ typed = "none"
  /\ pc # "exit"
  /\ typedN < MaxTyped
  /\ typed' = c
  /\ typedN' = typedN + 1
  /\ UNCHANGED <<server, fd, epoll, batch, pc, out, faults>>

Serve(p) ==
  /\ fd = "open" /\ ~eof
  /\ wire # <<>>
  /\ inputs < MaxInput
  /\ inputs' = inputs + 1
  /\ incoming' = Append(incoming, p)
  /\ UNCHANGED <<user, eof, fd, epoll, batch, pc, out, faults>>

Hangup ==
  /\ fd = "open" /\ ~eof
  /\ eof' = TRUE
  /\ UNCHANGED <<user, inputs, incoming, fd, epoll, batch, pc, out, faults>>

-----------------------------------------------------------------------------
(***************************************************************************)
(* epoll_wait, two events at most: the socket's, when it has something to  *)
(* read or, as the kernel pleases, room to write, and stdin's.  main       *)
(* renews the registration of stdin after every event.                     *)
(***************************************************************************)
Ready(f) ==
  /\ f \subseteq interest
  /\ "in" \in f <=> "in" \in interest /\ (incoming # <<>> \/ eof)

Batches(f) ==
  LET stdin == IF typed # "none" THEN <<{"stdin"}>> ELSE <<>>
      sock  == IF f # {} THEN <<f>> ELSE <<>>
  IN  {stdin \o sock, sock \o stdin}

Poll(f) ==
  /\ pc = "main"
  /\ batch = <<>>
  /\ Ready(f)
  /\ batch' \in Batches(f) \ {<<>>}
  /\ IF f # {} /\ oneshot THEN interest' = {} ELSE UNCHANGED interest
  /\ UNCHANGED <<user, server, fd, oneshot, pc, out, faults>>

Exit ==
  /\ pc' = "exit"
  /\ batch' = <<>>
  /\ UNCHANGED <<server, fd, epoll>>

Watch(events, once) == interest' = events /\ oneshot' = once

-----------------------------------------------------------------------------
(***************************************************************************)
(* MqttSample_HandleStdin.                                                 *)
(***************************************************************************)
AtStdin == pc = "main" /\ batch # <<>> /\ batch[1] = {"stdin"}

(* A packet is only half sent: the command stays where it is. *)
StdinBusy ==
  /\ AtStdin
  /\ sended # -1
  /\ batch' = Tail(batch)
  /\ UNCHANGED <<user, server, fd, epoll, pc, out, faults>>

(* exit, a packet that cannot be packed, a connect that is refused, push_dp
   with something packed already. *)
StdinFails ==
  /\ AtStdin
  /\ sended = -1
  /\ typed \notin {"help", "publish"}
  /\ typed' = "none"
  /\ Exit
  /\ UNCHANGED <<typedN, out, faults>>

(* The publish functions initialise the buffer first, whatever is in it. *)
PackAnew(c) == Extents(c)

(* The others pack behind what is there. *)
PackBehind(c) == mqttbuf \o Extents(c)

(* Mutant: connect initialises the buffer, too. *)
PackedByInit(c) ==
  CASE c = "help"                   -> mqttbuf
    [] c \in {"publish", "connect"} -> PackAnew(c)
    [] OTHER                        -> PackBehind(c)

(* The packets in mqttbuf once the command has been executed. *)
PackedBy(c) ==
  CASE c = "help"    -> mqttbuf
    [] c = "publish" -> PackAnew(c)
    [] OTHER         -> PackBehind(c)

(* All that is in the buffer then becomes due, on a new connection as well. *)
DueBy(c) == (IF c = "connect" THEN <<>> ELSE due) \o Bytes(PackedBy(c))

Counted(c) == IF c = "help" THEN packed ELSE packed + 1

CommandFaults(c) ==
  (IF c = "publish" /\ mqttbuf # <<>> THEN {"discarded"} ELSE {})
    \cup (IF c = "connect" /\ mqttbuf # <<>> THEN {"early"} ELSE {})

(* connect opens a socket, in place of the one it may have closed. *)
Sock(c) == IF c = "connect" THEN "open" ELSE fd

Execute(c) ==
  /\ AtStdin
  /\ sended = -1
  /\ typed = c
  /\ c = "push_dp" => mqttbuf = <<>>
  /\ typed' = "none"
  /\ UNCHANGED typedN
  /\ packed' = Counted(c)
  /\ due' = DueBy(c)
  /\ IF c = "connect"
     THEN incoming' = <<>> /\ eof' = FALSE /\ UNCHANGED inputs
     ELSE UNCHANGED server

(* Mutant: the buffer is not reset. *)
StdinSentKeeps(c) ==
  /\ Execute(c)
  /\ PackedBy(c) = <<>> \/ Sock(c) = "open"
  /\ wire' = (IF c = "connect" THEN <<>> ELSE wire) \o Bytes(PackedBy(c))
  /\ mqttbuf' = PackedBy(c)
  /\ UNCHANGED sended
  /\ batch' = Tail(batch)
  /\ CASE c = "disconnect" -> fd' = "closed" /\ Watch({}, FALSE)
       [] c = "connect"    -> fd' = "open" /\ Watch({"in"}, TRUE)
       [] OTHER            -> UNCHANGED <<fd, epoll>>
  /\ faults' = faults \cup CommandFaults(c)
  /\ UNCHANGED pc

(* Mqtt_SendPkt has taken everything: the buffer is reset, disconnect closes
   the socket. *)
StdinSent(c) ==
  /\ Execute(c)
  /\ PackedBy(c) = <<>> \/ Sock(c) = "open"
  /\ wire' = (IF c = "connect" THEN <<>> ELSE wire) \o Bytes(PackedBy(c))
  /\ mqttbuf' = <<>>
  /\ UNCHANGED sended
  /\ batch' = Tail(batch)
  /\ CASE c = "disconnect" -> fd' = "closed" /\ Watch({}, FALSE)
       [] c = "connect"    -> fd' = "open" /\ Watch({"in"}, TRUE)
       [] OTHER            -> UNCHANGED <<fd, epoll>>
  /\ faults' = faults \cup CommandFaults(c)
  /\ UNCHANGED pc

(* Mutant: the rest is not waited for. *)
StdinPartUnwatched(c, n) ==
  /\ Execute(c)
  /\ Sock(c) = "open"
  /\ n < Buffered(PackedBy(c))
  /\ wire' = (IF c = "connect" THEN <<>> ELSE wire) \o SubSeq(Bytes(PackedBy(c)), 1, n)
  /\ mqttbuf' = PackedBy(c)
  /\ sended' = n
  /\ batch' = Tail(batch)
  /\ fd' = Sock(c)
  /\ Watch({"in"}, TRUE)
  /\ faults' = faults \cup CommandFaults(c)
       \cup (IF OnBoundary(PackedBy(c), n) THEN {} ELSE {"split"})
  /\ UNCHANGED pc

(* It has taken n bytes: wait for EPOLLOUT. *)
StdinPart(c, n) ==
  /\ Execute(c)
  /\ Sock(c) = "open"
  /\ n < Buffered(PackedBy(c))
  /\ wire' = (IF c = "connect" THEN <<>> ELSE wire) \o SubSeq(Bytes(PackedBy(c)), 1, n)
  /\ mqttbuf' = PackedBy(c)
  /\ sended' = n
  /\ batch' = Tail(batch)
  /\ fd' = Sock(c)
  /\ Watch({"in", "out"}, TRUE)
  /\ faults' = faults \cup CommandFaults(c)
       \cup (IF OnBoundary(PackedBy(c), n) THEN {} ELSE {"split"})
  /\ UNCHANGED pc

(* publish cannot pack its packet: it has emptied the buffer and goes on. *)
StdinUnpacked ==
  /\ AtStdin
  /\ sended = -1
  /\ typed = "publish"
  /\ typed' = "none"
  /\ mqttbuf' = <<>>
  /\ batch' = Tail(batch)
  /\ faults' = faults \cup CommandFaults("publish")
  /\ UNCHANGED <<typedN, server, fd, epoll, pc, sended, packed, wire, due>>

(* sendmsg fails, also for want of a connection or of any room. *)
StdinUnsent(c) ==
  /\ AtStdin
  /\ sended = -1
  /\ typed = c
  /\ PackedBy(c) # <<>>
  /\ typed' = "none"
  /\ Exit
  /\ UNCHANGED <<typedN, out, faults>>

-----------------------------------------------------------------------------
(***************************************************************************)
(* MqttSample_HandleSocket: first EPOLLIN ...                              *)
(***************************************************************************)
Events == batch[1]

HandleSocket ==
  /\ pc = "main"
  /\ batch # <<>>
  /\ batch[1] # {"stdin"}
  /\ pc' = IF "in" \in Events THEN "recv" ELSE "out"
  /\ UNCHANGED <<user, server, fd, epoll, batch, out, faults>>

(* read() returns 0: the connection is over, what was half sent remains. *)
RecvEof ==
  /\ pc = "recv"
  /\ fd = "open"
  /\ incoming = <<>> /\ eof
  /\ fd' = "closed"
  /\ Watch({}, FALSE)
  /\ faults' = IF sended # -1 THEN faults \cup {"cut off"} ELSE faults
  /\ pc' = "main"
  /\ batch' = Tail(batch)
  /\ UNCHANGED <<user, server, out>>

(* The socket was closed by the stdin event before this one: EBADF.  Any
   other error of Mqtt_RecvPkt ends the client, too. *)
RecvError ==
  /\ pc = "recv"
  /\ Exit
  /\ UNCHANGED <<user, out, faults>>

RecvAgain ==
  /\ pc = "recv"
  /\ fd = "open"
  /\ incoming = <<>>
  /\ pc' = "out"
  /\ UNCHANGED <<user, server, fd, epoll, batch, out, faults>>

(* The SDK writes its answer at once, wherever sendedbytes stands. *)
RecvAnswered ==
  /\ incoming[1] = "ack me"
  /\ wire' = Append(wire, AckByte)
  /\ due' = Append(due, AckByte)
  /\ faults' = IF sended # -1 THEN faults \cup {"mixed"} ELSE faults
  /\ UNCHANGED <<mqttbuf, sended, packed>>

(* MqttSample_HandleCmd packs its reply behind what is in mqttbuf: it goes
   out with the packet being sent, or waits for the next command. *)
RecvCommand ==
  /\ incoming[1] = "command"
  /\ packed' = packed + 1
  /\ mqttbuf' = mqttbuf \o Extents("cmdret")
  /\ due' = IF sended # -1 THEN due \o Bytes(Extents("cmdret")) ELSE due
  /\ UNCHANGED <<sended, wire, faults>>

RecvOther == incoming[1] = "other" /\ UNCHANGED <<out, faults>>

RecvPkt ==
  /\ pc = "recv"
  /\ fd = "open"
  /\ incoming # <<>>
  /\ RecvAnswered \/ RecvCommand \/ RecvOther
  /\ incoming' = Tail(incoming)
  /\ UNCHANGED <<user, inputs, eof, fd, epoll, batch, pc>>

-----------------------------------------------------------------------------
(***************************************************************************)
(* ... then EPOLLOUT, then the registration: EPOLLOUT is part of it only   *)
(* if this very event has sent something and not all.                      *)
(***************************************************************************)
Rewatch(events) ==
  /\ pc' = "main"
  /\ batch' = Tail(batch)
  /\ IF fd = "open" THEN Watch(events, FALSE) ELSE UNCHANGED epoll
  /\ UNCHANGED <<user, server, fd>>

OutIdle ==
  /\ pc = "out"
  /\ "out" \notin Events \/ sended = -1
  /\ Rewatch({"in"})
  /\ faults' = IF sended # -1 THEN faults \cup {"unwatched"} ELSE faults
  /\ UNCHANGED out

Sending ==
  /\ pc = "out"
  /\ "out" \in Events
  /\ sended # -1

OutPart(n) ==
  /\ Sending
  /\ n <= Len(Gathered(mqttbuf, sended))
  /\ n < Buffered(mqttbuf) - sended
  /\ n = 0 => Gathered(mqttbuf, sended) = <<>>
  /\ wire' = wire \o SubSeq(Gathered(mqttbuf, sended), 1, n)
  /\ sended' = sended + n
  /\ Rewatch({"in", "out"})
  /\ faults' = faults \cup (IF OnBoundary(mqttbuf, sended + n) THEN {} ELSE {"split"})
  /\ UNCHANGED <<mqttbuf, packed, due>>

(* Mutant: sendedbytes does not go back to -1. *)
OutDoneCounts ==
  /\ Sending
  /\ Len(Gathered(mqttbuf, sended)) = Buffered(mqttbuf) - sended
  /\ wire' = wire \o Gathered(mqttbuf, sended)
  /\ sended' = Buffered(mqttbuf)
  /\ mqttbuf' = <<>>
  /\ Rewatch({"in"})
  /\ UNCHANGED <<packed, due, faults>>

OutDone ==
  /\ Sending
  /\ Len(Gathered(mqttbuf, sended)) = Buffered(mqttbuf) - sended
  /\ wire' = wire \o Gathered(mqttbuf, sended)
  /\ sended' = -1
  /\ mqttbuf' = <<>>
  /\ Rewatch({"in"})
  /\ UNCHANGED <<packed, due, faults>>

OutError ==
  /\ Sending
  /\ Gathered(mqttbuf, sended) # <<>>
  /\ Exit
  /\ UNCHANGED <<user, out, faults>>

-----------------------------------------------------------------------------
Stdin ==
  \/ StdinBusy
  \/ StdinUnpacked
  \/ \E c \in Commands \ {"exit"} :
       \/ StdinSent(c)
       \/ \E n \in 1 .. Buffered(PackedBy(c)) : StdinPart(c, n)

Socket ==
  \/ HandleSocket
  \/ RecvEof
  \/ RecvAgain
  \/ RecvPkt
  \/ OutIdle
  \/ \E n \in 0 .. Buffered(mqttbuf) : OutPart(n)
  \/ OutDone

Fails ==
  \/ StdinFails
  \/ \E c \in Commands \ {"exit"} : StdinUnsent(c)
  \/ RecvError
  \/ OutError

Next ==
  \/ \E c \in Commands : Type(c)
  \/ \E p \in {"ack me", "command", "other"} : Serve(p)
  \/ Hangup
  \/ \E f \in SUBSET {"in", "out"} : Poll(f)
  \/ Stdin
  \/ Socket
  \/ Fails

Spec == Init /\ [][Next]_vars

(***************************************************************************)
(* The thread runs whenever epoll_wait has an event or an event is to be   *)
(* handled, and a peer that keeps the connection reads: a socket watched   *)
(* for room to write is reported again and again.                          *)
(***************************************************************************)
FairSpec ==
  /\ Spec
  /\ WF_vars((\E f \in SUBSET {"in", "out"} : Poll(f)) \/ Stdin \/ Socket \/ Fails)
  /\ SF_vars(Poll({"out"}) \/ Poll({"in", "out"}))

-----------------------------------------------------------------------------
TypeOK ==
  /\ typed \in Commands \cup {"none"}
  /\ typedN \in Nat
  /\ inputs \in Nat
  /\ incoming \in Seq({"ack me", "command", "other"})
  /\ eof \in BOOLEAN
  /\ fd \in {"none", "open", "closed"}
  /\ interest \subseteq {"in", "out"}
  /\ oneshot \in BOOLEAN
  /\ batch \in Seq(SUBSET {"stdin", "in", "out"})
  /\ Len(batch) <= 2
  /\ pc \in {"main", "recv", "out", "exit"}
  /\ \A i \in DOMAIN mqttbuf : mqttbuf[i].kind \in Kinds
  /\ sended \in -1 .. Buffered(mqttbuf)
  /\ packed \in Nat
  /\ faults \subseteq {"split", "mixed", "discarded", "early", "cut off", "unwatched"}

(***************************************************************************)
(* sample.c:841-864, 903-920 with mqtt.c:833-884.  Over any number of      *)
(* partial writes, what is on the wire and what is still to be sent of     *)
(* mqttbuf make up exactly the packets handed over and the answers, in     *)
(* order: no byte is sent twice or left out.  It takes that every part     *)
(* ended with an extent and that nothing was answered inside a packet.     *)
(***************************************************************************)
Unsent == IF sended = -1 THEN <<>>
          ELSE SubSeq(Bytes(mqttbuf), sended + 1, Buffered(mqttbuf))

WireExact ==
  (fd = "open" /\ pc # "exit" /\ faults \cap {"split", "mixed"} = {}) =>
    wire \o Unsent = due

(***************************************************************************)
(* sample.c:341-347, 421-529, 859, 912.  A packet leaves the buffer only   *)
(* when its last byte is on the wire: a reply that HandleCmd has packed is *)
(* sent with the next command, except by publish, which throws it away.    *)
(***************************************************************************)
RepliesSurvive ==
  [][\A i \in DOMAIN mqttbuf :
       \/ mqttbuf[i] \in Range(mqttbuf')
       \/ Last(ExtentBytes(mqttbuf[i])) \in Range(wire')
       \/ faults' \cap {"discarded", "split"} # {}]_vars

(***************************************************************************)
(* sample.c:814-817, 859.  A packet the user asked for never stays behind  *)
(* in the buffer: when the client is ready for a command, only replies to  *)
(* the server's commands are in it.                                        *)
(***************************************************************************)
OnlyRepliesWait ==
  (pc = "main" /\ sended = -1) => \A i \in DOMAIN mqttbuf : mqttbuf[i].kind = "cmdret"

(***************************************************************************)
(* sample.c:814-817.  A command typed while a packet is half sent is       *)
(* executed once the rest has been written, unless a part ended inside an  *)
(* extent, EPOLLOUT was dropped from the registration, or the connection   *)
(* was lost.                                                               *)
(***************************************************************************)
StdinServed ==
  (typed # "none") ~>
    \/ typed = "none"
    \/ pc = "exit"
    \/ faults \cap {"split", "unwatched", "cut off"} # {}

(***************************************************************************)
(* sample.c:815: "There are something to be send, please wait a moment to  *)
(* retry": the wait ends.                                                  *)
(***************************************************************************)
StdinUnblocked ==
  (typed # "none") ~> (typed = "none" \/ pc = "exit")
=============================================================================
