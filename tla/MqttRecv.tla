------------------------------ MODULE MqttRecv ------------------------------
(***************************************************************************)
(* The receiving half of the MQTT SDK (mqtt/sdk/mqtt.c) and the loop that  *)
(* drives it.  Mqtt_RecvPkt appends what read() returns to a buffer of     *)
(* BufSize bytes, dispatches every complete packet at its front to a       *)
(* handler, which answers some of them, and moves the rest to the front.   *)
(* HandleSocket of doc/sample.c, the same code as drv_mqtt_socketHandle of *)
(* mqtt_api.c, calls it until read() has nothing left.                     *)
(*                                                                         *)
(* Bytes are numbers, as the framing is about them; char is unsigned, as   *)
(* it is on the target.  Topics are of single-byte characters, on which    *)
(* Mqtt_CheckUtf8 finds nothing to refuse.  The buffer is the sequence of  *)
(* its bytes up to ctx->pos: no byte beyond pos is ever looked at.         *)
(***************************************************************************)
EXTENDS Integers, Sequences, SequencesExt

CONSTANTS
  Clients,  \* the callers: "sample" stops on an error, "app" polls again
  BufSize,  \* the buf_size of Mqtt_InitContext
  Packets,  \* what the server may send, as sequences of bytes
  MaxPkts,  \* bound: packets on one connection
  MaxConns  \* bound: connections

Byte == 0 .. 255

ASSUME MqttRecvAssumption ==
  /\ Clients \subseteq {"sample", "app"}
  /\ BufSize \in Nat \ {0}
  /\ Packets \subseteq Seq(Byte)
  /\ MaxPkts \in Nat
  /\ MaxConns \in Nat

VARIABLES
  client,   \* which caller this is
  conns,    \* connections so far
  sent,     \* the packets the server has sent on this connection
  input,    \* and their bytes
  eof,      \* the server has closed the connection
  readN,    \* how many bytes of input read() has returned
  open,     \* ctx->mqttfd >= 0
  armed,    \* the socket's registration with epoll
  pc,       \* where the client is
  buf,      \* bgn .. pos
  cursor,   \* cursor - bgn, inside Mqtt_RecvPkt
  base,     \* where in input the first byte of buf comes from
  handled,  \* packets dispatched without error on this connection
  acks,     \* the answers sent on this connection
  closed,   \* why the connection was closed
  faults    \* what has happened that the SDK does not cope with

server == <<client, conns, sent, input, eof>>
loop   == <<open, armed, closed>>
recv   == <<readN, buf, base>>
vars   == <<server, loop, recv, pc, cursor, handled, acks, faults>>

-----------------------------------------------------------------------------
(***************************************************************************)
(* What the server sends are whole packets of MQTT: after the first byte,  *)
(* the length of the rest in one to four digits of 7 bits, the low one     *)
(* first, all but the last marked by their high bit; then the rest.  The   *)
(* SDK refuses the four.                                                   *)
(***************************************************************************)
RemainingLength(p, n) ==
  LET digit(i) == IF i <= n THEN p[i + 1] % 128 ELSE 0
  IN  digit(1) + 128 * (digit(2) + 128 * (digit(3) + 128 * digit(4)))

Framed(p) ==
  \E n \in 1 .. 4 :
    /\ Len(p) > n
    /\ \A i \in 2 .. n : p[i] >= 128
    /\ p[n + 1] < 128
    /\ Len(p) = 1 + n + RemainingLength(p, n)

ASSUME FramingAssumption == \A p \in Packets : Framed(p)

-----------------------------------------------------------------------------
(* Mqtt_RB16. *)
RB16(s, i) == s[i] * 256 + s[i + 1]

(* Mutant: a fourth byte is waited for. *)
ReadLengthFour(s) ==
  LET more(i) == i \in DOMAIN s /\ s[i] >= 128
      last == IF ~more(1) THEN 1 ELSE IF ~more(2) THEN 2 ELSE 3
  IN  IF last \in DOMAIN s /\ ~more(last) THEN last ELSE -1

(* Mqtt_ReadLength: how many bytes the length takes, -1 if they are not all
   there, -2 if the third is not the last. *)
ReadLength(s) ==
  LET more(i) == i \in DOMAIN s /\ s[i] >= 128
      last == IF ~more(1) THEN 1 ELSE IF ~more(2) THEN 2 ELSE 3
  IN  IF more(1) /\ more(2) /\ more(3) THEN -2
      ELSE IF last \in DOMAIN s THEN last
      ELSE -1

LengthValue(s) ==
  LET digit(i) == IF i <= ReadLength(s) THEN s[i] % 128 ELSE 0
  IN  digit(1) + 128 * digit(2) + 128 * 128 * digit(3)

(* Of the bytes from cursor to pos: the length of the first packet, 0 if it
   is not complete, -2 if it is not one. *)
FrameLen(s) ==
  LET bytes == ReadLength(Tail(s))
      len   == 1 + bytes + LengthValue(Tail(s))
  IN  IF Len(s) < 2 THEN 0
      ELSE IF bytes < 0 THEN (IF bytes = -1 THEN 0 ELSE -2)
      ELSE IF len > Len(s) THEN 0 ELSE len

(* The arguments of Mqtt_Dispatch, for a complete packet. *)
Type(p)    == p[1] \div 16
Flags(p)   == p[1] % 16
HeadLen(p) == 1 + ReadLength(Tail(p))
Body(p)    == SubSeq(p, HeadLen(p) + 1, Len(p))

-----------------------------------------------------------------------------
(***************************************************************************)
(* The handlers: what they refuse as MQTTERR_ILLEGAL_PKT, what they answer.*)
(***************************************************************************)
Qos(p)   == (Flags(p) \div 2) % 4
Topic(p) == SubSeq(Body(p), 3, 2 + RB16(Body(p), 1))

FormedPublish(p) ==
  LET b == Body(p)
      n == RB16(b, 1)
  IN  /\ Len(b) >= 2
      /\ Flags(p) % 2 = 0
      /\ Len(b) >= 2 + n
      /\ CASE Qos(p) = 0      -> Flags(p) < 8
           [] Qos(p) \in 1..2 -> n + 4 <= Len(b) /\ RB16(b, n + 3) # 0
           [] OTHER           -> FALSE

LegalPublish(p) ==
  /\ FormedPublish(p)
  /\ \A i \in DOMAIN Topic(p) : Topic(p)[i] \notin {35, 43}

LegalAck(p, flags) ==
  /\ Flags(p) = flags
  /\ Len(Body(p)) = 2
  /\ RB16(Body(p), 1) # 0

LegalSubAck(p) ==
  LET b == Body(p)
  IN  /\ Flags(p) = 0
      /\ Len(b) >= 2
      /\ RB16(b, 1) # 0
      /\ \A i \in 3 .. Len(b) : (b[i] \div 4) % 32 = 0

LegalConnAck(p) ==
  LET b == Body(p)
  IN  /\ Flags(p) = 0
      /\ Len(b) = 2
      /\ b[2] <= 5
      /\ b[1] % 2 = 1 => b[2] = 0

LegalPingResp(p) == Flags(p) = 0 /\ Body(p) = <<>>

(* Mqtt_Dispatch. *)
Legal(p) ==
  CASE Type(p) = 13            -> LegalPingResp(p)
    [] Type(p) = 2             -> LegalConnAck(p)
    [] Type(p) = 3             -> LegalPublish(p)
    [] Type(p) \in {4, 5, 7, 11} -> LegalAck(p, 0)
    [] Type(p) = 6             -> LegalAck(p, 2)
    [] Type(p) = 9             -> LegalSubAck(p)
    [] OTHER                   -> FALSE

(* A topic of the system other than $creq reaches no callback. *)
Ignored(p) ==
  /\ Type(p) = 3
  /\ IsPrefix(<<36>>, Topic(p))
  /\ ~IsPrefix(<<36, 99, 114, 101, 113>>, Topic(p))

PublishId(p) == RB16(Body(p), RB16(Body(p), 1) + 3)

(* The response: PUBACK or PUBREC, PUBREL, PUBCOMP, or none. *)
Answer(p) ==
  CASE Type(p) = 3 /\ Qos(p) = 1 -> <<[type |-> 4, id |-> PublishId(p)]>>
    [] Type(p) = 3 /\ Qos(p) = 2 -> <<[type |-> 5, id |-> PublishId(p)]>>
    [] Type(p) = 5 -> <<[type |-> 6, id |-> RB16(Body(p), 1)]>>
    [] Type(p) = 6 -> <<[type |-> 7, id |-> RB16(Body(p), 1)]>>
    [] OTHER       -> <<>>

(* Mqtt_HandlePublish ends the topic with a NUL in place: over the packet
   id's high byte, or after moving the topic down two bytes. *)
Terminated(p) ==
  LET n == RB16(Body(p), 1)
      h == HeadLen(p)
  IN  IF Type(p) # 3 THEN p
      ELSE IF Qos(p) # 0 THEN [p EXCEPT ![h + n + 3] = 0]
      ELSE [i \in DOMAIN p |-> CASE i \in h + 1 .. h + n -> p[i + 2]
                                 [] i = h + n + 1 -> 0
                                 [] OTHER -> p[i]]

-----------------------------------------------------------------------------
Init ==
  /\ client \in Clients
  /\ conns = 1
  /\ sent = <<>>
  /\ input = <<>>
  /\ eof = FALSE
  /\ readN = 0
  /\ open = TRUE
  /\ armed = "oneshot"
  /\ pc = "epoll"
  /\ buf = <<>>
  /\ cursor = 0
  /\ base = 0
  /\ handled = 0
  /\ acks = <<>>
  /\ closed = "no"
  /\ faults = {}

(* The server. *)
Send(p) ==
  /\ open /\ ~eof
  /\ Len(sent) < MaxPkts
  /\ sent' = Append(sent, p)
  /\ input' = input \o p
  /\ UNCHANGED <<client, conns, eof, loop, recv, pc, cursor, handled, acks, faults>>

Close ==
  /\ open /\ ~eof
  /\ eof' = TRUE
  /\ UNCHANGED <<client, conns, sent, input, loop, recv, pc, cursor, handled, acks, faults>>

-----------------------------------------------------------------------------
(***************************************************************************)
(* epoll_wait returns the socket.  A one-shot registration is used up.     *)
(***************************************************************************)
Poll ==
  /\ pc = "epoll"
  /\ open
  /\ armed # "off"
  /\ readN < Len(input) \/ eof
  /\ pc' = "first"
  /\ armed' = IF armed = "oneshot" THEN "off" ELSE armed
  /\ UNCHANGED <<server, open, closed, recv, cursor, handled, acks, faults>>

(* Mutant: read() is offered the whole buffer. *)
RoomWhole == BufSize

Room == BufSize - Len(buf)

(* read() returns the n bytes that have arrived. *)
RecvData(n) ==
  /\ pc \in {"first", "recv"}
  /\ n <= Room
  /\ buf' = buf \o SubSeq(input, readN + 1, readN + n)
  /\ readN' = readN + n
  /\ cursor' = 0
  /\ pc' = "parse"
  /\ UNCHANGED <<server, loop, base, handled, acks, faults>>

(***************************************************************************)
(* read() returns 0, at the end of the stream or because the buffer is     *)
(* full: MQTTERR_ENDOFFILE either way, and HandleSocket closes the socket. *)
(***************************************************************************)
RecvEof ==
  /\ pc \in {"first", "recv"}
  /\ Room = 0 \/ (eof /\ readN = Len(input))
  /\ buf' = <<>>
  /\ base' = readN
  /\ open' = FALSE
  /\ armed' = "off"
  /\ closed' = IF Room = 0 THEN "full" ELSE "server"
  /\ pc' = "epoll"
  /\ UNCHANGED <<server, readN, cursor, handled, acks, faults>>

(* Mutant: the one-shot registration is not renewed. *)
RecvAgainUnarmed ==
  /\ pc = "recv"
  /\ Room > 0
  /\ pc' = "epoll"
  /\ UNCHANGED <<server, open, armed, closed, recv, cursor, handled, acks, faults>>

(* EAGAIN: nothing more has arrived; back to epoll_wait, level-triggered. *)
RecvAgain ==
  /\ pc = "recv"
  /\ Room > 0
  /\ armed' = "level"
  /\ pc' = "epoll"
  /\ UNCHANGED <<server, open, closed, recv, cursor, handled, acks, faults>>

(***************************************************************************)
(* Mqtt_RecvPkt returns an error: the buffer stays as it is, cursor is     *)
(* lost.  The sample leaves its main loop; mqtt_app.c polls again.         *)
(***************************************************************************)
Fail ==
  /\ pc' = IF client = "sample" THEN "exit" ELSE "epoll"
  /\ cursor' = 0
  /\ faults' = faults \cup {"error"}
  /\ UNCHANGED <<server, loop, readN, base, handled, acks>>

RecvError ==
  /\ pc \in {"first", "recv"}
  /\ Room > 0
  /\ Fail
  /\ UNCHANGED buf

-----------------------------------------------------------------------------
(***************************************************************************)
(* The loop of Mqtt_RecvPkt over the packets in the buffer.                *)
(***************************************************************************)
Rest == SubSeq(buf, cursor + 1, Len(buf))

Frame == SubSeq(buf, cursor + 1, cursor + FrameLen(Rest))

(* The buffer after the handler has written into the packet at cursor. *)
WithFrame(p) ==
  [i \in DOMAIN buf |-> IF i \in cursor + 1 .. cursor + Len(p)
                        THEN p[i - cursor] ELSE buf[i]]

(* Mutant: the answer is made from the packet after its NUL was written. *)
DispatchLate ==
  /\ pc = "parse"
  /\ FrameLen(Rest) > 0
  /\ Legal(Frame)
  /\ buf' = WithFrame(Terminated(Frame))
  /\ cursor' = cursor + Len(Frame)
  /\ handled' = handled + 1
  /\ acks' = acks \o Answer(Terminated(Frame))
  /\ UNCHANGED <<server, loop, readN, base, pc, faults>>

(* The packet at cursor is legal, its callback and its answer succeed. *)
Dispatch ==
  /\ pc = "parse"
  /\ FrameLen(Rest) > 0
  /\ Legal(Frame)
  /\ buf' = WithFrame(Terminated(Frame))
  /\ cursor' = cursor + Len(Frame)
  /\ handled' = handled + 1
  /\ acks' = acks \o Answer(Frame)
  /\ UNCHANGED <<server, loop, readN, base, pc, faults>>

(* Its callback returns an error, or its answer cannot be packed or sent. *)
DispatchFails ==
  /\ pc = "parse"
  /\ FrameLen(Rest) > 0
  /\ Legal(Frame)
  /\ ~Ignored(Frame) \/ Answer(Frame) # <<>>
  /\ buf' = WithFrame(Terminated(Frame))
  /\ Fail

(* It is not a packet, or a handler refuses it; a PUBLISH refused for its
   topic has its NUL by then. *)
Illegal ==
  /\ pc = "parse"
  /\ \/ FrameLen(Rest) = -2 /\ UNCHANGED buf
     \/ /\ FrameLen(Rest) > 0
        /\ ~Legal(Frame)
        /\ buf' = IF Type(Frame) = 3 /\ FormedPublish(Frame)
                  THEN WithFrame(Terminated(Frame)) ELSE buf
  /\ Fail

(* memmove(bgn, cursor, cursor - bgn) moves as many bytes as were consumed,
   not as many as are left: further ones stay where they were. *)
Compacted ==
  [i \in 1 .. Len(buf) - cursor |-> IF i <= cursor THEN buf[cursor + i] ELSE buf[i]]

(* Mutant: the bytes consumed stay in the buffer. *)
FinishKeeps ==
  /\ pc = "parse"
  /\ FrameLen(Rest) = 0
  /\ base' = base + cursor
  /\ faults' = IF cursor > 0 /\ Len(buf) > 2 * cursor
               THEN faults \cup {"leftover"} ELSE faults
  /\ cursor' = 0
  /\ pc' = "recv"
  /\ UNCHANGED <<buf, server, loop, readN, handled, acks>>

(* What is left is no complete packet: MQTTERR_NOERROR, call again. *)
Finish ==
  /\ pc = "parse"
  /\ FrameLen(Rest) = 0
  /\ buf' = IF cursor > 0 THEN Compacted ELSE buf
  /\ base' = base + cursor
  /\ faults' = IF cursor > 0 /\ Len(buf) > 2 * cursor
               THEN faults \cup {"leftover"} ELSE faults
  /\ cursor' = 0
  /\ pc' = "recv"
  /\ UNCHANGED <<server, loop, readN, handled, acks>>

-----------------------------------------------------------------------------
(***************************************************************************)
(* The sample's commands disconnect and connect.  Neither touches          *)
(* ctx->pos: what the old connection left is parsed with the new one.      *)
(***************************************************************************)
Disconnect ==
  /\ client = "sample"
  /\ pc = "epoll"
  /\ open
  /\ open' = FALSE
  /\ armed' = "off"
  /\ closed' = "user"
  /\ UNCHANGED <<server, recv, pc, cursor, handled, acks, faults>>

Connect ==
  /\ client = "sample"
  /\ pc = "epoll"
  /\ conns < MaxConns
  /\ conns' = conns + 1
  /\ sent' = <<>>
  /\ input' = <<>>
  /\ eof' = FALSE
  /\ readN' = 0
  /\ base' = 0
  /\ handled' = 0
  /\ acks' = <<>>
  /\ open' = TRUE
  /\ armed' = "oneshot"
  /\ closed' = "no"
  /\ faults' = IF buf # <<>> THEN faults \cup {"stale"} ELSE faults
  /\ UNCHANGED <<client, pc, buf, cursor>>

(* The connection is refused: the command returns -1 and the sample ends. *)
ConnectFails ==
  /\ client = "sample"
  /\ pc = "epoll"
  /\ conns < MaxConns
  /\ open' = FALSE
  /\ armed' = "off"
  /\ closed' = "user"
  /\ pc' = "exit"
  /\ UNCHANGED <<server, recv, cursor, handled, acks, faults>>

-----------------------------------------------------------------------------
RecvPkt ==
  \/ \E n \in 1 .. Len(input) - readN : RecvData(n)
  \/ RecvEof
  \/ RecvAgain
  \/ Dispatch
  \/ Illegal
  \/ Finish

Next ==
  \/ \E p \in Packets : Send(p)
  \/ Close
  \/ Poll
  \/ RecvPkt
  \/ RecvError
  \/ DispatchFails
  \/ Disconnect
  \/ Connect
  \/ ConnectFails

Spec == Init /\ [][Next]_vars

(* The client is one loop that runs whenever epoll_wait has something. *)
FairSpec == Spec /\ WF_vars(Poll \/ RecvPkt)

-----------------------------------------------------------------------------
TypeOK ==
  /\ client \in {"sample", "app"}
  /\ conns \in Nat
  /\ sent \in Seq(Packets)
  /\ input \in Seq(Byte)
  /\ eof \in BOOLEAN
  /\ readN \in 0 .. Len(input)
  /\ open \in BOOLEAN
  /\ armed \in {"off", "oneshot", "level"}
  /\ pc \in {"epoll", "first", "recv", "parse", "exit"}
  /\ buf \in Seq(Byte)
  /\ Len(buf) <= BufSize
  /\ cursor \in 0 .. Len(buf)
  /\ base \in Nat
  /\ handled \in Nat
  /\ acks \in Seq([type : 4 .. 7, id : Nat])
  /\ closed \in {"no", "server", "full", "user"}
  /\ faults \subseteq {"leftover", "stale", "error"}

(***************************************************************************)
(* mqtt.c:783-830.  However the stream is cut into reads, the bytes in the *)
(* buffer that are still to be parsed are the stream's next bytes: none is *)
(* lost, doubled or moved.                                                 *)
(***************************************************************************)
InPlace ==
  /\ readN = base + Len(buf)
  /\ \A i \in cursor + 1 .. Len(buf) : buf[i] = input[base + i]

BufferInPlace == faults = {} => InPlace

(***************************************************************************)
(* mqtt.c:790-820, 539-567.  The parser stays in step with the packets: it *)
(* has consumed exactly the packets it has dispatched, and has sent for    *)
(* each its answer, with the id that the packet carried when it was sent.  *)
(***************************************************************************)
Consumed == SubSeq(sent, 1, handled)

InStep ==
  (faults = {} /\ open) =>
    /\ base + cursor = Len(FlattenSeq(Consumed))
    /\ acks = FlattenSeq([i \in 1 .. handled |-> Answer(Consumed[i])])

(***************************************************************************)
(* mqtt.c:774-779.  The client drops a connection that the server has not  *)
(* closed only when a packet is longer than the whole buffer.              *)
(***************************************************************************)
DropsOnlyOversized ==
  (faults = {} /\ closed = "full") =>
    \E i \in DOMAIN sent : Len(sent[i]) > BufSize

(***************************************************************************)
(* sample.c:869-924.  Every packet that has arrived is dispatched in the   *)
(* end, though the first registration is one-shot and edge-triggered,      *)
(* unless the connection ends or one of the faults has happened.           *)
(***************************************************************************)
Dispatched ==
  (open /\ handled < Len(sent)) ~>
    (handled = Len(sent) \/ ~open \/ faults # {} \/ pc = "exit")

(***************************************************************************)
(* mqtt.h:210-214: Mqtt_RecvPkt receives the packets and calls their       *)
(* handlers; the bytes of an incomplete packet behind a complete one       *)
(* survive until the rest of it has arrived.                               *)
(***************************************************************************)
LeftoverKept == faults \subseteq {"leftover"} => InPlace
=============================================================================
