--------------------------- MODULE MqttRecvProofs ---------------------------
(***************************************************************************)
(* For every size of the buffer, every set of packets and every way of     *)
(* cutting the stream into reads: the parser never leaves its buffer, and  *)
(* the bytes still to be parsed are the stream's next bytes.               *)
(***************************************************************************)
EXTENDS MqttRecv, SequenceFacts

(***************************************************************************)
(* The strengthening of BufferInPlace: between two calls of Mqtt_RecvPkt   *)
(* nothing is consumed that has not been moved away.                       *)
(***************************************************************************)
CursorReset == pc # "parse" => cursor = 0

-----------------------------------------------------------------------------
(* Mqtt_ReadLength never reports more bytes than there are, nor more than 3. *)
LEMMA LengthRange ==
  ASSUME NEW s \in Seq(Byte)
  PROVE  /\ ReadLength(s) \in {-2, -1, 1, 2, 3}
         /\ ReadLength(s) <= Len(s)
BY DEF ReadLength, Byte

(* The low seven bits of a byte are a number. *)
LEMMA LowBits ==
  ASSUME NEW n \in 0 .. 255
  PROVE  n % 128 \in Nat
OBVIOUS

(* The value that it decodes is a number. *)
LEMMA LengthNat ==
  ASSUME NEW s \in Seq(Byte)
  PROVE  LengthValue(s) \in Nat
<1> DEFINE digit(i) == IF i <= ReadLength(s) THEN s[i] % 128 ELSE 0
<1>1. ASSUME NEW i \in 1 .. 3
      PROVE  digit(i) \in Nat
  <2>1. CASE i <= ReadLength(s)
    <3>1. i \in 1 .. Len(s)
      BY <2>1, LengthRange
    <3>2. s[i] \in 0 .. 255
      <4>1. s[i] \in Byte
        BY <3>1
      <4>2. QED
        BY <4>1, Zenon DEF Byte
    <3>3. s[i] % 128 \in Nat
      BY <3>2, LowBits, Zenon
    <3>4. digit(i) = s[i] % 128
      BY <2>1, Zenon
    <3>5. QED
      BY <3>3, <3>4, Zenon
  <2>2. CASE ~(i <= ReadLength(s))
    <3>1. digit(i) = 0
      BY <2>2, Zenon
    <3>2. QED
      BY <3>1
  <2>3. QED
    BY <2>1, <2>2, Zenon
<1>2. digit(1) \in Nat /\ digit(2) \in Nat /\ digit(3) \in Nat
  BY <1>1
<1> HIDE DEF digit
<1>3. digit(1) + 128 * digit(2) + 128 * 128 * digit(3) \in Nat
  BY <1>2
<1>4. QED
  BY <1>3 DEF LengthValue, digit

(* It looks only at the bytes that it reports. *)
LEMMA LengthOfPrefix ==
  ASSUME NEW s \in Seq(Byte), NEW t \in Seq(Byte),
         ReadLength(s) > 0,
         ReadLength(s) <= Len(t),
         Len(t) <= Len(s),
         \A i \in 1 .. Len(t) : t[i] = s[i]
  PROVE  ReadLength(t) = ReadLength(s)
BY DEF ReadLength, Byte

(* A whole packet of MQTT is read as one, or is refused for its length. *)
LEMMA FramedParses ==
  ASSUME NEW p \in Seq(Byte), Framed(p)
  PROVE  p # <<>> /\ FrameLen(p) \in {Len(p), -2}
<1>1. PICK n \in 1 .. 4 :
        /\ Len(p) > n /\ p[n + 1] < 128 /\ Len(p) = 1 + n + RemainingLength(p, n)
        /\ \A i \in 2 .. n : p[i] >= 128
  BY DEF Framed
<1>2. PICK t \in Seq(Byte) :
        t = Tail(p) /\ Len(t) = Len(p) - 1 /\ \A i \in 1 .. Len(t) : t[i] = p[i + 1]
  <2>1. Len(p) \in Nat /\ Len(p) >= 1 /\ p # <<>>
    BY <1>1, EmptySeq
  <2>2. Tail(p) \in Seq(Byte) /\ Len(Tail(p)) = Len(p) - 1
    BY <2>1
  <2>3. \A i \in 1 .. Len(p) - 1 : Tail(p)[i] = p[i + 1]
    BY <2>1
  <2>4. QED
    BY <2>2, <2>3
<1>3. Len(p) >= 2 /\ p # <<>> /\ Len(t) \in Nat /\ n \in 1 .. Len(t) /\ DOMAIN t = 1 .. Len(t)
  BY <1>1, <1>2, EmptySeq
<1>4. \A i \in 1 .. Len(t) : t[i] \in 0 .. 255
  <2>1. \A i \in 1 .. Len(t) : t[i] \in Byte
    BY ElementOfSeq
  <2>2. QED
    BY <2>1, Zenon DEF Byte
<1>5. t[n] < 128 /\ \A i \in 1 .. n - 1 : t[i] >= 128
  BY <1>1, <1>2, <1>3
<1>6. \A i \in 1 .. 3 : i <= n => i \in 1 .. Len(t) /\ i \in DOMAIN t
  BY <1>3
<1>7. \A x \in 0 .. 255 : x < 128 => ~(x >= 128)
  OBVIOUS
<1>8. CASE n = 4
  <2>1. ReadLength(t) = -2
    BY <1>3, <1>5, <1>8 DEF ReadLength
  <2>2. QED
    BY <1>2, <1>3, <2>1 DEF FrameLen
<1>9. CASE n # 4
  <2>1. ReadLength(t) = n
    <3>1. CASE n = 1
      <4>1. 1 \in DOMAIN t /\ t[1] \in 0 .. 255
        <5>1. 1 \in 1 .. 3 /\ 1 <= n
          BY <3>1
        <5>2. QED
          BY <1>4, <1>6, <5>1, Zenon
      <4>2. ~(t[1] >= 128)
        BY <1>5, <1>7, <3>1, <4>1, Zenon
      <4>3. QED
        BY <3>1, <4>1, <4>2 DEF ReadLength
    <3>2. CASE n = 2
      <4>1. 1 \in DOMAIN t /\ 2 \in DOMAIN t /\ t[2] \in 0 .. 255
        <5>1. 1 \in 1 .. 3 /\ 1 <= n /\ 2 \in 1 .. 3 /\ 2 <= n
          BY <3>2
        <5>2. QED
          BY <1>4, <1>6, <5>1, Zenon
      <4>2. ~(t[2] >= 128)
        BY <1>5, <1>7, <3>2, <4>1, Zenon
      <4>3. t[1] >= 128
        <5>1. 1 \in 1 .. n - 1
          BY <3>2
        <5>2. QED
          BY <1>5, <5>1, Zenon
      <4>4. QED
        BY <3>2, <4>1, <4>2, <4>3 DEF ReadLength
    <3>3. CASE n = 3
      <4>1. 1 \in DOMAIN t /\ 2 \in DOMAIN t /\ 3 \in DOMAIN t /\ t[3] \in 0 .. 255
        <5>1. 1 \in 1 .. 3 /\ 1 <= n /\ 2 \in 1 .. 3 /\ 2 <= n /\ 3 \in 1 .. 3 /\ 3 <= n
          BY <3>3
        <5>2. QED
          BY <1>4, <1>6, <5>1, Zenon
      <4>2. ~(t[3] >= 128)
        BY <1>5, <1>7, <3>3, <4>1, Zenon
      <4>3. t[1] >= 128 /\ t[2] >= 128
        <5>1. 1 \in 1 .. n - 1 /\ 2 \in 1 .. n - 1
          BY <3>3
        <5>2. QED
          BY <1>5, <5>1, Zenon
      <4>4. QED
        BY <3>3, <4>1, <4>2, <4>3 DEF ReadLength
    <3>4. QED
      BY <1>9, <3>1, <3>2, <3>3
  <2>2. LengthValue(t) = RemainingLength(p, n)
    <3>1. ASSUME NEW i \in 1 .. 3, i <= n
          PROVE  t[i] = p[i + 1] /\ t[i] % 128 \in Nat
      <4>1. i \in 1 .. Len(t) /\ t[i] \in 0 .. 255
        BY <1>4, <1>6, <3>1, Zenon
      <4>2. QED
        BY <1>2, <4>1, LowBits
    <3>2. QED
      BY <1>1, <1>9, <2>1, <3>1 DEF LengthValue, RemainingLength
  <2>3. 1 + ReadLength(t) + LengthValue(t) = Len(p)
    BY <1>1, <2>1, <2>2
  <2>4. QED
    BY <1>2, <1>3, <2>1, <2>3 DEF FrameLen
<1>10. QED
  BY <1>8, <1>9

(* A complete packet lies between cursor and pos, its fixed header inside. *)
LEMMA FrameRange ==
  ASSUME NEW s \in Seq(Byte)
  PROVE  /\ FrameLen(s) \in Int
         /\ FrameLen(s) <= Len(s)
         /\ FrameLen(s) > 0 =>
              /\ s # <<>>
              /\ ReadLength(Tail(s)) > 0
              /\ FrameLen(s) >= 1 + ReadLength(Tail(s))
<1>1. CASE Len(s) < 2
  BY <1>1 DEF FrameLen
<1>2. CASE Len(s) >= 2
  <2>1. Tail(s) \in Seq(Byte) /\ s # <<>>
    BY <1>2
  <2>2. /\ ReadLength(Tail(s)) \in {-2, -1, 1, 2, 3}
        /\ LengthValue(Tail(s)) \in Nat
    BY <2>1, LengthRange, LengthNat
  <2>3. QED
    BY <1>2, <2>1, <2>2 DEF FrameLen
<1>3. QED
  BY <1>1, <1>2

(* Taken out of the buffer, the packet has the same fixed header. *)
LEMMA FrameHead ==
  ASSUME NEW s \in Seq(Byte), FrameLen(s) > 0
  PROVE  LET p == SubSeq(s, 1, FrameLen(s))
         IN  /\ p \in Seq(Byte)
             /\ Len(p) = FrameLen(s)
             /\ ReadLength(Tail(p)) > 0
             /\ Len(p) >= 1 + ReadLength(Tail(p))
<1> DEFINE n == FrameLen(s)
           p == SubSeq(s, 1, n)
<1>1. /\ n \in Nat \ {0} /\ n <= Len(s) /\ s # <<>>
      /\ ReadLength(Tail(s)) > 0
      /\ n >= 1 + ReadLength(Tail(s))
  BY FrameRange
<1>2. Tail(s) \in Seq(Byte) /\ ReadLength(Tail(s)) \in {1, 2, 3}
  <2>1. Tail(s) \in Seq(Byte)
    BY <1>1
  <2>2. ReadLength(Tail(s)) \in {-2, -1, 1, 2, 3}
    BY <2>1, LengthRange, Zenon
  <2>3. QED
    BY <1>1, <2>1, <2>2
<1> HIDE DEF n
<1>3. p \in Seq(Byte) /\ Len(p) = n /\ \A i \in 1 .. n : p[i] = s[i]
  BY <1>1
<1> HIDE DEF p
<1>4. /\ Tail(p) \in Seq(Byte) /\ Len(Tail(p)) = n - 1
      /\ Tail(s) \in Seq(Byte) /\ Len(Tail(s)) = Len(s) - 1
  BY <1>1, <1>2, <1>3
<1>5. \A i \in 1 .. Len(Tail(p)) : Tail(p)[i] = Tail(s)[i]
  <2> TAKE i \in 1 .. Len(Tail(p))
  <2>1. i \in 1 .. n - 1 /\ i + 1 \in 1 .. n
    BY <1>1, <1>4
  <2>2. Tail(p)[i] = p[i + 1] /\ Tail(s)[i] = s[i + 1]
    BY <1>1, <1>3, <2>1
  <2>3. QED
    BY <1>3, <2>1, <2>2
<1>6. ReadLength(Tail(p)) = ReadLength(Tail(s))
  <2>1. ReadLength(Tail(s)) <= Len(Tail(p)) /\ Len(Tail(p)) <= Len(Tail(s))
    BY <1>1, <1>2, <1>4
  <2>2. QED
    BY <1>1, <1>4, <1>5, <2>1, LengthOfPrefix, Zenon
<1>7. QED
  BY <1>1, <1>3, <1>6 DEF n, p

-----------------------------------------------------------------------------
(* What Mqtt_Dispatch passes on as the body of a packet. *)
LEMMA BodySeq ==
  ASSUME NEW p \in Seq(Byte),
         ReadLength(Tail(p)) > 0,
         Len(p) >= 1 + ReadLength(Tail(p)),
         p # <<>>
  PROVE  /\ HeadLen(p) \in 2 .. 4
         /\ Body(p) \in Seq(Byte)
         /\ Len(Body(p)) = Len(p) - HeadLen(p)
<1>1. ReadLength(Tail(p)) \in {-2, -1, 1, 2, 3}
  <2>1. Tail(p) \in Seq(Byte)
    OBVIOUS
  <2>2. QED
    BY <2>1, LengthRange, Zenon
<1>2. HeadLen(p) \in 2 .. 4 /\ HeadLen(p) <= Len(p)
  BY <1>1 DEF HeadLen
<1>3. QED
  BY <1>2 DEF Body

(* Mqtt_RB16 of two bytes that are there is a number. *)
LEMMA RB16Nat ==
  ASSUME NEW b \in Seq(Byte), NEW i \in Nat \ {0}, i + 1 <= Len(b)
  PROVE  RB16(b, i) \in Nat
<1>1. b[i] \in Byte /\ b[i + 1] \in Byte
  <2>1. i \in 1 .. Len(b) /\ i + 1 \in 1 .. Len(b)
    OBVIOUS
  <2>2. QED
    BY <2>1
<1>2. b[i] \in Nat /\ b[i + 1] \in Nat
  <2>1. Byte \subseteq Nat
    BY DEF Byte
  <2>2. QED
    BY <1>1, <2>1, Zenon
<1>3. QED
  BY <1>2 DEF RB16

(* The NUL that ends the topic, and the move of the topic, stay inside the
   packet. *)
LEMMA TerminatedSeq ==
  ASSUME NEW p \in Seq(Byte),
         ReadLength(Tail(p)) > 0,
         Len(p) >= 1 + ReadLength(Tail(p)),
         p # <<>>,
         Type(p) = 3 => FormedPublish(p)
  PROVE  Terminated(p) \in Seq(Byte) /\ Len(Terminated(p)) = Len(p)
<1> DEFINE n == RB16(Body(p), 1)
           h == HeadLen(p)
<1>0. 0 \in Byte
  BY DEF Byte
<1>1. CASE Type(p) # 3
  BY <1>1 DEF Terminated
<1>2. CASE Type(p) = 3
  <2>1. h \in 2 .. 4 /\ Body(p) \in Seq(Byte) /\ Len(Body(p)) = Len(p) - h
    BY BodySeq
  <2>2. FormedPublish(p) /\ Len(Body(p)) >= 2 /\ Len(Body(p)) >= 2 + n
    BY <1>2 DEF FormedPublish
  <2>3. n \in Nat
    BY <2>1, <2>2, RB16Nat
  <2>4. CASE Qos(p) # 0
    <3>1. n + 4 <= Len(Body(p))
      BY <2>2, <2>4 DEF FormedPublish
    <3>2. h + n + 3 \in 1 .. Len(p)
      BY <2>1, <2>3, <3>1
    <3>3. Terminated(p) = [p EXCEPT ![h + n + 3] = 0]
      BY <1>2, <2>4 DEF Terminated
    <3>4. QED
      BY <1>0, <3>2, <3>3, ExceptSeq
  <2>5. CASE Qos(p) = 0
    <3> DEFINE t == [i \in DOMAIN p |-> CASE i \in h + 1 .. h + n -> p[i + 2]
                                          [] i = h + n + 1 -> 0
                                          [] OTHER -> p[i]]
    <3>1. Terminated(p) = t
      BY <1>2, <2>5 DEF Terminated
    <3> HIDE DEF n, h
    <3>2. ASSUME NEW i \in 1 .. Len(p)
          PROVE  t[i] \in Byte
      <4>1. CASE i \in h + 1 .. h + n
        <5>1. i + 2 \in 1 .. Len(p) /\ i # h + n + 1
          BY <4>1, <2>1, <2>2, <2>3
        <5>2. t[i] = p[i + 2]
          BY <4>1, <5>1
        <5>3. QED
          BY <5>1, <5>2
      <4>2. CASE i \notin h + 1 .. h + n
        <5>1. t[i] = 0 \/ t[i] = p[i]
          BY <4>2
        <5>2. QED
          BY <5>1, <1>0
      <4>3. QED
        BY <4>1, <4>2
    <3>3. t = [i \in 1 .. Len(p) |-> t[i]]
      OBVIOUS
    <3> HIDE DEF t
    <3>4. t \in Seq(Byte) /\ Len(t) = Len(p)
      BY <3>2, <3>3
    <3>5. QED
      BY <3>1, <3>4
  <2>6. QED
    BY <2>4, <2>5
<1>3. QED
  BY <1>1, <1>2

(* The answer to a legal packet carries a packet id. *)
LEMMA AnswerSeq ==
  ASSUME NEW p \in Seq(Byte),
         ReadLength(Tail(p)) > 0,
         Len(p) >= 1 + ReadLength(Tail(p)),
         p # <<>>,
         Legal(p)
  PROVE  Answer(p) \in Seq([type : 4 .. 7, id : Nat])
<1>1. Body(p) \in Seq(Byte)
  BY BodySeq
<1>2. CASE Type(p) = 3 /\ Qos(p) \in 1 .. 2
  <2>1. FormedPublish(p)
    BY <1>2 DEF Legal, LegalPublish
  <2>2. Len(Body(p)) >= 2
    BY <2>1 DEF FormedPublish
  <2>3. RB16(Body(p), 1) \in Nat
    BY <1>1, <2>2, RB16Nat
  <2>4. RB16(Body(p), 1) + 4 <= Len(Body(p))
    BY <1>2, <2>1 DEF FormedPublish
  <2>5. PublishId(p) \in Nat
    BY <1>1, <2>3, <2>4, RB16Nat DEF PublishId
  <2>6. QED
    <3>1. \E t \in {4, 5} : Answer(p) = <<[type |-> t, id |-> PublishId(p)]>>
      BY <1>2 DEF Answer
    <3>2. QED
      BY <2>5, <3>1
<1>3. CASE Type(p) \in {5, 6}
  <2>1. Len(Body(p)) = 2
    BY <1>3 DEF Legal, LegalAck
  <2>2. RB16(Body(p), 1) \in Nat
    <3>1. 1 \in Nat \ {0} /\ 1 + 1 <= Len(Body(p))
      BY <2>1
    <3>2. QED
      BY <1>1, <3>1, RB16Nat, Zenon
  <2>3. \E t \in {6, 7} : Answer(p) = <<[type |-> t, id |-> RB16(Body(p), 1)]>>
    BY <1>3 DEF Answer
  <2>4. QED
    BY <2>2, <2>3
<1>4. CASE ~(Type(p) = 3 /\ Qos(p) \in 1 .. 2) /\ Type(p) \notin {5, 6}
  BY <1>4 DEF Answer
<1>5. QED
  BY <1>2, <1>3, <1>4

-----------------------------------------------------------------------------
(* The bytes from cursor to pos. *)
LEMMA RestSeq ==
  ASSUME TypeOK
  PROVE  /\ Rest \in Seq(Byte)
         /\ Len(Rest) = Len(buf) - cursor
         /\ \A i \in 1 .. Len(buf) - cursor : Rest[i] = buf[cursor + i]
BY DEF TypeOK, Rest

(* The packet at cursor is complete, inside the buffer. *)
LEMMA FrameFacts ==
  ASSUME TypeOK, FrameLen(Rest) > 0
  PROVE  /\ Frame \in Seq(Byte)
         /\ Frame # <<>>
         /\ ReadLength(Tail(Frame)) > 0
         /\ Len(Frame) >= 1 + ReadLength(Tail(Frame))
         /\ cursor + Len(Frame) <= Len(buf)
<1> DEFINE n == FrameLen(Rest)
           p == SubSeq(Rest, 1, n)
<1>1. /\ Rest \in Seq(Byte) /\ Len(Rest) = Len(buf) - cursor
      /\ \A i \in 1 .. Len(buf) - cursor : Rest[i] = buf[cursor + i]
  BY RestSeq
<1>2. n \in Nat \ {0} /\ n <= Len(Rest)
  BY <1>1, FrameRange
<1>3. /\ p \in Seq(Byte) /\ Len(p) = n
      /\ ReadLength(Tail(p)) > 0 /\ Len(p) >= 1 + ReadLength(Tail(p))
  BY <1>1, FrameHead, Zenon
<1>4. Frame = p
  <2>0. buf \in Seq(Byte) /\ cursor \in Nat /\ cursor <= Len(buf) /\ Len(buf) \in Nat
    BY DEF TypeOK
  <2> HIDE DEF n
  <2>1. SubSeq(buf, cursor + 1, cursor + n) = [i \in 1 .. n |-> buf[cursor + i]]
    BY <1>1, <1>2, <2>0
  <2>2. p = [i \in 1 .. n |-> Rest[i]]
    BY <1>1, <1>2
  <2>3. \A i \in 1 .. n : Rest[i] = buf[cursor + i]
    BY <1>1, <1>2, <2>0
  <2>4. QED
    BY <2>1, <2>2, <2>3 DEF Frame, n
<1> HIDE DEF n, p
<1>5. Frame # <<>>
  BY <1>2, <1>3, <1>4
<1>6. cursor + Len(Frame) <= Len(buf)
  BY <1>1, <1>2, <1>3, <1>4 DEF TypeOK
<1>7. QED
  BY <1>3, <1>4, <1>5, <1>6

(* Writing a packet back where it was leaves the other bytes alone. *)
LEMMA WithFrameSeq ==
  ASSUME TypeOK, NEW p \in Seq(Byte), cursor + Len(p) <= Len(buf)
  PROVE  /\ WithFrame(p) \in Seq(Byte)
         /\ Len(WithFrame(p)) = Len(buf)
         /\ \A i \in 1 .. Len(buf) : i > cursor + Len(p) => WithFrame(p)[i] = buf[i]
<1>1. buf \in Seq(Byte) /\ cursor \in Nat /\ Len(buf) \in Nat /\ DOMAIN buf = 1 .. Len(buf)
  BY DEF TypeOK
<1> DEFINE w == WithFrame(p)
<1>2. w = [i \in 1 .. Len(buf) |-> w[i]]
  BY <1>1 DEF WithFrame
<1>3. ASSUME NEW i \in 1 .. Len(buf)
      PROVE  w[i] \in Byte /\ (i > cursor + Len(p) => w[i] = buf[i])
  <2>1. CASE i \in cursor + 1 .. cursor + Len(p)
    <3>1. i - cursor \in 1 .. Len(p)
      BY <1>1, <2>1
    <3>2. w[i] = p[i - cursor]
      BY <1>1, <2>1 DEF WithFrame
    <3>3. QED
      BY <1>1, <2>1, <3>1, <3>2
  <2>2. CASE i \notin cursor + 1 .. cursor + Len(p)
    <3>1. w[i] = buf[i]
      BY <1>1, <2>2 DEF WithFrame
    <3>2. QED
      BY <1>1, <3>1
  <2>3. QED
    BY <2>1, <2>2
<1> HIDE DEF w
<1>4. w \in Seq(Byte) /\ Len(w) = Len(buf)
  BY <1>1, <1>2, <1>3
<1>5. QED
  BY <1>3, <1>4 DEF w

(* The buffer after a handler has ended the topic of the packet at cursor. *)
LEMMA HandledSeq ==
  ASSUME TypeOK, FrameLen(Rest) > 0, Type(Frame) = 3 => FormedPublish(Frame)
  PROVE  LET b == WithFrame(Terminated(Frame))
         IN  /\ b \in Seq(Byte)
             /\ Len(b) = Len(buf)
             /\ \A i \in 1 .. Len(buf) : i > cursor + Len(Frame) => b[i] = buf[i]
<1>1. /\ Frame \in Seq(Byte) /\ Frame # <<>>
      /\ ReadLength(Tail(Frame)) > 0 /\ Len(Frame) >= 1 + ReadLength(Tail(Frame))
      /\ cursor + Len(Frame) <= Len(buf)
  BY FrameFacts, Zenon
<1>2. Terminated(Frame) \in Seq(Byte) /\ Len(Terminated(Frame)) = Len(Frame)
  BY <1>1, TerminatedSeq, Zenon
<1>3. cursor + Len(Terminated(Frame)) <= Len(buf)
  BY <1>1, <1>2, Zenon
<1>4. QED
  BY <1>2, <1>3, WithFrameSeq, Zenon

(* A legal packet of type PUBLISH is well formed. *)
LEMMA LegalFormed ==
  ASSUME NEW p, Legal(p)
  PROVE  Type(p) = 3 => FormedPublish(p)
BY DEF Legal, LegalPublish

-----------------------------------------------------------------------------
(* The buffers are empty at first. *)
LEMMA Empty ==
  /\ <<>> \in Seq(Byte)
  /\ <<>> \in Seq(Packets)
  /\ <<>> \in Seq([type : 4 .. 7, id : Nat])
  /\ Len(<<>>) = 0
OBVIOUS

(* Every step keeps the variables in their types. *)
LEMMA TypeStep == TypeOK /\ CursorReset /\ [Next]_vars => TypeOK'
<1> SUFFICES ASSUME TypeOK, CursorReset, [Next]_vars
             PROVE  TypeOK'
  OBVIOUS
<1> USE DEF server, loop, recv
<1>1. ASSUME NEW p \in Packets, Send(p)
      PROVE  TypeOK'
  <2>1. p \in Seq(Byte)
    BY MqttRecvAssumption
  <2>2. input' \in Seq(Byte) /\ Len(input') = Len(input) + Len(p)
    BY <1>1, <2>1 DEF Send, TypeOK
  <2>3. readN' \in 0 .. Len(input')
    BY <1>1, <2>1, <2>2 DEF Send, TypeOK
  <2>4. QED
    BY <1>1, <2>2, <2>3 DEF Send, TypeOK
<1>2. CASE Close
  BY <1>2 DEF Close, TypeOK
<1>3. CASE Poll
  BY <1>3 DEF Poll, TypeOK
<1>4. ASSUME NEW n \in 1 .. Len(input) - readN, RecvData(n)
      PROVE  TypeOK'
  <2>1. /\ buf \in Seq(Byte) /\ input \in Seq(Byte) /\ readN \in Nat
        /\ n \in Nat /\ readN + n <= Len(input) /\ Len(buf) <= BufSize - n
        /\ BufSize \in Nat /\ Len(buf) \in Nat
    BY <1>4, MqttRecvAssumption DEF RecvData, Room, TypeOK
  <2>2. SubSeq(input, readN + 1, readN + n) \in Seq(Byte)
        /\ Len(SubSeq(input, readN + 1, readN + n)) = n
    BY <2>1
  <2>3. buf' \in Seq(Byte) /\ Len(buf') = Len(buf) + n
    BY <1>4, <2>1, <2>2 DEF RecvData
  <2>4. Len(buf') <= BufSize /\ cursor' \in 0 .. Len(buf') /\ readN' \in 0 .. Len(input)
    BY <1>4, <2>1, <2>3 DEF RecvData
  <2>5. QED
    BY <1>4, <2>3, <2>4 DEF RecvData, TypeOK
<1>5. CASE RecvEof
  <2>1. cursor = 0 /\ base' \in Nat /\ 0 <= BufSize
    BY <1>5, MqttRecvAssumption DEF RecvEof, CursorReset, TypeOK
  <2>2. buf' \in Seq(Byte) /\ Len(buf') <= BufSize /\ cursor' \in 0 .. Len(buf')
    BY <1>5, <2>1, Empty DEF RecvEof
  <2>3. QED
    BY <1>5, <2>1, <2>2 DEF RecvEof, TypeOK
<1>6. CASE RecvAgain
  BY <1>6 DEF RecvAgain, TypeOK
<1>7. CASE Dispatch
  <2>1. Type(Frame) = 3 => FormedPublish(Frame)
    BY <1>7, LegalFormed DEF Dispatch
  <2>2. buf' \in Seq(Byte) /\ Len(buf') = Len(buf)
    BY <1>7, <2>1, HandledSeq DEF Dispatch
  <2>3. /\ Frame \in Seq(Byte) /\ Frame # <<>>
        /\ ReadLength(Tail(Frame)) > 0 /\ Len(Frame) >= 1 + ReadLength(Tail(Frame))
        /\ cursor + Len(Frame) <= Len(buf)
    BY <1>7, FrameFacts DEF Dispatch
  <2>4. Answer(Frame) \in Seq([type : 4 .. 7, id : Nat])
    BY <1>7, <2>3, AnswerSeq DEF Dispatch
  <2>5. acks' \in Seq([type : 4 .. 7, id : Nat])
    BY <1>7, <2>4 DEF Dispatch, TypeOK
  <2>6. cursor' \in 0 .. Len(buf')
    BY <1>7, <2>2, <2>3 DEF Dispatch, TypeOK
  <2>7. QED
    BY <1>7, <2>2, <2>5, <2>6 DEF Dispatch, TypeOK
<1>8. CASE Illegal
  <2>1. buf' \in Seq(Byte) /\ Len(buf') = Len(buf)
    <3>1. CASE buf' = buf
      BY <3>1 DEF TypeOK
    <3>2. CASE buf' # buf
      <4>1. FrameLen(Rest) > 0 /\ FormedPublish(Frame)
            /\ buf' = WithFrame(Terminated(Frame))
        BY <1>8, <3>2 DEF Illegal
      <4>2. QED
        BY <4>1, HandledSeq
    <3>3. QED
      BY <3>1, <3>2
  <2>2. QED
    BY <1>8, <2>1 DEF Illegal, Fail, TypeOK
<1>9. CASE Finish
  <2>1. buf' \in Seq(Byte) /\ Len(buf') <= Len(buf)
    <3>1. CASE cursor = 0
      BY <1>9, <3>1 DEF Finish, TypeOK
    <3>2. CASE cursor > 0
      <4>1. /\ buf \in Seq(Byte) /\ cursor \in Nat /\ cursor <= Len(buf) /\ Len(buf) \in Nat
            /\ buf' = Compacted
        BY <1>9, <3>2 DEF Finish, TypeOK
      <4>2. \A i \in 1 .. Len(buf) - cursor : Compacted[i] \in Byte
        BY <4>1 DEF Compacted
      <4>3. Compacted \in Seq(Byte) /\ Len(Compacted) = Len(buf) - cursor
        BY <4>1, <4>2 DEF Compacted
      <4>4. QED
        BY <4>1, <4>3
    <3>3. QED
      BY <3>1, <3>2 DEF TypeOK
  <2>2. Len(buf') <= BufSize /\ cursor' \in 0 .. Len(buf') /\ base' \in Nat
    BY <1>9, <2>1, MqttRecvAssumption DEF Finish, TypeOK
  <2>3. QED
    BY <1>9, <2>1, <2>2 DEF Finish, TypeOK
<1>10. CASE RecvError
  BY <1>10 DEF RecvError, Fail, TypeOK
<1>11. CASE DispatchFails
  <2>1. Type(Frame) = 3 => FormedPublish(Frame)
    BY <1>11, LegalFormed DEF DispatchFails
  <2>2. buf' \in Seq(Byte) /\ Len(buf') = Len(buf)
    BY <1>11, <2>1, HandledSeq DEF DispatchFails
  <2>3. QED
    BY <1>11, <2>2 DEF DispatchFails, Fail, TypeOK
<1>12. CASE Disconnect
  BY <1>12 DEF Disconnect, TypeOK
<1>13. CASE Connect
  <2>1. /\ sent' \in Seq(Packets) /\ input' \in Seq(Byte)
        /\ acks' \in Seq([type : 4 .. 7, id : Nat])
        /\ readN' \in 0 .. Len(input')
    BY <1>13, Empty DEF Connect
  <2>2. faults' \subseteq {"leftover", "stale", "error"}
    <3>1. faults' \subseteq faults \cup {"stale"}
      BY <1>13, Zenon DEF Connect
    <3>2. QED
      BY <3>1 DEF TypeOK
  <2>3. /\ conns' \in Nat /\ base' \in Nat /\ handled' \in Nat
        /\ eof' \in BOOLEAN /\ open' \in BOOLEAN
        /\ armed' \in {"off", "oneshot", "level"}
        /\ closed' \in {"no", "server", "full", "user"}
    <3>1. conns \in Nat
      BY DEF TypeOK
    <3>2. conns' = conns + 1 /\ base' = 0 /\ handled' = 0
      BY <1>13, Zenon DEF Connect
    <3>3. /\ eof' \in BOOLEAN /\ open' \in BOOLEAN
          /\ armed' \in {"off", "oneshot", "level"}
          /\ closed' \in {"no", "server", "full", "user"}
      BY <1>13, Zenon DEF Connect
    <3>4. conns' \in Nat /\ base' \in Nat /\ handled' \in Nat
      BY <3>1, <3>2
    <3>5. QED
      BY <3>3, <3>4, Zenon
  <2>4. UNCHANGED <<client, pc, buf, cursor>>
    BY <1>13 DEF Connect
  <2>5. QED
    BY <2>1, <2>2, <2>3, <2>4 DEF TypeOK
<1>14. CASE ConnectFails
  BY <1>14 DEF ConnectFails, TypeOK
<1>15. CASE UNCHANGED vars
  BY <1>15 DEF vars, TypeOK
<1>16. QED
  BY <1>1, <1>2, <1>3, <1>4, <1>5, <1>6, <1>7, <1>8, <1>9, <1>10, <1>11, <1>12,
     <1>13, <1>14, <1>15 DEF Next, RecvPkt

(* Outside the loop over the packets cursor stands at the front. *)
LEMMA CursorStep == CursorReset /\ [Next]_vars => CursorReset'
BY DEF CursorReset, Next, RecvPkt, vars, server, loop, recv, Send, Close, Poll,
       RecvData, RecvEof, RecvAgain, Dispatch, DispatchFails, Illegal, Fail, Finish,
       RecvError, Disconnect, Connect, ConnectFails

LEMMA TypeInit == Init => TypeOK /\ CursorReset
<1> SUFFICES ASSUME Init
             PROVE  TypeOK /\ CursorReset
  OBVIOUS
<1>1. /\ sent \in Seq(Packets) /\ input \in Seq(Byte) /\ buf \in Seq(Byte)
      /\ acks \in Seq([type : 4 .. 7, id : Nat])
      /\ readN \in 0 .. Len(input) /\ cursor \in 0 .. Len(buf)
  BY Empty DEF Init
<1>2. client \in {"sample", "app"} /\ Len(buf) <= BufSize
  BY Empty, MqttRecvAssumption DEF Init
<1>3. QED
  BY <1>1, <1>2 DEF Init, TypeOK, CursorReset

LEMMA Typed == Spec => [](TypeOK /\ CursorReset)
BY TypeInit, TypeStep, CursorStep, PTL DEF Spec

(***************************************************************************)
(* Type correctness.  Its heart is that pos never passes the end of the    *)
(* buffer and cursor never passes pos (mqtt.c:786, 809), whatever lengths  *)
(* the packets claim, and that the handlers write inside the buffer.       *)
(***************************************************************************)
THEOREM TypeCorrect == Spec => []TypeOK
BY Typed, PTL

-----------------------------------------------------------------------------
(* In an empty buffer nothing is left to be parsed. *)
LEMMA NoneLeft ==
  ASSUME NEW c \in Nat, NEW i \in c + 1 .. 0
  PROVE  FALSE
OBVIOUS

(* Every step keeps the bytes that are still to be parsed in place, or is one
   of the named faults. *)
LEMMA PlaceStep ==
  TypeOK /\ CursorReset /\ BufferInPlace /\ [Next]_vars => BufferInPlace'
<1> SUFFICES ASSUME TypeOK, CursorReset, BufferInPlace, [Next]_vars, faults' = {}
             PROVE  InPlace'
  BY DEF BufferInPlace
<1> USE DEF server, loop, recv
<1>0. /\ faults = {} /\ InPlace
      /\ buf \in Seq(Byte) /\ input \in Seq(Byte)
      /\ Len(buf) \in Nat /\ Len(input) \in Nat
      /\ readN \in Nat /\ readN <= Len(input)
      /\ base \in Nat /\ cursor \in Nat /\ cursor <= Len(buf)
  <2>1. faults = {}
    BY DEF Next, RecvPkt, vars, Send, Close, Poll, RecvData, RecvEof, RecvAgain,
           Dispatch, DispatchFails, Illegal, Fail, Finish, RecvError, Disconnect,
           Connect, ConnectFails
  <2>2. QED
    BY <2>1 DEF BufferInPlace, TypeOK
<1>1. ASSUME UNCHANGED <<input, readN, base, buf, cursor>>
      PROVE  InPlace'
  BY <1>0, <1>1 DEF InPlace
<1>2. ASSUME NEW p \in Packets, Send(p)
      PROVE  InPlace'
  <2>1. p \in Seq(Byte)
    BY MqttRecvAssumption
  <2>2. \A i \in 1 .. Len(input) : input'[i] = input[i]
    BY <1>0, <1>2, <2>1 DEF Send
  <2>3. \A i \in cursor + 1 .. Len(buf) : base + i \in 1 .. Len(input)
    BY <1>0 DEF InPlace
  <2>4. UNCHANGED <<readN, base, buf, cursor>>
    BY <1>2 DEF Send
  <2>5. QED
    BY <1>0, <2>2, <2>3, <2>4 DEF InPlace
<1>3. ASSUME NEW n \in 1 .. Len(input) - readN, RecvData(n)
      PROVE  InPlace'
  <2> DEFINE new == SubSeq(input, readN + 1, readN + n)
  <2>1. n \in Nat /\ readN + n <= Len(input) /\ cursor = 0
    BY <1>0, <1>3 DEF RecvData, CursorReset
  <2>2. new \in Seq(Byte) /\ Len(new) = n /\ \A i \in 1 .. n : new[i] = input[readN + i]
    BY <1>0, <2>1
  <2> HIDE DEF new
  <2>3. buf' = buf \o new /\ readN' = readN + n /\ base' = base /\ cursor' = 0
        /\ input' = input
    BY <1>3 DEF RecvData, new
  <2>4. /\ Len(buf') = Len(buf) + n
        /\ \A i \in 1 .. Len(buf) + n :
             buf'[i] = IF i <= Len(buf) THEN buf[i] ELSE new[i - Len(buf)]
    BY <1>0, <2>1, <2>2, <2>3
  <2>5. ASSUME NEW i \in 1 .. Len(buf) + n
        PROVE  buf'[i] = input[base + i]
    <3>1. CASE i <= Len(buf)
      BY <1>0, <2>1, <2>4, <3>1 DEF InPlace
    <3>2. CASE i > Len(buf)
      <4>1. i - Len(buf) \in 1 .. n /\ readN + (i - Len(buf)) = base + i
        BY <1>0, <2>1, <3>2 DEF InPlace
      <4>2. buf'[i] = new[i - Len(buf)]
        BY <1>0, <2>1, <2>4, <3>2
      <4>3. QED
        BY <2>2, <4>1, <4>2
    <3>3. QED
      BY <1>0, <2>1, <3>1, <3>2
  <2>6. QED
    BY <1>0, <2>1, <2>3, <2>4, <2>5 DEF InPlace
<1>4. CASE RecvEof
  <2>1. buf' = <<>> /\ base' = readN /\ readN' = readN /\ Len(buf') = 0 /\ cursor' \in Nat
    BY <1>0, <1>4, Empty DEF RecvEof
  <2>2. readN' = base' + Len(buf')
    BY <1>0, <2>1
  <2>3. ASSUME NEW i \in cursor' + 1 .. Len(buf')
        PROVE  FALSE
    BY <2>1, NoneLeft, Zenon
  <2>4. QED
    BY <2>2, <2>3, Zenon DEF InPlace
<1>5. CASE Dispatch
  <2>1. Type(Frame) = 3 => FormedPublish(Frame)
    BY <1>5, LegalFormed DEF Dispatch
  <2>2. /\ Len(buf') = Len(buf)
        /\ \A i \in 1 .. Len(buf) : i > cursor + Len(Frame) => buf'[i] = buf[i]
    BY <1>5, <2>1, HandledSeq DEF Dispatch
  <2>3. cursor' = cursor + Len(Frame) /\ Len(Frame) \in Nat
    BY <1>5, FrameFacts DEF Dispatch
  <2>4. readN' = readN /\ base' = base /\ input' = input
    BY <1>5 DEF Dispatch
  <2>5. ASSUME NEW i \in cursor' + 1 .. Len(buf')
        PROVE  buf'[i] = input[base + i]
    <3>1. /\ i \in 1 .. Len(buf) /\ i > cursor + Len(Frame)
          /\ i \in cursor + 1 .. Len(buf)
      BY <1>0, <2>2, <2>3
    <3>2. buf'[i] = buf[i]
      BY <2>2, <3>1
    <3>3. buf[i] = input[base + i]
      BY <1>0, <3>1 DEF InPlace
    <3>4. QED
      BY <3>2, <3>3
  <2>6. QED
    BY <1>0, <2>2, <2>4, <2>5 DEF InPlace
<1>6. CASE Finish
  <2>1. CASE cursor = 0
    <3>1. UNCHANGED <<input, readN, base, buf, cursor>>
      BY <1>0, <1>6, <2>1 DEF Finish
    <3>2. QED
      BY <1>1, <3>1
  <2>2. CASE cursor > 0
    <3>1. /\ buf' = Compacted /\ base' = base + cursor /\ cursor' = 0
          /\ ~(Len(buf) > 2 * cursor)
          /\ readN' = readN /\ input' = input
      <4>1. ASSUME Len(buf) > 2 * cursor
            PROVE  FALSE
        <5>1. faults' = faults \cup {"leftover"}
          BY <1>6, <2>2, <4>1 DEF Finish
        <5>2. QED
          BY <5>1
      <4>2. QED
        BY <1>6, <2>2, <4>1 DEF Finish
    <3>2. /\ Len(Compacted) = Len(buf) - cursor
          /\ \A i \in 1 .. Len(buf) - cursor : Compacted[i] = buf[cursor + i]
      BY <1>0, <3>1 DEF Compacted
    <3>3. \A i \in 1 .. Len(buf) - cursor : buf[cursor + i] = input[base + cursor + i]
      BY <1>0 DEF InPlace
    <3>4. readN' = base' + Len(buf')
      BY <1>0, <3>1, <3>2 DEF InPlace
    <3>5. ASSUME NEW i \in cursor' + 1 .. Len(buf')
          PROVE  buf'[i] = input'[base' + i]
      <4>1. i \in 1 .. Len(buf) - cursor
        BY <1>0, <3>1, <3>2
      <4>2. QED
        BY <3>1, <3>2, <3>3, <4>1
    <3>6. QED
      BY <3>4, <3>5 DEF InPlace
  <2>3. QED
    BY <1>0, <2>1, <2>2
<1>7. CASE Connect
  <2>1. buf = <<>>
    BY <1>7 DEF Connect
  <2>2. Len(buf') = 0 /\ readN' = 0 /\ base' = 0 /\ cursor' \in Nat
    BY <1>0, <1>7, <2>1, Empty DEF Connect
  <2>3. readN' = base' + Len(buf')
    BY <2>2
  <2>4. ASSUME NEW i \in cursor' + 1 .. Len(buf')
        PROVE  FALSE
    BY <2>2, NoneLeft, Zenon
  <2>5. QED
    BY <2>3, <2>4, Zenon DEF InPlace
<1>8. CASE Close \/ Poll \/ RecvAgain \/ Disconnect \/ ConnectFails \/ UNCHANGED vars
  BY <1>1, <1>8 DEF Close, Poll, RecvAgain, Disconnect, ConnectFails, vars
<1>9. CASE Illegal \/ RecvError \/ DispatchFails
  BY <1>9 DEF Illegal, RecvError, DispatchFails, Fail
<1>10. QED
  BY <1>2, <1>3, <1>4, <1>5, <1>6, <1>7, <1>8, <1>9 DEF Next, RecvPkt

(***************************************************************************)
(* mqtt.c:783-830.  For every buffer size, every packet and every cutting  *)
(* of the stream, what is still to be parsed is what the server has sent   *)
(* next, until one of the named faults happens.                            *)
(***************************************************************************)
THEOREM InPlaceAlways == Spec => []BufferInPlace
<1>1. Init => BufferInPlace
  BY Empty DEF Init, BufferInPlace, InPlace
<1>2. QED
  BY <1>1, PlaceStep, Typed, PTL DEF Spec

-----------------------------------------------------------------------------
(* What Mqtt_ReadLength has made of the bytes that are there, it makes of   *)
(* them when more have arrived.                                            *)
LEMMA LengthStays ==
  ASSUME NEW s \in Seq(Byte), NEW t \in Seq(Byte),
         Begins(t, s), ReadLength(t) # -1
  PROVE  /\ ReadLength(s) = ReadLength(t)
         /\ ReadLength(t) > 0 => LengthValue(s) = LengthValue(t)
<1>0. Len(t) <= Len(s) /\ (\A i \in 1 .. Len(t) : s[i] = t[i]) /\ Len(t) \in Nat /\ Len(s) \in Nat
  BY DEF Begins
<1>1. ReadLength(s) = ReadLength(t)
  BY <1>0 DEF ReadLength, Byte
<1>2. ASSUME ReadLength(t) > 0
      PROVE  LengthValue(s) = LengthValue(t)
  <2>1. ReadLength(t) \in {1, 2, 3} /\ ReadLength(t) <= Len(t)
    BY <1>2, LengthRange
  <2>2. \A i \in 1 .. ReadLength(t) : s[i] = t[i]
    BY <1>0, <2>1
  <2> DEFINE ds(i) == IF i <= ReadLength(s) THEN s[i] % 128 ELSE 0
             dt(i) == IF i <= ReadLength(t) THEN t[i] % 128 ELSE 0
  <2>3. ASSUME NEW i \in 1 .. 3
        PROVE  ds(i) = dt(i)
    BY <1>1, <2>1, <2>2
  <2>4. ds(1) = dt(1) /\ ds(2) = dt(2) /\ ds(3) = dt(3)
    BY <2>3
  <2> HIDE DEF ds, dt
  <2>5. ds(1) + 128 * ds(2) + 128 * 128 * ds(3) = dt(1) + 128 * dt(2) + 128 * 128 * dt(3)
    BY <2>4
  <2>6. QED
    BY <2>5 DEF LengthValue, ds, dt
<1>3. QED
  BY <1>1, <1>2

(* So does the loop of Mqtt_RecvPkt, for a packet or for what is none. *)
LEMMA FrameStays ==
  ASSUME NEW s \in Seq(Byte), NEW t \in Seq(Byte), Begins(t, s), FrameLen(t) # 0
  PROVE  FrameLen(s) = FrameLen(t)
<1>0. Len(t) <= Len(s) /\ (\A i \in 1 .. Len(t) : s[i] = t[i]) /\ Len(t) \in Nat /\ Len(s) \in Nat
  BY DEF Begins
<1>1. Len(t) >= 2
  BY DEF FrameLen
<1>2. /\ Tail(t) \in Seq(Byte) /\ Tail(s) \in Seq(Byte)
      /\ Len(Tail(t)) = Len(t) - 1 /\ Len(Tail(s)) = Len(s) - 1
      /\ \A i \in 1 .. Len(t) - 1 : Tail(t)[i] = t[i + 1] /\ Tail(s)[i] = s[i + 1]
  BY <1>0, <1>1
<1>3. Begins(Tail(t), Tail(s))
  BY <1>0, <1>1, <1>2 DEF Begins
<1>4. ReadLength(Tail(t)) # -1
  BY <1>1 DEF FrameLen
<1>5. /\ ReadLength(Tail(s)) = ReadLength(Tail(t))
      /\ ReadLength(Tail(t)) > 0 => LengthValue(Tail(s)) = LengthValue(Tail(t))
  BY <1>2, <1>3, <1>4, LengthStays
<1>6. ReadLength(Tail(t)) \in {-2, -1, 1, 2, 3} /\ LengthValue(Tail(t)) \in Nat
  BY <1>2, LengthRange, LengthNat
<1>7. QED
  BY <1>0, <1>1, <1>4, <1>5, <1>6 DEF FrameLen

-----------------------------------------------------------------------------
Ack == [type : 4 .. 7, id : Nat]

(* What the server has sent are the packets' bytes, one after the other. *)
Stream == input = FlattenSeq(sent)

Healthy == faults = {} /\ open

(* Outside the loop of Mqtt_RecvPkt there is no complete packet left. *)
Drained == (Healthy /\ pc \in {"epoll", "first", "recv"}) => FrameLen(buf) = 0

(* The packets dispatched are ones that were sent, and were answered. *)
Caught ==
  /\ handled <= Len(sent)
  /\ base + cursor = Len(FlattenSeq(Consumed))
  /\ acks = FlattenSeq([i \in 1 .. handled |-> Answer(Consumed[i])])
  /\ \A i \in 1 .. handled : Answer(sent[i]) \in Seq(Ack)

InOrder == Healthy => Caught

(* The packet behind the consumed ones is the next that was sent, as far as it
   has arrived. *)
LEMMA NextPacket ==
  ASSUME TypeOK, InPlace, Stream, Caught, Rest # <<>>
  PROVE  /\ handled + 1 \in 1 .. Len(sent)
         /\ sent[handled + 1] \in Packets /\ sent[handled + 1] \in Seq(Byte)
         /\ \A i \in 1 .. Len(Rest) : i <= Len(sent[handled + 1]) => Rest[i] = sent[handled + 1][i]
<1>0. /\ sent \in Seq(Packets) /\ Packets \subseteq Seq(Byte) /\ handled \in Nat /\ handled <= Len(sent)
      /\ base \in Nat /\ cursor \in Nat /\ Len(buf) \in Nat /\ Len(sent) \in Nat /\ input \in Seq(Byte)
      /\ Len(input) \in Nat /\ readN <= Len(input) /\ readN = base + Len(buf)
      /\ base + cursor = Len(FlattenSeq(Consumed)) /\ input = FlattenSeq(sent)
  BY MqttRecvAssumption DEF TypeOK, InPlace, Stream, Caught
<1>1. sent \in Seq(Seq(Byte)) /\ handled \in 0 .. Len(sent)
  BY <1>0, ElementOfSeq
<1>2. /\ Rest \in Seq(Byte) /\ Len(Rest) = Len(buf) - cursor /\ Len(Rest) > 0
      /\ \A i \in 1 .. Len(Rest) : Rest[i] = buf[cursor + i]
  BY RestSeq, EmptySeq
<1>3. handled < Len(sent)
  <2>1. handled = Len(sent) => Consumed = sent
    BY <1>1, FirstOnes DEF Consumed
  <2>2. Len(FlattenSeq(Consumed)) < Len(input)
    BY <1>0, <1>2
  <2>3. QED
    BY <1>0, <2>1, <2>2
<1>4. handled + 1 \in 1 .. Len(sent)
  BY <1>0, <1>3
<1>5. sent[handled + 1] \in Packets /\ sent[handled + 1] \in Seq(Byte)
  BY <1>0, <1>4, ElementOfSeq
<1> DEFINE head == FlattenSeq(Consumed)
<1>6. PICK p \in Seq(Byte) : p = sent[handled + 1]
  BY <1>5
<1>7. head \in Seq(Byte) /\ FlattenSeq(SubSeq(sent, 1, handled + 1)) = head \o p
  BY <1>1, <1>3, <1>6, FlattenNext DEF Consumed
<1>8. Begins(head \o p, input)
  <2>1. handled + 1 \in 0 .. Len(sent)
    BY <1>4
  <2>2. QED
    BY <1>0, <1>1, <1>7, <2>1, FlattenBegins
<1> HIDE DEF head
<1>9. /\ Len(head \o p) = Len(head) + Len(p) /\ Len(head) \in Nat /\ Len(p) \in Nat
      /\ \A i \in 1 .. Len(p) : (head \o p)[Len(head) + i] = p[i]
  BY <1>6, <1>7, ConcatProperties
<1>10. ASSUME NEW i \in 1 .. Len(Rest), i <= Len(p)
       PROVE  Rest[i] = p[i]
  <2>1. /\ cursor + i \in cursor + 1 .. Len(buf) /\ i \in 1 .. Len(p)
        /\ Len(head) + i \in 1 .. Len(head \o p)
    BY <1>0, <1>2, <1>9, <1>10
  <2>2. buf[cursor + i] = input[base + (cursor + i)]
    BY <2>1 DEF InPlace
  <2>3. base + (cursor + i) = Len(head) + i
    <3>1. Len(head) = base + cursor
      BY <1>0 DEF head
    <3>2. i \in Nat
      OBVIOUS
    <3>3. QED
      BY <1>0, <3>1, <3>2
  <2>4. input[Len(head) + i] = (head \o p)[Len(head) + i]
    BY <1>8, <2>1 DEF Begins
  <2>5. QED
    BY <1>2, <1>9, <2>1, <2>2, <2>3, <2>4
<1>11. QED
  BY <1>4, <1>5, <1>6, <1>10

(* A complete packet at cursor is exactly the next one that was sent. *)
LEMMA FrameIsPacket ==
  ASSUME TypeOK, InPlace, Stream, Caught, FrameLen(Rest) > 0
  PROVE  handled + 1 \in 1 .. Len(sent) /\ Frame = sent[handled + 1]
<1>1. Rest \in Seq(Byte) /\ Rest # <<>> /\ FrameLen(Rest) \in Int /\ FrameLen(Rest) <= Len(Rest)
      /\ Len(Rest) \in Nat
  BY RestSeq, FrameRange
<1>2. PICK p \in Seq(Byte) :
        /\ p = sent[handled + 1] /\ p \in Packets /\ handled + 1 \in 1 .. Len(sent)
        /\ \A i \in 1 .. Len(Rest) : i <= Len(p) => Rest[i] = p[i]
  BY <1>1, NextPacket
<1>3. Len(p) \in Nat /\ FrameLen(p) \in {Len(p), -2} /\ p # <<>> /\ Len(p) # 0
  BY <1>2, FramingAssumption, FramedParses, EmptySeq
<1>4. Len(p) <= Len(Rest) /\ FrameLen(Rest) = Len(p)
  <2>1. CASE Len(p) <= Len(Rest)
    <3>1. Begins(p, Rest)
      BY <1>1, <1>2, <1>3, <2>1 DEF Begins
    <3>2. FrameLen(Rest) = FrameLen(p)
      BY <1>1, <1>3, <3>1, FrameStays
    <3>3. QED
      BY <1>3, <2>1, <3>2
  <2>2. CASE Len(p) > Len(Rest)
    <3>1. Begins(Rest, p)
      BY <1>1, <1>2, <1>3, <2>2 DEF Begins
    <3>2. FrameLen(p) = FrameLen(Rest)
      BY <1>1, <3>1, FrameStays
    <3>3. QED
      BY <1>1, <1>3, <2>2, <3>2
  <2>3. QED
    BY <1>1, <1>3, <2>1, <2>2
<1>5. Frame = p
  <2>0. buf \in Seq(Byte) /\ cursor \in Nat /\ cursor <= Len(buf) /\ Len(buf) \in Nat
        /\ Len(Rest) = Len(buf) - cursor /\ \A i \in 1 .. Len(buf) - cursor : Rest[i] = buf[cursor + i]
    BY RestSeq DEF TypeOK
  <2>1. Frame = SubSeq(buf, cursor + 1, cursor + Len(p))
    BY <1>4 DEF Frame
  <2>2. SubSeq(buf, cursor + 1, cursor + Len(p)) = [i \in 1 .. Len(p) |-> buf[cursor + i]]
    BY <1>3, <1>4, <2>0
  <2>3. \A i \in 1 .. Len(p) : buf[cursor + i] = p[i]
    BY <1>2, <1>3, <1>4, <2>0
  <2>4. p = [i \in 1 .. Len(p) |-> p[i]]
    BY <1>2
  <2>5. QED
    BY <2>1, <2>2, <2>3, <2>4
<1>6. QED
  BY <1>2, <1>5

-----------------------------------------------------------------------------
(* Nothing that has gone wrong is forgotten. *)
LEMMA FaultsStay == [Next]_vars /\ faults' = {} => faults = {}
BY DEF Next, RecvPkt, vars, server, loop, recv, Send, Close, Poll, RecvData, RecvEof,
       RecvAgain, Dispatch, DispatchFails, Illegal, Fail, Finish, RecvError,
       Disconnect, Connect, ConnectFails

(* While Mqtt_RecvPkt runs, the connection is there. *)
Attached == pc \in {"first", "recv", "parse"} => open

LEMMA AttachedStep == Attached /\ [Next]_vars => Attached'
BY DEF Attached, Next, RecvPkt, vars, server, loop, recv, Send, Close, Poll, RecvData,
       RecvEof, RecvAgain, Dispatch, DispatchFails, Illegal, Fail, Finish, RecvError,
       Disconnect, Connect, ConnectFails

(* The server appends a packet to both, or the connection is new. *)
LEMMA StreamStep == TypeOK /\ Stream /\ [Next]_vars => Stream'
<1> SUFFICES ASSUME TypeOK, Stream, [Next]_vars
             PROVE  Stream'
  OBVIOUS
<1> USE DEF server, loop, recv
<1>1. ASSUME NEW p \in Packets, Send(p)
      PROVE  Stream'
  <2>1. p \in Seq(Byte) /\ sent \in Seq(Seq(Byte))
    BY MqttRecvAssumption DEF TypeOK
  <2>2. FlattenSeq(Append(sent, p)) = FlattenSeq(sent) \o p
    BY <2>1, FlattenAppend
  <2>3. QED
    BY <1>1, <2>2 DEF Send, Stream
<1>2. CASE Connect
  BY <1>2, FlattenNone DEF Connect, Stream
<1>3. ASSUME UNCHANGED <<sent, input>>
      PROVE  Stream'
  BY <1>3 DEF Stream
<1>4. CASE Close \/ Poll \/ RecvPkt \/ RecvError \/ DispatchFails \/ Disconnect
           \/ ConnectFails \/ UNCHANGED vars
  BY <1>3, <1>4 DEF Close, Poll, RecvPkt, RecvData, RecvEof, RecvAgain, Dispatch, Illegal,
         Finish, Fail, RecvError, DispatchFails, Disconnect, ConnectFails, vars
<1>5. QED
  BY <1>1, <1>2, <1>4 DEF Next

(* What Mqtt_RecvPkt leaves in the buffer, unless it has lost bytes of it. *)
LEMMA FinishLeaves ==
  ASSUME TypeOK, Finish, faults' = {}
  PROVE  buf' = Rest
<1>1. /\ buf \in Seq(Byte) /\ cursor \in Nat /\ cursor <= Len(buf) /\ Len(buf) \in Nat
      /\ Rest \in Seq(Byte) /\ Len(Rest) = Len(buf) - cursor
      /\ \A i \in 1 .. Len(buf) - cursor : Rest[i] = buf[cursor + i]
  BY RestSeq DEF TypeOK
<1>2. Rest = [i \in 1 .. Len(buf) - cursor |-> buf[cursor + i]]
  BY <1>1 DEF Rest
<1>3. CASE cursor = 0
  <2>1. buf' = buf
    BY <1>3 DEF Finish
  <2>2. buf = [i \in 1 .. Len(buf) |-> buf[i]]
    BY <1>1
  <2>3. QED
    BY <1>1, <1>2, <1>3, <2>1, <2>2
<1>4. CASE cursor # 0
  <2>1. cursor > 0
    BY <1>1, <1>4
  <2>2. ASSUME Len(buf) > 2 * cursor
        PROVE  FALSE
    <3>1. faults' = faults \cup {"leftover"}
      BY <2>1, <2>2 DEF Finish
    <3>2. QED
      BY <3>1
  <2>3. buf' = Compacted
    BY <2>1 DEF Finish
  <2>4. \A i \in 1 .. Len(buf) - cursor : i <= cursor
    BY <1>1, <2>2
  <2>5. Compacted = [i \in 1 .. Len(buf) - cursor |-> buf[cursor + i]]
    BY <2>4 DEF Compacted
  <2>6. QED
    BY <1>2, <2>3, <2>5
<1>5. QED
  BY <1>3, <1>4

LEMMA DrainStep == TypeOK /\ Drained /\ [Next]_vars => Drained'
<1> SUFFICES ASSUME TypeOK, Drained, [Next]_vars, Healthy', pc' \in {"epoll", "first", "recv"}
             PROVE  FrameLen(buf') = 0
  BY DEF Drained
<1> USE DEF server, loop, recv
<1>0. faults = {} /\ faults' = {} /\ open'
  BY FaultsStay DEF Healthy
<1>1. CASE Finish
  <2>1. buf' = Rest /\ FrameLen(Rest) = 0
    BY <1>0, <1>1, FinishLeaves DEF Finish
  <2>2. QED
    BY <2>1
<1>2. CASE Connect
  <2>1. buf = <<>> /\ buf' = <<>>
    BY <1>0, <1>2 DEF Connect
  <2>2. Len(buf') = 0
    BY <2>1, EmptySeq
  <2>3. QED
    BY <2>2 DEF FrameLen
<1>3. ASSUME buf' = buf, open, pc \in {"epoll", "first", "recv"}
      PROVE  FrameLen(buf') = 0
  BY <1>0, <1>3 DEF Drained, Healthy
<1>4. ASSUME NEW p \in Packets, Send(p)
      PROVE  FrameLen(buf') = 0
  BY <1>0, <1>3, <1>4 DEF Send
<1>5. CASE Close \/ Poll \/ RecvAgain \/ UNCHANGED vars
  BY <1>0, <1>3, <1>5 DEF Close, Poll, RecvAgain, vars
<1>6. CASE RecvEof \/ Disconnect \/ ConnectFails
  BY <1>0, <1>6 DEF RecvEof, Disconnect, ConnectFails
<1>7. CASE Illegal \/ RecvError \/ DispatchFails
  BY <1>0, <1>7 DEF Illegal, RecvError, DispatchFails, Fail
<1>8. CASE Dispatch \/ \E n \in 1 .. Len(input) - readN : RecvData(n)
  BY <1>8 DEF Dispatch, RecvData
<1>9. QED
  BY <1>1, <1>2, <1>4, <1>5, <1>6, <1>7, <1>8 DEF Next, RecvPkt

-----------------------------------------------------------------------------
(* The answers to the first n packets. *)
LEMMA AnswersNext ==
  ASSUME NEW seqs, NEW n \in Nat,
         \A i \in 1 .. n + 1 : Answer(seqs[i]) \in Seq(Ack)
  PROVE  /\ FlattenSeq([i \in 1 .. n |-> Answer(seqs[i])]) \in Seq(Ack)
         /\ FlattenSeq([i \in 1 .. n + 1 |-> Answer(seqs[i])])
              = FlattenSeq([i \in 1 .. n |-> Answer(seqs[i])]) \o Answer(seqs[n + 1])
<1> DEFINE a == [i \in 1 .. n |-> Answer(seqs[i])]
           b == [i \in 1 .. n + 1 |-> Answer(seqs[i])]
<1>1. n + 1 \in 1 .. n + 1 /\ Answer(seqs[n + 1]) \in Seq(Ack)
  OBVIOUS
<1>2. \A i \in 1 .. n : Answer(seqs[i]) \in Seq(Ack)
  OBVIOUS
<1> DEFINE A(i) == Answer(seqs[i])
<1>3. a \in Seq(Seq(Ack)) /\ Len(a) = n
  <2>1. \A i \in 1 .. n : A(i) \in Seq(Ack)
    BY <1>2
  <2> HIDE DEF A
  <2>2. [i \in 1 .. n |-> A(i)] \in Seq(Seq(Ack)) /\ Len([i \in 1 .. n |-> A(i)]) = n
    BY <2>1
  <2>3. QED
    BY <2>2 DEF A
<1>4. b = Append(a, Answer(seqs[n + 1]))
  <2> HIDE DEF A
  <2>1. [i \in 1 .. n + 1 |-> A(i)] = Append([i \in 1 .. n |-> A(i)], A(n + 1))
    OBVIOUS
  <2>2. QED
    BY <2>1 DEF A
<1> HIDE DEF a, b
<1>5. FlattenSeq(a) \in Seq(Ack) /\ FlattenSeq(b) = FlattenSeq(a) \o Answer(seqs[n + 1])
  BY <1>1, <1>3, <1>4, FlattenAppend
<1>6. QED
  BY <1>5 DEF a, b

(* One packet more: Mqtt_Dispatch takes the next packet and answers it. *)
LEMMA DispatchNext ==
  ASSUME TypeOK, InPlace, Stream, Caught, Dispatch
  PROVE  Caught'
<1>1. /\ FrameLen(Rest) > 0 /\ Legal(Frame)
      /\ cursor' = cursor + Len(Frame) /\ handled' = handled + 1
      /\ acks' = acks \o Answer(Frame) /\ base' = base /\ sent' = sent
  BY DEF Dispatch, server, loop
<1>2. handled + 1 \in 1 .. Len(sent) /\ Frame = sent[handled + 1]
  BY <1>1, FrameIsPacket
<1>3. /\ sent \in Seq(Seq(Byte)) /\ handled \in 0 .. Len(sent) /\ handled \in Nat /\ Len(sent) \in Nat
      /\ handled < Len(sent) /\ base \in Nat /\ cursor \in Nat
  BY <1>2, MqttRecvAssumption DEF TypeOK, Caught
<1>4. /\ Frame \in Seq(Byte) /\ Answer(Frame) \in Seq(Ack)
  <2>1. /\ Frame \in Seq(Byte) /\ Frame # <<>>
        /\ ReadLength(Tail(Frame)) > 0 /\ Len(Frame) >= 1 + ReadLength(Tail(Frame))
    BY <1>1, FrameFacts, Zenon
  <2>2. QED
    BY <1>1, <2>1, AnswerSeq, Zenon DEF Ack
<1>5. base' + cursor' = Len(FlattenSeq(Consumed'))
  <2> DEFINE head == FlattenSeq(SubSeq(sent, 1, handled))
  <2>1. head \in Seq(Byte) /\ FlattenSeq(SubSeq(sent, 1, handled + 1)) = head \o sent[handled + 1]
    BY <1>3, FlattenNext
  <2>2. base + cursor = Len(head)
    BY DEF Caught, Consumed
  <2> HIDE DEF head
  <2>3. Len(head \o Frame) = Len(head) + Len(Frame) /\ Len(Frame) \in Nat
    BY <1>4, <2>1, ConcatProperties
  <2>4. Consumed' = SubSeq(sent, 1, handled + 1)
    BY <1>1 DEF Consumed
  <2>5. QED
    BY <1>1, <1>2, <1>3, <2>1, <2>2, <2>3, <2>4
<1>6. \A i \in 1 .. handled + 1 : Answer(sent[i]) \in Seq(Ack)
  BY <1>2, <1>3, <1>4 DEF Caught
<1>7. acks' = FlattenSeq([i \in 1 .. handled' |-> Answer(Consumed'[i])])
  <2>1. ASSUME NEW k \in 0 .. Len(sent)
        PROVE  [i \in 1 .. k |-> Answer(SubSeq(sent, 1, k)[i])] = [i \in 1 .. k |-> Answer(sent[i])]
    <3>1. \A i \in 1 .. k : SubSeq(sent, 1, k)[i] = sent[i]
      BY <1>3, FirstOnes
    <3>2. QED
      BY <3>1
  <2>2. acks = FlattenSeq([i \in 1 .. handled |-> Answer(sent[i])])
    BY <1>3, <2>1 DEF Caught, Consumed
  <2>3. handled + 1 \in 0 .. Len(sent)
    BY <1>2
  <2>4. FlattenSeq([i \in 1 .. handled' |-> Answer(Consumed'[i])])
          = FlattenSeq([i \in 1 .. handled + 1 |-> Answer(sent[i])])
    BY <1>1, <2>1, <2>3 DEF Consumed
  <2>5. QED
    BY <1>1, <1>2, <1>3, <1>6, <2>2, <2>4, AnswersNext
<1>8. QED
  <2>1. handled' <= Len(sent')
    BY <1>1, <1>2, <1>3
  <2>2. \A i \in 1 .. handled' : Answer(sent'[i]) \in Seq(Ack)
    BY <1>1, <1>6
  <2>3. QED
    BY <2>1, <2>2, <1>5, <1>7 DEF Caught

LEMMA OrderStep ==
  TypeOK /\ CursorReset /\ BufferInPlace /\ Stream /\ InOrder /\ [Next]_vars => InOrder'
<1> SUFFICES ASSUME TypeOK, CursorReset, BufferInPlace, Stream, InOrder, [Next]_vars, Healthy'
             PROVE  Caught'
  BY DEF InOrder
<1> USE DEF server, loop, recv
<1>0. faults = {} /\ faults' = {} /\ open' /\ InPlace
  BY FaultsStay DEF Healthy, BufferInPlace
<1>1. ASSUME open, UNCHANGED <<sent, handled, acks>>, base' + cursor' = base + cursor
      PROVE  Caught'
  BY <1>0, <1>1 DEF Caught, InOrder, Healthy, Consumed
<1>2. CASE Dispatch
  <2>1. Caught
    BY <1>0, <1>2 DEF InOrder, Healthy, Dispatch
  <2>2. QED
    BY <1>0, <1>2, <2>1, DispatchNext
<1>3. ASSUME NEW p \in Packets, Send(p)
      PROVE  Caught'
  <2>1. /\ sent' = Append(sent, p) /\ handled' = handled /\ acks' = acks
        /\ base' = base /\ cursor' = cursor /\ Caught
    BY <1>0, <1>3 DEF Send, InOrder, Healthy
  <2>2. sent \in Seq(Packets) /\ handled \in Nat /\ handled <= Len(sent) /\ Len(sent) \in Nat
    BY <2>1 DEF TypeOK, Caught
  <2>3. /\ Len(Append(sent, p)) = Len(sent) + 1
        /\ \A i \in 1 .. handled : Append(sent, p)[i] = sent[i]
        /\ SubSeq(Append(sent, p), 1, handled) = SubSeq(sent, 1, handled)
    BY <2>2
  <2>4. Consumed' = Consumed /\ handled' <= Len(sent') /\ \A i \in 1 .. handled : sent'[i] = sent[i]
    BY <2>1, <2>2, <2>3 DEF Consumed
  <2>5. QED
    BY <2>1, <2>4 DEF Caught
<1>4. ASSUME NEW n \in 1 .. Len(input) - readN, RecvData(n)
      PROVE  Caught'
  <2>1. cursor' = 0 /\ cursor = 0 /\ base' = base
    BY <1>4 DEF RecvData, CursorReset
  <2>2. QED
    BY <1>0, <1>1, <1>4, <2>1 DEF RecvData
<1>5. CASE Finish
  <2>1. base' + cursor' = base + cursor
    BY <1>5 DEF Finish, TypeOK
  <2>2. QED
    BY <1>0, <1>1, <1>5, <2>1 DEF Finish
<1>6. CASE Connect
  <2>1. /\ sent' = <<>> /\ base' = 0 /\ handled' = 0 /\ acks' = <<>> /\ cursor' = 0
    BY <1>6 DEF Connect, CursorReset
  <2>2. Consumed' = <<>>
    <3>1. SubSeq(<<>>, 1, 0) = <<>>
      BY EmptySeq
    <3>2. QED
      BY <2>1, <3>1 DEF Consumed
  <2>3. [i \in 1 .. 0 |-> Answer(Consumed'[i])] = <<>>
    OBVIOUS
  <2>4. Len(<<>>) = 0
    BY EmptySeq
  <2>5. QED
    BY <2>1, <2>2, <2>3, <2>4, FlattenNone DEF Caught
<1>7. CASE Close \/ Poll \/ RecvAgain \/ UNCHANGED vars
  BY <1>0, <1>1, <1>7 DEF Close, Poll, RecvAgain, vars
<1>8. CASE RecvEof \/ Disconnect \/ ConnectFails
  BY <1>0, <1>8 DEF RecvEof, Disconnect, ConnectFails
<1>9. CASE Illegal \/ RecvError \/ DispatchFails
  BY <1>0, <1>9 DEF Illegal, RecvError, DispatchFails, Fail
<1>10. QED
  BY <1>2, <1>3, <1>4, <1>5, <1>6, <1>7, <1>8, <1>9 DEF Next, RecvPkt

-----------------------------------------------------------------------------
(* The buffer is full and holds no complete packet: the next one is longer. *)
LEMMA FullMeansOversized ==
  ASSUME TypeOK, InPlace, Stream, Caught, cursor = 0, FrameLen(buf) = 0, Room = 0
  PROVE  \E i \in DOMAIN sent : Len(sent[i]) > BufSize
<1>1. buf \in Seq(Byte) /\ Len(buf) = BufSize /\ BufSize \in Nat \ {0} /\ Len(buf) \in Nat
      /\ sent \in Seq(Packets) /\ Packets \subseteq Seq(Byte)
  BY MqttRecvAssumption DEF TypeOK, Room
<1>2. Rest = buf
  BY <1>1 DEF Rest
<1>3. Rest # <<>>
  BY <1>1, <1>2, EmptySeq
<1>4. PICK p \in Seq(Byte) :
        /\ p = sent[handled + 1] /\ p \in Packets /\ handled + 1 \in 1 .. Len(sent)
        /\ \A i \in 1 .. Len(Rest) : i <= Len(p) => Rest[i] = p[i]
  BY <1>3, NextPacket
<1>5. Len(p) \in Nat /\ FrameLen(p) # 0
  <2>1. Len(p) # 0 /\ Len(p) \in Nat
    BY <1>4, FramingAssumption, FramedParses, EmptySeq
  <2>2. QED
    BY <1>4, <2>1, FramingAssumption, FramedParses
<1>6. ASSUME Len(p) <= BufSize
      PROVE  FALSE
  <2>1. Begins(p, buf)
    BY <1>1, <1>2, <1>4, <1>5, <1>6 DEF Begins
  <2>2. FrameLen(buf) = FrameLen(p)
    BY <1>1, <1>5, <2>1, FrameStays
  <2>3. QED
    BY <1>5, <2>2
<1>7. Len(p) > BufSize
  BY <1>1, <1>5, <1>6
<1>8. handled + 1 \in DOMAIN sent
  BY <1>1, <1>4
<1>9. QED
  BY <1>4, <1>7, <1>8

LEMMA DropStep ==
  /\ TypeOK /\ CursorReset /\ BufferInPlace /\ Attached /\ Stream /\ InOrder /\ Drained
  /\ DropsOnlyOversized /\ [Next]_vars
  => DropsOnlyOversized'
<1> SUFFICES ASSUME TypeOK, CursorReset, BufferInPlace, Attached, Stream, InOrder, Drained,
                    DropsOnlyOversized, [Next]_vars, faults' = {}, closed' = "full"
             PROVE  \E i \in DOMAIN sent' : Len(sent'[i]) > BufSize
  BY DEF DropsOnlyOversized
<1> USE DEF server, loop, recv
<1>0. faults = {} /\ InPlace
  BY FaultsStay DEF BufferInPlace
<1>1. ASSUME closed' = closed, sent' = sent
      PROVE  \E i \in DOMAIN sent' : Len(sent'[i]) > BufSize
  BY <1>0, <1>1 DEF DropsOnlyOversized
<1>2. ASSUME NEW p \in Packets, Send(p)
      PROVE  \E i \in DOMAIN sent' : Len(sent'[i]) > BufSize
  <2>1. PICK i \in DOMAIN sent : Len(sent[i]) > BufSize
    BY <1>0, <1>2 DEF Send, DropsOnlyOversized
  <2>2. sent' = Append(sent, p) /\ sent \in Seq(Packets)
    BY <1>2 DEF Send, TypeOK
  <2>3. i \in DOMAIN sent' /\ sent'[i] = sent[i]
    BY <2>2, AppendProperties
  <2>4. QED
    BY <2>1, <2>3
<1>3. CASE RecvEof
  <2>1. Room = 0 /\ sent' = sent
    BY <1>3 DEF RecvEof
  <2>2. cursor = 0 /\ Healthy
    BY <1>0, <1>3 DEF RecvEof, CursorReset, Attached, Healthy
  <2>3. FrameLen(buf) = 0 /\ Caught
    BY <1>3, <2>2 DEF RecvEof, Drained, InOrder
  <2>4. \E i \in DOMAIN sent : Len(sent[i]) > BufSize
    BY <1>0, <2>1, <2>2, <2>3, FullMeansOversized
  <2>5. QED
    BY <2>1, <2>4
<1>4. CASE Disconnect \/ Connect \/ ConnectFails
  BY <1>4 DEF Disconnect, Connect, ConnectFails
<1>5. CASE Close \/ Poll \/ RecvAgain \/ Dispatch \/ Illegal \/ Finish \/ RecvError \/ DispatchFails
           \/ UNCHANGED vars
  BY <1>1, <1>5 DEF Close, Poll, RecvAgain, Dispatch, Illegal, Finish, Fail, RecvError,
         DispatchFails, vars
<1>6. ASSUME NEW n \in 1 .. Len(input) - readN, RecvData(n)
      PROVE  \E i \in DOMAIN sent' : Len(sent'[i]) > BufSize
  BY <1>1, <1>6 DEF RecvData
<1>7. QED
  BY <1>2, <1>3, <1>4, <1>5, <1>6 DEF Next, RecvPkt

(***************************************************************************)
(* The inductive invariant of the two theorems below: what each needs of   *)
(* the others is that the parser takes whole packets (InOrder), leaves no  *)
(* whole one behind (Drained), and that the bytes have not moved.          *)
(***************************************************************************)
RecvInv ==
  /\ TypeOK
  /\ CursorReset
  /\ BufferInPlace
  /\ Attached
  /\ Stream
  /\ InOrder
  /\ Drained
  /\ DropsOnlyOversized

LEMMA RecvInit == Init => RecvInv
<1> SUFFICES ASSUME Init
             PROVE  RecvInv
  OBVIOUS
<1>1. TypeOK /\ CursorReset
  BY TypeInit
<1>2. BufferInPlace
  BY Empty DEF Init, BufferInPlace, InPlace
<1>3. Attached /\ DropsOnlyOversized
  BY DEF Init, Attached, DropsOnlyOversized
<1>4. Stream
  BY FlattenNone DEF Init, Stream
<1>5. Consumed = <<>>
  <2>1. SubSeq(<<>>, 1, 0) = <<>>
    BY EmptySeq
  <2>2. QED
    BY <2>1 DEF Init, Consumed
<1>6. [i \in 1 .. 0 |-> Answer(Consumed[i])] = <<>>
  OBVIOUS
<1>7. Caught
  <2>1. Len(<<>>) = 0
    BY EmptySeq
  <2>2. QED
    BY <1>5, <1>6, <2>1, FlattenNone DEF Init, Caught
<1>8. FrameLen(buf) = 0
  BY Empty DEF Init, FrameLen
<1>9. QED
  BY <1>1, <1>2, <1>3, <1>4, <1>7, <1>8 DEF RecvInv, InOrder, Drained

LEMMA RecvAlways == Spec => []RecvInv
<1>1. RecvInv /\ [Next]_vars => RecvInv'
  BY TypeStep, CursorStep, PlaceStep, AttachedStep, StreamStep, OrderStep, DrainStep, DropStep
     DEF RecvInv
<1>2. QED
  BY <1>1, RecvInit, PTL DEF Spec

(***************************************************************************)
(* mqtt.c:790-820, 539-567.  However the stream is cut into reads, the     *)
(* parser has consumed exactly the packets it has dispatched, the ones     *)
(* that were sent first, and has answered each of them with the id that it *)
(* carried, as long as none of the named faults has happened.              *)
(***************************************************************************)
THEOREM ParserInStep == Spec => []InStep
<1>1. RecvInv => InStep
  BY DEF RecvInv, InOrder, Healthy, Caught, InStep
<1>2. QED
  BY <1>1, RecvAlways, PTL

(***************************************************************************)
(* mqtt.c:774-779.  A buffer that is full when read() is called holds the  *)
(* beginning of a packet that does not fit in it: the client gives up a    *)
(* connection that the server keeps for no other reason.                   *)
(***************************************************************************)
THEOREM DropsForCause == Spec => []DropsOnlyOversized
<1>1. RecvInv => DropsOnlyOversized
  BY DEF RecvInv
<1>2. QED
  BY <1>1, RecvAlways, PTL
=============================================================================
