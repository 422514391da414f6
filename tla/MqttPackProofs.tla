--------------------------- MODULE MqttPackProofs ---------------------------
(***************************************************************************)
(* Proofs about MqttPack: that what the packing functions leave in the     *)
(* buffer is framed as its fixed headers say, fully written and counted,   *)
(* for texts, payloads and lists of topics of every length.                *)
(***************************************************************************)
EXTENDS MqttPack, SequenceFacts

-----------------------------------------------------------------------------
(***************************************************************************)
(* Encoded lengths.                                                        *)
(***************************************************************************)
LEMMA DigitsAre ==
  ASSUME NEW len \in Nat, ~ TooLarge(len)
  PROVE  /\ Digits(len) \in 1..4
         /\ len < Weight[Digits(len) + 1]
         /\ \A i \in 1..4 : i < Digits(len) => len >= Weight[i + 1]
<1> DEFINE S == {i \in 1..4 : len < Weight[i + 1]}
<1>1. 4 \in S
  BY DEF TooLarge, Weight
<1>2. \E x \in S : \A y \in S : x <= y
  <2>1. S \subseteq Nat /\ S # {}
    BY <1>1
  <2>2. QED BY <2>1, SmallestOf
<1>3. Digits(len) \in S /\ \A y \in S : Digits(len) <= y
  BY <1>2 DEF Digits, Min
<1>4. ASSUME NEW i \in 1..4, i < Digits(len) PROVE len >= Weight[i + 1]
  <2>1. Weight[i + 1] \in Nat
    BY DEF Weight
  <2>2. i \notin S
    BY <1>3, <1>4
  <2>3. QED BY <2>1, <2>2
<1>5. QED BY <1>3, <1>4

(* Four kinds of lengths, and those that have no encoding. *)
LEMMA DigitsCases ==
  ASSUME NEW len \in Nat
  PROVE  \/ len < 128 /\ Digits(len) = 1
         \/ len >= 128 /\ len < 16384 /\ Digits(len) = 2
         \/ len >= 16384 /\ len < 2097152 /\ Digits(len) = 3
         \/ len >= 2097152 /\ len < 268435456 /\ Digits(len) = 4
         \/ TooLarge(len)
<1>1. SUFFICES ASSUME ~ TooLarge(len)
               PROVE  \/ len < 128 /\ Digits(len) = 1
                      \/ len >= 128 /\ len < 16384 /\ Digits(len) = 2
                      \/ len >= 16384 /\ len < 2097152 /\ Digits(len) = 3
                      \/ len >= 2097152 /\ len < 268435456 /\ Digits(len) = 4
  OBVIOUS
<1>2. PICK d \in 1..4 : d = Digits(len)
  BY <1>1, DigitsAre
<1>3. len < Weight[d + 1] /\ \A i \in 1..4 : i < d => len >= Weight[i + 1]
  BY <1>1, <1>2, DigitsAre
<1>4. /\ Weight[2] = 128 /\ Weight[3] = 16384 /\ Weight[4] = 2097152 /\ Weight[5] = 268435456
  BY DEF Weight
<1>5. CASE d = 1
  BY <1>2, <1>3, <1>4, <1>5
<1>6. CASE d = 2
  <2>1. len < Weight[3] /\ len >= Weight[2]
    BY <1>3, <1>6
  <2>2. QED BY <1>2, <1>4, <1>6, <2>1
<1>7. CASE d = 3
  <2>1. len < Weight[4] /\ len >= Weight[3]
    BY <1>3, <1>7
  <2>2. QED BY <1>2, <1>4, <1>7, <2>1
<1>8. CASE d = 4
  <2>1. len < Weight[5] /\ len >= Weight[4]
    BY <1>3, <1>8
  <2>2. QED BY <1>2, <1>4, <1>8, <2>1
<1>9. QED BY <1>2, <1>5, <1>6, <1>7, <1>8

(* The bytes written for a length, one by one. *)
LEMMA DumpLengthIs ==
  ASSUME NEW len \in Nat
  PROVE  LET d == DumpLength(len) n == IF TooLarge(len) THEN 4 ELSE Digits(len)
         IN  /\ n \in 1..4 /\ d \in Seq(0..255) /\ Len(d) = n
             /\ \A i \in 1..n : /\ d[i] = DigitAt(len, i) + (IF i < n \/ TooLarge(len) THEN 128 ELSE 0)
                                /\ DigitAt(len, i) \in 0..127
<1> DEFINE n == IF TooLarge(len) THEN 4 ELSE Digits(len)
<1>1. n \in 1..4
  BY DigitsAre
<1>2. ASSUME NEW i \in 1..4 PROVE DigitAt(len, i) \in 0..127
  <2>1. Weight[i] \in Nat \ {0}
    BY DEF Weight
  <2>2. len \div Weight[i] \in Nat
    BY <2>1
  <2>3. QED BY <2>2 DEF DigitAt, Radix
<1> DEFINE dig(i) == DigitAt(len, i) + (IF i < n \/ TooLarge(len) THEN 128 ELSE 0)
<1>3. DumpLength(len) = [i \in 1..n |-> dig(i)]
  BY DEF DumpLength, Radix
<1>4. ASSUME NEW i \in 1..n PROVE dig(i) \in 0..255 /\ DigitAt(len, i) \in 0..127
  BY <1>1, <1>2
<1>5. [i \in 1..n |-> dig(i)] \in Seq(0..255) /\ Len([i \in 1..n |-> dig(i)]) = n
  <2>1. PICK g \in [1..n -> 0..255] : g = [i \in 1..n |-> dig(i)]
    <3> HIDE DEF dig, n
    <3>1. [i \in 1..n |-> dig(i)] \in [1..n -> 0..255]
      BY <1>4
    <3>2. QED BY <3>1
  <2> HIDE DEF dig, n
  <2>2. n \in Nat
    BY <1>1
  <2>3. g \in Seq(0..255) /\ Len(g) = n
    BY <2>2
  <2>4. QED BY <2>1, <2>3
<1>6. QED BY <1>1, <1>3, <1>4, <1>5

(* mqtt.c:113-152: Mqtt_ReadLength's sum undoes Mqtt_DumpLength, for every
   length that Mqtt_DumpLength can encode. *)
THEOREM ReadLengthIs ==
  ASSUME NEW len \in Nat, ~ TooLarge(len)
  PROVE  ReadLength(DumpLength(len)) = len
<1> DEFINE d == DumpLength(len)
           n == Digits(len)
           val(i) == IF i <= n THEN DigitAt(len, i) * Weight[i] ELSE 0
<1>1. /\ n \in 1..4 /\ d \in Seq(0..255) /\ Len(d) = n /\ DOMAIN d = 1..n
      /\ \A i \in 1..n : /\ d[i] = DigitAt(len, i) + (IF i < n THEN 128 ELSE 0)
                         /\ DigitAt(len, i) \in 0..127
  BY DumpLengthIs, SMTT(30)
<1> HIDE DEF d
<1>2. ASSUME NEW i \in 1..4
      PROVE  (IF i \in DOMAIN d /\ \A j \in 1..(i - 1) : d[j] >= Radix
                THEN (d[i] % Radix) * Weight[i] ELSE 0) = val(i)
  <2>1. CASE i <= n
    <3>1. i \in 1..n
      BY <1>1, <2>1
    <3>2. ASSUME NEW j \in 1..(i - 1) PROVE d[j] >= 128
      <4>1. j \in 1..n /\ j < n
        BY <1>1, <3>1, <3>2
      <4>2. PICK k \in 0..127 : d[j] = k + 128
        BY <1>1, <4>1
      <4>3. QED BY <4>2
    <3>3. d[i] % 128 = DigitAt(len, i)
      <4>1. PICK k \in 0..127 : k = DigitAt(len, i)
        BY <1>1, <3>1
      <4>2. d[i] = k \/ d[i] = k + 128
        BY <1>1, <3>1, <4>1
      <4>3. k % 128 = k /\ (k + 128) % 128 = k
        OBVIOUS
      <4>4. QED BY <4>1, <4>2, <4>3
    <3>4. QED BY <1>1, <2>1, <3>1, <3>2, <3>3 DEF Radix
  <2>2. CASE ~ (i <= n)
    <3>1. i \notin DOMAIN d
      BY <1>1, <2>2
    <3>2. QED BY <2>2, <3>1
  <2>3. QED BY <2>1, <2>2
<1>3. ReadLength(d) = val(1) + val(2) + val(3) + val(4)
  BY <1>2 DEF ReadLength
<1>4. /\ DigitAt(len, 1) * Weight[1] = len % 128
      /\ DigitAt(len, 2) * Weight[2] = ((len \div 128) % 128) * 128
      /\ DigitAt(len, 3) * Weight[3] = ((len \div 16384) % 128) * 16384
      /\ DigitAt(len, 4) * Weight[4] = ((len \div 2097152) % 128) * 2097152
  BY DEF DigitAt, Weight, Radix
<1>5. val(1) + val(2) + val(3) + val(4) = len
  <2>1. CASE len < 128 /\ n = 1
    <3>1. len % 128 = len
      BY <2>1
    <3>2. QED BY <1>4, <2>1, <3>1
  <2>2. CASE len >= 128 /\ len < 16384 /\ n = 2
    <3>1. (len % 128) + (((len \div 128) % 128) * 128) = len
      BY <2>2
    <3>2. QED BY <1>4, <2>2, <3>1
  <2>3. CASE len >= 16384 /\ len < 2097152 /\ n = 3
    <3>1. (len % 128) + (((len \div 128) % 128) * 128) + (((len \div 16384) % 128) * 16384) = len
      BY <2>3
    <3>2. QED BY <1>4, <2>3, <3>1
  <2>4. CASE len >= 2097152 /\ len < 268435456 /\ n = 4
    <3>1. (len % 128) + (((len \div 128) % 128) * 128) + (((len \div 16384) % 128) * 16384)
            + (((len \div 2097152) % 128) * 2097152) = len
      BY <2>4
    <3>2. QED BY <1>4, <2>4, <3>1
  <2>5. QED BY <2>1, <2>2, <2>3, <2>4, DigitsCases
<1>6. QED BY <1>3, <1>5 DEF d

(* What Mqtt_DumpLength leaves when it gives up cannot be read back. *)
LEMMA UnreadableWhenTooLarge ==
  ASSUME NEW len \in Nat, TooLarge(len)
  PROVE  ~ Readable(DumpLength(len))
<1>1. PICK d : d = DumpLength(len)
  OBVIOUS
<1>2. d \in Seq(0..255) /\ Len(d) = 4 /\ \A i \in 1..4 : d[i] = DigitAt(len, i) + 128 /\ DigitAt(len, i) \in 0..127
  BY <1>1, DumpLengthIs
<1>3. ASSUME NEW i \in DOMAIN d PROVE ~ (d[i] < Radix)
  <2>1. i \in 1..4
    BY <1>2
  <2>2. PICK k \in 0..127 : d[i] = k + 128
    BY <1>2, <2>1
  <2>3. QED BY <2>2 DEF Radix
<1>4. QED BY <1>1, <1>3 DEF Readable

(* What is read is a number. *)
LEMMA ReadLengthType ==
  ASSUME NEW bytes \in Seq(0..255)
  PROVE  ReadLength(bytes) \in Nat
<1>1. ASSUME NEW i \in 1..4
      PROVE  (IF i \in DOMAIN bytes /\ \A j \in 1..(i - 1) : bytes[j] >= Radix
                THEN (bytes[i] % Radix) * Weight[i] ELSE 0) \in Nat
  <2>1. ASSUME i \in DOMAIN bytes PROVE (bytes[i] % Radix) * Weight[i] \in Nat
    <3>1. PICK b \in 0..255 : b = bytes[i]
      <4>1. i \in 1 .. Len(bytes)
        BY <2>1
      <4>2. bytes[i] \in 0..255
        BY <4>1, ElementOfSeq
      <4>3. QED BY <4>2
    <3>2. PICK w \in Nat : w = Weight[i]
      BY DEF Weight
    <3>3. PICK r \in Nat : r = b % 128
      OBVIOUS
    <3>4. r * w \in Nat
      OBVIOUS
    <3>5. QED BY <3>1, <3>2, <3>3, <3>4 DEF Radix
  <2>2. QED BY <2>1
<1>2. QED BY <1>1 DEF ReadLength

(* A length in one byte. *)
LEMMA ReadOneByte ==
  ASSUME NEW n \in 0..127
  PROVE  ReadLength(<<n>>) = n
<1>1. PICK b : b = <<n>>
  OBVIOUS
<1>2. DOMAIN b = {1} /\ b[1] = n
  BY <1>1
<1>3. n % 128 = n /\ Weight[1] = 1
  BY DEF Weight
<1>4. ReadLength(b) = n
  BY <1>2, <1>3 DEF ReadLength, Radix
<1>5. QED BY <1>1, <1>4

-----------------------------------------------------------------------------
(***************************************************************************)
(* The bytes of one packet, in any list of extents.                        *)
(***************************************************************************)
OfPkt(exts, p) == [i \in DOMAIN exts |-> [len |-> IF exts[i].pkt = p THEN exts[i].len ELSE 0]]

(* Whatever has a length. *)
Sized == Extent \cup [len : Nat]

LEMMA SizedLen == \A x \in Sized : x.len \in Nat
BY DEF Sized, Extent

LEMMA TotalIs ==
  ASSUME NEW exts
  PROVE  Total(exts) = LenSum(exts)
BY DEF Total, LenSum

LEMMA SeqSized ==
  ASSUME NEW exts \in Seq(Extent)
  PROVE  exts \in Seq(Sized)
<1>1. Extent \subseteq Sized
  BY DEF Sized
<1>2. QED BY <1>1, SeqMonotonic

LEMMA OfPktIs ==
  ASSUME NEW exts \in Seq(Extent), NEW p
  PROVE  /\ OfPkt(exts, p) \in Seq(Sized) /\ Len(OfPkt(exts, p)) = Len(exts)
         /\ \A i \in 1 .. Len(exts) :
              OfPkt(exts, p)[i].len = IF exts[i].pkt = p THEN exts[i].len ELSE 0
<1> DEFINE n == Len(exts)
           at(i) == [len |-> IF exts[i].pkt = p THEN exts[i].len ELSE 0]
<1>1. n \in Nat /\ DOMAIN exts = 1 .. n
  BY LenProperties
<1>2. ASSUME NEW i \in 1 .. n PROVE at(i) \in Sized /\ at(i).len = IF exts[i].pkt = p THEN exts[i].len ELSE 0
  <2>1. exts[i] \in Extent
    BY <1>2, ElementOfSeq
  <2>2. exts[i].len \in Nat
    BY <2>1 DEF Extent
  <2>3. PICK k \in Nat : k = IF exts[i].pkt = p THEN exts[i].len ELSE 0
    BY <2>2
  <2>4. [len |-> k] \in Sized /\ [len |-> k].len = k
    BY DEF Sized
  <2>5. QED BY <2>3, <2>4
<1> HIDE DEF at
<1>3. PICK g \in [1 .. n -> Sized] : g = [i \in 1 .. n |-> at(i)]
  BY <1>2
<1>4. OfPkt(exts, p) = g
  BY <1>1, <1>3 DEF OfPkt, at
<1>5. g \in Seq(Sized) /\ Len(g) = n /\ \A i \in 1 .. n : g[i] = at(i)
  BY <1>1, <1>3
<1> HIDE DEF n
<1>6. QED BY <1>2, <1>4, <1>5 DEF n

LEMMA OfPktConcat ==
  ASSUME NEW a \in Seq(Extent), NEW b \in Seq(Extent), NEW p
  PROVE  /\ LenSum(OfPkt(a, p)) \in Nat /\ LenSum(OfPkt(b, p)) \in Nat
         /\ LenSum(OfPkt(a \o b, p)) = LenSum(OfPkt(a, p)) + LenSum(OfPkt(b, p))
<1>1. PICK u \in Seq(Sized), v \in Seq(Sized), w \in Seq(Sized) :
        u = OfPkt(a, p) /\ v = OfPkt(b, p) /\ w = OfPkt(a \o b, p)
  <2>1. a \o b \in Seq(Extent)
    BY ConcatProperties
  <2>2. QED BY <2>1, OfPktIs
<1>2. Len(a) \in Nat /\ Len(b) \in Nat /\ Len(a \o b) = Len(a) + Len(b) /\ a \o b \in Seq(Extent)
      /\ \A i \in 1 .. Len(a) + Len(b) : (a \o b)[i] = IF i <= Len(a) THEN a[i] ELSE b[i - Len(a)]
  BY ConcatProperties, LenProperties
<1>3. Len(u) = Len(a) /\ Len(v) = Len(b) /\ Len(w) = Len(a) + Len(b)
  BY <1>1, <1>2, OfPktIs
<1>4. \A i \in 1 .. Len(a) : u[i].len = IF a[i].pkt = p THEN a[i].len ELSE 0
  BY <1>1, OfPktIs
<1>5. \A i \in 1 .. Len(b) : v[i].len = IF b[i].pkt = p THEN b[i].len ELSE 0
  BY <1>1, OfPktIs
<1>6. \A i \in 1 .. Len(a) + Len(b) : w[i].len = IF (a \o b)[i].pkt = p THEN (a \o b)[i].len ELSE 0
  <2>1. PICK c \in Seq(Extent) : c = a \o b
    BY <1>2
  <2>2. w = OfPkt(c, p) /\ Len(c) = Len(a) + Len(b)
    BY <1>1, <1>2, <2>1
  <2>3. \A i \in 1 .. Len(c) : w[i].len = IF c[i].pkt = p THEN c[i].len ELSE 0
    BY <2>2, OfPktIs, SMTT(30)
  <2>4. QED BY <2>1, <2>2, <2>3
<1>7. u \o v \in Seq(Sized) /\ Len(u \o v) = Len(u) + Len(v)
      /\ \A i \in 1 .. Len(u) + Len(v) : (u \o v)[i] = IF i <= Len(u) THEN u[i] ELSE v[i - Len(u)]
  BY ConcatProperties
<1>8. ASSUME NEW i \in 1 .. Len(w) PROVE w[i].len = (u \o v)[i].len
  <2>1. i \in 1 .. Len(a) + Len(b)
    BY <1>3
  <2>2. CASE i <= Len(a)
    <3>1. i \in 1 .. Len(a) /\ i \in 1 .. Len(u) + Len(v) /\ i <= Len(u)
      BY <1>2, <1>3, <2>1, <2>2
    <3>2. (a \o b)[i] = a[i] /\ (u \o v)[i] = u[i]
      BY <1>2, <1>7, <2>1, <3>1
    <3>3. QED BY <1>4, <1>6, <2>1, <3>1, <3>2
  <2>3. CASE ~ (i <= Len(a))
    <3>1. i - Len(a) \in 1 .. Len(b) /\ i \in 1 .. Len(u) + Len(v) /\ ~ (i <= Len(u)) /\ i - Len(u) = i - Len(a)
      BY <1>2, <1>3, <2>1, <2>3
    <3>2. (a \o b)[i] = b[i - Len(a)] /\ (u \o v)[i] = v[i - Len(a)]
      BY <1>2, <1>7, <2>1, <2>3, <3>1
    <3>3. QED BY <1>5, <1>6, <2>1, <3>1, <3>2
  <2>4. QED BY <2>2, <2>3
<1>9. LenSum(w) = LenSum(u \o v)
  <2>1. Len(w) = Len(u \o v)
    BY <1>3, <1>7
  <2>2. QED BY <1>7, <1>8, <2>1, SizedLen, LenSumSame
<1>10. LenSum(u) \in Nat /\ LenSum(v) \in Nat /\ LenSum(u \o v) = LenSum(u) + LenSum(v)
  BY SizedLen, LenSumConcat
<1>11. QED BY <1>1, <1>9, <1>10

LEMMA OfPktNone ==
  ASSUME NEW exts \in Seq(Extent), NEW p, \A i \in 1 .. Len(exts) : exts[i].pkt # p
  PROVE  LenSum(OfPkt(exts, p)) = 0
<1>1. PICK u \in Seq(Sized) : u = OfPkt(exts, p)
  BY OfPktIs
<1>2. Len(u) = Len(exts) /\ \A i \in 1 .. Len(u) : u[i].len = 0
  BY <1>1, OfPktIs
<1>3. Len(u) \in Nat /\ \A i \in 1 .. Len(u) : LenAt(u)[i] = u[i].len
  BY SizedLen, LensAre
<1> DEFINE P == [k \in 0 .. Len(u) |-> 0]
<1>4. IsSums(P, LenAt(u), Len(u))
  BY <1>2, <1>3 DEF IsSums
<1>5. P[Len(u)] = 0
  BY <1>3
<1> HIDE DEF P
<1>6. LenSum(u) = P[Len(u)]
  BY <1>4, SizedLen, LenSumIsSum
<1>7. QED BY <1>1, <1>5, <1>6

LEMMA OfPktAll ==
  ASSUME NEW exts \in Seq(Extent), NEW p, \A i \in 1 .. Len(exts) : exts[i].pkt = p
  PROVE  LenSum(OfPkt(exts, p)) = LenSum(exts)
<1>1. PICK u \in Seq(Sized) : u = OfPkt(exts, p)
  BY OfPktIs
<1>2. Len(u) = Len(exts) /\ \A i \in 1 .. Len(u) : u[i].len = exts[i].len
  BY <1>1, OfPktIs
<1>3. exts \in Seq(Sized)
  BY SeqSized
<1>4. LenSum(u) = LenSum(exts)
  BY <1>2, <1>3, SizedLen, LenSumSame
<1>5. QED BY <1>1, <1>4

(* Two lists whose extents have the same lengths and packets. *)
LEMMA OfPktSame ==
  ASSUME NEW a \in Seq(Extent), NEW b \in Seq(Extent), NEW p, Len(a) = Len(b),
         \A i \in 1 .. Len(a) : /\ a[i].pkt = b[i].pkt
                                /\ a[i].pkt = p => a[i].len = b[i].len
  PROVE  LenSum(OfPkt(a, p)) = LenSum(OfPkt(b, p))
<1>1. PICK u \in Seq(Sized), v \in Seq(Sized) : u = OfPkt(a, p) /\ v = OfPkt(b, p)
  BY OfPktIs
<1>2. Len(u) = Len(a) /\ Len(v) = Len(a) /\ \A i \in 1 .. Len(a) : u[i].len = IF a[i].pkt = p THEN a[i].len ELSE 0
  BY <1>1, OfPktIs
<1>3. \A i \in 1 .. Len(a) : v[i].len = IF b[i].pkt = p THEN b[i].len ELSE 0
  BY <1>1, OfPktIs
<1>4. \A i \in 1 .. Len(u) : u[i].len = v[i].len
  BY <1>2, <1>3
<1>5. LenSum(u) = LenSum(v)
  BY <1>2, <1>4, SizedLen, LenSumSame
<1>6. QED BY <1>1, <1>5

(* The bytes of a packet that the properties speak of are these. *)
LEMMA PktLenIs ==
  \A p : PktLen(p) = LenSum(OfPkt(list, p)) /\ PktLen(p)' = LenSum(OfPkt(list', p))
<1>1. ASSUME NEW exts, NEW p
      PROVE  SumOf([i \in DOMAIN exts |-> IF exts[i].pkt = p THEN exts[i].len ELSE 0]) = LenSum(OfPkt(exts, p))
  BY TotalIs DEF SumOf, OfPkt
<1>2. QED BY <1>1 DEF PktLen

-----------------------------------------------------------------------------
(***************************************************************************)
(* The inductive invariant.  Packets are numbered as they were packed, so  *)
(* the first extent is that of the first packet; as long as the length of  *)
(* its fixed header can be read, the header's extent is as long as its     *)
(* bytes say, which is what Mqtt_AppendLength takes for granted.           *)
(***************************************************************************)
PktsKnown == \A i \in DOMAIN list : list[i].pkt \in 1..pkts

FirstPkt == IF list = <<>> THEN pkts = 0 ELSE list[1].pkt = 1

(* A fixed header that Mqtt_AppendLength may rewrite. *)
Rewritable(e) ==
  e.type = "PUBLISH" => /\ e.room = 5
                        /\ Readable(e.digits) => e.len = Len(e.digits) + 1

HeadShape == list # <<>> => Rewritable(list[1])

PackInv ==
  /\ TypeOK
  /\ LengthsRight
  /\ FullyWritten
  /\ BufferedRight
  /\ PktsKnown
  /\ FirstPkt
  /\ HeadShape

(* What a packing function must hand to MqttBuffer_AppendExtent. *)
Written(e, met) == e.filled <= e.room /\ ("truncated" \notin met => e.len <= e.filled)

Framed(exts, met) ==
  /\ exts \in Seq(Extent)
  /\ exts # <<>>
  /\ met \subseteq {"truncated", "unappended"}
  /\ \A i \in 1 .. Len(exts) : Written(exts[i], met)
  /\ Rewritable(exts[1])
  /\ "unappended" \notin met =>
       LenSum(exts) = 1 + Len(exts[1].digits) + ReadLength(exts[1].digits)

-----------------------------------------------------------------------------
(***************************************************************************)
(* Linking the extents of a packet.                                        *)
(***************************************************************************)
LEMMA LinkedIs ==
  ASSUME NEW e \in Extent, NEW p \in Nat
  PROVE  /\ Linked(e, p) \in Extent /\ Linked(e, p).pkt = p
         /\ Linked(e, p).type = e.type /\ Linked(e, p).digits = e.digits /\ Linked(e, p).len = e.len
         /\ Linked(e, p).room = e.room /\ Linked(e, p).filled = e.filled
BY DEF Linked, Extent

(* The same extents, of packet p. *)
Relinked(more, exts, p) ==
  /\ Len(more) = Len(exts)
  /\ \A i \in 1 .. Len(exts) :
       /\ more[i].pkt = p
       /\ more[i].type = exts[i].type /\ more[i].digits = exts[i].digits /\ more[i].len = exts[i].len
       /\ more[i].room = exts[i].room /\ more[i].filled = exts[i].filled

LEMMA RelinkedExists ==
  ASSUME NEW exts \in Seq(Extent), NEW p \in Nat
  PROVE  \E more \in Seq(Extent) :
           more = [i \in DOMAIN exts |-> Linked(exts[i], p)] /\ Relinked(more, exts, p)
<1> DEFINE n == Len(exts)
<1>1. n \in Nat /\ DOMAIN exts = 1 .. n /\ \A i \in 1 .. n : exts[i] \in Extent
  BY LenProperties, ElementOfSeq
<1>2. PICK more \in [1 .. n -> Extent] : more = [i \in 1 .. n |-> Linked(exts[i], p)]
  <2> HIDE DEF n
  <2>1. \A i \in 1 .. n : Linked(exts[i], p) \in Extent
    BY <1>1, LinkedIs
  <2>2. QED BY <2>1
<1>3. more \in Seq(Extent) /\ Len(more) = n
  BY <1>1
<1>4. ASSUME NEW i \in 1 .. n
      PROVE  /\ more[i].pkt = p
             /\ more[i].type = exts[i].type /\ more[i].digits = exts[i].digits /\ more[i].len = exts[i].len
             /\ more[i].room = exts[i].room /\ more[i].filled = exts[i].filled
  <2>1. PICK e \in Extent : e = exts[i]
    BY <1>1
  <2>2. more[i] = Linked(e, p)
    BY <1>2, <2>1
  <2>3. /\ Linked(e, p).pkt = p
        /\ Linked(e, p).type = e.type /\ Linked(e, p).digits = e.digits /\ Linked(e, p).len = e.len
        /\ Linked(e, p).room = e.room /\ Linked(e, p).filled = e.filled
    BY LinkedIs
  <2>4. QED BY <2>1, <2>2, <2>3
<1>5. Relinked(more, exts, p)
  BY <1>3, <1>4 DEF Relinked
<1>6. QED BY <1>1, <1>2, <1>3, <1>5

(* What Packed does to the list. *)
Longer(more, exts) ==
  /\ more \in Seq(Extent) /\ Relinked(more, exts, pkts + 1)
  /\ list \in Seq(Extent) /\ list' \in Seq(Extent)
  /\ list' = list \o more
  /\ Len(list) \in Nat /\ Len(more) \in Nat \ {0}
  /\ Len(list') = Len(list) + Len(more)
  /\ \A i \in 1 .. Len(list) : list'[i] = list[i]
  /\ \A i \in 1 .. Len(more) : list'[Len(list) + i] = more[i]
  /\ pkts \in Nat /\ pkts' = pkts + 1

LEMMA PackedLonger ==
  ASSUME TypeOK, NEW exts, NEW met, Framed(exts, met), Packed(exts, met)
  PROVE  \E more : Longer(more, exts)
<1>1. exts \in Seq(Extent) /\ exts # <<>> /\ list \in Seq(Extent) /\ pkts \in Nat /\ pkts + 1 \in Nat
  BY DEF Framed, TypeOK
<1>2. PICK more \in Seq(Extent) :
        more = [i \in DOMAIN exts |-> Linked(exts[i], pkts + 1)] /\ Relinked(more, exts, pkts + 1)
  BY <1>1, RelinkedExists
<1>3. list' = list \o more /\ pkts' = pkts + 1
  BY <1>2 DEF Packed
<1>4. Len(more) \in Nat \ {0} /\ Len(list) \in Nat
  BY <1>1, <1>2, EmptySeq DEF Relinked
<1>5. /\ list \o more \in Seq(Extent) /\ Len(list \o more) = Len(list) + Len(more)
      /\ \A i \in 1 .. Len(list) + Len(more) :
           (list \o more)[i] = IF i <= Len(list) THEN list[i] ELSE more[i - Len(list)]
  BY <1>1, ConcatProperties
<1>6. ASSUME NEW i \in 1 .. Len(list) PROVE (list \o more)[i] = list[i]
  <2>1. i \in 1 .. Len(list) + Len(more) /\ i <= Len(list)
    BY <1>4
  <2>2. QED BY <1>5, <2>1
<1>7. ASSUME NEW i \in 1 .. Len(more) PROVE (list \o more)[Len(list) + i] = more[i]
  <2>1. Len(list) + i \in 1 .. Len(list) + Len(more) /\ ~ (Len(list) + i <= Len(list))
        /\ (Len(list) + i) - Len(list) = i
    BY <1>4
  <2>2. QED BY <1>5, <2>1
<1>8. Longer(more, exts)
  BY <1>1, <1>2, <1>3, <1>4, <1>5, <1>6, <1>7 DEF Longer
<1>9. QED BY <1>8

-----------------------------------------------------------------------------
(***************************************************************************)
(* A packing function that hands over a framed packet keeps the invariant. *)
(***************************************************************************)
Linking(more, exts, met) ==
  /\ PackInv
  /\ pkts < MaxPkts
  /\ Framed(exts, met)
  /\ Packed(exts, met)
  /\ Longer(more, exts)

(* An index of the longer list is one of the old list or one of the rest. *)
LEMMA LongerIndex ==
  ASSUME NEW more, NEW exts, Longer(more, exts), NEW i \in DOMAIN list'
  PROVE  \/ i \in 1 .. Len(list) /\ i \in DOMAIN list /\ list'[i] = list[i]
         \/ \E k \in 1 .. Len(more) : i = Len(list) + k /\ list'[i] = more[k]
<1>1. /\ DOMAIN list' = 1 .. Len(list) + Len(more) /\ DOMAIN list = 1 .. Len(list)
      /\ Len(list) \in Nat /\ Len(more) \in Nat
      /\ \A k \in 1 .. Len(list) : list'[k] = list[k]
      /\ \A k \in 1 .. Len(more) : list'[Len(list) + k] = more[k]
  BY DEF Longer
<1>2. CASE i <= Len(list)
  <2>1. i \in 1 .. Len(list)
    BY <1>1, <1>2
  <2>2. QED BY <1>1, <2>1
<1>3. CASE ~ (i <= Len(list))
  <2>1. i - Len(list) \in 1 .. Len(more) /\ i = Len(list) + (i - Len(list))
    BY <1>1, <1>3
  <2>2. QED BY <1>1, <2>1
<1>4. QED BY <1>2, <1>3

(* The first extent stays the first; of an empty list it is that of exts. *)
LEMMA LongerFirst ==
  ASSUME NEW more, NEW exts, Longer(more, exts)
  PROVE  /\ list' # <<>>
         /\ list # <<>> => list'[1] = list[1]
         /\ list = <<>> => list'[1] = more[1]
<1>1. /\ Len(list) \in Nat /\ Len(more) \in Nat \ {0} /\ Len(list') = Len(list) + Len(more)
      /\ \A k \in 1 .. Len(list) : list'[k] = list[k]
      /\ \A k \in 1 .. Len(more) : list'[Len(list) + k] = more[k]
      /\ list \in Seq(Extent) /\ list' \in Seq(Extent)
  BY DEF Longer
<1>2. list' # <<>>
  <2>1. Len(list') # 0
    BY <1>1
  <2>2. QED BY <1>1, <2>1, EmptySeq
<1>3. ASSUME list # <<>> PROVE list'[1] = list[1]
  <2>1. Len(list) # 0
    BY <1>1, <1>3, EmptySeq
  <2>2. 1 \in 1 .. Len(list)
    BY <1>1, <2>1
  <2>3. QED BY <1>1, <2>2
<1>4. ASSUME list = <<>> PROVE list'[1] = more[1]
  <2>1. Len(list) = 0
    BY <1>4, EmptySeq
  <2>2. 1 \in 1 .. Len(more) /\ Len(list) + 1 = 1
    BY <1>1, <2>1
  <2>3. QED BY <1>1, <2>2
<1>5. QED BY <1>2, <1>3, <1>4

LEMMA LinkingTypes ==
  ASSUME NEW more, NEW exts, NEW met, Linking(more, exts, met)
  PROVE  TypeOK'
<1>1. list' \in Seq(Extent)
  BY DEF Linking, Longer
<1>2. buffered' \in Nat
  <2>1. exts \in Seq(Sized) /\ buffered \in Nat
    BY SeqSized DEF Linking, Framed, PackInv, TypeOK
  <2>2. LenSum(exts) \in Nat
    BY <2>1, SizedLen, LenSumConcat
  <2>3. buffered' = buffered + LenSum(exts)
    BY TotalIs DEF Linking, Packed
  <2>4. QED BY <2>1, <2>2, <2>3
<1>3. pkts' \in 0..MaxPkts
  BY MqttPackAssumption DEF Linking, Longer
<1>4. ret' = "NOERROR" /\ faults' \subseteq {"truncated", "unappended", "rewritten", "misdirected"}
  BY DEF Linking, Packed, PackInv, TypeOK, Framed
<1>5. QED BY <1>1, <1>2, <1>3, <1>4 DEF TypeOK

LEMMA LinkingWritten ==
  ASSUME NEW more, NEW exts, NEW met, Linking(more, exts, met)
  PROVE  FullyWritten'
<1>1. faults \subseteq faults' /\ met \subseteq faults'
  BY DEF Linking, Packed
<1>2. ASSUME NEW i \in DOMAIN list'
      PROVE  list'[i].filled <= list'[i].room /\ ("truncated" \notin faults' => list'[i].len <= list'[i].filled)
  <2>1. CASE i \in DOMAIN list /\ list'[i] = list[i]
    BY <1>1, <2>1 DEF Linking, PackInv, FullyWritten
  <2>2. ASSUME NEW k \in 1 .. Len(more), list'[i] = more[k]
        PROVE  list'[i].filled <= list'[i].room /\ ("truncated" \notin faults' => list'[i].len <= list'[i].filled)
    <3>1. k \in 1 .. Len(exts) /\ more[k].len = exts[k].len /\ more[k].room = exts[k].room /\ more[k].filled = exts[k].filled
      BY DEF Linking, Longer, Relinked
    <3>2. Written(exts[k], met)
      BY <3>1 DEF Linking, Framed
    <3>3. QED BY <1>1, <2>2, <3>1, <3>2 DEF Written
  <2>3. QED BY <2>1, <2>2, LongerIndex DEF Linking
<1>3. QED BY <1>2 DEF FullyWritten

LEMMA LinkingBuffered ==
  ASSUME NEW more, NEW exts, NEW met, Linking(more, exts, met)
  PROVE  BufferedRight'
<1>1. ASSUME "rewritten" \notin faults' PROVE buffered' = LenSum(list')
  <2>1. "rewritten" \notin faults
    BY <1>1 DEF Linking, Packed
  <2>2. buffered = LenSum(list)
    BY <2>1, TotalIs DEF Linking, PackInv, BufferedRight
  <2>3. buffered' = buffered + LenSum(exts)
    BY TotalIs DEF Linking, Packed
  <2>4. list \in Seq(Sized) /\ more \in Seq(Sized) /\ exts \in Seq(Sized)
    BY SeqSized DEF Linking, Longer, Framed
  <2>5. LenSum(more) = LenSum(exts)
    <3>1. Len(more) = Len(exts) /\ \A i \in 1 .. Len(more) : more[i].len = exts[i].len
      BY DEF Linking, Longer, Relinked
    <3>2. QED BY <2>4, <3>1, SizedLen, LenSumSame
  <2>6. LenSum(list') = LenSum(list) + LenSum(more)
    <3>1. list' = list \o more
      BY DEF Linking, Longer
    <3>2. LenSum(list \o more) = LenSum(list) + LenSum(more)
      BY <2>4, SizedLen, LenSumConcat
    <3>3. QED BY <3>1, <3>2
  <2>7. QED BY <2>2, <2>3, <2>5, <2>6
<1>2. QED BY <1>1, TotalIs DEF BufferedRight

LEMMA LinkingHeads ==
  ASSUME NEW more, NEW exts, NEW met, Linking(more, exts, met)
  PROVE  PktsKnown' /\ FirstPkt' /\ HeadShape'
<1>0. /\ Longer(more, exts) /\ Len(more) \in Nat \ {0} /\ pkts \in Nat /\ pkts' = pkts + 1
      /\ \A k \in 1 .. Len(more) : more[k].pkt = pkts + 1
      /\ Len(more) = Len(exts)
  BY DEF Linking, Longer, Relinked
<1>1. PktsKnown'
  <2>1. ASSUME NEW i \in DOMAIN list' PROVE list'[i].pkt \in 1..pkts'
    <3>1. CASE i \in DOMAIN list /\ list'[i] = list[i]
      <4>1. list[i].pkt \in 1..pkts
        BY <3>1 DEF Linking, PackInv, PktsKnown
      <4>2. QED BY <1>0, <3>1, <4>1
    <3>2. CASE \E k \in 1 .. Len(more) : list'[i] = more[k]
      <4>1. list'[i].pkt = pkts + 1
        BY <1>0, <3>2
      <4>2. QED BY <1>0, <4>1
    <3>3. QED BY <1>0, <3>1, <3>2, LongerIndex
  <2>2. QED BY <2>1 DEF PktsKnown
<1>2. list' # <<>> /\ (list # <<>> => list'[1] = list[1]) /\ (list = <<>> => list'[1] = more[1])
  BY <1>0, LongerFirst
<1>3. 1 \in 1 .. Len(more) /\ 1 \in 1 .. Len(exts)
  BY <1>0
<1>4. FirstPkt'
  <2>1. list # <<>> => list[1].pkt = 1
    BY DEF Linking, PackInv, FirstPkt
  <2>2. list = <<>> => more[1].pkt = 1
    BY <1>0, <1>3 DEF Linking, PackInv, FirstPkt
  <2>3. list'[1].pkt = 1
    BY <1>2, <2>1, <2>2
  <2>4. QED BY <1>2, <2>3 DEF FirstPkt
<1>5. HeadShape'
  <2>1. list # <<>> => Rewritable(list[1])
    BY DEF Linking, PackInv, HeadShape
  <2>2. Rewritable(more[1])
    <3>1. Rewritable(exts[1])
      BY DEF Linking, Framed
    <3>2. /\ more[1].type = exts[1].type /\ more[1].digits = exts[1].digits
          /\ more[1].len = exts[1].len /\ more[1].room = exts[1].room
      BY <1>3 DEF Linking, Longer, Relinked
    <3>3. QED BY <3>1, <3>2 DEF Rewritable
  <2>3. Rewritable(list'[1])
    BY <1>2, <2>1, <2>2
  <2>4. QED BY <2>3 DEF HeadShape
<1>6. QED BY <1>1, <1>4, <1>5

(* What LengthsRight says of the packet p, whose head is extent i. *)
HeadRight(i, p) ==
  /\ IsHead(i, p)
  /\ \/ faults \cap {"unappended", "misdirected"} # {}
     \/ p = 1 /\ list[i].len = 0
     \/ PktLen(p) = 1 + Len(list[i].digits) + ReadLength(list[i].digits)

LEMMA LengthsRightIs ==
  LengthsRight <=> \A p \in 1..pkts : \E i \in DOMAIN list : HeadRight(i, p)
BY DEF LengthsRight, HeadRight

LEMMA LinkingLengths ==
  ASSUME NEW more, NEW exts, NEW met, Linking(more, exts, met)
  PROVE  LengthsRight'
<1>0. /\ Longer(more, exts) /\ Len(list) \in Nat /\ Len(more) \in Nat \ {0} /\ pkts \in Nat /\ pkts' = pkts + 1
      /\ \A k \in 1 .. Len(more) : more[k].pkt = pkts + 1
      /\ Len(more) = Len(exts)
      /\ list' = list \o more /\ list \in Seq(Extent) /\ more \in Seq(Extent)
      /\ DOMAIN list = 1 .. Len(list) /\ DOMAIN list' = 1 .. Len(list) + Len(more)
      /\ \A i \in 1 .. Len(list) : list'[i] = list[i]
      /\ \A i \in 1 .. Len(more) : list'[Len(list) + i] = more[i]
      /\ faults \subseteq faults' /\ met \subseteq faults'
  BY SMTT(30) DEF Linking, Longer, Relinked, Packed
<1>1. ASSUME NEW p
      PROVE  /\ LenSum(OfPkt(list, p)) \in Nat /\ LenSum(OfPkt(more, p)) \in Nat
             /\ PktLen(p)' = LenSum(OfPkt(list, p)) + LenSum(OfPkt(more, p))
             /\ PktLen(p) = LenSum(OfPkt(list, p))
  <2>1. /\ LenSum(OfPkt(list, p)) \in Nat /\ LenSum(OfPkt(more, p)) \in Nat
        /\ LenSum(OfPkt(list \o more, p)) = LenSum(OfPkt(list, p)) + LenSum(OfPkt(more, p))
    BY <1>0, OfPktConcat
  <2>2. PktLen(p)' = LenSum(OfPkt(list', p)) /\ PktLen(p) = LenSum(OfPkt(list, p))
    BY PktLenIs
  <2>3. QED BY <1>0, <2>1, <2>2
<1>2. ASSUME NEW p \in 1..pkts PROVE \E i \in DOMAIN list' : HeadRight(i, p)'
  <2>1. PICK i \in DOMAIN list : HeadRight(i, p)
    BY LengthsRightIs DEF Linking, PackInv
  <2>2. i \in 1 .. Len(list) /\ i \in DOMAIN list' /\ list'[i] = list[i]
    BY <1>0
  <2>3. IsHead(i, p)'
    <3>1. list[i].pkt = p /\ \A j \in 1..(i - 1) : list[j].pkt # p
      BY <2>1 DEF HeadRight, IsHead
    <3>2. ASSUME NEW j \in 1..(i - 1) PROVE list'[j].pkt # p
      <4>1. j \in 1 .. Len(list)
        BY <1>0, <2>2
      <4>2. QED BY <1>0, <3>1, <4>1
    <3>3. QED BY <2>2, <3>1, <3>2 DEF IsHead
  <2>4. PktLen(p)' = PktLen(p)
    <3>1. \A k \in 1 .. Len(more) : more[k].pkt # p
      BY <1>0
    <3>2. LenSum(OfPkt(more, p)) = 0
      BY <1>0, <3>1, OfPktNone
    <3>3. QED BY <1>1, <3>2
  <2>5. \/ faults \cap {"unappended", "misdirected"} # {}
        \/ p = 1 /\ list[i].len = 0
        \/ PktLen(p) = 1 + Len(list[i].digits) + ReadLength(list[i].digits)
    BY <2>1 DEF HeadRight
  <2>6. \/ faults' \cap {"unappended", "misdirected"} # {}
        \/ p = 1 /\ list'[i].len = 0
        \/ PktLen(p)' = 1 + Len(list'[i].digits) + ReadLength(list'[i].digits)
    BY <1>0, <2>2, <2>4, <2>5
  <2>7. HeadRight(i, p)'
    BY <2>3, <2>6 DEF HeadRight
  <2>8. QED BY <2>2, <2>7
<1>3. ASSUME NEW p, p = pkts + 1 PROVE \E i \in DOMAIN list' : HeadRight(i, p)'
  <2>i. PICK i \in Nat : i = Len(list) + 1
    BY <1>0
  <2>0. 1 \in 1 .. Len(more) /\ 1 \in 1 .. Len(exts)
    BY <1>0
  <2>1. i \in DOMAIN list' /\ list'[i] = more[1]
    BY <1>0, <2>0, <2>i
  <2>2. \A j \in 1 .. Len(list) : list[j].pkt # p
    <3>1. \A j \in DOMAIN list : list[j].pkt \in 1..pkts
      BY DEF Linking, PackInv, PktsKnown
    <3>2. ~ (p \in 1..pkts)
      BY <1>0, <1>3
    <3>3. QED BY <1>0, <3>1, <3>2
  <2>3. IsHead(i, p)'
    <3>1. list'[i].pkt = p
      BY <1>0, <1>3, <2>0, <2>1
    <3>2. ASSUME NEW j \in 1..(i - 1) PROVE list'[j].pkt # p
      <4>1. j \in 1 .. Len(list)
        BY <1>0, <2>i
      <4>2. QED BY <1>0, <2>2, <4>1
    <3>3. QED BY <3>1, <3>2 DEF IsHead
  <2>4. CASE "unappended" \in met
    <3>1. faults' \cap {"unappended", "misdirected"} # {}
      BY <1>0, <2>4
    <3>2. HeadRight(i, p)'
      BY <2>3, <3>1 DEF HeadRight
    <3>3. QED BY <2>1, <3>2
  <2>5. CASE "unappended" \notin met
    <3>1. LenSum(exts) = 1 + Len(exts[1].digits) + ReadLength(exts[1].digits)
      BY <2>5 DEF Linking, Framed
    <3>2. more[1].digits = exts[1].digits
      BY <2>0 DEF Linking, Longer, Relinked
    <3>3. LenSum(more) = LenSum(exts)
      <4>1. Len(more) = Len(exts) /\ \A k \in 1 .. Len(more) : more[k].len = exts[k].len
        BY DEF Linking, Longer, Relinked
      <4>2. more \in Seq(Sized) /\ exts \in Seq(Sized)
        BY <1>0, SeqSized DEF Linking, Framed
      <4>3. QED BY <4>1, <4>2, SizedLen, LenSumSame
    <3>4. LenSum(OfPkt(more, p)) = LenSum(more)
      BY <1>0, <1>3, OfPktAll
    <3>5. LenSum(OfPkt(list, p)) = 0
      BY <1>0, <2>2, OfPktNone
    <3>6. PktLen(p)' = LenSum(exts)
      BY <1>1, <3>3, <3>4, <3>5
    <3>7. HeadRight(i, p)'
      BY <2>1, <2>3, <3>1, <3>2, <3>6 DEF HeadRight
    <3>8. QED BY <2>1, <3>7
  <2>6. QED BY <2>4, <2>5
<1>4. ASSUME NEW p \in 1..pkts' PROVE \E i \in DOMAIN list' : HeadRight(i, p)'
  <2>1. p \in 1..pkts \/ p = pkts + 1
    BY <1>0
  <2>2. QED BY <1>2, <1>3, <2>1
<1>5. LengthsRight' <=> \A p \in 1..pkts' : \E i \in DOMAIN list' : HeadRight(i, p)'
  BY DEF LengthsRight, HeadRight
<1>6. QED BY <1>4, <1>5

LEMMA PackedKeeps ==
  ASSUME PackInv, pkts < MaxPkts, NEW exts, NEW met, Framed(exts, met), Packed(exts, met)
  PROVE  PackInv' /\ ret' = "NOERROR"
<1>1. PICK more : Longer(more, exts)
  BY PackedLonger DEF PackInv
<1>2. Linking(more, exts, met)
  BY <1>1 DEF Linking
<1>3. ret' = "NOERROR"
  BY DEF Packed
<1>4. QED
  BY <1>2, <1>3, LinkingTypes, LinkingWritten, LinkingBuffered, LinkingHeads, LinkingLengths DEF PackInv

(* A call that returns an error, or not at all, changes nothing. *)
LEMMA ReturnsKeeps ==
  ASSUME PackInv, NEW err \in Errors \cup {"crash"}, Returns(err)
  PROVE  PackInv' /\ UNCHANGED <<list, buffered, pkts>>
<1>1. UNCHANGED <<list, buffered, pkts, faults>> /\ ret' \in Errors \cup {"NOERROR", "crash"}
  BY DEF Returns
<1>2. TypeOK' /\ FullyWritten' /\ BufferedRight' /\ PktsKnown' /\ FirstPkt' /\ HeadShape'
  BY <1>1 DEF PackInv, TypeOK, FullyWritten, BufferedRight, PktsKnown, FirstPkt, HeadShape
<1>3. LengthsRight'
  BY <1>1 DEF PackInv, LengthsRight, IsHead, PktLen
<1>4. QED BY <1>1, <1>2, <1>3 DEF PackInv

-----------------------------------------------------------------------------
(***************************************************************************)
(* Calls.                                                                  *)
(***************************************************************************)
(* What a step may do to the buffer when it returns an error. *)
Untouched ==
  ret' \in Errors =>
    /\ UNCHANGED <<buffered, pkts>>
    /\ \/ UNCHANGED list
       \/ ret' = "PKT_TOO_LARGE" /\ Tail(list') = Tail(list) /\ list'[1].len = 0

Fails == Errors \cup {"crash"}

Failing(checks) == \A i \in DOMAIN checks : checks[i].err \in Fails

LEMMA ReturnsUntouched ==
  ASSUME PackInv, NEW err \in Fails, Returns(err)
  PROVE  PackInv' /\ Untouched
BY ReturnsKeeps DEF Fails, Untouched

LEMMA PackedUntouched ==
  ASSUME PackInv, pkts < MaxPkts, NEW exts, NEW met, Framed(exts, met), Packed(exts, met)
  PROVE  PackInv' /\ Untouched
BY PackedKeeps DEF Untouched, Errors

LEMMA CallKeeps ==
  ASSUME PackInv, pkts < MaxPkts, NEW checks, NEW exts, NEW met,
         Failing(checks), Passes(checks) => Framed(exts, met), Call(checks, exts, met)
  PROVE  PackInv' /\ Untouched
<1>1. CASE \E err \in Stops(checks) : Returns(err)
  <2>1. PICK err \in Stops(checks) : Returns(err)
    BY <1>1
  <2>2. err \in Fails
    BY Zenon DEF Failing, Stops
  <2>3. QED BY <2>1, <2>2, ReturnsUntouched
<1>2. CASE Passes(checks) /\ Packed(exts, met)
  BY <1>2, PackedUntouched
<1>3. QED BY <1>1, <1>2 DEF Call

(* A check that was passed did not fail. *)
LEMMA TestPassed ==
  ASSUME NEW len \in Nat, NEW err, FALSE \in Test(TooLarge(len), err).outcomes
  PROVE  ~ TooLarge(len)
BY DEF Test

LEMMA ChecksFail ==
  /\ Alloc.err \in Fails /\ AllocUnchecked.err \in Fails
  /\ \A fails, err : err \in Fails => Test(fails, err).err \in Fails
  /\ \A err \in {"INVALID_PARAMETER", "NOT_UTF8", "PKT_TOO_LARGE"} : err \in Fails
BY DEF Alloc, AllocUnchecked, Test, Fails, Errors

LEMMA FailingTwo ==
  ASSUME NEW a, NEW b, a.err \in Fails, b.err \in Fails
  PROVE  Failing(<<a, b>>)
BY DEF Failing

LEMMA FailingSix ==
  ASSUME NEW a, NEW b, NEW c, NEW d, NEW e, NEW f,
         a.err \in Fails, b.err \in Fails, c.err \in Fails, d.err \in Fails, e.err \in Fails, f.err \in Fails
  PROVE  Failing(<<a, b, c, d, e, f>>)
BY DEF Failing

LEMMA FailingNine ==
  ASSUME NEW a, NEW b, NEW c, NEW d, NEW e, NEW f, NEW g, NEW h, NEW i,
         a.err \in Fails, b.err \in Fails, c.err \in Fails, d.err \in Fails, e.err \in Fails,
         f.err \in Fails, g.err \in Fails, h.err \in Fails, i.err \in Fails
  PROVE  Failing(<<a, b, c, d, e, f, g, h, i>>)
BY DEF Failing

LEMMA PassedFifthOfSix ==
  ASSUME NEW a, NEW b, NEW c, NEW d, NEW e, NEW f, Passes(<<a, b, c, d, e, f>>)
  PROVE  FALSE \in e.outcomes
<1>1. 5 \in DOMAIN <<a, b, c, d, e, f>>
  OBVIOUS
<1>2. FALSE \in <<a, b, c, d, e, f>>[5].outcomes
  BY <1>1, Zenon DEF Passes
<1>3. QED BY <1>2

LEMMA PassedEighthOfNine ==
  ASSUME NEW a, NEW b, NEW c, NEW d, NEW e, NEW f, NEW g, NEW h, NEW i,
         Passes(<<a, b, c, d, e, f, g, h, i>>)
  PROVE  FALSE \in h.outcomes
<1>1. 8 \in DOMAIN <<a, b, c, d, e, f, g, h, i>>
  OBVIOUS
<1>2. FALSE \in <<a, b, c, d, e, f, g, h, i>>[8].outcomes
  BY <1>1, Zenon DEF Passes
<1>3. QED BY <1>2

-----------------------------------------------------------------------------
(***************************************************************************)
(* The extents that packing functions make.                                *)
(***************************************************************************)
Types == {"CONNECT", "PUBLISH", "PUBACK", "PUBREC", "PUBREL", "PUBCOMP", "SUBSCRIBE",
          "UNSUBSCRIBE", "PINGREQ", "DISCONNECT"}

LEMMA HeadExtIs ==
  ASSUME NEW type \in Types, NEW len \in Nat, ~ TooLarge(len), NEW met
  PROVE  LET e == HeadExt(type, 0, len)
         IN  /\ e \in Extent /\ Written(e, met) /\ Rewritable(e)
             /\ e.len = 1 + Len(e.digits) /\ ReadLength(e.digits) = len
<1>1. PICK d \in Seq(0..255) : d = DumpLength(len) /\ Len(d) \in 1..4
  BY DumpLengthIs, DigitsAre
<1>2. ReadLength(d) = len
  BY <1>1, ReadLengthIs
<1>3. PICK n \in 1..4 : n = Len(d)
  BY <1>1
<1>4. HeadExt(type, 0, len) =
        [type |-> type, flags |-> 0, digits |-> d, len |-> n + 1,
         room |-> 5, filled |-> n + 1, mem |-> "own", pkt |-> 0]
  BY <1>1, <1>3 DEF HeadExt
<1>5. HeadExt(type, 0, len) \in Extent
  BY <1>4 DEF Extent, Types
<1>6. PICK e : e = HeadExt(type, 0, len)
  OBVIOUS
<1>7. e.digits = d /\ e.len = n + 1 /\ e.room = 5 /\ e.filled = n + 1
  BY <1>4, <1>6
<1>8. Written(e, met) /\ Rewritable(e)
  <2>1. e.filled <= e.room /\ e.len <= e.filled /\ e.room = 5 /\ e.len = Len(e.digits) + 1
    <3>1. Len(e.digits) = n
      BY <1>3, <1>7
    <3>2. n + 1 <= n + 1 /\ n + 1 <= 5
      OBVIOUS
    <3>3. QED BY <1>7, <3>1, <3>2
  <2>2. QED BY <2>1 DEF Written, Rewritable
<1>9. e.len = 1 + Len(e.digits) /\ ReadLength(e.digits) = len
  BY <1>2, <1>3, <1>7
<1>10. QED BY <1>5, <1>6, <1>8, <1>9

LEMMA WholeExtIs ==
  ASSUME NEW type \in Types \ {"PUBLISH"}, NEW flags \in 0..15, NEW n \in {0, 2}, NEW met
  PROVE  LET e == WholeExt(type, flags, n)
         IN  /\ e \in Extent /\ Written(e, met) /\ Rewritable(e)
             /\ e.len = 1 + Len(e.digits) + ReadLength(e.digits)
<1>0. n \in 0..127 /\ n \in 0..255
  OBVIOUS
<1>a. <<n>> \in Seq(0..255) /\ Len(<<n>>) = 1
  BY <1>0
<1>1. PICK d \in Seq(0..255) : d = <<n>> /\ Len(d) = 1
  BY <1>a
<1>2. ReadLength(d) = n
  <2>1. ReadLength(<<n>>) = n
    <3>1. PICK b \in 0..127 : b = n
      BY <1>0
    <3>2. ReadLength(<<b>>) = b
      BY ReadOneByte
    <3>3. QED BY <3>1, <3>2, Zenon
  <2>2. d = <<n>>
    BY <1>1
  <2>3. QED BY <2>1, <2>2, Zenon
<1>3. WholeExt(type, flags, n) =
        [type |-> type, flags |-> flags, digits |-> d, len |-> 2 + n,
         room |-> 2 + n, filled |-> 2 + n, mem |-> "own", pkt |-> 0]
  BY <1>1 DEF WholeExt
<1>4. WholeExt(type, flags, n) \in Extent
  BY <1>3 DEF Extent, Types
<1>5. QED BY <1>1, <1>2, <1>3, <1>4 DEF Written, Rewritable

LEMMA BodyExtIs ==
  ASSUME NEW n \in Nat, NEW filled \in Nat, filled <= n, NEW met, "truncated" \notin met => filled = n
  PROVE  LET e == BodyExt(n, filled)
         IN  e \in Extent /\ Written(e, met) /\ e.len = n
<1>1. <<>> \in Seq(0..255)
  BY EmptySeq
<1>2. BodyExt(n, filled) \in Extent
  BY <1>1 DEF BodyExt, Extent
<1>3. QED BY <1>2 DEF BodyExt, Written

LEMMA DataExtIs ==
  ASSUME NEW n \in Nat, NEW mem \in {"own", "caller", "gone"}, NEW met
  PROVE  LET e == DataExt(n, mem)
         IN  e \in Extent /\ Written(e, met) /\ e.len = n
<1>1. <<>> \in Seq(0..255)
  BY EmptySeq
<1>2. DataExt(n, mem) = [type |-> "body", flags |-> 0, digits |-> <<>>, len |-> n,
                         room |-> n, filled |-> n, mem |-> mem, pkt |-> 0]
  BY DEF DataExt, BodyExt
<1>3. DataExt(n, mem) \in Extent
  BY <1>1, <1>2 DEF Extent
<1>4. QED BY <1>2, <1>3 DEF Written

(* A packet of one extent, of a fixed header and one, and of one and two. *)
LEMMA FramedOne ==
  ASSUME NEW h \in Extent, Written(h, {}), Rewritable(h), h.len = 1 + Len(h.digits) + ReadLength(h.digits)
  PROVE  Framed(<<h>>, {})
<1>a. <<h>> \in Seq(Extent)
  OBVIOUS
<1>1. PICK exts \in Seq(Extent) : exts = <<h>>
  BY <1>a
<1>2. Len(exts) = 1 /\ exts[1] = h /\ exts # <<>>
  BY <1>1
<1>3. LenSum(exts) = h.len
  <2>1. h \in Sized
    BY DEF Sized
  <2>2. QED BY <1>1, <2>1, SizedLen, LenSumTuples
<1>4. ASSUME NEW i \in 1 .. Len(exts) PROVE Written(exts[i], {})
  BY <1>2
<1>5. QED BY <1>1, <1>2, <1>3, <1>4 DEF Framed

Headed(h, len, met) ==
  /\ h \in Extent /\ Written(h, met) /\ Rewritable(h)
  /\ h.len = 1 + Len(h.digits) /\ ReadLength(h.digits) = len

LEMMA FramedTwo ==
  ASSUME NEW met \in SUBSET {"truncated", "unappended"}, NEW len \in Nat, NEW h, Headed(h, len, met),
         NEW b \in Extent, Written(b, met), "unappended" \notin met => b.len = len
  PROVE  Framed(<<h, b>>, met)
<1>0. h \in Extent /\ Written(h, met) /\ Rewritable(h) /\ h.len = 1 + Len(h.digits) /\ ReadLength(h.digits) = len
  BY DEF Headed
<1>a. <<h, b>> \in Seq(Extent)
  BY <1>0
<1>1. PICK exts \in Seq(Extent) : exts = <<h, b>>
  BY <1>a
<1>2. Len(exts) = 2 /\ exts[1] = h /\ exts[2] = b /\ exts # <<>>
  BY <1>1
<1>3. LenSum(exts) = h.len + b.len
  <2>1. h \in Sized /\ b \in Sized
    BY <1>0 DEF Sized
  <2>2. QED BY <1>1, <2>1, SizedLen, LenSumTuples
<1>4. ASSUME NEW i \in 1 .. Len(exts) PROVE Written(exts[i], met)
  <2>1. i = 1 \/ i = 2
    BY <1>2
  <2>2. QED BY <1>0, <1>2, <2>1
<1>5. "unappended" \notin met => LenSum(exts) = 1 + Len(exts[1].digits) + ReadLength(exts[1].digits)
  BY <1>0, <1>2, <1>3
<1>6. QED BY <1>0, <1>1, <1>2, <1>4, <1>5 DEF Framed

LEMMA FramedThree ==
  ASSUME NEW met \in SUBSET {"truncated", "unappended"}, NEW len \in Nat, NEW h, Headed(h, len, met),
         NEW b \in Extent, Written(b, met), NEW c \in Extent, Written(c, met), b.len + c.len = len
  PROVE  Framed(<<h, b, c>>, met)
<1>0. h \in Extent /\ Written(h, met) /\ Rewritable(h) /\ h.len = 1 + Len(h.digits) /\ ReadLength(h.digits) = len
  BY DEF Headed
<1>a. <<h, b, c>> \in Seq(Extent)
  BY <1>0
<1>1. PICK exts \in Seq(Extent) : exts = <<h, b, c>>
  BY <1>a
<1>2. Len(exts) = 3 /\ exts[1] = h /\ exts[2] = b /\ exts[3] = c /\ exts # <<>>
  BY <1>1
<1>3. LenSum(exts) = h.len + b.len + c.len
  <2>1. h \in Sized /\ b \in Sized /\ c \in Sized
    BY <1>0 DEF Sized
  <2>2. QED BY <1>1, <2>1, SizedLen, LenSumTuples
<1>4. ASSUME NEW i \in 1 .. Len(exts) PROVE Written(exts[i], met)
  <2>1. i = 1 \/ i = 2 \/ i = 3
    BY <1>2
  <2>2. QED BY <1>0, <1>2, <2>1
<1>5. LenSum(exts) = 1 + Len(exts[1].digits) + ReadLength(exts[1].digits)
  <2>1. b.len \in Nat /\ c.len \in Nat /\ Len(h.digits) \in Nat
    BY <1>0, LenProperties DEF Extent
  <2>2. QED BY <1>0, <1>2, <1>3, <2>1
<1>6. QED BY <1>0, <1>1, <1>2, <1>4, <1>5 DEF Framed

-----------------------------------------------------------------------------
(***************************************************************************)
(* The packing functions.                                                  *)
(***************************************************************************)
LEMMA TextLens ==
  /\ \A t \in Text \cup {Null} : t.len \in Nat
  /\ \A t \in Checked : t.len \in Nat
  /\ \A t \in ShortChecked \cup Names \cup Ids \cup Parts : t.len \in Nat /\ t.len < Word
<1>1. ASSUME NEW t \in Text PROVE t.len \in Nat
  BY MqttPackAssumption DEF Text
<1>2. Null.len \in Nat /\ Null.len < Word
  BY DEF Null, Word
<1>3. ASSUME NEW t \in Text \cup {Null} PROVE t.len \in Nat
  BY <1>1, <1>2
<1>4. ASSUME NEW t \in Checked PROVE t.len \in Nat
  BY <1>1, <1>2 DEF Checked
<1>5. ASSUME NEW t \in Parts PROVE t.len \in Nat /\ t.len < Word
  <2>1. CASE t = Null
    BY <1>2, <2>1
  <2>2. ASSUME NEW n \in DataSizes, n < Word, t = Plain(n) PROVE t.len \in Nat /\ t.len < Word
    <3>1. n \in Nat
      BY MqttPackAssumption
    <3>2. QED BY <2>2, <3>1 DEF Plain
  <2>3. QED BY <2>1, <2>2 DEF Parts
<1>6. ASSUME NEW t \in ShortChecked \cup Names \cup Ids PROVE t.len \in Nat /\ t.len < Word
  BY <1>1, <1>4 DEF ShortChecked, Names, Ids
<1>7. QED BY <1>3, <1>4, <1>5, <1>6

(* Mqtt_PktWriteString never writes more than is counted for a string. *)
LEMMA WriteStringIs ==
  \A n \in Nat : /\ WriteString(n) \in Nat
                 /\ WriteString(n) <= 2 + n
                 /\ n < Word => WriteString(n) = 2 + n
BY DEF WriteString, Word

LEMMA ConnectFits ==
  ASSUME NEW id \in Ids, NEW topic \in ShortChecked, NEW msg \in Parts, NEW will \in BOOLEAN,
         NEW user \in ShortChecked, NEW password \in Parts
  PROVE  /\ ConnectRoom(id, topic, msg, will, user, password) \in Nat
         /\ ConnectFilled(id, topic, msg, will, user, password)
              = ConnectRoom(id, topic, msg, will, user, password)
<1>1. PICK i \in Nat : i = IdLen(id) /\ i < Word
  <2>1. id.len \in Nat /\ id.len < Word
    BY TextLens
  <2>2. IdLen(id) \in Nat /\ IdLen(id) < Word
    BY <2>1 DEF IdLen, Word
  <2>3. QED BY <2>2
<1>2. PICK t \in Nat, m \in Nat, u \in Nat, p \in Nat :
        /\ t = topic.len /\ t < Word /\ m = msg.len /\ m < Word
        /\ u = user.len /\ u < Word /\ p = password.len /\ p < Word
  BY TextLens
<1>3. WriteString(i) = 2 + i /\ WriteString(t) = 2 + t /\ WriteString(m) = 2 + m
      /\ WriteString(u) = 2 + u /\ WriteString(p) = 2 + p
  BY <1>1, <1>2, WriteStringIs
<1>4. ConnectRoom(id, topic, msg, will, user, password)
        = 2 + i + (IF will THEN 4 + t + m ELSE 0) + 2 + u + 2 + p
  BY <1>1, <1>2 DEF ConnectRoom
<1>5. ConnectFilled(id, topic, msg, will, user, password)
        = (2 + i) + (IF will THEN (2 + t) + (2 + m) ELSE 0) + (2 + u) + (2 + p)
  BY <1>1, <1>2, <1>3 DEF ConnectFilled
<1>6. QED BY <1>4, <1>5

LEMMA ConnectFailing ==
  ASSUME NEW topic, NEW msg, NEW qos, NEW user, NEW password, NEW len
  PROVE  Failing(ConnectChecks(topic, msg, qos, user, password, len))
<1>1. PICK c : c = Test(msg # Null /\ topic = Null, "INVALID_PARAMETER") /\ c.err \in Fails
  BY ChecksFail
<1>2. PICK d : d = Test(topic.kind = "not utf8", "NOT_UTF8") /\ d.err \in Fails
  BY ChecksFail
<1>3. PICK e : e = Test(qos \notin 0..2, "INVALID_PARAMETER") /\ e.err \in Fails
  BY ChecksFail
<1>4. PICK f : f = Test(user = Null \/ password = Null, "INVALID_PARAMETER") /\ f.err \in Fails
  BY ChecksFail
<1>5. PICK g : g = Test(user.kind = "not utf8", "NOT_UTF8") /\ g.err \in Fails
  BY ChecksFail
<1>6. PICK h : h = Test(TooLarge(len), "PKT_TOO_LARGE") /\ h.err \in Fails
  BY ChecksFail
<1>7. PICK a, u : a = Alloc /\ u = AllocUnchecked /\ a.err \in Fails /\ u.err \in Fails
  BY ChecksFail
<1>8. Failing(<<a, a, c, d, e, f, g, h, u>>)
  <2>1. /\ a.err \in Fails /\ c.err \in Fails /\ d.err \in Fails /\ e.err \in Fails
        /\ f.err \in Fails /\ g.err \in Fails /\ h.err \in Fails /\ u.err \in Fails
    BY <1>1, <1>2, <1>3, <1>4, <1>5, <1>6, <1>7
  <2>2. QED BY <2>1, FailingNine
<1>9. QED BY <1>1, <1>2, <1>3, <1>4, <1>5, <1>6, <1>7, <1>8 DEF ConnectChecks

LEMMA ConnectPassed ==
  ASSUME NEW topic, NEW msg, NEW qos, NEW user, NEW password, NEW len,
         Passes(ConnectChecks(topic, msg, qos, user, password, len))
  PROVE  FALSE \in Test(TooLarge(len), "PKT_TOO_LARGE").outcomes
<1>1. PICK a, c, d : a = Alloc /\ c = Test(msg # Null /\ topic = Null, "INVALID_PARAMETER")
                     /\ d = Test(topic.kind = "not utf8", "NOT_UTF8")
  OBVIOUS
<1>2. PICK e, f, g : e = Test(qos \notin 0..2, "INVALID_PARAMETER")
                     /\ f = Test(user = Null \/ password = Null, "INVALID_PARAMETER")
                     /\ g = Test(user.kind = "not utf8", "NOT_UTF8")
  OBVIOUS
<1>3. PICK h, u : h = Test(TooLarge(len), "PKT_TOO_LARGE") /\ u = AllocUnchecked
  OBVIOUS
<1>4. ConnectChecks(topic, msg, qos, user, password, len) = <<a, a, c, d, e, f, g, h, u>>
  BY <1>1, <1>2, <1>3 DEF ConnectChecks
<1>5. Passes(<<a, a, c, d, e, f, g, h, u>>)
  BY <1>4
<1>6. FALSE \in h.outcomes
  BY <1>5, PassedEighthOfNine
<1>7. QED BY <1>3, <1>6

LEMMA ConnectKeeps ==
  ASSUME PackInv, pkts < MaxPkts,
         NEW id \in Ids, NEW topic \in ShortChecked, NEW msg \in Parts, NEW qos \in Qos, NEW retain \in BOOLEAN,
         NEW user \in ShortChecked, NEW password \in Parts,
         PackConnectPkt(id, topic, msg, qos, retain, user, password)
  PROVE  PackInv' /\ Untouched
<1>1. PICK will \in BOOLEAN : will = HasWill(topic, qos, retain)
  BY DEF HasWill
<1>2. PICK room \in Nat : /\ room = ConnectRoom(id, topic, msg, will, user, password)
                          /\ room = ConnectFilled(id, topic, msg, will, user, password)
  BY ConnectFits
<1>3. PICK checks : checks = ConnectChecks(topic, msg, qos, user, password, 10 + room)
  OBVIOUS
<1>4. Call(checks, <<HeadExt("CONNECT", 0, 10 + room), BodyExt(10, 10), BodyExt(room, room)>>, {})
  BY <1>1, <1>2, <1>3 DEF PackConnectPkt
<1>5. Failing(checks)
  BY <1>3, ConnectFailing
<1>6. ASSUME Passes(checks)
      PROVE  Framed(<<HeadExt("CONNECT", 0, 10 + room), BodyExt(10, 10), BodyExt(room, room)>>, {})
  <2>0. 10 + room \in Nat
    OBVIOUS
  <2>1. FALSE \in Test(TooLarge(10 + room), "PKT_TOO_LARGE").outcomes
    BY <1>3, <1>6, ConnectPassed
  <2>2. ~ TooLarge(10 + room)
    BY <2>0, <2>1, TestPassed
  <2>3. "CONNECT" \in Types
    BY DEF Types
  <2>4. PICK h : h = HeadExt("CONNECT", 0, 10 + room) /\ Headed(h, 10 + room, {})
    BY <2>0, <2>2, <2>3, HeadExtIs DEF Headed
  <2>5. PICK b \in Extent : b = BodyExt(10, 10) /\ Written(b, {}) /\ b.len = 10
    BY BodyExtIs
  <2>6. PICK c \in Extent : c = BodyExt(room, room) /\ Written(c, {}) /\ c.len = room
    BY BodyExtIs
  <2>7. Framed(<<h, b, c>>, {})
    BY <2>0, <2>4, <2>5, <2>6, FramedThree
  <2>8. QED BY <2>4, <2>5, <2>6, <2>7
<1>7. QED BY <1>4, <1>5, <1>6, CallKeeps

(* Three extents, the third appended. *)
LEMMA AppendToTwo ==
  ASSUME NEW h \in Extent, NEW b \in Extent, NEW c \in Extent
  PROVE  Append(<<h, b>>, c) = <<h, b, c>>
<1>1. <<h, b>> \in Seq(Extent) /\ <<h, b, c>> \in Seq(Extent)
  OBVIOUS
<1>2. PICK u \in Seq(Extent), v \in Seq(Extent) : u = <<h, b>> /\ v = <<h, b, c>>
  BY <1>1
<1>3. Len(u) = 2 /\ u[1] = h /\ u[2] = b /\ Len(v) = 3 /\ v[1] = h /\ v[2] = b /\ v[3] = c
  BY <1>2
<1>4. PICK w \in Seq(Extent) : w = Append(u, c)
  BY AppendProperties
<1>5. Len(w) = Len(u) + 1 /\ w[Len(u) + 1] = c /\ \A i \in 1 .. Len(u) : w[i] = u[i]
  BY <1>4, AppendProperties
<1>6. Len(w) = 3 /\ \A i \in 1 .. Len(w) : w[i] = v[i]
  <2>1. Len(u) + 1 = 3 /\ 1 \in 1 .. Len(u) /\ 2 \in 1 .. Len(u)
    BY <1>3
  <2>2. Len(w) = 3 /\ w[1] = h /\ w[2] = b /\ w[3] = c
    BY <1>3, <1>5, <2>1
  <2>3. ASSUME NEW i \in 1 .. Len(w) PROVE i = 1 \/ i = 2 \/ i = 3
    BY <2>2
  <2>4. QED BY <1>3, <2>2, <2>3
<1>7. w = v
  BY <1>3, <1>6, SeqEqual
<1>8. QED BY <1>2, <1>4, <1>7

LEMMA PublishFailing ==
  ASSUME NEW id, NEW topic, NEW size, NEW qos
  PROVE  Failing(PublishChecks(id, topic, size, qos))
<1>1. PICK a : a = Test(id = 0 \/ topic.kind = "wild", "INVALID_PARAMETER") /\ a.err \in Fails
  BY ChecksFail
<1>2. PICK b : b = Test(topic.kind = "not utf8", "NOT_UTF8") /\ b.err \in Fails
  BY ChecksFail
<1>3. PICK d : d = Test(qos \notin 0..2, "INVALID_PARAMETER") /\ d.err \in Fails
  BY ChecksFail
<1>4. PICK e : e = Test(TooLarge(topic.len + size + 2 + IdBytes(qos)), "PKT_TOO_LARGE") /\ e.err \in Fails
  BY ChecksFail
<1>5. Failing(<<a, b, Alloc, d, e, Alloc>>)
  BY <1>1, <1>2, <1>3, <1>4, ChecksFail, FailingSix
<1>6. QED BY <1>1, <1>2, <1>3, <1>4, <1>5 DEF PublishChecks

(* The fixed header and the topic of a PUBLISH, if the checks are passed. *)
PublishParts(topic, size, qos, met) ==
  \E h \in Extent, b \in Extent, n \in Nat :
    /\ PublishHead(topic, size, qos) = <<h, b>>
    /\ Headed(h, n + size, met)
    /\ Written(b, met) /\ b.len = n

LEMMA PublishHeadIs ==
  ASSUME NEW id, NEW topic, topic.len \in Nat, NEW size \in Nat, NEW qos,
         Passes(PublishChecks(id, topic, size, qos)),
         NEW met, Truncated(topic.len) \subseteq met
  PROVE  PublishParts(topic, size, qos, met)
<1>1. PICK k \in Nat : k = IdBytes(qos)
  BY DEF IdBytes
<1>2. PICK t \in Nat : t = topic.len
  OBVIOUS
<1>3. PICK n \in Nat : n = t + 2 + k
  OBVIOUS
<1>4. t + size + 2 + k = n + size /\ n + size \in Nat
  BY <1>3
<1>5. ~ TooLarge(n + size)
  <2>1. FALSE \in Test(TooLarge(topic.len + size + 2 + IdBytes(qos)), "PKT_TOO_LARGE").outcomes
    BY PassedFifthOfSix DEF PublishChecks
  <2>2. FALSE \in Test(TooLarge(n + size), "PKT_TOO_LARGE").outcomes
    BY <1>1, <1>2, <1>4, <2>1
  <2>3. QED BY <1>4, <2>2, TestPassed
<1>6. PICK h : h = HeadExt("PUBLISH", 0, n + size) /\ Headed(h, n + size, met)
  <2>1. "PUBLISH" \in Types
    BY DEF Types
  <2>2. QED BY <1>4, <1>5, <2>1, HeadExtIs DEF Headed
<1>7. PICK f \in Nat : f = WriteString(t) + k /\ f <= n /\ ("truncated" \notin met => f = n)
  <2>1. PICK w \in Nat : w = WriteString(t) /\ w <= 2 + t /\ (t < Word => w = 2 + t)
    BY WriteStringIs
  <2>2. "truncated" \notin met => t < Word
    BY <1>2 DEF Truncated, Word
  <2>3. w + k \in Nat /\ w + k <= n /\ ("truncated" \notin met => w + k = n)
    BY <1>3, <2>1, <2>2
  <2>4. QED BY <2>1, <2>3
<1>8. PICK b \in Extent : b = BodyExt(n, f) /\ Written(b, met) /\ b.len = n
  BY <1>7, BodyExtIs
<1>9. PublishHead(topic, size, qos) = <<h, b>>
  BY <1>1, <1>2, <1>3, <1>4, <1>6, <1>7, <1>8 DEF PublishHead
<1>10. QED BY <1>6, <1>8, <1>9 DEF Headed, PublishParts

LEMMA PublishKeeps ==
  ASSUME PackInv, pkts < MaxPkts,
         NEW id, NEW topic, topic.len \in Nat, NEW size \in Nat, NEW qos, NEW mem \in {"own", "caller", "gone"},
         PackPublishPkt(id, topic, size, qos, mem)
  PROVE  PackInv' /\ Untouched
<1> DEFINE checks == PublishChecks(id, topic, size, qos)
           head   == PublishHead(topic, size, qos)
           met    == Truncated(topic.len)
<1>1. Failing(checks)
  BY PublishFailing
<1>a. Truncated(topic.len) \subseteq met
  OBVIOUS
<1>2. met \subseteq {"truncated"}
  BY DEF Truncated
<1>3. \/ size = 0 /\ Call(checks, head, met)
      \/ size # 0 /\ Call(checks, Append(head, DataExt(size, mem)), met)
      \/ Passes(checks) /\ Packed(head, met \cup {"unappended"})
  BY DEF PackPublishPkt
<1>4. ASSUME size = 0, Passes(checks) PROVE Framed(head, met)
  <2>1. PICK h \in Extent, b \in Extent, n \in Nat :
          head = <<h, b>> /\ Headed(h, n + size, met) /\ Written(b, met) /\ b.len = n
    <3>1. PublishParts(topic, size, qos, met)
      BY <1>a, <1>4, PublishHeadIs
    <3>2. QED BY <3>1 DEF PublishParts
  <2>2. n + size = n
    BY <1>4
  <2>3. Framed(<<h, b>>, met)
    BY <1>2, <2>1, <2>2, FramedTwo
  <2>4. QED BY <2>1, <2>3
<1>5. ASSUME Passes(checks) PROVE Framed(Append(head, DataExt(size, mem)), met)
  <2>1. PICK h \in Extent, b \in Extent, n \in Nat :
          head = <<h, b>> /\ Headed(h, n + size, met) /\ Written(b, met) /\ b.len = n
    <3>1. PublishParts(topic, size, qos, met)
      BY <1>a, <1>5, PublishHeadIs
    <3>2. QED BY <3>1 DEF PublishParts
  <2>2. PICK c \in Extent : c = DataExt(size, mem) /\ Written(c, met) /\ c.len = size
    BY DataExtIs
  <2>3. n + size \in Nat /\ b.len + c.len = n + size
    BY <2>1, <2>2
  <2>4. Framed(<<h, b, c>>, met)
    BY <1>2, <2>1, <2>2, <2>3, FramedThree
  <2>5. Append(<<h, b>>, c) = <<h, b, c>>
    BY AppendToTwo
  <2>6. Append(head, DataExt(size, mem)) = <<h, b, c>>
    BY <2>1, <2>2, <2>5
  <2>7. QED BY <2>4, <2>6
<1>6. ASSUME Passes(checks) PROVE Framed(head, met \cup {"unappended"})
  <2>1. PICK all : all = met \cup {"unappended"}
    OBVIOUS
  <2>2. Truncated(topic.len) \subseteq all /\ all \in SUBSET {"truncated", "unappended"} /\ "unappended" \in all
    BY <1>2, <2>1
  <2>3. PICK h \in Extent, b \in Extent, n \in Nat :
          head = <<h, b>> /\ Headed(h, n + size, all) /\ Written(b, all) /\ b.len = n
    <3>1. PublishParts(topic, size, qos, all)
      BY <1>6, <2>2, PublishHeadIs
    <3>2. QED BY <3>1 DEF PublishParts
  <2>4. n + size \in Nat
    OBVIOUS
  <2>5. Framed(<<h, b>>, all)
    BY <2>2, <2>3, <2>4, FramedTwo
  <2>6. QED BY <2>1, <2>3, <2>5
<1> HIDE DEF checks, head, met
<1>7. CASE size = 0 /\ Call(checks, head, met)
  BY <1>1, <1>4, <1>7, CallKeeps
<1>8. CASE Call(checks, Append(head, DataExt(size, mem)), met)
  BY <1>1, <1>5, <1>8, CallKeeps
<1>9. CASE Passes(checks) /\ Packed(head, met \cup {"unappended"})
  BY <1>6, <1>9, PackedUntouched
<1>10. QED BY <1>3, <1>7, <1>8, <1>9

(* The packets in one extent. *)
LEMMA WholeKeeps ==
  ASSUME PackInv, pkts < MaxPkts, NEW checks, Failing(checks),
         NEW type \in Types \ {"PUBLISH"}, NEW flags \in 0..15, NEW n \in {0, 2},
         Call(checks, <<WholeExt(type, flags, n)>>, {})
  PROVE  PackInv' /\ Untouched
<1>1. PICK e \in Extent : /\ e = WholeExt(type, flags, n) /\ Written(e, {}) /\ Rewritable(e)
                          /\ e.len = 1 + Len(e.digits) + ReadLength(e.digits)
  BY WholeExtIs
<1>2. Framed(<<e>>, {})
  BY <1>1, FramedOne
<1>3. Framed(<<WholeExt(type, flags, n)>>, {})
  BY <1>1, <1>2
<1>4. QED BY <1>3, CallKeeps

LEMMA AckKeeps ==
  ASSUME PackInv, pkts < MaxPkts, NEW id, NEW type \in {"PUBACK", "PUBREC", "PUBCOMP"}, PackAckPkt(type, id)
  PROVE  PackInv' /\ Untouched
<1>1. PICK t : t = Test(id = 0, "INVALID_PARAMETER") /\ t.err \in Fails
  BY ChecksFail
<1>2. Failing(<<t, Alloc>>)
  BY <1>1, ChecksFail, FailingTwo
<1>3. Call(<<t, Alloc>>, <<WholeExt(type, 0, 2)>>, {})
  BY <1>1 DEF PackAckPkt
<1>4. type \in Types \ {"PUBLISH"} /\ 0 \in 0..15 /\ 2 \in {0, 2}
  BY DEF Types
<1>5. QED BY <1>2, <1>3, <1>4, WholeKeeps

LEMMA PubRelKeeps ==
  ASSUME PackInv, pkts < MaxPkts, NEW id, PackPubRelPkt(id)
  PROVE  PackInv' /\ Untouched
<1>1. PICK t : t = Test(id = 0, "INVALID_PARAMETER") /\ t.err \in Fails
  BY ChecksFail
<1>2. Failing(<<t, AllocUnchecked>>)
  BY <1>1, ChecksFail, FailingTwo
<1>3. Call(<<t, AllocUnchecked>>, <<WholeExt("PUBREL", 2, 2)>>, {})
  BY <1>1 DEF PackPubRelPkt
<1>4. "PUBREL" \in Types \ {"PUBLISH"} /\ 2 \in 0..15 /\ 2 \in {0, 2}
  BY DEF Types
<1>5. QED BY <1>2, <1>3, <1>4, WholeKeeps

LEMMA EmptyKeeps ==
  ASSUME PackInv, pkts < MaxPkts, NEW type \in {"PINGREQ", "DISCONNECT"}, PackEmptyPkt(type)
  PROVE  PackInv' /\ Untouched
<1>1. Failing(<<Alloc>>)
  BY ChecksFail DEF Failing
<1>2. Call(<<Alloc>>, <<WholeExt(type, 0, 0)>>, {})
  BY DEF PackEmptyPkt
<1>3. type \in Types \ {"PUBLISH"} /\ 0 \in 0..15 /\ 0 \in {0, 2}
  BY DEF Types
<1>4. QED BY <1>1, <1>2, <1>3, WholeKeeps

-----------------------------------------------------------------------------
(***************************************************************************)
(* Lists of topics of every length.                                        *)
(***************************************************************************)
LEMMA SumOfIs ==
  ASSUME NEW m \in Nat, NEW n \in [1..m -> Nat]
  PROVE  \E s \in Seq(Sized) : /\ Len(s) = m /\ SumOf(n) = LenSum(s)
                               /\ \A i \in 1..m : s[i].len = n[i]
<1>1. PICK s \in [1..m -> Sized] : s = [i \in 1..m |-> [len |-> n[i]]]
  <2>1. \A i \in 1..m : [len |-> n[i]] \in Sized
    BY DEF Sized
  <2>2. QED BY <2>1
<1>2. s \in Seq(Sized) /\ Len(s) = m /\ DOMAIN n = 1..m
  OBVIOUS
<1>3. SumOf(n) = LenSum(s)
  BY <1>1, <1>2, TotalIs DEF SumOf
<1>4. \A i \in 1..m : s[i].len = n[i]
  BY <1>1
<1>5. QED BY <1>2, <1>3, <1>4

LEMMA SumOfAtMost ==
  ASSUME NEW m \in Nat, NEW n \in [1..m -> Nat], NEW k \in [1..m -> Nat],
         \A i \in 1..m : n[i] <= k[i]
  PROVE  SumOf(n) \in Nat /\ SumOf(k) \in Nat /\ SumOf(n) <= SumOf(k)
<1>1. PICK s \in Seq(Sized) : Len(s) = m /\ SumOf(n) = LenSum(s) /\ \A i \in 1..m : s[i].len = n[i]
  BY SumOfIs
<1>2. PICK t \in Seq(Sized) : Len(t) = m /\ SumOf(k) = LenSum(t) /\ \A i \in 1..m : t[i].len = k[i]
  BY SumOfIs
<1>3. LenSum(s) \in Nat /\ LenSum(t) \in Nat
  BY SizedLen, LenSumConcat
<1>4. LenSum(s) <= LenSum(t)
  <2>1. Len(s) = Len(t) /\ \A i \in 1 .. Len(s) : s[i].len <= t[i].len
    BY <1>1, <1>2
  <2>2. QED BY <2>1, SizedLen, LenSumAtMost
<1>5. QED BY <1>1, <1>2, <1>3, <1>4

TopicsCut(topics) == UNION {Truncated(topics[i].len) : i \in DOMAIN topics}

LEMMA TopicsFit ==
  ASSUME NEW topics \in Seq(Checked), NEW perTopic \in {0, 1}
  PROVE  /\ TopicsRoom(topics, perTopic) \in Nat /\ TopicsFilled(topics, perTopic) \in Nat
         /\ TopicsFilled(topics, perTopic) <= TopicsRoom(topics, perTopic)
         /\ "truncated" \notin TopicsCut(topics) =>
              TopicsFilled(topics, perTopic) = TopicsRoom(topics, perTopic)
<1> DEFINE m == Len(topics)
           n == [i \in 1..m |-> WriteString(topics[i].len) + perTopic]
           k == [i \in 1..m |-> 2 + topics[i].len + perTopic]
<1>1. m \in Nat /\ DOMAIN topics = 1..m
  BY LenProperties
<1>2. ASSUME NEW i \in 1..m
      PROVE  /\ topics[i].len \in Nat /\ WriteString(topics[i].len) \in Nat
             /\ WriteString(topics[i].len) <= 2 + topics[i].len
             /\ topics[i].len < Word => WriteString(topics[i].len) = 2 + topics[i].len
  <2>1. topics[i] \in Checked
    BY ElementOfSeq
  <2>2. PICK t \in Nat : t = topics[i].len
    BY <2>1, TextLens
  <2>3. WriteString(t) \in Nat /\ WriteString(t) <= 2 + t /\ (t < Word => WriteString(t) = 2 + t)
    BY WriteStringIs
  <2>4. QED BY <2>2, <2>3
<1>3. TopicsRoom(topics, perTopic) = 2 + SumOf(k) /\ TopicsFilled(topics, perTopic) = 2 + SumOf(n)
  BY <1>1 DEF TopicsRoom, TopicsFilled
<1> HIDE DEF m
<1>4. /\ n \in [1..m -> Nat] /\ k \in [1..m -> Nat]
      /\ \A i \in 1..m : n[i] <= k[i]
  <2>1. ASSUME NEW i \in 1..m
        PROVE  /\ WriteString(topics[i].len) + perTopic \in Nat /\ 2 + topics[i].len + perTopic \in Nat
               /\ WriteString(topics[i].len) + perTopic <= 2 + topics[i].len + perTopic
    BY <1>2
  <2>2. n \in [1..m -> Nat] /\ k \in [1..m -> Nat]
    BY <2>1
  <2>3. QED BY <2>1, <2>2
<1>5. ASSUME "truncated" \notin TopicsCut(topics) PROVE n = k
  <2>1. ASSUME NEW i \in 1..m
        PROVE  WriteString(topics[i].len) + perTopic = 2 + topics[i].len + perTopic
    <3>1. PICK t \in Nat : t = topics[i].len
      BY <1>2
    <3>2. "truncated" \notin Truncated(t)
      BY <1>1, <1>5, <3>1 DEF TopicsCut
    <3>3. t < Word
      BY <3>2 DEF Truncated, Word
    <3>4. QED BY <1>2, <3>1, <3>3
  <2>2. QED BY <2>1
<1> HIDE DEF n, k
<1>6. SumOf(n) \in Nat /\ SumOf(k) \in Nat /\ SumOf(n) <= SumOf(k)
  BY <1>1, <1>4, SumOfAtMost
<1>7. QED BY <1>3, <1>5, <1>6

Checks == [outcomes : SUBSET BOOLEAN, err : Fails]

LEMMA ListChecksPassed ==
  ASSUME NEW id, NEW topics \in Seq(Checked), NEW room \in Nat
  PROVE  /\ Failing(ListChecks(id, topics, room))
         /\ Passes(ListChecks(id, topics, room)) => ~ TooLarge(room)
<1>1. PICK a \in Seq(Checks) : a = <<Test(id = 0, "INVALID_PARAMETER")>>
  <2>1. Test(id = 0, "INVALID_PARAMETER") \in Checks
    BY DEF Test, Checks, Fails, Errors
  <2>2. <<Test(id = 0, "INVALID_PARAMETER")>> \in Seq(Checks)
    BY <2>1
  <2>3. QED BY <2>2
<1>2. PICK b \in Seq(Checks) : b = TopicChecks(topics)
  <2>1. Len(topics) \in Nat /\ DOMAIN topics = 1 .. Len(topics)
    BY LenProperties
  <2>2. ASSUME NEW i \in DOMAIN topics
        PROVE  Test(topics[i].kind \in {"null", "not utf8"},
                    IF topics[i].kind = "null" THEN "INVALID_PARAMETER" ELSE "NOT_UTF8") \in Checks
    BY DEF Test, Checks, Fails, Errors
  <2>3. TopicChecks(topics) \in [1 .. Len(topics) -> Checks]
    BY <2>1, <2>2 DEF TopicChecks
  <2>4. TopicChecks(topics) \in Seq(Checks)
    BY <2>1, <2>3
  <2>5. QED BY <2>4
<1>3. PICK t \in Checks : t = Test(TooLarge(room), "PKT_TOO_LARGE")
  <2>1. Test(TooLarge(room), "PKT_TOO_LARGE") \in Checks
    BY DEF Test, Checks, Fails, Errors, TooLarge
  <2>2. QED BY <2>1
<1>4. PICK c \in Seq(Checks) : c = <<Alloc, Alloc, t>> /\ Len(c) = 3 /\ c[3] = t
  <2>1. Alloc \in Checks
    BY DEF Alloc, Checks, Fails, Errors
  <2>2. <<Alloc, Alloc, t>> \in Seq(Checks)
    BY <2>1
  <2>3. QED BY <2>2
<1>5. PICK d \in Seq(Checks) : d = a \o b
  BY ConcatProperties
<1>6. PICK e \in Seq(Checks) : e = d \o c
  BY ConcatProperties
<1>7. ListChecks(id, topics, room) = e
  BY <1>1, <1>2, <1>3, <1>4, <1>5, <1>6 DEF ListChecks
<1>8. Failing(e)
  <2>1. ASSUME NEW i \in DOMAIN e PROVE e[i].err \in Fails
    <3>1. i \in 1 .. Len(e)
      OBVIOUS
    <3>2. e[i] \in Checks
      BY <3>1, ElementOfSeq
    <3>3. QED BY <3>2 DEF Checks
  <2>2. QED BY <2>1 DEF Failing
<1>9. ASSUME Passes(e) PROVE ~ TooLarge(room)
  <2>1. Len(d) \in Nat /\ Len(e) = Len(d) + 3
    BY <1>4, <1>6, ConcatProperties
  <2>2. Len(d) + 3 \in 1 .. Len(d) + Len(c) /\ ~ (Len(d) + 3 <= Len(d)) /\ (Len(d) + 3) - Len(d) = 3
    BY <1>4, <2>1
  <2>3. e[Len(d) + 3] = c[3]
    BY <1>6, <2>2, ConcatProperties
  <2>4. Len(d) + 3 \in DOMAIN e
    BY <2>1
  <2>5. FALSE \in e[Len(d) + 3].outcomes
    BY <1>9, <2>4, Zenon DEF Passes
  <2>6. FALSE \in Test(TooLarge(room), "PKT_TOO_LARGE").outcomes
    BY <1>3, <1>4, <2>3, <2>5
  <2>7. QED BY <2>6, TestPassed
<1>10. QED BY <1>7, <1>8, <1>9

LEMMA TopicsKeep ==
  ASSUME PackInv, pkts < MaxPkts, NEW type \in Types \ {"PUBLISH"}, NEW id,
         NEW topics \in Seq(Checked), NEW perTopic \in {0, 1},
         PackTopics(type, id, topics, perTopic)
  PROVE  PackInv' /\ Untouched
<1>1. PICK room \in Nat, filled \in Nat :
        /\ room = TopicsRoom(topics, perTopic) /\ filled = TopicsFilled(topics, perTopic)
        /\ filled <= room /\ ("truncated" \notin TopicsCut(topics) => filled = room)
  BY TopicsFit
<1>2. PICK met : met = TopicsCut(topics)
  OBVIOUS
<1>3. PICK checks : checks = ListChecks(id, topics, room)
  OBVIOUS
<1>4. Call(checks, <<HeadExt(type, 0, room), BodyExt(room, filled)>>, met)
  BY <1>1, <1>2, <1>3 DEF PackTopics, TopicsCut
<1>5. Failing(checks)
  BY <1>3, ListChecksPassed
<1>6. met \in SUBSET {"truncated", "unappended"}
  BY <1>2 DEF TopicsCut, Truncated
<1>7. ASSUME Passes(checks)
      PROVE  Framed(<<HeadExt(type, 0, room), BodyExt(room, filled)>>, met)
  <2>1. ~ TooLarge(room)
    BY <1>3, <1>7, ListChecksPassed
  <2>2. PICK h : h = HeadExt(type, 0, room) /\ Headed(h, room, met)
    BY <2>1, HeadExtIs DEF Headed
  <2>3. PICK b \in Extent : b = BodyExt(room, filled) /\ Written(b, met) /\ b.len = room
    BY <1>1, <1>2, BodyExtIs
  <2>4. Framed(<<h, b>>, met)
    BY <1>6, <2>2, <2>3, FramedTwo
  <2>5. QED BY <2>2, <2>3, <2>4
<1>8. QED BY <1>4, <1>5, <1>7, CallKeeps

-----------------------------------------------------------------------------
(***************************************************************************)
(* The other packing functions are calls of these.                         *)
(***************************************************************************)
LEMMA SizesAreNumbers ==
  /\ Sizes \subseteq Nat /\ DataSizes \subseteq Nat /\ InfoLen \in Nat
  /\ Memory \subseteq {"own", "caller", "gone"}
  /\ \A own : Referenced(own) \in {"own", "caller", "gone"}
  /\ \A n \in Nat : Plain(n).len = n
BY MqttPackAssumption DEF Memory, Referenced, Plain

LEMMA FailsHas ==
  {"INVALID_PARAMETER", "NOT_UTF8", "OUTOFMEMORY", "INTERNAL", "crash"} \subseteq Fails
BY DEF Fails, Errors

LEMMA CmdRetKeeps ==
  ASSUME PackInv, pkts < MaxPkts,
         NEW id, NEW cmdid \in Names, NEW size \in DataSizes, NEW qos, NEW mem \in Memory,
         PackCmdRetPkt(id, cmdid, size, qos, mem)
  PROVE  PackInv' /\ Untouched
<1>1. PICK topic : topic = [cmdid EXCEPT !.len = 6 + @]
  OBVIOUS
<1>a. topic.len \in Nat
  <2>1. cmdid.len \in Nat /\ cmdid \in Text
    BY TextLens DEF Names
  <2>2. topic.len = 6 + cmdid.len
    BY <1>1, <2>1 DEF Text
  <2>3. QED BY <2>1, <2>2
<1>2. PICK q : q = IF qos = 1 THEN 1 ELSE 0
  OBVIOUS
<1>3. size \in Nat /\ mem \in {"own", "caller", "gone"} /\ "OUTOFMEMORY" \in Fails
  BY SizesAreNumbers, FailsHas
<1>4. Returns("OUTOFMEMORY") \/ PackPublishPkt(id, topic, size, q, mem)
  BY <1>1, <1>2 DEF PackCmdRetPkt
<1>5. QED BY <1>a, <1>3, <1>4, ReturnsUntouched, PublishKeeps

LEMMA DataPointStartKeeps ==
  ASSUME PackInv, pkts < MaxPkts, NEW id, NEW qos, NEW dp \in BOOLEAN, PackDataPointStart(id, qos, dp)
  PROVE  PackInv' /\ Untouched
<1>1. PICK topic : topic = Plain(IF dp THEN 3 ELSE 6)
  OBVIOUS
<1>a. topic.len \in Nat
  BY <1>1 DEF Plain
<1>2. Returns("INVALID_PARAMETER") \/ PackPublishPkt(id, topic, 0, qos, "own")
  BY <1>1 DEF PackDataPointStart
<1>3. "INVALID_PARAMETER" \in Fails /\ "own" \in {"own", "caller", "gone"} /\ 0 \in Nat
  BY FailsHas
<1>4. QED BY <1>a, <1>2, <1>3, ReturnsUntouched, PublishKeeps

LEMMA ByStringKeeps ==
  ASSUME PackInv, pkts < MaxPkts,
         NEW id, NEW form, NEW timed, NEW ts, NEW size \in DataSizes, NEW qos, NEW own,
         PackDataPointByString(id, form, timed, ts, size, qos, own)
  PROVE  PackInv' /\ Untouched
<1>1. PICK topic : topic = Plain(3)
  OBVIOUS
<1>a. topic.len \in Nat
  BY <1>1 DEF Plain
<1>2. PICK n \in Nat : n = FormBytes(form, timed) + size
  <2>1. FormBytes(form, timed) \in Nat /\ size \in Nat
    BY SizesAreNumbers DEF FormBytes
  <2>2. QED BY <2>1
<1>3. PICK mem \in {"own", "caller", "gone"} : mem = Referenced(own)
  BY SizesAreNumbers
<1>4. \/ Returns("INVALID_PARAMETER") \/ Returns("OUTOFMEMORY") \/ Returns("INTERNAL")
      \/ PackPublishPkt(id, topic, n, qos, mem)
  BY <1>1, <1>2, <1>3 DEF PackDataPointByString
<1>5. "INVALID_PARAMETER" \in Fails /\ "OUTOFMEMORY" \in Fails /\ "INTERNAL" \in Fails
  BY FailsHas
<1>6. QED BY <1>a, <1>4, <1>5, ReturnsUntouched, PublishKeeps

LEMMA ByBinaryKeeps ==
  ASSUME PackInv, pkts < MaxPkts,
         NEW id, NEW size \in DataSizes, NEW qos, NEW own, PackDataPointByBinary(id, size, qos, own)
  PROVE  PackInv' /\ Untouched
<1>1. PICK topic : topic = Plain(3)
  OBVIOUS
<1>a. topic.len \in Nat
  BY <1>1 DEF Plain
<1>2. PICK n \in Nat : n = 1 + 2 + InfoLen + 4 + size
  <2>1. InfoLen \in Nat /\ size \in Nat
    BY SizesAreNumbers
  <2>2. QED BY <2>1
<1>3. PICK mem \in {"own", "caller", "gone"} : mem = Referenced(own)
  BY SizesAreNumbers
<1>4. Returns("crash") \/ PackPublishPkt(id, topic, n, qos, mem)
  BY <1>1, <1>2, <1>3 DEF PackDataPointByBinary
<1>5. "crash" \in Fails
  BY FailsHas
<1>6. QED BY <1>a, <1>4, <1>5, ReturnsUntouched, PublishKeeps

LEMMA PackKeeps ==
  ASSUME PackInv, pkts < MaxPkts, Pack
  PROVE  PackInv' /\ Untouched
<1>0. \A topic \in Text : topic.len \in Nat
  BY TextLens
<1>1. CASE \E id \in Ids, topic, user \in ShortChecked, msg, password \in Parts,
              qos \in Qos, retain \in BOOLEAN :
             PackConnectPkt(id, topic, msg, qos, retain, user, password)
  BY <1>1, ConnectKeeps
<1>2. CASE \E id \in PktIds, topic \in Text, size \in Sizes, qos \in Qos, mem \in Memory :
             PackPublishPkt(id, topic, size, qos, mem)
  <2>1. PICK id \in PktIds, topic \in Text, size \in Sizes, qos \in Qos, mem \in Memory :
          PackPublishPkt(id, topic, size, qos, mem)
    BY <1>2
  <2>2. topic.len \in Nat /\ size \in Nat /\ mem \in {"own", "caller", "gone"}
    BY <1>0, SizesAreNumbers
  <2>3. QED BY <2>1, <2>2, PublishKeeps
<1>3. CASE \E id \in PktIds, type \in {"PUBACK", "PUBREC", "PUBCOMP"} : PackAckPkt(type, id)
  BY <1>3, AckKeeps
<1>4. CASE \E id \in PktIds : PackPubRelPkt(id)
  BY <1>4, PubRelKeeps
<1>5. CASE \E type \in {"PINGREQ", "DISCONNECT"} : PackEmptyPkt(type)
  BY <1>5, EmptyKeeps
<1>6. CASE \E id \in PktIds, topics \in UNION {[1..n -> Checked] : n \in 0..2} :
             PackSubscribePkt(id, topics) \/ PackUnsubscribePkt(id, topics)
  <2>1. PICK id \in PktIds, topics \in UNION {[1..n -> Checked] : n \in 0..2} :
          PackSubscribePkt(id, topics) \/ PackUnsubscribePkt(id, topics)
    BY <1>6
  <2>2. topics \in Seq(Checked)
    <3>1. PICK n \in 0..2 : topics \in [1..n -> Checked]
      OBVIOUS
    <3>2. QED BY <3>1
  <2>3. PackTopics("SUBSCRIBE", id, topics, 1) \/ PackTopics("UNSUBSCRIBE", id, topics, 0)
    BY <2>1 DEF PackSubscribePkt, PackUnsubscribePkt
  <2>4. "SUBSCRIBE" \in Types \ {"PUBLISH"} /\ "UNSUBSCRIBE" \in Types \ {"PUBLISH"} /\ 0 \in {0, 1} /\ 1 \in {0, 1}
    BY DEF Types
  <2>5. QED BY <2>2, <2>3, <2>4, TopicsKeep
<1>7. CASE \E id \in PktIds, cmdid \in Names, size \in DataSizes, qos \in Qos, mem \in Memory :
             PackCmdRetPkt(id, cmdid, size, qos, mem)
  BY <1>7, CmdRetKeeps
<1>8. CASE \E id \in PktIds, qos \in Qos, dp \in BOOLEAN : PackDataPointStart(id, qos, dp)
  BY <1>8, DataPointStartKeeps
<1>9. CASE \E id \in PktIds, form \in Forms, timed \in BOOLEAN, ts \in {0, 1},
              size \in DataSizes, qos \in Qos, own \in Owns :
             PackDataPointByString(id, form, timed, ts, size, qos, own)
  BY <1>9, ByStringKeeps
<1>10. CASE \E id \in PktIds, size \in DataSizes, qos \in Qos, own \in Owns :
              PackDataPointByBinary(id, size, qos, own)
  BY <1>10, ByBinaryKeeps
<1>11. QED
  BY <1>1, <1>2, <1>3, <1>4, <1>5, <1>6, <1>7, <1>8, <1>9, <1>10 DEF Pack

-----------------------------------------------------------------------------
(***************************************************************************)
(* What is done to a packet that has been packed.                          *)
(***************************************************************************)
LEMMA SetPktDupKeeps ==
  ASSUME PackInv, SetPktDup
  PROVE  PackInv' /\ Untouched
<1>1. CASE list = <<>> /\ Returns("crash")
  BY <1>1, FailsHas, ReturnsUntouched
<1>2. CASE Returns("INVALID_PARAMETER")
  BY <1>2, FailsHas, ReturnsUntouched
<1>3. CASE /\ list # <<>>
           /\ list' = [list EXCEPT ![1].flags = IF @ < 8 THEN @ + 8 ELSE @]
           /\ ret' = "NOERROR"
           /\ UNCHANGED <<buffered, pkts, faults>>
  <2>0. list \in Seq(Extent) /\ Len(list) \in Nat /\ DOMAIN list = 1 .. Len(list) /\ 1 \in 1 .. Len(list)
    <3>1. list \in Seq(Extent)
      BY DEF PackInv, TypeOK
    <3>2. Len(list) # 0
      BY <1>3, <3>1, EmptySeq
    <3>3. QED BY <3>1, <3>2, LenProperties
  <2>1. PICK x \in Extent : x = list[1]
    BY <2>0, ElementOfSeq
  <2>a. x.flags \in 0..15
    BY DEF Extent
  <2>b. PICK f \in 0..15 : f = IF x.flags < 8 THEN x.flags + 8 ELSE x.flags
    BY <2>a
  <2>2. PICK e : e = [x EXCEPT !.flags = f]
    OBVIOUS
  <2>3. /\ e \in Extent /\ e.type = x.type /\ e.digits = x.digits /\ e.len = x.len
        /\ e.room = x.room /\ e.filled = x.filled /\ e.pkt = x.pkt
    BY <2>2 DEF Extent
  <2>4. list' = [list EXCEPT ![1] = e]
    BY <1>3, <2>0, <2>1, <2>b, <2>2
  <2>5. /\ list' \in Seq(Extent) /\ Len(list') = Len(list) /\ DOMAIN list' = DOMAIN list /\ list' # <<>>
        /\ \A i \in 1 .. Len(list) : list'[i] = IF i = 1 THEN e ELSE list[i]
    BY <2>0, <2>3, <2>4, ExceptSeq
  <2>6. ASSUME NEW i \in DOMAIN list
        PROVE  /\ list'[i].type = list[i].type /\ list'[i].digits = list[i].digits /\ list'[i].len = list[i].len
               /\ list'[i].room = list[i].room /\ list'[i].filled = list[i].filled /\ list'[i].pkt = list[i].pkt
    BY <2>0, <2>1, <2>3, <2>5
  <2>7. TypeOK'
    BY <1>3, <2>5 DEF PackInv, TypeOK
  <2>8. FullyWritten' /\ PktsKnown' /\ FirstPkt' /\ HeadShape'
    <3>1. FullyWritten'
      BY <1>3, <2>5, <2>6 DEF PackInv, FullyWritten
    <3>2. PktsKnown'
      BY <1>3, <2>5, <2>6 DEF PackInv, PktsKnown
    <3>3. FirstPkt' /\ HeadShape'
      BY <1>3, <2>0, <2>5, <2>6 DEF PackInv, FirstPkt, HeadShape, Rewritable
    <3>4. QED BY <3>1, <3>2, <3>3
  <2>9. BufferedRight'
    <3>1. list \in Seq(Sized) /\ list' \in Seq(Sized)
      BY <2>0, <2>5, SeqSized
    <3>2. LenSum(list) = LenSum(list')
      BY <2>0, <2>5, <2>6, <3>1, SizedLen, LenSumSame
    <3>3. QED BY <1>3, <3>2, TotalIs DEF PackInv, BufferedRight
  <2>10. ASSUME NEW p \in 1..pkts PROVE \E i \in DOMAIN list' : HeadRight(i, p)'
    <3>1. PICK i \in DOMAIN list : HeadRight(i, p)
      BY LengthsRightIs DEF PackInv
    <3>2. IsHead(i, p)'
      <4>1. list[i].pkt = p /\ \A j \in 1..(i - 1) : list[j].pkt # p
        BY <3>1 DEF HeadRight, IsHead
      <4>2. ASSUME NEW j \in 1..(i - 1) PROVE list'[j].pkt # p
        <5>1. j \in DOMAIN list
          BY <2>0
        <5>2. QED BY <2>6, <4>1, <5>1
      <4>3. QED BY <2>6, <4>1, <4>2 DEF IsHead
    <3>3. PktLen(p)' = PktLen(p)
      <4>1. LenSum(OfPkt(list, p)) = LenSum(OfPkt(list', p))
        BY <2>0, <2>5, <2>6, OfPktSame
      <4>2. QED BY <4>1, PktLenIs
    <3>4. HeadRight(i, p)'
      BY <1>3, <2>6, <3>1, <3>2, <3>3 DEF HeadRight
    <3>5. QED BY <2>5, <3>4
  <2>11. LengthsRight'
    BY <1>3, <2>10 DEF LengthsRight, HeadRight
  <2>12. Untouched
    BY <1>3 DEF Untouched, Errors
  <2>13. QED BY <2>7, <2>8, <2>9, <2>11, <2>12 DEF PackInv
<1>4. QED BY <1>1, <1>2, <1>3 DEF SetPktDup

(* The list with the length of its first fixed header written anew. *)
Relengthened(l, len) ==
  /\ list \in Seq(Extent) /\ l \in Seq(Extent)
  /\ Len(list) \in Nat /\ 1 \in 1 .. Len(list) /\ Len(l) = Len(list)
  /\ \A i \in 1 .. Len(list) : i # 1 => l[i] = list[i]
  /\ l[1].type = list[1].type /\ l[1].pkt = list[1].pkt /\ l[1].room = list[1].room
  /\ l[1].digits = DumpLength(len)
  /\ l[1].len = IF TooLarge(len) THEN 0 ELSE Len(DumpLength(len)) + 1
  /\ l[1].filled = Len(DumpLength(len)) + 1
  /\ Tail(l) = Tail(list)

LEMMA LengthenedIs ==
  ASSUME TypeOK, list # <<>>, NEW len \in Nat
  PROVE  Relengthened(Lengthened(len), len)
<1>0. list \in Seq(Extent) /\ Len(list) \in Nat /\ DOMAIN list = 1 .. Len(list) /\ 1 \in 1 .. Len(list)
  <2>1. list \in Seq(Extent)
    BY DEF TypeOK
  <2>2. Len(list) # 0
    BY <2>1, EmptySeq
  <2>3. QED BY <2>1, <2>2, LenProperties
<1>1. PICK x \in Extent : x = list[1]
  BY <1>0, ElementOfSeq
<1>2. PICK d \in Seq(0..255) : d = DumpLength(len) /\ Len(d) \in 1..4
  BY DumpLengthIs, ZenonT(30)
<1>3. PICK n \in Nat : n = Len(d) + 1
  BY <1>2
<1>4. PICK k \in Nat : k = IF TooLarge(len) THEN 0 ELSE Len(d) + 1
  BY <1>2
<1>5. PICK e : e = [x EXCEPT !.digits = d, !.len = k, !.filled = n]
  OBVIOUS
<1>6. e \in Extent /\ e.type = x.type /\ e.pkt = x.pkt /\ e.room = x.room
      /\ e.digits = d /\ e.len = k /\ e.filled = n
  BY <1>5 DEF Extent
<1>7. PICK l : l = [list EXCEPT ![1] = e]
  OBVIOUS
<1>8. l \in Seq(Extent) /\ Len(l) = Len(list) /\ \A i \in 1 .. Len(list) : l[i] = IF i = 1 THEN e ELSE list[i]
  BY <1>0, <1>6, <1>7, ExceptSeq
<1>9. Lengthened(len) = l
  <2>1. Lengthened(len) = [list EXCEPT ![1].digits = d, ![1].len = k, ![1].filled = n]
    BY <1>2, <1>3, <1>4 DEF Lengthened
  <2>2. [list EXCEPT ![1].digits = d, ![1].len = k, ![1].filled = n] = [list EXCEPT ![1] = e]
    BY <1>0, <1>1, <1>5
  <2>3. QED BY <1>7, <2>1, <2>2
<1>10. Tail(l) = Tail(list)
  <2>1. Len(l) # 0 /\ Len(list) # 0 /\ l # <<>> /\ list # <<>>
    BY <1>0, <1>8, EmptySeq
  <2>2. /\ Tail(l) \in Seq(Extent) /\ Tail(list) \in Seq(Extent)
        /\ Len(Tail(l)) = Len(list) - 1 /\ Len(Tail(list)) = Len(list) - 1
        /\ \A i \in 1 .. Len(Tail(l)) : Tail(l)[i] = l[i + 1]
        /\ \A i \in 1 .. Len(Tail(list)) : Tail(list)[i] = list[i + 1]
    BY <1>0, <1>8, <2>1, HeadTailProperties
  <2>3. ASSUME NEW i \in 1 .. Len(Tail(l)) PROVE Tail(l)[i] = Tail(list)[i]
    <3>1. i + 1 \in 1 .. Len(list) /\ i + 1 # 1 /\ i \in 1 .. Len(Tail(list))
      BY <1>0, <2>2
    <3>2. QED BY <1>8, <2>2, <3>1
  <2>4. QED BY <2>2, <2>3, SeqEqual
<1>11. l[1] = e
  BY <1>0, <1>8
<1>12. Relengthened(l, len)
  BY <1>0, <1>1, <1>2, <1>3, <1>4, <1>6, <1>8, <1>10, <1>11 DEF Relengthened
<1>13. QED BY <1>9, <1>12

(* What both ways of Mqtt_AppendLength start from. *)
Lengthening(l, len) ==
  /\ PackInv
  /\ list # <<>> /\ list[1].type = "PUBLISH"
  /\ len \in Nat
  /\ Relengthened(l, len)

LEMMA LengtheningFacts ==
  ASSUME NEW l, NEW len, Lengthening(l, len)
  PROVE  /\ list \in Seq(Extent) /\ l \in Seq(Extent) /\ Len(list) \in Nat /\ Len(l) = Len(list)
         /\ DOMAIN list = 1 .. Len(list) /\ 1 \in 1 .. Len(list)
         /\ \A i \in 1 .. Len(list) : l[i].pkt = list[i].pkt /\ (i # 1 => l[i] = list[i])
         /\ l[1].type = "PUBLISH" /\ l[1].room = 5 /\ l[1].digits = DumpLength(len)
         /\ l[1].len = (IF TooLarge(len) THEN 0 ELSE Len(DumpLength(len)) + 1)
         /\ l[1].filled = Len(DumpLength(len)) + 1 /\ Len(DumpLength(len)) \in 1..4
         /\ list[1].pkt = 1 /\ pkts \in Nat \ {0}
         /\ Readable(list[1].digits) => list[1].len = Len(list[1].digits) + 1
<1>1. /\ list \in Seq(Extent) /\ l \in Seq(Extent) /\ Len(list) \in Nat /\ Len(l) = Len(list)
      /\ 1 \in 1 .. Len(list) /\ \A i \in 1 .. Len(list) : i # 1 => l[i] = list[i]
      /\ l[1].type = list[1].type /\ l[1].pkt = list[1].pkt /\ l[1].room = list[1].room
      /\ l[1].digits = DumpLength(len) /\ l[1].filled = Len(DumpLength(len)) + 1
      /\ l[1].len = (IF TooLarge(len) THEN 0 ELSE Len(DumpLength(len)) + 1)
  BY DEF Lengthening, Relengthened
<1>2. DOMAIN list = 1 .. Len(list) /\ list # <<>> /\ list[1].type = "PUBLISH"
  BY <1>1, LenProperties DEF Lengthening
<1>3. list[1].room = 5 /\ (Readable(list[1].digits) => list[1].len = Len(list[1].digits) + 1)
  BY <1>2 DEF Lengthening, PackInv, HeadShape, Rewritable
<1>4. list[1].pkt = 1
  BY <1>2 DEF Lengthening, PackInv, FirstPkt
<1>5. pkts \in Nat \ {0}
  <2>1. list[1].pkt \in 1..pkts /\ pkts \in Nat
    BY <1>1, <1>2 DEF Lengthening, PackInv, PktsKnown, TypeOK
  <2>2. QED BY <1>4, <2>1
<1>6. Len(DumpLength(len)) \in 1..4
  <2>1. len \in Nat
    BY DEF Lengthening
  <2>2. QED BY <2>1, DumpLengthIs
<1>7. \A i \in 1 .. Len(list) : l[i].pkt = list[i].pkt /\ (i # 1 => l[i] = list[i])
  BY <1>1
<1>8. QED BY <1>1, <1>2, <1>3, <1>4, <1>5, <1>6, <1>7

(* The packet would become too large: its fixed header is spoilt. *)
LEMMA TooLongKeeps ==
  ASSUME NEW len, Lengthening(list', len), TooLarge(len), ret' = "PKT_TOO_LARGE",
         faults' = faults \cup {"rewritten"}, UNCHANGED <<buffered, pkts>>
  PROVE  PackInv' /\ Untouched
<1>0. /\ list \in Seq(Extent) /\ list' \in Seq(Extent) /\ Len(list) \in Nat /\ Len(list') = Len(list)
      /\ DOMAIN list = 1 .. Len(list) /\ 1 \in 1 .. Len(list)
      /\ \A i \in 1 .. Len(list) : list'[i].pkt = list[i].pkt /\ (i # 1 => list'[i] = list[i])
      /\ list'[1].type = "PUBLISH" /\ list'[1].room = 5 /\ list'[1].digits = DumpLength(len)
      /\ list'[1].len = 0 /\ list'[1].filled = Len(DumpLength(len)) + 1 /\ Len(DumpLength(len)) \in 1..4
      /\ list[1].pkt = 1 /\ pkts \in Nat \ {0}
  BY LengtheningFacts
<1>a. PackInv /\ len \in Nat /\ list' # <<>> /\ DOMAIN list' = DOMAIN list
  BY <1>0, EmptySeq DEF Lengthening
<1>1. TypeOK'
  BY <1>0, <1>a DEF PackInv, TypeOK, Errors
<1>2. FullyWritten'
  <2>1. ASSUME NEW i \in DOMAIN list'
        PROVE  list'[i].filled <= list'[i].room /\ ("truncated" \notin faults' => list'[i].len <= list'[i].filled)
    <3>1. CASE i = 1
      <4>1. PICK n \in 1..4 : n = Len(DumpLength(len))
        BY <1>0
      <4>2. list'[i].filled = n + 1 /\ list'[i].room = 5 /\ list'[i].len = 0
        BY <1>0, <3>1, <4>1
      <4>3. QED BY <4>2
    <3>2. CASE i # 1
      <4>1. i \in DOMAIN list /\ list'[i] = list[i]
        BY <1>0, <1>a, <3>2
      <4>2. QED BY <1>a, <4>1 DEF PackInv, FullyWritten
    <3>3. QED BY <3>1, <3>2
  <2>2. QED BY <2>1 DEF FullyWritten
<1>3. BufferedRight'
  BY DEF BufferedRight
<1>4. PktsKnown' /\ FirstPkt'
  BY <1>0, <1>a DEF PackInv, PktsKnown, FirstPkt
<1>5. HeadShape'
  <2>1. ~ Readable(list'[1].digits)
    BY <1>0, <1>a, UnreadableWhenTooLarge
  <2>2. QED BY <1>0, <2>1 DEF HeadShape, Rewritable
<1>6. ASSUME NEW p \in 1..pkts PROVE \E i \in DOMAIN list' : HeadRight(i, p)'
  <2>1. PICK i \in DOMAIN list : HeadRight(i, p)
    BY <1>a, LengthsRightIs DEF PackInv
  <2>2. IsHead(i, p)'
    <3>1. list[i].pkt = p /\ \A j \in 1..(i - 1) : list[j].pkt # p
      BY <2>1 DEF HeadRight, IsHead
    <3>2. ASSUME NEW j \in 1..(i - 1) PROVE list'[j].pkt # p
      <4>1. j \in 1 .. Len(list)
        BY <1>0
      <4>2. QED BY <1>0, <3>1, <4>1
    <3>3. QED BY <1>0, <3>1, <3>2 DEF IsHead
  <2>3. CASE i = 1
    <3>1. p = 1
      BY <1>0, <2>1, <2>3 DEF HeadRight, IsHead
    <3>2. HeadRight(i, p)'
      BY <1>0, <2>2, <2>3, <3>1 DEF HeadRight
    <3>3. QED BY <1>a, <3>2
  <2>4. CASE i # 1
    <3>1. list[1].pkt # p
      <4>1. 1 \in 1..(i - 1)
        BY <1>0, <2>4
      <4>2. QED BY <2>1, <4>1 DEF HeadRight, IsHead
    <3>2. \A k \in 1 .. Len(list) : /\ list[k].pkt = list'[k].pkt
                                    /\ list[k].pkt = p => list[k].len = list'[k].len
      BY <1>0, <3>1
    <3>3. LenSum(OfPkt(list, p)) = LenSum(OfPkt(list', p))
      BY <1>0, <3>2, OfPktSame
    <3>4. PktLen(p)' = PktLen(p)
      BY <3>3, PktLenIs
    <3>5. list'[i] = list[i] /\ faults \subseteq faults'
      BY <1>0, <2>4
    <3>6. HeadRight(i, p)'
      BY <2>1, <2>2, <3>4, <3>5 DEF HeadRight
    <3>7. QED BY <1>a, <3>6
  <2>5. QED BY <2>3, <2>4
<1>7. LengthsRight'
  BY <1>6 DEF LengthsRight, HeadRight
<1>8. Untouched
  BY <1>0 DEF Untouched, Lengthening, Relengthened
<1>9. QED BY <1>1, <1>2, <1>3, <1>4, <1>5, <1>7, <1>8 DEF PackInv

(* The packet has room for n bytes more. *)
Lengthens(l, e, len, n) ==
  /\ Lengthening(l, len)
  /\ Readable(list[1].digits)
  /\ n \in Nat /\ len = ReadLength(list[1].digits) + n /\ ~ TooLarge(len)
  /\ e \in Extent /\ Written(e, {}) /\ e.len = n /\ e.pkt = pkts
  /\ list' = Append(l, e)
  /\ buffered' = buffered + n
  /\ ret' = "NOERROR"
  /\ UNCHANGED pkts
  /\ faults' = faults \cup (IF l[1].len = list[1].len THEN {} ELSE {"rewritten"}) \cup Misdirected

LEMMA LengthensFacts ==
  ASSUME NEW l, NEW e, NEW len, NEW n, Lengthens(l, e, len, n)
  PROVE  /\ list' \in Seq(Extent) /\ Len(list') = Len(list) + 1 /\ list' # <<>>
         /\ DOMAIN list' = 1 .. Len(list) + 1
         /\ list'[Len(list) + 1] = e
         /\ \A i \in 1 .. Len(list) : list'[i] = l[i]
         /\ \A i \in DOMAIN list' : i \in 1 .. Len(list) \/ i = Len(list) + 1
         /\ faults \subseteq faults'
         /\ len \in Nat
<1>1. list \in Seq(Extent) /\ l \in Seq(Extent) /\ Len(list) \in Nat /\ Len(l) = Len(list)
  BY LengtheningFacts DEF Lengthens
<1>2. e \in Extent /\ list' = Append(l, e)
  BY DEF Lengthens
<1>3. /\ list' \in Seq(Extent) /\ Len(list') = Len(list) + 1 /\ list'[Len(list) + 1] = e
      /\ \A i \in 1 .. Len(list) : list'[i] = l[i]
  BY <1>1, <1>2, AppendProperties
<1>4. DOMAIN list' = 1 .. Len(list) + 1
  BY <1>3, LenProperties
<1>5. list' # <<>>
  <2>1. Len(list') # 0
    BY <1>1, <1>3
  <2>2. QED BY <2>1, EmptySeq
<1>6. \A i \in DOMAIN list' : i \in 1 .. Len(list) \/ i = Len(list) + 1
  BY <1>1, <1>4
<1>7. faults \subseteq faults' /\ len \in Nat
  BY DEF Lengthens, Lengthening
<1>8. QED BY <1>3, <1>4, <1>5, <1>6, <1>7

LEMMA LengthensShape ==
  ASSUME NEW l, NEW e, NEW len, NEW n, Lengthens(l, e, len, n)
  PROVE  TypeOK' /\ FullyWritten' /\ PktsKnown' /\ FirstPkt' /\ HeadShape'
<1>0. /\ Len(list) \in Nat /\ DOMAIN list = 1 .. Len(list) /\ 1 \in 1 .. Len(list)
      /\ \A i \in 1 .. Len(list) : l[i].pkt = list[i].pkt /\ (i # 1 => l[i] = list[i])
      /\ l[1].type = "PUBLISH" /\ l[1].room = 5 /\ l[1].digits = DumpLength(len)
      /\ l[1].len = (IF TooLarge(len) THEN 0 ELSE Len(DumpLength(len)) + 1)
      /\ l[1].filled = Len(DumpLength(len)) + 1 /\ Len(DumpLength(len)) \in 1..4
      /\ list[1].pkt = 1 /\ pkts \in Nat \ {0}
  BY LengtheningFacts DEF Lengthens
<1>1. /\ list' \in Seq(Extent) /\ list' # <<>> /\ list'[Len(list) + 1] = e
      /\ \A i \in 1 .. Len(list) : list'[i] = l[i]
      /\ \A i \in DOMAIN list' : i \in 1 .. Len(list) \/ i = Len(list) + 1
      /\ faults \subseteq faults'
  BY LengthensFacts
<1>2. /\ PackInv /\ n \in Nat /\ ~ TooLarge(len) /\ buffered' = buffered + n /\ ret' = "NOERROR" /\ pkts' = pkts
      /\ e.pkt = pkts /\ Written(e, {})
      /\ faults' \subseteq faults \cup {"rewritten", "misdirected"}
  BY DEF Lengthens, Lengthening, Misdirected
<1>3. list'[1] = l[1]
  BY <1>0, <1>1
<1>4. PICK k \in 1..4 : k = Len(DumpLength(len))
  BY <1>0
<1>5. l[1].len = k + 1 /\ l[1].filled = k + 1
  BY <1>0, <1>2, <1>4
<1>6. TypeOK'
  BY <1>1, <1>2 DEF PackInv, TypeOK
<1>7. FullyWritten'
  <2>1. ASSUME NEW i \in DOMAIN list'
        PROVE  list'[i].filled <= list'[i].room /\ ("truncated" \notin faults' => list'[i].len <= list'[i].filled)
    <3>1. CASE i = 1
      <4>1. list'[i].filled = k + 1 /\ list'[i].room = 5 /\ list'[i].len = k + 1
        BY <1>0, <1>3, <1>5, <3>1
      <4>2. QED BY <4>1
    <3>2. CASE i # 1 /\ i \in 1 .. Len(list)
      <4>1. i \in DOMAIN list /\ list'[i] = list[i]
        BY <1>0, <1>1, <3>2
      <4>2. QED BY <1>1, <1>2, <4>1 DEF PackInv, FullyWritten
    <3>3. CASE i = Len(list) + 1
      <4>1. list'[i] = e
        BY <1>1, <3>3
      <4>2. QED BY <1>2, <4>1 DEF Written
    <3>4. QED BY <1>1, <3>1, <3>2, <3>3
  <2>2. QED BY <2>1 DEF FullyWritten
<1>8. PktsKnown'
  <2>1. ASSUME NEW i \in DOMAIN list' PROVE list'[i].pkt \in 1..pkts'
    <3>1. CASE i \in 1 .. Len(list)
      <4>1. list'[i].pkt = list[i].pkt
        BY <1>0, <1>1, <3>1
      <4>2. QED BY <1>0, <1>2, <3>1, <4>1 DEF PackInv, PktsKnown
    <3>2. CASE i = Len(list) + 1
      <4>1. list'[i].pkt = pkts
        BY <1>1, <1>2, <3>2
      <4>2. QED BY <1>0, <1>2, <4>1
    <3>3. QED BY <1>1, <3>1, <3>2
  <2>2. QED BY <2>1 DEF PktsKnown
<1>9. FirstPkt'
  <2>1. list'[1].pkt = 1
    BY <1>0, <1>3
  <2>2. QED BY <1>1, <2>1 DEF FirstPkt
<1>10. HeadShape'
  <2>1. list'[1].room = 5 /\ list'[1].digits = DumpLength(len) /\ list'[1].len = Len(DumpLength(len)) + 1
    BY <1>0, <1>3, <1>4, <1>5
  <2>2. QED BY <2>1 DEF HeadShape, Rewritable
<1>11. QED BY <1>6, <1>7, <1>8, <1>9, <1>10

(* The sum of all lengths grows by n and by what the fixed header grows. *)
LEMMA LengthensSum ==
  ASSUME NEW l, NEW e, NEW len, NEW n, Lengthens(l, e, len, n)
  PROVE  /\ LenSum(list) \in Nat /\ list[1].len \in Nat /\ l[1].len \in Nat
         /\ LenSum(list') \in Nat
         /\ LenSum(list') + list[1].len = LenSum(list) + l[1].len + n
<1>1. /\ list \in Seq(Sized) /\ l \in Seq(Sized) /\ Len(list) = Len(l) /\ 1 \in 1 .. Len(list)
      /\ \A i \in 1 .. Len(list) : i # 1 => l[i].len = list[i].len
  <2>1. /\ list \in Seq(Extent) /\ l \in Seq(Extent) /\ Len(l) = Len(list) /\ 1 \in 1 .. Len(list)
        /\ \A i \in 1 .. Len(list) : i # 1 => l[i] = list[i]
    BY LengtheningFacts DEF Lengthens
  <2>2. QED BY <2>1, SeqSized
<1>2. LenSum(l) + list[1].len = LenSum(list) + l[1].len
  BY <1>1, SizedLen, LenSumChange
<1>3. list' = Append(l, e) /\ e \in Sized /\ e.len = n /\ n \in Nat
  BY DEF Lengthens, Sized
<1>4. LenSum(list') = LenSum(l) + n /\ LenSum(l) \in Nat
  BY <1>1, <1>3, SizedLen, LenSumAppend
<1>5. LenSum(list) \in Nat
  BY <1>1, SizedLen, LenSumConcat
<1>6. list[1].len \in Nat /\ l[1].len \in Nat
  BY <1>1, SizedLen, LensAre
<1>7. QED BY <1>2, <1>3, <1>4, <1>5, <1>6

LEMMA LengthensBuffered ==
  ASSUME NEW l, NEW e, NEW len, NEW n, Lengthens(l, e, len, n)
  PROVE  BufferedRight'
<1>1. ASSUME "rewritten" \notin faults' PROVE buffered' = LenSum(list')
  <2>1. "rewritten" \notin faults /\ l[1].len = list[1].len
    BY <1>1 DEF Lengthens
  <2>2. buffered = LenSum(list) /\ buffered' = buffered + n /\ n \in Nat
    BY <2>1, TotalIs DEF Lengthens, Lengthening, PackInv, BufferedRight
  <2>3. /\ LenSum(list) \in Nat /\ list[1].len \in Nat /\ LenSum(list') \in Nat
        /\ LenSum(list') + list[1].len = LenSum(list) + l[1].len + n
    BY LengthensSum
  <2>4. QED BY <2>1, <2>2, <2>3
<1>2. QED BY <1>1, TotalIs DEF BufferedRight

LEMMA LengthensLengths ==
  ASSUME NEW l, NEW e, NEW len, NEW n, Lengthens(l, e, len, n)
  PROVE  LengthsRight'
<1>0. /\ list \in Seq(Extent) /\ Len(list) \in Nat /\ DOMAIN list = 1 .. Len(list) /\ 1 \in 1 .. Len(list)
      /\ \A i \in 1 .. Len(list) : l[i].pkt = list[i].pkt /\ (i # 1 => l[i] = list[i])
      /\ l[1].digits = DumpLength(len)
      /\ l[1].len = (IF TooLarge(len) THEN 0 ELSE Len(DumpLength(len)) + 1)
      /\ Len(DumpLength(len)) \in 1..4
      /\ list[1].pkt = 1 /\ pkts \in Nat \ {0}
      /\ Readable(list[1].digits) => list[1].len = Len(list[1].digits) + 1
  BY LengtheningFacts DEF Lengthens
<1>1. /\ list' \in Seq(Extent) /\ Len(list') = Len(list) + 1 /\ DOMAIN list' = 1 .. Len(list) + 1
      /\ \A i \in 1 .. Len(list) : list'[i] = l[i]
      /\ faults \subseteq faults' /\ len \in Nat
  BY LengthensFacts
<1>2. /\ PackInv /\ ~ TooLarge(len) /\ n \in Nat /\ pkts' = pkts /\ Readable(list[1].digits)
      /\ len = ReadLength(list[1].digits) + n
  BY DEF Lengthens, Lengthening
<1>3. ASSUME NEW p \in 1..pkts PROVE \E i \in DOMAIN list' : HeadRight(i, p)'
  <2>1. PICK i \in DOMAIN list : HeadRight(i, p)
    BY <1>2, LengthsRightIs DEF PackInv
  <2>2. i \in 1 .. Len(list) /\ i \in DOMAIN list'
    BY <1>0, <1>1
  <2>3. IsHead(i, p)'
    <3>1. list[i].pkt = p /\ \A j \in 1..(i - 1) : list[j].pkt # p
      BY <2>1 DEF HeadRight, IsHead
    <3>2. ASSUME NEW j \in 1..(i - 1) PROVE list'[j].pkt # p
      <4>1. j \in 1 .. Len(list)
        BY <1>0, <2>2
      <4>2. QED BY <1>0, <1>1, <3>1, <4>1
    <3>3. list'[i].pkt = p
      BY <1>0, <1>1, <2>2, <3>1
    <3>4. QED BY <3>2, <3>3 DEF IsHead
  <2>4. CASE faults' \cap {"unappended", "misdirected"} # {}
    <3>1. HeadRight(i, p)'
      BY <2>3, <2>4 DEF HeadRight
    <3>2. QED BY <2>2, <3>1
  <2>5. CASE faults' \cap {"unappended", "misdirected"} = {}
    <3>1. pkts = 1
      BY <2>5 DEF Lengthens, Misdirected
    <3>2. p = 1 /\ i = 1
      <4>1. p = 1
        BY <3>1
      <4>2. i # 1 => 1 \in 1..(i - 1)
        BY <1>0, <2>2
      <4>3. QED BY <1>0, <2>1, <4>1, <4>2 DEF HeadRight, IsHead
    <3>a. PICK d \in 1..4 : d = Len(DumpLength(len))
      BY <1>0
    <3>3. d \in Nat /\ l[1].len = d + 1
      BY <1>0, <1>2, <3>a
    <3>4. PICK old \in Nat, r \in Nat :
            /\ old = Len(list[1].digits) /\ r = ReadLength(list[1].digits)
            /\ list[1].len = old + 1 /\ len = r + n
      <4>1. list[1] \in Extent
        BY <1>0, ElementOfSeq
      <4>2. list[1].digits \in Seq(0..255)
        BY <4>1 DEF Extent
      <4>3. Len(list[1].digits) \in Nat /\ ReadLength(list[1].digits) \in Nat
        BY <4>2, LenProperties, ReadLengthType
      <4>4. QED BY <1>0, <1>2, <4>3
    <3>5. PktLen(p) = LenSum(list)
      <4>1. \A k \in 1 .. Len(list) : list[k].pkt = 1
        <5>1. ASSUME NEW k \in 1 .. Len(list) PROVE list[k].pkt = 1
          <6>1. list[k].pkt \in 1..pkts
            BY <1>0, <1>2 DEF PackInv, PktsKnown
          <6>2. QED BY <3>1, <6>1
        <5>2. QED BY <5>1
      <4>2. LenSum(OfPkt(list, 1)) = LenSum(list)
        BY <1>0, <4>1, OfPktAll
      <4>3. QED BY <3>2, <4>2, PktLenIs
    <3>6. PktLen(p)' = LenSum(list')
      <4>1. \A k \in 1 .. Len(list') : list'[k].pkt = 1
        <5>1. PktsKnown'
          BY LengthensShape
        <5>2. ASSUME NEW k \in 1 .. Len(list') PROVE list'[k].pkt = 1
          <6>1. k \in DOMAIN list'
            BY <1>1
          <6>2. list'[k].pkt \in 1..pkts'
            BY <5>1, <6>1 DEF PktsKnown
          <6>3. QED BY <1>2, <3>1, <6>2
        <5>3. QED BY <5>2
      <4>2. LenSum(OfPkt(list', 1)) = LenSum(list')
        BY <1>1, <4>1, OfPktAll
      <4>3. QED BY <3>2, <4>2, PktLenIs
    <3>7. LenSum(list) = 1 + old + r
      <4>1. \/ faults \cap {"unappended", "misdirected"} # {}
            \/ p = 1 /\ list[i].len = 0
            \/ PktLen(p) = 1 + Len(list[i].digits) + ReadLength(list[i].digits)
        BY <2>1 DEF HeadRight
      <4>2. faults \cap {"unappended", "misdirected"} = {}
        BY <1>1, <2>5
      <4>3. list[i].len # 0
        BY <3>2, <3>4
      <4>4. QED BY <3>2, <3>4, <3>5, <4>1, <4>2, <4>3
    <3>8. LenSum(list') = 1 + d + len
      <4>1. LenSum(list') \in Nat /\ LenSum(list') + list[1].len = LenSum(list) + l[1].len + n
        BY LengthensSum
      <4>2. PICK s \in Nat : s = LenSum(list')
        BY <4>1
      <4>3. s + (old + 1) = (1 + old + r) + (d + 1) + n
        BY <3>3, <3>4, <3>7, <4>1, <4>2
      <4>4. s = 1 + d + (r + n)
        BY <1>2, <3>3, <4>3
      <4>5. QED BY <3>4, <4>2, <4>4
    <3>9. list'[i].digits = DumpLength(len) /\ ReadLength(DumpLength(len)) = len
      BY <1>0, <1>1, <1>2, <3>2, ReadLengthIs
    <3>10. HeadRight(i, p)'
      BY <2>3, <3>a, <3>6, <3>8, <3>9 DEF HeadRight
    <3>11. QED BY <2>2, <3>10
  <2>6. QED BY <2>4, <2>5
<1>4. QED BY <1>2, <1>3 DEF LengthsRight, HeadRight

LEMMA AppendedKeeps ==
  ASSUME PackInv, list # <<>>, list[1].type = "PUBLISH", Readable(list[1].digits), NEW n \in Nat, Appended(n)
  PROVE  PackInv' /\ Untouched
<1>0. list \in Seq(Extent) /\ 1 \in 1 .. Len(list) /\ pkts \in Nat
  <2>1. list \in Seq(Extent) /\ pkts \in Nat
    BY DEF PackInv, TypeOK
  <2>2. Len(list) \in Nat /\ Len(list) # 0
    BY <2>1, EmptySeq
  <2>3. QED BY <2>1, <2>2
<1>1. PICK len \in Nat : len = ReadLength(list[1].digits) + n
  <2>1. list[1] \in Extent
    BY <1>0, ElementOfSeq
  <2>2. list[1].digits \in Seq(0..255)
    BY <2>1 DEF Extent
  <2>3. ReadLength(list[1].digits) \in Nat
    BY <2>2, ReadLengthType
  <2>4. QED BY <2>3
<1>2. PICK l : l = Lengthened(len)
  OBVIOUS
<1>3. Lengthening(l, len)
  BY <1>2, LengthenedIs DEF Lengthening, PackInv
<1>4. CASE TooLarge(len)
  <2>1. list' = l /\ ret' = "PKT_TOO_LARGE" /\ faults' = faults \cup {"rewritten"} /\ UNCHANGED <<buffered, pkts>>
    BY <1>1, <1>2, <1>4 DEF Appended
  <2>2. Lengthening(list', len)
    BY <1>3, <2>1
  <2>3. QED BY <1>4, <2>1, <2>2, TooLongKeeps
<1>5. CASE ~ TooLarge(len)
  <2>1. /\ list' = Append(l, Linked(BodyExt(n, n), pkts)) /\ buffered' = buffered + n
        /\ ret' = "NOERROR" /\ UNCHANGED pkts
        /\ faults' = faults \cup Rewritten(len) \cup Misdirected
    BY <1>1, <1>2, <1>5 DEF Appended
  <2>2. PICK b \in Extent : b = BodyExt(n, n) /\ Written(b, {}) /\ b.len = n
    BY BodyExtIs
  <2>3. PICK e \in Extent : e = Linked(b, pkts) /\ e.pkt = pkts /\ e.len = b.len
                            /\ e.room = b.room /\ e.filled = b.filled
    BY <1>0, LinkedIs
  <2>4. Written(e, {}) /\ e.len = n
    BY <2>2, <2>3 DEF Written
  <2>5. Rewritten(len) = (IF l[1].len = list[1].len THEN {} ELSE {"rewritten"})
    BY <1>2 DEF Rewritten
  <2>6. Lengthens(l, e, len, n)
    BY <1>1, <1>3, <1>5, <2>1, <2>2, <2>3, <2>4, <2>5 DEF Lengthens
  <2>7. PackInv'
    BY <2>6, LengthensShape, LengthensBuffered, LengthensLengths DEF PackInv
  <2>8. Untouched
    BY <2>1 DEF Untouched, Errors
  <2>9. QED BY <2>7, <2>8
<1>6. QED BY <1>4, <1>5

LEMMA AppendPayloadKeeps ==
  ASSUME PackInv, NEW form, NEW timed, NEW size \in Sizes, AppendPayload(form, timed, size)
  PROVE  PackInv' /\ Untouched
<1>1. PICK n \in Nat : n = AppendBytes(form, timed, size)
  <2>1. size \in Nat
    BY SizesAreNumbers
  <2>2. AppendBytes(form, timed, size) \in Nat
    BY <2>1 DEF AppendBytes
  <2>3. QED BY <2>2
<1>2. list # <<>> /\ list[1].type = "PUBLISH"
  BY DEF AppendPayload
<1>3. \/ Returns("INVALID_PARAMETER") \/ Returns("OUTOFMEMORY") \/ Returns("INTERNAL")
      \/ Readable(list[1].digits) /\ Appended(n)
  BY <1>1 DEF AppendPayload
<1>4. "INVALID_PARAMETER" \in Fails /\ "OUTOFMEMORY" \in Fails /\ "INTERNAL" \in Fails
  BY FailsHas
<1>5. QED BY <1>2, <1>3, <1>4, ReturnsUntouched, AppendedKeeps

LEMMA ExtendKeeps ==
  ASSUME PackInv, Extend
  PROVE  PackInv' /\ Untouched
<1>1. "INVALID_PARAMETER" \in Fails /\ "NOT_UTF8" \in Fails
  BY FailsHas
<1>2. \/ SetPktDup
      \/ Returns("INVALID_PARAMETER") \/ Returns("NOT_UTF8")
      \/ \E form \in Forms, timed \in BOOLEAN, size \in Sizes : AppendPayload(form, timed, size)
  BY DEF Extend, AppendSubscribeTopic, AppendUnsubscribeTopic, AppendTopic, AppendDP, AppendDPSubvalue,
         AppendDPFinishSubobject, PackDataPointFinish, NoInfo, AppendDPString, AppendDPSubvalueString,
         AppendDPStartSubobject, TextRefused
<1>3. CASE SetPktDup
  BY <1>3, SetPktDupKeeps
<1>4. CASE \E form \in Forms, timed \in BOOLEAN, size \in Sizes : AppendPayload(form, timed, size)
  BY <1>4, AppendPayloadKeeps
<1>5. QED BY <1>1, <1>2, <1>3, <1>4, ReturnsUntouched

(* An empty buffer satisfies everything. *)
LEMMA ResetKeeps ==
  ASSUME Reset
  PROVE  PackInv' /\ Untouched
<1>1. list' = <<>> /\ buffered' = 0 /\ pkts' = 0 /\ ret' = "NOERROR" /\ faults' = {}
  BY DEF Reset
<1>2. <<>> \in Seq(Extent) /\ DOMAIN <<>> = {} /\ LenSum(<<>>) = 0 /\ 0 \in 0..MaxPkts /\ 1..0 = {}
  BY LenSumEmpty, EmptySeq, MqttPackAssumption
<1>3. TypeOK'
  BY <1>1, <1>2 DEF TypeOK
<1>4. LengthsRight' /\ FullyWritten' /\ BufferedRight'
  BY <1>1, <1>2, TotalIs DEF LengthsRight, FullyWritten, BufferedRight
<1>5. PktsKnown' /\ FirstPkt' /\ HeadShape'
  BY <1>1, <1>2 DEF PktsKnown, FirstPkt, HeadShape
<1>6. Untouched
  BY <1>1 DEF Untouched, Errors
<1>7. QED BY <1>3, <1>4, <1>5, <1>6 DEF PackInv

-----------------------------------------------------------------------------
LEMMA PackInvInit == Init => PackInv
<1> SUFFICES ASSUME Init PROVE PackInv
  OBVIOUS
<1>1. list = <<>> /\ buffered = 0 /\ pkts = 0 /\ ret = "NOERROR" /\ faults = {}
  BY DEF Init
<1>2. <<>> \in Seq(Extent) /\ DOMAIN <<>> = {} /\ LenSum(<<>>) = 0 /\ 0 \in 0..MaxPkts /\ 1..0 = {}
  BY LenSumEmpty, EmptySeq, MqttPackAssumption
<1>3. TypeOK
  BY <1>1, <1>2 DEF TypeOK
<1>4. LengthsRight /\ FullyWritten /\ BufferedRight
  BY <1>1, <1>2, TotalIs DEF LengthsRight, FullyWritten, BufferedRight
<1>5. PktsKnown /\ FirstPkt /\ HeadShape
  BY <1>1, <1>2 DEF PktsKnown, FirstPkt, HeadShape
<1>6. QED BY <1>3, <1>4, <1>5 DEF PackInv

LEMMA PackInvStep ==
  ASSUME PackInv, [Next]_vars
  PROVE  PackInv' /\ (UNCHANGED vars \/ Untouched)
<1>1. CASE UNCHANGED vars
  <2>1. UNCHANGED <<list, buffered, pkts, ret, faults>>
    BY <1>1 DEF vars
  <2>2. TypeOK' /\ FullyWritten' /\ BufferedRight' /\ PktsKnown' /\ FirstPkt' /\ HeadShape'
    BY <2>1 DEF PackInv, TypeOK, FullyWritten, BufferedRight, PktsKnown, FirstPkt, HeadShape
  <2>3. LengthsRight'
    BY <2>1 DEF PackInv, LengthsRight, IsHead, PktLen
  <2>4. QED BY <1>1, <2>2, <2>3 DEF PackInv
<1>2. CASE pkts < MaxPkts /\ Pack
  BY <1>2, PackKeeps
<1>3. CASE Extend
  BY <1>3, ExtendKeeps
<1>4. CASE Reset
  BY <1>4, ResetKeeps
<1>5. QED BY <1>1, <1>2, <1>3, <1>4 DEF Next

(***************************************************************************)
(* The invariant, and with it what every state of a packing buffer is.     *)
(***************************************************************************)
THEOREM PackInvariant == Spec => []PackInv
<1>1. Init => PackInv
  BY PackInvInit
<1>2. PackInv /\ [Next]_vars => PackInv'
  BY PackInvStep
<1>3. QED BY <1>1, <1>2, PTL DEF Spec

(* mqtt_buffer.c, mqtt.c: types and bounds, whatever is packed. *)
THEOREM PackTypes == Spec => []TypeOK
<1>1. PackInv => TypeOK
  BY DEF PackInv
<1>2. QED BY <1>1, PackInvariant, PTL

(***************************************************************************)
(* mqtt.c:136-173, 955-1000, 1215-1234, 1381-1390: every fixed header      *)
(* announces the bytes that follow it, for topics, payloads and lists of   *)
(* topics of every length and after every Mqtt_AppendLength, but for the   *)
(* two limits of the code that the property names.                         *)
(***************************************************************************)
THEOREM LengthsAreRight == Spec => []LengthsRight
<1>1. PackInv => LengthsRight
  BY DEF PackInv
<1>2. QED BY <1>1, PackInvariant, PTL

(***************************************************************************)
(* mqtt.c:946-1026, 1381-1404, 1484-1503: no packing function writes       *)
(* behind what it allocated, however long its strings are, or sends what   *)
(* it did not write, unless a string is longer than its length field.      *)
(***************************************************************************)
THEOREM AllIsWritten == Spec => []FullyWritten
<1>1. PackInv => FullyWritten
  BY DEF PackInv
<1>2. QED BY <1>1, PackInvariant, PTL

(* mqtt_buffer.c:129: buffered_bytes is the length of what is to be sent. *)
THEOREM BufferedIsRight == Spec => []BufferedRight
<1>1. PackInv => BufferedRight
  BY DEF PackInv
<1>2. QED BY <1>1, PackInvariant, PTL

(***************************************************************************)
(* A call that returns an error leaves all packets of the buffer as they   *)
(* are, but for the fixed header that Mqtt_AppendLength may have spoilt.   *)
(***************************************************************************)
THEOREM RefusedCallsUntouched == Spec => RefusedUntouched
<1>1. PackInv /\ [Next]_vars =>
        [ret' \in Errors =>
           /\ UNCHANGED <<buffered, pkts>>
           /\ \/ UNCHANGED list
              \/ ret' = "PKT_TOO_LARGE" /\ Tail(list') = Tail(list) /\ list'[1].len = 0]_vars
  BY PackInvStep DEF Untouched
<1>2. QED BY <1>1, PackInvariant, PTL DEF Spec, RefusedUntouched

=============================================================================
