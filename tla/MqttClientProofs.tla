-------------------------- MODULE MqttClientProofs --------------------------
(***************************************************************************)
(* For every shape of the packets, every number of commands and of packets *)
(* from the server, and every way in which the kernel takes a packet in    *)
(* parts: the bytes on the wire are the packets handed over.               *)
(***************************************************************************)
EXTENDS MqttClient, SequenceFacts

Ext == [pkt : Nat, kind : Kinds, ext : Nat, len : Nat \ {0}]

WireByte == [pkt : Nat, kind : Kinds \cup {"ack", "header"}, at : Nat \X Nat]

Pieces(exts) == [i \in DOMAIN exts |-> ExtentBytes(exts[i])]

-----------------------------------------------------------------------------
(* The extents of a packet that a command or HandleCmd packs. *)
LEMMA ExtentsAre ==
  ASSUME packed \in Nat, NEW kind \in Kinds
  PROVE  /\ Extents(kind) \in Seq(Ext)
         /\ Extents(kind) # <<>>
         /\ \A i \in DOMAIN Extents(kind) : Extents(kind)[i].kind = kind
<1>1. PICK shape \in Seq(Nat \ {0}) : shape = Shape[kind] /\ shape # <<>>
  BY MqttClientAssumption
<1>2. DOMAIN shape = 1 .. Len(shape) /\ Len(shape) \in Nat \ {0}
  BY <1>1, EmptySeq, LenProperties
<1> DEFINE e(i) == [pkt |-> packed + 1, kind |-> kind, ext |-> i, len |-> shape[i]]
<1>3. ASSUME NEW i \in 1 .. Len(shape)
      PROVE  e(i) \in Ext /\ e(i).kind = kind
  <2>1. shape[i] \in Nat /\ packed + 1 \in Nat /\ i \in Nat
    BY <1>1, ElementOfSeq
  <2>2. QED
    BY <2>1 DEF Ext
<1> HIDE DEF e
<1>4. [i \in 1 .. Len(shape) |-> e(i)] \in Seq(Ext) /\ Len([i \in 1 .. Len(shape) |-> e(i)]) = Len(shape)
  BY <1>2, <1>3
<1>5. Extents(kind) = [i \in 1 .. Len(shape) |-> e(i)]
  BY <1>1, <1>2 DEF Extents, e
<1>6. Extents(kind) # <<>>
  BY <1>2, <1>4, <1>5, EmptySeq
<1>7. QED
  BY <1>3, <1>4, <1>5, <1>6

(* As many bytes as the extent is long. *)
LEMMA ExtentBytesAre ==
  ASSUME NEW e \in Ext
  PROVE  ExtentBytes(e) \in Seq(WireByte) /\ Len(ExtentBytes(e)) = e.len
<1>1. e.len \in Nat /\ e.pkt \in Nat /\ e.kind \in Kinds /\ e.ext \in Nat
  BY DEF Ext
<1> DEFINE b(i) == [pkt |-> e.pkt, kind |-> e.kind, at |-> <<e.ext, i>>]
<1>2. ASSUME NEW i \in 1 .. e.len
      PROVE  b(i) \in WireByte
  BY <1>1 DEF WireByte
<1> HIDE DEF b
<1>3. [i \in 1 .. e.len |-> b(i)] \in Seq(WireByte) /\ Len([i \in 1 .. e.len |-> b(i)]) = e.len
  BY <1>1, <1>2
<1>4. QED
  BY <1>3 DEF ExtentBytes, b

(* The bytes of a list are those of its extents. *)
LEMMA PiecesAre ==
  ASSUME NEW exts \in Seq(Ext)
  PROVE  /\ Pieces(exts) \in Seq(Seq(WireByte)) /\ Len(Pieces(exts)) = Len(exts)
         /\ \A i \in 1 .. Len(exts) : Pieces(exts)[i] = ExtentBytes(exts[i])
<1>1. DOMAIN exts = 1 .. Len(exts) /\ Len(exts) \in Nat
  OBVIOUS
<1> DEFINE p(i) == ExtentBytes(exts[i])
<1>2. ASSUME NEW i \in 1 .. Len(exts)
      PROVE  p(i) \in Seq(WireByte)
  <2>1. exts[i] \in Ext
    BY ElementOfSeq
  <2>2. QED
    BY <2>1, ExtentBytesAre
<1>3. \A i \in 1 .. Len(exts) : Pieces(exts)[i] = ExtentBytes(exts[i])
  BY <1>1 DEF Pieces
<1> HIDE DEF p
<1>4. [i \in 1 .. Len(exts) |-> p(i)] \in Seq(Seq(WireByte)) /\ Len([i \in 1 .. Len(exts) |-> p(i)]) = Len(exts)
  BY <1>1, <1>2
<1>5. Pieces(exts) = [i \in 1 .. Len(exts) |-> p(i)]
  BY <1>1 DEF Pieces, p
<1>6. QED
  BY <1>3, <1>4, <1>5

LEMMA PiecesConcat ==
  ASSUME NEW a \in Seq(Ext), NEW b \in Seq(Ext)
  PROVE  Pieces(a \o b) = Pieces(a) \o Pieces(b)
<1>1. /\ a \o b \in Seq(Ext) /\ Len(a \o b) = Len(a) + Len(b) /\ Len(a) \in Nat /\ Len(b) \in Nat
      /\ \A i \in 1 .. Len(a) + Len(b) : (a \o b)[i] = IF i <= Len(a) THEN a[i] ELSE b[i - Len(a)]
  BY ConcatProperties, LenProperties
<1>2. PICK pa \in Seq(Seq(WireByte)), pb \in Seq(Seq(WireByte)), pab \in Seq(Seq(WireByte)) :
        /\ pa = Pieces(a) /\ pb = Pieces(b) /\ pab = Pieces(a \o b)
        /\ Len(pa) = Len(a) /\ Len(pb) = Len(b) /\ Len(pab) = Len(a) + Len(b)
        /\ \A i \in 1 .. Len(a) : pa[i] = ExtentBytes(a[i])
        /\ \A i \in 1 .. Len(b) : pb[i] = ExtentBytes(b[i])
        /\ \A i \in 1 .. Len(a) + Len(b) : pab[i] = ExtentBytes((a \o b)[i])
  BY <1>1, PiecesAre
<1>3. /\ pa \o pb \in Seq(Seq(WireByte)) /\ Len(pa \o pb) = Len(a) + Len(b)
      /\ \A i \in 1 .. Len(a) + Len(b) : (pa \o pb)[i] = IF i <= Len(a) THEN pa[i] ELSE pb[i - Len(a)]
  BY <1>2, ConcatProperties, SMTT(30)
<1>4. ASSUME NEW i \in 1 .. Len(a) + Len(b)
      PROVE  pab[i] = (pa \o pb)[i]
  <2>1. CASE i <= Len(a)
    <3>1. i \in 1 .. Len(a) /\ (a \o b)[i] = a[i] /\ (pa \o pb)[i] = pa[i]
      BY <1>1, <1>3, <2>1
    <3>2. pab[i] = ExtentBytes((a \o b)[i]) /\ pa[i] = ExtentBytes(a[i])
      BY <1>2, <3>1
    <3>3. QED
      BY <3>1, <3>2
  <2>2. CASE ~(i <= Len(a))
    <3>1. i - Len(a) \in 1 .. Len(b) /\ (a \o b)[i] = b[i - Len(a)] /\ (pa \o pb)[i] = pb[i - Len(a)]
      <4>1. i - Len(a) \in 1 .. Len(b)
        BY <1>1, <2>2
      <4>2. (a \o b)[i] = b[i - Len(a)]
        BY <1>1, <2>2
      <4>3. (pa \o pb)[i] = pb[i - Len(a)]
        BY <1>3, <2>2
      <4>4. QED
        BY <4>1, <4>2, <4>3
    <3>2. pab[i] = ExtentBytes((a \o b)[i]) /\ pb[i - Len(a)] = ExtentBytes(b[i - Len(a)])
      BY <1>2, <3>1
    <3>3. QED
      BY <3>1, <3>2
  <2>3. QED
    BY <2>1, <2>2
<1>5. pab = pa \o pb
  BY <1>2, <1>3, <1>4, SeqEqual
<1>6. QED
  BY <1>2, <1>5

LEMMA BytesAre == \A exts : Bytes(exts) = FlattenSeq(Pieces(exts))
BY DEF Bytes, Pieces

LEMMA BytesConcat ==
  ASSUME NEW a \in Seq(Ext), NEW b \in Seq(Ext)
  PROVE  /\ Bytes(a) \in Seq(WireByte) /\ Bytes(b) \in Seq(WireByte)
         /\ Bytes(a \o b) = Bytes(a) \o Bytes(b)
BY PiecesAre, PiecesConcat, FlattenConcat, BytesAre

LEMMA WireAssociative ==
  \A a, b, c \in Seq(WireByte) : (a \o b) \o c = a \o (b \o c)
BY ConcatAssociative

LEMMA BytesNone == Bytes(<<>>) = <<>>
<1>1. Pieces(<<>>) = <<>>
  BY DEF Pieces
<1>2. QED
  BY <1>1, BytesAre, FlattenNone

(* buffered_bytes. *)
LEMMA BufferedIsLenSum == \A exts : Buffered(exts) = LenSum(exts)
BY DEF Buffered, LenSum

LEMMA BufferedConcat ==
  ASSUME NEW a \in Seq(Ext), NEW b \in Seq(Ext)
  PROVE  /\ Buffered(a) \in Nat /\ Buffered(b) \in Nat
         /\ Buffered(a \o b) = Buffered(a) + Buffered(b)
<1>1. \A r \in Ext : r.len \in Nat
  BY DEF Ext
<1>2. LenSum(a) \in Nat /\ LenSum(b) \in Nat /\ LenSum(a \o b) = LenSum(a) + LenSum(b)
  BY <1>1, LenSumConcat
<1>3. QED
  BY <1>2, BufferedIsLenSum

LEMMA BufferedNone == Buffered(<<>>) = 0
BY BufferedIsLenSum, LenSumEmpty

(* It counts the bytes. *)
LEMMA BytesLen ==
  ASSUME NEW exts \in Seq(Ext)
  PROVE  /\ Bytes(exts) \in Seq(WireByte)
         /\ Len(Bytes(exts)) = Buffered(exts) /\ Buffered(exts) \in Nat
<1> DEFINE T == {q \in Seq(Ext) : Len(Bytes(q)) = Buffered(q)}
<1>1. <<>> \in T
  BY BytesNone, BufferedNone, EmptySeq
<1>2. ASSUME NEW q \in Seq(Ext), NEW e \in Ext, q \in T
      PROVE  Append(q, e) \in T
  <2>1. <<e>> \in Seq(Ext) /\ Append(q, e) \in Seq(Ext) /\ Append(q, e) = q \o <<e>> /\ e.len \in Nat
    <3>1. <<e>> \in Seq(Ext) /\ e.len \in Nat
      BY DEF Ext
    <3>2. QED
      BY <3>1, AppendProperties, AppendIsConcat
  <2>2. PICK x \in Seq(WireByte) : x = ExtentBytes(e) /\ Len(x) = e.len
    BY ExtentBytesAre
  <2>3. Bytes(<<e>>) = x
    <3>1. Pieces(<<e>>) = Append(<<>>, x)
      BY <2>2 DEF Pieces
    <3>2. FlattenSeq(Append(<<>>, x)) = FlattenSeq(<<>>) \o x
      <4>1. <<>> \in Seq(Seq(WireByte))
        BY EmptySeq
      <4>2. QED
        BY <4>1, FlattenAppend
    <3>3. QED
      BY <3>1, <3>2, BytesAre, FlattenNone, ConcatEmptySeq
  <2>4. Buffered(<<e>>) = e.len
    <3>1. LenSum(Append(<<>>, e)) = LenSum(<<>>) + e.len
      <4>1. <<>> \in Seq(Ext) /\ \A r \in Ext : r.len \in Nat
        BY EmptySeq DEF Ext
      <4>2. QED
        BY <4>1, LenSumAppend
    <3>2. Append(<<>>, e) = <<e>>
      OBVIOUS
    <3>3. QED
      BY <2>1, <3>1, <3>2, LenSumEmpty, BufferedIsLenSum
  <2>5. PICK y \in Seq(WireByte) : y = Bytes(q) /\ Bytes(q \o <<e>>) = y \o x
    BY <2>1, <2>3, BytesConcat
  <2>6. Len(y \o x) = Len(y) + Len(x)
    BY ConcatProperties
  <2>7. Buffered(q \o <<e>>) = Buffered(q) + e.len
    BY <2>1, <2>4, BufferedConcat
  <2>8. Len(y) = Buffered(q)
    BY <1>2, <2>5
  <2>9. QED
    BY <2>1, <2>2, <2>5, <2>6, <2>7, <2>8
<1> HIDE DEF T
<1>3. exts \in T
  BY <1>1, <1>2, InductionOnSeq
<1>4. Buffered(exts) \in Nat /\ Bytes(exts) \in Seq(WireByte)
  BY BufferedConcat, BytesConcat
<1>5. QED
  BY <1>3, <1>4 DEF T

-----------------------------------------------------------------------------
(* A sequence without its first a elements. *)
LEMMA DropFirst ==
  ASSUME NEW S, NEW s \in Seq(S), NEW a \in 0 .. Len(s)
  PROVE  /\ SubSeq(s, a + 1, Len(s)) \in Seq(S)
         /\ Len(SubSeq(s, a + 1, Len(s))) = Len(s) - a
         /\ \A i \in 1 .. Len(s) - a : SubSeq(s, a + 1, Len(s))[i] = s[a + i]
<1>1. Len(s) \in Nat /\ a \in Nat /\ a <= Len(s)
  OBVIOUS
<1>2. QED
  BY <1>1

(* What is left of a sequence, and what of it has gone. *)
LEMMA RestOf ==
  ASSUME NEW S, NEW s \in Seq(S), NEW a \in 0 .. Len(s), NEW b \in a .. Len(s)
  PROVE  /\ SubSeq(s, a + 1, Len(s)) \in Seq(S)
         /\ Len(SubSeq(s, a + 1, Len(s))) = Len(s) - a
         /\ SubSeq(SubSeq(s, a + 1, Len(s)), 1, b - a) = SubSeq(s, a + 1, b)
         /\ SubSeq(s, a + 1, b) \in Seq(S)
         /\ SubSeq(s, a + 1, b) \o SubSeq(s, b + 1, Len(s)) = SubSeq(s, a + 1, Len(s))
<1>1. /\ Len(s) \in Nat /\ a \in Nat /\ b \in Nat /\ a <= b /\ b <= Len(s)
  OBVIOUS
<1>2. /\ SubSeq(s, a + 1, Len(s)) \in Seq(S) /\ Len(SubSeq(s, a + 1, Len(s))) = Len(s) - a
      /\ \A i \in 1 .. Len(s) - a : SubSeq(s, a + 1, Len(s))[i] = s[a + i]
  BY <1>1
<1>3. /\ SubSeq(s, a + 1, b) \in Seq(S) /\ Len(SubSeq(s, a + 1, b)) = b - a
      /\ \A i \in 1 .. b - a : SubSeq(s, a + 1, b)[i] = s[a + i]
  BY <1>1
<1>4. SubSeq(SubSeq(s, a + 1, Len(s)), 1, b - a) = SubSeq(s, a + 1, b)
  <2>1. PICK r \in Seq(S) : r = SubSeq(s, a + 1, Len(s)) /\ Len(r) = Len(s) - a
                            /\ \A i \in 1 .. Len(s) - a : r[i] = s[a + i]
    BY <1>2
  <2>2. /\ SubSeq(r, 1, b - a) \in Seq(S) /\ Len(SubSeq(r, 1, b - a)) = b - a
        /\ \A i \in 1 .. b - a : SubSeq(r, 1, b - a)[i] = r[i]
    BY <1>1, <2>1
  <2>3. \A i \in 1 .. b - a : SubSeq(r, 1, b - a)[i] = SubSeq(s, a + 1, b)[i]
    BY <1>1, <1>3, <2>1, <2>2
  <2>4. SubSeq(r, 1, b - a) = SubSeq(s, a + 1, b)
    BY <1>3, <2>2, <2>3, SeqEqual
  <2>5. QED
    BY <2>1, <2>4
<1>5. SubSeq(s, a + 1, b) \o SubSeq(s, b + 1, Len(s)) = SubSeq(s, a + 1, Len(s))
  <2>1. a + 1 \in 1 .. Len(s) + 1 /\ b \in (a + 1) - 1 .. Len(s) /\ Len(s) \in b .. Len(s)
    BY <1>1
  <2>2. QED
    BY <2>1, ConcatAdjacentSubSeq
<1>6. QED
  BY <1>2, <1>3, <1>4, <1>5

(* More behind it: the rest has more behind it. *)
LEMMA RestOfConcat ==
  ASSUME NEW S, NEW s \in Seq(S), NEW t \in Seq(S), NEW a \in 0 .. Len(s)
  PROVE  SubSeq(s \o t, a + 1, Len(s) + Len(t)) = SubSeq(s, a + 1, Len(s)) \o t
<1>1. /\ Len(s) \in Nat /\ Len(t) \in Nat /\ a \in Nat /\ a <= Len(s)
      /\ s \o t \in Seq(S) /\ Len(s \o t) = Len(s) + Len(t)
      /\ \A i \in 1 .. Len(s) + Len(t) : (s \o t)[i] = IF i <= Len(s) THEN s[i] ELSE t[i - Len(s)]
  BY ConcatProperties, LenProperties
<1>2. PICK r \in Seq(S) : r = SubSeq(s, a + 1, Len(s)) /\ Len(r) = Len(s) - a
                          /\ \A i \in 1 .. Len(s) - a : r[i] = s[a + i]
  <2>1. /\ SubSeq(s, a + 1, Len(s)) \in Seq(S)
        /\ Len(SubSeq(s, a + 1, Len(s))) = Len(s) - a
        /\ \A i \in 1 .. Len(s) - a : SubSeq(s, a + 1, Len(s))[i] = s[a + i]
    BY DropFirst
  <2>2. QED
    BY <2>1, Zenon
<1>3. PICK u \in Seq(S) : u = SubSeq(s \o t, a + 1, Len(s) + Len(t)) /\ Len(u) = Len(s) + Len(t) - a
                          /\ \A i \in 1 .. Len(s) + Len(t) - a : u[i] = (s \o t)[a + i]
  <2>1. PICK v \in Seq(S) : v = s \o t
    BY <1>1
  <2>2. Len(v) = Len(s) + Len(t)
    BY <1>1, <2>1
  <2>3. SubSeq(v, a + 1, Len(v)) \in Seq(S) /\ Len(SubSeq(v, a + 1, Len(v))) = Len(v) - a
        /\ \A i \in 1 .. Len(v) - a : SubSeq(v, a + 1, Len(v))[i] = v[a + i]
    BY <1>1, <2>2, DropFirst
  <2>4. PICK u \in Seq(S) : u = SubSeq(v, a + 1, Len(v))
    BY <2>3
  <2>5. u = SubSeq(s \o t, a + 1, Len(s) + Len(t)) /\ Len(u) = Len(s) + Len(t) - a
    BY <2>1, <2>2, <2>3, <2>4
  <2>6. \A i \in 1 .. Len(s) + Len(t) - a : u[i] = (s \o t)[a + i]
    BY <2>1, <2>2, <2>3, <2>4
  <2>7. QED
    BY <2>5, <2>6
<1>4. /\ r \o t \in Seq(S) /\ Len(r \o t) = Len(s) - a + Len(t)
      /\ \A i \in 1 .. Len(s) - a + Len(t) : (r \o t)[i] = IF i <= Len(r) THEN r[i] ELSE t[i - Len(r)]
  <2>1. /\ r \o t \in Seq(S) /\ Len(r \o t) = Len(r) + Len(t)
        /\ \A i \in 1 .. Len(r) + Len(t) : (r \o t)[i] = IF i <= Len(r) THEN r[i] ELSE t[i - Len(r)]
    BY <1>2, ConcatProperties
  <2>2. Len(r) = Len(s) - a
    BY <1>2
  <2>3. QED
    BY <2>1, <2>2
<1>5. ASSUME NEW i \in 1 .. Len(u)
      PROVE  u[i] = (r \o t)[i]
  <2>1. /\ i \in 1 .. Len(s) + Len(t) - a /\ i \in 1 .. Len(s) - a + Len(t)
        /\ a + i \in 1 .. Len(s) + Len(t)
    BY <1>1, <1>3
  <2>2. u[i] = (s \o t)[a + i]
    BY <1>3, <2>1
  <2>3. CASE i <= Len(s) - a
    <3>1. a + i <= Len(s) /\ i \in 1 .. Len(s) - a
      BY <1>1, <2>1, <2>3
    <3>2. u[i] = s[a + i]
      BY <1>1, <2>1, <2>2, <3>1
    <3>3. (r \o t)[i] = r[i]
      BY <1>2, <1>4, <2>1, <2>3
    <3>4. QED
      BY <1>2, <3>1, <3>2, <3>3
  <2>4. CASE ~(i <= Len(s) - a)
    <3>1. ~(a + i <= Len(s)) /\ (a + i) - Len(s) = i - (Len(s) - a)
      BY <1>1, <2>1, <2>4
    <3>2. u[i] = t[(a + i) - Len(s)]
      BY <1>1, <2>1, <2>2, <3>1
    <3>3. (r \o t)[i] = t[i - Len(r)]
      BY <1>2, <1>4, <2>1, <2>4
    <3>4. QED
      BY <1>2, <3>1, <3>2, <3>3
  <2>5. QED
    BY <2>3, <2>4
<1>6. Len(u) = Len(r \o t)
  BY <1>1, <1>3, <1>4
<1>7. u = r \o t
  BY <1>3, <1>4, <1>5, <1>6, SeqEqual
<1>8. QED
  BY <1>2, <1>3, <1>7

-----------------------------------------------------------------------------
(* The first k extents and the others. *)
LEMMA SplitAt ==
  ASSUME NEW exts \in Seq(Ext), NEW k \in 0 .. Len(exts)
  PROVE  /\ SubSeq(exts, 1, k) \in Seq(Ext) /\ SubSeq(exts, k + 1, Len(exts)) \in Seq(Ext)
         /\ exts = SubSeq(exts, 1, k) \o SubSeq(exts, k + 1, Len(exts))
         /\ Before(exts, k) \in Nat
         /\ Buffered(exts) = Before(exts, k) + Buffered(SubSeq(exts, k + 1, Len(exts)))
         /\ Before(exts, Len(exts)) = Buffered(exts)
         /\ Bytes(SubSeq(exts, k + 1, Len(exts))) = SubSeq(Bytes(exts), Before(exts, k) + 1, Buffered(exts))
<1>1. Len(exts) \in Nat /\ k \in Nat /\ k <= Len(exts)
  OBVIOUS
<1>2. PICK a \in Seq(Ext), b \in Seq(Ext) :
        a = SubSeq(exts, 1, k) /\ b = SubSeq(exts, k + 1, Len(exts)) /\ exts = a \o b
  <2>1. 0 \in 0 .. Len(exts) /\ k \in 0 .. Len(exts)
    BY <1>1
  <2>2. SubSeq(exts, 1, k) \in Seq(Ext) /\ SubSeq(exts, k + 1, Len(exts)) \in Seq(Ext)
    BY <1>1
  <2>3. SubSeq(exts, 1, k) \o SubSeq(exts, k + 1, Len(exts)) = SubSeq(exts, 1, Len(exts))
    <3>1. 1 \in 1 .. Len(exts) + 1 /\ k \in 1 - 1 .. Len(exts) /\ Len(exts) \in k .. Len(exts)
      BY <1>1
    <3>2. QED
      BY <3>1, ConcatAdjacentSubSeq
  <2>4. QED
    BY <2>2, <2>3, SubSeqFull
<1>3. PICK x \in Seq(WireByte), y \in Seq(WireByte) :
        /\ x = Bytes(a) /\ y = Bytes(b) /\ Bytes(exts) = x \o y
        /\ Len(x) = Buffered(a) /\ Len(y) = Buffered(b) /\ Len(x) \in Nat /\ Len(y) \in Nat
  <2>1. /\ Bytes(a) \in Seq(WireByte) /\ Bytes(b) \in Seq(WireByte)
        /\ Bytes(a \o b) = Bytes(a) \o Bytes(b)
    BY <1>2, BytesConcat, Zenon
  <2>2. /\ Len(Bytes(a)) = Buffered(a) /\ Len(Bytes(b)) = Buffered(b)
        /\ Buffered(a) \in Nat /\ Buffered(b) \in Nat
    BY <1>2, BytesLen, Zenon
  <2>3. QED BY <1>2, <2>1, <2>2
<1>4. Buffered(exts) = Len(x) + Len(y) /\ Before(exts, k) = Len(x)
  BY <1>2, <1>3, BufferedConcat DEF Before
<1>5. SubSeq(x \o y, Len(x) + 1, Len(x) + Len(y)) = y
  <2>1. Len(x) \in 0 .. Len(x)
    BY <1>3
  <2>2. SubSeq(x \o y, Len(x) + 1, Len(x) + Len(y)) = SubSeq(x, Len(x) + 1, Len(x)) \o y
    BY <2>1, RestOfConcat
  <2>3. SubSeq(x, Len(x) + 1, Len(x)) = <<>>
    BY <1>3, SubSeqEmpty
  <2>4. QED
    BY <2>2, <2>3, ConcatEmptySeq
<1>6. Before(exts, Len(exts)) = Buffered(exts)
  BY SubSeqFull DEF Before
<1>7. QED
  BY <1>2, <1>3, <1>4, <1>5, <1>6

(* The more extents, the more bytes. *)
LEMMA BeforeGrows ==
  ASSUME NEW exts \in Seq(Ext), NEW j \in 0 .. Len(exts), NEW k \in j .. Len(exts)
  PROVE  Before(exts, j) <= Before(exts, k)
<1>1. Len(exts) \in Nat /\ j \in Nat /\ k \in 0 .. Len(exts) /\ j <= k
  OBVIOUS
<1>2. SubSeq(exts, 1, j) \in Seq(Ext) /\ SubSeq(exts, j + 1, k) \in Seq(Ext)
  BY <1>1
<1>3. SubSeq(exts, 1, j) \o SubSeq(exts, j + 1, k) = SubSeq(exts, 1, k)
  <2>1. 1 \in 1 .. Len(exts) + 1 /\ j \in 1 - 1 .. Len(exts) /\ k \in j .. Len(exts)
    BY <1>1
  <2>2. QED
    BY <2>1, ConcatAdjacentSubSeq
<1>4. PICK m \in Nat, n \in Nat : m = Buffered(SubSeq(exts, 1, j)) /\ Buffered(SubSeq(exts, 1, k)) = m + n
  <2>1. PICK a \in Seq(Ext), b \in Seq(Ext) : a = SubSeq(exts, 1, j) /\ b = SubSeq(exts, j + 1, k)
    BY <1>2
  <2>2. Buffered(a) \in Nat /\ Buffered(b) \in Nat /\ Buffered(a \o b) = Buffered(a) + Buffered(b)
    BY <2>1, BufferedConcat, Zenon
  <2>3. QED BY <1>3, <2>1, <2>2, Zenon
<1>5. QED
  BY <1>4 DEF Before

(* More extents behind them are not before them. *)
LEMMA BeforeConcat ==
  ASSUME NEW a \in Seq(Ext), NEW b \in Seq(Ext), NEW k \in 0 .. Len(a)
  PROVE  Before(a \o b, k) = Before(a, k) /\ k \in 0 .. Len(a \o b)
<1>1. Len(a \o b) = Len(a) + Len(b) /\ Len(a) \in Nat /\ Len(b) \in Nat /\ k \in Nat /\ k <= Len(a)
  BY ConcatProperties, LenProperties
<1>2. SubSeq(a \o b, 1, k) = SubSeq(a, 1, k)
  <2>1. CASE k = 0
    BY <2>1, SubSeqEmpty
  <2>2. CASE k # 0
    <3>1. 1 \in 1 .. Len(a) /\ k \in 1 .. Len(a)
      BY <1>1, <2>2
    <3>2. QED
      BY <3>1, SubSeqOfConcat1
  <2>3. QED
    BY <2>1, <2>2
<1>3. k \in 0 .. Len(a \o b)
  BY <1>1
<1>4. QED
  BY <1>2, <1>3 DEF Before

(* The first place at which the extents reach offset. *)
LEMMA SkippedIs ==
  ASSUME NEW exts \in Seq(Ext), NEW offset \in Nat,
         NEW b \in 0 .. Len(exts), Before(exts, b) >= offset
  PROVE  /\ Skipped(exts, offset) \in 0 .. Len(exts)
         /\ Before(exts, Skipped(exts, offset)) \in Nat
         /\ Before(exts, Skipped(exts, offset)) >= offset
         /\ \A j \in 0 .. Skipped(exts, offset) - 1 : Before(exts, j) < offset
<1>2. Len(exts) \in Nat /\ \A k \in 0 .. Len(exts) : Before(exts, k) \in Nat
  <2>1. ASSUME NEW k \in 0 .. Len(exts)
        PROVE  Before(exts, k) \in Nat
    BY SplitAt
  <2>2. QED
    BY <2>1
<1> DEFINE Enough == {k \in 0 .. Len(exts) : Before(exts, k) >= offset}
<1>3. PICK m \in Enough : \A k \in Enough : m <= k
  <2>1. b \in Enough /\ Enough \subseteq Nat
    BY <1>2
  <2> HIDE DEF Enough
  <2>2. QED
    BY <2>1, SmallestOf
<1>4. \A j \in 0 .. m - 1 : Before(exts, j) < offset
  <2>1. ASSUME NEW j \in 0 .. m - 1
        PROVE  Before(exts, j) < offset
    <3>1. j \in 0 .. Len(exts) /\ ~(m <= j)
      BY <1>2
    <3>2. j \notin Enough
      BY <1>3, <3>1
    <3>3. QED
      BY <1>2, <3>1, <3>2
  <2>2. QED
    BY <2>1
<1> DEFINE k == Skipped(exts, offset)
<1>5. /\ k \in 0 .. Len(exts) /\ Before(exts, k) >= offset
      /\ \A j \in 0 .. k - 1 : Before(exts, j) < offset
  <2>1. \E i \in 0 .. Len(exts) : /\ Before(exts, i) >= offset
                                  /\ \A j \in 0 .. i - 1 : Before(exts, j) < offset
    BY <1>3, <1>4
  <2>2. QED
    BY <2>1, Zenon DEF Skipped
<1> HIDE DEF k
<1>6. QED
  BY <1>2, <1>5 DEF k

(***************************************************************************)
(* Where an extent begins, the iovec of Mqtt_SendPkt holds the rest of the *)
(* packet, neither a byte more nor a byte less.                            *)
(***************************************************************************)
LEMMA GatheredIsRest ==
  ASSUME NEW exts \in Seq(Ext), NEW offset \in Nat, OnBoundary(exts, offset)
  PROVE  Gathered(exts, offset) = SubSeq(Bytes(exts), offset + 1, Buffered(exts))
<1>1. PICK b \in 0 .. Len(exts) : Before(exts, b) = offset
  BY DEF OnBoundary
<1> DEFINE k == Skipped(exts, offset)
<1>2. Len(exts) \in Nat /\ Before(exts, k) \in Nat
  BY <1>1, SkippedIs
<1>5. /\ k \in 0 .. Len(exts) /\ Before(exts, k) >= offset
      /\ \A j \in 0 .. k - 1 : Before(exts, j) < offset
  BY <1>1, SkippedIs
<1> HIDE DEF k
<1>6. Before(exts, k) = offset
  <2>1. k <= b
    <3>1. SUFFICES ASSUME b < k
                   PROVE  FALSE
      BY <1>2, <1>5
    <3>2. b \in 0 .. k - 1
      BY <1>2, <1>5, <3>1
    <3>3. Before(exts, b) < offset
      BY <1>5, <3>2
    <3>4. QED
      BY <1>1, <3>3
  <2>2. Before(exts, k) <= Before(exts, b)
    <3>1. b \in k .. Len(exts)
      BY <1>2, <1>5, <2>1
    <3>2. QED
      BY <1>5, <3>1, BeforeGrows
  <2>3. QED
    BY <1>1, <1>2, <1>5, <2>2
<1> DEFINE rest == SubSeq(exts, k + 1, Len(exts))
<1>7. /\ rest \in Seq(Ext) /\ Buffered(exts) = offset + Buffered(rest)
      /\ Bytes(rest) = SubSeq(Bytes(exts), offset + 1, Buffered(exts))
      /\ Before(exts, Len(exts)) = Buffered(exts) /\ Buffered(exts) \in Nat
  BY <1>5, <1>6, SplitAt, BufferedConcat
<1> HIDE DEF rest
<1>8. CASE offset >= Buffered(exts) \/ k = Len(exts)
  <2>1. Gathered(exts, offset) = <<>>
    BY <1>8 DEF Gathered, k
  <2>2. Buffered(exts) < offset + 1
    BY <1>6, <1>7, <1>8
  <2>3. SubSeq(Bytes(exts), offset + 1, Buffered(exts)) = <<>>
    BY <1>7, <2>2, SubSeqEmpty
  <2>4. QED
    BY <2>1, <2>3
<1>9. CASE ~(offset >= Buffered(exts) \/ k = Len(exts))
  <2>1. Gathered(exts, offset) = [i \in 1 .. Before(exts, k) - offset |-> HeaderByte] \o Bytes(rest)
    BY <1>9 DEF Gathered, k, rest
  <2>2. Before(exts, k) - offset = 0
    BY <1>6
  <2>3. [i \in 1 .. 0 |-> HeaderByte] = <<>>
    OBVIOUS
  <2>4. <<>> \o Bytes(rest) = Bytes(rest)
    BY <1>7, BytesLen, ConcatEmptySeq
  <2>5. QED
    BY <1>7, <2>1, <2>2, <2>3, <2>4
<1>10. QED
  BY <1>8, <1>9

(* Anywhere, it holds bytes. *)
LEMMA GatheredSeq ==
  ASSUME NEW exts \in Seq(Ext), NEW offset \in Nat, offset <= Buffered(exts)
  PROVE  Gathered(exts, offset) \in Seq(WireByte)
<1>1. Len(exts) \in 0 .. Len(exts) /\ Before(exts, Len(exts)) = Buffered(exts) /\ Buffered(exts) \in Nat
  <2>1. Len(exts) \in 0 .. Len(exts)
    BY LenProperties
  <2>2. QED
    BY <2>1, SplitAt, BytesLen
<1> DEFINE k == Skipped(exts, offset)
<1>2. k \in 0 .. Len(exts) /\ Before(exts, k) \in Nat /\ Before(exts, k) >= offset
  BY <1>1, SkippedIs
<1>3. Bytes(SubSeq(exts, k + 1, Len(exts))) \in Seq(WireByte)
  <2>1. SubSeq(exts, k + 1, Len(exts)) \in Seq(Ext)
    BY <1>2, SplitAt
  <2>2. QED
    BY <2>1, BytesLen
<1>4. Before(exts, k) - offset \in Nat
  BY <1>2
<1>5. HeaderByte \in WireByte
  BY DEF HeaderByte, WireByte
<1>6. [i \in 1 .. Before(exts, k) - offset |-> HeaderByte] \in Seq(WireByte)
  BY <1>4, <1>5
<1>7. [i \in 1 .. Before(exts, k) - offset |-> HeaderByte] \o Bytes(SubSeq(exts, k + 1, Len(exts))) \in Seq(WireByte)
  BY <1>3, <1>6, ConcatProperties
<1>8. Gathered(exts, offset) \in {<<>>, [i \in 1 .. Before(exts, k) - offset |-> HeaderByte] \o Bytes(SubSeq(exts, k + 1, Len(exts)))}
  BY DEF Gathered
<1>9. <<>> \in Seq(WireByte)
  BY EmptySeq
<1>10. QED
  BY <1>7, <1>8, <1>9

-----------------------------------------------------------------------------
(***************************************************************************)
(* The inductive invariant.                                                *)
(***************************************************************************)
ControlTypes ==
  /\ typed \in Commands \cup {"none"}
  /\ typedN \in Nat
  /\ inputs \in Nat
  /\ incoming \in Seq({"ack me", "command", "other"})
  /\ eof \in BOOLEAN
  /\ fd \in {"none", "open", "closed"}
  /\ interest \subseteq {"in", "out"}
  /\ oneshot \in BOOLEAN
  /\ batch \in Seq(SUBSET {"stdin", "in", "out"})
  /\ Len(batch) <= 2
  /\ pc \in {"main", "recv", "out", "exit"}
  /\ faults \subseteq {"split", "mixed", "discarded", "early", "cut off", "unwatched"}

(* MqttSample_HandleSocket handles an event that epoll_wait has returned. *)
Handling == pc \in {"recv", "out"} => batch # <<>>

DataTypes ==
  /\ mqttbuf \in Seq(Ext)
  /\ sended \in -1 .. Buffered(mqttbuf)
  /\ packed \in Nat
  /\ wire \in Seq(WireByte)
  /\ due \in Seq(WireByte)

(* While nothing is being sent, only replies are in the buffer, whatever the
   client is doing. *)
RepliesOnly == sended = -1 => \A i \in DOMAIN mqttbuf : mqttbuf[i].kind = "cmdret"

(* A packet half sent goes on where an extent begins, or it was split. *)
AtBoundary == (sended # -1 /\ "split" \notin faults) => OnBoundary(mqttbuf, sended)

DataInv == DataTypes /\ RepliesOnly /\ AtBoundary /\ WireExact

(* What a step must do to the bytes that it does not handle. *)
LEMMA BytesAlone ==
  ASSUME DataInv, UNCHANGED out, faults \subseteq faults',
         (fd' = "open" /\ pc' # "exit") => (fd = "open" /\ pc # "exit")
  PROVE  DataInv'
<1>1. /\ mqttbuf' = mqttbuf /\ sended' = sended /\ packed' = packed /\ wire' = wire /\ due' = due
  BY DEF out
<1>2. DataTypes' /\ RepliesOnly'
  BY <1>1 DEF DataInv, DataTypes, RepliesOnly
<1>3. AtBoundary'
  BY <1>1 DEF DataInv, AtBoundary
<1>4. Unsent' = Unsent
  BY <1>1 DEF Unsent
<1>5. WireExact'
  <2>1. SUFFICES ASSUME fd' = "open", pc' # "exit", faults' \cap {"split", "mixed"} = {}
                 PROVE  wire' \o Unsent' = due'
    BY DEF WireExact
  <2>2. faults \cap {"split", "mixed"} = {}
    BY <2>1
  <2>3. QED
    BY <1>1, <1>4, <2>1, <2>2 DEF DataInv, WireExact
<1>6. QED
  BY <1>2, <1>3, <1>5 DEF DataInv

-----------------------------------------------------------------------------
(* What a command leaves in mqttbuf to be sent. *)
LEMMA PackedByIs ==
  ASSUME DataTypes, NEW c \in Commands \ {"exit"}
  PROVE  /\ PackedBy(c) \in Seq(Ext)
         /\ Counted(c) \in Nat
<1>1. mqttbuf \in Seq(Ext) /\ packed \in Nat
  BY DEF DataTypes
<1>2. CASE c = "help"
  BY <1>1, <1>2 DEF PackedBy, Counted
<1>3. CASE c # "help"
  <2>1. c \in Kinds
    BY <1>3 DEF Commands, Kinds
  <2>2. Extents(c) \in Seq(Ext)
    BY <1>1, <2>1, ExtentsAre
  <2>3. mqttbuf \o Extents(c) \in Seq(Ext)
    BY <1>1, <2>2, ConcatProperties
  <2>4. PackedBy(c) \in {Extents(c), mqttbuf \o Extents(c)}
    BY <1>3 DEF PackedBy, PackAnew, PackBehind
  <2>5. Counted(c) = packed + 1
    BY <1>3 DEF Counted
  <2>6. PackedBy(c) \in Seq(Ext)
    BY <2>2, <2>3, <2>4, Zenon
  <2>7. QED
    BY <1>1, <2>5, <2>6
<1>4. QED
  BY <1>2, <1>3

(* What is on the connection that the command writes to, and what is due on
   it, agree before it writes. *)
LEMMA StdinBase ==
  ASSUME DataInv, sended = -1, NEW c \in Commands \ {"exit"}, pc = "main"
  PROVE  \E w \in Seq(WireByte), d \in Seq(WireByte) :
           /\ w = (IF c = "connect" THEN <<>> ELSE wire)
           /\ d = (IF c = "connect" THEN <<>> ELSE due)
           /\ (Sock(c) = "open" /\ faults \cap {"split", "mixed"} = {}) => w = d
<1>1. wire \in Seq(WireByte) /\ due \in Seq(WireByte) /\ <<>> \in Seq(WireByte)
  BY EmptySeq DEF DataInv, DataTypes
<1>2. CASE c = "connect"
  BY <1>1, <1>2
<1>3. CASE c # "connect"
  <2>1. Unsent = <<>> /\ wire \o <<>> = wire
    BY <1>1, ConcatEmptySeq DEF Unsent
  <2>2. (Sock(c) = "open" /\ faults \cap {"split", "mixed"} = {}) => wire = due
    BY <1>3, <2>1 DEF Sock, DataInv, WireExact
  <2>3. QED
    BY <1>1, <1>3, <2>2
<1>4. QED
  BY <1>2, <1>3

LEMMA StdinSentStep ==
  ASSUME DataInv, NEW c \in Commands \ {"exit"}, StdinSent(c)
  PROVE  DataInv'
<1>1. /\ sended = -1 /\ sended' = -1 /\ pc = "main" /\ pc' = "main" /\ mqttbuf' = <<>>
      /\ packed' = Counted(c) /\ faults' = faults \cup CommandFaults(c)
      /\ due' = (IF c = "connect" THEN <<>> ELSE due) \o Bytes(PackedBy(c))
      /\ wire' = (IF c = "connect" THEN <<>> ELSE wire) \o Bytes(PackedBy(c))
  BY DEF StdinSent, Execute, AtStdin, DueBy
<1>2. fd' = "open" => Sock(c) = "open"
  <2>1. CASE c = "disconnect"
    BY <2>1 DEF StdinSent
  <2>2. CASE c # "disconnect"
    BY <2>2 DEF StdinSent, Sock
  <2>3. QED
    BY <2>1, <2>2
<1>3. PICK w \in Seq(WireByte), d \in Seq(WireByte) :
        /\ w = (IF c = "connect" THEN <<>> ELSE wire)
        /\ d = (IF c = "connect" THEN <<>> ELSE due)
        /\ (Sock(c) = "open" /\ faults \cap {"split", "mixed"} = {}) => w = d
  BY <1>1, StdinBase
<1>4. PICK b \in Seq(WireByte) : b = Bytes(PackedBy(c))
  BY PackedByIs, BytesLen DEF DataInv
<1>5. wire' = w \o b /\ due' = d \o b /\ wire' \in Seq(WireByte) /\ due' \in Seq(WireByte)
  <2>1. w \o b \in Seq(WireByte) /\ d \o b \in Seq(WireByte)
    BY ConcatProperties
  <2>2. QED
    BY <1>1, <1>3, <1>4, <2>1
<1>6. DataTypes'
  <2>1. packed' \in Nat
    BY <1>1, PackedByIs DEF DataInv
  <2>2. mqttbuf' \in Seq(Ext) /\ Buffered(mqttbuf') = 0
    BY <1>1, EmptySeq, BufferedNone
  <2>3. sended' \in -1 .. Buffered(mqttbuf')
    BY <1>1, <2>2
  <2>4. QED
    BY <1>5, <2>1, <2>2, <2>3 DEF DataTypes
<1>7. RepliesOnly' /\ AtBoundary'
  <2>1. \A i \in DOMAIN mqttbuf' : FALSE
    BY <1>1
  <2>2. QED
    BY <1>1, <2>1 DEF RepliesOnly, AtBoundary
<1>8. WireExact'
  <2>1. Unsent' = <<>>
    BY <1>1 DEF Unsent
  <2>2. (w \o b) \o <<>> = w \o b
    <3>1. w \o b \in Seq(WireByte)
      BY ConcatProperties
    <3>2. QED
      BY <3>1, ConcatEmptySeq
  <2>3. SUFFICES ASSUME fd' = "open", faults' \cap {"split", "mixed"} = {}
                 PROVE  wire' \o Unsent' = due'
    BY DEF WireExact
  <2>4. faults \cap {"split", "mixed"} = {}
    BY <1>1, <2>3
  <2>5. w = d
    BY <1>2, <1>3, <2>3, <2>4
  <2>6. QED
    BY <1>5, <2>1, <2>2, <2>5
<1>9. QED
  BY <1>6, <1>7, <1>8 DEF DataInv

LEMMA StdinPartStep ==
  ASSUME DataInv, NEW c \in Commands \ {"exit"}, NEW n \in 1 .. Buffered(PackedBy(c)), StdinPart(c, n)
  PROVE  DataInv'
<1> DEFINE p == PackedBy(c)
<1>1. /\ sended = -1 /\ sended' = n /\ pc = "main" /\ pc' = "main" /\ mqttbuf' = p
      /\ packed' = Counted(c) /\ n < Buffered(p)
      /\ faults' = faults \cup CommandFaults(c) \cup (IF OnBoundary(p, n) THEN {} ELSE {"split"})
      /\ due' = (IF c = "connect" THEN <<>> ELSE due) \o Bytes(p)
      /\ wire' = (IF c = "connect" THEN <<>> ELSE wire) \o SubSeq(Bytes(p), 1, n)
      /\ Sock(c) = "open"
  BY DEF StdinPart, Execute, AtStdin, DueBy
<1>2. PICK w \in Seq(WireByte), d \in Seq(WireByte) :
        /\ w = (IF c = "connect" THEN <<>> ELSE wire)
        /\ d = (IF c = "connect" THEN <<>> ELSE due)
        /\ (Sock(c) = "open" /\ faults \cap {"split", "mixed"} = {}) => w = d
  BY <1>1, StdinBase
<1>3. p \in Seq(Ext) /\ Counted(c) \in Nat
  BY PackedByIs DEF DataInv
<1>4. PICK b \in Seq(WireByte) : b = Bytes(p) /\ Len(b) = Buffered(p) /\ Buffered(p) \in Nat
  BY <1>3, BytesLen
<1> HIDE DEF p
<1>5. n \in Nat \ {0} /\ n <= Len(b)
  BY <1>1, <1>4 DEF p
<1>6. PICK x \in Seq(WireByte), y \in Seq(WireByte) :
        x = SubSeq(b, 1, n) /\ y = SubSeq(b, n + 1, Len(b)) /\ x \o y = b
  <2>1. 0 \in 0 .. Len(b) /\ n \in 0 .. Len(b) /\ 0 + 1 = 1
    BY <1>5
  <2>2. SubSeq(b, 1, n) \in Seq(WireByte) /\ SubSeq(b, n + 1, Len(b)) \in Seq(WireByte)
    BY <1>5
  <2>3. SubSeq(b, 1, n) \o SubSeq(b, n + 1, Len(b)) = SubSeq(b, 1, Len(b))
    <3>1. 1 \in 1 .. Len(b) + 1 /\ n \in 1 - 1 .. Len(b) /\ Len(b) \in n .. Len(b)
      BY <1>5
    <3>2. QED
      BY <3>1, ConcatAdjacentSubSeq
  <2>4. QED
    BY <2>2, <2>3, SubSeqFull
<1>7. wire' = w \o x /\ due' = d \o b /\ wire' \in Seq(WireByte) /\ due' \in Seq(WireByte)
  <2>1. w \o x \in Seq(WireByte) /\ d \o b \in Seq(WireByte)
    BY ConcatProperties
  <2>2. QED
    BY <1>1, <1>2, <1>4, <1>6, <2>1
<1>8. DataTypes'
  <2>1. sended' \in -1 .. Buffered(mqttbuf')
    BY <1>1, <1>4, <1>5
  <2>2. QED
    BY <1>1, <1>3, <1>7, <2>1 DEF DataTypes
<1>9. RepliesOnly' /\ AtBoundary'
  <2>1. sended' # -1
    BY <1>1, <1>5
  <2>2. "split" \notin faults' => OnBoundary(p, n)
    BY <1>1
  <2>3. QED
    BY <1>1, <2>1, <2>2 DEF RepliesOnly, AtBoundary
<1>10. WireExact'
  <2>1. Unsent' = y
    <3>1. sended' # -1
      BY <1>1, <1>5
    <3>2. Unsent' = SubSeq(Bytes(mqttbuf'), sended' + 1, Buffered(mqttbuf'))
      BY <3>1 DEF Unsent
    <3>3. QED
      BY <1>1, <1>4, <1>6, <3>2
  <2>2. (w \o x) \o y = w \o (x \o y)
    BY WireAssociative, SMTT(60)
  <2>3. SUFFICES ASSUME fd' = "open", faults' \cap {"split", "mixed"} = {}
                 PROVE  wire' \o Unsent' = due'
    BY DEF WireExact
  <2>4. faults \cap {"split", "mixed"} = {}
    BY <1>1, <2>3
  <2>5. w = d
    BY <1>1, <1>2, <2>4
  <2>6. QED
    BY <1>6, <1>7, <2>1, <2>2, <2>5
<1>11. QED
  BY <1>8, <1>9, <1>10 DEF DataInv

LEMMA StdinUnpackedStep ==
  ASSUME DataInv, StdinUnpacked
  PROVE  DataInv'
<1>1. /\ sended = -1 /\ sended' = -1 /\ mqttbuf' = <<>> /\ packed' = packed /\ wire' = wire /\ due' = due
      /\ fd' = fd /\ pc' = pc /\ faults \subseteq faults'
  BY DEF StdinUnpacked
<1>2. DataTypes'
  <2>1. mqttbuf' \in Seq(Ext) /\ Buffered(mqttbuf') = 0
    BY <1>1, EmptySeq, BufferedNone
  <2>2. sended' \in -1 .. Buffered(mqttbuf')
    BY <1>1, <2>1
  <2>3. QED
    BY <1>1, <2>1, <2>2 DEF DataInv, DataTypes
<1>3. RepliesOnly' /\ AtBoundary'
  <2>1. \A i \in DOMAIN mqttbuf' : FALSE
    BY <1>1
  <2>2. QED
    BY <1>1, <2>1 DEF RepliesOnly, AtBoundary
<1>4. Unsent = <<>> /\ Unsent' = <<>>
  BY <1>1 DEF Unsent
<1>5. WireExact'
  <2>1. SUFFICES ASSUME fd' = "open", pc' # "exit", faults' \cap {"split", "mixed"} = {}
                 PROVE  wire' \o Unsent' = due'
    BY DEF WireExact
  <2>2. faults \cap {"split", "mixed"} = {}
    BY <1>1, <2>1
  <2>3. QED
    BY <1>1, <1>4, <2>1, <2>2 DEF DataInv, WireExact
<1>6. QED
  BY <1>2, <1>3, <1>5 DEF DataInv

-----------------------------------------------------------------------------
(* A packet from the server: the answer is written behind what is there, the
   reply is packed behind what is being sent. *)
LEMMA RecvAnsweredStep ==
  ASSUME DataInv, RecvAnswered, fd' = fd, pc' = pc
  PROVE  DataInv'
<1>1. /\ wire' = Append(wire, AckByte) /\ due' = Append(due, AckByte)
      /\ mqttbuf' = mqttbuf /\ sended' = sended /\ packed' = packed
      /\ faults' = IF sended # -1 THEN faults \cup {"mixed"} ELSE faults
  BY DEF RecvAnswered
<1>2. AckByte \in WireByte /\ wire \in Seq(WireByte) /\ due \in Seq(WireByte)
  BY DEF AckByte, WireByte, DataInv, DataTypes
<1>3. wire' \in Seq(WireByte) /\ due' \in Seq(WireByte)
  BY <1>1, <1>2, AppendProperties
<1>4. DataTypes' /\ RepliesOnly'
  BY <1>1, <1>3 DEF DataInv, DataTypes, RepliesOnly
<1>5. AtBoundary'
  BY <1>1 DEF DataInv, AtBoundary
<1>6. WireExact'
  <2>1. SUFFICES ASSUME fd = "open", pc # "exit", faults' \cap {"split", "mixed"} = {}
                 PROVE  wire' \o Unsent' = due'
    BY DEF WireExact
  <2>2. sended = -1 /\ faults \cap {"split", "mixed"} = {}
    BY <1>1, <2>1
  <2>3. Unsent = <<>> /\ Unsent' = <<>>
    BY <1>1, <2>2 DEF Unsent
  <2>4. wire \o <<>> = wire /\ wire' \o <<>> = wire'
    BY <1>2, <1>3, ConcatEmptySeq
  <2>5. wire = due
    BY <2>1, <2>2, <2>3, <2>4 DEF DataInv, WireExact
  <2>6. QED
    BY <1>1, <2>3, <2>4, <2>5
<1>7. QED
  BY <1>4, <1>5, <1>6 DEF DataInv

LEMMA RecvCommandStep ==
  ASSUME DataInv, RecvCommand, fd' = fd, pc' = pc
  PROVE  DataInv'
<1> DEFINE reply == Extents("cmdret")
<1>1. /\ mqttbuf' = mqttbuf \o reply /\ packed' = packed + 1
      /\ due' = IF sended # -1 THEN due \o Bytes(reply) ELSE due
      /\ sended' = sended /\ wire' = wire /\ faults' = faults
  BY DEF RecvCommand
<1>2. /\ mqttbuf \in Seq(Ext) /\ packed \in Nat /\ wire \in Seq(WireByte) /\ due \in Seq(WireByte)
      /\ sended \in -1 .. Buffered(mqttbuf)
  BY DEF DataInv, DataTypes
<1>3. reply \in Seq(Ext) /\ \A i \in DOMAIN reply : reply[i].kind = "cmdret"
  BY <1>2, ExtentsAre DEF Kinds
<1> HIDE DEF reply
<1>4. PICK b \in Seq(WireByte), r \in Seq(WireByte) :
        /\ b = Bytes(mqttbuf) /\ Len(b) = Buffered(mqttbuf)
        /\ r = Bytes(reply) /\ Len(r) = Buffered(reply)
        /\ Bytes(mqttbuf \o reply) = b \o r /\ Buffered(mqttbuf \o reply) = Len(b) + Len(r)
        /\ Len(b) \in Nat /\ Len(r) \in Nat
  <2>1. mqttbuf \in Seq(Ext)
    BY <1>2
  <2>2. /\ Bytes(mqttbuf) \in Seq(WireByte) /\ Bytes(reply) \in Seq(WireByte)
        /\ Bytes(mqttbuf \o reply) = Bytes(mqttbuf) \o Bytes(reply)
    BY <1>3, <2>1, BytesConcat, Zenon
  <2>3. /\ Len(Bytes(mqttbuf)) = Buffered(mqttbuf) /\ Len(Bytes(reply)) = Buffered(reply)
        /\ Buffered(mqttbuf) \in Nat /\ Buffered(reply) \in Nat
    BY <1>3, <2>1, BytesLen, Zenon
  <2>4. Buffered(mqttbuf \o reply) = Buffered(mqttbuf) + Buffered(reply)
    BY <1>3, <2>1, BufferedConcat, Zenon
  <2>5. QED BY <2>2, <2>3, <2>4
<1>5. mqttbuf' \in Seq(Ext)
  BY <1>1, <1>2, <1>3, ConcatProperties
<1>6. DataTypes'
  <2>1. due' \in Seq(WireByte)
    <3>1. due \o r \in Seq(WireByte)
      BY <1>2, ConcatProperties
    <3>2. QED
      BY <1>1, <1>2, <1>4, <3>1
  <2>2. sended' \in -1 .. Buffered(mqttbuf')
    BY <1>1, <1>2, <1>4
  <2>3. QED
    BY <1>1, <1>2, <1>5, <2>1, <2>2 DEF DataTypes
<1>7. RepliesOnly'
  <2>1. SUFFICES ASSUME sended = -1, NEW i \in DOMAIN (mqttbuf \o reply)
                 PROVE  (mqttbuf \o reply)[i].kind = "cmdret"
    BY <1>1 DEF RepliesOnly
  <2>2. /\ Len(mqttbuf \o reply) = Len(mqttbuf) + Len(reply) /\ Len(mqttbuf) \in Nat /\ Len(reply) \in Nat
        /\ DOMAIN (mqttbuf \o reply) = 1 .. Len(mqttbuf) + Len(reply)
        /\ DOMAIN mqttbuf = 1 .. Len(mqttbuf) /\ DOMAIN reply = 1 .. Len(reply)
        /\ \A j \in 1 .. Len(mqttbuf) + Len(reply) :
             (mqttbuf \o reply)[j] = IF j <= Len(mqttbuf) THEN mqttbuf[j] ELSE reply[j - Len(mqttbuf)]
    BY <1>2, <1>3, ConcatProperties, LenProperties
  <2>3. CASE i <= Len(mqttbuf)
    <3>1. i \in DOMAIN mqttbuf /\ (mqttbuf \o reply)[i] = mqttbuf[i]
      BY <2>1, <2>2, <2>3
    <3>2. QED
      BY <2>1, <3>1 DEF DataInv, RepliesOnly
  <2>4. CASE ~(i <= Len(mqttbuf))
    <3>1. i - Len(mqttbuf) \in DOMAIN reply
      BY <2>1, <2>2, <2>4
    <3>2. (mqttbuf \o reply)[i] = reply[i - Len(mqttbuf)]
      BY <2>1, <2>2, <2>4
    <3>3. QED
      BY <1>3, <3>1, <3>2
  <2>5. QED
    BY <2>3, <2>4
<1>8. AtBoundary'
  <2>1. SUFFICES ASSUME sended # -1, "split" \notin faults
                 PROVE  OnBoundary(mqttbuf \o reply, sended)
    BY <1>1 DEF AtBoundary
  <2>2. PICK k \in 0 .. Len(mqttbuf) : Before(mqttbuf, k) = sended
    BY <2>1 DEF DataInv, AtBoundary, OnBoundary
  <2>3. Before(mqttbuf \o reply, k) = sended /\ k \in 0 .. Len(mqttbuf \o reply)
    BY <1>2, <1>3, <2>2, BeforeConcat
  <2>4. QED
    BY <2>3 DEF OnBoundary
<1>9. WireExact'
  <2>1. SUFFICES ASSUME fd = "open", pc # "exit", faults \cap {"split", "mixed"} = {}
                 PROVE  wire' \o Unsent' = due'
    BY <1>1 DEF WireExact
  <2>2. wire \o Unsent = due
    BY <2>1 DEF DataInv, WireExact
  <2>3. CASE sended = -1
    BY <1>1, <2>2, <2>3 DEF Unsent
  <2>4. CASE sended # -1
    <3>1. sended \in 0 .. Len(b)
      BY <1>2, <1>4, <2>4
    <3>2. PICK u \in Seq(WireByte) : u = SubSeq(b, sended + 1, Len(b))
      BY <3>1, DropFirst
    <3>3. Unsent = u
      BY <1>4, <2>4, <3>2 DEF Unsent
    <3>4. Unsent' = SubSeq(b \o r, sended + 1, Len(b) + Len(r))
      BY <1>1, <1>4, <2>4 DEF Unsent
    <3>5. Unsent' = u \o r
      BY <3>1, <3>2, <3>4, RestOfConcat
    <3>6. (wire \o u) \o r = wire \o (u \o r)
      <4>1. PICK v \in Seq(WireByte) : v = wire
        BY <1>2
      <4>2. (v \o u) \o r = v \o (u \o r)
        BY WireAssociative, SMTT(60)
      <4>3. QED BY <4>1, <4>2
    <3>7. QED
      BY <1>1, <1>4, <2>2, <2>4, <3>3, <3>5, <3>6
  <2>5. QED
    BY <2>3, <2>4
<1>10. QED
  BY <1>6, <1>7, <1>8, <1>9 DEF DataInv

-----------------------------------------------------------------------------
(* Sending on: what the iovec holds is what is left. *)
LEMMA OutGathered ==
  ASSUME DataInv, sended # -1
  PROVE  /\ sended \in Nat /\ sended <= Buffered(mqttbuf)
         /\ Gathered(mqttbuf, sended) \in Seq(WireByte)
         /\ "split" \notin faults => Gathered(mqttbuf, sended) = Unsent
<1>1. mqttbuf \in Seq(Ext) /\ sended \in -1 .. Buffered(mqttbuf)
  BY DEF DataInv, DataTypes
<1>2. Buffered(mqttbuf) \in Nat
  BY <1>1, BytesLen
<1>3. sended \in Nat /\ sended <= Buffered(mqttbuf)
  BY <1>1, <1>2
<1>4. Gathered(mqttbuf, sended) \in Seq(WireByte)
  BY <1>1, <1>3, GatheredSeq
<1>5. ASSUME "split" \notin faults
      PROVE  Gathered(mqttbuf, sended) = Unsent
  <2>1. OnBoundary(mqttbuf, sended)
    BY <1>5 DEF DataInv, AtBoundary
  <2>2. Gathered(mqttbuf, sended) = SubSeq(Bytes(mqttbuf), sended + 1, Buffered(mqttbuf))
    BY <1>1, <1>3, <2>1, GatheredIsRest
  <2>3. QED
    BY <2>2 DEF Unsent
<1>6. QED
  BY <1>3, <1>4, <1>5

LEMMA OutPartStep ==
  ASSUME DataInv, NEW n \in 0 .. Buffered(mqttbuf), OutPart(n)
  PROVE  DataInv'
<1>1. /\ sended # -1 /\ n <= Len(Gathered(mqttbuf, sended)) /\ n < Buffered(mqttbuf) - sended
      /\ wire' = wire \o SubSeq(Gathered(mqttbuf, sended), 1, n) /\ sended' = sended + n
      /\ mqttbuf' = mqttbuf /\ packed' = packed /\ due' = due
      /\ faults' = faults \cup (IF OnBoundary(mqttbuf, sended + n) THEN {} ELSE {"split"})
      /\ fd' = fd /\ pc' = "main" /\ pc = "out"
  BY DEF OutPart, Sending, Rewatch
<1>2. PICK g \in Seq(WireByte) : g = Gathered(mqttbuf, sended)
  BY <1>1, OutGathered
<1>3. /\ sended \in Nat /\ sended <= Buffered(mqttbuf) /\ ("split" \notin faults => g = Unsent)
      /\ mqttbuf \in Seq(Ext) /\ wire \in Seq(WireByte) /\ due \in Seq(WireByte) /\ packed \in Nat
  BY <1>1, <1>2, OutGathered DEF DataInv, DataTypes
<1>4. PICK b \in Seq(WireByte) : b = Bytes(mqttbuf) /\ Len(b) = Buffered(mqttbuf) /\ Len(b) \in Nat
  BY <1>3, BytesLen
<1>5. n \in Nat /\ n <= Len(g) /\ sended + n <= Len(b) /\ sended + n \in Nat /\ sended + n # -1
  BY <1>1, <1>2, <1>3, <1>4
<1>6. wire' \in Seq(WireByte)
  <2>1. SubSeq(g, 1, n) \in Seq(WireByte)
    BY <1>5
  <2>2. wire \o SubSeq(g, 1, n) \in Seq(WireByte)
    BY <1>3, <2>1, ConcatProperties
  <2>3. QED
    BY <1>1, <1>2, <2>2
<1>7. DataTypes'
  <2>1. sended' \in -1 .. Buffered(mqttbuf')
    BY <1>1, <1>4, <1>5
  <2>2. QED
    BY <1>1, <1>3, <1>6, <2>1 DEF DataTypes
<1>8. RepliesOnly' /\ AtBoundary'
  BY <1>1, <1>5 DEF RepliesOnly, AtBoundary
<1>9. WireExact'
  <2>1. SUFFICES ASSUME fd = "open", faults' \cap {"split", "mixed"} = {}
                 PROVE  wire' \o Unsent' = due
    BY <1>1 DEF WireExact
  <2>2. faults \cap {"split", "mixed"} = {} /\ "split" \notin faults
    BY <1>1, <2>1
  <2>3. wire \o g = due
    BY <1>1, <1>3, <2>1, <2>2 DEF DataInv, WireExact
  <2>4. g = SubSeq(b, sended + 1, Len(b))
    BY <1>1, <1>3, <1>4, <2>2 DEF Unsent
  <2>5. sended \in 0 .. Len(b) /\ sended + n \in sended .. Len(b) /\ (sended + n) - sended = n
    BY <1>3, <1>4, <1>5
  <2>6. PICK x \in Seq(WireByte), y \in Seq(WireByte) :
          x = SubSeq(b, sended + 1, sended + n) /\ y = SubSeq(b, (sended + n) + 1, Len(b))
    <3>1. SubSeq(b, sended + 1, sended + n) \in Seq(WireByte)
      BY <2>5, RestOf
    <3>2. sended + n \in 0 .. Len(b)
      BY <1>5
    <3>3. SubSeq(b, (sended + n) + 1, Len(b)) \in Seq(WireByte)
      BY <3>2, DropFirst
    <3>4. QED
      BY <3>1, <3>3
  <2>7. x \o y = g /\ SubSeq(g, 1, n) = x
    <3>1. /\ SubSeq(SubSeq(b, sended + 1, Len(b)), 1, (sended + n) - sended) = SubSeq(b, sended + 1, sended + n)
          /\ SubSeq(b, sended + 1, sended + n) \o SubSeq(b, (sended + n) + 1, Len(b)) = SubSeq(b, sended + 1, Len(b))
      BY <2>5, RestOf
    <3>2. QED
      BY <2>4, <2>5, <2>6, <3>1
  <2>8. Unsent' = y
    <3>1. Unsent' = SubSeq(Bytes(mqttbuf'), sended' + 1, Buffered(mqttbuf'))
      BY <1>1, <1>5 DEF Unsent
    <3>2. QED
      BY <1>1, <1>4, <2>6, <3>1
  <2>9. PICK v \in Seq(WireByte) : v = wire
    BY <1>3
  <2>10. (v \o x) \o y = v \o (x \o y)
    BY WireAssociative, SMTT(60)
  <2>11. wire' \o Unsent' = (v \o x) \o y
    BY <1>1, <1>2, <2>7, <2>8, <2>9
  <2>12. QED
    BY <2>3, <2>7, <2>9, <2>10, <2>11
<1>10. QED
  BY <1>7, <1>8, <1>9 DEF DataInv

LEMMA OutDoneStep ==
  ASSUME DataInv, OutDone
  PROVE  DataInv'
<1>1. /\ sended # -1 /\ wire' = wire \o Gathered(mqttbuf, sended) /\ sended' = -1 /\ mqttbuf' = <<>>
      /\ packed' = packed /\ due' = due /\ faults' = faults /\ fd' = fd /\ pc = "out" /\ pc' = "main"
  BY DEF OutDone, Sending, Rewatch
<1>2. PICK g \in Seq(WireByte) : g = Gathered(mqttbuf, sended) /\ ("split" \notin faults => g = Unsent)
  BY <1>1, OutGathered
<1>3. wire \in Seq(WireByte) /\ due \in Seq(WireByte) /\ packed \in Nat
  BY DEF DataInv, DataTypes
<1>4. wire' \in Seq(WireByte)
  BY <1>1, <1>2, <1>3, ConcatProperties
<1>5. DataTypes'
  <2>1. mqttbuf' \in Seq(Ext) /\ Buffered(mqttbuf') = 0
    BY <1>1, EmptySeq, BufferedNone
  <2>2. sended' \in -1 .. Buffered(mqttbuf')
    BY <1>1, <2>1
  <2>3. QED
    BY <1>1, <1>3, <1>4, <2>1, <2>2 DEF DataTypes
<1>6. RepliesOnly' /\ AtBoundary'
  <2>1. \A i \in DOMAIN mqttbuf' : FALSE
    BY <1>1
  <2>2. QED
    BY <1>1, <2>1 DEF RepliesOnly, AtBoundary
<1>7. WireExact'
  <2>1. SUFFICES ASSUME fd = "open", faults \cap {"split", "mixed"} = {}
                 PROVE  wire' \o Unsent' = due
    BY <1>1 DEF WireExact
  <2>2. wire \o g = due
    BY <1>1, <1>2, <2>1 DEF DataInv, WireExact
  <2>3. Unsent' = <<>> /\ wire' \o <<>> = wire'
    BY <1>1, <1>4, ConcatEmptySeq DEF Unsent
  <2>4. QED
    BY <1>1, <1>2, <2>2, <2>3
<1>8. QED
  BY <1>5, <1>6, <1>7 DEF DataInv

-----------------------------------------------------------------------------
(* Every step keeps the bytes. *)
LEMMA DataStep ==
  ASSUME DataInv, ControlTypes, [Next]_vars
  PROVE  DataInv'
<1>1. ASSUME NEW c \in Commands, Type(c)
      PROVE  DataInv'
  BY <1>1, BytesAlone DEF Type
<1>2. ASSUME NEW p \in {"ack me", "command", "other"}, Serve(p)
      PROVE  DataInv'
  BY <1>2, BytesAlone DEF Serve
<1>3. CASE Hangup
  BY <1>3, BytesAlone DEF Hangup
<1>4. ASSUME NEW f \in SUBSET {"in", "out"}, Poll(f)
      PROVE  DataInv'
  BY <1>4, BytesAlone DEF Poll
<1>5. CASE Stdin
  <2>1. CASE StdinBusy
    BY <2>1, BytesAlone DEF StdinBusy
  <2>2. CASE StdinUnpacked
    BY <2>2, StdinUnpackedStep
  <2>3. ASSUME NEW c \in Commands \ {"exit"}, StdinSent(c)
        PROVE  DataInv'
    BY <2>3, StdinSentStep
  <2>4. ASSUME NEW c \in Commands \ {"exit"}, NEW n \in 1 .. Buffered(PackedBy(c)), StdinPart(c, n)
        PROVE  DataInv'
    BY <2>4, StdinPartStep
  <2>5. QED
    BY <1>5, <2>1, <2>2, <2>3, <2>4 DEF Stdin
<1>6. CASE Socket
  <2>1. CASE HandleSocket
    <3>1. pc = "main"
      BY <2>1 DEF HandleSocket
    <3>2. QED
      BY <2>1, <3>1, BytesAlone DEF HandleSocket
  <2>2. CASE RecvEof
    <3>1. fd' = "closed" /\ faults \subseteq faults'
      BY <2>2 DEF RecvEof
    <3>2. QED
      BY <2>2, <3>1, BytesAlone DEF RecvEof
  <2>3. CASE RecvAgain
    <3>1. pc = "recv"
      BY <2>3 DEF RecvAgain
    <3>2. QED
      BY <2>3, <3>1, BytesAlone DEF RecvAgain
  <2>4. CASE RecvPkt
    <3>1. fd' = fd /\ pc' = pc
      BY <2>4 DEF RecvPkt
    <3>2. CASE RecvOther
      BY <3>1, <3>2, BytesAlone DEF RecvOther
    <3>3. QED
      BY <2>4, <3>1, <3>2, RecvAnsweredStep, RecvCommandStep DEF RecvPkt
  <2>5. CASE OutIdle
    <3>1. pc = "out" /\ fd' = fd /\ faults \subseteq faults'
      BY <2>5 DEF OutIdle, Rewatch
    <3>2. QED
      BY <2>5, <3>1, BytesAlone DEF OutIdle
  <2>6. ASSUME NEW n \in 0 .. Buffered(mqttbuf), OutPart(n)
        PROVE  DataInv'
    BY <2>6, OutPartStep
  <2>7. CASE OutDone
    BY <2>7, OutDoneStep
  <2>8. QED
    BY <1>6, <2>1, <2>2, <2>3, <2>4, <2>5, <2>6, <2>7 DEF Socket
<1>7. CASE Fails
  <2>1. UNCHANGED out /\ faults' = faults /\ pc' = "exit"
    BY <1>7 DEF Fails, StdinFails, StdinUnsent, RecvError, OutError, Exit
  <2>2. QED
    BY <2>1, BytesAlone
<1>8. CASE UNCHANGED vars
  BY <1>8, BytesAlone DEF vars
<1>9. QED
  BY <1>1, <1>2, <1>3, <1>4, <1>5, <1>6, <1>7, <1>8 DEF Next

-----------------------------------------------------------------------------
(***************************************************************************)
(* The thread's own variables.                                             *)
(***************************************************************************)
EventSets == SUBSET {"stdin", "in", "out"}

(* The rest of the events, once the first has been handled. *)
LEMMA BatchRest ==
  ASSUME ControlTypes, batch # <<>>
  PROVE  Tail(batch) \in Seq(EventSets) /\ Len(Tail(batch)) <= 2
<1>1. PICK b \in Seq(EventSets) : b = batch
  BY DEF ControlTypes, EventSets
<1>2. b # <<>> /\ Len(b) <= 2
  BY <1>1 DEF ControlTypes
<1>3. Tail(b) \in Seq(EventSets) /\ Len(Tail(b)) = Len(b) - 1 /\ Len(b) \in Nat
  BY <1>2, HeadTailProperties, LenProperties
<1>4. QED
  BY <1>1, <1>2, <1>3

(* What epoll_wait returns. *)
LEMMA BatchesAre ==
  ASSUME NEW f \in SUBSET {"in", "out"}, NEW b \in Batches(f)
  PROVE  b \in Seq(EventSets) /\ Len(b) <= 2
<1> DEFINE stdin == IF typed # "none" THEN <<{"stdin"}>> ELSE <<>>
           sock  == IF f # {} THEN <<f>> ELSE <<>>
<1>1. {"stdin"} \in EventSets /\ f \in EventSets
  BY DEF EventSets
<1>2. stdin \in Seq(EventSets) /\ Len(stdin) \in 0 .. 1
  BY <1>1
<1>3. sock \in Seq(EventSets) /\ Len(sock) \in 0 .. 1
  BY <1>1
<1>4. b = stdin \o sock \/ b = sock \o stdin
  BY DEF Batches
<1> HIDE DEF stdin, sock
<1>5. /\ stdin \o sock \in Seq(EventSets) /\ Len(stdin \o sock) = Len(stdin) + Len(sock)
      /\ sock \o stdin \in Seq(EventSets) /\ Len(sock \o stdin) = Len(sock) + Len(stdin)
  BY <1>2, <1>3, ConcatProperties
<1>6. Len(stdin) + Len(sock) <= 2 /\ Len(sock) + Len(stdin) <= 2
  <2>1. \A x, y \in 0 .. 1 : x + y <= 2
    OBVIOUS
  <2>2. QED
    BY <1>2, <1>3, <2>1
<1>7. QED
  BY <1>4, <1>5, <1>6

(* What a command changes of them. *)
LEMMA CommandControl ==
  ASSUME ControlTypes, NEW c \in Commands, Execute(c), batch' = Tail(batch),
         fd' \in {fd, "open", "closed"}, interest' \subseteq {"in", "out"}, oneshot' \in BOOLEAN,
         faults' \subseteq faults \cup {"split", "discarded", "early"}, pc' = pc
  PROVE  ControlTypes' /\ Handling'
<1>1. pc = "main" /\ batch # <<>> /\ typed' = "none" /\ typedN' = typedN
  BY DEF Execute, AtStdin
<1>2. inputs' = inputs /\ incoming' \in {<<>>, incoming} /\ eof' \in {FALSE, eof}
  BY DEF Execute, server
<1>3. batch' \in Seq(EventSets) /\ Len(batch') <= 2
  BY <1>1, BatchRest
<1>4. incoming' \in Seq({"ack me", "command", "other"}) /\ eof' \in BOOLEAN
  BY <1>2, EmptySeq DEF ControlTypes
<1>5. faults' \subseteq {"split", "mixed", "discarded", "early", "cut off", "unwatched"}
  BY DEF ControlTypes
<1>6. QED
  BY <1>1, <1>2, <1>3, <1>4, <1>5 DEF ControlTypes, Handling, EventSets

LEMMA ControlStep ==
  ASSUME ControlTypes, Handling, [Next]_vars
  PROVE  ControlTypes' /\ Handling'
<1> DEFINE Faults == {"split", "mixed", "discarded", "early", "cut off", "unwatched"}
<1>0. \A i \in Nat : i + 1 \in Nat
  OBVIOUS
<1>1. ASSUME NEW c \in Commands, Type(c)
      PROVE  ControlTypes' /\ Handling'
  <2>1. typed' \in Commands \cup {"none"}
    BY <1>1, Zenon DEF Type
  <2>2. typedN \in Nat /\ typedN' = typedN + 1
    BY <1>1 DEF Type, ControlTypes
  <2>3. typedN' \in Nat
    BY <2>2
  <2>4. QED
    BY <1>1, <2>1, <2>3 DEF Type, ControlTypes, Handling, server, epoll
<1>2. ASSUME NEW p \in {"ack me", "command", "other"}, Serve(p)
      PROVE  ControlTypes' /\ Handling'
  <2>1. incoming' \in Seq({"ack me", "command", "other"})
    BY <1>2, AppendProperties DEF Serve, ControlTypes
  <2>2. inputs' \in Nat
    <3>1. inputs \in Nat /\ inputs' = inputs + 1
      BY <1>2, Zenon DEF Serve, ControlTypes
    <3>2. QED
      BY <1>0, <3>1, Zenon
  <2>3. QED
    BY <1>2, <2>1, <2>2 DEF Serve, ControlTypes, Handling, user, epoll
<1>3. CASE Hangup
  BY <1>3 DEF Hangup, ControlTypes, Handling, user, epoll
<1>4. ASSUME NEW f \in SUBSET {"in", "out"}, Poll(f)
      PROVE  ControlTypes' /\ Handling'
  <2>1. batch' \in Seq(EventSets) /\ Len(batch') <= 2 /\ batch' # <<>>
    BY <1>4, BatchesAre DEF Poll
  <2>2. interest' \subseteq {"in", "out"}
    BY <1>4 DEF Poll, ControlTypes
  <2>3. QED
    BY <1>4, <2>1, <2>2 DEF Poll, ControlTypes, Handling, EventSets, user, server
<1>5. CASE Stdin
  <2>1. CASE StdinBusy
    <3>1. batch # <<>> /\ batch' = Tail(batch) /\ pc' = "main"
      BY <2>1 DEF StdinBusy, AtStdin
    <3>2. batch' \in Seq(EventSets) /\ Len(batch') <= 2
      BY <3>1, BatchRest
    <3>3. QED
      BY <2>1, <3>1, <3>2 DEF StdinBusy, ControlTypes, Handling, EventSets, user, server, epoll
  <2>2. CASE StdinUnpacked
    <3>1. batch # <<>> /\ batch' = Tail(batch) /\ pc' = "main" /\ typed' = "none"
      BY <2>2 DEF StdinUnpacked, AtStdin
    <3>2. batch' \in Seq(EventSets) /\ Len(batch') <= 2
      BY <3>1, BatchRest
    <3>3. faults' \subseteq Faults
      BY <2>2 DEF StdinUnpacked, CommandFaults, ControlTypes
    <3>4. QED
      BY <2>2, <3>1, <3>2, <3>3 DEF StdinUnpacked, ControlTypes, Handling, EventSets, server, epoll
  <2>3. ASSUME NEW c \in Commands \ {"exit"}, StdinSent(c)
        PROVE  ControlTypes' /\ Handling'
    <3>1. Execute(c) /\ batch' = Tail(batch) /\ pc' = pc
      BY <2>3 DEF StdinSent
    <3>2. faults' \subseteq faults \cup {"split", "discarded", "early"}
      BY <2>3 DEF StdinSent, CommandFaults
    <3>3. /\ fd' \in {fd, "open", "closed"}
          /\ interest' \subseteq {"in", "out"}
          /\ oneshot' \in BOOLEAN
      <4>1. CASE c = "disconnect"
        BY <2>3, <4>1 DEF StdinSent, Watch
      <4>2. CASE c = "connect"
        BY <2>3, <4>2 DEF StdinSent, Watch
      <4>3. CASE c \notin {"disconnect", "connect"}
        BY <2>3, <4>3 DEF StdinSent, epoll, ControlTypes
      <4>4. QED
        BY <4>1, <4>2, <4>3
    <3>4. QED
      BY <3>1, <3>2, <3>3, CommandControl
  <2>4. ASSUME NEW c \in Commands \ {"exit"}, NEW n \in 1 .. Buffered(PackedBy(c)), StdinPart(c, n)
        PROVE  ControlTypes' /\ Handling'
    <3>1. Execute(c) /\ batch' = Tail(batch) /\ pc' = pc
      BY <2>4 DEF StdinPart
    <3>2. faults' \subseteq faults \cup {"split", "discarded", "early"}
      BY <2>4 DEF StdinPart, CommandFaults
    <3>3. /\ fd' \in {fd, "open", "closed"}
          /\ interest' \subseteq {"in", "out"}
          /\ oneshot' \in BOOLEAN
      BY <2>4 DEF StdinPart, Sock, Watch
    <3>4. QED
      BY <3>1, <3>2, <3>3, CommandControl
  <2>5. QED
    BY <1>5, <2>1, <2>2, <2>3, <2>4 DEF Stdin
<1>6. CASE Socket
  <2>1. CASE HandleSocket
    BY <2>1 DEF HandleSocket, ControlTypes, Handling, user, server, epoll
  <2>2. CASE RecvEof
    <3>1. batch # <<>> /\ batch' = Tail(batch) /\ pc' = "main"
      BY <2>2 DEF RecvEof, Handling
    <3>2. batch' \in Seq(EventSets) /\ Len(batch') <= 2
      BY <3>1, BatchRest
    <3>3. interest' \subseteq {"in", "out"} /\ oneshot' \in BOOLEAN /\ faults' \subseteq Faults
      BY <2>2 DEF RecvEof, Watch, ControlTypes
    <3>4. QED
      BY <2>2, <3>1, <3>2, <3>3 DEF RecvEof, ControlTypes, Handling, EventSets, user, server
  <2>3. CASE RecvAgain
    BY <2>3 DEF RecvAgain, ControlTypes, Handling, user, server, epoll
  <2>4. CASE RecvPkt
    <3>1. incoming # <<>> /\ incoming' = Tail(incoming)
      BY <2>4 DEF RecvPkt
    <3>2. incoming' \in Seq({"ack me", "command", "other"})
      BY <3>1, HeadTailProperties DEF ControlTypes
    <3>3. faults' \subseteq Faults
      BY <2>4 DEF RecvPkt, RecvAnswered, RecvCommand, RecvOther, ControlTypes
    <3>4. QED
      BY <2>4, <3>2, <3>3 DEF RecvPkt, ControlTypes, Handling, user, epoll
  <2>5. ASSUME NEW events \in SUBSET {"in", "out"}, pc = "out", Rewatch(events), faults' \subseteq Faults
        PROVE  ControlTypes' /\ Handling'
    <3>1. batch # <<>> /\ batch' = Tail(batch) /\ pc' = "main"
      BY <2>5 DEF Rewatch, Handling
    <3>2. batch' \in Seq(EventSets) /\ Len(batch') <= 2
      BY <3>1, BatchRest
    <3>3. interest' \subseteq {"in", "out"} /\ oneshot' \in BOOLEAN
      <4>1. CASE fd = "open"
        BY <2>5, <4>1 DEF Rewatch, Watch
      <4>2. CASE fd # "open"
        BY <2>5, <4>2 DEF Rewatch, epoll, ControlTypes
      <4>3. QED
        BY <4>1, <4>2
    <3>4. QED
      BY <2>5, <3>1, <3>2, <3>3 DEF Rewatch, ControlTypes, Handling, EventSets, user, server
  <2>6. CASE OutIdle
    <3>1. faults' \subseteq Faults
      BY <2>6 DEF OutIdle, ControlTypes
    <3>2. QED
      BY <2>5, <2>6, <3>1 DEF OutIdle
  <2>7. ASSUME NEW n \in 0 .. Buffered(mqttbuf), OutPart(n)
        PROVE  ControlTypes' /\ Handling'
    <3>1. faults' \subseteq Faults
      BY <2>7 DEF OutPart, ControlTypes
    <3>2. QED
      BY <2>5, <2>7, <3>1 DEF OutPart, Sending
  <2>8. CASE OutDone
    <3>1. faults' \subseteq Faults
      BY <2>8 DEF OutDone, ControlTypes
    <3>2. QED
      BY <2>5, <2>8, <3>1 DEF OutDone, Sending
  <2>9. QED
    BY <1>6, <2>1, <2>2, <2>3, <2>4, <2>6, <2>7, <2>8 DEF Socket
<1>7. CASE Fails
  <2>1. Exit /\ faults' = faults /\ typed' \in {typed, "none"} /\ typedN' = typedN
    BY <1>7 DEF Fails, StdinFails, StdinUnsent, RecvError, OutError, user
  <2>2. batch' \in Seq(EventSets) /\ Len(batch') <= 2
    BY <2>1, EmptySeq DEF Exit
  <2>3. QED
    BY <2>1, <2>2 DEF Exit, ControlTypes, Handling, EventSets, server, epoll
<1>8. CASE UNCHANGED vars
  BY <1>8 DEF vars, ControlTypes, Handling, user, server, epoll
<1>9. QED
  BY <1>1, <1>2, <1>3, <1>4, <1>5, <1>6, <1>7, <1>8 DEF Next

-----------------------------------------------------------------------------
(***************************************************************************)
(* The theorems.                                                           *)
(***************************************************************************)
ClientInv == ControlTypes /\ Handling /\ DataInv

LEMMA ClientInvHolds ==
  Spec => []ClientInv
<1>1. Init => ClientInv
  <2> SUFFICES ASSUME Init
               PROVE  ClientInv
    OBVIOUS
  <2>1. ControlTypes /\ Handling
    <3>1. incoming \in Seq({"ack me", "command", "other"}) /\ batch \in Seq(SUBSET {"stdin", "in", "out"})
      BY EmptySeq DEF Init
    <3>2. typed \in Commands \cup {"none"}
      BY Zenon DEF Init
    <3>3. Len(batch) <= 2
      BY DEF Init
    <3>4. QED
      BY <3>1, <3>2, <3>3 DEF Init, ControlTypes, Handling
  <2>2. DataTypes
    BY EmptySeq, BufferedNone DEF Init, DataTypes
  <2>3. RepliesOnly /\ AtBoundary /\ WireExact
    BY DEF Init, RepliesOnly, AtBoundary, WireExact
  <2>4. QED
    BY <2>1, <2>2, <2>3 DEF ClientInv, DataInv
<1>2. ClientInv /\ [Next]_vars => ClientInv'
  BY DataStep, ControlStep DEF ClientInv
<1>3. QED
  BY <1>1, <1>2, PTL DEF Spec

(* The client's types, for every shape of the packets and any number of
   commands: epoll_wait's two events are never outrun, sendedbytes stays
   within what is packed (sample.c:794-958). *)
THEOREM ClientTypes == Spec => []TypeOK
<1>1. ClientInv => TypeOK
  <2> SUFFICES ASSUME ClientInv
               PROVE  TypeOK
    OBVIOUS
  <2>1. mqttbuf \in Seq(Ext)
    BY DEF ClientInv, DataInv, DataTypes
  <2>2. \A i \in DOMAIN mqttbuf : mqttbuf[i].kind \in Kinds
    <3>1. \A i \in DOMAIN mqttbuf : mqttbuf[i] \in Ext
      BY <2>1
    <3>2. QED
      BY <3>1, Zenon DEF Ext
  <2>3. QED
    BY <2>2 DEF ClientInv, ControlTypes, DataInv, DataTypes, TypeOK
<1>2. QED
  BY <1>1, ClientInvHolds, PTL

(* sample.c:841-864, 903-920 with mqtt.c:833-884.  Whatever part of a packet
   the kernel takes at each write, what is on the wire and what is left of
   mqttbuf are the packets handed over and the answers, byte for byte and in
   order, unless a part ended inside an extent or an answer was written into
   a packet half sent. *)
THEOREM WireStaysExact == Spec => []WireExact
<1>1. ClientInv => WireExact
  BY DEF ClientInv, DataInv
<1>2. QED
  BY <1>1, ClientInvHolds, PTL

(* sample.c:814-817, 859.  When the client is ready for a command, only
   replies to the server's commands are in its buffer. *)
THEOREM RepliesAloneWait == Spec => []OnlyRepliesWait
<1>1. ClientInv => OnlyRepliesWait
  BY DEF ClientInv, DataInv, RepliesOnly, OnlyRepliesWait
<1>2. QED
  BY <1>1, ClientInvHolds, PTL

-----------------------------------------------------------------------------
(***************************************************************************)
(* What leaves the buffer is on the wire.  The exact order of the bytes is *)
(* not needed for it, and an answer written in between does no harm: it is *)
(* enough that of what is being sent, the first sendedbytes bytes are on   *)
(* the wire.                                                               *)
(***************************************************************************)
OnWire(b, n, w) == \A i \in 1 .. n : b[i] \in Range(w)

SentOnWire ==
  (sended # -1 /\ "split" \notin faults) => OnWire(Bytes(mqttbuf), sended, wire)

LEMMA RangeOfConcat ==
  ASSUME NEW S, NEW a \in Seq(S), NEW b \in Seq(S)
  PROVE  \A x : x \in Range(a) \/ x \in Range(b) => x \in Range(a \o b)
<1>1. /\ Len(a \o b) = Len(a) + Len(b) /\ Len(a) \in Nat /\ Len(b) \in Nat
      /\ DOMAIN (a \o b) = 1 .. Len(a) + Len(b) /\ DOMAIN a = 1 .. Len(a) /\ DOMAIN b = 1 .. Len(b)
      /\ \A i \in 1 .. Len(a) : (a \o b)[i] = a[i]
      /\ \A i \in 1 .. Len(b) : (a \o b)[Len(a) + i] = b[i]
  BY ConcatProperties, LenProperties
<1>2. ASSUME NEW i \in 1 .. Len(a)
      PROVE  a[i] \in Range(a \o b)
  <2>1. i \in 1 .. Len(a) + Len(b) /\ (a \o b)[i] = a[i]
    BY <1>1
  <2>2. QED
    BY <1>1, <2>1 DEF Range
<1>3. ASSUME NEW i \in 1 .. Len(b)
      PROVE  b[i] \in Range(a \o b)
  <2>1. Len(a) + i \in 1 .. Len(a) + Len(b) /\ (a \o b)[Len(a) + i] = b[i]
    BY <1>1
  <2>2. QED
    BY <1>1, <2>1 DEF Range
<1>4. QED
  BY <1>1, <1>2, <1>3 DEF Range

(* The first n elements of b are in what is cut off behind the n-th. *)
LEMMA PrefixOnWire ==
  ASSUME NEW S, NEW b \in Seq(S), NEW n \in 0 .. Len(b)
  PROVE  SubSeq(b, 1, n) \in Seq(S) /\ OnWire(b, n, SubSeq(b, 1, n))
<1>1. n \in Nat /\ n <= Len(b) /\ Len(b) \in Nat
  OBVIOUS
<1>2. /\ SubSeq(b, 1, n) \in Seq(S) /\ DOMAIN SubSeq(b, 1, n) = 1 .. n
      /\ \A i \in 1 .. n : SubSeq(b, 1, n)[i] = b[i]
  BY <1>1
<1>3. QED
  BY <1>2 DEF OnWire, Range

(* Every byte of every extent is one of the list's. *)
LEMMA ExtentInBytes ==
  ASSUME NEW exts \in Seq(Ext)
  PROVE  \A i \in DOMAIN exts : \A x \in Range(ExtentBytes(exts[i])) : x \in Range(Bytes(exts))
<1> DEFINE Held(q) == \A i \in DOMAIN q : \A x \in Range(ExtentBytes(q[i])) : x \in Range(Bytes(q))
           T == {q \in Seq(Ext) : Held(q)}
<1>1. <<>> \in T
  BY EmptySeq
<1>2. ASSUME NEW q \in Seq(Ext), NEW e \in Ext, q \in T
      PROVE  Append(q, e) \in T
  <2>1. <<e>> \in Seq(Ext) /\ Append(q, e) \in Seq(Ext) /\ Append(q, e) = q \o <<e>>
    <3>1. <<e>> \in Seq(Ext)
      OBVIOUS
    <3>2. QED
      BY <3>1, AppendProperties, AppendIsConcat
  <2>2. PICK x \in Seq(WireByte) : x = ExtentBytes(e)
    BY ExtentBytesAre
  <2>3. Bytes(<<e>>) = x
    <3>1. Pieces(<<e>>) = Append(<<>>, x)
      BY <2>2 DEF Pieces
    <3>2. FlattenSeq(Append(<<>>, x)) = FlattenSeq(<<>>) \o x
      <4>1. <<>> \in Seq(Seq(WireByte))
        BY EmptySeq
      <4>2. QED
        BY <4>1, FlattenAppend
    <3>3. QED
      BY <3>1, <3>2, BytesAre, FlattenNone, ConcatEmptySeq
  <2>4. PICK y \in Seq(WireByte) : y = Bytes(q) /\ Bytes(Append(q, e)) = y \o x
    BY <2>1, <2>3, BytesConcat
  <2>5. \A z : z \in Range(y) \/ z \in Range(x) => z \in Range(y \o x)
    BY RangeOfConcat
  <2>6. ASSUME NEW i \in DOMAIN Append(q, e)
        PROVE  \A z \in Range(ExtentBytes(Append(q, e)[i])) : z \in Range(Bytes(Append(q, e)))
    <3>1. i \in 1 .. Len(q) + 1 /\ Len(q) \in Nat
      BY <2>1, AppendProperties, LenProperties
    <3>2. CASE i = Len(q) + 1
      <4>1. Append(q, e)[i] = e
        BY <3>2, AppendProperties
      <4>2. QED
        BY <2>2, <2>4, <2>5, <4>1
    <3>3. CASE i # Len(q) + 1
      <4>1. i \in DOMAIN q /\ Append(q, e)[i] = q[i]
        BY <3>1, <3>3, AppendProperties
      <4>2. \A z \in Range(ExtentBytes(q[i])) : z \in Range(Bytes(q))
        BY <1>2, <4>1
      <4>3. QED
        BY <2>4, <2>5, <4>1, <4>2
    <3>4. QED
      BY <3>2, <3>3
  <2>7. QED
    BY <2>1, <2>6
<1> HIDE DEF T
<1>3. exts \in T
  BY <1>1, <1>2, InductionOnSeq
<1>4. QED
  BY <1>3 DEF T

(* An extent has a last byte. *)
LEMMA LastInBytes ==
  ASSUME NEW exts \in Seq(Ext), NEW i \in DOMAIN exts
  PROVE  Last(ExtentBytes(exts[i])) \in Range(Bytes(exts))
<1>1. PICK e \in Ext : e = exts[i]
  BY ElementOfSeq
<1>2. PICK x \in Seq(WireByte) : x = ExtentBytes(e) /\ Len(x) = e.len
  BY ExtentBytesAre
<1>3. Len(x) \in DOMAIN x
  BY <1>2, LenProperties DEF Ext
<1>4. Last(x) \in Range(x)
  BY <1>3 DEF Last, Range
<1>5. QED
  BY <1>1, <1>2, <1>4, ExtentInBytes

(* What is on the wire stays there while a packet is being sent. *)
LEMMA OnWireGrows ==
  ASSUME NEW b, NEW n, NEW w \in Seq(WireByte), NEW x \in Seq(WireByte), OnWire(b, n, w)
  PROVE  OnWire(b, n, w \o x)
BY RangeOfConcat DEF OnWire

LEMMA SentPartStep ==
  ASSUME DataInv, NEW c \in Commands \ {"exit"}, NEW n \in 1 .. Buffered(PackedBy(c)), StdinPart(c, n)
  PROVE  SentOnWire'
<1>1. /\ mqttbuf' = PackedBy(c) /\ sended' = n
      /\ wire' = (IF c = "connect" THEN <<>> ELSE wire) \o SubSeq(Bytes(PackedBy(c)), 1, n)
  BY DEF StdinPart, Execute
<1>2. PackedBy(c) \in Seq(Ext)
  BY PackedByIs DEF DataInv
<1>3. PICK b \in Seq(WireByte) : b = Bytes(PackedBy(c)) /\ Len(b) = Buffered(PackedBy(c))
  BY <1>2, BytesLen
<1>4. PICK w \in Seq(WireByte) : w = IF c = "connect" THEN <<>> ELSE wire
  <2>1. wire \in Seq(WireByte) /\ <<>> \in Seq(WireByte)
    BY EmptySeq DEF DataInv, DataTypes
  <2>2. QED
    BY <2>1
<1>5. n \in 0 .. Len(b)
  BY <1>3, LenProperties
<1>6. PICK x \in Seq(WireByte) : x = SubSeq(b, 1, n) /\ OnWire(b, n, x)
  BY <1>5, PrefixOnWire
<1>7. OnWire(b, n, w \o x)
  BY <1>6, RangeOfConcat DEF OnWire
<1>8. wire' = w \o x
  BY <1>1, <1>3, <1>4, <1>6
<1>9. OnWire(Bytes(mqttbuf'), sended', wire')
  BY <1>1, <1>3, <1>7, <1>8
<1>10. QED
  BY <1>9 DEF SentOnWire

LEMMA SentReplyStep ==
  ASSUME DataInv, SentOnWire, RecvCommand
  PROVE  SentOnWire'
<1>1. /\ mqttbuf' = mqttbuf \o Extents("cmdret") /\ sended' = sended /\ wire' = wire /\ faults' = faults
  BY DEF RecvCommand
<1>2. /\ mqttbuf \in Seq(Ext) /\ packed \in Nat /\ sended \in -1 .. Buffered(mqttbuf)
  BY DEF DataInv, DataTypes
<1>3. PICK m \in Seq(Ext), r \in Seq(Ext) : m = mqttbuf /\ r = Extents("cmdret")
  BY <1>2, ExtentsAre DEF Kinds
<1>4. PICK b \in Seq(WireByte), y \in Seq(WireByte) :
        b = Bytes(m) /\ y = Bytes(r) /\ Bytes(m \o r) = b \o y
  BY BytesConcat
<1>5. Len(b) = Buffered(m)
  BY <1>4, BytesLen
<1>6. SUFFICES ASSUME sended # -1, "split" \notin faults
               PROVE  OnWire(b \o y, sended, wire)
  BY <1>1, <1>3, <1>4 DEF SentOnWire
<1>7. OnWire(b, sended, wire)
  BY <1>3, <1>4, <1>6 DEF SentOnWire
<1>8. \A i \in 1 .. sended : (b \o y)[i] = b[i]
  <2>1. sended \in -1 .. Len(b) /\ Len(b) \in Nat
    BY <1>2, <1>3, <1>5, LenProperties
  <2>2. QED
    BY <2>1, ConcatProperties
<1>9. QED
  BY <1>7, <1>8 DEF OnWire

LEMMA SentOnStep ==
  ASSUME DataInv, SentOnWire, NEW n \in 0 .. Buffered(mqttbuf), OutPart(n)
  PROVE  SentOnWire'
<1>1. /\ sended # -1 /\ n <= Len(Gathered(mqttbuf, sended)) /\ n < Buffered(mqttbuf) - sended
      /\ wire' = wire \o SubSeq(Gathered(mqttbuf, sended), 1, n) /\ sended' = sended + n
      /\ mqttbuf' = mqttbuf
      /\ faults' = faults \cup (IF OnBoundary(mqttbuf, sended + n) THEN {} ELSE {"split"})
  BY DEF OutPart, Sending, Rewatch
<1>2. PICK g \in Seq(WireByte) : g = Gathered(mqttbuf, sended)
  BY <1>1, OutGathered
<1>3. /\ sended \in Nat /\ sended <= Buffered(mqttbuf) /\ ("split" \notin faults => g = Unsent)
      /\ mqttbuf \in Seq(Ext)
  BY <1>1, <1>2, OutGathered DEF DataInv, DataTypes
<1>4. PICK v \in Seq(WireByte) : v = wire
  BY DEF DataInv, DataTypes
<1>5. PICK b \in Seq(WireByte) : b = Bytes(mqttbuf) /\ Len(b) = Buffered(mqttbuf) /\ Len(b) \in Nat
  BY <1>3, BytesLen
<1>6. n \in 0 .. Len(g) /\ n \in Nat /\ sended + n <= Len(b)
  BY <1>1, <1>2, <1>3, <1>5
<1>7. PICK x \in Seq(WireByte) : x = SubSeq(g, 1, n) /\ OnWire(g, n, x)
  BY <1>6, PrefixOnWire
<1>8. SUFFICES ASSUME "split" \notin faults
               PROVE  OnWire(b, sended + n, v \o x)
  BY <1>1, <1>2, <1>4, <1>5, <1>7 DEF SentOnWire
<1>9. g = SubSeq(b, sended + 1, Len(b))
  BY <1>1, <1>3, <1>5, <1>8 DEF Unsent
<1>10. \A i \in 1 .. n : g[i] = b[sended + i]
  <2>1. sended \in 0 .. Len(b)
    BY <1>3, <1>5
  <2>2. \A i \in 1 .. Len(b) - sended : SubSeq(b, sended + 1, Len(b))[i] = b[sended + i]
    BY <2>1, DropFirst
  <2>3. QED
    BY <1>3, <1>5, <1>6, <1>9, <2>2
<1>11. OnWire(b, sended, v)
  BY <1>1, <1>4, <1>5, <1>8 DEF SentOnWire
<1>12. \A z : z \in Range(v) \/ z \in Range(x) => z \in Range(v \o x)
  BY RangeOfConcat
<1>13. ASSUME NEW i \in 1 .. sended + n
       PROVE  b[i] \in Range(v \o x)
  <2>1. CASE i <= sended
    <3>1. i \in 1 .. sended
      BY <1>3, <1>6, <1>13, <2>1
    <3>2. QED
      BY <1>11, <1>12, <3>1 DEF OnWire
  <2>2. CASE ~(i <= sended)
    <3>1. PICK j \in 1 .. n : sended + j = i
      <4>1. i - sended \in 1 .. n /\ sended + (i - sended) = i
        BY <1>3, <1>6, <1>13, <2>2
      <4>2. QED
        BY <4>1
    <3>2. g[j] = b[i] /\ g[j] \in Range(x)
      BY <1>7, <1>10, <3>1 DEF OnWire
    <3>3. QED
      BY <1>12, <3>2
  <2>3. QED
    BY <2>1, <2>2
<1>14. QED
  BY <1>13 DEF OnWire

LEMMA SentStep ==
  ASSUME DataInv, SentOnWire, [Next]_vars
  PROVE  SentOnWire'
<1>1. ASSUME UNCHANGED out, faults \subseteq faults'
      PROVE  SentOnWire'
  BY <1>1 DEF SentOnWire, out
<1>2. ASSUME sended' = -1
      PROVE  SentOnWire'
  BY <1>2 DEF SentOnWire
<1>3. ASSUME NEW c \in Commands, Type(c)
      PROVE  SentOnWire'
  BY <1>1, <1>3 DEF Type
<1>4. ASSUME NEW p \in {"ack me", "command", "other"}, Serve(p)
      PROVE  SentOnWire'
  BY <1>1, <1>4 DEF Serve
<1>5. CASE Hangup
  BY <1>1, <1>5 DEF Hangup
<1>6. ASSUME NEW f \in SUBSET {"in", "out"}, Poll(f)
      PROVE  SentOnWire'
  BY <1>1, <1>6 DEF Poll
<1>7. CASE Stdin
  <2>1. CASE StdinBusy
    BY <1>1, <2>1 DEF StdinBusy
  <2>2. CASE StdinUnpacked
    BY <1>2, <2>2 DEF StdinUnpacked
  <2>3. ASSUME NEW c \in Commands \ {"exit"}, StdinSent(c)
        PROVE  SentOnWire'
    BY <1>2, <2>3 DEF StdinSent, Execute
  <2>4. ASSUME NEW c \in Commands \ {"exit"}, NEW n \in 1 .. Buffered(PackedBy(c)), StdinPart(c, n)
        PROVE  SentOnWire'
    BY <2>4, SentPartStep
  <2>5. QED
    BY <1>7, <2>1, <2>2, <2>3, <2>4 DEF Stdin
<1>8. CASE Socket
  <2>1. CASE HandleSocket
    BY <1>1, <2>1 DEF HandleSocket
  <2>2. CASE RecvEof
    BY <1>1, <2>2 DEF RecvEof
  <2>3. CASE RecvAgain
    BY <1>1, <2>3 DEF RecvAgain
  <2>4. CASE RecvPkt
    <3>1. CASE RecvOther
      BY <1>1, <3>1 DEF RecvOther
    <3>2. CASE RecvAnswered
      <4>1. /\ mqttbuf' = mqttbuf /\ sended' = sended /\ faults \subseteq faults'
            /\ wire' = Append(wire, AckByte)
        BY <3>2 DEF RecvAnswered
      <4>2. PICK v \in Seq(WireByte), a \in Seq(WireByte) : v = wire /\ wire' = v \o a
        <5>1. AckByte \in WireByte /\ wire \in Seq(WireByte)
          BY DEF AckByte, WireByte, DataInv, DataTypes
        <5>2. <<AckByte>> \in Seq(WireByte) /\ Append(wire, AckByte) = wire \o <<AckByte>>
          BY <5>1, AppendIsConcat
        <5>3. QED
          BY <4>1, <5>1, <5>2
      <4>3. SUFFICES ASSUME sended # -1, "split" \notin faults
                     PROVE  OnWire(Bytes(mqttbuf), sended, v \o a)
        BY <4>1, <4>2 DEF SentOnWire
      <4>4. OnWire(Bytes(mqttbuf), sended, v)
        BY <4>2, <4>3 DEF SentOnWire
      <4>5. QED
        BY <4>4, OnWireGrows
    <3>3. QED
      BY <2>4, <3>1, <3>2, SentReplyStep DEF RecvPkt
  <2>5. CASE OutIdle
    BY <1>1, <2>5 DEF OutIdle, Rewatch
  <2>6. ASSUME NEW n \in 0 .. Buffered(mqttbuf), OutPart(n)
        PROVE  SentOnWire'
    BY <2>6, SentOnStep
  <2>7. CASE OutDone
    BY <1>2, <2>7 DEF OutDone
  <2>8. QED
    BY <1>8, <2>1, <2>2, <2>3, <2>4, <2>5, <2>6, <2>7 DEF Socket
<1>9. CASE Fails
  <2>1. UNCHANGED out /\ faults' = faults
    BY <1>9 DEF Fails, StdinFails, StdinUnsent, RecvError, OutError
  <2>2. QED
    BY <1>1, <2>1
<1>10. CASE UNCHANGED vars
  BY <1>1, <1>10 DEF vars
<1>11. QED
  BY <1>3, <1>4, <1>5, <1>6, <1>7, <1>8, <1>9, <1>10 DEF Next

(* What a step must do with each extent: keep it, or have sent it. *)
Survives(e) ==
  \/ e \in Range(mqttbuf')
  \/ Last(ExtentBytes(e)) \in Range(wire')
  \/ faults' \cap {"discarded", "split"} # {}

LEMMA KeptSurvive ==
  ASSUME NEW i \in DOMAIN mqttbuf, mqttbuf' = mqttbuf
  PROVE  Survives(mqttbuf[i])
BY DEF Survives, Range

LEMMA BehindSurvive ==
  ASSUME DataTypes, NEW i \in DOMAIN mqttbuf, NEW t \in Seq(Ext), mqttbuf' = mqttbuf \o t
  PROVE  Survives(mqttbuf[i])
<1>1. PICK m \in Seq(Ext) : m = mqttbuf
  BY DEF DataTypes
<1>2. \A x : x \in Range(m) \/ x \in Range(t) => x \in Range(m \o t)
  BY RangeOfConcat
<1>3. m[i] \in Range(m)
  BY <1>1 DEF Range
<1>4. m[i] \in Range(m \o t)
  BY <1>2, <1>3
<1>5. QED
  BY <1>1, <1>4 DEF Survives

(* A command packs behind what is there, or discards it. *)
LEMMA PackedSurvive ==
  ASSUME DataTypes, NEW c \in Commands \ {"exit"}, "discarded" \notin CommandFaults(c),
         mqttbuf # <<>>
  PROVE  \E t \in Seq(Ext) : PackedBy(c) = mqttbuf \o t
<1>1. mqttbuf \in Seq(Ext) /\ packed \in Nat /\ <<>> \in Seq(Ext)
  BY EmptySeq DEF DataTypes
<1>2. c # "publish"
  BY DEF CommandFaults
<1>3. CASE c = "help"
  <2>1. PackedBy(c) = mqttbuf /\ mqttbuf \o <<>> = mqttbuf
    BY <1>1, <1>3, ConcatEmptySeq DEF PackedBy
  <2>2. QED
    BY <1>1, <2>1
<1>4. CASE c # "help"
  <2>1. Extents(c) \in Seq(Ext)
    BY <1>1, <1>4, ExtentsAre DEF Commands, Kinds
  <2>2. PackedBy(c) = mqttbuf \o Extents(c)
    BY <1>2, <1>4 DEF PackedBy, PackBehind
  <2>3. QED
    BY <2>1, <2>2
<1>5. QED
  BY <1>3, <1>4

LEMMA SentSurvive ==
  ASSUME DataInv, NEW i \in DOMAIN mqttbuf, NEW c \in Commands \ {"exit"}, StdinSent(c)
  PROVE  Survives(mqttbuf[i])
<1>1. /\ wire' = (IF c = "connect" THEN <<>> ELSE wire) \o Bytes(PackedBy(c))
      /\ faults' = faults \cup CommandFaults(c)
  BY DEF StdinSent
<1>2. SUFFICES ASSUME "discarded" \notin CommandFaults(c)
               PROVE  Last(ExtentBytes(mqttbuf[i])) \in Range(wire')
  BY <1>1 DEF Survives
<1>3. mqttbuf # <<>> /\ mqttbuf \in Seq(Ext)
  BY DEF DataInv, DataTypes
<1>4. PICK m \in Seq(Ext), t \in Seq(Ext) : m = mqttbuf /\ PackedBy(c) = m \o t
  BY <1>2, <1>3, PackedSurvive DEF DataInv
<1>5. PICK b \in Seq(WireByte), y \in Seq(WireByte) :
        b = Bytes(m) /\ y = Bytes(t) /\ Bytes(m \o t) = b \o y
  BY BytesConcat
<1>6. Last(ExtentBytes(m[i])) \in Range(b)
  BY <1>4, <1>5, LastInBytes
<1>7. Last(ExtentBytes(m[i])) \in Range(b \o y)
  BY <1>6, RangeOfConcat
<1>8. PICK w \in Seq(WireByte) : w = IF c = "connect" THEN <<>> ELSE wire
  <2>1. wire \in Seq(WireByte) /\ <<>> \in Seq(WireByte)
    BY EmptySeq DEF DataInv, DataTypes
  <2>2. QED
    BY <2>1
<1>9. PICK z \in Seq(WireByte) : z = b \o y
  BY ConcatProperties
<1>10. Last(ExtentBytes(m[i])) \in Range(w \o z)
  BY <1>7, <1>9, RangeOfConcat
<1>11. QED
  BY <1>1, <1>4, <1>5, <1>8, <1>9, <1>10

LEMMA PartSurvive ==
  ASSUME DataInv, NEW i \in DOMAIN mqttbuf, NEW c \in Commands \ {"exit"},
         NEW n \in 1 .. Buffered(PackedBy(c)), StdinPart(c, n)
  PROVE  Survives(mqttbuf[i])
<1>1. mqttbuf' = PackedBy(c) /\ CommandFaults(c) \subseteq faults'
  BY DEF StdinPart
<1>2. CASE "discarded" \in CommandFaults(c)
  BY <1>1, <1>2 DEF Survives
<1>3. CASE "discarded" \notin CommandFaults(c)
  <2>1. mqttbuf # <<>> /\ mqttbuf \in Seq(Ext)
    BY DEF DataInv, DataTypes
  <2>2. PICK t \in Seq(Ext) : PackedBy(c) = mqttbuf \o t
    BY <1>3, <2>1, PackedSurvive DEF DataInv
  <2>3. QED
    BY <1>1, <2>2, BehindSurvive DEF DataInv
<1>4. QED
  BY <1>2, <1>3

(* The last part of a packet: with it, all of mqttbuf is on the wire. *)
LEMMA DoneSurvive ==
  ASSUME DataInv, SentOnWire, NEW i \in DOMAIN mqttbuf, OutDone
  PROVE  Survives(mqttbuf[i])
<1>1. /\ sended # -1 /\ wire' = wire \o Gathered(mqttbuf, sended) /\ faults' = faults
  BY DEF OutDone, Sending
<1>2. SUFFICES ASSUME "split" \notin faults
               PROVE  Last(ExtentBytes(mqttbuf[i])) \in Range(wire')
  BY <1>1 DEF Survives
<1>3. PICK g \in Seq(WireByte) : g = Gathered(mqttbuf, sended) /\ g = Unsent
  BY <1>1, <1>2, OutGathered
<1>4. sended \in Nat /\ sended <= Buffered(mqttbuf) /\ mqttbuf \in Seq(Ext)
  BY <1>1, OutGathered DEF DataInv, DataTypes
<1>5. PICK v \in Seq(WireByte) : v = wire
  BY DEF DataInv, DataTypes
<1>6. PICK b \in Seq(WireByte) : b = Bytes(mqttbuf) /\ Len(b) = Buffered(mqttbuf) /\ Len(b) \in Nat
  BY <1>4, BytesLen
<1>7. g = SubSeq(b, sended + 1, Len(b))
  BY <1>1, <1>3, <1>6 DEF Unsent
<1>8. sended \in 0 .. Len(b)
  BY <1>4, <1>6
<1>9. /\ Len(g) = Len(b) - sended
      /\ \A j \in 1 .. Len(b) - sended : g[j] = b[sended + j]
  BY <1>7, <1>8, DropFirst
<1>10. OnWire(b, sended, v)
  BY <1>1, <1>2, <1>5, <1>6 DEF SentOnWire
<1>11. \A z : z \in Range(v) \/ z \in Range(g) => z \in Range(v \o g)
  BY RangeOfConcat
<1>12. ASSUME NEW j \in 1 .. Len(b)
       PROVE  b[j] \in Range(v \o g)
  <2>1. CASE j <= sended
    <3>1. j \in 1 .. sended
      BY <1>8, <2>1
    <3>2. QED
      BY <1>10, <1>11, <3>1 DEF OnWire
  <2>2. CASE ~(j <= sended)
    <3>1. PICK k \in 1 .. Len(b) - sended : sended + k = j
      <4>1. j - sended \in 1 .. Len(b) - sended /\ sended + (j - sended) = j
        BY <1>6, <1>8, <2>2
      <4>2. QED
        BY <4>1
    <3>2. g[k] = b[j] /\ k \in DOMAIN g
      BY <1>9, <3>1
    <3>3. g[k] \in Range(g)
      BY <3>2 DEF Range
    <3>4. QED
      BY <1>11, <3>2, <3>3
  <2>3. QED
    BY <2>1, <2>2
<1>13. Last(ExtentBytes(mqttbuf[i])) \in Range(b)
  BY <1>4, <1>6, LastInBytes
<1>14. PICK j \in 1 .. Len(b) : b[j] = Last(ExtentBytes(mqttbuf[i]))
  BY <1>13 DEF Range
<1>15. QED
  BY <1>1, <1>3, <1>5, <1>12, <1>14

LEMMA SurviveStep ==
  ASSUME DataInv, SentOnWire, [Next]_vars, NEW i \in DOMAIN mqttbuf
  PROVE  Survives(mqttbuf[i])
<1>1. ASSUME UNCHANGED out
      PROVE  Survives(mqttbuf[i])
  BY <1>1, KeptSurvive DEF out
<1>2. ASSUME NEW c \in Commands, Type(c)
      PROVE  Survives(mqttbuf[i])
  BY <1>1, <1>2 DEF Type
<1>3. ASSUME NEW p \in {"ack me", "command", "other"}, Serve(p)
      PROVE  Survives(mqttbuf[i])
  BY <1>1, <1>3 DEF Serve
<1>4. CASE Hangup
  BY <1>1, <1>4 DEF Hangup
<1>5. ASSUME NEW f \in SUBSET {"in", "out"}, Poll(f)
      PROVE  Survives(mqttbuf[i])
  BY <1>1, <1>5 DEF Poll
<1>6. CASE Stdin
  <2>1. CASE StdinBusy
    BY <1>1, <2>1 DEF StdinBusy
  <2>2. CASE StdinUnpacked
    <3>1. mqttbuf # <<>>
      BY DEF DataInv, DataTypes
    <3>2. "discarded" \in faults'
      BY <2>2, <3>1 DEF StdinUnpacked, CommandFaults
    <3>3. QED
      BY <3>2 DEF Survives
  <2>3. ASSUME NEW c \in Commands \ {"exit"}, StdinSent(c)
        PROVE  Survives(mqttbuf[i])
    BY <2>3, SentSurvive
  <2>4. ASSUME NEW c \in Commands \ {"exit"}, NEW n \in 1 .. Buffered(PackedBy(c)), StdinPart(c, n)
        PROVE  Survives(mqttbuf[i])
    BY <2>4, PartSurvive
  <2>5. QED
    BY <1>6, <2>1, <2>2, <2>3, <2>4 DEF Stdin
<1>7. CASE Socket
  <2>1. CASE HandleSocket \/ RecvEof \/ RecvAgain \/ OutIdle
    BY <1>1, <2>1 DEF HandleSocket, RecvEof, RecvAgain, OutIdle
  <2>2. CASE RecvPkt
    <3>1. CASE RecvOther
      BY <1>1, <3>1 DEF RecvOther
    <3>2. CASE RecvAnswered
      BY <3>2, KeptSurvive DEF RecvAnswered
    <3>3. CASE RecvCommand
      <4>1. Extents("cmdret") \in Seq(Ext)
        BY ExtentsAre DEF DataInv, DataTypes, Kinds
      <4>2. QED
        BY <3>3, <4>1, BehindSurvive DEF RecvCommand, DataInv
    <3>4. QED
      BY <2>2, <3>1, <3>2, <3>3 DEF RecvPkt
  <2>3. ASSUME NEW n \in 0 .. Buffered(mqttbuf), OutPart(n)
        PROVE  Survives(mqttbuf[i])
    BY <2>3, KeptSurvive DEF OutPart
  <2>4. CASE OutDone
    BY <2>4, DoneSurvive
  <2>5. QED
    BY <1>7, <2>1, <2>2, <2>3, <2>4 DEF Socket
<1>8. CASE Fails
  BY <1>1, <1>8 DEF Fails, StdinFails, StdinUnsent, RecvError, OutError
<1>9. CASE UNCHANGED vars
  BY <1>1, <1>9 DEF vars
<1>10. QED
  BY <1>2, <1>3, <1>4, <1>5, <1>6, <1>7, <1>8, <1>9 DEF Next

(* sample.c:341-347, 421-529, 859, 912.  For every way in which the kernel
   takes the packets in parts, a packet leaves the buffer only when its last
   byte is on the wire, unless publish has thrown it away or a part has ended
   inside an extent. *)
THEOREM RepliesLeaveSent == Spec => RepliesSurvive
<1>1. Init => SentOnWire
  BY DEF Init, SentOnWire
<1>2. ClientInv /\ SentOnWire /\ [Next]_vars => SentOnWire'
  BY SentStep DEF ClientInv
<1>3. ClientInv /\ SentOnWire /\ [Next]_vars =>
        [\A i \in DOMAIN mqttbuf :
           \/ mqttbuf[i] \in Range(mqttbuf')
           \/ Last(ExtentBytes(mqttbuf[i])) \in Range(wire')
           \/ faults' \cap {"discarded", "split"} # {}]_vars
  <2> SUFFICES ASSUME ClientInv, SentOnWire, [Next]_vars, NEW i \in DOMAIN mqttbuf
               PROVE  \/ mqttbuf[i] \in Range(mqttbuf')
                      \/ Last(ExtentBytes(mqttbuf[i])) \in Range(wire')
                      \/ faults' \cap {"discarded", "split"} # {}
    OBVIOUS
  <2>1. Survives(mqttbuf[i])
    BY SurviveStep DEF ClientInv
  <2>2. QED
    BY <2>1 DEF Survives
<1>4. QED
  BY <1>1, <1>2, <1>3, ClientInvHolds, PTL DEF Spec, RepliesSurvive
=============================================================================
