---------------------------- MODULE SequenceFacts ----------------------------
(***************************************************************************)
(* What the folds of the community modules compute, for sequences of every *)
(* length: the sum of the lengths of a list of extents, and the sequence   *)
(* that a sequence of sequences is flattened to.                           *)
(*                                                                         *)
(* Induction is stated for sets, not for predicates, so that it can be     *)
(* used by giving the set.                                                 *)
(***************************************************************************)
EXTENDS Integers, Sequences, SequencesExt, FiniteSets, TLAPS,
        SequenceTheorems, FiniteSetTheorems, WellFoundedInduction

Less == {pair \in Nat \X Nat : pair[1] < pair[2]}

LEMMA LessIsWellFounded == IsWellFoundedOn(Less, Nat)
BY NatLessThanWellFounded DEF OpToRel, Less

LEMMA SmallestOf ==
  ASSUME NEW T, T \subseteq Nat, T # {}
  PROVE  \E m \in T : \A n \in T : m <= n
<1>1. PICK m \in T : \A n \in T : ~ (<<n, m>> \in Less)
  BY LessIsWellFounded, WFMin
<1>2. ASSUME NEW n \in T PROVE m <= n
  <2>1. n \in Nat /\ m \in Nat
    OBVIOUS
  <2>2. n < m => <<n, m>> \in Less
    BY <2>1 DEF Less
  <2>3. QED BY <1>1, <2>1, <2>2
<1>3. QED BY <1>2

(* A set with 0, and with n + 1 whenever it has n, has every number. *)
LEMMA InductionOn ==
  ASSUME NEW T, 0 \in T, \A n \in Nat : n \in T => n + 1 \in T
  PROVE  \A n \in Nat : n \in T
<1> SUFFICES ASSUME NEW k \in Nat \ T PROVE FALSE
  OBVIOUS
<1>1. PICK m \in Nat \ T : \A n \in Nat \ T : m <= n
  BY SmallestOf
<1>2. m # 0 /\ m - 1 \in Nat
  BY <1>1
<1>3. m - 1 \in T
  BY <1>1, <1>2
<1>4. QED BY <1>1, <1>2, <1>3

(* The same for sequences: a set with <<>>, and with every Append of what it *)
(* has, has every sequence.                                                  *)
LEMMA InductionOnSeq ==
  ASSUME NEW S, NEW T, <<>> \in T,
         \A s \in Seq(S), e \in S : s \in T => Append(s, e) \in T
  PROVE  \A s \in Seq(S) : s \in T
<1> DEFINE N == {n \in Nat : \A s \in Seq(S) : Len(s) = n => s \in T}
<1>1. 0 \in N
  BY EmptySeq
<1>2. ASSUME NEW n \in Nat, n \in N PROVE n + 1 \in N
  <2>1. ASSUME NEW s \in Seq(S), Len(s) = n + 1 PROVE s \in T
    <3>1. s # <<>>
      BY <2>1, EmptySeq
    <3>2. PICK t \in Seq(S), e \in S : s = Append(t, e)
      BY <3>1, SequenceEmptyOrAppend
    <3>3. Len(t) = n
      BY <2>1, <3>2, AppendProperties, LenProperties
    <3>4. QED BY <1>2, <3>2, <3>3
  <2>2. QED BY <2>1
<1> HIDE DEF N
<1>3. \A n \in Nat : n \in N
  BY <1>1, <1>2, InductionOn
<1>4. ASSUME NEW s \in Seq(S) PROVE s \in T
  <2>1. Len(s) \in N
    BY <1>3, LenProperties
  <2>2. QED BY <2>1 DEF N
<1>5. QED BY <1>4

LEMMA ConcatAppend ==
  ASSUME NEW S, NEW s \in Seq(S), NEW t \in Seq(S), NEW e \in S
  PROVE  s \o Append(t, e) = Append(s \o t, e)
<1>1. <<e>> \in Seq(S) /\ s \o t \in Seq(S)
  BY ConcatProperties
<1>2. Append(t, e) = t \o <<e>> /\ Append(s \o t, e) = (s \o t) \o <<e>>
  BY <1>1, AppendIsConcat
<1>3. QED BY <1>1, <1>2, ConcatAssociative

-----------------------------------------------------------------------------
(***************************************************************************)
(* Flattening.                                                             *)
(***************************************************************************)
IsFlattening(f, seqs) ==
  f = [i \in 1 .. Len(seqs) |-> IF i = 1 THEN seqs[i] ELSE f[i-1] \o seqs[i]]

LEMMA FlattenIs ==
  ASSUME NEW seqs, Len(seqs) # 0
  PROVE  FlattenSeq(seqs) = (CHOOSE f : IsFlattening(f, seqs))[Len(seqs)]
BY DEF FlattenSeq, IsFlattening

(* A flattening of the first n sequences, from which the next one comes. *)
LEMMA FlattenExists ==
  ASSUME NEW S, NEW seqs \in Seq(Seq(S)), seqs # <<>>
  PROVE  \E f \in [1 .. Len(seqs) -> Seq(S)] : IsFlattening(f, seqs)
<1> DEFINE Upto(n) == \E f \in [1 .. n -> Seq(S)] :
                        \A i \in 1 .. n : f[i] = IF i = 1 THEN seqs[i] ELSE f[i-1] \o seqs[i]
           T == {n \in Nat : n + 1 <= Len(seqs) => Upto(n + 1)}
<1>0. Len(seqs) \in Nat \ {0} /\ \A i \in 1 .. Len(seqs) : seqs[i] \in Seq(S)
  BY EmptySeq, ElementOfSeq
<1>1. 0 \in T
  <2>1. 1 \in 1 .. Len(seqs)
    BY <1>0
  <2>2. seqs[1] \in Seq(S)
    BY <1>0, <2>1
  <2>3. [i \in 1 .. 1 |-> seqs[1]] \in [1 .. 1 -> Seq(S)]
    BY <2>2
  <2>4. \A i \in 1 .. 1 : i = 1
    OBVIOUS
  <2>5. Upto(1)
    BY <2>3, <2>4
  <2>6. QED BY <2>5
<1>2. ASSUME NEW n \in Nat, n \in T PROVE n + 1 \in T
  <2>0. (n + 1) + 1 = n + 2
    OBVIOUS
  <2>1. SUFFICES ASSUME n + 2 <= Len(seqs) PROVE Upto(n + 2)
    <3> HIDE DEF Upto
    <3>1. n + 2 <= Len(seqs) => Upto(n + 2)
      BY <2>1
    <3>2. QED BY <2>0, <3>1
  <2>2. PICK f \in [1 .. n + 1 -> Seq(S)] :
          \A i \in 1 .. n + 1 : f[i] = IF i = 1 THEN seqs[i] ELSE f[i-1] \o seqs[i]
    <3>1. n + 1 <= Len(seqs)
      BY <1>0, <2>1
    <3>2. Upto(n + 1)
      BY <1>2, <3>1
    <3>3. QED BY <3>2
  <2> DEFINE g == [i \in 1 .. n + 2 |-> IF i = n + 2 THEN f[n + 1] \o seqs[n + 2] ELSE f[i]]
  <2>3. f[n + 1] \o seqs[n + 2] \in Seq(S)
    <3>1. f[n + 1] \in Seq(S) /\ seqs[n + 2] \in Seq(S)
      BY <1>0, <2>1
    <3>2. QED BY <3>1, ConcatProperties
  <2>4. g \in [1 .. n + 2 -> Seq(S)]
    BY <2>3
  <2>5. ASSUME NEW i \in 1 .. n + 2
        PROVE  g[i] = IF i = 1 THEN seqs[i] ELSE g[i-1] \o seqs[i]
    <3>1. CASE i = n + 2
      <4>1. i - 1 \in 1 .. n + 2 /\ i - 1 # n + 2 /\ i - 1 = n + 1 /\ i # 1
        BY <3>1
      <4>2. QED BY <3>1, <4>1
    <3>2. CASE i # n + 2
      <4>1. i \in 1 .. n + 1 /\ g[i] = f[i] /\ (i # 1 => i - 1 \in 1 .. n + 1 /\ g[i - 1] = f[i - 1])
        BY <3>2
      <4>2. QED BY <2>2, <4>1
    <3>3. QED BY <3>1, <3>2
  <2> HIDE DEF g
  <2>6. QED BY <2>4, <2>5
<1> HIDE DEF T
<1>3. \A n \in Nat : n \in T
  BY <1>1, <1>2, InductionOn
<1>4. Len(seqs) - 1 \in T
  BY <1>0, <1>3
<1>5. Upto(Len(seqs))
  <2> HIDE DEF Upto
  <2>1. (Len(seqs) - 1) + 1 = Len(seqs) /\ Len(seqs) <= Len(seqs)
    BY <1>0
  <2>2. QED BY <1>4, <2>1 DEF T
<1>6. QED
  BY <1>5 DEF IsFlattening

LEMMA FlattenUnique ==
  ASSUME NEW S, NEW seqs \in Seq(Seq(S)), NEW f, NEW g,
         IsFlattening(f, seqs), IsFlattening(g, seqs)
  PROVE  \A i \in 1 .. Len(seqs) : f[i] = g[i]
<1> DEFINE T == {n \in Nat : n + 1 <= Len(seqs) => f[n + 1] = g[n + 1]}
<1>0. /\ Len(seqs) \in Nat
      /\ \A i \in 1 .. Len(seqs) : f[i] = IF i = 1 THEN seqs[i] ELSE f[i-1] \o seqs[i]
      /\ \A i \in 1 .. Len(seqs) : g[i] = IF i = 1 THEN seqs[i] ELSE g[i-1] \o seqs[i]
  <2>1. ASSUME NEW h, IsFlattening(h, seqs), NEW i \in 1 .. Len(seqs)
        PROVE  h[i] = IF i = 1 THEN seqs[i] ELSE h[i-1] \o seqs[i]
    BY <2>1, Zenon DEF IsFlattening
  <2>2. QED BY <2>1
<1>1. 0 \in T
  BY <1>0
<1>2. ASSUME NEW n \in Nat, n \in T PROVE n + 1 \in T
  <2>1. SUFFICES ASSUME n + 2 <= Len(seqs) PROVE f[n + 2] = g[n + 2]
    OBVIOUS
  <2>2. f[n + 1] = g[n + 1]
    BY <1>0, <1>2, <2>1
  <2>3. n + 2 \in 1 .. Len(seqs) /\ n + 2 # 1 /\ (n + 2) - 1 = n + 1
    BY <1>0, <2>1
  <2>4. QED BY <1>0, <2>2, <2>3
<1> HIDE DEF T
<1>3. \A n \in Nat : n \in T
  BY <1>1, <1>2, InductionOn
<1>4. TAKE i \in 1 .. Len(seqs)
<1>5. i - 1 \in T /\ (i - 1) + 1 = i
  BY <1>0, <1>3
<1>6. QED BY <1>0, <1>5 DEF T

(* The flattening of a sequence and one sequence more. *)
LEMMA FlattenAppend ==
  ASSUME NEW S, NEW seqs \in Seq(Seq(S)), NEW s \in Seq(S)
  PROVE  /\ FlattenSeq(seqs) \in Seq(S)
         /\ FlattenSeq(Append(seqs, s)) = FlattenSeq(seqs) \o s
<1>1. ASSUME NEW q \in Seq(Seq(S)), q # <<>>, NEW f, IsFlattening(f, q)
      PROVE  FlattenSeq(q) = f[Len(q)]
  <2>1. Len(q) \in Nat \ {0}
    BY <1>1, EmptySeq
  <2>2. FlattenSeq(q) = (CHOOSE h : IsFlattening(h, q))[Len(q)]
    BY <2>1, FlattenIs
  <2>3. IsFlattening(CHOOSE h : IsFlattening(h, q), q)
    BY <1>1
  <2>4. QED BY <1>1, <2>1, <2>2, <2>3, FlattenUnique
<1>2. /\ Append(seqs, s) \in Seq(Seq(S)) /\ Append(seqs, s) # <<>>
      /\ Len(Append(seqs, s)) = Len(seqs) + 1 /\ Len(seqs) \in Nat
      /\ \A i \in 1 .. Len(seqs) : Append(seqs, s)[i] = seqs[i]
      /\ Append(seqs, s)[Len(seqs) + 1] = s
  BY AppendProperties
<1>3. PICK f \in [1 .. Len(seqs) + 1 -> Seq(S)] : IsFlattening(f, Append(seqs, s))
  BY <1>2, FlattenExists
<1>4. FlattenSeq(Append(seqs, s)) = f[Len(seqs) + 1]
  BY <1>1, <1>2, <1>3
<1>5. CASE seqs = <<>>
  <2>1. FlattenSeq(seqs) = <<>>
    BY <1>5, EmptySeq DEF FlattenSeq
  <2>2. Len(seqs) = 0
    BY <1>5, EmptySeq
  <2>3. f[1] = s
    BY <1>2, <1>3, <2>2 DEF IsFlattening
  <2>4. QED BY <1>4, <2>1, <2>2, <2>3, ConcatEmptySeq, EmptySeq
<1>6. CASE seqs # <<>>
  <2>1. PICK g \in [1 .. Len(seqs) -> Seq(S)] : IsFlattening(g, seqs)
    BY <1>6, FlattenExists
  <2>2. FlattenSeq(seqs) = g[Len(seqs)] /\ Len(seqs) \in 1 .. Len(seqs)
    BY <1>1, <1>2, <1>6, <2>1, EmptySeq
  <2> DEFINE h == [i \in 1 .. Len(seqs) |-> f[i]]
  <2>3. IsFlattening(h, seqs)
    <3>1. ASSUME NEW i \in 1 .. Len(seqs)
          PROVE  h[i] = IF i = 1 THEN seqs[i] ELSE h[i-1] \o seqs[i]
      <4>1. i \in 1 .. Len(seqs) + 1 /\ (i # 1 => i - 1 \in 1 .. Len(seqs))
        BY <1>2
      <4>2. f[i] = IF i = 1 THEN seqs[i] ELSE f[i-1] \o seqs[i]
        BY <1>2, <1>3, <4>1 DEF IsFlattening
      <4>3. QED BY <4>1, <4>2
    <3>2. QED BY <3>1 DEF IsFlattening
  <2> HIDE DEF h
  <2>4. h[Len(seqs)] = g[Len(seqs)]
    <3>1. \A i \in 1 .. Len(seqs) : h[i] = g[i]
      BY <1>6, <2>1, <2>3, FlattenUnique, SMTT(60)
    <3>2. QED BY <2>2, <3>1, Zenon
  <2>5. f[Len(seqs)] = g[Len(seqs)]
    BY <2>2, <2>4 DEF h
  <2>6. Len(seqs) + 1 \in 1 .. Len(seqs) + 1 /\ Len(seqs) + 1 # 1 /\ (Len(seqs) + 1) - 1 = Len(seqs)
    BY <1>2, <2>2
  <2>7. f[Len(seqs) + 1] = f[Len(seqs)] \o s
    BY <1>2, <1>3, <2>6 DEF IsFlattening
  <2>8. QED BY <1>4, <2>1, <2>2, <2>5, <2>7
<1>7. QED BY <1>5, <1>6

LEMMA FlattenNone == FlattenSeq(<<>>) = <<>>
<1>1. Len(<<>>) = 0
  BY EmptySeq
<1>2. QED BY <1>1 DEF FlattenSeq

(* The first k sequences. *)
LEMMA FirstOnes ==
  ASSUME NEW S, NEW seqs \in Seq(S), NEW k \in 0 .. Len(seqs)
  PROVE  /\ SubSeq(seqs, 1, k) \in Seq(S) /\ Len(SubSeq(seqs, 1, k)) = k
         /\ \A i \in 1 .. k : SubSeq(seqs, 1, k)[i] = seqs[i]
         /\ k < Len(seqs) => /\ seqs[k + 1] \in S
                             /\ SubSeq(seqs, 1, k + 1) = Append(SubSeq(seqs, 1, k), seqs[k + 1])
         /\ SubSeq(seqs, 1, 0) = <<>>
         /\ SubSeq(seqs, 1, Len(seqs)) = seqs
OBVIOUS

(* Flattened, the first k sequences are where the flattening of all begins, *)
(* and what follows is the next one.                                        *)
LEMMA FlattenNext ==
  ASSUME NEW S, NEW seqs \in Seq(Seq(S)), NEW k \in 0 .. Len(seqs), k < Len(seqs)
  PROVE  /\ FlattenSeq(SubSeq(seqs, 1, k)) \in Seq(S)
         /\ FlattenSeq(SubSeq(seqs, 1, k + 1)) = FlattenSeq(SubSeq(seqs, 1, k)) \o seqs[k + 1]
<1>1. SubSeq(seqs, 1, k) \in Seq(Seq(S)) /\ seqs[k + 1] \in Seq(S)
      /\ SubSeq(seqs, 1, k + 1) = Append(SubSeq(seqs, 1, k), seqs[k + 1])
  BY FirstOnes
<1>2. QED BY <1>1, FlattenAppend

Begins(s, t) == Len(s) <= Len(t) /\ \A i \in 1 .. Len(s) : t[i] = s[i]

LEMMA FlattenBegins ==
  ASSUME NEW S, NEW seqs \in Seq(Seq(S)), NEW k \in 0 .. Len(seqs)
  PROVE  /\ FlattenSeq(SubSeq(seqs, 1, k)) \in Seq(S)
         /\ FlattenSeq(seqs) \in Seq(S)
         /\ Begins(FlattenSeq(SubSeq(seqs, 1, k)), FlattenSeq(seqs))
<1> DEFINE F(j) == FlattenSeq(SubSeq(seqs, 1, j))
           n == Len(seqs)
           T == {d \in Nat : k + d <= n => Begins(F(k), F(k + d))}
<1>0. n \in Nat /\ k \in Nat /\ k <= n
  OBVIOUS
<1>1. ASSUME NEW j \in 0 .. n PROVE F(j) \in Seq(S)
  <2>1. SubSeq(seqs, 1, j) \in Seq(Seq(S)) /\ <<>> \in Seq(S)
    BY <1>0, FirstOnes
  <2>2. QED BY <2>1, FlattenAppend
<1>2. ASSUME NEW j \in 0 .. n, j < n PROVE F(j + 1) = F(j) \o seqs[j + 1] /\ seqs[j + 1] \in Seq(S)
  <2>1. F(j + 1) = F(j) \o seqs[j + 1]
    BY <1>2, FlattenNext
  <2>2. j + 1 \in 1 .. Len(seqs)
    BY <1>0, <1>2
  <2>3. seqs[j + 1] \in Seq(S)
    BY <2>2, ElementOfSeq
  <2>4. QED BY <2>1, <2>3
<1>3. F(n) = FlattenSeq(seqs)
  BY FirstOnes, <1>0
<1> HIDE DEF F, n
<1>4. 0 \in T
  <2>1. k + 0 = k /\ F(k) \in Seq(S)
    BY <1>0, <1>1
  <2>2. Begins(F(k), F(k))
    BY <2>1 DEF Begins
  <2>3. QED BY <2>1, <2>2
<1>5. ASSUME NEW d \in Nat, d \in T PROVE d + 1 \in T
  <2>1. SUFFICES ASSUME k + (d + 1) <= n PROVE Begins(F(k), F(k + (d + 1)))
    OBVIOUS
  <2>2. k + d \in 0 .. n /\ k + d < n /\ k + (d + 1) = (k + d) + 1 /\ k \in 0 .. n
    BY <1>0, <2>1
  <2>3. Begins(F(k), F(k + d))
    BY <1>5, <2>2
  <2>4. PICK a \in Seq(S), b \in Seq(S), c \in Seq(S) :
          a = F(k) /\ b = F(k + d) /\ c = seqs[(k + d) + 1]
    BY <1>1, <1>2, <2>2
  <2>5. F(k + (d + 1)) = b \o c
    BY <1>2, <2>2, <2>4
  <2>6. Len(b \o c) = Len(b) + Len(c) /\ (\A i \in 1 .. Len(b) : (b \o c)[i] = b[i])
        /\ Len(a) \in Nat /\ Len(b) \in Nat /\ Len(c) \in Nat
    BY <2>4, ConcatProperties
  <2>7. Begins(a, b \o c)
    <3>1. Len(a) <= Len(b) /\ \A i \in 1 .. Len(a) : b[i] = a[i]
      BY <2>3, <2>4 DEF Begins
    <3>2. ASSUME NEW i \in 1 .. Len(a) PROVE (b \o c)[i] = a[i]
      <4>1. i \in 1 .. Len(b)
        BY <2>6, <3>1
      <4>2. QED BY <2>6, <3>1, <4>1
    <3>3. Len(a) <= Len(b \o c)
      BY <2>6, <3>1
    <3>4. QED BY <3>2, <3>3 DEF Begins
  <2>8. QED BY <2>4, <2>5, <2>7
<1> HIDE DEF T
<1>6. \A d \in Nat : d \in T
  BY <1>4, <1>5, InductionOn
<1>7. n - k \in T /\ k + (n - k) = n
  BY <1>0, <1>6
<1>8. Begins(F(k), F(n))
  BY <1>0, <1>7 DEF T
<1>9. F(k) \in Seq(S) /\ F(n) \in Seq(S)
  BY <1>0, <1>1
<1>10. QED BY <1>3, <1>8, <1>9 DEF F, n

LEMMA FlattenConcat ==
  ASSUME NEW S, NEW a \in Seq(Seq(S)), NEW b \in Seq(Seq(S))
  PROVE  /\ FlattenSeq(a) \in Seq(S) /\ FlattenSeq(b) \in Seq(S)
         /\ FlattenSeq(a \o b) = FlattenSeq(a) \o FlattenSeq(b)
<1> DEFINE T == {q \in Seq(Seq(S)) : FlattenSeq(a \o q) = FlattenSeq(a) \o FlattenSeq(q)}
<1>1. ASSUME NEW q \in Seq(Seq(S)) PROVE FlattenSeq(q) \in Seq(S)
  <2>1. <<>> \in Seq(S)
    BY EmptySeq
  <2>2. QED BY <2>1, FlattenAppend
<1>2. <<>> \in T
  <2>1. <<>> \in Seq(Seq(S)) /\ a \o <<>> = a
    BY EmptySeq, ConcatEmptySeq
  <2>2. FlattenSeq(a) \o <<>> = FlattenSeq(a)
    BY <1>1, ConcatEmptySeq
  <2>3. QED BY <2>1, <2>2, FlattenNone
<1>3. ASSUME NEW q \in Seq(Seq(S)), NEW e \in Seq(S), q \in T PROVE Append(q, e) \in T
  <2>1. a \o q \in Seq(Seq(S)) /\ Append(q, e) \in Seq(Seq(S)) /\ a \o Append(q, e) = Append(a \o q, e)
    BY ConcatProperties, AppendProperties, ConcatAppend
  <2>2. FlattenSeq(Append(a \o q, e)) = FlattenSeq(a \o q) \o e /\ FlattenSeq(Append(q, e)) = FlattenSeq(q) \o e
    BY <2>1, FlattenAppend
  <2>3. FlattenSeq(a \o q) = FlattenSeq(a) \o FlattenSeq(q)
    BY <1>3
  <2>4. (FlattenSeq(a) \o FlattenSeq(q)) \o e = FlattenSeq(a) \o (FlattenSeq(q) \o e)
    <3>1. PICK x \in Seq(S), y \in Seq(S) : x = FlattenSeq(a) /\ y = FlattenSeq(q)
      BY <1>1
    <3>2. (x \o y) \o e = x \o (y \o e)
      BY ConcatAssociative, SMTT(60)
    <3>3. QED BY <3>1, <3>2
  <2>5. FlattenSeq(a \o Append(q, e)) = FlattenSeq(a) \o FlattenSeq(Append(q, e))
    BY <2>1, <2>2, <2>3, <2>4
  <2>6. QED BY <2>1, <2>5
<1> HIDE DEF T
<1>4. \A q \in Seq(Seq(S)) : q \in T
  BY <1>2, <1>3, InductionOnSeq
<1>5. QED BY <1>1, <1>4 DEF T

-----------------------------------------------------------------------------
(***************************************************************************)
(* Sums.  P[k] is the sum of v[1] .. v[k].                                 *)
(***************************************************************************)
IsSums(P, v, n) ==
  /\ P \in [0 .. n -> Nat]
  /\ P[0] = 0
  /\ \A k \in 1 .. n : P[k] = P[k - 1] + v[k]

LEMMA SumsExist ==
  ASSUME NEW n \in Nat, NEW v \in [1 .. n -> Nat]
  PROVE  \E P : IsSums(P, v, n)
<1> DEFINE Upto(m) == \E P : IsSums(P, v, m)
           T == {m \in Nat : m <= n => Upto(m)}
<1>1. 0 \in T
  <2>1. IsSums([k \in 0 .. 0 |-> 0], v, 0)
    BY DEF IsSums
  <2>2. QED BY <2>1
<1>2. ASSUME NEW m \in Nat, m \in T PROVE m + 1 \in T
  <2>1. SUFFICES ASSUME m + 1 <= n PROVE Upto(m + 1)
    BY DEF T
  <2>2. PICK P : IsSums(P, v, m)
    <3>1. m <= n
      BY <2>1
    <3>2. Upto(m)
      BY <1>2, <3>1
    <3>3. QED BY <3>2
  <2> DEFINE Q == [k \in 0 .. m + 1 |-> IF k = m + 1 THEN P[m] + v[m + 1] ELSE P[k]]
  <2>3. P \in [0 .. m -> Nat] /\ P[0] = 0 /\ \A k \in 1 .. m : P[k] = P[k - 1] + v[k]
    BY <2>2 DEF IsSums
  <2>4. P[m] + v[m + 1] \in Nat
    BY <2>1, <2>3
  <2>5. Q \in [0 .. m + 1 -> Nat] /\ Q[0] = 0
    BY <2>3, <2>4
  <2>6. ASSUME NEW k \in 1 .. m + 1 PROVE Q[k] = Q[k - 1] + v[k]
    <3>1. CASE k = m + 1
      <4>1. k - 1 \in 0 .. m + 1 /\ k - 1 # m + 1 /\ k - 1 = m
        BY <3>1
      <4>2. QED BY <3>1, <4>1
    <3>2. CASE k # m + 1
      <4>1. k \in 1 .. m /\ k - 1 \in 0 .. m /\ Q[k] = P[k] /\ Q[k - 1] = P[k - 1]
        BY <3>2
      <4>2. QED BY <2>3, <4>1
    <3>3. QED BY <3>1, <3>2
  <2> HIDE DEF Q
  <2>7. IsSums(Q, v, m + 1)
    BY <2>5, <2>6 DEF IsSums
  <2>8. QED BY <2>7
<1> HIDE DEF T, Upto
<1>3. n \in T
  BY <1>1, <1>2, InductionOn
<1>4. QED BY <1>3 DEF T, Upto

(* v is u with d more at x; so are its sums from x on. *)
MoreAt(v, u, n, x, d) ==
  /\ n \in Nat /\ u \in [1 .. n -> Nat] /\ v \in [1 .. n -> Nat] /\ x \in 1 .. n /\ d \in Nat
  /\ v[x] = u[x] + d
  /\ \A k \in 1 .. n : k # x => v[k] = u[k]

LEMMA SumsDiffer ==
  ASSUME NEW n, NEW u, NEW v, NEW x, NEW d, NEW P, NEW Q, MoreAt(v, u, n, x, d),
         IsSums(P, u, n), IsSums(Q, v, n)
  PROVE  Q[n] = P[n] + d
<1> DEFINE T == {k \in Nat : k <= n => Q[k] = P[k] + (IF k >= x THEN d ELSE 0)}
<1>0. /\ P \in [0 .. n -> Nat] /\ P[0] = 0 /\ \A k \in 1 .. n : P[k] = P[k - 1] + u[k]
      /\ Q \in [0 .. n -> Nat] /\ Q[0] = 0 /\ \A k \in 1 .. n : Q[k] = Q[k - 1] + v[k]
  BY DEF IsSums
<1>a. /\ n \in Nat /\ u \in [1 .. n -> Nat] /\ v \in [1 .. n -> Nat] /\ x \in 1 .. n /\ d \in Nat
      /\ v[x] = u[x] + d /\ \A k \in 1 .. n : k # x => v[k] = u[k]
  BY DEF MoreAt
<1>1. 0 \in T
  BY <1>0, <1>a
<1>2. ASSUME NEW k \in Nat, k \in T PROVE k + 1 \in T
  <2>1. SUFFICES ASSUME k + 1 <= n PROVE Q[k + 1] = P[k + 1] + (IF k + 1 >= x THEN d ELSE 0)
    OBVIOUS
  <2>2. Q[k] = P[k] + (IF k >= x THEN d ELSE 0)
    BY <1>a, <1>2, <2>1
  <2>3. k + 1 \in 1 .. n /\ (k + 1) - 1 = k /\ k \in 0 .. n
    BY <1>a, <2>1
  <2>4. P[k + 1] = P[k] + u[k + 1] /\ Q[k + 1] = Q[k] + v[k + 1]
    BY <1>0, <1>a, <2>3
  <2>5. P[k] \in Nat /\ u[k + 1] \in Nat /\ v[k + 1] \in Nat
    BY <1>0, <1>a, <2>3
  <2>6. CASE k + 1 = x
    <3>1. v[k + 1] = u[k + 1] + d
      BY <1>a, <2>6
    <3>2. Q[k] = P[k] /\ k + 1 >= x
      BY <1>a, <2>2, <2>5, <2>6
    <3>3. Q[k + 1] = P[k + 1] + d
      <4>1. PICK a \in Nat, b \in Nat : a = P[k] /\ b = u[k + 1]
        BY <2>5
      <4>2. Q[k + 1] = a + (b + d) /\ P[k + 1] = a + b
        BY <1>a, <2>4, <3>1, <3>2, <4>1
      <4>3. QED BY <1>a, <4>1, <4>2, SMTT(30)
    <3>4. QED BY <3>2, <3>3
  <2>7. CASE k + 1 # x
    <3>1. v[k + 1] = u[k + 1] /\ (k + 1 >= x <=> k >= x)
      BY <1>a, <2>3, <2>5, <2>7
    <3>2. PICK a \in Nat, b \in Nat : a = P[k] /\ b = u[k + 1]
      BY <2>5
    <3>3. Q[k + 1] = Q[k] + b /\ P[k + 1] = a + b /\ Q[k] = a + (IF k >= x THEN d ELSE 0)
      BY <2>2, <2>4, <3>1, <3>2
    <3>4. QED BY <1>a, <3>1, <3>2, <3>3, SMTT(30)
  <2>8. QED BY <2>6, <2>7
<1> HIDE DEF T
<1>3. n \in T
  BY <1>a, <1>1, <1>2, InductionOn
<1>4. QED BY <1>a, <1>3 DEF T

LEMMA SumsUnique ==
  ASSUME NEW n \in Nat, NEW v \in [1 .. n -> Nat],
         NEW P, NEW Q, IsSums(P, v, n), IsSums(Q, v, n)
  PROVE  Q[n] = P[n]
<1>1. CASE n = 0
  BY <1>1 DEF IsSums
<1>2. CASE n # 0
  <2>1. 1 \in 1 .. n /\ v[1] \in Nat /\ P[n] \in Nat
    BY <1>2 DEF IsSums
  <2>2. MoreAt(v, v, n, 1, 0)
    BY <2>1 DEF MoreAt
  <2>3. Q[n] = P[n] + 0
    BY <2>1, <2>2, SumsDiffer
  <2>4. QED BY <2>1, <2>3
<1>3. QED BY <1>1, <1>2

(***************************************************************************)
(* The sum over some of the places of a sequence, whichever is taken first.*)
(***************************************************************************)
Masked(w, n, s) == [i \in 1 .. n |-> IF i \in s THEN w[i] ELSE 0]

SumOver(w, n, s) == (CHOOSE P : IsSums(P, Masked(w, n, s), n))[n]

LEMMA SumOverIs ==
  ASSUME NEW n \in Nat, NEW w \in [1 .. n -> Nat], NEW s, NEW P, IsSums(P, Masked(w, n, s), n)
  PROVE  SumOver(w, n, s) = P[n] /\ P[n] \in Nat
<1>1. Masked(w, n, s) \in [1 .. n -> Nat]
  BY DEF Masked
<1>2. IsSums(CHOOSE Q : IsSums(Q, Masked(w, n, s), n), Masked(w, n, s), n)
  OBVIOUS
<1>3. (CHOOSE Q : IsSums(Q, Masked(w, n, s), n))[n] = P[n]
  BY <1>1, <1>2, SumsUnique
<1>4. QED BY <1>3 DEF SumOver, IsSums

LEMMA SumOverNone ==
  ASSUME NEW n \in Nat, NEW w \in [1 .. n -> Nat]
  PROVE  SumOver(w, n, {}) = 0
<1>1. IsSums([k \in 0 .. n |-> 0], Masked(w, n, {}), n)
  BY DEF IsSums, Masked
<1>2. QED BY <1>1, SumOverIs

LEMMA SumOverOneMore ==
  ASSUME NEW n \in Nat, NEW w \in [1 .. n -> Nat], NEW s \in SUBSET (1 .. n), NEW x \in s
  PROVE  SumOver(w, n, s) = w[x] + SumOver(w, n, s \ {x})
<1>1. PICK u \in [1 .. n -> Nat], v \in [1 .. n -> Nat], d \in Nat :
        u = Masked(w, n, s \ {x}) /\ v = Masked(w, n, s) /\ d = w[x]
  <2>1. Masked(w, n, s \ {x}) \in [1 .. n -> Nat] /\ Masked(w, n, s) \in [1 .. n -> Nat]
    BY DEF Masked
  <2>2. QED BY <2>1
<1>2. x \in 1 .. n /\ MoreAt(v, u, n, x, d)
  BY <1>1 DEF Masked, MoreAt
<1>3. PICK P : IsSums(P, u, n)
  BY SumsExist
<1>4. PICK Q : IsSums(Q, v, n)
  BY SumsExist
<1>5. Q[n] = P[n] + d
  BY <1>2, <1>3, <1>4, SumsDiffer
<1>6. SumOver(w, n, s) = Q[n] /\ SumOver(w, n, s \ {x}) = P[n] /\ P[n] \in Nat
  BY <1>1, <1>3, <1>4, SumOverIs
<1>7. QED BY <1>1, <1>5, <1>6

-----------------------------------------------------------------------------
(***************************************************************************)
(* The lengths of the extents of a list, added up.                         *)
(***************************************************************************)
LenSum(list) == FoldSeq(LAMBDA x, sum : x.len + sum, 0, list)

LenAt(list) == [i \in 1 .. Len(list) |-> list[i].len]

(* What the fold computes for every set of places. *)
IsTotal(it, list) ==
  it = [s \in SUBSET DOMAIN list |->
          IF s = {} THEN 0
                    ELSE LET x == CHOOSE x \in s : TRUE
                         IN  list[x].len + it[s \ {x}]]

LEMMA LenSumIs ==
  ASSUME NEW list
  PROVE  LenSum(list) = (CHOOSE it : IsTotal(it, list))[DOMAIN list]
BY DEF LenSum, FoldSeq, FoldFunction, FoldFunctionOnSet, MapThenFoldSet, IsTotal

LEMMA LensAre ==
  ASSUME NEW R, \A r \in R : r.len \in Nat, NEW list \in Seq(R)
  PROVE  /\ Len(list) \in Nat /\ DOMAIN list = 1 .. Len(list)
         /\ LenAt(list) \in [1 .. Len(list) -> Nat]
         /\ \A i \in 1 .. Len(list) : LenAt(list)[i] = list[i].len /\ list[i].len \in Nat
<1>1. ASSUME NEW i \in 1 .. Len(list) PROVE list[i].len \in Nat
  BY ElementOfSeq
<1>2. QED BY <1>1 DEF LenAt

LEMMA LenSumExists ==
  ASSUME NEW R, \A r \in R : r.len \in Nat, NEW list \in Seq(R)
  PROVE  \E it : IsTotal(it, list)
<1> DEFINE n == Len(list)
           w == LenAt(list)
           it == [s \in SUBSET DOMAIN list |-> SumOver(w, n, s)]
<1>1. n \in Nat /\ DOMAIN list = 1 .. n /\ w \in [1 .. n -> Nat] /\ \A i \in 1 .. n : w[i] = list[i].len
  BY LensAre
<1> HIDE DEF w, n
<1>2. ASSUME NEW s \in SUBSET DOMAIN list
      PROVE  it[s] = IF s = {} THEN 0
                               ELSE LET x == CHOOSE x \in s : TRUE
                                    IN  list[x].len + it[s \ {x}]
  <2>1. CASE s = {}
    BY <1>1, <2>1, SumOverNone
  <2>2. CASE s # {}
    <3>1. PICK x \in s : x = CHOOSE y \in s : TRUE
      BY <2>2
    <3>2. SumOver(w, n, s) = w[x] + SumOver(w, n, s \ {x})
      <4>1. s \in SUBSET (1 .. n) /\ x \in s
        BY <1>1, <3>1
      <4>2. QED BY <1>1, <4>1, SumOverOneMore
    <3>3. it[s] = list[x].len + it[s \ {x}]
      BY <1>1, <3>2
    <3> HIDE DEF it
    <3>4. QED BY <2>2, <3>1, <3>3
  <2>3. QED BY <2>1, <2>2
<1>3. it = [s \in SUBSET DOMAIN list |->
              IF s = {} THEN 0
                        ELSE LET x == CHOOSE x \in s : TRUE
                             IN  list[x].len + it[s \ {x}]]
  BY <1>2, Zenon
<1> HIDE DEF it
<1>4. QED BY <1>3 DEF IsTotal

LEMMA LenSumUnique ==
  ASSUME NEW R, \A r \in R : r.len \in Nat, NEW list \in Seq(R),
         NEW it, IsTotal(it, list)
  PROVE  \A s \in SUBSET DOMAIN list : it[s] = SumOver(LenAt(list), Len(list), s)
<1> DEFINE n == Len(list)
           w == LenAt(list)
           T == {c \in Nat : \A s \in SUBSET (1 .. n) : Cardinality(s) = c => it[s] = SumOver(w, n, s)}
<1>1. n \in Nat /\ DOMAIN list = 1 .. n /\ w \in [1 .. n -> Nat] /\ \A i \in 1 .. n : w[i] = list[i].len
  BY LensAre
<1>2. ASSUME NEW s \in SUBSET (1 .. n) PROVE IsFiniteSet(s) /\ Cardinality(s) \in Nat
  <2>1. IsFiniteSet(1 .. n)
    BY <1>1, FS_Interval
  <2>2. IsFiniteSet(s)
    BY <2>1, FS_Subset
  <2>3. QED BY <2>2, FS_CardinalityType
<1> HIDE DEF w, n
<1>0. \A s \in SUBSET DOMAIN list :
        /\ s = {} => it[s] = 0
        /\ s # {} => \E x \in s : it[s] = list[x].len + it[s \ {x}]
  BY Zenon DEF IsTotal
<1>3. 0 \in T
  <2>1. ASSUME NEW s \in SUBSET (1 .. n), Cardinality(s) = 0 PROVE it[s] = SumOver(w, n, s)
    <3>1. s = {} /\ s \in SUBSET DOMAIN list
      BY <1>1, <1>2, <2>1, FS_EmptySet
    <3>2. it[s] = 0
      BY <1>0, <3>1, Zenon
    <3>3. QED BY <1>1, <3>1, <3>2, SumOverNone
  <2>2. QED BY <2>1
<1>4. ASSUME NEW c \in Nat, c \in T PROVE c + 1 \in T
  <2>1. ASSUME NEW s \in SUBSET (1 .. n), Cardinality(s) = c + 1 PROVE it[s] = SumOver(w, n, s)
    <3>1. s # {} /\ s \in SUBSET DOMAIN list
      <4>1. Cardinality({}) = 0 /\ c + 1 # 0
        BY FS_EmptySet
      <4>2. Cardinality(s) # 0
        BY <2>1, <4>1
      <4>3. s # {}
        BY <4>1, <4>2
      <4>4. QED BY <1>1, <4>3
    <3>2. PICK x \in s : it[s] = list[x].len + it[s \ {x}]
      BY <1>0, <3>1, Zenon
    <3>3. s \ {x} \in SUBSET (1 .. n) /\ Cardinality(s \ {x}) = c
      <4>1. s \ {x} \in SUBSET (1 .. n)
        BY <3>2
      <4>2. Cardinality(s \ {x}) = Cardinality(s) - 1
        BY <1>2, <3>2, FS_RemoveElement, Zenon
      <4>3. QED BY <2>1, <4>1, <4>2
    <3>4. it[s \ {x}] = SumOver(w, n, s \ {x})
      BY <1>4, <3>3
    <3>5. SumOver(w, n, s) = w[x] + SumOver(w, n, s \ {x})
      <4>1. n \in Nat /\ w \in [1 .. n -> Nat] /\ s \in SUBSET (1 .. n) /\ x \in s
        BY <1>1, <3>2
      <4>2. QED BY <4>1, SumOverOneMore, SMTT(60)
    <3>6. QED BY <1>1, <3>2, <3>4, <3>5
  <2>2. QED BY <2>1
<1> HIDE DEF T
<1>5. \A c \in Nat : c \in T
  BY <1>3, <1>4, InductionOn
<1>6. ASSUME NEW s \in SUBSET (1 .. n) PROVE it[s] = SumOver(w, n, s)
  BY <1>2, <1>5 DEF T
<1>7. QED BY <1>1, <1>6 DEF w, n

(* The fold is the last of the sums from the front. *)
LEMMA LenSumIsSum ==
  ASSUME NEW R, \A r \in R : r.len \in Nat, NEW list \in Seq(R),
         NEW P, IsSums(P, LenAt(list), Len(list))
  PROVE  LenSum(list) = P[Len(list)] /\ LenSum(list) \in Nat
<1> DEFINE n == Len(list)
           w == LenAt(list)
           it == CHOOSE it : IsTotal(it, list)
<1>1. n \in Nat /\ DOMAIN list = 1 .. n /\ w \in [1 .. n -> Nat]
  BY LensAre
<1>2. IsTotal(it, list)
  BY LenSumExists
<1>3. LenSum(list) = it[DOMAIN list]
  BY LenSumIs
<1> HIDE DEF it
<1>4. it[DOMAIN list] = SumOver(w, n, DOMAIN list)
  BY <1>2, LenSumUnique
<1>5. Masked(w, n, 1 .. n) = w
  BY <1>1 DEF Masked
<1>6. IsSums(P, Masked(w, n, 1 .. n), n)
  BY <1>5
<1> HIDE DEF w, n
<1>7. SumOver(w, n, 1 .. n) = P[n] /\ P[n] \in Nat
  BY <1>1, <1>6, SumOverIs
<1>8. QED BY <1>1, <1>3, <1>4, <1>7 DEF n

(* Nothing adds up to nothing. *)
LEMMA LenSumEmpty == LenSum(<<>>) = 0
<1>1. <<>> \in Seq({}) /\ Len(<<>>) = 0
  BY EmptySeq
<1>2. IsSums([k \in 0 .. 0 |-> 0], LenAt(<<>>), Len(<<>>))
  BY <1>1 DEF IsSums
<1>3. LenSum(<<>>) = [k \in 0 .. 0 |-> 0][Len(<<>>)]
  BY <1>1, <1>2, LenSumIsSum
<1>4. QED BY <1>1, <1>3

(* One extent more adds its length. *)
LEMMA LenSumAppend ==
  ASSUME NEW R, \A r \in R : r.len \in Nat, NEW list \in Seq(R), NEW e \in R
  PROVE  /\ LenSum(list) \in Nat
         /\ LenSum(Append(list, e)) = LenSum(list) + e.len
<1> DEFINE n == Len(list)
           more == Append(list, e)
<1>1. /\ n \in Nat /\ more \in Seq(R) /\ Len(more) = n + 1 /\ more[n + 1] = e
      /\ \A i \in 1 .. n : more[i] = list[i]
  BY AppendProperties
<1> HIDE DEF more
<1>2. /\ LenAt(list) \in [1 .. n -> Nat] /\ LenAt(more) \in [1 .. n + 1 -> Nat]
      /\ LenAt(more)[n + 1] = e.len
      /\ \A i \in 1 .. n : LenAt(more)[i] = LenAt(list)[i]
  BY <1>1, LensAre DEF LenAt
<1>3. PICK P : IsSums(P, LenAt(more), n + 1)
  <2>1. n + 1 \in Nat
    BY <1>1
  <2>2. QED BY <1>2, <2>1, SumsExist
<1> DEFINE Q == [k \in 0 .. n |-> P[k]]
<1>4. /\ P \in [0 .. n + 1 -> Nat] /\ P[0] = 0
      /\ \A k \in 1 .. n + 1 : P[k] = P[k - 1] + LenAt(more)[k]
  BY <1>3 DEF IsSums
<1>5. IsSums(Q, LenAt(list), n)
  <2>1. Q \in [0 .. n -> Nat] /\ Q[0] = 0
    BY <1>1, <1>4
  <2>2. ASSUME NEW k \in 1 .. n PROVE Q[k] = Q[k - 1] + LenAt(list)[k]
    <3>1. k \in 1 .. n + 1 /\ k \in 0 .. n /\ k - 1 \in 0 .. n
      BY <1>1
    <3>2. P[k] = P[k - 1] + LenAt(list)[k]
      BY <1>2, <1>4, <3>1
    <3>3. QED BY <3>1, <3>2
  <2> HIDE DEF Q
  <2>3. QED BY <2>1, <2>2 DEF IsSums
<1>6. Q[n] = P[n]
  BY <1>1
<1> HIDE DEF Q
<1>7. LenSum(list) = Q[n] /\ LenSum(list) \in Nat
  BY <1>5, LenSumIsSum
<1>8. LenSum(more) = P[n + 1]
  BY <1>1, <1>3, LenSumIsSum
<1>9. n + 1 \in 1 .. n + 1 /\ (n + 1) - 1 = n
  BY <1>1
<1>10. P[n + 1] = P[n] + e.len
  BY <1>2, <1>4, <1>9
<1>11. QED BY <1>6, <1>7, <1>8, <1>10 DEF more

LEMMA LenSumConcat ==
  ASSUME NEW R, \A r \in R : r.len \in Nat, NEW a \in Seq(R), NEW b \in Seq(R)
  PROVE  /\ LenSum(a) \in Nat /\ LenSum(b) \in Nat
         /\ LenSum(a \o b) = LenSum(a) + LenSum(b)
<1> DEFINE T == {q \in Seq(R) : LenSum(q) \in Nat /\ LenSum(a \o q) = LenSum(a) + LenSum(q)}
           U == {q \in Seq(R) : LenSum(q) \in Nat}
<1>1. ASSUME NEW q \in Seq(R), NEW e \in R
      PROVE  /\ LenSum(q) \in Nat /\ e.len \in Nat
             /\ LenSum(Append(q, e)) = LenSum(q) + e.len
  BY LenSumAppend
<1>2. \A q \in Seq(R) : LenSum(q) \in Nat
  <2>1. <<>> \in U
    BY LenSumEmpty, EmptySeq
  <2>2. ASSUME NEW q \in Seq(R), NEW e \in R PROVE Append(q, e) \in U
    BY <1>1, AppendProperties
  <2> HIDE DEF U
  <2>3. \A q \in Seq(R) : q \in U
    BY <2>1, <2>2, InductionOnSeq
  <2>4. QED BY <2>3 DEF U
<1>3. <<>> \in T
  <2>1. <<>> \in Seq(R) /\ a \o <<>> = a
    BY EmptySeq, ConcatEmptySeq
  <2>2. QED BY <1>2, <2>1, LenSumEmpty
<1>4. ASSUME NEW q \in Seq(R), NEW e \in R, q \in T PROVE Append(q, e) \in T
  <2>1. a \o q \in Seq(R) /\ Append(q, e) \in Seq(R) /\ a \o Append(q, e) = Append(a \o q, e)
    BY ConcatProperties, AppendProperties, ConcatAppend
  <2>2. LenSum(Append(a \o q, e)) = LenSum(a \o q) + e.len /\ LenSum(Append(q, e)) = LenSum(q) + e.len
    BY <1>1, <2>1
  <2>3. LenSum(a \o q) = LenSum(a) + LenSum(q) /\ LenSum(a) \in Nat /\ LenSum(q) \in Nat /\ e.len \in Nat
    BY <1>1, <1>2, <1>4
  <2>4. LenSum(a \o Append(q, e)) = LenSum(a) + LenSum(Append(q, e))
    <3>1. PICK x \in Nat, y \in Nat, z \in Nat : x = LenSum(a) /\ y = LenSum(q) /\ z = e.len
      BY <2>3
    <3>2. (x + y) + z = x + (y + z)
      OBVIOUS
    <3>3. QED BY <2>1, <2>2, <2>3, <3>1, <3>2
  <2>5. LenSum(Append(q, e)) \in Nat
    BY <1>2, <2>1
  <2>6. QED BY <2>1, <2>4, <2>5
<1> HIDE DEF T
<1>5. \A q \in Seq(R) : q \in T
  BY <1>3, <1>4, InductionOnSeq
<1>6. QED BY <1>2, <1>5 DEF T

(* Extents at most as long, place by place, are together at most as long. *)
LEMMA LenSumAtMost ==
  ASSUME NEW R, \A r \in R : r.len \in Nat, NEW a \in Seq(R), NEW b \in Seq(R),
         Len(a) = Len(b), \A i \in 1 .. Len(a) : a[i].len <= b[i].len
  PROVE  LenSum(a) <= LenSum(b)
<1> DEFINE n == Len(a)
<1>1. /\ n \in Nat /\ LenAt(a) \in [1 .. n -> Nat] /\ LenAt(b) \in [1 .. n -> Nat]
      /\ \A i \in 1 .. n : LenAt(a)[i] <= LenAt(b)[i]
  <2>1. ASSUME NEW i \in 1 .. n PROVE LenAt(a)[i] <= LenAt(b)[i]
    <3>1. LenAt(a)[i] = a[i].len /\ LenAt(b)[i] = b[i].len
      BY LensAre
    <3>2. QED BY <3>1
  <2>2. n \in Nat /\ LenAt(a) \in [1 .. n -> Nat] /\ LenAt(b) \in [1 .. n -> Nat]
    BY LensAre
  <2>3. QED BY <2>1, <2>2
<1>2. PICK P : IsSums(P, LenAt(a), n)
  BY <1>1, SumsExist
<1>3. PICK Q : IsSums(Q, LenAt(b), n)
  BY <1>1, SumsExist
<1>4. LenSum(a) = P[n] /\ LenSum(b) = Q[n]
  BY <1>2, <1>3, LenSumIsSum
<1> HIDE DEF n
<1>5. /\ P \in [0 .. n -> Nat] /\ P[0] = 0 /\ \A k \in 1 .. n : P[k] = P[k - 1] + LenAt(a)[k]
      /\ Q \in [0 .. n -> Nat] /\ Q[0] = 0 /\ \A k \in 1 .. n : Q[k] = Q[k - 1] + LenAt(b)[k]
  BY <1>2, <1>3 DEF IsSums
<1> DEFINE T == {k \in Nat : k <= n => P[k] <= Q[k]}
<1>6. 0 \in T
  BY <1>5
<1>7. ASSUME NEW k \in Nat, k \in T PROVE k + 1 \in T
  <2>1. SUFFICES ASSUME k + 1 <= n PROVE P[k + 1] <= Q[k + 1]
    OBVIOUS
  <2>2. k + 1 \in 1 .. n /\ (k + 1) - 1 = k /\ k \in 0 .. n /\ P[k] <= Q[k]
    BY <1>1, <1>7, <2>1
  <2>3. PICK p \in Nat, q \in Nat, v \in Nat, w \in Nat :
          p = P[k] /\ q = Q[k] /\ v = LenAt(a)[k + 1] /\ w = LenAt(b)[k + 1]
    <3>1. P[k] \in Nat /\ Q[k] \in Nat /\ LenAt(a)[k + 1] \in Nat /\ LenAt(b)[k + 1] \in Nat
      BY <1>1, <1>5, <2>2
    <3>2. QED BY <3>1
  <2>4. P[k + 1] = p + v /\ Q[k + 1] = q + w
    BY <1>5, <2>2, <2>3
  <2>5. v <= w
    BY <1>1, <2>2, <2>3
  <2>6. p <= q
    BY <2>2, <2>3
  <2>7. p + v <= q + w
    BY <2>5, <2>6
  <2>8. QED BY <2>4, <2>7
<1> HIDE DEF T
<1>8. n \in T
  BY <1>1, <1>6, <1>7, InductionOn
<1>9. QED BY <1>1, <1>4, <1>8 DEF T, n

LEMMA LenSumSame ==
  ASSUME NEW R, \A r \in R : r.len \in Nat, NEW a \in Seq(R), NEW b \in Seq(R),
         Len(a) = Len(b), \A i \in 1 .. Len(a) : a[i].len = b[i].len
  PROVE  LenSum(a) = LenSum(b)
<1>1. ASSUME NEW i \in 1 .. Len(a) PROVE a[i].len <= b[i].len /\ b[i].len <= a[i].len
  <2>1. a[i].len \in Nat /\ a[i].len = b[i].len
    BY LensAre
  <2>2. QED BY <2>1
<1>2. LenSum(a) <= LenSum(b)
  BY <1>1, LenSumAtMost
<1>3. LenSum(b) <= LenSum(a)
  BY <1>1, LenSumAtMost
<1>4. LenSum(a) \in Nat /\ LenSum(b) \in Nat
  BY LenSumConcat
<1>5. QED BY <1>2, <1>3, <1>4

(* One extent changes. *)
LEMMA LenSumChange ==
  ASSUME NEW R, \A r \in R : r.len \in Nat, NEW a \in Seq(R), NEW b \in Seq(R),
         Len(a) = Len(b), NEW x \in 1 .. Len(a),
         \A i \in 1 .. Len(a) : i # x => b[i].len = a[i].len
  PROVE  LenSum(b) + a[x].len = LenSum(a) + b[x].len
<1> DEFINE n == Len(a)
           u == LenAt(a)
           v == LenAt(b)
<1>1. /\ n \in Nat /\ u \in [1 .. n -> Nat] /\ v \in [1 .. n -> Nat]
      /\ \A i \in 1 .. n : u[i] = a[i].len /\ v[i] = b[i].len
      /\ \A i \in 1 .. n : i # x => v[i] = u[i]
  <2>1. /\ n \in Nat /\ u \in [1 .. n -> Nat] /\ v \in [1 .. n -> Nat]
        /\ \A i \in 1 .. n : u[i] = a[i].len /\ v[i] = b[i].len
    BY LensAre
  <2>2. QED BY <2>1
<1>2. PICK P : IsSums(P, u, n)
  BY <1>1, SumsExist
<1>3. PICK Q : IsSums(Q, v, n)
  BY <1>1, SumsExist
<1>4. LenSum(a) = P[n] /\ LenSum(b) = Q[n] /\ P[n] \in Nat /\ Q[n] \in Nat
  <2>1. LenSum(a) = P[n] /\ LenSum(b) = Q[n]
    BY <1>2, <1>3, LenSumIsSum
  <2>2. P[n] \in Nat /\ Q[n] \in Nat
    BY <1>1, <1>2, <1>3 DEF IsSums
  <2>3. QED BY <2>1, <2>2
<1> HIDE DEF n, u, v
<1>5. x \in 1 .. n /\ u[x] \in Nat /\ v[x] \in Nat
  BY <1>1 DEF n
<1>6. CASE u[x] <= v[x]
  <2>1. PICK d \in Nat : v[x] = u[x] + d
    <3>1. v[x] - u[x] \in Nat /\ v[x] = u[x] + (v[x] - u[x])
      BY <1>5, <1>6
    <3>2. QED BY <3>1
  <2>2. MoreAt(v, u, n, x, d)
    BY <1>1, <1>5, <2>1 DEF MoreAt
  <2>3. Q[n] = P[n] + d
    BY <1>2, <1>3, <2>2, SumsDiffer
  <2>4. Q[n] + u[x] = P[n] + v[x]
    <3>1. PICK p \in Nat, q \in Nat, w \in Nat : p = P[n] /\ q = Q[n] /\ w = u[x]
      BY <1>4, <1>5
    <3>2. q = p + d /\ v[x] = w + d
      BY <2>1, <2>3, <3>1
    <3>3. q + w = p + (w + d)
      BY <3>2
    <3>4. QED BY <2>1, <3>1, <3>3
  <2>5. QED BY <1>1, <1>4, <1>5, <2>4
<1>7. CASE v[x] <= u[x]
  <2>1. PICK d \in Nat : u[x] = v[x] + d
    <3>1. u[x] - v[x] \in Nat /\ u[x] = v[x] + (u[x] - v[x])
      BY <1>5, <1>7
    <3>2. QED BY <3>1
  <2>2. MoreAt(u, v, n, x, d)
    BY <1>1, <1>5, <2>1 DEF MoreAt
  <2>3. P[n] = Q[n] + d
    BY <1>2, <1>3, <2>2, SumsDiffer
  <2>4. Q[n] + u[x] = P[n] + v[x]
    <3>1. PICK p \in Nat, q \in Nat, w \in Nat : p = P[n] /\ q = Q[n] /\ w = v[x]
      BY <1>4, <1>5
    <3>2. p = q + d /\ u[x] = w + d
      BY <2>1, <2>3, <3>1
    <3>3. q + (w + d) = p + w
      BY <3>2
    <3>4. QED BY <2>1, <3>1, <3>3
  <2>5. QED BY <1>1, <1>4, <1>5, <2>4
<1>8. QED BY <1>5, <1>6, <1>7

(* One, two and three extents. *)
LEMMA LenSumTuples ==
  ASSUME NEW R, \A r \in R : r.len \in Nat
  PROVE  /\ \A x \in R : LenSum(<<x>>) = x.len
         /\ \A x, y \in R : LenSum(<<x, y>>) = x.len + y.len
         /\ \A x, y, z \in R : LenSum(<<x, y, z>>) = x.len + y.len + z.len
<1>0. \A list \in Seq(R), e \in R : LenSum(Append(list, e)) = LenSum(list) + e.len
  BY LenSumAppend
<1>1. ASSUME NEW a \in Seq(R), NEW b \in Seq(R), Len(a) = Len(b), \A i \in 1 .. Len(a) : a[i] = b[i]
      PROVE  LenSum(a) = LenSum(b)
  <2>1. a = b
    BY <1>1, SeqEqual
  <2>2. QED BY <2>1
<1>2. ASSUME NEW x \in R PROVE <<x>> \in Seq(R) /\ Len(<<x>>) = 1 /\ LenSum(<<x>>) = x.len
  <2>1. <<>> \in Seq(R) /\ Append(<<>>, x) = <<x>> /\ <<x>> \in Seq(R) /\ x.len \in Nat
    OBVIOUS
  <2>2. LenSum(<<x>>) = LenSum(<<>>) + x.len
    BY <1>0, <2>1, Zenon
  <2>3. QED BY <2>1, <2>2, LenSumEmpty
<1>3. ASSUME NEW x \in R, NEW y \in R
      PROVE  <<x, y>> \in Seq(R) /\ Len(<<x, y>>) = 2 /\ LenSum(<<x, y>>) = x.len + y.len
  <2>1. <<x, y>> \in Seq(R) /\ Len(<<x, y>>) = 2 /\ <<x, y>>[1] = x /\ <<x, y>>[2] = y
    OBVIOUS
  <2>2. PICK a \in Seq(R) : a = Append(<<x>>, y)
    BY <1>2, AppendProperties
  <2>3. Len(a) = 2 /\ a[1] = x /\ a[2] = y
    BY <1>2, <2>2, AppendProperties
  <2>4. LenSum(a) = LenSum(<<x, y>>)
    BY <1>1, <2>1, <2>3
  <2>5. LenSum(a) = LenSum(<<x>>) + y.len
    BY <1>0, <1>2, <2>2, Zenon
  <2>6. QED BY <1>2, <2>1, <2>4, <2>5
<1>4. ASSUME NEW x \in R, NEW y \in R, NEW z \in R PROVE LenSum(<<x, y, z>>) = x.len + y.len + z.len
  <2>1. /\ <<x, y, z>> \in Seq(R) /\ Len(<<x, y, z>>) = 3
        /\ <<x, y, z>>[1] = x /\ <<x, y, z>>[2] = y /\ <<x, y, z>>[3] = z
    OBVIOUS
  <2>2. PICK b \in Seq(R) : b = <<x, y>>
    BY <1>3
  <2>3. PICK a \in Seq(R) : a = Append(b, z)
    BY <2>2, AppendProperties
  <2>4. Len(a) = 3 /\ a[1] = x /\ a[2] = y /\ a[3] = z
    <3>1. Len(b) = 2 /\ b[1] = x /\ b[2] = y
      BY <2>2
    <3>2. Len(a) = Len(b) + 1 /\ a[Len(b) + 1] = z /\ \A i \in 1 .. Len(b) : a[i] = b[i]
      BY <2>3, AppendProperties
    <3>3. 1 \in 1 .. Len(b) /\ 2 \in 1 .. Len(b) /\ Len(b) + 1 = 3
      BY <3>1
    <3>4. QED BY <3>1, <3>2, <3>3
  <2>5. LenSum(a) = LenSum(<<x, y, z>>)
    <3>1. PICK t \in Seq(R) : t = <<x, y, z>> /\ Len(t) = 3 /\ t[1] = x /\ t[2] = y /\ t[3] = z
      BY <2>1
    <3>2. \A i \in 1 .. Len(a) : a[i] = t[i]
      BY <2>4, <3>1
    <3>3. LenSum(a) = LenSum(t)
      BY <1>1, <2>4, <3>1, <3>2
    <3>4. QED BY <3>1, <3>3
  <2>6. LenSum(a) = LenSum(b) + z.len
    BY <1>0, <2>3, Zenon
  <2>7. QED BY <1>3, <2>2, <2>5, <2>6
<1>5. QED BY <1>2, <1>3, <1>4

=============================================================================
