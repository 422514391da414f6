---------------------------- MODULE Ds18b20Proofs ----------------------------
(***************************************************************************)
(* What main() makes of the two bytes that the driver returns.             *)
(***************************************************************************)
EXTENDS Ds18b20, TLAPS, SequenceTheorems

(* A word of 16 bits, and a temperature of 12. *)
IsWord(w) == w \in Int /\ 0 <= w /\ w < 65536

IsTemp(t) == t \in Int /\ -2048 <= t /\ t < 2048

(* A word and its two bytes. *)
LEMMA Bytes ==
  ASSUME NEW w, IsWord(w)
  PROVE  Joined(w % 256, w \div 256) = w
<1>1. w \in Int /\ w % 256 \in Int /\ w \div 256 \in Int
  BY DEF IsWord
<1>2. ASSUME NEW q \in Int, NEW r \in Int, q = w \div 256, r = w % 256
      PROVE  w = 256 * q + r
  BY <1>1, <1>2
<1> QED  BY <1>1, <1>2 DEF Joined

(* The five bits of the sign tell the three ranges apart. *)
LEMMA SignedByRange ==
  ASSUME NEW w, IsWord(w)
  PROVE  /\ w < 2048 => Signed(w) = w
         /\ w >= 63488 => Signed(w) = w - 65536
         /\ w >= 2048 /\ w < 63488 => Signed(w) = SignError
<1>1. CASE w < 2048
  <2>1. w \div 2048 = 0
    BY <1>1 DEF IsWord
  <2> QED  BY <1>1, <2>1 DEF Signed, IsWord
<1>2. CASE w >= 63488
  <2>1. w \div 2048 = 31
    BY <1>2 DEF IsWord
  <2> QED  BY <1>2, <2>1 DEF Signed, IsWord
<1>3. CASE w >= 2048 /\ w < 63488
  <2>1. w \div 2048 # 0 /\ w \div 2048 # 31
    BY <1>3 DEF IsWord
  <2> QED  BY <1>3, <2>1 DEF Signed, IsWord
<1> QED  BY <1>1, <1>2, <1>3 DEF IsWord

(***************************************************************************)
(* main.c:42-54: every temperature of 12 bits, and so every temperature    *)
(* that the sensor measures, is printed as it is, from the two bytes of    *)
(* its two's complement in 16 bits.                                        *)
(***************************************************************************)
THEOREM DecodeExact ==
  ASSUME NEW t, IsTemp(t)
  PROVE  Signed(Joined(Word(t) % 256, Word(t) \div 256)) = t
<1>1. IsWord(Word(t)) /\ Word(t) = IF t >= 0 THEN t ELSE t + 65536
  BY DEF IsTemp, IsWord, Word
<1>2. Joined(Word(t) % 256, Word(t) \div 256) = Word(t)
  BY <1>1, Bytes
<1>3. Signed(Word(t)) = t
  BY <1>1, SignedByRange DEF IsTemp
<1> QED  BY <1>2, <1>3

(***************************************************************************)
(* main.c:46-56: whatever word comes from the driver, what is printed as a *)
(* temperature is the temperature of that word; any other word is reported *)
(* as an error.                                                            *)
(***************************************************************************)
THEOREM DecodeSound ==
  ASSUME NEW w, IsWord(w), Signed(w) # SignError
  PROVE  IsTemp(Signed(w)) /\ Word(Signed(w)) = w
<1>1. CASE w < 2048
  <2>1. Signed(w) = w
    BY <1>1, SignedByRange
  <2>2. IsTemp(w) /\ Word(w) = w
    BY <1>1 DEF IsTemp, IsWord, Word
  <2> QED  BY <2>1, <2>2
<1>2. CASE w >= 63488
  <2>1. Signed(w) = w - 65536
    BY <1>2, SignedByRange
  <2>2. IsTemp(w - 65536) /\ Word(w - 65536) = w
    BY <1>2 DEF IsTemp, IsWord, Word
  <2> QED  BY <2>1, <2>2
<1>3. w < 2048 \/ w >= 63488
  BY SignedByRange DEF IsWord
<1> QED  BY <1>1, <1>2, <1>3
-----------------------------------------------------------------------------
(***************************************************************************)
(* What a read that meets no trouble finds on the bus.                     *)
(***************************************************************************)
(* The counters, and the buffer that is filled by the two last calls. *)
Counting ==
  /\ \A p \in Procs :
       /\ pc[p] # "reading" => step[p] = 1
       /\ step[p] \in {1, 4, 9} => bit[p] = 0
       /\ pc[p] = "reading" /\ step[p] < 7 => data[p] = <<0, 0>>
       /\ pc[p] = "reading" /\ step[p] = 7 => data[p][2] = 0
       /\ pc[p] \notin {"reading", "read"} => data[p] = <<0, 0>>
  /\ taken.value < Weights[taken.count + 1]

(* Who reads at the same time has met the other, and who reads or has read
   while the line fails has met that. *)
Met ==
  /\ \A p, q \in Procs : p # q /\ pc[p] = "reading" /\ pc[q] = "reading" => "mixed" \in trouble[p]
  /\ \A p \in Procs : pc[p] \in {"reading", "read", "asleep", "loop"} /\ line # "ok" => "line" \in trouble[p]

(* The sensor has received the first b bits of a byte. *)
Got(byte, b) == taken.count = b /\ taken.value = byte % Weights[b + 1]

(* b bits of a byte, shifted into one that was 0. *)
Shifted(byte, b) == Weights[9 - b] * (byte % Weights[b + 1])

Low(t) == Word(t) % 256
High(t) == Word(t) \div 256

(* Sensor and driver are at the same place of the conversation. *)
InStep(p) ==
  /\ scratch \in seen[p]
  /\ step[p] \in {2, 5} => mode = "rom" /\ Got(204, bit[p])
  /\ step[p] = 3 => mode = "function" /\ Got(68, bit[p])
  /\ step[p] = 6 => mode = "function" /\ Got(190, bit[p])
  /\ step[p] \in {7, 8, 9} => mode = "sending"
  /\ step[p] > 3 => asked[p] = "asked"
  /\ step[p] \in {5, 6} => given = 0
  /\ step[p] = 7 => given = bit[p] /\ data[p][1] = Shifted(Low(scratch), bit[p])
  /\ step[p] = 8 => given = 8 + bit[p] /\ data[p][2] = Shifted(High(scratch), bit[p])
  /\ step[p] > 7 => data[p][1] = Low(scratch)
  /\ step[p] > 8 => data[p][2] = High(scratch)

Conversation == \A p \in Procs : Quiet(p) /\ pc[p] = "reading" => InStep(p)

(* What is left of it when the read is over. *)
Outcome == \A p \in Procs : Quiet(p) =>
  /\ pc[p] \in {"read", "asleep"} => asked[p] \in {"asked", "measured"}
  /\ pc[p] = "read" => \E t \in seen[p] : data[p][1] = Low(t) /\ data[p][2] = High(t)

BusInv ==
  /\ TypeOK /\ Counting /\ Met /\ Conversation /\ Outcome
  /\ ShownExact /\ AskedIsMeasured /\ ExitsForCause

LEMMA WeightsAre ==
  /\ Weights[1] = 1 /\ Weights[2] = 2 /\ Weights[3] = 4 /\ Weights[4] = 8
  /\ Weights[5] = 16 /\ Weights[6] = 32 /\ Weights[7] = 64 /\ Weights[8] = 128
  /\ Weights[9] = 256 /\ Weights[10] = 512 /\ Weights[11] = 1024 /\ Weights[12] = 2048
  /\ Weights[13] = 4096 /\ Weights[14] = 8192 /\ Weights[15] = 16384 /\ Weights[16] = 32768
BY DEF Weights

LEMMA BitIs ==
  ASSUME NEW n \in Int, NEW i \in 0 .. 15
  PROVE  BitOf(n, i) \in {0, 1}
<1>1. Weights[i + 1] \in Nat \ {0}
  BY WeightsAre
<1>2. \A d \in Nat \ {0} : n \div d \in Int
  OBVIOUS
<1>3. n \div Weights[i + 1] \in Int
  BY <1>1, <1>2
<1>4. QED BY <1>3 DEF BitOf

(* One bit more of a byte, the lowest first. *)
LEMMA OneBitMore ==
  ASSUME NEW byte \in 0 .. 255, NEW b \in 0 .. 7
  PROVE  (byte % Weights[b + 1]) + BitOf(byte, b) * Weights[b + 1] = byte % Weights[b + 2]
<1>1. CASE b = 0
  BY <1>1, WeightsAre DEF BitOf
<1>2. CASE b = 1
  BY <1>2, WeightsAre DEF BitOf
<1>3. CASE b = 2
  BY <1>3, WeightsAre DEF BitOf
<1>4. CASE b = 3
  BY <1>4, WeightsAre DEF BitOf
<1>5. CASE b = 4
  <2>1. byte % 32 = (byte % 16) + ((byte \div 16) % 2) * 16
    BY SMTT(60)
  <2>2. Weights[b + 1] = 16 /\ Weights[b + 2] = 32
    BY <1>5, WeightsAre
  <2>3. QED BY <2>1, <2>2 DEF BitOf
<1>6. CASE b = 5
  <2>1. byte % 64 = (byte % 32) + ((byte \div 32) % 2) * 32
    BY SMTT(60)
  <2>2. QED BY <1>6, <2>1, WeightsAre DEF BitOf
<1>7. CASE b = 6
  BY <1>7, WeightsAre DEF BitOf
<1>8. CASE b = 7
  BY <1>8, WeightsAre DEF BitOf
<1>9. QED BY <1>1, <1>2, <1>3, <1>4, <1>5, <1>6, <1>7, <1>8

(* Shifting it in on the left. *)
LEMMA OneShiftMore ==
  ASSUME NEW byte \in 0 .. 255, NEW b \in 0 .. 7
  PROVE  ShiftIn(Shifted(byte, b), BitOf(byte, b)) = Shifted(byte, b + 1)
<1>1. PICK m \in Int, u \in Int : m = byte % Weights[b + 1] /\ u = BitOf(byte, b)
  <2>1. Weights[b + 1] \in Nat \ {0}
    BY WeightsAre
  <2>2. byte % Weights[b + 1] \in Int
    BY <2>1
  <2>3. BitOf(byte, b) \in Int
    BY BitIs
  <2>4. QED BY <2>2, <2>3
<1>2. byte % Weights[b + 2] = m + u * Weights[b + 1]
  BY <1>1, OneBitMore
<1>3. \A x \in Int : (2 * x) \div 2 = x
  OBVIOUS
<1>4. (Weights[9 - b] * m) \div 2 + 128 * u = Weights[8 - b] * (m + u * Weights[b + 1])
  <2>1. CASE b = 0
    <3>1. Weights[9 - b] = 256 /\ Weights[8 - b] = 128 /\ Weights[b + 1] = 1
      BY <2>1, WeightsAre
    <3>2. (256 * m) \div 2 = 128 * m
      BY <1>1
    <3>3. QED BY <1>1, <3>1, <3>2
  <2>2. CASE b = 1
    BY <1>1, <1>3, <2>2, WeightsAre
  <2>3. CASE b = 2
    BY <1>1, <1>3, <2>3, WeightsAre
  <2>4. CASE b = 3
    BY <1>1, <1>3, <2>4, WeightsAre
  <2>5. CASE b = 4
    <3>1. Weights[9 - b] = 16 /\ Weights[8 - b] = 8 /\ Weights[b + 1] = 16
      BY <2>5, WeightsAre
    <3>2. (16 * m) \div 2 = 8 * m
      BY <1>1
    <3>3. QED BY <1>1, <3>1, <3>2
  <2>6. CASE b = 5
    BY <1>1, <1>3, <2>6, WeightsAre
  <2>7. CASE b = 6
    BY <1>1, <1>3, <2>7, WeightsAre
  <2>8. CASE b = 7
    BY <1>1, <1>3, <2>8, WeightsAre
  <2>9. QED BY <2>1, <2>2, <2>3, <2>4, <2>5, <2>6, <2>7, <2>8
<1>5. 9 - (b + 1) = 8 - b /\ (b + 1) + 1 = b + 2
  OBVIOUS
<1>6. QED BY <1>1, <1>2, <1>4, <1>5 DEF ShiftIn, Shifted

LEMMA ShiftedEnds ==
  ASSUME NEW byte \in 0 .. 255
  PROVE  Shifted(byte, 0) = 0 /\ Shifted(byte, 8) = byte /\ byte % Weights[1] = 0 /\ byte % Weights[9] = byte
BY WeightsAre DEF Shifted

(* The first byte of a word is sent before the second. *)
LEMMA BitsOfWord ==
  ASSUME NEW w, IsWord(w), NEW b \in 0 .. 7
  PROVE  BitOf(w, b) = BitOf(w % 256, b) /\ BitOf(w, 8 + b) = BitOf(w \div 256, b)
<1> USE DEF IsWord, BitOf
<1>1. CASE b = 0
  BY <1>1, WeightsAre
<1>2. CASE b = 1
  BY <1>2, WeightsAre
<1>3. CASE b = 2
  BY <1>3, WeightsAre
<1>4. CASE b = 3
  BY <1>4, WeightsAre
<1>5. CASE b = 4
  BY <1>5, WeightsAre
<1>6. CASE b = 5
  BY <1>6, WeightsAre
<1>7. CASE b = 6
  BY <1>7, WeightsAre
<1>8. CASE b = 7
  BY <1>8, WeightsAre
<1>9. QED BY <1>1, <1>2, <1>3, <1>4, <1>5, <1>6, <1>7, <1>8

LEMMA CallsAre ==
  /\ Len(Calls) = 9
  /\ Calls[1] = ResetCall /\ Calls[2] = WriteCall(204) /\ Calls[3] = WriteCall(68)
  /\ Calls[4] = ResetCall /\ Calls[5] = WriteCall(204) /\ Calls[6] = WriteCall(190)
  /\ Calls[7] = ReadCall(1) /\ Calls[8] = ReadCall(2) /\ Calls[9] = ResetCall
BY DEF Calls

(* Which call of the driver a process is in. *)
LEMMA CallIs ==
  ASSUME TypeOK, NEW p \in Procs
  PROVE  /\ At(p, "reset") <=> pc[p] = "reading" /\ step[p] \in {1, 4, 9}
         /\ At(p, "write") <=> pc[p] = "reading" /\ step[p] \in {2, 3, 5, 6}
         /\ At(p, "read") <=> pc[p] = "reading" /\ step[p] \in {7, 8}
         /\ step[p] \in {2, 5} => Byte(p) = 204
         /\ step[p] = 3 => Byte(p) = 68
         /\ step[p] = 6 => Byte(p) = 190
         /\ step[p] \in {7, 8} => Byte(p) = step[p] - 6
<1>1. step[p] \in 1 .. 9
  BY CallsAre DEF TypeOK
<1>2. step[p] \in {1, 2, 3, 4, 5, 6, 7, 8, 9}
  BY <1>1
<1>3. CASE step[p] \in {1, 4, 9}
  BY <1>3, CallsAre DEF At, ResetCall
<1>4. CASE step[p] \in {2, 5}
  BY <1>4, CallsAre DEF At, Byte, WriteCall
<1>5. CASE step[p] = 3
  BY <1>5, CallsAre DEF At, Byte, WriteCall
<1>6. CASE step[p] = 6
  BY <1>6, CallsAre DEF At, Byte, WriteCall
<1>7. CASE step[p] = 7
  BY <1>7, CallsAre DEF At, Byte, ReadCall
<1>8. CASE step[p] = 8
  BY <1>8, CallsAre DEF At, Byte, ReadCall
<1>9. QED BY <1>2, <1>3, <1>4, <1>5, <1>6, <1>7, <1>8

(* The temperatures and their two bytes. *)
LEMMA TempIs ==
  ASSUME NEW t \in Temps \cup {PowerOn}
  PROVE  /\ IsTemp(t)
         /\ IsWord(Word(t))
         /\ Low(t) \in 0 .. 255
         /\ High(t) \in 0 .. 255
<1>1. IsTemp(t)
  BY Ds18b20Assumption DEF PowerOn, IsTemp
<1>2. IsWord(Word(t))
  BY <1>1 DEF IsTemp, IsWord, Word
<1>3. \A w : IsWord(w) => w % 256 \in 0 .. 255 /\ w \div 256 \in 0 .. 255
  BY DEF IsWord
<1>4. QED BY <1>1, <1>2, <1>3 DEF Low, High

(* The type invariant in parts: what a process does with its counters, with
   its data, the sensor, and the account of the troubles. *)
ProcTypes ==
  /\ pc \in [Procs -> {"closed", "opened", "loop", "reading", "read", "asleep", "exited"}]
  /\ step \in [Procs -> 1..9]
  /\ bit \in [Procs -> 0..7]

DataTypes ==
  /\ data \in [Procs -> Seq(0..255)]
  /\ \A q \in Procs : Len(data[q]) = 2
  /\ shown \in [Procs -> Printed]

SensorTypes ==
  /\ line \in {"ok", "absent", "low"}
  /\ mode \in {"waiting", "rom", "function", "converting", "sending"}
  /\ taken \in [count : 0..7, value : 0..127]
  /\ given \in 0..16
  /\ scratch \in Temps \cup {PowerOn}
  /\ asked \in [Procs -> {"no", "asked", "measured"}]

ReadTypes ==
  /\ seen \in [Procs -> SUBSET (Temps \cup {PowerOn})]
  /\ trouble \in [Procs -> SUBSET Troubles]
  /\ cpu \in Procs
  /\ left \in [Troubles -> Nat]

LEMMA TypeParts ==
  ASSUME TypeOK
  PROVE  ProcTypes /\ DataTypes /\ SensorTypes /\ ReadTypes
<1>1. ProcTypes
  BY CallsAre DEF TypeOK, ProcTypes
<1>2. data \in [Procs -> Seq(0..255)] /\ shown \in [Procs -> Printed]
  BY DEF TypeOK
<1>3. \A q \in Procs : Len(data[q]) = 2
  BY DEF TypeOK
<1>4. SensorTypes
  BY DEF TypeOK, SensorTypes
<1>5. ReadTypes
  BY DEF TypeOK, ReadTypes
<1>6. QED BY <1>1, <1>2, <1>3, <1>4, <1>5 DEF DataTypes

LEMMA TypesJoin ==
  ASSUME ProcTypes', DataTypes', SensorTypes', ReadTypes'
  PROVE  TypeOK'
<1>1. step' \in [Procs -> 1..Len(Calls)]
  BY CallsAre DEF ProcTypes
<1>2. data' \in [Procs -> Seq(0..255)] /\ \A q \in Procs : Len(data'[q]) = 2
  BY DEF DataTypes
<1>3. shown' \in [Procs -> Printed]
  BY DEF DataTypes
<1>4. Len(Calls)' = Len(Calls)
  BY DEF Calls, ResetCall, WriteCall, ReadCall
<1>5. QED BY <1>1, <1>2, <1>3, <1>4 DEF TypeOK, ProcTypes, SensorTypes, ReadTypes

(* A preemption or a late slot uses up one of those that may happen. *)
LEMMA HappensTypes ==
  ASSUME TypeOK, NEW kind \in Troubles, Happens(kind)
  PROVE  left' \in [Troubles -> Nat]
<1>1. left \in [Troubles -> Nat]
  BY DEF TypeOK
<1>2. left[kind] \in Nat /\ left[kind] > 0
  BY <1>1 DEF Happens
<1>3. left[kind] - 1 \in Nat
  BY <1>2
<1>4. QED BY <1>1, <1>3 DEF Happens

LEMMA RunsTypes ==
  ASSUME TypeOK, NEW p \in Procs, Runs(p)
  PROVE  cpu' \in Procs /\ left' \in [Troubles -> Nat]
<1>1. "mixed" \in Troubles
  BY DEF Troubles
<1>2. CASE Happens("mixed")
  BY <1>1, <1>2, HappensTypes DEF Runs
<1>3. CASE UNCHANGED left
  BY <1>3 DEF Runs, TypeOK
<1>4. QED BY <1>2, <1>3 DEF Runs

(* A slot: what it does to the sensor. *)
LEMMA SlotTypes ==
  ASSUME TypeOK, Counting, NEW p \in Procs, NEW b \in {0, 1}, Slot(p, b)
  PROVE  /\ mode' \in {"waiting", "rom", "function", "converting", "sending"}
         /\ taken' \in [count : 0..7, value : 0..127]
         /\ taken'.value < Weights[taken'.count + 1]
         /\ given' \in 0 .. 16
         /\ scratch' = scratch
         /\ asked' \in [Procs -> {"no", "asked", "measured"}]
         /\ \A q \in Procs \ {p} : asked'[q] = asked[q]
<1>0. taken \in [count : 0..7, value : 0..127]
  BY DEF TypeOK
<1>1. PICK c \in 0 .. 7, v \in 0 .. 127 : c = taken.count /\ v = taken.value
  BY <1>0
<1>2. taken \in [count : 0..7, value : 0..127] /\ v < Weights[c + 1]
  BY <1>1 DEF TypeOK, Counting
<1>3. [count |-> 0, value |-> 0] \in [count : 0..7, value : 0..127] /\ 0 < Weights[0 + 1]
  BY WeightsAre
<1>4. CASE UNCHANGED sensor
  BY <1>1, <1>2, <1>4 DEF sensor, TypeOK
<1>5. CASE /\ c < 7
           /\ taken' = [count |-> c + 1, value |-> v + b * Weights[c + 1]]
           /\ UNCHANGED <<mode, given, scratch, asked>>
  <2>1. c + 1 \in 0 .. 7
    BY <1>5
  <2>2. v + b * Weights[c + 1] \in 0 .. 127 /\ v + b * Weights[c + 1] < Weights[(c + 1) + 1]
    <3>1. c \in {0, 1, 2, 3, 4, 5, 6}
      BY <1>5
    <3>2. b * Weights[c + 1] = 0 \/ b * Weights[c + 1] = Weights[c + 1]
      BY <3>1, WeightsAre
    <3>3. Weights[(c + 1) + 1] = Weights[c + 1] + Weights[c + 1] /\ Weights[c + 1] \in 1 .. 64
      BY <3>1, WeightsAre
    <3>4. QED BY <1>2, <3>2, <3>3
  <2>3. QED BY <1>5, <2>1, <2>2 DEF TypeOK
<1>6. CASE \E byte : Command(p, byte)
  <2>1. PICK byte : Command(p, byte)
    BY <1>6
  <2>2. taken' = [count |-> 0, value |-> 0] /\ given' = given /\ scratch' = scratch
    BY <2>1 DEF Command
  <2>3. mode' \in {"waiting", "rom", "function", "converting", "sending"}
    BY <2>1 DEF Command
  <2>4. /\ asked' \in [Procs -> {"no", "asked", "measured"}]
        /\ \A q \in Procs \ {p} : asked'[q] = asked[q]
    BY <2>1 DEF Command, TypeOK
  <2>5. QED BY <1>3, <2>2, <2>3, <2>4 DEF TypeOK
<1>7. CASE /\ given' = IF mode = "sending" /\ given < 16 THEN given + 1 ELSE given
           /\ UNCHANGED <<mode, taken, scratch, asked>>
  <2>1. given' \in 0 .. 16
    BY <1>7 DEF TypeOK
  <2>2. QED BY <1>1, <1>2, <1>7, <2>1 DEF TypeOK
<1>8. QED BY <1>1, <1>4, <1>5, <1>6, <1>7 DEF Slot

LEMMA ResetTypes ==
  ASSUME TypeOK, Counting, NEW p \in Procs, SensorReset \/ UNCHANGED sensor
  PROVE  /\ mode' \in {"waiting", "rom", "function", "converting", "sending"}
         /\ taken' \in [count : 0..7, value : 0..127]
         /\ taken'.value < Weights[taken'.count + 1]
         /\ given' \in 0 .. 16
         /\ scratch' = scratch
         /\ asked' = asked
<1>1. [count |-> 0, value |-> 0] \in [count : 0..7, value : 0..127] /\ 0 < Weights[0 + 1]
  BY WeightsAre
<1>2. CASE SensorReset
  BY <1>1, <1>2 DEF SensorReset, TypeOK
<1>3. CASE UNCHANGED sensor
  BY <1>3 DEF sensor, TypeOK, Counting
<1>4. QED BY <1>2, <1>3

LEMMA NextBitTypes ==
  ASSUME TypeOK, NEW p \in Procs, NextBit(p), step[p] < 9
  PROVE  /\ bit' \in [Procs -> 0 .. 7]
         /\ step' \in [Procs -> 1 .. Len(Calls)]
         /\ \A q \in Procs \ {p} : bit'[q] = bit[q] /\ step'[q] = step[q]
         /\ bit[p] = 7 => bit'[p] = 0 /\ step'[p] = step[p] + 1
         /\ bit[p] # 7 => bit'[p] = bit[p] + 1 /\ step'[p] = step[p]
<1>1. bit[p] \in 0 .. 7 /\ step[p] \in 1 .. 9 /\ Len(Calls) = 9
  BY CallsAre DEF TypeOK
<1>2. (bit[p] + 1) % 8 = (IF bit[p] = 7 THEN 0 ELSE bit[p] + 1)
  BY <1>1
<1>3. (bit[p] + 1) % 8 \in 0 .. 7 /\ step[p] + 1 \in 1 .. 9
  BY <1>1
<1>4. bit' = [bit EXCEPT ![p] = (bit[p] + 1) % 8]
  BY DEF NextBit
<1>5. step' = [step EXCEPT ![p] = IF bit[p] = 7 THEN step[p] + 1 ELSE step[p]]
  BY DEF NextBit
<1>6. bit \in [Procs -> 0 .. 7] /\ step \in [Procs -> 1 .. 9]
  BY CallsAre DEF TypeOK
<1>7. QED BY <1>1, <1>2, <1>3, <1>4, <1>5, <1>6

(* A bit received, into one of the two bytes. *)
LEMMA ReceivedTypes ==
  ASSUME TypeOK, NEW p \in Procs, NEW level \in {0, 1}, Byte(p) \in {1, 2}, Received(p, level)
  PROVE  /\ data' \in [Procs -> Seq(0 .. 255)]
         /\ \A q \in Procs : Len(data'[q]) = 2
         /\ \A q \in Procs \ {p} : data'[q] = data[q]
         /\ data'[p][Byte(p)] = ShiftIn(data[p][Byte(p)], level)
         /\ \A k \in {1, 2} \ {Byte(p)} : data'[p][k] = data[p][k]
<1>1. data[p] \in Seq(0 .. 255) /\ Len(data[p]) = 2
  BY DEF TypeOK
<1>2. data[p][Byte(p)] \in 0 .. 255
  <2>1. 1 \in 1 .. Len(data[p]) /\ 2 \in 1 .. Len(data[p])
    BY <1>1
  <2>2. data[p][1] \in 0 .. 255 /\ data[p][2] \in 0 .. 255
    BY <1>1, <2>1, ElementOfSeq
  <2>3. QED BY <2>2
<1>3. ShiftIn(data[p][Byte(p)], level) \in 0 .. 255
  BY <1>2 DEF ShiftIn
<1>4. data' = [data EXCEPT ![p] = [data[p] EXCEPT ![Byte(p)] = ShiftIn(data[p][Byte(p)], level)]]
  BY DEF Received
<1>5. /\ [data[p] EXCEPT ![Byte(p)] = ShiftIn(data[p][Byte(p)], level)] \in Seq(0 .. 255)
      /\ Len([data[p] EXCEPT ![Byte(p)] = ShiftIn(data[p][Byte(p)], level)]) = 2
  BY <1>1, <1>3, ExceptSeq
<1>6. data'[p] = [data[p] EXCEPT ![Byte(p)] = ShiftIn(data[p][Byte(p)], level)]
  BY <1>4 DEF TypeOK
<1>7. \A q \in Procs \ {p} : data'[q] = data[q]
  BY <1>4 DEF TypeOK
<1>8. data' \in [Procs -> Seq(0 .. 255)] /\ \A q \in Procs : Len(data'[q]) = 2
  BY <1>4, <1>5, <1>6, <1>7 DEF TypeOK
<1>9. DOMAIN data[p] = {1, 2}
  BY <1>1
<1>10. QED BY <1>6, <1>7, <1>8, <1>9

(* A step of a process that reads: what it must show for all. *)
LEMMA OwnStep ==
  ASSUME BusInv, NEW p \in Procs, pc[p] = "reading",
         TypeOK', taken'.value < Weights[taken'.count + 1],
         UNCHANGED <<shown, seen, line>>,
         \A q \in Procs \ {p} : /\ pc'[q] = pc[q] /\ step'[q] = step[q] /\ bit'[q] = bit[q]
                                /\ data'[q] = data[q] /\ trouble'[q] = trouble[q] /\ asked'[q] = asked[q],
         trouble[p] \subseteq trouble'[p],
         pc'[p] \in {"reading", "read", "exited"},
         pc'[p] # "reading" => step'[p] = 1,
         step'[p] \in {1, 4, 9} => bit'[p] = 0,
         pc'[p] = "reading" /\ step'[p] < 7 => data'[p] = <<0, 0>>,
         pc'[p] = "reading" /\ step'[p] = 7 => data'[p][2] = 0,
         pc'[p] = "exited" => data'[p] = <<0, 0>> /\ trouble[p] \cap {"mixed", "line"} # {},
         Quiet(p)' /\ pc'[p] = "reading" => InStep(p)',
         Quiet(p)' /\ pc'[p] = "read" => /\ asked'[p] \in {"asked", "measured"}
                                         /\ \E t \in seen[p] : data'[p][1] = Low(t) /\ data'[p][2] = High(t)
  PROVE  BusInv'
<1>1. Counting'
  <2>1. SUFFICES ASSUME NEW q \in Procs
                 PROVE  /\ pc'[q] # "reading" => step'[q] = 1
                        /\ step'[q] \in {1, 4, 9} => bit'[q] = 0
                        /\ pc'[q] = "reading" /\ step'[q] < 7 => data'[q] = <<0, 0>>
                        /\ pc'[q] = "reading" /\ step'[q] = 7 => data'[q][2] = 0
                        /\ pc'[q] \notin {"reading", "read"} => data'[q] = <<0, 0>>
    BY DEF Counting
  <2>2. CASE q = p
    BY <2>2
  <2>3. CASE q # p
    BY <2>3 DEF BusInv, Counting
  <2>4. QED BY <2>2, <2>3
<1>2. \A q \in Procs : trouble[q] \subseteq trouble'[q] /\ (pc'[q] = "reading" => pc[q] = "reading")
  OBVIOUS
<1>3. Met'
  <2>1. ASSUME NEW q \in Procs, NEW r \in Procs, q # r, pc'[q] = "reading", pc'[r] = "reading"
        PROVE  "mixed" \in trouble'[q]
    BY <1>2, <2>1 DEF BusInv, Met
  <2>2. ASSUME NEW q \in Procs, pc'[q] \in {"reading", "read", "asleep", "loop"}, line # "ok"
        PROVE  "line" \in trouble'[q]
    BY <1>2, <2>2 DEF BusInv, Met
  <2>3. QED BY <2>1, <2>2 DEF Met
<1>4. Conversation'
  <2>1. SUFFICES ASSUME NEW q \in Procs, Quiet(q)', pc'[q] = "reading"
                 PROVE  InStep(q)'
    BY DEF Conversation
  <2>2. q = p
    <3>1. q # p => "mixed" \in trouble[q]
      BY <2>1 DEF BusInv, Met
    <3>2. QED BY <1>2, <2>1, <3>1 DEF Quiet
  <2>3. QED BY <2>1, <2>2
<1>5. Outcome' /\ ShownExact' /\ AskedIsMeasured' /\ ExitsForCause'
  <2>1. SUFFICES ASSUME NEW q \in Procs
                 PROVE  /\ Quiet(q)' => /\ pc'[q] \in {"read", "asleep"} => asked'[q] \in {"asked", "measured"}
                                        /\ pc'[q] = "read" => \E t \in seen[q] : data'[q][1] = Low(t)
                                                                              /\ data'[q][2] = High(t)
                        /\ pc'[q] = "asleep" /\ Quiet(q)' => shown[q] \in seen[q]
                        /\ pc'[q] = "loop" /\ Quiet(q)' => asked'[q] = "measured"
                        /\ pc'[q] = "exited" => trouble'[q] \cap {"mixed", "line"} # {}
    BY DEF Outcome, ShownExact, AskedIsMeasured, ExitsForCause
  <2>2. CASE q = p
    BY <1>2, <2>2
  <2>3. CASE q # p
    BY <2>3 DEF BusInv, Outcome, ShownExact, AskedIsMeasured, ExitsForCause, Quiet
  <2>4. QED BY <2>2, <2>3
<1>6. QED BY <1>1, <1>3, <1>4, <1>5 DEF BusInv

(* Who reads and has met no trouble has the bus for itself. *)
LEMMA AloneOnBus ==
  ASSUME BusInv, NEW p \in Procs, pc[p] = "reading", Quiet(p)
  PROVE  line = "ok" /\ Others(p) = {}
BY DEF BusInv, Met, Quiet, Others, Reading

LEMMA ResetKeeps ==
  ASSUME BusInv, NEW p \in Procs, ResetStep(p)
  PROVE  BusInv'
<1>1. /\ pc[p] = "reading" /\ step[p] \in {1, 4, 9} /\ bit[p] = 0
      /\ UNCHANGED <<bit, data, shown, line, seen, trouble>>
      /\ SensorReset \/ UNCHANGED sensor
      /\ cpu' \in Procs /\ left' \in [Troubles -> Nat]
  BY CallIs, RunsTypes DEF ResetStep, ResetPulse, BusInv, Counting
<1>2. /\ mode' \in {"waiting", "rom", "function", "converting", "sending"}
      /\ taken' \in [count : 0..7, value : 0..127]
      /\ taken'.value < Weights[taken'.count + 1]
      /\ given' \in 0 .. 16 /\ scratch' = scratch /\ asked' = asked
  BY <1>1, ResetTypes DEF BusInv
<1>3. PICK level \in ResetLevels(p) :
        \/ step[p] < 9 /\ level = 1 /\ step' = [step EXCEPT ![p] = @ + 1] /\ pc' = pc
        \/ step[p] < 9 /\ level = 0 /\ pc' = [pc EXCEPT ![p] = "exited"] /\ step' = [step EXCEPT ![p] = 1]
        \/ step[p] = 9 /\ pc' = [pc EXCEPT ![p] = "read"] /\ step' = [step EXCEPT ![p] = 1]
  BY CallsAre DEF ResetStep, Goto
<1>4. /\ pc \in [Procs -> {"closed", "opened", "loop", "reading", "read", "asleep", "exited"}]
      /\ step \in [Procs -> 1 .. 9] /\ Len(Calls) = 9
  BY CallsAre DEF BusInv, TypeOK
<1>5. /\ pc' \in [Procs -> {"closed", "opened", "loop", "reading", "read", "asleep", "exited"}]
      /\ step' \in [Procs -> 1 .. 9]
      /\ \A q \in Procs \ {p} : pc'[q] = pc[q] /\ step'[q] = step[q]
      /\ \/ step[p] < 9 /\ level = 1 /\ step'[p] = step[p] + 1 /\ pc'[p] = "reading"
         \/ step[p] < 9 /\ level = 0 /\ pc'[p] = "exited" /\ step'[p] = 1
         \/ step[p] = 9 /\ pc'[p] = "read" /\ step'[p] = 1
  <2>1. CASE step[p] < 9 /\ level = 1 /\ step' = [step EXCEPT ![p] = @ + 1] /\ pc' = pc
    <3>1. step[p] + 1 \in 1 .. 9
      BY <1>4, <2>1
    <3>2. QED BY <1>1, <1>4, <2>1, <3>1
  <2>2. CASE step[p] < 9 /\ level = 0 /\ pc' = [pc EXCEPT ![p] = "exited"] /\ step' = [step EXCEPT ![p] = 1]
    BY <1>4, <2>2
  <2>3. CASE step[p] = 9 /\ pc' = [pc EXCEPT ![p] = "read"] /\ step' = [step EXCEPT ![p] = 1]
    BY <1>4, <2>3
  <2>4. QED BY <1>3, <2>1, <2>2, <2>3
<1>6. TypeOK'
  <2>1. data' = data /\ shown' = shown /\ seen' = seen /\ trouble' = trouble /\ line' = line /\ bit' = bit
    BY <1>1
  <2>2. ProcTypes'
    BY <1>4, <1>5, <2>1, TypeParts DEF BusInv, ProcTypes
  <2>3. DataTypes' /\ ReadTypes'
    BY <1>1, <2>1, TypeParts DEF BusInv, DataTypes, ReadTypes
  <2>4. SensorTypes'
    BY <1>2, <2>1, TypeParts DEF BusInv, SensorTypes
  <2>5. QED BY <2>2, <2>3, <2>4, TypesJoin
<1>7. step[p] < 7 => data[p] = <<0, 0>>
  BY <1>1 DEF BusInv, Counting
<1>8. level = 0 => trouble[p] \cap {"mixed", "line"} # {}
  <2>1. level = 0 => line = "low" \/ Others(p) # {}
    BY <1>3 DEF ResetLevels
  <2>2. Others(p) # {} => "mixed" \in trouble[p]
    BY <1>1 DEF BusInv, Met, Others, Reading
  <2>3. line = "low" => "line" \in trouble[p]
    BY <1>1 DEF BusInv, Met
  <2>4. QED BY <2>1, <2>2, <2>3
<1>9. ASSUME Quiet(p)' PROVE line = "ok" /\ Others(p) = {} /\ InStep(p) /\ SensorReset
  <2>1. Quiet(p)
    BY <1>1, <1>9 DEF Quiet
  <2>2. line = "ok" /\ Others(p) = {}
    BY <1>1, <2>1, AloneOnBus
  <2>3. QED BY <1>1, <2>1, <2>2 DEF ResetStep, ResetPulse, BusInv, Conversation
<1>10. ASSUME Quiet(p)', pc'[p] = "reading" PROVE InStep(p)'
  <2>1. mode' = "rom" /\ taken' = [count |-> 0, value |-> 0] /\ given' = 0
    BY <1>9, <1>10 DEF SensorReset
  <2>2. Got(204, bit[p])'
    <3>1. 204 % Weights[0 + 1] = 0
      BY ShiftedEnds
    <3>2. QED BY <1>1, <2>1, <3>1 DEF Got
  <2>3. step'[p] = step[p] + 1 /\ step'[p] \in {2, 5}
    BY <1>1, <1>5, <1>10
  <2>4. step'[p] > 3 => asked'[p] = "asked"
    BY <1>1, <1>2, <1>9, <1>10, <2>3 DEF InStep
  <2>5. scratch' \in seen'[p]
    BY <1>1, <1>2, <1>9, <1>10 DEF InStep
  <2>6. QED BY <2>1, <2>2, <2>3, <2>4, <2>5 DEF InStep
<1>11. ASSUME Quiet(p)', pc'[p] = "read"
       PROVE  /\ asked'[p] \in {"asked", "measured"}
              /\ \E t \in seen[p] : data'[p][1] = Low(t) /\ data'[p][2] = High(t)
  <2>1. step[p] = 9
    BY <1>5, <1>11
  <2>2. QED BY <1>1, <1>2, <1>9, <1>11, <2>1 DEF InStep
<1>12. /\ step'[p] \in {1, 4, 9} => bit'[p] = 0
       /\ pc'[p] = "reading" /\ step'[p] < 7 => data'[p] = <<0, 0>>
       /\ ~(pc'[p] = "reading" /\ step'[p] = 7)
  BY <1>1, <1>5, <1>7
<1>13. /\ \A q \in Procs \ {p} : /\ pc'[q] = pc[q] /\ step'[q] = step[q] /\ bit'[q] = bit[q]
                                 /\ data'[q] = data[q] /\ trouble'[q] = trouble[q] /\ asked'[q] = asked[q]
       /\ trouble[p] \subseteq trouble'[p]
  BY <1>1, <1>2, <1>5
<1>14. /\ pc'[p] \in {"reading", "read", "exited"}
       /\ pc'[p] # "reading" => step'[p] = 1
       /\ pc'[p] = "exited" => data'[p] = <<0, 0>> /\ trouble[p] \cap {"mixed", "line"} # {}
  BY <1>1, <1>5, <1>7, <1>8
<1>15. QED
  BY <1>1, <1>2, <1>6, <1>10, <1>11, <1>12, <1>13, <1>14, OwnStep

(* A step inside a byte, whatever it does to the sensor: only the
   conversation is left to show. *)
LEMMA SlotStep ==
  ASSUME BusInv, NEW p \in Procs, pc[p] = "reading", step[p] \in {2, 3, 5, 6, 7, 8}, NextBit(p),
         SensorTypes', taken'.value < Weights[taken'.count + 1], ReadTypes',
         \A q \in Procs \ {p} : asked'[q] = asked[q] /\ trouble'[q] = trouble[q],
         trouble[p] \subseteq trouble'[p],
         UNCHANGED <<pc, shown, line, seen>>,
         \/ step[p] < 7 /\ data' = data
         \/ step[p] \in {7, 8} /\ \E level \in {0, 1} : Received(p, level),
         Quiet(p)' => InStep(p)'
  PROVE  BusInv'
<1>1. TypeOK /\ ProcTypes /\ DataTypes /\ step[p] < 9
  BY TypeParts DEF BusInv
<1>2. /\ bit' \in [Procs -> 0 .. 7]
      /\ step' \in [Procs -> 1 .. 9]
      /\ \A q \in Procs \ {p} : bit'[q] = bit[q] /\ step'[q] = step[q]
      /\ bit[p] = 7 => bit'[p] = 0 /\ step'[p] = step[p] + 1
      /\ bit[p] # 7 => bit'[p] = bit[p] + 1 /\ step'[p] = step[p]
  BY <1>1, NextBitTypes, CallsAre
<1>3. ProcTypes'
  BY <1>1, <1>2 DEF ProcTypes
<1>4. /\ DataTypes'
      /\ \A q \in Procs \ {p} : data'[q] = data[q]
      /\ step[p] < 7 => data'[p] = data[p]
      /\ step[p] = 7 => data'[p][2] = data[p][2]
  <2>1. CASE step[p] < 7 /\ data' = data
    BY <1>1, <2>1 DEF DataTypes
  <2>2. CASE step[p] \in {7, 8} /\ \E level \in {0, 1} : Received(p, level)
    <3>1. PICK level \in {0, 1} : Received(p, level)
      BY <2>2
    <3>2. Byte(p) = step[p] - 6 /\ Byte(p) \in {1, 2}
      BY <1>1, <2>2, CallIs
    <3>3. /\ data' \in [Procs -> Seq(0 .. 255)]
          /\ \A q \in Procs : Len(data'[q]) = 2
          /\ \A q \in Procs \ {p} : data'[q] = data[q]
          /\ \A k \in {1, 2} \ {Byte(p)} : data'[p][k] = data[p][k]
      BY <1>1, <3>1, <3>2, ReceivedTypes
    <3>4. step[p] = 7 => data'[p][2] = data[p][2]
      BY <3>2, <3>3
    <3>5. shown' \in [Procs -> Printed]
      BY <1>1 DEF DataTypes
    <3>6. DataTypes'
      BY <3>3, <3>5 DEF DataTypes
    <3>7. QED BY <2>2, <3>3, <3>4, <3>6
  <2>3. QED BY <2>1, <2>2
<1>5. TypeOK'
  BY <1>3, <1>4, TypesJoin
<1>6. step'[p] \in {1, 4, 9} => bit'[p] = 0
  BY <1>1, <1>2 DEF ProcTypes
<1>7. step[p] < 7 => data[p] = <<0, 0>>
  BY DEF BusInv, Counting
<1>8. pc'[p] = "reading" /\ step'[p] < 7 => data'[p] = <<0, 0>>
  BY <1>1, <1>2, <1>4, <1>7 DEF ProcTypes
<1>9. pc'[p] = "reading" /\ step'[p] = 7 => data'[p][2] = 0
  <2>1. step'[p] = 7 => step[p] \in {6, 7}
    BY <1>2
  <2>2. step[p] = 7 => data[p][2] = 0
    BY DEF BusInv, Counting
  <2>3. step[p] = 6 => data'[p] = <<0, 0>>
    BY <1>4, <1>7
  <2>4. QED BY <1>4, <2>1, <2>2, <2>3
<1>10. QED
  BY <1>2, <1>4, <1>5, <1>6, <1>8, <1>9, OwnStep

LEMMA LevelIs ==
  ASSUME TypeOK
  PROVE  Level \in {0, 1}
<1>1. Word(scratch) \in Int
  BY TempIs DEF TypeOK, IsWord
<1>2. given < 16 => given \in 0 .. 15
  BY DEF TypeOK
<1>3. given < 16 => BitOf(Word(scratch), given) \in {0, 1}
  BY <1>1, <1>2, BitIs
<1>4. QED BY <1>3 DEF Level

(* A command that no trouble spoils is the one that the sensor waits for. *)
LEMMA WriteInStep ==
  ASSUME BusInv, NEW p \in Procs, WriteStep(p), Quiet(p)',
         bit[p] = 7 => bit'[p] = 0 /\ step'[p] = step[p] + 1,
         bit[p] # 7 => bit'[p] = bit[p] + 1 /\ step'[p] = step[p]
  PROVE  InStep(p)'
<1>1. /\ pc[p] = "reading" /\ step[p] \in {2, 3, 5, 6}
      /\ UNCHANGED <<data, seen, trouble>>
      /\ Slot(p, BitOf(Byte(p), bit[p]))
  BY CallIs DEF WriteStep, BusInv
<1>2. Quiet(p)
  BY <1>1 DEF Quiet
<1>3. line = "ok" /\ InStep(p)
  BY <1>1, <1>2, AloneOnBus DEF BusInv, Conversation
<1>4. PICK byte \in 0 .. 255, b \in 0 .. 7 :
        /\ byte = Byte(p) /\ b = bit[p]
        /\ step[p] \in {2, 5} => byte = 204 /\ mode = "rom"
        /\ step[p] = 3 => byte = 68 /\ mode = "function"
        /\ step[p] = 6 => byte = 190 /\ mode = "function"
        /\ taken.count = b /\ taken.value = byte % Weights[b + 1]
  <2>1. bit[p] \in 0 .. 7
    BY DEF BusInv, TypeOK
  <2>2. /\ step[p] \in {2, 5} => Byte(p) = 204
        /\ step[p] = 3 => Byte(p) = 68
        /\ step[p] = 6 => Byte(p) = 190
    BY CallIs DEF BusInv
  <2>3. /\ step[p] \in {2, 5} => mode = "rom"
        /\ step[p] \in {3, 6} => mode = "function"
        /\ Got(Byte(p), bit[p])
    BY <1>1, <1>3, <2>2 DEF InStep
  <2>4. taken.count = bit[p] /\ taken.value = Byte(p) % Weights[bit[p] + 1]
    BY <2>3 DEF Got
  <2>5. Byte(p) \in 0 .. 255
    BY <1>1, <2>2
  <2>6. QED BY <2>1, <2>2, <2>3, <2>4, <2>5
<1>5. Listening /\ taken.value + BitOf(byte, b) * Weights[taken.count + 1] = byte % Weights[b + 2]
  <2>1. Listening
    BY <1>1, <1>4 DEF Listening
  <2>2. (byte % Weights[b + 1]) + BitOf(byte, b) * Weights[b + 1] = byte % Weights[b + 2]
    BY OneBitMore
  <2>3. QED BY <1>4, <2>1, <2>2
<1>6. CASE b # 7
  <2>1. /\ taken' = [count |-> b + 1, value |-> byte % Weights[b + 2]]
        /\ UNCHANGED <<mode, given, scratch, asked>>
    BY <1>1, <1>3, <1>4, <1>5, <1>6 DEF Slot
  <2>2. bit'[p] = b + 1 /\ step'[p] = step[p] /\ b + 2 = (b + 1) + 1
    BY <1>4, <1>6
  <2>3. taken'.count = bit'[p] /\ taken'.value = byte % Weights[bit'[p] + 1]
    BY <2>1, <2>2
  <2>4. /\ scratch' \in seen'[p]
        /\ step'[p] \in {2, 5} => mode' = "rom" /\ Got(204, bit[p])'
        /\ step'[p] = 3 => mode' = "function" /\ Got(68, bit[p])'
        /\ step'[p] = 6 => mode' = "function" /\ Got(190, bit[p])'
    BY <1>1, <1>3, <1>4, <2>1, <2>2, <2>3 DEF InStep, Got
  <2>5. /\ step'[p] > 3 => asked'[p] = "asked"
        /\ step'[p] \in {5, 6} => given' = 0
        /\ step'[p] \in {2, 3, 5, 6}
    BY <1>1, <1>3, <2>1, <2>2 DEF InStep
  <2>6. QED BY <2>4, <2>5 DEF InStep
<1>7. CASE b = 7
  <2>1. byte % Weights[b + 2] = byte
    BY <1>7, ShiftedEnds
  <2>2. Command(p, byte)
    BY <1>1, <1>3, <1>4, <1>5, <1>7, <2>1 DEF Slot
  <2>3. /\ taken' = [count |-> 0, value |-> 0]
        /\ given' = given /\ scratch' = scratch
        /\ bit'[p] = 0 /\ step'[p] = step[p] + 1
    BY <1>4, <1>7, <2>2 DEF Command
  <2>4. \A k \in 0 .. 255 : Got(k, bit[p])'
    BY <2>3, ShiftedEnds DEF Got
  <2>5. scratch' \in seen'[p]
    BY <1>1, <1>3, <2>3 DEF InStep
  <2>6. CASE step[p] \in {2, 5}
    <3>1. mode' = "function" /\ asked' = asked
      BY <1>4, <2>2, <2>6 DEF Command
    <3>2. step'[p] \in {3, 6} /\ (step[p] = 5 => asked[p] = "asked" /\ given = 0)
      BY <1>3, <2>3, <2>6 DEF InStep
    <3>3. QED BY <2>3, <2>4, <2>5, <2>6, <3>1, <3>2 DEF InStep
  <2>7. CASE step[p] = 3
    <3>1. mode' = "converting" /\ asked' = [asked EXCEPT ![p] = "asked"]
      BY <1>4, <2>2, <2>7 DEF Command
    <3>2. asked'[p] = "asked" /\ step'[p] = 4
      BY <2>3, <2>7, <3>1 DEF BusInv, TypeOK
    <3>3. QED BY <2>5, <3>2 DEF InStep
  <2>8. CASE step[p] = 6
    <3>1. mode' = "sending" /\ asked' = asked
      BY <1>4, <2>2, <2>8 DEF Command
    <3>2. step'[p] = 7 /\ asked[p] = "asked" /\ given' = 0
      BY <1>3, <2>3, <2>8 DEF InStep
    <3>3. data'[p] = <<0, 0>>
      BY <1>1, <2>8 DEF BusInv, Counting
    <3>4. data'[p][1] = Shifted(Low(scratch), 0)'
      <4>1. scratch' \in Temps \cup {PowerOn}
        BY <2>3 DEF BusInv, TypeOK
      <4>2. Shifted(Low(scratch'), 0) = 0
        BY <4>1, TempIs, ShiftedEnds
      <4>3. QED BY <3>3, <4>2
    <3>5. QED BY <2>3, <2>5, <3>1, <3>2, <3>4 DEF InStep
  <2>9. QED BY <1>1, <2>6, <2>7, <2>8
<1>8. QED BY <1>6, <1>7

LEMMA WriteKeeps ==
  ASSUME BusInv, NEW p \in Procs, WriteStep(p)
  PROVE  BusInv'
<1>1. /\ pc[p] = "reading" /\ step[p] \in {2, 3, 5, 6}
      /\ UNCHANGED <<pc, data, shown, line, seen, trouble>>
      /\ Slot(p, BitOf(Byte(p), bit[p])) /\ NextBit(p) /\ TypeOK
      /\ cpu' \in Procs /\ left' \in [Troubles -> Nat]
  BY CallIs, RunsTypes DEF WriteStep, BusInv
<1>2. BitOf(Byte(p), bit[p]) \in {0, 1}
  <2>1. Byte(p) \in Int /\ bit[p] \in 0 .. 15
    BY <1>1, CallIs DEF TypeOK
  <2>2. QED BY <2>1, BitIs
<1>3. SensorTypes'
  BY <1>1, <1>2, SlotTypes DEF BusInv, TypeOK, SensorTypes
<1>4. taken'.value < Weights[taken'.count + 1] /\ \A q \in Procs \ {p} : asked'[q] = asked[q]
  BY <1>1, <1>2, SlotTypes DEF BusInv
<1>5. ReadTypes'
  BY <1>1, TypeParts DEF ReadTypes
<1>6. /\ bit[p] = 7 => bit'[p] = 0 /\ step'[p] = step[p] + 1
      /\ bit[p] # 7 => bit'[p] = bit[p] + 1 /\ step'[p] = step[p]
  BY <1>1, NextBitTypes
<1>7. Quiet(p)' => InStep(p)'
  BY <1>6, WriteInStep
<1>8. step[p] < 7
  BY <1>1
<1>9. QED BY <1>1, <1>3, <1>4, <1>5, <1>7, <1>8, SlotStep

(* A bit that no trouble spoils is the next one of the scratchpad. *)
LEMMA ReadInStep ==
  ASSUME BusInv, NEW p \in Procs, ReadStep(p), Quiet(p)',
         bit[p] = 7 => bit'[p] = 0 /\ step'[p] = step[p] + 1,
         bit[p] # 7 => bit'[p] = bit[p] + 1 /\ step'[p] = step[p]
  PROVE  InStep(p)'
<1>1. /\ pc[p] = "reading" /\ step[p] \in {7, 8} /\ Byte(p) = step[p] - 6
      /\ UNCHANGED <<seen, trouble>>
      /\ Slot(p, 1) /\ Received(p, Level) /\ TypeOK
  BY CallIs DEF ReadStep, BusInv
<1>2. Quiet(p)
  BY <1>1 DEF Quiet
<1>3. line = "ok" /\ InStep(p)
  BY <1>1, <1>2, AloneOnBus DEF BusInv, Conversation
<1>4. /\ mode = "sending" /\ asked[p] = "asked" /\ scratch \in seen[p]
      /\ step[p] = 7 => given = bit[p] /\ data[p][1] = Shifted(Low(scratch), bit[p])
      /\ step[p] = 8 => /\ given = 8 + bit[p] /\ data[p][1] = Low(scratch)
                        /\ data[p][2] = Shifted(High(scratch), bit[p])
  BY <1>1, <1>3 DEF InStep
<1>5. PICK b \in 0 .. 7 : b = bit[p]
  BY <1>1 DEF TypeOK
<1>6. given < 16
  BY <1>1, <1>4, <1>5
<1>7. given' = given + 1 /\ UNCHANGED <<mode, scratch, asked>>
  BY <1>1, <1>3, <1>4, <1>6 DEF Slot, Listening
<1>8. Level = BitOf(Word(scratch), given)
  BY <1>3, <1>4, <1>6 DEF Level
<1>9. scratch \in Temps \cup {PowerOn}
  BY <1>1 DEF TypeOK
<1>10. PICK lo \in 0 .. 255, hi \in 0 .. 255 :
         lo = Low(scratch) /\ hi = High(scratch)
  BY <1>9, TempIs
<1>11. /\ step[p] = 7 => Level = BitOf(lo, b)
       /\ step[p] = 8 => Level = BitOf(hi, b)
  <2>1. BitOf(Word(scratch), b) = BitOf(lo, b) /\ BitOf(Word(scratch), 8 + b) = BitOf(hi, b)
    BY <1>9, <1>10, TempIs, BitsOfWord DEF Low, High
  <2>2. QED BY <1>4, <1>5, <1>8, <2>1
<1>12. Level \in {0, 1}
  BY <1>1, LevelIs
<1>13. /\ data'[p][Byte(p)] = ShiftIn(data[p][Byte(p)], Level)
       /\ \A k \in {1, 2} \ {Byte(p)} : data'[p][k] = data[p][k]
  BY <1>1, <1>12, ReceivedTypes
<1>14. scratch' \in seen'[p] /\ mode' = "sending" /\ asked'[p] = "asked"
  BY <1>1, <1>4, <1>7
<1>15. Low(scratch)' = lo /\ High(scratch)' = hi
  BY <1>7, <1>10 DEF Low, High, Word
<1>16. CASE step[p] = 7
  <2>1. data'[p][1] = Shifted(lo, b + 1)
    <3>1. data[p][1] = Shifted(lo, b)
      BY <1>4, <1>5, <1>10, <1>16
    <3>2. QED BY <1>1, <1>11, <1>13, <1>16, <3>1, OneShiftMore
  <2>2. data'[p][2] = 0
    <3>1. data[p][2] = 0
      BY <1>1, <1>16 DEF BusInv, Counting
    <3>2. QED BY <1>1, <1>13, <1>16, <3>1
  <2>3. CASE b = 7
    <3>1. step'[p] = 8 /\ bit'[p] = 0 /\ given' = 8 + bit'[p]
      BY <1>4, <1>5, <1>7, <1>16, <2>3
    <3>2. data'[p][1] = lo /\ data'[p][2] = Shifted(hi, bit'[p])
      BY <2>1, <2>2, <2>3, <3>1, ShiftedEnds
    <3>3. QED BY <1>14, <1>15, <3>1, <3>2 DEF InStep
  <2>4. CASE b # 7
    <3>1. step'[p] = 7 /\ bit'[p] = b + 1 /\ given' = bit'[p]
      BY <1>4, <1>5, <1>7, <1>16, <2>4
    <3>2. data'[p][1] = Shifted(lo, bit'[p])
      BY <2>1, <3>1
    <3>3. QED BY <1>14, <1>15, <3>1, <3>2 DEF InStep
  <2>5. QED BY <2>3, <2>4
<1>17. CASE step[p] = 8
  <2>1. data'[p][2] = Shifted(hi, b + 1)
    <3>1. data[p][2] = Shifted(hi, b)
      BY <1>4, <1>5, <1>10, <1>17
    <3>2. QED BY <1>1, <1>11, <1>13, <1>17, <3>1, OneShiftMore
  <2>2. data'[p][1] = lo
    BY <1>1, <1>4, <1>10, <1>13, <1>17
  <2>3. CASE b = 7
    <3>1. step'[p] = 9
      BY <1>5, <1>17, <2>3
    <3>2. data'[p][2] = hi
      BY <2>1, <2>3, ShiftedEnds
    <3>3. QED BY <1>14, <1>15, <2>2, <3>1, <3>2 DEF InStep
  <2>4. CASE b # 7
    <3>1. step'[p] = 8 /\ bit'[p] = b + 1 /\ given' = 8 + bit'[p]
      BY <1>4, <1>5, <1>7, <1>17, <2>4
    <3>2. data'[p][2] = Shifted(hi, bit'[p])
      BY <2>1, <3>1
    <3>3. QED BY <1>14, <1>15, <2>2, <3>1, <3>2 DEF InStep
  <2>5. QED BY <2>3, <2>4
<1>18. QED BY <1>1, <1>16, <1>17

LEMMA ReadKeeps ==
  ASSUME BusInv, NEW p \in Procs, ReadStep(p)
  PROVE  BusInv'
<1>1. /\ pc[p] = "reading" /\ step[p] \in {7, 8}
      /\ UNCHANGED <<pc, shown, line, seen, trouble>>
      /\ Slot(p, 1) /\ NextBit(p) /\ Received(p, Level) /\ TypeOK
      /\ cpu' \in Procs /\ left' \in [Troubles -> Nat]
  BY CallIs, RunsTypes DEF ReadStep, BusInv
<1>2. Level \in {0, 1}
  BY <1>1, LevelIs
<1>3. SensorTypes'
  BY <1>1, SlotTypes DEF BusInv, TypeOK, SensorTypes
<1>4. taken'.value < Weights[taken'.count + 1] /\ \A q \in Procs \ {p} : asked'[q] = asked[q]
  BY <1>1, SlotTypes DEF BusInv
<1>5. ReadTypes'
  BY <1>1, TypeParts DEF ReadTypes
<1>6. /\ bit[p] = 7 => bit'[p] = 0 /\ step'[p] = step[p] + 1
      /\ bit[p] # 7 => bit'[p] = bit[p] + 1 /\ step'[p] = step[p]
  BY <1>1, NextBitTypes
<1>7. Quiet(p)' => InStep(p)'
  BY <1>6, ReadInStep
<1>8. QED BY <1>1, <1>2, <1>3, <1>4, <1>5, <1>7, SlotStep

(* After a late slot the read has met a trouble. *)
LEMMA LateKeeps ==
  ASSUME BusInv, NEW p \in Procs, LateStep(p)
  PROVE  BusInv'
<1>1. /\ TypeOK /\ pc[p] = "reading" /\ step[p] \in {2, 3, 5, 6, 7, 8} /\ NextBit(p)
      /\ UNCHANGED <<pc, shown, line, seen, cpu>>
      /\ trouble' = [trouble EXCEPT ![p] = @ \cup {"late"}]
      /\ (\E b \in {0, 1} : Slot(p, b)) \/ SensorReset
  BY CallIs DEF LateStep, BusInv
<1>2. \/ step[p] < 7 /\ data' = data
      \/ step[p] \in {7, 8} /\ \E level \in {0, 1} : Received(p, level)
  <2>1. CASE At(p, "write") /\ data' = data
    BY <1>1, <2>1, CallIs
  <2>2. CASE At(p, "read") /\ \E level \in {0, 1} : Received(p, level)
    BY <1>1, <2>2, CallIs
  <2>3. QED BY <2>1, <2>2 DEF LateStep
<1>3. SensorTypes'
  BY <1>1, SlotTypes, ResetTypes DEF BusInv, TypeOK, SensorTypes
<1>4. taken'.value < Weights[taken'.count + 1] /\ \A q \in Procs \ {p} : asked'[q] = asked[q]
  BY <1>1, SlotTypes, ResetTypes DEF BusInv
<1>5. left' \in [Troubles -> Nat]
  BY <1>1, HappensTypes DEF LateStep, Troubles
<1>6. /\ trouble' \in [Procs -> SUBSET Troubles]
      /\ trouble'[p] = trouble[p] \cup {"late"}
      /\ \A q \in Procs \ {p} : trouble'[q] = trouble[q]
  BY <1>1 DEF TypeOK, Troubles
<1>7. ReadTypes'
  BY <1>1, <1>5, <1>6, TypeParts DEF ReadTypes
<1>8. ~Quiet(p)'
  BY <1>6 DEF Quiet
<1>9. QED BY <1>1, <1>2, <1>3, <1>4, <1>6, <1>7, <1>8, SlotStep

(* A step of main(): what it must show for all. *)
LEMMA MainStep ==
  ASSUME BusInv, NEW p \in Procs, pc[p] # "reading", TypeOK',
         taken'.value < Weights[taken'.count + 1], line' = line,
         \A q \in Procs \ {p} : /\ pc'[q] = pc[q] /\ step'[q] = step[q] /\ bit'[q] = bit[q]
                                /\ data'[q] = data[q] /\ shown'[q] = shown[q]
                                /\ seen'[q] = seen[q] /\ asked'[q] = asked[q]
                                /\ trouble[q] \subseteq trouble'[q],
         \A q \in Others(p) : Quiet(q)' => UNCHANGED <<mode, taken, given, scratch>>,
         step'[p] = 1, bit'[p] = 0, data'[p] = <<0, 0>>,
         pc'[p] \in {"opened", "reading", "asleep", "loop"},
         pc'[p] = "reading" => \A q \in Others(p) : "mixed" \in trouble'[p] /\ "mixed" \in trouble'[q],
         pc'[p] # "opened" /\ line # "ok" => "line" \in trouble'[p],
         Quiet(p)' /\ pc'[p] = "reading" => scratch' \in seen'[p],
         Quiet(p)' /\ pc'[p] = "asleep" => shown'[p] \in seen'[p] /\ asked'[p] \in {"asked", "measured"},
         Quiet(p)' /\ pc'[p] = "loop" => asked'[p] = "measured"
  PROVE  BusInv'
<1>1. Counting'
  <2>1. SUFFICES ASSUME NEW q \in Procs
                 PROVE  /\ pc'[q] # "reading" => step'[q] = 1
                        /\ step'[q] \in {1, 4, 9} => bit'[q] = 0
                        /\ pc'[q] = "reading" /\ step'[q] < 7 => data'[q] = <<0, 0>>
                        /\ pc'[q] = "reading" /\ step'[q] = 7 => data'[q][2] = 0
                        /\ pc'[q] \notin {"reading", "read"} => data'[q] = <<0, 0>>
    BY DEF Counting
  <2>2. CASE q = p
    BY <2>2
  <2>3. CASE q # p
    BY <2>3 DEF BusInv, Counting
  <2>4. QED BY <2>2, <2>3
<1>2. \A q \in Procs \ {p} : pc[q] = "reading" => q \in Others(p)
  BY DEF Others, Reading
<1>3. Met'
  <2>1. ASSUME NEW q \in Procs, NEW r \in Procs, q # r, pc'[q] = "reading", pc'[r] = "reading"
        PROVE  "mixed" \in trouble'[q]
    <3>1. CASE q = p
      BY <1>2, <2>1, <3>1
    <3>2. CASE r = p
      BY <1>2, <2>1, <3>2
    <3>3. CASE q # p /\ r # p
      BY <2>1, <3>3 DEF BusInv, Met
    <3>4. QED BY <3>1, <3>2, <3>3
  <2>2. ASSUME NEW q \in Procs, pc'[q] \in {"reading", "read", "asleep", "loop"}, line # "ok"
        PROVE  "line" \in trouble'[q]
    <3>1. CASE q = p
      BY <2>2, <3>1
    <3>2. CASE q # p
      BY <2>2, <3>2 DEF BusInv, Met
    <3>3. QED BY <3>1, <3>2
  <2>3. QED BY <2>1, <2>2 DEF Met
<1>4. Conversation'
  <2>1. SUFFICES ASSUME NEW q \in Procs, Quiet(q)', pc'[q] = "reading"
                 PROVE  InStep(q)'
    BY DEF Conversation
  <2>2. CASE q = p
    BY <2>1, <2>2 DEF InStep
  <2>3. CASE q # p
    <3>1. pc[q] = "reading" /\ Quiet(q)
      BY <2>1, <2>3 DEF Quiet
    <3>2. InStep(q)
      BY <3>1 DEF BusInv, Conversation
    <3>3. UNCHANGED <<mode, taken, given, scratch>>
      BY <1>2, <2>1, <2>3, <3>1
    <3>4. /\ pc'[q] = pc[q] /\ step'[q] = step[q] /\ bit'[q] = bit[q]
          /\ data'[q] = data[q] /\ seen'[q] = seen[q] /\ asked'[q] = asked[q]
      BY <2>3
    <3>5. Got(204, bit[q])' = Got(204, bit[q]) /\ Got(68, bit[q])' = Got(68, bit[q])
          /\ Got(190, bit[q])' = Got(190, bit[q])
      BY <3>3, <3>4 DEF Got
    <3>6. Low(scratch)' = Low(scratch) /\ High(scratch)' = High(scratch)
      BY <3>3 DEF Low, High, Word
    <3>7. /\ Shifted(Low(scratch), bit[q])' = Shifted(Low(scratch), bit[q])
          /\ Shifted(High(scratch), bit[q])' = Shifted(High(scratch), bit[q])
      BY <3>3, <3>4 DEF Shifted, Low, High, Word, Weights
    <3>8. QED BY <3>2, <3>3, <3>4, <3>5, <3>6, <3>7 DEF InStep
  <2>4. QED BY <2>2, <2>3
<1>5. Outcome' /\ ShownExact' /\ AskedIsMeasured' /\ ExitsForCause'
  <2>1. SUFFICES ASSUME NEW q \in Procs
                 PROVE  /\ Quiet(q)' => /\ pc'[q] \in {"read", "asleep"} => asked'[q] \in {"asked", "measured"}
                                        /\ pc'[q] = "read" => \E t \in seen'[q] : data'[q][1] = Low(t)
                                                                               /\ data'[q][2] = High(t)
                        /\ pc'[q] = "asleep" /\ Quiet(q)' => shown'[q] \in seen'[q]
                        /\ pc'[q] = "loop" /\ Quiet(q)' => asked'[q] = "measured"
                        /\ pc'[q] = "exited" => trouble'[q] \cap {"mixed", "line"} # {}
    BY DEF Outcome, ShownExact, AskedIsMeasured, ExitsForCause
  <2>2. CASE q = p
    BY <2>2
  <2>3. CASE q # p
    BY <2>3 DEF BusInv, Outcome, ShownExact, AskedIsMeasured, ExitsForCause, Quiet
  <2>4. QED BY <2>2, <2>3
<1>6. QED BY <1>1, <1>3, <1>4, <1>5 DEF BusInv

LEMMA OpenKeeps ==
  ASSUME BusInv, NEW p \in Procs, Open(p)
  PROVE  BusInv'
<1>1. /\ TypeOK /\ pc[p] = "closed" /\ pc' = [pc EXCEPT ![p] = "opened"]
      /\ UNCHANGED <<step, bit, data, shown, line, seen>>
      /\ SensorReset \/ UNCHANGED sensor
      /\ trouble' = [q \in Procs |-> trouble[q] \cup Mixed(q, Others(p))]
      /\ cpu' \in Procs /\ left' \in [Troubles -> Nat]
  BY RunsTypes DEF Open, ResetPulse, Goto, BusInv
<1>2. ProcTypes'
  BY <1>1, TypeParts DEF ProcTypes
<1>3. DataTypes'
  BY <1>1, TypeParts DEF DataTypes
<1>4. SensorTypes'
  BY <1>1, ResetTypes DEF BusInv, TypeOK, SensorTypes
<1>5. \A q \in Procs : Mixed(q, Others(p)) \in SUBSET Troubles
  BY DEF Mixed, Troubles
<1>6. ReadTypes'
  BY <1>1, <1>5, TypeParts DEF ReadTypes
<1>7. TypeOK'
  BY <1>2, <1>3, <1>4, <1>6, TypesJoin
<1>8. taken'.value < Weights[taken'.count + 1] /\ asked' = asked
  BY <1>1, ResetTypes DEF BusInv
<1>9. \A q \in Others(p) : ~Quiet(q)'
  BY <1>1 DEF Others, Reading, Mixed, Quiet
<1>10. step[p] = 1 /\ bit[p] = 0 /\ data[p] = <<0, 0>>
  BY <1>1 DEF BusInv, Counting
<1>11. pc'[p] = "opened" /\ \A q \in Procs \ {p} : pc'[q] = pc[q] /\ trouble[q] \subseteq trouble'[q]
  BY <1>1 DEF TypeOK
<1>12. QED BY <1>1, <1>7, <1>8, <1>9, <1>10, <1>11, MainStep

(* The call of read(). *)
LEMMA ReadCallKeeps ==
  ASSUME BusInv, NEW p \in Procs, Read(p)
  PROVE  BusInv'
<1>1. /\ TypeOK /\ pc[p] \in {"opened", "loop"} /\ pc' = [pc EXCEPT ![p] = "reading"]
      /\ UNCHANGED <<step, bit, data, shown, line, mode, taken, given, scratch>>
      /\ seen' = [seen EXCEPT ![p] = {scratch}]
      /\ asked' = [asked EXCEPT ![p] = "no"]
      /\ cpu' \in Procs /\ left' \in [Troubles -> Nat]
  BY RunsTypes DEF Read, Goto, BusInv
<1>2. trouble' = [q \in Procs |->
                    IF q # p THEN trouble[q] \cup Mixed(q, Others(p))
                    ELSE (IF Others(p) # {} THEN {"mixed"} ELSE {})
                           \cup (IF line # "ok" THEN {"line"} ELSE {})]
  BY DEF Read
<1>3. ProcTypes'
  BY <1>1, TypeParts DEF ProcTypes
<1>4. DataTypes'
  BY <1>1, TypeParts DEF DataTypes
<1>5. SensorTypes'
  BY <1>1, TypeParts DEF SensorTypes
<1>6. \A q \in Procs : Mixed(q, Others(p)) \in SUBSET Troubles
  BY DEF Mixed, Troubles
<1>7. trouble' \in [Procs -> SUBSET Troubles]
  <2>1. (IF Others(p) # {} THEN {"mixed"} ELSE {}) \cup (IF line # "ok" THEN {"line"} ELSE {})
          \in SUBSET Troubles
    BY DEF Troubles
  <2>2. \A q \in Procs : trouble[q] \cup Mixed(q, Others(p)) \in SUBSET Troubles
    BY <1>1, <1>6 DEF TypeOK
  <2>3. QED BY <1>2, <2>1, <2>2
<1>8. seen' \in [Procs -> SUBSET (Temps \cup {PowerOn})]
  BY <1>1 DEF TypeOK
<1>9. ReadTypes'
  BY <1>1, <1>7, <1>8, TypeParts DEF ReadTypes
<1>10. TypeOK'
  BY <1>3, <1>4, <1>5, <1>9, TypesJoin
<1>11. taken'.value < Weights[taken'.count + 1]
  BY <1>1 DEF BusInv, Counting
<1>12. \A q \in Others(p) : q # p /\ "mixed" \in trouble'[q] /\ "mixed" \in trouble'[p]
  BY <1>2 DEF Others, Reading, Mixed
<1>13. step[p] = 1 /\ bit[p] = 0 /\ data[p] = <<0, 0>>
  BY <1>1 DEF BusInv, Counting
<1>14. /\ pc'[p] = "reading" /\ seen'[p] = {scratch}
       /\ line # "ok" => "line" \in trouble'[p]
  BY <1>1, <1>2 DEF TypeOK
<1>15. \A q \in Procs \ {p} : /\ pc'[q] = pc[q] /\ seen'[q] = seen[q] /\ asked'[q] = asked[q]
                              /\ trouble[q] \subseteq trouble'[q]
  BY <1>1, <1>2 DEF TypeOK
<1>16. \A q \in Others(p) : ~Quiet(q)'
  BY <1>12 DEF Quiet
<1>17. QED
  BY <1>1, <1>10, <1>11, <1>12, <1>13, <1>14, <1>15, <1>16, MainStep

(* What is printed is a temperature of 12 bits, or the error. *)
LEMMA PrintedIs ==
  ASSUME NEW lo \in 0 .. 255, NEW hi \in 0 .. 255
  PROVE  Signed(Joined(lo, hi)) \in Printed
<1>1. IsWord(Joined(lo, hi))
  BY DEF IsWord, Joined
<1>2. CASE Signed(Joined(lo, hi)) = SignError
  BY <1>2 DEF Printed
<1>3. CASE Signed(Joined(lo, hi)) # SignError
  <2>1. IsTemp(Signed(Joined(lo, hi)))
    BY <1>1, <1>3, DecodeSound
  <2>2. QED BY <2>1, SMTT(30) DEF IsTemp, Printed
<1>4. QED BY <1>2, <1>3

LEMMA ShowKeeps ==
  ASSUME BusInv, NEW p \in Procs, Show(p)
  PROVE  BusInv'
<1>1. /\ TypeOK /\ pc[p] = "read" /\ pc' = [pc EXCEPT ![p] = "asleep"]
      /\ shown' = [shown EXCEPT ![p] = Signed(Joined(data[p][1], data[p][2]))]
      /\ data' = [data EXCEPT ![p] = <<0, 0>>]
      /\ UNCHANGED <<step, bit, line, mode, taken, given, scratch, asked, seen, trouble, cpu, left>>
  BY DEF Show, Goto, BusInv, sensor
<1>2. ProcTypes'
  BY <1>1, TypeParts DEF ProcTypes
<1>3. data[p][1] \in 0 .. 255 /\ data[p][2] \in 0 .. 255
  <2>1. data[p] \in Seq(0 .. 255) /\ Len(data[p]) = 2
    BY <1>1 DEF TypeOK
  <2>2. 1 \in 1 .. Len(data[p]) /\ 2 \in 1 .. Len(data[p])
    BY <2>1
  <2>3. PICK d \in Seq(0 .. 255) : d = data[p]
    BY <2>1
  <2>4. 1 \in 1 .. Len(d) /\ 2 \in 1 .. Len(d)
    BY <2>2, <2>3
  <2>5. \A n \in 1 .. Len(d) : d[n] \in 0 .. 255
    BY <2>3, ElementOfSeq, SMTT(30)
  <2>6. QED BY <2>3, <2>4, <2>5, Zenon
<1>4. shown' \in [Procs -> Printed]
  <2>1. Signed(Joined(data[p][1], data[p][2])) \in Printed
    BY <1>3, PrintedIs
  <2>2. shown \in [Procs -> Printed]
    BY <1>1, TypeParts DEF DataTypes
  <2>3. QED BY <1>1, <2>1, <2>2
<1>5. DataTypes'
  <2>1. data \in [Procs -> Seq(0 .. 255)] /\ \A q \in Procs : Len(data[q]) = 2
    BY <1>1, TypeParts DEF DataTypes
  <2>2. <<0, 0>> \in Seq(0 .. 255) /\ Len(<<0, 0>>) = 2
    OBVIOUS
  <2>3. data' \in [Procs -> Seq(0 .. 255)] /\ \A q \in Procs : Len(data'[q]) = 2
    BY <1>1, <2>1, <2>2
  <2>4. QED BY <1>4, <2>3 DEF DataTypes
<1>6. SensorTypes'
  BY <1>1, TypeParts DEF SensorTypes
<1>7. ReadTypes'
  BY <1>1, TypeParts DEF ReadTypes
<1>8. TypeOK'
  BY <1>2, <1>5, <1>6, <1>7, TypesJoin
<1>9. taken'.value < Weights[taken'.count + 1]
  BY <1>1 DEF BusInv, Counting
<1>10. step[p] = 1 /\ bit[p] = 0
  BY <1>1 DEF BusInv, Counting
<1>11. line # "ok" => "line" \in trouble[p]
  BY <1>1 DEF BusInv, Met
<1>12. ASSUME Quiet(p)' PROVE shown'[p] \in seen'[p] /\ asked'[p] \in {"asked", "measured"}
  <2>1. Quiet(p)
    BY <1>1, <1>12 DEF Quiet
  <2>2. asked[p] \in {"asked", "measured"}
    BY <1>1, <2>1 DEF BusInv, Outcome
  <2>3. PICK t \in seen[p] : data[p][1] = Low(t) /\ data[p][2] = High(t)
    BY <1>1, <2>1 DEF BusInv, Outcome
  <2>4. t \in Temps \cup {PowerOn}
    BY <1>1, <2>3 DEF TypeOK
  <2>5. Signed(Joined(Low(t), High(t))) = t
    BY <2>4, TempIs, DecodeExact DEF Low, High
  <2>6. shown'[p] = Signed(Joined(data[p][1], data[p][2]))
    BY <1>1 DEF TypeOK
  <2>7. QED BY <1>1, <2>2, <2>3, <2>5, <2>6
<1>13. /\ pc'[p] = "asleep" /\ data'[p] = <<0, 0>>
       /\ \A q \in Procs \ {p} : pc'[q] = pc[q] /\ data'[q] = data[q] /\ shown'[q] = shown[q]
  BY <1>1 DEF TypeOK
<1>14. pc[p] # "reading"
  BY <1>1
<1>15. QED
  BY <1>1, <1>8, <1>9, <1>10, <1>11, <1>12, <1>13, <1>14, MainStep

LEMMA WakeKeeps ==
  ASSUME BusInv, NEW p \in Procs, Wake(p)
  PROVE  BusInv'
<1>1. /\ TypeOK /\ pc[p] = "asleep" /\ pc' = [pc EXCEPT ![p] = "loop"]
      /\ asked[p] = "asked" => line # "ok"
      /\ shown' = [shown EXCEPT ![p] = SignError]
      /\ seen' = [seen EXCEPT ![p] = {}]
      /\ UNCHANGED <<step, bit, data, line, mode, taken, given, scratch, asked, trouble, cpu, left>>
  BY DEF Wake, Goto, Forget, BusInv, sensor
<1>2. ProcTypes'
  BY <1>1, TypeParts DEF ProcTypes
<1>3. DataTypes'
  <2>1. SignError \in Printed
    BY DEF Printed
  <2>2. QED BY <1>1, <2>1, TypeParts DEF DataTypes
<1>4. SensorTypes'
  BY <1>1, TypeParts DEF SensorTypes
<1>5. ReadTypes'
  BY <1>1, TypeParts DEF ReadTypes
<1>6. TypeOK'
  BY <1>2, <1>3, <1>4, <1>5, TypesJoin
<1>7. taken'.value < Weights[taken'.count + 1]
  BY <1>1 DEF BusInv, Counting
<1>8. step[p] = 1 /\ bit[p] = 0 /\ data[p] = <<0, 0>>
  BY <1>1 DEF BusInv, Counting
<1>9. line # "ok" => "line" \in trouble[p]
  BY <1>1 DEF BusInv, Met
<1>10. ASSUME Quiet(p)' PROVE asked'[p] = "measured"
  <2>1. Quiet(p)
    BY <1>1, <1>10 DEF Quiet
  <2>2. asked[p] \in {"asked", "measured"}
    BY <1>1, <2>1 DEF BusInv, Outcome
  <2>3. line = "ok"
    BY <1>9, <2>1 DEF Quiet
  <2>4. QED BY <1>1, <2>2, <2>3
<1>11. /\ pc'[p] = "loop"
       /\ \A q \in Procs \ {p} : pc'[q] = pc[q] /\ shown'[q] = shown[q] /\ seen'[q] = seen[q]
  BY <1>1 DEF TypeOK
<1>12. pc[p] # "reading"
  BY <1>1
<1>13. QED
  BY <1>1, <1>6, <1>7, <1>8, <1>9, <1>10, <1>11, <1>12, MainStep

(* A conversion ends.  No read that goes on waits for it, so none that has
   met no trouble is past the command that started one. *)
LEMMA ConvertedKeeps ==
  ASSUME BusInv, Converted
  PROVE  BusInv'
<1>1. /\ TypeOK /\ line = "ok" /\ scratch' \in Temps
      /\ \A q \in Procs : asked[q] = "asked" => pc[q] # "reading"
      /\ asked' = [q \in Procs |-> IF asked[q] = "asked" THEN "measured" ELSE asked[q]]
      /\ seen' = [q \in Procs |-> IF pc[q] = "reading" THEN seen[q] \cup {scratch'} ELSE seen[q]]
      /\ UNCHANGED <<pc, step, bit, data, shown, line, mode, taken, given, trouble, cpu, left>>
  BY DEF Converted, BusInv, main
<1>2. ProcTypes' /\ DataTypes'
  BY <1>1, TypeParts DEF ProcTypes, DataTypes
<1>3. asked' \in [Procs -> {"no", "asked", "measured"}]
  BY <1>1 DEF TypeOK
<1>4. SensorTypes'
  BY <1>1, <1>3, TypeParts DEF SensorTypes
<1>5. seen' \in [Procs -> SUBSET (Temps \cup {PowerOn})]
  <2>1. \A q \in Procs : seen[q] \in SUBSET (Temps \cup {PowerOn})
    BY <1>1 DEF TypeOK
  <2>2. QED BY <1>1, <2>1
<1>6. ReadTypes'
  BY <1>1, <1>5, TypeParts DEF ReadTypes
<1>7. TypeOK'
  BY <1>2, <1>4, <1>6, TypesJoin
<1>8. Counting'
  BY <1>1 DEF BusInv, Counting
<1>9. Met'
  BY <1>1 DEF BusInv, Met
<1>10. Conversation'
  <2>1. SUFFICES ASSUME NEW q \in Procs, Quiet(q)', pc'[q] = "reading"
                 PROVE  InStep(q)'
    BY DEF Conversation
  <2>2. InStep(q)
    BY <1>1, <2>1 DEF BusInv, Conversation, Quiet
  <2>3. step[q] \in {1, 2, 3}
    <3>1. asked[q] # "asked"
      BY <1>1, <2>1
    <3>2. ~(step[q] > 3)
      BY <2>2, <3>1 DEF InStep
    <3>3. step[q] \in 1 .. 9
      BY <1>1, TypeParts DEF ProcTypes
    <3>4. QED BY <3>2, <3>3
  <2>4. scratch' \in seen'[q]
    BY <1>1, <2>1
  <2>5. Got(204, bit[q])' = Got(204, bit[q]) /\ Got(68, bit[q])' = Got(68, bit[q])
    BY <1>1 DEF Got
  <2>6. step'[q] = step[q] /\ mode' = mode
    BY <1>1
  <2>7. QED BY <2>2, <2>3, <2>4, <2>5, <2>6 DEF InStep
<1>11. Outcome'
  <2>1. SUFFICES ASSUME NEW q \in Procs, Quiet(q)'
                 PROVE  /\ pc'[q] \in {"read", "asleep"} => asked'[q] \in {"asked", "measured"}
                        /\ pc'[q] = "read" => \E t \in seen'[q] : data'[q][1] = Low(t) /\ data'[q][2] = High(t)
    BY DEF Outcome
  <2>2. Quiet(q)
    BY <1>1, <2>1 DEF Quiet
  <2>3. pc[q] \in {"read", "asleep"} => asked[q] \in {"asked", "measured"}
    BY <2>2 DEF BusInv, Outcome
  <2>4. pc[q] = "read" => \E t \in seen[q] : data[q][1] = Low(t) /\ data[q][2] = High(t)
    BY <2>2 DEF BusInv, Outcome
  <2>5. seen[q] \subseteq seen'[q]
    BY <1>1
  <2>6. QED BY <1>1, <2>3, <2>4, <2>5
<1>12. ShownExact'
  BY <1>1 DEF BusInv, ShownExact, Quiet
<1>13. AskedIsMeasured' /\ ExitsForCause'
  BY <1>1 DEF BusInv, AskedIsMeasured, ExitsForCause, Quiet
<1>14. QED
  BY <1>7, <1>8, <1>9, <1>10, <1>11, <1>12, <1>13 DEF BusInv

(* The line fails or comes back: every read has met that. *)
LEMMA LineKeeps ==
  ASSUME BusInv, LineFails \/ LineBack
  PROVE  BusInv'
<1>1. /\ TypeOK /\ UNCHANGED <<pc, step, bit, data, shown, seen, cpu>>
      /\ trouble' = [q \in Procs |-> trouble[q] \cup {"line"}]
      /\ line' \in {"ok", "absent", "low"}
  BY DEF LineFails, LineBack, BusInv, main
<1>2. ProcTypes' /\ DataTypes'
  BY <1>1, TypeParts DEF ProcTypes, DataTypes
<1>3. SensorTypes' /\ taken'.value < Weights[taken'.count + 1]
  <2>1. CASE LineFails
    <3>1. UNCHANGED <<mode, taken, given, scratch, asked>>
      BY <2>1 DEF LineFails, sensor
    <3>2. SensorTypes'
      BY <1>1, <3>1, TypeParts DEF SensorTypes
    <3>3. QED BY <3>1, <3>2 DEF BusInv, Counting
  <2>2. CASE LineBack
    <3>1. /\ mode' = "waiting" /\ taken' = [count |-> 0, value |-> 0]
          /\ given' = 0 /\ scratch' = PowerOn
          /\ asked' = [q \in Procs |-> "no"]
      BY <2>2 DEF LineBack
    <3>2. taken' \in [count : 0..7, value : 0..127] /\ taken'.value < Weights[taken'.count + 1]
      BY <3>1, WeightsAre
    <3>3. asked' \in [Procs -> {"no", "asked", "measured"}]
      BY <3>1
    <3>4. QED BY <1>1, <3>1, <3>2, <3>3 DEF SensorTypes
  <2>3. QED BY <2>1, <2>2
<1>4. left' \in [Troubles -> Nat]
  <2>1. CASE LineFails
    BY <1>1, <2>1, HappensTypes DEF LineFails, Troubles
  <2>2. CASE LineBack
    BY <1>1, <2>2 DEF LineBack, TypeOK
  <2>3. QED BY <2>1, <2>2
<1>5. trouble' \in [Procs -> SUBSET Troubles]
  BY <1>1 DEF TypeOK, Troubles
<1>6. ReadTypes'
  BY <1>1, <1>4, <1>5, TypeParts DEF ReadTypes
<1>7. TypeOK'
  BY <1>2, <1>3, <1>6, TypesJoin
<1>8. Counting'
  BY <1>1, <1>3 DEF BusInv, Counting
<1>9. \A q \in Procs : "line" \in trouble'[q] /\ trouble[q] \subseteq trouble'[q]
  BY <1>1
<1>10. Met' /\ ExitsForCause'
  BY <1>1, <1>9 DEF BusInv, Met, ExitsForCause
<1>11. \A q \in Procs : ~Quiet(q)'
  BY <1>9 DEF Quiet
<1>12. Conversation' /\ Outcome' /\ ShownExact' /\ AskedIsMeasured'
  BY <1>11 DEF Conversation, Outcome, ShownExact, AskedIsMeasured
<1>13. QED
  BY <1>7, <1>8, <1>10, <1>12 DEF BusInv

LEMMA BusInit == Init => BusInv
<1> SUFFICES ASSUME Init PROVE BusInv
  OBVIOUS
<1>1. /\ pc \in [Procs -> {"closed", "opened", "loop", "reading", "read", "asleep", "exited"}]
      /\ step \in [Procs -> 1..Len(Calls)]
      /\ bit \in [Procs -> 0..7]
  BY CallsAre DEF Init
<1>2. data \in [Procs -> Seq(0..255)] /\ \A p \in Procs : Len(data[p]) = 2
  <2>1. <<0, 0>> \in Seq(0 .. 255) /\ Len(<<0, 0>>) = 2
    OBVIOUS
  <2>2. QED BY <2>1 DEF Init
<1>3. shown \in [Procs -> Printed]
  BY DEF Init, Printed
<1>4. SensorTypes
  BY DEF Init, SensorTypes
<1>5. ReadTypes
  BY Ds18b20Assumption DEF Init, ReadTypes
<1>6. TypeOK
  BY <1>1, <1>2, <1>3, <1>4, <1>5 DEF TypeOK, SensorTypes, ReadTypes
<1>7. taken.value < Weights[taken.count + 1]
  BY WeightsAre DEF Init
<1>8. \A p \in Procs : pc[p] = "closed" /\ step[p] = 1 /\ bit[p] = 0 /\ data[p] = <<0, 0>>
  BY DEF Init
<1>9. Counting
  BY <1>7, <1>8 DEF Counting
<1>10. Met /\ Conversation /\ Outcome
  BY <1>8 DEF Met, Conversation, Outcome
<1>11. ShownExact /\ AskedIsMeasured /\ ExitsForCause
  BY <1>8 DEF ShownExact, AskedIsMeasured, ExitsForCause
<1>12. QED BY <1>6, <1>9, <1>10, <1>11 DEF BusInv

LEMMA BusStutters ==
  ASSUME BusInv, UNCHANGED vars
  PROVE  BusInv'
<1>1. /\ UNCHANGED <<pc, step, bit, data, shown, line, mode, taken, given, scratch, asked>>
      /\ UNCHANGED <<seen, trouble, cpu, left>>
  BY DEF vars, main, sensor
<1>2. ProcTypes' /\ DataTypes'
  BY <1>1, TypeParts DEF BusInv, ProcTypes, DataTypes
<1>3. SensorTypes' /\ ReadTypes'
  BY <1>1, TypeParts DEF BusInv, SensorTypes, ReadTypes
<1>4. TypeOK'
  BY <1>2, <1>3, TypesJoin
<1>5. Counting' /\ Met' /\ ExitsForCause'
  BY <1>1 DEF BusInv, Counting, Met, ExitsForCause
<1>6. ASSUME NEW q \in Procs PROVE InStep(q)' = InStep(q)
  BY <1>1 DEF InStep, Got, Shifted, Low, High, Word, Weights
<1>7. Conversation'
  BY <1>1, <1>6 DEF BusInv, Conversation, Quiet
<1>8. Outcome' /\ ShownExact' /\ AskedIsMeasured'
  BY <1>1 DEF BusInv, Outcome, ShownExact, AskedIsMeasured, Quiet, Low, High, Word
<1>9. QED BY <1>4, <1>5, <1>7, <1>8 DEF BusInv

(* BusInv is inductive. *)
LEMMA BusNext == BusInv /\ [Next]_vars => BusInv'
<1> SUFFICES ASSUME BusInv, [Next]_vars PROVE BusInv'
  OBVIOUS
<1>1. ASSUME NEW p \in Procs, Open(p) PROVE BusInv'
  BY <1>1, OpenKeeps
<1>2. ASSUME NEW p \in Procs, Read(p) PROVE BusInv'
  BY <1>2, ReadCallKeeps
<1>3. ASSUME NEW p \in Procs, ResetStep(p) PROVE BusInv'
  BY <1>3, ResetKeeps
<1>4. ASSUME NEW p \in Procs, WriteStep(p) PROVE BusInv'
  BY <1>4, WriteKeeps
<1>5. ASSUME NEW p \in Procs, ReadStep(p) PROVE BusInv'
  BY <1>5, ReadKeeps
<1>6. ASSUME NEW p \in Procs, LateStep(p) PROVE BusInv'
  BY <1>6, LateKeeps
<1>7. ASSUME NEW p \in Procs, Show(p) PROVE BusInv'
  BY <1>7, ShowKeeps
<1>8. ASSUME NEW p \in Procs, Wake(p) PROVE BusInv'
  BY <1>8, WakeKeeps
<1>9. CASE Converted
  BY <1>9, ConvertedKeeps
<1>10. CASE LineFails \/ LineBack
  BY <1>10, LineKeeps
<1>11. CASE UNCHANGED vars
  BY <1>11, BusStutters
<1>12. QED
  BY <1>1, <1>2, <1>3, <1>4, <1>5, <1>6, <1>7, <1>8, <1>9, <1>10, <1>11 DEF Next, Driver

LEMMA BusAlways == Spec => []BusInv
BY BusInit, BusNext, PTL DEF Spec

-----------------------------------------------------------------------------
(***************************************************************************)
(* ds18b20.c:64-148, main.c:30-61: types of driver, program and sensor.    *)
(***************************************************************************)
THEOREM BusTypes == Spec => []TypeOK
<1>1. BusInv => TypeOK
  BY DEF BusInv
<1>2. QED BY <1>1, BusAlways, PTL

(***************************************************************************)
(* ds18b20.c:64-148, main.c:42-56: however many processes read and in      *)
(* whatever way their time slots mix, a read that met no trouble prints a  *)
(* temperature that the sensor held during it.                             *)
(***************************************************************************)
THEOREM QuietReadsAreExact == Spec => []ShownExact
<1>1. BusInv => ShownExact
  BY DEF BusInv
<1>2. QED BY <1>1, BusAlways, PTL

(***************************************************************************)
(* ds18b20.c:127-137, main.c:58: when main() reads again after a read that *)
(* met no trouble, the conversion that the read asked for is over: the     *)
(* sleep of a second has waited for what the driver did not.               *)
(***************************************************************************)
THEOREM SleepWaitsForConversion == Spec => []AskedIsMeasured
<1>1. BusInv => AskedIsMeasured
  BY DEF BusInv
<1>2. QED BY <1>1, BusAlways, PTL

(***************************************************************************)
(* ds18b20.c:121-134, main.c:35-37: a program that has given up has met    *)
(* another process on the bus or a fault of the line: a late slot alone    *)
(* never makes the driver report that there is no sensor.                  *)
(***************************************************************************)
THEOREM ExitsOnlyForCause == Spec => []ExitsForCause
<1>1. BusInv => ExitsForCause
  BY DEF BusInv
<1>2. QED BY <1>1, BusAlways, PTL

=============================================================================
