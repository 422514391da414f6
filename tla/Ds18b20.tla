------------------------------- MODULE Ds18b20 -------------------------------
(***************************************************************************)
(* The DS18B20 thermometer (ok335xDriver/ds18b20): the driver that drives  *)
(* the one-wire bus bit by bit, and the program that reads and prints the  *)
(* temperature every second.  Any number of processes run the program:     *)
(* nothing in the driver keeps their calls apart, and nothing keeps an     *)
(* interrupt from stretching a time slot of a few microseconds.            *)
(*                                                                         *)
(* A step is one reset or one time slot of the bus.  Temperatures are      *)
(* numbers of sixteenths of a degree.  The sensor is external: it is what  *)
(* the driver takes it to be.                                              *)
(***************************************************************************)
EXTENDS Integers, Sequences, FiniteSets

CONSTANTS
  Procs,      \* processes that run main.c
  Temps,      \* temperatures that the sensor measures
  Budgets     \* bounds: how often each of Troubles happens in a behaviour

(* A preemption in the middle of a read, a late slot, the line. *)
Troubles == {"mixed", "late", "line"}

ASSUME Ds18b20Assumption ==
  /\ Temps \subseteq -880..2000    \* -55 to 125 degrees
  /\ Budgets \subseteq [Troubles -> Nat]

VARIABLES
  pc,         \* where a process is in main()
  step,       \* call of read_ds18b20 that it is in
  bit,        \* loop counter of ds18b20_write and ds18b20_read
  data,       \* Data[2] of read_ds18b20
  shown,      \* what main() printed before it went to sleep
  line,       \* state of the bus: "ok", "absent" (no sensor), "low"
  mode,       \* what the sensor expects or does
  taken,      \* bits it has received of a command: how many, and their value
  given,      \* bits it has sent of the scratchpad
  scratch,    \* temperature in its scratchpad
  asked,      \* per process: "no" conversion, "asked" for one, "measured"
  seen,       \* per process: temperatures in the scratchpad during its read
  trouble,    \* per process: what its read met, of Troubles
  cpu,        \* process that used the bus last (one core)
  left        \* troubles that may still happen

main == <<pc, step, bit, data, shown>>
sensor == <<mode, taken, given, scratch, asked>>
vars == <<main, line, sensor, seen, trouble, cpu, left>>

Happens(kind) == left[kind] > 0 /\ left' = [left EXCEPT ![kind] = @ - 1]

-----------------------------------------------------------------------------
(***************************************************************************)
(* Conversions.                                                            *)
(***************************************************************************)
Weights == <<1, 2, 4, 8, 16, 32, 64, 128, 256, 512, 1024, 2048, 4096, 8192, 16384, 32768>>

(* n >> i & 1 *)
BitOf(n, i) == (n \div Weights[i + 1]) % 2

(* The two bytes of the scratchpad: two's complement in 16 bits. *)
Word(t) == t % 65536

(* data >>= 1, data |= 0x80: the bit that comes first ends lowest. *)
ShiftIn(byte, b) == byte \div 2 + 128 * b

(* main(): the two bytes, the second one highest. *)
Joined(lo, hi) == 256 * hi + lo

(* What main() prints as an error of the sign: no word of 16 bits. *)
SignError == 65536

(* The five bits of the sign (0xF800) must agree. *)
Signed(word) ==
  IF word \div 2048 = 0 THEN word
  ELSE IF word \div 2048 = 31 THEN -((65535 - word) + 1)
  ELSE SignError

-----------------------------------------------------------------------------
(***************************************************************************)
(* The sensor.  A slot that is not the sensor's turn is a bit for it: the  *)
(* read slots of the driver look like ones.  0xCC skips the ROM command,   *)
(* 0x44 starts a conversion, 0xBE sends the scratchpad; behind any other   *)
(* byte it waits for a reset.                                              *)
(***************************************************************************)
PowerOn == 1360

Listening == mode \in {"rom", "function"}

(* The level of the bus when the sensor may pull it down. *)
Level ==
  CASE line = "low" -> 0
    [] line = "ok" /\ mode = "sending" /\ given < 16 -> BitOf(Word(scratch), given)
    [] line = "ok" /\ mode = "converting" /\ \E p \in Procs : asked[p] = "asked" -> 0
    [] OTHER -> 1

SensorReset ==
  /\ mode' = IF line = "ok" THEN "rom" ELSE mode
  /\ taken' = [count |-> 0, value |-> 0]
  /\ given' = 0
  /\ UNCHANGED <<scratch, asked>>

Command(p, byte) ==
  /\ taken' = [count |-> 0, value |-> 0]
  /\ mode' = CASE mode = "rom" /\ byte = 204 -> "function"
               [] mode = "function" /\ byte = 68 -> "converting"
               [] mode = "function" /\ byte = 190 -> "sending"
               [] OTHER -> "waiting"
  /\ asked' = IF mode' = "converting" THEN [asked EXCEPT ![p] = "asked"] ELSE asked
  /\ UNCHANGED <<given, scratch>>

(* A slot of process p in which the bus says b to the sensor. *)
Slot(p, b) ==
  LET value == taken.value + b * Weights[taken.count + 1]
  IN  \/ line # "ok" /\ UNCHANGED sensor
      \/ /\ line = "ok" /\ Listening /\ taken.count < 7
         /\ taken' = [count |-> taken.count + 1, value |-> value]
         /\ UNCHANGED <<mode, given, scratch, asked>>
      \/ /\ line = "ok" /\ Listening /\ taken.count = 7
         /\ Command(p, value)
      \/ /\ line = "ok" /\ ~Listening
         /\ given' = IF mode = "sending" /\ given < 16 THEN given + 1 ELSE given
         /\ UNCHANGED <<mode, taken, scratch, asked>>

(***************************************************************************)
(* A conversion takes longer (90 to 750 ms) than the rest of the read that *)
(* started it (5 ms), and does not change the scratchpad while it is sent. *)
(***************************************************************************)
Converted ==
  /\ line = "ok"
  /\ mode = "sending" => \A p \in Procs : pc[p] # "reading"
  /\ \E p \in Procs : asked[p] = "asked"
  /\ \A p \in Procs : asked[p] = "asked" => pc[p] # "reading"
  /\ scratch' \in Temps
  /\ asked' = [p \in Procs |-> IF asked[p] = "asked" THEN "measured" ELSE asked[p]]
  /\ seen' = [p \in Procs |-> IF pc[p] = "reading" THEN seen[p] \cup {scratch'}
                              ELSE seen[p]]
  /\ UNCHANGED <<main, line, mode, taken, given, trouble, cpu, left>>

(* The sensor is unplugged or the line shorted, and repaired. *)
LineFails ==
  /\ Happens("line")
  /\ line = "ok"
  /\ line' \in {"absent", "low"}
  /\ trouble' = [p \in Procs |-> trouble[p] \cup {"line"}]
  /\ UNCHANGED <<main, sensor, seen, cpu>>

LineBack ==
  /\ line # "ok"
  /\ line' = "ok"
  /\ mode' = "waiting"
  /\ taken' = [count |-> 0, value |-> 0]
  /\ given' = 0
  /\ scratch' = PowerOn
  /\ asked' = [p \in Procs |-> "no"]
  /\ trouble' = [p \in Procs |-> trouble[p] \cup {"line"}]
  /\ UNCHANGED <<main, seen, cpu, left>>

-----------------------------------------------------------------------------
(***************************************************************************)
(* The driver.  read_ds18b20 makes these calls in turn.                    *)
(***************************************************************************)
ResetCall == [op |-> "reset", byte |-> 0]
WriteCall(byte) == [op |-> "write", byte |-> byte]
ReadCall(i) == [op |-> "read", byte |-> i]

(* Mutant: no reset before the second command. *)
CallsOneReset ==
  <<ResetCall, WriteCall(204), WriteCall(68),
    WriteCall(204), WriteCall(190), ReadCall(1), ReadCall(2), ResetCall>>

Calls ==
  <<ResetCall, WriteCall(204), WriteCall(68),
    ResetCall, WriteCall(204), WriteCall(190), ReadCall(1), ReadCall(2), ResetCall>>

Reading == {p \in Procs : pc[p] = "reading"}
Others(p) == Reading \ {p}
At(p, op) == pc[p] = "reading" /\ Calls[step[p]].op = op
Byte(p) == Calls[step[p]].byte

(* p goes on.  When another process is in the middle of a read it has been *)
(* preempted, unless p is the one that ran.                                *)
Runs(p) ==
  /\ cpu' = p
  /\ \/ (cpu = p \/ Others(p) = {}) /\ UNCHANGED left
     \/ /\ cpu # p /\ Others(p) # {}
        /\ Happens("mixed")

Goto(p, place) == pc' = [pc EXCEPT ![p] = place]

(* Mutant: nine slots to a byte. *)
NextBitNine(p) ==
  /\ bit' = [bit EXCEPT ![p] = (@ + 1) % 9]
  /\ step' = [step EXCEPT ![p] = IF bit[p] = 8 THEN @ + 1 ELSE @]

(* One more slot of a byte; the ninth begins the next call. *)
NextBit(p) ==
  /\ bit' = [bit EXCEPT ![p] = (@ + 1) % 8]
  /\ step' = [step EXCEPT ![p] = IF bit[p] = 7 THEN @ + 1 ELSE @]

(***************************************************************************)
(* ds18b20_reset looks at the bus when the sensor's answer is long over:   *)
(* it tells a line that is low, not a sensor that is missing.  While       *)
(* another process drives the bus the pulse may be spoilt and any level be *)
(* found.                                                                  *)
(***************************************************************************)
(* Mutant: the bus is looked at while the sensor still answers. *)
ResetLevelsEarly(p) == IF line = "absent" THEN {1} ELSE {0}

ResetLevels(p) ==
  IF line = "low" THEN {0} ELSE IF Others(p) = {} THEN {1} ELSE {0, 1}

ResetPulse(p) == SensorReset \/ (Others(p) # {} /\ UNCHANGED sensor)

ResetStep(p) ==
  /\ At(p, "reset")
  /\ Runs(p)
  /\ ResetPulse(p)
  /\ \E level \in ResetLevels(p) :
       \/ /\ step[p] < Len(Calls) /\ level = 1
          /\ step' = [step EXCEPT ![p] = @ + 1]
          /\ UNCHANGED pc
       \/ /\ step[p] < Len(Calls) /\ level = 0
          /\ Goto(p, "exited")
          /\ step' = [step EXCEPT ![p] = 1]
       \/ /\ step[p] = Len(Calls)
          /\ Goto(p, "read")
          /\ step' = [step EXCEPT ![p] = 1]
  /\ UNCHANGED <<bit, data, shown, line, seen, trouble>>

(* ds18b20_write: one bit, the lowest first. *)
WriteStep(p) ==
  /\ At(p, "write")
  /\ Runs(p)
  /\ Slot(p, BitOf(Byte(p), bit[p]))
  /\ NextBit(p)
  /\ UNCHANGED <<pc, data, shown, line, seen, trouble>>

(* ds18b20_read: one bit. *)
Received(p, level) == data' = [data EXCEPT ![p][Byte(p)] = ShiftIn(@, level)]

ReadStep(p) ==
  /\ At(p, "read")
  /\ Runs(p)
  /\ Received(p, Level)
  /\ Slot(p, 1)
  /\ NextBit(p)
  /\ UNCHANGED <<pc, shown, line, seen, trouble>>

(***************************************************************************)
(* An interrupt inside a slot.  The bus stays low too long: the bit is a   *)
(* zero or the slot a reset, which the sensor answers; or it is looked at  *)
(* too late, and is high.                                                  *)
(***************************************************************************)
LateStep(p) ==
  /\ Happens("late")
  /\ cpu = p
  /\ \/ /\ At(p, "write")
        /\ Slot(p, 0) \/ SensorReset
        /\ UNCHANGED data
     \/ /\ At(p, "read")
        /\ \/ Slot(p, 1) /\ Received(p, IF line = "low" THEN 0 ELSE 1)
           \/ SensorReset /\ \E level \in {0, 1} : Received(p, level)
  /\ NextBit(p)
  /\ trouble' = [trouble EXCEPT ![p] = @ \cup {"late"}]
  /\ UNCHANGED <<pc, shown, line, seen, cpu>>

-----------------------------------------------------------------------------
(***************************************************************************)
(* main().                                                                 *)
(***************************************************************************)
Mixed(q, procs) == IF q \in procs THEN {"mixed"} ELSE {}

(* open_ds18b20 resets the bus, and succeeds whatever it finds. *)
Open(p) ==
  /\ pc[p] = "closed"
  /\ Runs(p)
  /\ ResetPulse(p)
  /\ Goto(p, "opened")
  /\ trouble' = [q \in Procs |-> trouble[q] \cup Mixed(q, Others(p))]
  /\ UNCHANGED <<step, bit, data, shown, line, seen>>

(* The call of read(). *)
Read(p) ==
  /\ pc[p] \in {"opened", "loop"}
  /\ Runs(p)
  /\ Goto(p, "reading")
  /\ seen' = [seen EXCEPT ![p] = {scratch}]
  /\ asked' = [asked EXCEPT ![p] = "no"]
  /\ trouble' = [q \in Procs |->
                   IF q # p THEN trouble[q] \cup Mixed(q, Others(p))
                   ELSE (IF Others(p) # {} THEN {"mixed"} ELSE {})
                          \cup (IF line # "ok" THEN {"line"} ELSE {})]
  /\ UNCHANGED <<step, bit, data, shown, line, mode, taken, given, scratch>>

Show(p) ==
  /\ pc[p] = "read"
  /\ shown' = [shown EXCEPT ![p] = Signed(Joined(data[p][1], data[p][2]))]
  /\ data' = [data EXCEPT ![p] = <<0, 0>>]
  /\ Goto(p, "asleep")
  /\ UNCHANGED <<step, bit, line, sensor, seen, trouble, cpu, left>>

Forget(p) ==
  /\ shown' = [shown EXCEPT ![p] = SignError]
  /\ seen' = [seen EXCEPT ![p] = {}]

(* Mutant: usleep(100) alone between two readings. *)
WakeEarly(p) ==
  /\ pc[p] = "asleep"
  /\ Forget(p)
  /\ Goto(p, "loop")
  /\ UNCHANGED <<step, bit, data, line, sensor, trouble, cpu, left>>

(* sleep(1) is longer than a conversion. *)
Wake(p) ==
  /\ pc[p] = "asleep"
  /\ asked[p] = "asked" => line # "ok"
  /\ Forget(p)
  /\ Goto(p, "loop")
  /\ UNCHANGED <<step, bit, data, line, sensor, trouble, cpu, left>>

-----------------------------------------------------------------------------
Init ==
  /\ pc = [p \in Procs |-> "closed"]
  /\ step = [p \in Procs |-> 1]
  /\ bit = [p \in Procs |-> 0]
  /\ data = [p \in Procs |-> <<0, 0>>]
  /\ shown = [p \in Procs |-> SignError]
  /\ line = "ok"
  /\ mode = "waiting"
  /\ taken = [count |-> 0, value |-> 0]
  /\ given = 0
  /\ scratch = PowerOn
  /\ asked = [p \in Procs |-> "no"]
  /\ seen = [p \in Procs |-> {}]
  /\ trouble = [p \in Procs |-> {}]
  /\ cpu \in Procs
  /\ left \in Budgets

Driver(p) == ResetStep(p) \/ WriteStep(p) \/ ReadStep(p)

Next ==
  \/ \E p \in Procs : Open(p) \/ Read(p) \/ Driver(p) \/ LateStep(p) \/ Show(p) \/ Wake(p)
  \/ Converted \/ LineFails \/ LineBack

Spec == Init /\ [][Next]_vars

-----------------------------------------------------------------------------
(* What main() may print: a temperature of 12 bits or the error. *)
Printed == (-2048..2047) \cup {SignError}

TypeOK ==
  /\ pc \in [Procs -> {"closed", "opened", "loop", "reading", "read", "asleep",
                   "exited"}]
  /\ step \in [Procs -> 1..Len(Calls)]
  /\ bit \in [Procs -> 0..7]
  /\ data \in [Procs -> Seq(0..255)] /\ \A p \in Procs : Len(data[p]) = 2
  /\ shown \in [Procs -> Printed]
  /\ line \in {"ok", "absent", "low"}
  /\ mode \in {"waiting", "rom", "function", "converting", "sending"}
  /\ taken \in [count : 0..7, value : 0..127]
  /\ given \in 0..16
  /\ scratch \in Temps \cup {PowerOn}
  /\ asked \in [Procs -> {"no", "asked", "measured"}]
  /\ seen \in [Procs -> SUBSET (Temps \cup {PowerOn})]
  /\ trouble \in [Procs -> SUBSET Troubles]
  /\ cpu \in Procs
  /\ left \in [Troubles -> Nat]

Quiet(p) == trouble[p] = {}

(***************************************************************************)
(* ds18b20.c:64-148, main.c:42-56: a read that met no trouble prints a     *)
(* temperature that the sensor held during it, with its sign, whatever     *)
(* state earlier reads, cut short or mixed, have left the sensor in.       *)
(***************************************************************************)
ShownExact ==
  \A p \in Procs :
    pc[p] = "asleep" /\ Quiet(p) => shown[p] \in seen[p]

(***************************************************************************)
(* ds18b20.c:127-137, main.c:58: the driver does not wait for the          *)
(* conversion that it starts; the program's second of sleep does.  When it *)
(* reads again, what its last read asked for has been measured.            *)
(***************************************************************************)
AskedIsMeasured ==
  \A p \in Procs :
    pc[p] = "loop" /\ Quiet(p) => asked[p] = "measured"

(***************************************************************************)
(* ds18b20.c:121-134, main.c:35-37: the program gives up only when its     *)
(* read met another process or the line, never after a late slot alone.    *)
(***************************************************************************)
ExitsForCause ==
  \A p \in Procs : pc[p] = "exited" => trouble[p] \cap {"mixed", "line"} # {}
=============================================================================
