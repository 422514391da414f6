------------------------------- MODULE CarDet -------------------------------
(***************************************************************************)
(* The car detector of iMX287Learn/cardet.  Two light barriers, X and Y,   *)
(* raise an interrupt each; the driver's interrupt handlers (driver/ISR.c) *)
(* stamp the time of the falling edge into the driver's table.  A single   *)
(* application thread (main.c) alternates fns_detec_loop (detec/detec.c),  *)
(* which reads the table, runs the detection state machine and writes the  *)
(* cleared table back, and app_udp_loop (udp/udpser.c), which broadcasts   *)
(* the count.  Nothing locks the table: interrupts may fall between and    *)
(* inside the copies that read() and write() make.                         *)
(*                                                                         *)
(* A struct timeval is one integer of clock units; timerisset is "# 0",    *)
(* timercmp and timeradd are comparison and addition.  The 1 ms pacing of  *)
(* app_detec_loop is below the clock's unit.  CHANNEL_MAX is 1.            *)
(***************************************************************************)
EXTENDS Integers

CONSTANTS
  Second,    \* clock units in a second: the length of both timeouts (1000 ms)
  Modes,     \* how traffic and scheduler may behave: see Timely and Edge
  CrossMax,  \* clock units an orderly car takes from one barrier to the other
  MaxLag,    \* clock units between two runs of the state machine, when timely
  MaxTime,   \* bound: the clock stops here
  FreeTime,  \* bound: and here in mode "free", which awaits nothing
  LastEdge,  \* bound: no edge after this time, but for a car's second
  MaxEdges   \* bound: edges of one barrier

ASSUME CarDetAssumption ==
  /\ Second \in Nat \ {0}
  /\ CrossMax \in Nat \ {0}
  /\ MaxLag \in Nat \ {0}
  /\ CrossMax + 2 * MaxLag <= Second
  /\ MaxTime \in Nat
  /\ FreeTime \in Nat
  /\ LastEdge \in Nat
  /\ MaxEdges \in Nat
  /\ Modes \subseteq {"orderly", "close", "stray", "free"}

VARIABLES
  mode,      \* the behaviour of the environment, fixed at the start
  now,       \* the wall clock
  drv,       \* _timesign[0]: the driver's stamps of the last edge of x and y
  usr,       \* _cardet[0].tmsign: the application's copy
  state,     \* _cardet[0].state
  flows,     \* _cardet[0].flows: cars in minus cars out
  timeout,   \* _cardet[0].timeout
  pc,        \* where the application thread is in app_main_loop
  alive,     \* FALSE once the application has called exit(1)
  lastScan,  \* when the state machine last ran
  udpTick,   \* _fnstick of udpser.c
  reported,  \* the count in the last datagram
  car,       \* the car between the barriers: its direction, or "none"
  carStart,  \* when a car last broke a barrier
  balance,   \* cars that really went in minus cars that really went out
  edges,     \* falling edges so far, per barrier
  counted    \* how often the state machine has counted a car

traffic == <<mode, car, carStart, balance, edges>>
app     == <<usr, state, flows, timeout, lastScan, counted>>
udp     == <<udpTick, reported>>
vars    == <<now, drv, pc, alive, traffic, app, udp>>

Points == {"x", "y"}

(***************************************************************************)
(* A stamp copied while the other party writes it: seconds of one, micro-  *)
(* seconds of the other, since both copies move the seconds first.         *)
(***************************************************************************)
Mix(secs, usecs) == (secs \div Second) * Second + (usecs % Second)

Init ==
  /\ mode \in Modes
  /\ now = 1
  /\ drv = [p \in Points |-> 0]
  /\ usr = [p \in Points |-> 0]
  /\ state = "SCAN"
  /\ flows = 0
  /\ timeout = 0
  /\ pc = "read_x"
  /\ alive = TRUE
  /\ lastScan = 1
  /\ udpTick = 0
  /\ reported = 0
  /\ car = "none"
  /\ carStart = 0
  /\ balance = 0
  /\ edges = [p \in Points |-> 0]
  /\ counted = 0

-----------------------------------------------------------------------------
(***************************************************************************)
(* The environment.  An orderly car breaks both barriers, the second       *)
(* within CrossMax.  In mode "orderly" a car comes only when the detector  *)
(* is armed again, in mode "close" it may follow sooner; in the other two  *)
(* modes edges come in any order (people, birds, cars that turn back).     *)
(***************************************************************************)
Cars   == mode \in {"orderly", "close"}
Timely == mode # "free"

Armed == /\ state = "SCAN"
         /\ pc \notin {"write_x", "write_y"}
         /\ \A p \in Points : drv[p] = 0

Bounded(p) == now <= LastEdge /\ edges[p] < MaxEdges

FirstEdge(p) ==
  /\ \A q \in Points : Bounded(q)
  /\ car = "none"
  /\ now > carStart
  /\ mode = "orderly" => Armed
  /\ car' = IF p = "x" THEN "in" ELSE "out"
  /\ carStart' = now
  /\ UNCHANGED balance

SecondEdge(p) ==
  /\ car = IF p = "x" THEN "out" ELSE "in"
  /\ now > carStart
  /\ car' = "none"
  /\ carStart' = now
  /\ balance' = balance + (IF p = "x" THEN -1 ELSE 1)

StrayEdge(p) ==
  /\ Bounded(p)
  /\ UNCHANGED <<car, carStart, balance>>

Edge(p) ==
  /\ IF Cars THEN FirstEdge(p) \/ SecondEdge(p) ELSE StrayEdge(p)
  /\ edges' = [edges EXCEPT ![p] = @ + 1]
  /\ UNCHANGED mode

Tick ==
  /\ now < IF Timely THEN MaxTime ELSE FreeTime
  /\ (Timely /\ alive) => now - lastScan < MaxLag
  /\ (Cars /\ car # "none") => now < carStart + CrossMax
  /\ now' = now + 1
  /\ UNCHANGED <<drv, pc, alive, traffic, app, udp>>

-----------------------------------------------------------------------------
(* isr_ch0_xphandle and isr_ch0_yphandle; IRQF_DISABLED makes them atomic. *)
Isr(p) ==
  /\ Edge(p)
  /\ drv' = [drv EXCEPT ![p] = now]
  /\ UNCHANGED <<now, pc, alive, app, udp>>

(***************************************************************************)
(* read(): cardet_irq_read copies x, then y; an interrupt in the middle of *)
(* a stamp leaves the application with a mixture.                          *)
(***************************************************************************)
ReadStamp(p, value, next) ==
  /\ usr' = [usr EXCEPT ![p] = value]
  /\ pc' = next
  /\ UNCHANGED <<now, alive, state, flows, timeout, lastScan, counted, udp>>

AfterRead(p) == IF p = "x" THEN "read_y" ELSE "do_flows"

Read(p) ==
  /\ alive
  /\ pc = IF p = "x" THEN "read_x" ELSE "read_y"
  /\ ReadStamp(p, drv[p], AfterRead(p))
  /\ UNCHANGED <<drv, traffic>>

ReadTorn(p) ==
  /\ alive
  /\ pc = IF p = "x" THEN "read_x" ELSE "read_y"
  /\ Edge(p)
  /\ drv' = [drv EXCEPT ![p] = now]
  /\ ReadStamp(p, Mix(drv[p], now), AfterRead(p))

-----------------------------------------------------------------------------
(***************************************************************************)
(* fns_cardet_doflows, one disjunct per state of the machine.              *)
(***************************************************************************)
DoScan ==
  /\ state = "SCAN"
  /\ state' = IF \E p \in Points : usr[p] # 0 THEN "TRIGGER" ELSE "SCAN"
  /\ pc' = "udp"
  /\ UNCHANGED <<usr, flows, timeout, counted>>

(* Mutants: a timersub for the timeradd; no second of grace. *)
DoTriggerSub ==
  /\ state = "TRIGGER"
  /\ state' = "WAIT"
  /\ timeout' = now - Second
  /\ pc' = "udp"
  /\ UNCHANGED <<usr, flows, counted>>

DoTriggerNoGrace ==
  /\ state = "TRIGGER"
  /\ state' = "WAIT"
  /\ timeout' = now
  /\ pc' = "udp"
  /\ UNCHANGED <<usr, flows, counted>>

DoTrigger ==
  /\ state = "TRIGGER"
  /\ state' = "WAIT"
  /\ timeout' = now + Second
  /\ pc' = "udp"
  /\ UNCHANGED <<usr, flows, counted>>

(* Mutant: no expiry test. *)
DoWaitForever ==
  /\ state = "WAIT"
  /\ state' = IF \A p \in Points : usr[p] # 0 THEN "PASSED" ELSE "WAIT"
  /\ pc' = "udp"
  /\ UNCHANGED <<usr, flows, timeout, counted>>

(* The expiry test comes second and overrides PASSED. *)
DoWait ==
  /\ state = "WAIT"
  /\ state' = IF now > timeout THEN "END"
              ELSE IF \A p \in Points : usr[p] # 0 THEN "PASSED"
              ELSE "WAIT"
  /\ pc' = "udp"
  /\ UNCHANGED <<usr, flows, timeout, counted>>

DoPassed ==
  /\ state = "PASSED"
  /\ flows' = IF usr["x"] > usr["y"] THEN flows - 1
              ELSE IF usr["x"] < usr["y"] THEN flows + 1
              ELSE flows
  /\ counted' = IF usr["x"] # usr["y"] THEN counted + 1 ELSE counted
  /\ state' = "END"
  /\ pc' = "udp"
  /\ UNCHANGED <<usr, timeout>>

(* Mutant: tcls is never set, the driver's stamps stay. *)
DoEndNoWriteBack ==
  /\ state = "END"
  /\ usr' = [p \in Points |-> 0]
  /\ state' = "SCAN"
  /\ pc' = "udp"
  /\ UNCHANGED <<flows, timeout, counted>>

(* tcls = 1: fns_detec_loop goes on to write the cleared copy back. *)
DoEnd ==
  /\ state = "END"
  /\ usr' = [p \in Points |-> 0]
  /\ state' = "SCAN"
  /\ pc' = "write_x"
  /\ UNCHANGED <<flows, timeout, counted>>

DoFlows ==
  /\ alive
  /\ pc = "do_flows"
  /\ lastScan' = now
  /\ DoScan \/ DoTrigger \/ DoWait \/ DoPassed \/ DoEnd
  /\ UNCHANGED <<now, drv, alive, traffic, udp>>

(***************************************************************************)
(* write(): cardet_irq_write copies the application's stamps over the      *)
(* driver's, again stamp by stamp; an interrupt inside the copy of a stamp *)
(* keeps its seconds and loses its microseconds.                           *)
(***************************************************************************)
AfterWrite(p) == IF p = "x" THEN "write_y" ELSE "udp"

Write(p) ==
  /\ alive
  /\ pc = IF p = "x" THEN "write_x" ELSE "write_y"
  /\ drv' = [drv EXCEPT ![p] = usr[p]]
  /\ pc' = AfterWrite(p)
  /\ UNCHANGED <<now, alive, traffic, app, udp>>

WriteTorn(p) ==
  /\ alive
  /\ pc = IF p = "x" THEN "write_x" ELSE "write_y"
  /\ Edge(p)
  /\ drv' = [drv EXCEPT ![p] = Mix(now, usr[p])]
  /\ pc' = AfterWrite(p)
  /\ UNCHANGED <<now, alive, app, udp>>

-----------------------------------------------------------------------------
(* Mutant: 1000 taken for seconds. *)
UdpLoopSlow ==
  /\ alive
  /\ pc = "udp"
  /\ pc' = "read_x"
  /\ IF now > udpTick
     THEN reported' = flows /\ udpTick' = now + 1000 * Second
     ELSE UNCHANGED udp
  /\ UNCHANGED <<now, drv, alive, traffic, app>>

(***************************************************************************)
(* app_udp_loop: one datagram a second; a sendto that fails is exit(1).    *)
(***************************************************************************)
UdpLoop ==
  /\ alive
  /\ pc = "udp"
  /\ pc' = "read_x"
  /\ IF now > udpTick
     THEN reported' = flows /\ udpTick' = now + Second
     ELSE UNCHANGED udp
  /\ UNCHANGED <<now, drv, alive, traffic, app>>

UdpFails ==
  /\ alive
  /\ pc = "udp"
  /\ now > udpTick
  /\ alive' = FALSE
  /\ UNCHANGED <<now, drv, pc, traffic, app, udp>>

-----------------------------------------------------------------------------
AppStep ==
  \/ \E p \in Points : Read(p) \/ Write(p)
  \/ DoFlows
  \/ UdpLoop

Next ==
  \/ Tick
  \/ \E p \in Points : Isr(p) \/ ReadTorn(p) \/ WriteTorn(p)
  \/ AppStep
  \/ UdpFails

Spec == Init /\ [][Next]_vars

(* main.c loops for ever and the clock runs; cars and failures need not come,
   but a car between the barriers drives on. *)
FairSpec ==
  /\ Spec
  /\ WF_vars(AppStep)
  /\ WF_vars(Tick)
  /\ WF_vars(Cars /\ car # "none" /\ \E p \in Points : Isr(p))

-----------------------------------------------------------------------------
TypeOK ==
  /\ mode \in {"orderly", "close", "stray", "free"}
  /\ now \in Nat
  /\ drv \in [Points -> Int]
  /\ usr \in [Points -> Int]
  /\ state \in {"SCAN", "TRIGGER", "WAIT", "PASSED", "END"}
  /\ flows \in Int
  /\ timeout \in Nat
  /\ pc \in {"read_x", "read_y", "do_flows", "write_x", "write_y", "udp"}
  /\ alive \in BOOLEAN
  /\ lastScan \in Nat
  /\ udpTick \in Nat
  /\ reported \in Int
  /\ car \in {"none", "in", "out"}
  /\ carStart \in Nat
  /\ balance \in Int
  /\ edges \in [Points -> Nat]
  /\ counted \in Nat

(***************************************************************************)
(* main.c:1-3, the premise of the program: cars that pass normally are     *)
(* counted, in their direction.  When orderly traffic leaves the detector  *)
(* armed and no car is between the barriers, flows is the true balance:    *)
(* no scan, however it interleaves with the interrupts, misses a car,      *)
(* counts it twice or turns it round.                                      *)
(***************************************************************************)
CountExact ==
  (mode = "orderly" /\ car = "none" /\ Armed) => flows = balance

(***************************************************************************)
(* Whatever the barriers do and however late the application runs, a car   *)
(* is counted only for an edge of each barrier that no earlier count has   *)
(* used: clearing the driver's stamps in END (detec.c:58-63, 83) works.    *)
(***************************************************************************)
NoPhantomCount ==
  \A p \in Points : counted <= edges[p]

(***************************************************************************)
(* detec.c:44-47: a barrier broken by something that never reaches the     *)
(* other one does not hold the detector for ever.                          *)
(***************************************************************************)
Rearms ==
  (Timely /\ state # "SCAN") ~> (state = "SCAN" \/ ~alive)

(***************************************************************************)
(* udpser.c:74-79: once the traffic stops, the datagrams carry the         *)
(* detector's final count.                                                 *)
(***************************************************************************)
ReportConverges ==
  Timely => <>[](reported = flows \/ ~alive)

(***************************************************************************)
(* main.c:1-3 without the spacing of mode "orderly": every car that passes *)
(* normally is counted, also one that follows closely.                     *)
(***************************************************************************)
EveryCarCounted ==
  (Cars /\ car = "none" /\ Armed) => flows = balance
=============================================================================
