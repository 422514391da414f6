---------------------------- MODULE CarDetProofs ----------------------------
(***************************************************************************)
(* Proofs about the car detector, for every length of a second, crossing   *)
(* time and scheduling lag that CarDetAssumption allows and with no bound  *)
(* on time or traffic beyond the model's own constants.                    *)
(***************************************************************************)
EXTENDS CarDet, TLAPS

Other(p) == IF p = "x" THEN "y" ELSE "x"

(* The scan in progress has already copied the stamp of p. *)
Copied(p) == pc = "do_flows" \/ (p = "x" /\ pc = "read_y")

Writing == pc \in {"write_x", "write_y"}

(* The stamp of p is not one that an END scan is about to clear. *)
Fresh(p) == /\ state # "END"
            /\ pc # "write_x"
            /\ p = "y" => pc # "write_y"

(***************************************************************************)
(* The strengthening of NoPhantomCount: every stamp the state machine can  *)
(* still act on stands for an edge that no count has used yet.             *)
(***************************************************************************)
PhantomInv ==
  /\ Writing => state = "SCAN" /\ \A p \in Points : usr[p] = 0
  /\ \A p \in Points :
       /\ counted <= edges[p]
       /\ Fresh(p) /\ drv[p] # 0 => counted < edges[p]
       /\ state # "END" /\ Copied(p) /\ usr[p] # 0 => counted < edges[p]
       /\ state = "PASSED" => counted < edges[p]

(***************************************************************************)
(* The strengthening of CountExact: orderly traffic takes the detector     *)
(* through five phases, and the count is right or late by exactly the car  *)
(* that has just crossed.                                                  *)
(***************************************************************************)
Clock ==
  /\ now >= 1
  /\ now >= lastScan
  /\ now >= carStart
  /\ alive => now <= lastScan + MaxLag

(* A copy that missed a stamp was made before the stamp's edge. *)
StaleOnlyIfRecent ==
  \A p \in Points : (Copied(p) /\ usr[p] # drv[p]) => lastScan <= carStart

(* In WAIT the deadline is further away than the next scan, and a second   *)
(* later than the car's first edge t.                                      *)
DeadlineFar(t) ==
  state = "WAIT" => /\ timeout >= lastScan + MaxLag
                    /\ timeout >= t + Second

Idle ==
  /\ car = "none"
  /\ state = "SCAN"
  /\ ~Writing
  /\ flows = balance
  /\ \A p \in Points : drv[p] = 0 /\ usr[p] = 0

Crossing(p) ==
  /\ car = IF p = "x" THEN "in" ELSE "out"
  /\ carStart >= 1
  /\ drv[p] = carStart
  /\ drv[Other(p)] = 0
  /\ usr[Other(p)] = 0
  /\ state \in {"SCAN", "TRIGGER", "WAIT"}
  /\ ~Writing
  /\ flows = balance
  /\ now <= carStart + CrossMax
  /\ DeadlineFar(carStart)
  /\ StaleOnlyIfRecent

Crossed(p) ==
  /\ car = "none"
  /\ drv[p] >= 1
  /\ drv[Other(p)] = carStart
  /\ drv[p] < carStart
  /\ carStart <= drv[p] + CrossMax
  /\ state \in {"SCAN", "TRIGGER", "WAIT", "PASSED"}
  /\ ~Writing
  /\ flows = balance - (IF p = "x" THEN 1 ELSE -1)
  /\ DeadlineFar(drv[p])
  /\ state # "PASSED" => StaleOnlyIfRecent
  /\ state = "PASSED" => \A q \in Points : Copied(q) => usr[q] = drv[q]

Counted ==
  /\ car = "none"
  /\ state = "END"
  /\ ~Writing
  /\ flows = balance

Clearing ==
  /\ car = "none"
  /\ state = "SCAN"
  /\ Writing
  /\ flows = balance
  /\ \A p \in Points : usr[p] = 0
  /\ pc = "write_y" => drv["x"] = 0

Phases ==
  \/ Idle
  \/ \E p \in Points : Crossing(p) \/ Crossed(p)
  \/ Counted
  \/ Clearing

OrderlyInv == mode = "orderly" => Clock /\ Phases

-----------------------------------------------------------------------------
(* A mixture of two stamps is a number. *)
LEMMA MixInt ==
  ASSUME NEW a \in Int, NEW b \in Int
  PROVE  Mix(a, b) \in Int
<1>1. Second \in Int /\ Second > 0
  BY CarDetAssumption
<1>2. a \div Second \in Int /\ b % Second \in Int
  BY <1>1
<1>3. QED
  BY <1>1, <1>2 DEF Mix

(* Every step of the detector keeps the variables in their types. *)
LEMMA TypeStep == TypeOK /\ [Next]_vars => TypeOK'
<1> SUFFICES ASSUME TypeOK, [Next]_vars
             PROVE  TypeOK'
  OBVIOUS
<1> USE CarDetAssumption
<1>0. ASSUME NEW p \in Points, Edge(p)
      PROVE  /\ edges' \in [Points -> Nat]
             /\ car' \in {"none", "in", "out"}
             /\ carStart' \in Nat
             /\ balance' \in Int
             /\ mode' \in {"orderly", "close", "stray", "free"}
  BY <1>0 DEF TypeOK, Edge, FirstEdge, SecondEdge, StrayEdge
<1>1. CASE Tick
  BY <1>1 DEF TypeOK, Tick, traffic, app, udp
<1>2. ASSUME NEW p \in Points, Isr(p)
      PROVE  TypeOK'
  BY <1>2, <1>0 DEF TypeOK, Isr, app, udp
<1>3. ASSUME NEW p \in Points, Read(p)
      PROVE  TypeOK'
  BY <1>3 DEF TypeOK, Read, ReadStamp, AfterRead, traffic, udp
<1>4. ASSUME NEW p \in Points, ReadTorn(p)
      PROVE  TypeOK'
  <2>1. Mix(drv[p], now) \in Int
    BY MixInt DEF TypeOK
  <2>2. QED
    BY <1>4, <1>0, <2>1 DEF TypeOK, ReadTorn, ReadStamp, AfterRead, udp
<1>5. ASSUME NEW p \in Points, Write(p)
      PROVE  TypeOK'
  BY <1>5 DEF TypeOK, Write, AfterWrite, traffic, app, udp
<1>6. ASSUME NEW p \in Points, WriteTorn(p)
      PROVE  TypeOK'
  <2>1. Mix(now, usr[p]) \in Int
    BY MixInt DEF TypeOK
  <2>2. QED
    BY <1>6, <1>0, <2>1 DEF TypeOK, WriteTorn, AfterWrite, app, udp
<1>7. CASE DoFlows
  BY <1>7 DEF TypeOK, DoFlows, DoScan, DoTrigger, DoWait, DoPassed, DoEnd,
              traffic, udp
<1>8. CASE UdpLoop
  BY <1>8 DEF TypeOK, UdpLoop, traffic, app, udp
<1>9. CASE UdpFails
  BY <1>9 DEF TypeOK, UdpFails, traffic, app, udp
<1>10. CASE UNCHANGED vars
  BY <1>10 DEF TypeOK, vars, traffic, app, udp
<1>11. QED
  BY <1>1, <1>2, <1>3, <1>4, <1>5, <1>6, <1>7, <1>8, <1>9, <1>10
     DEF Next, AppStep

(***************************************************************************)
(* Type correctness of the detector: every stamp, torn or not, is a        *)
(* number, and the machine never leaves its five states.                   *)
(***************************************************************************)
THEOREM TypeCorrect == Spec => []TypeOK
<1>1. Init => TypeOK
  BY CarDetAssumption DEF Init, TypeOK, Points
<1>2. QED
  BY <1>1, TypeStep, PTL DEF Spec

-----------------------------------------------------------------------------
(* No step makes a stamp stand for an edge that a count has used. *)
LEMMA PhantomStep == TypeOK /\ PhantomInv /\ [Next]_vars => PhantomInv'
<1> SUFFICES ASSUME TypeOK, PhantomInv, [Next]_vars
             PROVE  PhantomInv'
  OBVIOUS
<1> USE DEF PhantomInv, Writing, Fresh, Copied, Points
<1>0. ASSUME NEW p \in Points, Edge(p)
      PROVE  /\ edges'[p] = edges[p] + 1
             /\ \A q \in Points : edges'[q] >= edges[q] /\ edges'[q] \in Nat
  BY <1>0 DEF TypeOK, Edge
<1>1. CASE Tick
  BY <1>1 DEF TypeOK, Tick, traffic, app, udp
<1>2. ASSUME NEW p \in Points, Isr(p)
      PROVE  PhantomInv'
  BY <1>2, <1>0 DEF TypeOK, Isr, app, udp
<1>3. ASSUME NEW p \in Points, Read(p)
      PROVE  PhantomInv'
  BY <1>3 DEF TypeOK, Read, ReadStamp, AfterRead, traffic, udp
<1>4. ASSUME NEW p \in Points, ReadTorn(p)
      PROVE  PhantomInv'
  BY <1>4, <1>0 DEF TypeOK, ReadTorn, ReadStamp, AfterRead, udp
<1>5. ASSUME NEW p \in Points, Write(p)
      PROVE  PhantomInv'
  BY <1>5 DEF TypeOK, Write, AfterWrite, traffic, app, udp
<1>6. ASSUME NEW p \in Points, WriteTorn(p)
      PROVE  PhantomInv'
  BY <1>6, <1>0 DEF TypeOK, WriteTorn, AfterWrite, app, udp
<1>7. CASE DoFlows
  BY <1>7 DEF TypeOK, DoFlows, DoScan, DoTrigger, DoWait, DoPassed, DoEnd,
              traffic, udp
<1>8. CASE UdpLoop
  BY <1>8 DEF TypeOK, UdpLoop, traffic, app, udp
<1>9. CASE UdpFails
  BY <1>9 DEF TypeOK, UdpFails, traffic, app, udp
<1>10. CASE UNCHANGED vars
  BY <1>10 DEF TypeOK, vars, traffic, app, udp
<1>11. QED
  BY <1>1, <1>2, <1>3, <1>4, <1>5, <1>6, <1>7, <1>8, <1>9, <1>10
     DEF Next, AppStep

(***************************************************************************)
(* For any traffic and any scheduling: each count has used up an edge of   *)
(* each barrier that no other count has used.                              *)
(***************************************************************************)
THEOREM NoPhantom == Spec => []NoPhantomCount
<1>1. Init => PhantomInv
  BY DEF Init, PhantomInv, Writing, Fresh, Copied, Points
<1>2. PhantomInv => NoPhantomCount
  BY DEF PhantomInv, NoPhantomCount
<1>3. QED
  BY <1>1, <1>2, PhantomStep, TypeCorrect, PTL DEF Spec

-----------------------------------------------------------------------------
(* An orderly car's edge starts a crossing or ends one; the values that a  *)
(* copy in progress gives to the application do not matter.                *)
LEMMA EdgePhase ==
  ASSUME TypeOK, mode = "orderly", Clock, Phases,
         NEW p \in Points, Edge(p),
         NEW v \in Int,
         drv' = [drv EXCEPT ![p] = now],
         \/ usr' = usr /\ pc' = pc
         \/ /\ pc = IF p = "x" THEN "read_x" ELSE "read_y"
            /\ usr' = [usr EXCEPT ![p] = v]
            /\ pc' = AfterRead(p),
         UNCHANGED <<now, alive, state, flows, timeout, lastScan>>
  PROVE  Clock' /\ Phases'
<1> USE CarDetAssumption DEF Points, Other, Writing, Copied, AfterRead
<1>1. Cars /\ Timely
  BY DEF Cars, Timely
<1>2. FirstEdge(p) \/ SecondEdge(p)
  BY <1>1 DEF Edge
<1>3. Clock'
  BY <1>2 DEF Clock, FirstEdge, SecondEdge, TypeOK
<1>4. CASE FirstEdge(p)
  <2>1. Idle
    BY <1>4 DEF FirstEdge, Armed, Phases, Idle, Crossing, Crossed, Counted,
                Clearing, TypeOK
  <2>2. Crossing(p)'
    BY <1>4, <2>1 DEF FirstEdge, Idle, Crossing, DeadlineFar,
                      StaleOnlyIfRecent, Clock, TypeOK
  <2>3. QED
    BY <1>3, <2>2 DEF Phases
<1>5. CASE SecondEdge(p)
  <2>1. Crossing(Other(p))
    BY <1>5 DEF SecondEdge, Phases, Idle, Crossing, Crossed, Counted,
                Clearing, TypeOK
  <2>2. Crossed(Other(p))'
    BY <1>5, <2>1 DEF SecondEdge, Crossing, Crossed, DeadlineFar,
                      StaleOnlyIfRecent, Clock, TypeOK
  <2>3. QED
    BY <1>3, <2>2 DEF Phases
<1>6. QED
  BY <1>2, <1>4, <1>5

(* The state machine, phase by phase. *)
LEMMA FlowsPhase ==
  ASSUME TypeOK, mode = "orderly", Clock, Phases, DoFlows
  PROVE  Clock' /\ Phases'
<1> USE CarDetAssumption DEF Points, Other, Writing, Copied, DoFlows, traffic
<1>1. Clock'
  BY DEF Clock, TypeOK
<1>2. CASE Idle
  BY <1>1, <1>2 DEF Idle, Phases, DoScan, DoTrigger, DoWait, DoPassed, DoEnd
<1>3. ASSUME NEW p \in Points, Crossing(p)
      PROVE  Phases'
  <2>1. Crossing(p)'
    BY <1>3 DEF Crossing, DeadlineFar, StaleOnlyIfRecent, Clock, TypeOK,
                DoScan, DoTrigger, DoWait, DoPassed, DoEnd
  <2>2. QED
    BY <2>1 DEF Phases
<1>4. ASSUME NEW p \in Points, Crossed(p), state # "PASSED"
      PROVE  Phases'
  <2>1. Crossed(p)'
    BY <1>4 DEF Crossed, DeadlineFar, StaleOnlyIfRecent, Clock, TypeOK,
                DoScan, DoTrigger, DoWait, DoPassed, DoEnd
  <2>2. QED
    BY <2>1 DEF Phases
<1>5. ASSUME NEW p \in Points, Crossed(p), state = "PASSED"
      PROVE  Phases'
  <2>1. Counted'
    BY <1>5 DEF Crossed, Counted, Clock, TypeOK,
                DoScan, DoTrigger, DoWait, DoPassed, DoEnd
  <2>2. QED
    BY <2>1 DEF Phases
<1>6. CASE Counted
  <2>1. DoEnd
    BY <1>6 DEF Counted, DoScan, DoTrigger, DoWait, DoPassed
  <2>2. Clearing'
    BY <1>6, <2>1 DEF Counted, Clearing, DoEnd
  <2>3. QED
    BY <1>1, <2>2 DEF Phases
<1>7. CASE Clearing
  BY <1>7 DEF Clearing
<1>8. QED
  BY <1>1, <1>2, <1>3, <1>4, <1>5, <1>6, <1>7 DEF Phases

(* Orderly traffic moves the detector from phase to phase only. *)
LEMMA OrderlyStep == TypeOK /\ OrderlyInv /\ [Next]_vars => OrderlyInv'
<1> SUFFICES ASSUME TypeOK, OrderlyInv, [Next]_vars, mode' = "orderly"
             PROVE  Clock' /\ Phases'
  BY DEF OrderlyInv
<1>0. mode = "orderly" /\ Clock /\ Phases
  BY DEF OrderlyInv, Next, AppStep, Tick, Isr, Read, ReadTorn, Write,
         WriteTorn, DoFlows, UdpLoop, UdpFails, Edge, vars, traffic
<1> USE CarDetAssumption DEF Points, Other, Writing, Copied
<1>1. CASE Tick
  <2>1. Cars /\ Timely
    BY <1>0 DEF Cars, Timely
  <2>2. Clock'
    BY <1>0, <1>1, <2>1 DEF Clock, Tick, TypeOK, traffic, app
  <2>3. Phases'
    BY <1>0, <1>1, <2>1 DEF Phases, Idle, Crossing, Crossed, Counted, Clearing,
         DeadlineFar, StaleOnlyIfRecent, Tick, TypeOK, traffic, app
  <2>4. QED
    BY <2>2, <2>3
<1>2. ASSUME NEW p \in Points, Isr(p)
      PROVE  Clock' /\ Phases'
  <2>1. UNCHANGED <<usr, pc, now, alive, state, flows, timeout, lastScan>>
    BY <1>2 DEF Isr, app
  <2>2. Edge(p) /\ drv' = [drv EXCEPT ![p] = now] /\ 0 \in Int
    BY <1>2 DEF Isr
  <2>3. QED
    BY <1>0, <2>1, <2>2, EdgePhase
<1>3. ASSUME NEW p \in Points, Read(p)
      PROVE  Clock' /\ Phases'
  <2>1. Clock'
    BY <1>0, <1>3 DEF Clock, Read, ReadStamp, traffic
  <2>2. Phases'
    BY <1>0, <1>3 DEF Phases, Idle, Crossing, Crossed, Counted, Clearing,
         DeadlineFar, StaleOnlyIfRecent, Read, ReadStamp, AfterRead, TypeOK,
         traffic
  <2>3. QED
    BY <2>1, <2>2
<1>4. ASSUME NEW p \in Points, ReadTorn(p)
      PROVE  Clock' /\ Phases'
  <2>1. drv[p] \in Int /\ now \in Int
    BY DEF TypeOK
  <2>2. Mix(drv[p], now) \in Int
    BY <2>1, MixInt
  <2>3. QED
    BY <1>0, <1>4, <2>2, EdgePhase DEF ReadTorn, ReadStamp
<1>5. ASSUME NEW p \in Points, Write(p)
      PROVE  Clock' /\ Phases'
  <2>1. Clearing
    BY <1>0, <1>5 DEF Phases, Idle, Crossing, Crossed, Counted, Write
  <2>2. Clock'
    BY <1>0, <1>5 DEF Clock, Write, traffic, app
  <2>3. Phases'
    BY <1>5, <2>1 DEF Phases, Idle, Clearing, Write, AfterWrite, TypeOK,
         traffic, app
  <2>4. QED
    BY <2>2, <2>3
<1>6. ASSUME NEW p \in Points, WriteTorn(p)
      PROVE  FALSE
  <2>1. Clearing
    BY <1>0, <1>6 DEF Phases, Idle, Crossing, Crossed, Counted, WriteTorn
  <2>2. QED
    BY <1>0, <1>6, <2>1 DEF Clearing, WriteTorn, Edge, FirstEdge, SecondEdge,
         Armed, Cars
<1>7. CASE DoFlows
  BY <1>0, <1>7, FlowsPhase
<1>8. CASE UdpLoop
  BY <1>0, <1>8 DEF Phases, Idle, Crossing, Crossed, Counted, Clearing, Clock,
       DeadlineFar, StaleOnlyIfRecent, UdpLoop, TypeOK, traffic, app
<1>9. CASE UdpFails
  BY <1>0, <1>9 DEF Phases, Idle, Crossing, Crossed, Counted, Clearing, Clock,
       DeadlineFar, StaleOnlyIfRecent, UdpFails, TypeOK, traffic, app
<1>10. CASE UNCHANGED vars
  BY <1>0, <1>10 DEF Phases, Idle, Crossing, Crossed, Counted, Clearing, Clock,
       DeadlineFar, StaleOnlyIfRecent, vars, traffic, app
<1>11. QED
  BY <1>1, <1>2, <1>3, <1>4, <1>5, <1>6, <1>7, <1>8, <1>9, <1>10
     DEF Next, AppStep

(***************************************************************************)
(* The detector counts orderly traffic exactly, for every second, crossing *)
(* time and lag with CrossMax + 2 * MaxLag <= Second.                      *)
(***************************************************************************)
THEOREM ExactCount == Spec => []CountExact
<1>1. Init => OrderlyInv
  BY CarDetAssumption DEF Init, OrderlyInv, Phases, Clock, Idle, Writing, Points
<1>2. TypeOK /\ OrderlyInv => CountExact
  <2> SUFFICES ASSUME TypeOK, OrderlyInv, mode = "orderly", car = "none", Armed
               PROVE  flows = balance
    BY DEF CountExact
  <2>1. QED
    BY DEF OrderlyInv, Phases, Idle, Crossing, Crossed, Counted, Clearing, Armed,
           Points, Writing, TypeOK
<1>3. QED
  BY <1>1, <1>2, OrderlyStep, TypeCorrect, PTL DEF Spec
=============================================================================
