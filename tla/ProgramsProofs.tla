--------------------------- MODULE ProgramsProofs ---------------------------
(***************************************************************************)
(* Safety of the small programs of MCPrograms: the drivers, the message    *)
(* queue, the pipe, the check of texts.  Each is proved for its own        *)
(* specification, with any number of loads, refusals, processes, messages  *)
(* and instances, and texts of any length.                                 *)
(*                                                                         *)
(* The last part is about the memory of the SDK's packet buffer, for every *)
(* header size, alignment, chunk size and sequence of requests, and for    *)
(* every pattern of malloc failures; Init, Next and Spec are MqttBuffer's. *)
(***************************************************************************)
EXTENDS MCPrograms, MqttBuffer, SequenceFacts

-----------------------------------------------------------------------------
(***************************************************************************)
(* DriverLife.                                                             *)
(***************************************************************************)
First(n) == { Acquires[drv][i] : i \in 1 .. n }

Missing == IF loads = 1 THEN {} ELSE NotAgain[drv]

(* A load has at most what it asked for, and opens need a device. *)
DriverHolds ==
  /\ mod \in {"coming", "live"} => loads > 0 /\ held \subseteq First(at)
  /\ mod = "live" => at = Len(Acquires[drv])
  /\ mod = "out" => held = {} /\ at = 0
  /\ opens > 0 => held \cap Entry # {} \/ (drv = "cardet" /\ "cdev" \in left)

(* What is left behind, and what a driver that goes on has been refused. *)
DriverLeaves ==
  /\ drv # "cardet" => left \subseteq Kept[drv]
  /\ mod \in {"coming", "live"} /\ drv \in {"ds18b20", "userio"} => First(at) \subseteq held \cup refused

(* While the kernel has enough of all, every load goes as the first did, but
   for what that one has kept. *)
DriverEnough == refusals = 0 =>
  /\ mod \in {"coming", "live"} =>
       /\ left = (IF loads = 1 THEN {} ELSE Kept[drv])
       /\ held = First(at) \ Missing
       /\ drv = "leds" /\ loads > 1 => at # 2
  /\ mod = "out" => left = (IF loads = 0 THEN {} ELSE Kept[drv])

DriverInv == DriverTypeOK /\ CrashesForCause /\ DriverHolds /\ DriverLeaves /\ DriverEnough

(* What a driver asks for, and in which order. *)
LEMMA AcquiresIs ==
  /\ Acquires["cardet"] = <<"gpio", "irq", "region", "alloc", "cdev", "class", "node">>
  /\ Acquires["ds18b20"] = <<"region", "cdev", "class", "node", "gpio">>
  /\ Acquires["userio"] = <<"region", "cdev", "class", "node", "oe", "setdataout", "dataout">>
  /\ Acquires["leds"] = <<"driver", "gpio", "misc">>
  /\ Acquires["devnodereg"] = <<"driver", "misc">>
  /\ Acquires["driverReg"] = <<"driver">>
BY DEF Acquires

LEMMA DriverNames ==
  ASSUME DriverTypeOK
  PROVE  drv \in {"cardet", "ds18b20", "userio", "leds", "devnodereg", "driverReg"}
<1>1. DOMAIN Acquires = {"cardet", "ds18b20", "userio", "leds", "devnodereg", "driverReg"}
  BY DEF Acquires
<1>2. QED BY <1>1, DriverLifeAssumption DEF DriverTypeOK

LEMMA LenAcquires ==
  ASSUME DriverTypeOK
  PROVE  Len(Acquires[drv]) \in Nat \ {0}
<1>1. CASE drv \in {"cardet", "ds18b20", "userio"}
  BY <1>1, AcquiresIs
<1>2. CASE drv = "leds"
  BY <1>2, AcquiresIs
<1>3. CASE drv = "devnodereg"
  BY <1>3, AcquiresIs
<1>4. CASE drv = "driverReg"
  BY <1>4, AcquiresIs
<1>5. QED BY <1>1, <1>2, <1>3, <1>4, DriverNames

LEMMA KeptIs ==
  /\ Kept["cardet"] = {} /\ Kept["ds18b20"] = {"gpio"}
  /\ Kept["userio"] = {"oe", "setdataout", "dataout"}
  /\ Kept["leds"] = {"gpio"} /\ Kept["devnodereg"] = {} /\ Kept["driverReg"] = {}
BY DEF Kept

LEMMA NotAgainIs ==
  /\ NotAgain["cardet"] = {} /\ NotAgain["ds18b20"] = {"gpio"} /\ NotAgain["userio"] = {}
  /\ NotAgain["leds"] = {"gpio", "misc"} /\ NotAgain["devnodereg"] = {} /\ NotAgain["driverReg"] = {}
BY DEF NotAgain

LEMMA ReleasesIs ==
  /\ Releases["cardet"] = {"gpio", "irq", "region", "alloc", "cdev", "class", "node"}
  /\ Releases["ds18b20"] = {"region", "cdev", "class", "node"}
  /\ Releases["userio"] = {"region", "cdev", "class", "node"}
  /\ Releases["leds"] = {"driver", "misc"}
  /\ Releases["devnodereg"] = {"driver", "misc"}
  /\ Releases["driverReg"] = {"driver"}
BY DEF Releases

(* The resource that is asked for next. *)
LEMMA WantedIs ==
  ASSUME DriverTypeOK, at < Len(Acquires[drv])
  PROVE  /\ Wanted \in All
         /\ at + 1 \in 0 .. Len(Acquires[drv])
         /\ First(at + 1) = First(at) \cup {Wanted}
<1>1. at \in Nat /\ at < Len(Acquires[drv]) /\ Len(Acquires[drv]) \in Nat
  BY LenAcquires DEF DriverTypeOK
<1>2. at + 1 \in 1 .. Len(Acquires[drv]) /\ at + 1 \in 0 .. Len(Acquires[drv])
  BY <1>1
<1>3. \A i : i \in 1 .. at + 1 <=> i \in 1 .. at \/ i = at + 1
  BY <1>1
<1>4. First(at + 1) = First(at) \cup {Wanted}
  BY <1>3 DEF First, Wanted
<1>5. QED BY <1>2, <1>4 DEF All, Wanted

LEMMA OrderIs ==
  ASSUME DriverTypeOK, at < Len(Acquires[drv])
  PROVE  /\ Wanted = "node" => "class" \in First(at)
         /\ drv \in {"ds18b20", "userio"} /\ Wanted = "cdev" => First(at) \subseteq {"region"}
         /\ drv = "leds" => (Wanted = "gpio" <=> at = 1) /\ (Wanted = "misc" <=> at = 2)
                            /\ (at = 1 => First(at) = {"driver"})
         /\ drv = "cardet" => Wanted \notin {"misc", "driver"}
         /\ drv = "userio" => Wanted # "gpio"
         /\ drv = "ds18b20" => Wanted \notin {"irq", "misc", "driver"}
<1> USE DEF First, Wanted
<1>1. at \in Nat
  BY LenAcquires DEF DriverTypeOK
<1>2. CASE drv = "cardet"
  <2>1. at \in 0 .. 6 /\ Acquires[drv] = <<"gpio", "irq", "region", "alloc", "cdev", "class", "node">>
    BY <1>1, <1>2, AcquiresIs
  <2>2. Wanted = "node" => at = 6
    BY <2>1
  <2>3. Wanted \notin {"misc", "driver"}
    BY <2>1
  <2>4. Acquires[drv][6] = "class"
    BY <2>1
  <2>5. QED BY <1>2, <2>2, <2>3, <2>4
<1>3. CASE drv = "ds18b20"
  <2>1. at \in 0 .. 4 /\ Acquires[drv] = <<"region", "cdev", "class", "node", "gpio">>
    BY <1>1, <1>3, AcquiresIs
  <2>2. (Wanted = "node" => at = 3) /\ (Wanted = "cdev" => at = 1)
    BY <2>1
  <2>3. Wanted \notin {"irq", "misc", "driver"}
    BY <2>1
  <2>4. Acquires[drv][3] = "class" /\ Acquires[drv][1] = "region"
    BY <2>1
  <2>5. QED BY <1>3, <2>2, <2>3, <2>4
<1>4. CASE drv = "userio"
  <2>1. /\ at \in 0 .. 6
        /\ Acquires[drv] = <<"region", "cdev", "class", "node", "oe", "setdataout", "dataout">>
    BY <1>1, <1>4, AcquiresIs
  <2>2. (Wanted = "node" => at = 3) /\ (Wanted = "cdev" => at = 1)
    BY <2>1
  <2>3. Wanted # "gpio"
    BY <2>1
  <2>4. Acquires[drv][3] = "class" /\ Acquires[drv][1] = "region"
    BY <2>1
  <2>5. QED BY <1>4, <2>2, <2>3, <2>4
<1>5. CASE drv = "leds"
  <2>1. at \in 0 .. 2 /\ Acquires[drv] = <<"driver", "gpio", "misc">>
    BY <1>1, <1>5, AcquiresIs
  <2>2. (Wanted = "gpio" <=> at = 1) /\ (Wanted = "misc" <=> at = 2) /\ Wanted # "node"
    BY <2>1
  <2>3. Acquires[drv][1] = "driver"
    BY <2>1
  <2>4. QED BY <1>5, <2>2, <2>3
<1>6. CASE drv \in {"devnodereg", "driverReg"}
  <2>1. Wanted # "node"
    BY <1>1, <1>6, AcquiresIs
  <2>2. QED BY <1>6, <2>1
<1>7. QED BY <1>2, <1>3, <1>4, <1>5, <1>6, DriverNames

LEMMA OnRefusedIs ==
  ASSUME NEW r
  PROVE  /\ drv \in {"ds18b20", "userio"} => OnRefused(r) = (IF r = "cdev" THEN "undo" ELSE "on")
         /\ drv \in {"leds", "devnodereg"} => OnRefused(r) = (IF r # "misc" THEN "return" ELSE "on")
         /\ drv = "driverReg" => OnRefused(r) = "on"
         /\ drv = "cardet" => OnRefused(r) = (IF r \in {"region", "alloc", "class"} THEN "leave"
                                              ELSE IF r = "cdev" THEN "return" ELSE "on")
BY DEF OnRefused

(* All of a driver's resources. *)
LEMMA AllIs ==
  /\ First(Len(Acquires[drv])) = All
  /\ First(0) = {}
  /\ drv = "cardet" => All = {"gpio", "irq", "region", "alloc", "cdev", "class", "node"}
  /\ drv = "ds18b20" => All = {"region", "cdev", "class", "node", "gpio"}
  /\ drv = "userio" => All = {"region", "cdev", "class", "node", "oe", "setdataout", "dataout"}
  /\ drv = "leds" => All = {"driver", "gpio", "misc"}
  /\ drv = "devnodereg" => All = {"driver", "misc"}
  /\ drv = "driverReg" => All = {"driver"}
<1>1. First(Len(Acquires[drv])) = All /\ First(0) = {}
  BY DEF First, All
<1>2. ASSUME drv = "cardet" PROVE All = {"gpio", "irq", "region", "alloc", "cdev", "class", "node"}
  <2>1. All = { Acquires["cardet"][i] : i \in 1 .. 7 }
    BY <1>2, AcquiresIs DEF All
  <2>2. \A i : i \in 1 .. 7 <=> i \in {1, 2, 3, 4, 5, 6, 7}
    OBVIOUS
  <2>3. QED BY <2>1, <2>2, AcquiresIs
<1>3. ASSUME drv = "ds18b20" PROVE All = {"region", "cdev", "class", "node", "gpio"}
  <2>1. All = { Acquires["ds18b20"][i] : i \in 1 .. 5 }
    BY <1>3, AcquiresIs DEF All
  <2>2. \A i : i \in 1 .. 5 <=> i \in {1, 2, 3, 4, 5}
    OBVIOUS
  <2>3. QED BY <2>1, <2>2, AcquiresIs
<1>4. ASSUME drv = "userio"
      PROVE  All = {"region", "cdev", "class", "node", "oe", "setdataout", "dataout"}
  <2>1. All = { Acquires["userio"][i] : i \in 1 .. 7 }
    BY <1>4, AcquiresIs DEF All
  <2>2. \A i : i \in 1 .. 7 <=> i \in {1, 2, 3, 4, 5, 6, 7}
    OBVIOUS
  <2>3. QED BY <2>1, <2>2, AcquiresIs
<1>5. ASSUME drv = "leds" PROVE All = {"driver", "gpio", "misc"}
  BY <1>5, AcquiresIs DEF All
<1>6. ASSUME drv = "devnodereg" PROVE All = {"driver", "misc"}
  BY <1>6, AcquiresIs DEF All
<1>7. ASSUME drv = "driverReg" PROVE All = {"driver"}
  BY <1>7, AcquiresIs DEF All
<1>8. QED BY <1>1, <1>2, <1>3, <1>4, <1>5, <1>6, <1>7

(* The driver does not change, nor what it asks for. *)
LEMMA DriverSame ==
  ASSUME drv' = drv
  PROVE  /\ All' = All
         /\ First(at)' = { Acquires[drv][i] : i \in 1 .. at' }
         /\ Acquires[drv]' = Acquires[drv]
BY DEF All, First

LEMMA DriverInsmod ==
  ASSUME DriverInv, Insmod
  PROVE  DriverInv'
<1> USE DEF DriverInv
<1>1. drv' = drv /\ mod = "out" /\ mod' = "coming" /\ at' = 0 /\ held' = {} /\ loads \in Nat
  BY DriverLifeAssumption DEF Insmod, DriverTypeOK
<1>2. DriverTypeOK'
  <2>1. loads' \in 0 .. MaxLoads
    BY DriverLifeAssumption DEF Insmod, DriverTypeOK
  <2>2. at' \in 0 .. Len(Acquires[drv])
    BY <1>1, LenAcquires
  <2>3. QED BY <1>1, <2>1, <2>2, DriverSame DEF Insmod, DriverTypeOK
<1>3. CrashesForCause'
  BY <1>1 DEF CrashesForCause
<1>4. First(at)' = {}
  BY <1>1, DriverSame
<1>5. DriverHolds'
  <2>1. loads' > 0
    BY <1>1 DEF Insmod
  <2>2. opens' > 0 => drv' = "cardet" /\ "cdev" \in left'
    BY <1>1 DEF Insmod, DriverHolds, Entry
  <2>3. QED BY <1>1, <1>4, <2>1, <2>2 DEF DriverHolds
<1>6. DriverLeaves'
  <2>1. drv' # "cardet" => left' \subseteq Kept[drv']
    BY DEF Insmod, DriverLeaves
  <2>2. QED BY <1>4, <2>1 DEF DriverLeaves
<1>7. DriverEnough'
  <2>1. refusals' = 0 => left' = (IF loads' = 1 THEN {} ELSE Kept[drv'])
    BY <1>1, KeptIs DEF Insmod, DriverEnough
  <2>2. QED BY <1>1, <1>4, <2>1 DEF DriverEnough
<1>8. QED BY <1>2, <1>3, <1>5, <1>6, <1>7

LEMMA DriverGrant ==
  ASSUME DriverInv, Grant
  PROVE  DriverInv'
<1> USE DEF DriverInv
<1>1. /\ drv' = drv /\ mod = "coming" /\ mod' = mod /\ at' = at + 1 /\ held' = held \cup {Wanted}
      /\ left' = left /\ loads' = loads /\ refusals' = refusals /\ refused' = refused /\ opens' = opens
      /\ at < Len(Acquires[drv]) /\ at \in Nat
  BY LenAcquires DEF Grant, DriverTypeOK
<1>2. Wanted \in All /\ at + 1 \in 0 .. Len(Acquires[drv]) /\ First(at)' = First(at) \cup {Wanted}
  BY <1>1, WantedIs, DriverSame DEF First
<1>3. DriverTypeOK'
  BY <1>1, <1>2, DriverSame DEF DriverTypeOK
<1>4. CrashesForCause' /\ DriverHolds' /\ DriverLeaves'
  BY <1>1, <1>2 DEF CrashesForCause, DriverHolds, DriverLeaves
<1>5. ASSUME refusals = 0, loads # 1
      PROVE  Wanted \notin NotAgain[drv] /\ (drv = "leds" => at + 1 # 2)
  <2>1. left = Kept[drv] /\ (drv = "leds" => at # 2)
    BY <1>1, <1>5 DEF DriverEnough, DriverHolds, DriverTypeOK
  <2>2. "gpio" \in left => Wanted # "gpio"
    BY DEF Grant, Unavailable
  <2>3. drv = "leds" => (Wanted = "gpio" <=> at = 1) /\ (Wanted = "misc" <=> at = 2)
    BY <1>1, OrderIs
  <2>4. QED BY <1>1, <2>1, <2>2, <2>3, KeptIs, NotAgainIs, DriverNames
<1>6. DriverEnough'
  <2>1. SUFFICES ASSUME refusals = 0
                 PROVE  /\ held' = First(at)' \ Missing'
                        /\ drv = "leds" /\ loads > 1 => at + 1 # 2
    BY <1>1 DEF DriverEnough
  <2>2. held = First(at) \ Missing /\ Missing' = Missing
    BY <1>1, <2>1 DEF DriverEnough, Missing
  <2>3. Wanted \notin Missing
    BY <2>1, <1>5 DEF Missing
  <2>4. QED BY <1>1, <1>2, <1>5, <2>1, <2>2, <2>3
<1>7. QED BY <1>3, <1>4, <1>6

(* What the kernel refuses while it has enough of all: a GPIO that an earlier
   load has kept. *)
LEMMA TakenIs ==
  ASSUME DriverInv, mod = "coming", at < Len(Acquires[drv]), refusals = 0, Unavailable(Wanted)
  PROVE  /\ loads # 1
         /\ drv \in {"ds18b20", "leds"}
         /\ Wanted = "gpio"
<1> USE DEF DriverInv
<1>1. left = (IF loads = 1 THEN {} ELSE Kept[drv]) /\ held = First(at) \ Missing
  BY DEF DriverEnough
<1>2. ~(Wanted = "node" /\ "class" \notin held)
  <2>1. Wanted = "node" => "class" \in First(at)
    BY OrderIs
  <2>2. "class" \notin Missing
    BY DriverNames, NotAgainIs DEF Missing
  <2>3. QED BY <1>1, <2>1, <2>2
<1>3. Wanted \in left \cap {"gpio", "irq", "class", "node", "misc", "driver"}
  BY <1>2 DEF Unavailable
<1>4. QED BY <1>1, <1>3, KeptIs, DriverNames

LEMMA DriverRefuse ==
  ASSUME DriverInv, Refuse
  PROVE  DriverInv'
<1> USE DEF DriverInv
<1>1. /\ drv' = drv /\ mod = "coming" /\ refused' = refused \cup {Wanted}
      /\ loads' = loads /\ opens' = opens
      /\ at < Len(Acquires[drv]) /\ at \in Nat /\ Len(Acquires[drv]) \in Nat
  BY LenAcquires DEF Refuse, DriverTypeOK
<1>2. /\ Wanted \in All /\ at + 1 \in 0 .. Len(Acquires[drv])
      /\ First(at + 1) = First(at) \cup {Wanted}
  BY <1>1, WantedIs
<1>3. refusals' \in 0 .. MaxRefusals /\ (refusals' = 0 => refusals = 0 /\ Unavailable(Wanted))
  BY DriverLifeAssumption DEF Refuse, DriverTypeOK
<1>4. refusals' = 0 => loads # 1 /\ drv \in {"ds18b20", "leds"} /\ Wanted = "gpio"
  BY <1>1, <1>3, TakenIs
<1>5. CASE OnRefused(Wanted) = "on"
  <2>1. at' = at + 1 /\ mod' = mod /\ held' = held /\ left' = left
    BY <1>5 DEF Refuse
  <2>2. First(at)' = First(at) \cup {Wanted}
    BY <1>1, <1>2, <2>1, DriverSame DEF First
  <2>3. DriverTypeOK'
    BY <1>1, <1>2, <1>3, <2>1, DriverSame DEF DriverTypeOK
  <2>4. CrashesForCause' /\ DriverHolds' /\ DriverLeaves'
    BY <1>1, <2>1, <2>2 DEF CrashesForCause, DriverHolds, DriverLeaves
  <2>5. DriverEnough'
    <3>1. SUFFICES ASSUME refusals' = 0
                   PROVE  /\ left = (IF loads = 1 THEN {} ELSE Kept[drv])
                          /\ held = First(at)' \ Missing
                          /\ drv # "leds"
      BY <1>1, <2>1 DEF DriverEnough, Missing
    <3>2. drv = "ds18b20" /\ loads # 1 /\ Wanted = "gpio"
      BY <1>4, <1>5, <3>1, OnRefusedIs
    <3>3. Wanted \in Missing
      BY <3>2, NotAgainIs DEF Missing
    <3>4. held = First(at) \ Missing /\ left = (IF loads = 1 THEN {} ELSE Kept[drv])
      BY <1>1, <1>3, <3>1 DEF DriverEnough
    <3>5. QED BY <2>2, <3>2, <3>3, <3>4
  <2>6. QED BY <2>3, <2>4, <2>5
<1>6. CASE OnRefused(Wanted) = "return"
  <2>1. at' = Len(Acquires[drv]) /\ held' = held \ {"region"} /\ mod' = mod /\ left' = left
    BY <1>6 DEF Refuse
  <2>2. drv \in {"cardet", "leds", "devnodereg"}
    BY <1>6, DriverNames, OnRefusedIs
  <2>3. First(at)' = All
    BY <1>1, <2>1, DriverSame, AllIs DEF First
  <2>4. DriverTypeOK'
    BY <1>1, <1>2, <1>3, <2>1, DriverSame DEF DriverTypeOK
  <2>5. CrashesForCause' /\ DriverHolds' /\ DriverLeaves'
    <3>1. held' \subseteq First(at)'
      BY <2>1, <2>3 DEF DriverTypeOK
    <3>2. opens > 0 => held' \cap Entry # {} \/ (drv = "cardet" /\ "cdev" \in left)
      BY <2>1 DEF DriverHolds, Entry
    <3>3. QED
      BY <1>1, <2>1, <2>2, <3>1, <3>2 DEF CrashesForCause, DriverHolds, DriverLeaves
  <2>6. DriverEnough'
    <3>1. SUFFICES ASSUME refusals' = 0
                   PROVE  /\ left = (IF loads = 1 THEN {} ELSE Kept[drv])
                          /\ held' = All \ Missing
                          /\ Len(Acquires[drv]) # 2
      BY <1>1, <2>1, <2>3 DEF DriverEnough, Missing
    <3>2. drv = "leds" /\ loads # 1 /\ Wanted = "gpio"
      BY <1>4, <2>2, <3>1
    <3>3. at = 1 /\ First(at) = {"driver"}
      BY <1>1, <3>2, OrderIs
    <3>4. held = First(at) \ Missing /\ left = (IF loads = 1 THEN {} ELSE Kept[drv])
      BY <1>1, <1>3, <3>1 DEF DriverEnough
    <3>5. Missing = {"gpio", "misc"} /\ All = {"driver", "gpio", "misc"}
      BY <3>2, NotAgainIs, AllIs DEF Missing
    <3>6. Len(Acquires[drv]) = 3
      BY <3>2, AcquiresIs
    <3>7. held' = {"driver"}
      BY <2>1, <3>3, <3>4, <3>5
    <3>8. QED BY <3>4, <3>5, <3>6, <3>7
  <2>7. QED BY <2>4, <2>5, <2>6
<1>7. CASE OnRefused(Wanted) \in {"leave", "undo"}
  <2>1. /\ mod' = "out" /\ held' = {} /\ at' = 0
        /\ left' = left \cup (IF OnRefused(Wanted) = "undo" THEN held \ {"region"} ELSE held)
    BY <1>7 DEF Refuse
  <2>2. \/ drv = "cardet" /\ OnRefused(Wanted) = "leave"
        \/ drv \in {"ds18b20", "userio"} /\ OnRefused(Wanted) = "undo" /\ Wanted = "cdev"
    BY <1>7, DriverNames, OnRefusedIs
  <2>3. drv \in {"ds18b20", "userio"} => held \subseteq {"region"} /\ left' = left
    <3>1. drv \in {"ds18b20", "userio"} => held \subseteq First(at) /\ First(at) \subseteq {"region"}
      BY <1>1, <2>2, OrderIs DEF DriverHolds
    <3>2. QED BY <2>1, <2>2, <3>1
  <2>4. DriverTypeOK'
    BY <1>1, <1>2, <1>3, <2>1, DriverSame DEF DriverTypeOK
  <2>5. CrashesForCause' /\ DriverHolds' /\ DriverLeaves'
    <3>1. opens > 0 => drv = "cardet" /\ "cdev" \in left'
      <4>1. drv = "cardet" => left' = left \cup held /\ "misc" \notin held
        BY <2>1, <2>2, AllIs DEF DriverTypeOK
      <4>2. drv # "cardet" => held \cap Entry = {}
        BY <2>2, <2>3 DEF Entry
      <4>3. QED BY <4>1, <4>2 DEF DriverHolds, Entry
    <3>2. QED
      BY <1>1, <2>1, <2>2, <2>3, <3>1 DEF CrashesForCause, DriverHolds, DriverLeaves
  <2>6. DriverEnough'
    BY <1>4, <2>2 DEF DriverEnough
  <2>7. QED BY <2>4, <2>5, <2>6
<1>8. QED BY <1>5, <1>6, <1>7 DEF Refuse

LEMMA DriverInitDone ==
  ASSUME DriverInv, InitDone
  PROVE  DriverInv'
<1> USE DEF DriverInv
<1>1. /\ mod = "coming" /\ at = Len(Acquires[drv]) /\ UNCHANGED <<drv, loads, at, held, left>>
      /\ UNCHANGED <<refused, refusals, opens>>
      /\ \/ mod' = "live"
         \/ mod' = "oops" /\ drv = "userio" /\ ~({"oe", "setdataout", "dataout"} \subseteq held)
  BY DEF InitDone
<1>2. DriverTypeOK'
  BY <1>1, DriverSame DEF DriverTypeOK
<1>3. First(at)' = First(at)
  BY <1>1, DriverSame DEF First
<1>4. CrashesForCause' /\ DriverHolds' /\ DriverLeaves' /\ DriverEnough'
  BY <1>1, <1>3 DEF CrashesForCause, DriverHolds, DriverLeaves, DriverEnough, Missing
<1>5. QED BY <1>2, <1>4

LEMMA DriverOpenClose ==
  ASSUME DriverInv, OpenFile \/ CloseFile
  PROVE  DriverInv'
<1> USE DEF DriverInv
<1>1. /\ mod' = mod /\ UNCHANGED <<drv, loads, at, held, left>> /\ UNCHANGED <<refused, refusals>>
      /\ opens' > 0 => opens > 0 \/ held \cap Entry # {}
      /\ opens' \in 0 .. MaxOpens
  BY DriverLifeAssumption DEF OpenFile, CloseFile, DriverTypeOK
<1>2. DriverTypeOK'
  BY <1>1, DriverSame DEF DriverTypeOK
<1>3. First(at)' = First(at)
  BY <1>1, DriverSame DEF First
<1>4. CrashesForCause' /\ DriverHolds' /\ DriverLeaves' /\ DriverEnough'
  BY <1>1, <1>3 DEF CrashesForCause, DriverHolds, DriverLeaves, DriverEnough, Missing
<1>5. QED BY <1>2, <1>4

LEMMA DriverOops ==
  ASSUME DriverInv, Oops,
         \/ drv = "cardet" /\ left # {}
         \/ drv = "userio" /\ ~({"oe", "setdataout", "dataout"} \subseteq held)
         \/ drv \in {"ds18b20", "userio"} /\ "class" \in refused
  PROVE  DriverInv'
<1> USE DEF DriverInv, Oops
<1>1. DriverTypeOK'
  BY DriverSame DEF DriverTypeOK
<1>2. CrashesForCause' /\ DriverHolds' /\ DriverLeaves' /\ DriverEnough'
  BY DEF CrashesForCause, DriverHolds, DriverLeaves, DriverEnough
<1>3. QED BY <1>1, <1>2

LEMMA DriverCallGone ==
  ASSUME DriverInv, WriteUnmapped \/ CallGone
  PROVE  DriverInv'
<1>1. CASE WriteUnmapped
  BY <1>1, DriverOops DEF WriteUnmapped
<1>2. CASE CallGone
  <2>1. drv # "cardet" => left \cap (Entry \cup {"irq", "driver"}) = {}
    BY DriverNames, KeptIs DEF DriverInv, DriverLeaves, Entry
  <2>2. mod = "out" /\ opens > 0 => drv = "cardet" /\ left # {}
    BY DEF DriverInv, DriverHolds, Entry
  <2>3. drv = "cardet" /\ left # {}
    BY <1>2, <2>1, <2>2 DEF CallGone
  <2>4. QED BY <1>2, <2>3, DriverOops DEF CallGone
<1>3. QED BY <1>1, <1>2

LEMMA DriverRmmod ==
  ASSUME DriverInv, Rmmod
  PROVE  DriverInv'
<1>1. mod = "live" /\ opens = 0 /\ at = Len(Acquires[drv]) /\ loads > 0 /\ First(at) = All
  BY AllIs DEF Rmmod, DriverInv, DriverHolds
<1>2. CASE drv \in {"ds18b20", "userio"} /\ "class" \notin held
  <2>1. "class" \in refused
    BY <1>1, <1>2, AllIs DEF DriverInv, DriverLeaves
  <2>2. QED BY <1>2, <2>1, DriverOops DEF Rmmod
<1>3. CASE ~(drv \in {"ds18b20", "userio"} /\ "class" \notin held)
  <2> DEFINE gone == left \ (Releases[drv] \cap {"gpio", "irq"})
             kept == held \ Releases[drv]
  <2>1. /\ mod' = "out" /\ held' = {} /\ at' = 0 /\ left' = gone \cup kept
        /\ UNCHANGED <<drv, loads, refused, refusals, opens>>
    BY <1>3 DEF Rmmod
  <2>2. left \subseteq All /\ held \subseteq All
    BY DEF DriverInv, DriverTypeOK
  <2>3. kept \subseteq Kept[drv]
    BY <2>2, AllIs, ReleasesIs, KeptIs, DriverNames DEF DriverInv
  <2>4. DriverTypeOK'
    BY <2>1, <2>2, LenAcquires, DriverSame DEF DriverInv, DriverTypeOK
  <2>5. CrashesForCause' /\ DriverHolds'
    BY <1>1, <2>1 DEF DriverInv, CrashesForCause, DriverHolds
  <2>6. DriverLeaves'
    BY <2>1, <2>3 DEF DriverInv, DriverLeaves
  <2>7. DriverEnough'
    <3>1. SUFFICES ASSUME refusals = 0
                   PROVE  gone \cup kept = Kept[drv]
      BY <1>1, <2>1 DEF DriverEnough, DriverInv, DriverTypeOK
    <3>2. /\ left = (IF loads = 1 THEN {} ELSE Kept[drv])
          /\ held = All \ (IF loads = 1 THEN {} ELSE NotAgain[drv])
      BY <1>1, <3>1 DEF DriverInv, DriverEnough, Missing
    <3>3. Kept[drv] \cap Releases[drv] = {}
      BY ReleasesIs, KeptIs, DriverNames DEF DriverInv
    <3>4. Kept[drv] \subseteq All
      BY AllIs, KeptIs, DriverNames DEF DriverInv
    <3>5. CASE loads = 1
      BY <2>3, <3>2, <3>3, <3>4, <3>5
    <3>6. CASE loads # 1
      BY <2>3, <3>2, <3>3, <3>6
    <3>7. QED BY <3>5, <3>6
  <2>8. QED BY <2>4, <2>5, <2>6, <2>7 DEF DriverInv
<1>4. QED BY <1>2, <1>3

LEMMA DriverStep ==
  ASSUME DriverInv, [DriverNext]_driverVars
  PROVE  DriverInv'
<1>1. CASE UNCHANGED driverVars
  BY <1>1 DEF driverVars, DriverInv, DriverTypeOK, CrashesForCause, DriverHolds, DriverLeaves,
              DriverEnough, Missing, All, First
<1>2. QED
  BY <1>1, DriverInsmod, DriverGrant, DriverRefuse, DriverInitDone, DriverOpenClose,
     DriverCallGone, DriverRmmod DEF DriverNext

LEMMA DriverSafe == DriverSpec => []DriverInv
<1>1. DriverInit => DriverInv
  <2> SUFFICES ASSUME DriverInit PROVE DriverInv
    OBVIOUS
  <2>1. /\ drv \in Drivers /\ mod = "out" /\ loads = 0 /\ at = 0 /\ held = {} /\ left = {}
        /\ refused = {} /\ refusals = 0 /\ opens = 0
    BY DEF DriverInit
  <2>2. drv \in {"cardet", "ds18b20", "userio", "leds", "devnodereg", "driverReg"}
    BY <2>1, DriverLifeAssumption DEF Acquires
  <2>3. 0 \in 0 .. Len(Acquires[drv])
    <3>1. CASE drv = "cardet"
      BY <3>1, AcquiresIs
    <3>2. CASE drv = "ds18b20"
      BY <3>2, AcquiresIs
    <3>3. CASE drv = "userio"
      BY <3>3, AcquiresIs
    <3>4. CASE drv = "leds"
      BY <3>4, AcquiresIs
    <3>5. CASE drv = "devnodereg"
      BY <3>5, AcquiresIs
    <3>6. CASE drv = "driverReg"
      BY <3>6, AcquiresIs
    <3>7. QED BY <2>2, <3>1, <3>2, <3>3, <3>4, <3>5, <3>6
  <2>4. DriverTypeOK
    BY <2>1, <2>3, DriverLifeAssumption DEF DriverTypeOK
  <2>5. CrashesForCause /\ DriverHolds /\ DriverLeaves /\ DriverEnough
    BY <2>1 DEF CrashesForCause, DriverHolds, DriverLeaves, DriverEnough
  <2>6. QED BY <2>4, <2>5 DEF DriverInv
<1>2. DriverInv /\ [DriverNext]_driverVars => DriverInv'
  BY DriverStep
<1>3. QED BY <1>1, <1>2, PTL DEF DriverSpec

(* What a driver has left behind when it is out, and has when it is ready. *)
LEMMA DriverAgain ==
  ASSUME DriverInv
  PROVE  LoadsAgain
<1>1. ASSUME mod = "out", refusals = 0 \/ drv # "cardet"
      PROVE  left \subseteq Kept[drv]
  BY <1>1 DEF DriverInv, DriverLeaves, DriverEnough
<1>2. ASSUME mod = "live", refusals = 0
      PROVE  All \ held = IF loads = 1 THEN {} ELSE NotAgain[drv]
  <2>1. held = All \ Missing
    BY <1>2, AllIs DEF DriverInv, DriverEnough, DriverHolds
  <2>2. NotAgain[drv] \subseteq All
    BY AllIs, NotAgainIs, DriverNames DEF DriverInv
  <2>3. QED BY <2>1, <2>2 DEF Missing
<1>3. QED BY <1>1, <1>2 DEF LoadsAgain

-----------------------------------------------------------------------------
(***************************************************************************)
(* The components rest or run: what a component's own specification keeps, *)
(* the specification of all of them keeps.                                 *)
(***************************************************************************)
LEMMA DriversRun == ProgramsSpec => DriverSpec
<1>1. ProgramsInit => DriverInit
  BY DEF ProgramsInit
<1>2. [ProgramsNext]_programVars => [DriverNext]_driverVars
  BY DEF ProgramsNext, programVars
<1>3. QED BY <1>1, <1>2, PTL DEF ProgramsSpec, DriverSpec

(***************************************************************************)
(* dev.c:112-176, ds18b20.c:175-229, userio.c:77-177, ledsDriver.c:62-126. *)
(* In every order of loads, refusals, opens, calls and unloads, however    *)
(* many, the kernel crashes in a driver for one of the three causes only:  *)
(* a failed init of cardet has left something behind, a register of userio *)
(* is not mapped, ds18b20 or userio has not been given its class.          *)
(***************************************************************************)
THEOREM DriversCrashForCause == ProgramsSpec => []CrashesForCause
<1>1. DriverInv => CrashesForCause
  BY DEF DriverInv
<1>2. QED BY <1>1, DriversRun, DriverSafe, PTL

(***************************************************************************)
(* dev.c:148-176, ds18b20.c:207-229, userio.c:141-177, ledsDriver.c:62-85. *)
(* A driver that is out has left no more than what its code never          *)
(* releases, and one that is ready again, while the kernel had enough of   *)
(* all, has all that its first load had, but for what that load has kept   *)
(* and, in leds, what it asks for after the refusal.                       *)
(***************************************************************************)
THEOREM DriversLoadAgain == ProgramsSpec => []LoadsAgain
<1>1. DriverInv => LoadsAgain
  BY DriverAgain
<1>2. QED BY <1>1, DriversRun, DriverSafe, PTL

-----------------------------------------------------------------------------
(***************************************************************************)
(* MsgQueue.                                                               *)
(***************************************************************************)
Increasing(s) == \A i, j \in DOMAIN s : i < j => s[i] < s[j]

InQueue(k) == Range(queue[k])
HasMsg(p) == hand[p] \cup Range(shown[p])

(* Where the threads of a process are, and what it has there. *)
QueueThreads == \A p \in Procs :
  /\ snd[p] = "off" /\ rcv[p] = "off" => shown[p] = <<>>
  /\ snd[p] \in {"check", "create"} => rcv[p] = "off"
  /\ rcv[p] # "show" => hand[p] = {}
  /\ rcv[p] = "show" => \E n \in 1 .. MaxSent : hand[p] = {n}
  /\ rcv[p] = "look" /\ ProgramOf[p] = "main3" => keyOf[p] \in exists

(* Only what was sent is anywhere. *)
QueueBound ==
  /\ \A k \in Keys : InQueue(k) \subseteq 1 .. sent[k]
  /\ \A p \in Procs : HasMsg(p) \subseteq 1 .. sent[keyOf[p]]
  /\ \A n \in Nat, k \in Keys : <<n, k>> \in lost => n \in 1 .. sent[k]

(* Whatever has left a queue is older than what is still in it, and what a
   receiver has shown is older than what it has taken. *)
QueueOrder ==
  /\ \A k \in Keys : Increasing(queue[k])
  /\ \A p \in Procs : Increasing(shown[p])
  /\ \A p \in Procs : \A m \in Range(shown[p]), n \in hand[p] : m < n
  /\ \A p \in Procs : \A m \in HasMsg(p), n \in InQueue(keyOf[p]) : m < n
  /\ \A k \in Keys : \A n \in InQueue(k) : \A m \in Nat : <<m, k>> \in lost => m < n

(* What was sent is somewhere. *)
QueueCovered == \A k \in Keys : \A n \in 1 .. sent[k] :
  n \in InQueue(k) \/ <<n, k>> \in lost \/ \E p \in Procs : keyOf[p] = k /\ n \in HasMsg(p)

(* What is lost nobody has, and two receivers have nothing in common. *)
QueueApart ==
  /\ \A p \in Procs : \A n \in HasMsg(p) : <<n, keyOf[p]>> \notin lost
  /\ \A p, q \in Procs : p # q /\ keyOf[p] = keyOf[q] => HasMsg(p) \cap HasMsg(q) = {}

QueueInv == QueueTypeOK /\ QueueThreads /\ QueueBound /\ QueueOrder /\ QueueCovered /\ QueueApart

(* A message is added behind those that are older. *)
LEMMA AppendKeepsOrder ==
  ASSUME NEW s \in Seq(Nat), NEW e \in Nat, Increasing(s), \A m \in Range(s) : m < e
  PROVE  /\ Increasing(Append(s, e))
         /\ Range(Append(s, e)) = Range(s) \cup {e}
<1> DEFINE t == Append(s, e)
<1>1. Len(t) = Len(s) + 1 /\ Len(s) \in Nat /\ DOMAIN t = 1 .. Len(s) + 1 /\ DOMAIN s = 1 .. Len(s)
  OBVIOUS
<1>2. t[Len(s) + 1] = e /\ \A i \in 1 .. Len(s) : t[i] = s[i]
  OBVIOUS
<1> HIDE DEF t
<1>3. Range(t) = Range(s) \cup {e}
  BY <1>1, <1>2 DEF Range
<1>4. ASSUME NEW i \in DOMAIN t, NEW j \in DOMAIN t, i < j
      PROVE  t[i] < t[j]
  <2>1. i \in 1 .. Len(s) /\ (j \in 1 .. Len(s) \/ j = Len(s) + 1)
    BY <1>1, <1>4
  <2>2. s[i] \in Range(s)
    BY <1>1, <2>1 DEF Range
  <2>3. CASE j \in 1 .. Len(s)
    BY <1>1, <1>2, <1>4, <2>1, <2>3 DEF Increasing
  <2>4. CASE j = Len(s) + 1
    BY <1>2, <2>1, <2>2, <2>4
  <2>5. QED BY <2>1, <2>3, <2>4
<1>5. QED BY <1>3, <1>4 DEF Increasing, t

(* The oldest message is taken. *)
LEMMA TailKeepsOrder ==
  ASSUME NEW s \in Seq(Nat), s # <<>>, Increasing(s)
  PROVE  /\ Increasing(Tail(s))
         /\ Tail(s) \in Seq(Nat)
         /\ Head(s) \in Range(s)
         /\ Range(s) = Range(Tail(s)) \cup {Head(s)}
         /\ \A n \in Range(Tail(s)) : Head(s) < n
<1> DEFINE t == Tail(s)
<1>1. /\ Len(s) \in Nat \ {0} /\ Len(t) = Len(s) - 1 /\ DOMAIN s = 1 .. Len(s)
      /\ DOMAIN t = 1 .. Len(s) - 1 /\ t \in Seq(Nat)
  OBVIOUS
<1>2. Head(s) = s[1] /\ \A i \in 1 .. Len(s) - 1 : t[i] = s[i + 1]
  OBVIOUS
<1> HIDE DEF t
<1>3. \A i \in 1 .. Len(s) : i = 1 \/ (i - 1 \in 1 .. Len(s) - 1 /\ t[i - 1] = s[i])
  BY <1>1, <1>2
<1>4. \A i \in 1 .. Len(s) - 1 : i + 1 \in 1 .. Len(s) /\ 1 < i + 1
  BY <1>1
<1>5. Range(s) = Range(t) \cup {Head(s)}
  <2>1. ASSUME NEW i \in 1 .. Len(s) PROVE s[i] \in Range(t) \cup {Head(s)}
    BY <1>1, <1>2, <1>3 DEF Range
  <2>2. ASSUME NEW i \in 1 .. Len(s) - 1 PROVE t[i] \in Range(s)
    BY <1>1, <1>2, <1>4 DEF Range
  <2>3. Head(s) \in Range(s)
    BY <1>1, <1>2 DEF Range
  <2>4. Range(s) \subseteq Range(t) \cup {Head(s)}
    BY <1>1, <2>1 DEF Range
  <2>5. Range(t) \subseteq Range(s)
    BY <1>1, <2>2 DEF Range
  <2>6. QED BY <2>3, <2>4, <2>5
<1>6. Increasing(t)
  <2>1. ASSUME NEW i \in 1 .. Len(s) - 1, NEW j \in 1 .. Len(s) - 1, i < j
        PROVE  t[i] < t[j]
    <3>1. i + 1 \in DOMAIN s /\ j + 1 \in DOMAIN s /\ i + 1 < j + 1
      BY <1>1, <1>4, <2>1
    <3>2. s[i + 1] < s[j + 1]
      BY <3>1 DEF Increasing
    <3>3. QED BY <1>2, <3>2
  <2>2. QED BY <1>1, <2>1 DEF Increasing
<1>7. \A n \in Range(t) : Head(s) < n
  <2>1. ASSUME NEW i \in 1 .. Len(s) - 1
        PROVE  Head(s) < t[i]
    <3>1. 1 \in DOMAIN s /\ i + 1 \in DOMAIN s /\ 1 < i + 1
      BY <1>1, <1>4
    <3>2. s[1] < s[i + 1]
      BY <3>1 DEF Increasing
    <3>3. QED BY <1>2, <3>2
  <2>2. QED BY <1>1, <2>1 DEF Range
<1>8. QED BY <1>1, <1>5, <1>6, <1>7 DEF t

(* The parts of the type invariant that the arguments below count with. *)
LEMMA QueueTypes ==
  ASSUME QueueTypeOK
  PROVE  /\ \A k \in Keys : queue[k] \in Seq(Nat) /\ sent[k] \in Nat
         /\ \A p \in Procs : /\ keyOf[p] \in Keys
                             /\ shown[p] \in Seq(Nat)
                             /\ hand[p] \subseteq Nat
                             /\ HasMsg(p) \subseteq Nat
         /\ \A k \in Keys : InQueue(k) \subseteq Nat
<1>1. 1 .. MaxSent \subseteq Nat /\ 0 .. MaxSent \subseteq Nat
  BY MsgQueueAssumption
<1>2. \A k \in Keys : queue[k] \in Seq(1 .. MaxSent) /\ sent[k] \in 0 .. MaxSent
  BY DEF QueueTypeOK
<1>3. \A p \in Procs : shown[p] \in Seq(1 .. MaxSent) /\ hand[p] \subseteq 1 .. MaxSent /\ keyOf[p] \in Keys
  BY DEF QueueTypeOK
<1>4. \A s : s \in Seq(1 .. MaxSent) => s \in Seq(Nat)
  BY <1>1, SeqMonotonic
<1>5. \A s : s \in Seq(Nat) => Range(s) \subseteq Nat
  BY DEF Range
<1>6. QED BY <1>1, <1>2, <1>3, <1>4, <1>5 DEF HasMsg, InQueue

(* A step that moves no message, and changes the key of those only who have
   none. *)
LEMMA QueueQuiet ==
  ASSUME QueueInv, UNCHANGED <<queue, sent, hand, shown, lost>>,
         keyOf' \in [Procs -> Keys],
         \A q \in Procs : HasMsg(q) = {} \/ keyOf'[q] = keyOf[q]
  PROVE  QueueBound' /\ QueueOrder' /\ QueueCovered' /\ QueueApart'
<1>1. /\ \A k \in Keys : InQueue(k)' = InQueue(k) /\ queue[k]' = queue[k] /\ sent[k]' = sent[k]
      /\ \A p \in Procs : HasMsg(p)' = HasMsg(p) /\ hand[p]' = hand[p] /\ shown[p]' = shown[p]
      /\ \A p \in Procs : keyOf[p]' \in Keys /\ (HasMsg(p) = {} \/ keyOf[p]' = keyOf[p])
      /\ lost' = lost
  BY DEF InQueue, HasMsg
<1>2. QueueBound'
  BY <1>1 DEF QueueInv, QueueBound
<1>3. QueueOrder'
  BY <1>1 DEF QueueInv, QueueOrder
<1>4. QueueCovered'
  <2>1. SUFFICES ASSUME NEW k \in Keys, NEW n \in 1 .. sent[k], n \notin InQueue(k), <<n, k>> \notin lost
                 PROVE  \E p \in Procs : keyOf[p]' = k /\ n \in HasMsg(p)'
    <3>1. SUFFICES ASSUME NEW k \in Keys, NEW n \in 1 .. sent'[k], n \notin InQueue(k)', <<n, k>> \notin lost'
                   PROVE  \E p \in Procs : keyOf[p]' = k /\ n \in HasMsg(p)'
      BY Zenon DEF QueueCovered
    <3>2. n \in 1 .. sent[k] /\ n \notin InQueue(k) /\ <<n, k>> \notin lost
      BY <1>1, <3>1
    <3>3. QED BY <2>1, <3>2, Zenon
  <2>2. PICK p \in Procs : keyOf[p] = k /\ n \in HasMsg(p)
    BY <2>1 DEF QueueInv, QueueCovered
  <2>3. QED BY <1>1, <2>2
<1>5. QueueApart'
  BY <1>1 DEF QueueInv, QueueApart
<1>6. QED BY <1>2, <1>3, <1>4, <1>5

LEMMA QueueKeysOf ==
  ASSUME NEW p \in Procs
  PROVE  KeysOf(p) \subseteq Keys
<1>1. ProgramOf[p] \in {"main0", "main1", "main3"} /\ MSGKEY \in Keys /\ MSG_KEY_xx \in Keys
  BY MsgQueueAssumption
<1>2. QED BY <1>1 DEF KeysOf

LEMMA QueueStarts ==
  ASSUME QueueInv, NEW p \in Procs, QueueStart(p)
  PROVE  QueueInv'
<1>1. PICK k \in Keys : keyOf' = [keyOf EXCEPT ![p] = k]
  BY QueueKeysOf DEF QueueStart
<1>2. UNCHANGED <<exists, queue, sent, hand, shown, lost>>
  BY DEF QueueStart
<1>3. snd[p] = "off" /\ rcv[p] = "off" /\ HasMsg(p) = {}
  <2>1. snd[p] = "off" /\ rcv[p] = "off" /\ hand[p] = {} /\ shown[p] = <<>>
    BY DEF QueueStart, QueueInv, QueueThreads
  <2>2. Range(<<>>) = {}
    BY DEF Range
  <2>3. QED BY <2>1, <2>2 DEF HasMsg
<1>4. /\ snd' \in [Procs -> {"off", "check", "create", "send", "end"}]
      /\ rcv' \in [Procs -> {"off", "look", "wait", "show", "end"}]
      /\ keyOf' \in [Procs -> Keys]
      /\ \A q \in Procs \ {p} : keyOf'[q] = keyOf[q] /\ snd'[q] = snd[q] /\ rcv'[q] = rcv[q]
      /\ \/ snd'[p] = "off" /\ rcv'[p] = "look" /\ ProgramOf[p] # "main3"
         \/ snd'[p] = "check" /\ rcv'[p] = "off"
  BY <1>1, <1>3 DEF QueueStart, QueueInv, QueueTypeOK
<1>5. QueueTypeOK'
  BY <1>2, <1>4 DEF QueueInv, QueueTypeOK
<1>6. QueueThreads'
  <2>1. SUFFICES ASSUME NEW q \in Procs
                 PROVE  /\ snd[q]' = "off" /\ rcv[q]' = "off" => shown[q] = <<>>
                        /\ snd[q]' \in {"check", "create"} => rcv[q]' = "off"
                        /\ rcv[q]' # "show" => hand[q] = {}
                        /\ rcv[q]' = "show" => \E n \in 1 .. MaxSent : hand[q] = {n}
                        /\ rcv[q]' = "look" /\ ProgramOf[q] = "main3" => keyOf[q]' \in exists
    BY <1>2 DEF QueueThreads
  <2>2. CASE q = p
    BY <1>3, <1>4, <2>2 DEF HasMsg
  <2>3. CASE q # p
    BY <1>4, <2>3 DEF QueueInv, QueueThreads
  <2>4. QED BY <2>2, <2>3
<1>7. QED BY <1>2, <1>3, <1>4, <1>5, <1>6, QueueQuiet DEF QueueInv

(* The sender looks for its queue, fails without a key, or makes its queue;
   main3 then starts its receiver. *)
LEMMA QueueMakes ==
  ASSUME QueueInv, NEW p \in Procs, QueueIsExist(p) \/ QueueNoKey(p) \/ QueueCreate(p)
  PROVE  QueueInv'
<1>1. UNCHANGED <<queue, sent, keyOf, hand, shown, lost>>
  BY DEF QueueIsExist, QueueNoKey, QueueCreate
<1>2. snd[p] \in {"check", "create"} /\ rcv[p] = "off" /\ hand[p] = {} /\ keyOf[p] \in Keys
  BY DEF QueueIsExist, QueueNoKey, QueueCreate, QueueInv, QueueThreads, QueueTypeOK
<1>3. /\ snd' \in [Procs -> {"off", "check", "create", "send", "end"}]
      /\ rcv' \in [Procs -> {"off", "look", "wait", "show", "end"}]
      /\ \A q \in Procs \ {p} : snd'[q] = snd[q] /\ rcv'[q] = rcv[q]
      /\ snd'[p] \in {"create", "send", "end"}
      /\ rcv'[p] = "off" \/ rcv'[p] = "look"
      /\ rcv'[p] = "look" => snd'[p] = "send" /\ keyOf[p] \in exists'
      /\ exists \subseteq exists' /\ exists' \subseteq Keys
  <2>1. CASE QueueIsExist(p)
    BY <1>2, <2>1 DEF QueueIsExist, Ready, QueueInv, QueueTypeOK
  <2>2. CASE QueueNoKey(p)
    BY <1>2, <2>2 DEF QueueNoKey, QueueInv, QueueTypeOK
  <2>3. CASE QueueCreate(p)
    BY <1>2, <2>3 DEF QueueCreate, Ready, QueueInv, QueueTypeOK
  <2>4. QED BY <2>1, <2>2, <2>3
<1>4. QueueTypeOK'
  BY <1>1, <1>3 DEF QueueInv, QueueTypeOK
<1>5. QueueThreads'
  <2>1. SUFFICES ASSUME NEW q \in Procs
                 PROVE  /\ snd[q]' = "off" /\ rcv[q]' = "off" => shown[q] = <<>>
                        /\ snd[q]' \in {"check", "create"} => rcv[q]' = "off"
                        /\ rcv[q]' # "show" => hand[q] = {}
                        /\ rcv[q]' = "show" => \E n \in 1 .. MaxSent : hand[q] = {n}
                        /\ rcv[q]' = "look" /\ ProgramOf[q] = "main3" => keyOf[q] \in exists'
    BY <1>1 DEF QueueThreads
  <2>2. CASE q = p
    BY <1>2, <1>3, <2>2
  <2>3. CASE q # p
    BY <1>3, <2>3 DEF QueueInv, QueueThreads
  <2>4. QED BY <2>2, <2>3
<1>6. keyOf' \in [Procs -> Keys]
  BY <1>1 DEF QueueInv, QueueTypeOK
<1>7. QED BY <1>1, <1>4, <1>5, <1>6, QueueQuiet DEF QueueInv

LEMMA QueueLooks ==
  ASSUME QueueInv, NEW p \in Procs, Look(p)
  PROVE  QueueInv'
<1>1. UNCHANGED <<exists, queue, sent, keyOf, hand, shown, lost>> /\ rcv[p] = "look" /\ hand[p] = {}
  BY DEF Look, QueueInv, QueueThreads
<1>2. /\ snd' \in [Procs -> {"off", "check", "create", "send", "end"}]
      /\ rcv' \in [Procs -> {"off", "look", "wait", "show", "end"}]
      /\ \A q \in Procs \ {p} : snd'[q] = snd[q] /\ rcv'[q] = rcv[q]
      /\ snd'[p] = snd[p] \/ snd'[p] = "end"
      /\ rcv'[p] = "wait" \/ rcv'[p] = "end"
  BY DEF Look, QueueInv, QueueTypeOK
<1>3. snd[p] \notin {"check", "create"}
  BY <1>1 DEF QueueInv, QueueThreads
<1>4. QueueTypeOK'
  BY <1>1, <1>2 DEF QueueInv, QueueTypeOK
<1>5. QueueThreads'
  <2>1. SUFFICES ASSUME NEW q \in Procs
                 PROVE  /\ snd[q]' = "off" /\ rcv[q]' = "off" => shown[q] = <<>>
                        /\ snd[q]' \in {"check", "create"} => rcv[q]' = "off"
                        /\ rcv[q]' # "show" => hand[q] = {}
                        /\ rcv[q]' = "show" => \E n \in 1 .. MaxSent : hand[q] = {n}
                        /\ rcv[q]' = "look" /\ ProgramOf[q] = "main3" => keyOf[q] \in exists
    BY <1>1 DEF QueueThreads
  <2>2. CASE q = p
    BY <1>1, <1>2, <1>3, <2>2
  <2>3. CASE q # p
    BY <1>2, <2>3 DEF QueueInv, QueueThreads
  <2>4. QED BY <2>2, <2>3
<1>6. keyOf' \in [Procs -> Keys]
  BY <1>1 DEF QueueInv, QueueTypeOK
<1>7. QED BY <1>1, <1>4, <1>5, <1>6, QueueQuiet DEF QueueInv

(* A message that is sent is later than all others. *)
LEMMA QueueSends ==
  ASSUME QueueInv, NEW p \in Procs, MsgSnd(p)
  PROVE  QueueInv'
<1>0. PICK k \in Keys, e \in Nat : k = keyOf[p] /\ e = sent[k] + 1
  BY MsgQueueAssumption DEF QueueInv, QueueTypeOK
<1>1. sent[k] \in Nat /\ e \in 1 .. MaxSent
  BY <1>0, MsgQueueAssumption DEF MsgSnd, QueueInv, QueueTypeOK
<1>2. UNCHANGED <<exists, keyOf, snd, rcv, hand, shown, lost>>
  BY DEF MsgSnd
<1>3. /\ sent' = [sent EXCEPT ![k] = e]
      /\ queue' = [queue EXCEPT ![k] = Append(@, e)]
  <2>1. sent' = [sent EXCEPT ![k] = e]
    BY <1>0 DEF MsgSnd
  <2>2. sent'[k] = e
    BY <1>1, <2>1 DEF QueueInv, QueueTypeOK
  <2>3. QED BY <1>0, <2>1, <2>2 DEF MsgSnd
<1>4. /\ sent'[k] = e /\ queue'[k] = Append(queue[k], e)
      /\ \A l \in Keys \ {k} : sent'[l] = sent[l] /\ queue'[l] = queue[l]
  BY <1>1, <1>3 DEF QueueInv, QueueTypeOK
<1>5. queue[k] \in Seq(Nat) /\ Increasing(queue[k]) /\ \A m \in Range(queue[k]) : m \in Nat /\ m < e
  <2>1. InQueue(k) \subseteq 1 .. sent[k]
    BY <1>1 DEF QueueInv, QueueBound
  <2>2. \A m \in 1 .. sent[k] : m \in Nat /\ m < e
    BY <1>0, <1>1
  <2>3. QED BY <1>1, <2>1, <2>2, QueueTypes DEF InQueue, QueueInv, QueueOrder
<1>6. Increasing(queue'[k]) /\ InQueue(k)' = InQueue(k) \cup {e}
  BY <1>1, <1>4, <1>5, AppendKeepsOrder DEF InQueue
<1>7. /\ \A l \in Keys \ {k} : InQueue(l)' = InQueue(l)
      /\ \A q \in Procs : HasMsg(q)' = HasMsg(q)
  BY <1>2, <1>4 DEF InQueue, HasMsg
<1>8. \A m : m \in 1 .. e <=> m \in 1 .. sent[k] \/ m = e
  BY <1>0, <1>1
<1>9. QueueTypeOK'
  <2>1. queue[k] \in Seq(1 .. MaxSent)
    BY <1>1 DEF QueueInv, QueueTypeOK
  <2>2. Append(queue[k], e) \in Seq(1 .. MaxSent)
    BY <1>1, <2>1
  <2>3. queue' \in [Keys -> Seq(1 .. MaxSent)]
    BY <1>1, <1>3, <2>2 DEF QueueInv, QueueTypeOK
  <2>4. sent' \in [Keys -> 0 .. MaxSent]
    <3>1. e \in 0 .. MaxSent
      BY <1>1
    <3>2. QED BY <1>3, <3>1 DEF QueueInv, QueueTypeOK
  <2>5. QED BY <1>2, <2>3, <2>4 DEF QueueInv, QueueTypeOK
<1>10. QueueThreads'
  BY <1>2 DEF QueueInv, QueueThreads
<1>11. QueueBound'
  <2>1. \A l \in Keys : 1 .. sent[l] \subseteq 1 .. sent'[l]
    BY <1>4, <1>8
  <2>2. \A l \in Keys : InQueue(l)' \subseteq 1 .. sent'[l]
    BY <1>4, <1>6, <1>7, <1>8 DEF QueueInv, QueueBound
  <2>3. \A q \in Procs : keyOf[q] \in Keys
    BY DEF QueueInv, QueueTypeOK
  <2>4. QED BY <1>2, <1>7, <2>1, <2>2, <2>3 DEF QueueInv, QueueBound
<1>12. QueueOrder'
  <2>1. \A l \in Keys : Increasing(queue'[l])
    BY <1>4, <1>6 DEF QueueInv, QueueOrder
  <2>2. ASSUME NEW q \in Procs, NEW m \in HasMsg(q), NEW n \in InQueue(keyOf[q])'
        PROVE  m < n
    <3>1. CASE n = e /\ keyOf[q] = k
      BY <1>0, <1>1, <3>1 DEF QueueInv, QueueBound
    <3>2. CASE n \in InQueue(keyOf[q])
      BY <3>2 DEF QueueInv, QueueOrder
    <3>3. keyOf[q] \in Keys /\ keyOf[q]' = keyOf[q]
      BY <1>2 DEF QueueInv, QueueTypeOK
    <3>4. QED BY <1>6, <1>7, <2>2, <3>1, <3>2, <3>3
  <2>3. ASSUME NEW l \in Keys, NEW n \in InQueue(l)', NEW m \in Nat, <<m, l>> \in lost
        PROVE  m < n
    <3>1. CASE n = e /\ l = k
      BY <1>0, <1>1, <2>3, <3>1 DEF QueueInv, QueueBound
    <3>2. CASE n \in InQueue(l)
      BY <2>3, <3>2 DEF QueueInv, QueueOrder
    <3>3. QED BY <1>6, <1>7, <2>3, <3>1, <3>2
  <2>4. QED BY <1>2, <1>7, <2>1, <2>2, <2>3 DEF QueueInv, QueueOrder
<1>13. QueueCovered'
  <2>1. SUFFICES ASSUME NEW l \in Keys, NEW n \in 1 .. sent'[l], n \notin InQueue(l)', <<n, l>> \notin lost
                 PROVE  \E q \in Procs : keyOf[q] = l /\ n \in HasMsg(q)
    BY <1>2, <1>7 DEF QueueCovered
  <2>2. n \in 1 .. sent[l] /\ n \notin InQueue(l)
    BY <1>4, <1>6, <1>7, <1>8, <2>1
  <2>3. QED BY <2>1, <2>2 DEF QueueInv, QueueCovered
<1>14. QueueApart'
  BY <1>2, <1>7 DEF QueueInv, QueueApart
<1>15. QED BY <1>9, <1>10, <1>11, <1>12, <1>13, <1>14 DEF QueueInv

(* The oldest message of the queue moves into the receiver's hand. *)
LEMMA QueueReceives ==
  ASSUME QueueInv, NEW p \in Procs, MsgRcv(p)
  PROVE  QueueInv'
<1>0. PICK k \in Keys : k = keyOf[p]
  BY DEF QueueInv, QueueTypeOK
<1>1. PICK h : h = Head(queue[k])
  OBVIOUS
<1>2. /\ UNCHANGED <<exists, sent, keyOf, snd, shown, lost>>
      /\ rcv[p] = "wait" /\ queue[k] # <<>> /\ hand[p] = {}
      /\ hand' = [hand EXCEPT ![p] = {h}]
      /\ queue' = [queue EXCEPT ![k] = Tail(@)]
      /\ rcv' = [rcv EXCEPT ![p] = "show"]
  BY <1>0, <1>1 DEF MsgRcv, QueueInv, QueueThreads
<1>3. /\ hand'[p] = {h} /\ rcv'[p] = "show" /\ queue'[k] = Tail(queue[k])
      /\ \A q \in Procs \ {p} : hand'[q] = hand[q] /\ rcv'[q] = rcv[q]
      /\ \A l \in Keys \ {k} : queue'[l] = queue[l]
  BY <1>2 DEF QueueInv, QueueTypeOK
<1>4. queue[k] \in Seq(Nat) /\ Increasing(queue[k])
  BY QueueTypes DEF QueueInv, QueueOrder
<1>5. /\ Increasing(queue'[k])
      /\ InQueue(k) = InQueue(k)' \cup {h}
      /\ \A n \in InQueue(k)' : h < n
  BY <1>1, <1>2, <1>3, <1>4, TailKeepsOrder DEF InQueue
<1>6. h \in InQueue(k) /\ h \in 1 .. sent[k] /\ h \in 1 .. MaxSent /\ h \in Nat
  <2>1. h \in InQueue(k)
    BY <1>5
  <2>2. h \in 1 .. sent[k]
    BY <2>1 DEF QueueInv, QueueBound
  <2>3. sent[k] \in 0 .. MaxSent
    BY DEF QueueInv, QueueTypeOK
  <2>4. QED BY <2>1, <2>2, <2>3, MsgQueueAssumption
<1>7. /\ \A l \in Keys \ {k} : InQueue(l)' = InQueue(l)
      /\ \A l \in Keys : InQueue(l)' \subseteq InQueue(l)
      /\ HasMsg(p)' = HasMsg(p) \cup {h}
      /\ \A q \in Procs \ {p} : HasMsg(q)' = HasMsg(q)
  <2>1. \A l \in Keys \ {k} : InQueue(l)' = InQueue(l)
    BY <1>3 DEF InQueue
  <2>2. \A q \in Procs \ {p} : HasMsg(q)' = HasMsg(q)
    BY <1>2, <1>3 DEF HasMsg
  <2>3. HasMsg(p)' = HasMsg(p) \cup {h}
    BY <1>2, <1>3 DEF HasMsg
  <2>4. QED BY <1>5, <2>1, <2>2, <2>3
<1>8. QueueTypeOK'
  <2>1. queue[k] \in Seq(1 .. MaxSent)
    BY DEF QueueInv, QueueTypeOK
  <2>2. Tail(queue[k]) \in Seq(1 .. MaxSent)
    BY <1>2, <2>1, HeadTailProperties
  <2>3. queue' \in [Keys -> Seq(1 .. MaxSent)]
    BY <1>2, <2>2 DEF QueueInv, QueueTypeOK
  <2>4. hand' \in [Procs -> SUBSET (1 .. MaxSent)]
    BY <1>2, <1>6 DEF QueueInv, QueueTypeOK
  <2>5. rcv' \in [Procs -> {"off", "look", "wait", "show", "end"}]
    BY <1>2 DEF QueueInv, QueueTypeOK
  <2>6. QED BY <1>2, <2>3, <2>4, <2>5 DEF QueueInv, QueueTypeOK
<1>9. QueueThreads'
  <2>1. SUFFICES ASSUME NEW q \in Procs
                 PROVE  /\ snd[q] = "off" /\ rcv[q]' = "off" => shown[q] = <<>>
                        /\ snd[q] \in {"check", "create"} => rcv[q]' = "off"
                        /\ rcv[q]' # "show" => hand[q]' = {}
                        /\ rcv[q]' = "show" => \E n \in 1 .. MaxSent : hand[q]' = {n}
                        /\ rcv[q]' = "look" /\ ProgramOf[q] = "main3" => keyOf[q] \in exists
    BY <1>2 DEF QueueThreads
  <2>2. CASE q = p
    <3>1. snd[p] \notin {"check", "create"}
      BY <1>2 DEF QueueInv, QueueThreads
    <3>2. QED BY <1>3, <1>6, <2>2, <3>1
  <2>3. CASE q # p
    BY <1>3, <2>3 DEF QueueInv, QueueThreads
  <2>4. QED BY <2>2, <2>3
<1>10. QueueBound'
  <2>1. \A l \in Keys : InQueue(l)' \subseteq 1 .. sent[l]
    BY <1>7 DEF QueueInv, QueueBound
  <2>2. ASSUME NEW q \in Procs PROVE HasMsg(q)' \subseteq 1 .. sent[keyOf[q]]
    <3>1. HasMsg(q) \subseteq 1 .. sent[keyOf[q]]
      BY DEF QueueInv, QueueBound
    <3>2. QED BY <1>0, <1>6, <1>7, <3>1
  <2>3. QED BY <1>2, <2>1, <2>2 DEF QueueInv, QueueBound
<1>11. QueueOrder'
  <2>1. \A l \in Keys : Increasing(queue'[l])
    BY <1>3, <1>5 DEF QueueInv, QueueOrder
  <2>2. ASSUME NEW q \in Procs, NEW m \in Range(shown[q]), NEW n \in hand'[q] PROVE m < n
    <3>1. CASE q = p
      BY <1>0, <1>3, <1>6, <2>2, <3>1 DEF QueueInv, QueueOrder, HasMsg
    <3>2. CASE q # p
      BY <1>3, <2>2, <3>2 DEF QueueInv, QueueOrder
    <3>3. QED BY <3>1, <3>2
  <2>3. ASSUME NEW q \in Procs, NEW m \in HasMsg(q)', NEW n \in InQueue(keyOf[q])' PROVE m < n
    <3>1. keyOf[q]' = keyOf[q] /\ keyOf[q] \in Keys
      BY <1>2 DEF QueueInv, QueueTypeOK
    <3>2. PICK l \in Keys : l = keyOf[q]
      BY <3>1
    <3>3. n \in InQueue(l)' /\ n \in InQueue(l)
      BY <1>7, <3>1, <3>2
    <3>4. CASE m = h /\ q = p
      BY <1>0, <1>5, <3>2, <3>3, <3>4
    <3>5. CASE m \in HasMsg(q)
      BY <3>2, <3>3, <3>5 DEF QueueInv, QueueOrder
    <3>6. QED BY <1>7, <3>4, <3>5
  <2>4. ASSUME NEW l \in Keys, NEW n \in InQueue(l)', NEW m \in Nat, <<m, l>> \in lost PROVE m < n
    BY <1>7, <2>4 DEF QueueInv, QueueOrder
  <2>5. QED BY <1>2, <2>1, <2>2, <2>3, <2>4 DEF QueueInv, QueueOrder
<1>12. QueueCovered'
  <2>1. SUFFICES ASSUME NEW l \in Keys, NEW n \in 1 .. sent[l], n \notin InQueue(l)', <<n, l>> \notin lost
                 PROVE  \E q \in Procs : keyOf[q] = l /\ n \in HasMsg(q)'
    BY <1>2 DEF QueueCovered
  <2>2. CASE n \in InQueue(l)
    <3>1. l = k /\ n = h
      BY <1>5, <1>7, <2>1, <2>2
    <3>2. QED BY <1>0, <1>7, <3>1
  <2>3. CASE n \notin InQueue(l)
    <3>1. PICK q \in Procs : keyOf[q] = l /\ n \in HasMsg(q)
      BY <2>1, <2>3 DEF QueueInv, QueueCovered
    <3>2. QED BY <1>7, <3>1
  <2>4. QED BY <2>2, <2>3
<1>13. QueueApart'
  <2>1. <<h, k>> \notin lost
    BY <1>6 DEF QueueInv, QueueOrder
  <2>2. \A q \in Procs : keyOf[q] = k => h \notin HasMsg(q)
    BY <1>6 DEF QueueInv, QueueOrder
  <2>3. ASSUME NEW q \in Procs, NEW n \in HasMsg(q)' PROVE <<n, keyOf[q]>> \notin lost
    <3>1. CASE n \in HasMsg(q)
      BY <3>1 DEF QueueInv, QueueApart
    <3>2. CASE q = p /\ n = h
      BY <1>0, <2>1, <3>2
    <3>3. QED BY <1>7, <3>1, <3>2
  <2>4. ASSUME NEW q \in Procs, NEW r \in Procs, q # r, keyOf[q] = keyOf[r]
        PROVE  HasMsg(q)' \cap HasMsg(r)' = {}
    <3>1. HasMsg(q) \cap HasMsg(r) = {}
      BY <2>4 DEF QueueInv, QueueApart
    <3>2. QED BY <1>0, <1>7, <2>2, <2>4, <3>1
  <2>5. QED BY <1>2, <2>3, <2>4 DEF QueueApart
<1>14. QED BY <1>8, <1>9, <1>10, <1>11, <1>12, <1>13 DEF QueueInv

(* What is in the hand is shown: it was later than all that was shown. *)
LEMMA QueueShows ==
  ASSUME QueueInv, NEW p \in Procs, ShowMsg(p)
  PROVE  QueueInv'
<1>1. PICK n \in hand[p] :
        /\ rcv[p] = "show"
        /\ shown' = [shown EXCEPT ![p] = Append(@, n)]
        /\ hand' = [hand EXCEPT ![p] = {}]
        /\ rcv' = [rcv EXCEPT ![p] = "wait"]
        /\ UNCHANGED <<exists, queue, sent, keyOf, snd, lost>>
  BY DEF ShowMsg
<1>2. hand[p] = {n} /\ n \in 1 .. MaxSent /\ n \in Nat
  BY <1>1, MsgQueueAssumption DEF QueueInv, QueueThreads
<1>3. /\ hand'[p] = {} /\ rcv'[p] = "wait" /\ shown'[p] = Append(shown[p], n)
      /\ \A q \in Procs \ {p} : hand'[q] = hand[q] /\ rcv'[q] = rcv[q] /\ shown'[q] = shown[q]
  BY <1>1 DEF QueueInv, QueueTypeOK
<1>4. shown[p] \in Seq(Nat) /\ Increasing(shown[p]) /\ \A m \in Range(shown[p]) : m < n
  BY QueueTypes DEF QueueInv, QueueOrder
<1>5. Increasing(shown'[p]) /\ Range(shown'[p]) = Range(shown[p]) \cup {n}
  BY <1>2, <1>3, <1>4, AppendKeepsOrder
<1>6. /\ \A l \in Keys : InQueue(l)' = InQueue(l) /\ queue'[l] = queue[l]
      /\ \A q \in Procs : HasMsg(q)' = HasMsg(q)
  <2>1. \A l \in Keys : InQueue(l)' = InQueue(l) /\ queue'[l] = queue[l]
    BY <1>1 DEF InQueue
  <2>2. \A q \in Procs \ {p} : HasMsg(q)' = HasMsg(q)
    BY <1>3 DEF HasMsg
  <2>3. HasMsg(p)' = HasMsg(p)
    BY <1>2, <1>3, <1>5 DEF HasMsg
  <2>4. QED BY <2>1, <2>2, <2>3
<1>7. \A q \in Procs : keyOf[q]' = keyOf[q] /\ keyOf[q] \in Keys
  BY <1>1 DEF QueueInv, QueueTypeOK
<1>8. QueueTypeOK'
  <2>1. shown[p] \in Seq(1 .. MaxSent)
    BY DEF QueueInv, QueueTypeOK
  <2>2. Append(shown[p], n) \in Seq(1 .. MaxSent)
    BY <1>2, <2>1
  <2>3. shown' \in [Procs -> Seq(1 .. MaxSent)]
    BY <1>1, <2>2 DEF QueueInv, QueueTypeOK
  <2>4. hand' \in [Procs -> SUBSET (1 .. MaxSent)]
    BY <1>1 DEF QueueInv, QueueTypeOK
  <2>5. rcv' \in [Procs -> {"off", "look", "wait", "show", "end"}]
    BY <1>1 DEF QueueInv, QueueTypeOK
  <2>6. QED BY <1>1, <2>3, <2>4, <2>5 DEF QueueInv, QueueTypeOK
<1>9. QueueThreads'
  <2>1. SUFFICES ASSUME NEW q \in Procs
                 PROVE  /\ snd[q] = "off" /\ rcv[q]' = "off" => shown[q]' = <<>>
                        /\ snd[q] \in {"check", "create"} => rcv[q]' = "off"
                        /\ rcv[q]' # "show" => hand[q]' = {}
                        /\ rcv[q]' = "show" => \E m \in 1 .. MaxSent : hand[q]' = {m}
                        /\ rcv[q]' = "look" /\ ProgramOf[q] = "main3" => keyOf[q] \in exists
    BY <1>1 DEF QueueThreads
  <2>2. CASE q = p
    <3>1. snd[p] \notin {"check", "create"}
      BY <1>1 DEF QueueInv, QueueThreads
    <3>2. QED BY <1>3, <2>2, <3>1
  <2>3. CASE q # p
    BY <1>3, <2>3 DEF QueueInv, QueueThreads
  <2>4. QED BY <2>2, <2>3
<1>10. QueueBound'
  BY <1>1, <1>6, <1>7 DEF QueueInv, QueueBound
<1>11. QueueOrder'
  <2>1. \A q \in Procs : Increasing(shown'[q])
    BY <1>3, <1>5 DEF QueueInv, QueueOrder
  <2>2. \A q \in Procs : \A m \in Range(shown'[q]), i \in hand'[q] : m < i
    BY <1>3 DEF QueueInv, QueueOrder
  <2>3. \A l \in Keys : Increasing(queue'[l])
    BY <1>6 DEF QueueInv, QueueOrder
  <2>4. \A q \in Procs : InQueue(keyOf[q])' = InQueue(keyOf[q])
    BY <1>6, <1>7
  <2>5. \A q \in Procs : \A m \in HasMsg(q)', i \in InQueue(keyOf[q])' : m < i
    BY <1>6, <2>4 DEF QueueInv, QueueOrder
  <2>6. \A l \in Keys : \A i \in InQueue(l)' : \A m \in Nat : <<m, l>> \in lost' => m < i
    BY <1>1, <1>6 DEF QueueInv, QueueOrder
  <2>7. QED BY <2>1, <2>2, <2>3, <2>5, <2>6 DEF QueueOrder
<1>12. QueueCovered'
  <2>1. SUFFICES ASSUME NEW l \in Keys, NEW i \in 1 .. sent[l], i \notin InQueue(l), <<i, l>> \notin lost
                 PROVE  \E q \in Procs : keyOf[q] = l /\ i \in HasMsg(q)'
    BY <1>1, <1>6 DEF QueueCovered
  <2>2. PICK q \in Procs : keyOf[q] = l /\ i \in HasMsg(q)
    BY <2>1 DEF QueueInv, QueueCovered
  <2>3. QED BY <1>6, <2>2
<1>13. QueueApart'
  BY <1>1, <1>6 DEF QueueInv, QueueApart
<1>14. QED BY <1>8, <1>9, <1>10, <1>11, <1>12, <1>13 DEF QueueInv

(* What is in the hand of a process that is killed is lost. *)
LEMMA QueueKills ==
  ASSUME QueueInv, NEW p \in Procs, QueueKill(p)
  PROVE  QueueInv'
<1>0. PICK k \in Keys : k = keyOf[p]
  BY DEF QueueInv, QueueTypeOK
<1>1. /\ UNCHANGED <<exists, queue, sent, keyOf, shown>>
      /\ snd' = [snd EXCEPT ![p] = "end"] /\ rcv' = [rcv EXCEPT ![p] = "end"]
      /\ hand' = [hand EXCEPT ![p] = {}]
      /\ lost' = lost \cup (hand[p] \X {k})
  BY <1>0 DEF QueueKill
<1>2. /\ hand'[p] = {} /\ rcv'[p] = "end" /\ snd'[p] = "end"
      /\ \A q \in Procs \ {p} : hand'[q] = hand[q] /\ rcv'[q] = rcv[q] /\ snd'[q] = snd[q]
  BY <1>1 DEF QueueInv, QueueTypeOK
<1>3. /\ \A l \in Keys : InQueue(l)' = InQueue(l) /\ queue'[l] = queue[l]
      /\ \A q \in Procs \ {p} : HasMsg(q)' = HasMsg(q)
      /\ HasMsg(p)' = Range(shown[p])
      /\ \A q \in Procs : HasMsg(q)' \subseteq HasMsg(q)
  <2>1. \A l \in Keys : InQueue(l)' = InQueue(l) /\ queue'[l] = queue[l]
    BY <1>1 DEF InQueue
  <2>2. \A q \in Procs \ {p} : HasMsg(q)' = HasMsg(q)
    BY <1>1, <1>2 DEF HasMsg
  <2>3. HasMsg(p)' = Range(shown[p])
    BY <1>1, <1>2 DEF HasMsg
  <2>4. QED BY <2>1, <2>2, <2>3 DEF HasMsg
<1>4. hand[p] \subseteq 1 .. MaxSent /\ hand[p] \subseteq HasMsg(p)
  BY DEF QueueInv, QueueTypeOK, HasMsg
<1>5. \A n, l : <<n, l>> \in lost' <=> <<n, l>> \in lost \/ (l = k /\ n \in hand[p])
  BY <1>1
<1>6. \A q \in Procs : keyOf[q]' = keyOf[q] /\ keyOf[q] \in Keys
  BY <1>1 DEF QueueInv, QueueTypeOK
<1>7. QueueTypeOK'
  <2>1. hand' \in [Procs -> SUBSET (1 .. MaxSent)]
    BY <1>1 DEF QueueInv, QueueTypeOK
  <2>2. rcv' \in [Procs -> {"off", "look", "wait", "show", "end"}]
    BY <1>1 DEF QueueInv, QueueTypeOK
  <2>3. snd' \in [Procs -> {"off", "check", "create", "send", "end"}]
    BY <1>1 DEF QueueInv, QueueTypeOK
  <2>4. lost' \subseteq (1 .. MaxSent) \X Keys
    BY <1>1, <1>4 DEF QueueInv, QueueTypeOK
  <2>5. QED BY <1>1, <2>1, <2>2, <2>3, <2>4 DEF QueueInv, QueueTypeOK
<1>8. QueueThreads'
  <2>1. SUFFICES ASSUME NEW q \in Procs
                 PROVE  /\ snd[q]' = "off" /\ rcv[q]' = "off" => shown[q] = <<>>
                        /\ snd[q]' \in {"check", "create"} => rcv[q]' = "off"
                        /\ rcv[q]' # "show" => hand[q]' = {}
                        /\ rcv[q]' = "show" => \E n \in 1 .. MaxSent : hand[q]' = {n}
                        /\ rcv[q]' = "look" /\ ProgramOf[q] = "main3" => keyOf[q] \in exists
    BY <1>1 DEF QueueThreads
  <2>2. CASE q = p
    BY <1>2, <2>2
  <2>3. CASE q # p
    BY <1>2, <2>3 DEF QueueInv, QueueThreads
  <2>4. QED BY <2>2, <2>3
<1>9. QueueBound'
  <2>1. \A l \in Keys : InQueue(l)' \subseteq 1 .. sent'[l]
    BY <1>1, <1>3 DEF QueueInv, QueueBound
  <2>2. \A q \in Procs : HasMsg(q)' \subseteq 1 .. sent'[keyOf'[q]]
    BY <1>1, <1>3 DEF QueueInv, QueueBound
  <2>3. \A n \in hand[p] : n \in 1 .. sent[k]
    BY <1>0, <1>4 DEF QueueInv, QueueBound
  <2>4. \A n \in Nat, l \in Keys : <<n, l>> \in lost' => n \in 1 .. sent'[l]
    BY <1>1, <1>5, <2>3 DEF QueueInv, QueueBound
  <2>5. QED BY <2>1, <2>2, <2>4 DEF QueueBound
<1>10. QueueOrder'
  <2>1. \A q \in Procs : Increasing(shown'[q])
    BY <1>1 DEF QueueInv, QueueOrder
  <2>2. \A q \in Procs : \A m \in Range(shown'[q]), i \in hand'[q] : m < i
    BY <1>1, <1>2 DEF QueueInv, QueueOrder
  <2>3. \A l \in Keys : Increasing(queue'[l])
    BY <1>3 DEF QueueInv, QueueOrder
  <2>4. \A q \in Procs : InQueue(keyOf[q])' = InQueue(keyOf[q])
    BY <1>3, <1>6
  <2>5. \A q \in Procs : \A m \in HasMsg(q)', i \in InQueue(keyOf[q])' : m < i
    BY <1>3, <2>4 DEF QueueInv, QueueOrder
  <2>6. ASSUME NEW l \in Keys, NEW i \in InQueue(l)', NEW m \in Nat, <<m, l>> \in lost'
        PROVE  m < i
    <3>1. CASE <<m, l>> \in lost
      BY <1>3, <2>6, <3>1 DEF QueueInv, QueueOrder
    <3>2. CASE l = k /\ m \in hand[p]
      BY <1>0, <1>3, <1>4, <2>6, <3>2 DEF QueueInv, QueueOrder
    <3>3. QED BY <1>5, <2>6, <3>1, <3>2
  <2>7. QED BY <2>1, <2>2, <2>3, <2>5, <2>6 DEF QueueOrder
<1>11. QueueCovered'
  <2>1. SUFFICES ASSUME NEW l \in Keys, NEW i \in 1 .. sent[l], i \notin InQueue(l), <<i, l>> \notin lost'
                 PROVE  \E q \in Procs : keyOf[q] = l /\ i \in HasMsg(q)'
    <3>1. SUFFICES ASSUME NEW l \in Keys, NEW i \in 1 .. sent'[l], i \notin InQueue(l)', <<i, l>> \notin lost'
                   PROVE  \E q \in Procs : keyOf'[q] = l /\ i \in HasMsg(q)'
      BY Zenon DEF QueueCovered
    <3>2. i \in 1 .. sent[l] /\ i \notin InQueue(l) /\ keyOf' = keyOf
      BY <1>1, <1>3, <3>1
    <3>3. QED BY <2>1, <3>1, <3>2, Zenon
  <2>2. <<i, l>> \notin lost /\ ~(l = k /\ i \in hand[p])
    BY <1>5, <2>1
  <2>3. PICK q \in Procs : keyOf[q] = l /\ i \in HasMsg(q)
    BY <2>1, <2>2 DEF QueueInv, QueueCovered
  <2>4. i \in HasMsg(q)'
    BY <1>0, <1>3, <2>2, <2>3 DEF HasMsg
  <2>5. QED BY <2>3, <2>4
<1>12. QueueApart'
  <2>1. ASSUME NEW q \in Procs, NEW n \in HasMsg(q)' PROVE <<n, keyOf[q]>> \notin lost'
    <3>1. <<n, keyOf[q]>> \notin lost
      BY <1>3 DEF QueueInv, QueueApart
    <3>2. CASE keyOf[q] = k /\ n \in hand[p] /\ q # p
      <4>1. n \in HasMsg(q) /\ n \in HasMsg(p)
        BY <1>3, <1>4, <2>1, <3>2
      <4>2. QED BY <1>0, <3>2, <4>1 DEF QueueInv, QueueApart
    <3>3. CASE n \in hand[p] /\ q = p
      <4>1. n \in Range(shown[p]) /\ n \in Nat
        BY <1>3, <1>4, <2>1, <3>3, MsgQueueAssumption
      <4>2. n < n
        BY <3>3, <4>1 DEF QueueInv, QueueOrder
      <4>3. QED BY <4>1, <4>2
    <3>4. QED BY <1>5, <3>1, <3>2, <3>3
  <2>2. ASSUME NEW q \in Procs, NEW r \in Procs, q # r, keyOf[q] = keyOf[r]
        PROVE  HasMsg(q)' \cap HasMsg(r)' = {}
    BY <1>3, <2>2 DEF QueueInv, QueueApart
  <2>3. QED BY <1>1, <2>1, <2>2 DEF QueueApart
<1>13. QED BY <1>7, <1>8, <1>9, <1>10, <1>11, <1>12 DEF QueueInv

LEMMA QueueStep ==
  ASSUME QueueInv, [QueueNext]_queueVars
  PROVE  QueueInv'
<1>1. CASE UNCHANGED queueVars
  <2>1. UNCHANGED <<exists, queue, sent, keyOf, snd, rcv, hand, shown, lost>>
    BY <1>1 DEF queueVars
  <2>2. QueueTypeOK' /\ QueueThreads'
    BY <2>1 DEF QueueInv, QueueTypeOK, QueueThreads
  <2>3. keyOf' \in [Procs -> Keys] /\ \A q \in Procs : keyOf'[q] = keyOf[q]
    BY <2>1 DEF QueueInv, QueueTypeOK
  <2>4. QED BY <2>1, <2>2, <2>3, QueueQuiet DEF QueueInv
<1>2. CASE QueueNext
  <2>1. PICK p \in Procs : \/ QueueStart(p) \/ QueueIsExist(p) \/ QueueNoKey(p) \/ QueueCreate(p)
                           \/ MsgSnd(p) \/ Look(p) \/ MsgRcv(p) \/ ShowMsg(p) \/ QueueKill(p)
    BY <1>2 DEF QueueNext
  <2>2. QED
    BY <2>1, QueueStarts, QueueMakes, QueueLooks, QueueSends, QueueReceives, QueueShows, QueueKills
<1>3. QED BY <1>1, <1>2

LEMMA QueueSafe == QueueSpec => []QueueInv
<1>1. QueueInit => QueueInv
  <2> SUFFICES ASSUME QueueInit PROVE QueueInv
    OBVIOUS
  <2> USE DEF QueueInit
  <2>1. 0 \in 0 .. MaxSent /\ MSGKEY \in Keys /\ 1 .. 0 = {}
    BY MsgQueueAssumption
  <2>2. QueueTypeOK
    <3>1. <<>> \in Seq(1 .. MaxSent)
      OBVIOUS
    <3>2. QED BY <2>1, <3>1 DEF QueueTypeOK
  <2>3. QueueThreads
    BY DEF QueueThreads
  <2>4. Range(<<>>) = {} /\ Increasing(<<>>)
    BY DEF Range, Increasing
  <2>5. \A k \in Keys : InQueue(k) = {} /\ queue[k] = <<>> /\ sent[k] = 0
    BY <2>4 DEF InQueue
  <2>6. \A p \in Procs : HasMsg(p) = {} /\ hand[p] = {} /\ shown[p] = <<>>
    BY <2>4 DEF HasMsg
  <2>7. \A p \in Procs : keyOf[p] = MSGKEY
    OBVIOUS
  <2>8. QueueBound /\ QueueOrder /\ QueueCovered /\ QueueApart
    BY <2>1, <2>4, <2>5, <2>6, <2>7 DEF QueueBound, QueueOrder, QueueCovered, QueueApart
  <2>9. QED BY <2>2, <2>3, <2>8 DEF QueueInv
<1>2. QueueInv /\ [QueueNext]_queueVars => QueueInv'
  BY QueueStep
<1>3. QED BY <1>1, <1>2, PTL DEF QueueSpec

(* In a queue in order, a message has at most one place. *)
LEMMA PlacesInQueue ==
  ASSUME NEW s \in Seq(Nat), Increasing(s), NEW n
  PROVE  Cardinality({ i \in DOMAIN s : s[i] = n }) = IF n \in Range(s) THEN 1 ELSE 0
<1> DEFINE places == { i \in DOMAIN s : s[i] = n }
<1>1. CASE n \in Range(s)
  <2>1. PICK i \in DOMAIN s : s[i] = n
    BY <1>1 DEF Range
  <2>2. \A j \in DOMAIN s : j \in Nat /\ s[j] \in Nat
    OBVIOUS
  <2>3. ASSUME NEW j \in DOMAIN s, s[j] = n PROVE j = i
    <3>1. ~(i < j) /\ ~(j < i)
      BY <2>1, <2>2, <2>3 DEF Increasing
    <3>2. QED BY <2>2, <3>1
  <2>4. places = {i}
    BY <2>1, <2>3
  <2>5. QED BY <1>1, <2>4, FS_Singleton
<1>2. CASE n \notin Range(s)
  <2>1. places = {}
    BY <1>2 DEF Range
  <2>2. QED BY <1>2, <2>1, FS_EmptySet
<1>3. QED BY <1>1, <1>2

(* A message has at most one receiver. *)
LEMMA OneHolder ==
  ASSUME QueueInv, NEW k \in Keys, NEW n
  PROVE  Cardinality(Holders(k, n)) = IF \E p \in Procs : keyOf[p] = k /\ n \in HasMsg(p) THEN 1 ELSE 0
<1>1. Holders(k, n) = { p \in Procs : keyOf[p] = k /\ n \in HasMsg(p) }
  BY DEF Holders, HasMsg, Range
<1>2. CASE \E p \in Procs : keyOf[p] = k /\ n \in HasMsg(p)
  <2>1. PICK p \in Procs : keyOf[p] = k /\ n \in HasMsg(p)
    BY <1>2
  <2>2. ASSUME NEW q \in Procs, keyOf[q] = k, n \in HasMsg(q) PROVE q = p
    BY <2>1, <2>2 DEF QueueInv, QueueApart
  <2>3. Holders(k, n) = {p}
    BY <1>1, <2>1, <2>2
  <2>4. QED BY <1>2, <2>3, FS_Singleton
<1>3. CASE ~ \E p \in Procs : keyOf[p] = k /\ n \in HasMsg(p)
  <2>1. Holders(k, n) = {}
    BY <1>1, <1>3
  <2>2. QED BY <1>3, <2>1, FS_EmptySet
<1>4. QED BY <1>2, <1>3

LEMMA QueueKept ==
  ASSUME QueueInv
  PROVE  QueueKeeps
<1>1. ASSUME NEW k \in Keys, NEW n \in 1 .. sent[k]
      PROVE  Cardinality({ i \in DOMAIN queue[k] : queue[k][i] = n })
             + Cardinality(Holders(k, n)) + (IF <<n, k>> \in lost THEN 1 ELSE 0) = 1
  <2>1. queue[k] \in Seq(Nat) /\ Increasing(queue[k]) /\ n \in Nat
    <3>1. sent[k] \in Nat
      BY QueueTypes DEF QueueInv
    <3>2. QED BY <3>1, QueueTypes DEF QueueInv, QueueOrder
  <2>2. Cardinality({ i \in DOMAIN queue[k] : queue[k][i] = n }) = IF n \in InQueue(k) THEN 1 ELSE 0
    BY <2>1, PlacesInQueue DEF InQueue
  <2> DEFINE received == \E p \in Procs : keyOf[p] = k /\ n \in HasMsg(p)
  <2>3. Cardinality(Holders(k, n)) = IF received THEN 1 ELSE 0
    BY OneHolder
  <2>4. n \in InQueue(k) \/ <<n, k>> \in lost \/ received
    BY DEF QueueInv, QueueCovered
  <2>5. received => n \notin InQueue(k) /\ <<n, k>> \notin lost
    <3>1. ASSUME NEW p \in Procs, keyOf[p] = k, n \in HasMsg(p)
          PROVE  n \notin InQueue(k) /\ <<n, k>> \notin lost
      <4>1. n \in InQueue(k) => n < n
        BY <3>1 DEF QueueInv, QueueOrder
      <4>2. QED BY <2>1, <3>1, <4>1 DEF QueueInv, QueueApart
    <3>2. QED BY <3>1
  <2>6. ~(n \in InQueue(k) /\ <<n, k>> \in lost)
    <3>1. n \in InQueue(k) /\ <<n, k>> \in lost => n < n
      BY <2>1 DEF QueueInv, QueueOrder
    <3>2. QED BY <2>1, <3>1
  <2> HIDE DEF received
  <2>7. QED BY <2>2, <2>3, <2>4, <2>5, <2>6
<1>2. \A p \in Procs : \A i, j \in DOMAIN shown[p] : i < j => shown[p][i] < shown[p][j]
  BY DEF QueueInv, QueueOrder, Increasing
<1>3. \A p \in Procs : rcv[p] = "look" /\ ProgramOf[p] = "main3" => keyOf[p] \in exists
  BY DEF QueueInv, QueueThreads
<1>4. QED BY <1>1, <1>2, <1>3 DEF QueueKeeps

LEMMA QueueRuns == ProgramsSpec => QueueSpec
<1>1. ProgramsInit => QueueInit
  BY DEF ProgramsInit
<1>2. [ProgramsNext]_programVars => [QueueNext]_queueVars
  BY DEF ProgramsNext, programVars
<1>3. QED BY <1>1, <1>2, PTL DEF ProgramsSpec, QueueSpec

(***************************************************************************)
(* queue.c:13-54, mainsrc3/main.c:5-16, mloop.c:18-37.  For any number of  *)
(* processes, queues and messages: whoever creates a queue, and whoever is *)
(* killed where, every message sent is at exactly one place, the queue,    *)
(* one receiver or the lost ones; no receiver shows an earlier message     *)
(* after a later one; mainsrc3's thread finds the queue main created.      *)
(***************************************************************************)
THEOREM QueueKeepsAll == ProgramsSpec => []QueueKeeps
<1>1. QueueInv => QueueKeeps
  BY QueueKept
<1>2. QED BY <1>1, QueueRuns, QueueSafe, PTL

-----------------------------------------------------------------------------
(***************************************************************************)
(* FifoPair.                                                               *)
(***************************************************************************)
SetUp == {"access", "rm", "mkfifo", "run"}

(* The writing thread lives no longer than main, the child is started by
   main; a shared memory without its size is a later instance's. *)
FifoThreads == \A i \in Instances :
  /\ pc[i] # "run" => wfifo[i] = "off"
  /\ pc[i] \notin {"run", "end"} => rfifo[i] = "off"
  /\ pc[i] # "off" => \A j \in Instances : j < i => pc[j] # "off"
  /\ ~shm /\ pc[i] \in SetUp => \E j \in Instances : j > i /\ pc[j] # "off"

(* What an instance finds under the name while no other is opening. *)
NameFound(i) ==
  /\ pc[i] = "mkfifo" => name = 0
  /\ wfifo[i] = "open" \/ rfifo[i] \in {"size", "open"} => name = i
  /\ wfifo[i] \in {"wait", "write"} => wpipe[i] = i
  /\ rfifo[i] \in {"wait", "read"} => rpipe[i] = i
  /\ wfifo[i] = "write" => rfifo[i] \in {"wait", "read", "end"}

FifoNames == ~overlap => \A i \in Instances :
  /\ NameFound(i)
  /\ \A j \in Instances : Opening(i) /\ Opening(j) => i = j

(* What a child has shown, and then what is in the pipe, is what its parent
   has written. *)
FifoData == ~overlap => \A i \in Instances : got[i] \o pipe[i] = [n \in 1 .. wrote[i] |-> <<i, n>>]

FifoInv == FifoTypeOK /\ FifoThreads /\ FifoNames /\ FifoData /\ FifoEndsForCause

(* The parts of the type invariant that the arguments below count with. *)
LEMMA FifoTypes ==
  ASSUME FifoTypeOK, NEW i \in Instances
  PROVE  /\ got[i] \in Seq(Instances \X (1 .. MaxWrites))
         /\ pipe[i] \in Seq(Instances \X (1 .. MaxWrites))
         /\ wrote[i] \in Nat
<1>1. wrote \in [Instances -> 0 .. MaxWrites]
  BY DEF FifoTypeOK
<1>2. wrote[i] \in Nat
  BY <1>1, FifoAssumption
<1>3. QED BY <1>2 DEF FifoTypeOK

(* One instance takes a step: what it must show for all. *)
LEMMA FifoOne ==
  ASSUME FifoInv, NEW i \in Instances,
         \A j \in Instances \ {i} : /\ pc'[j] = pc[j] /\ wfifo'[j] = wfifo[j] /\ rfifo'[j] = rfifo[j]
                                    /\ wpipe'[j] = wpipe[j] /\ rpipe'[j] = rpipe[j],
         pc[i] # "off", pc'[i] # "off",
         pc'[i] # "run" => wfifo'[i] = "off",
         pc'[i] \notin {"run", "end"} => rfifo'[i] = "off",
         ~shm' => ~shm,
         ~shm' /\ pc'[i] \in SetUp => pc[i] \in SetUp,
         overlap' = overlap,
         Opening(i)' => Opening(i),
         name' = name \/ Opening(i),
         ~overlap => NameFound(i)'
  PROVE  FifoThreads' /\ FifoNames'
<1>1. \A j \in Instances : pc[j] # "off" <=> pc'[j] # "off"
  OBVIOUS
<1>2. FifoThreads'
  <2>1. SUFFICES ASSUME NEW j \in Instances
                 PROVE  /\ pc'[j] # "run" => wfifo'[j] = "off"
                        /\ pc'[j] \notin {"run", "end"} => rfifo'[j] = "off"
                        /\ pc'[j] # "off" => \A l \in Instances : l < j => pc'[l] # "off"
                        /\ ~shm' /\ pc'[j] \in SetUp => \E l \in Instances : l > j /\ pc'[l] # "off"
    BY DEF FifoThreads
  <2>2. ~shm' /\ pc'[j] \in SetUp => ~shm /\ pc[j] \in SetUp
    OBVIOUS
  <2>3. ~shm /\ pc[j] \in SetUp => \E l \in Instances : l > j /\ pc[l] # "off"
    BY DEF FifoInv, FifoThreads
  <2>4. pc[j] # "off" => \A l \in Instances : l < j => pc[l] # "off"
    BY DEF FifoInv, FifoThreads
  <2>5. /\ pc'[j] # "run" => wfifo'[j] = "off"
        /\ pc'[j] \notin {"run", "end"} => rfifo'[j] = "off"
    BY DEF FifoInv, FifoThreads
  <2>6. QED BY <1>1, <2>2, <2>3, <2>4, <2>5
<1>3. FifoNames'
  <2>1. SUFFICES ASSUME ~overlap, NEW j \in Instances
                 PROVE  /\ NameFound(j)'
                        /\ \A l \in Instances : Opening(j)' /\ Opening(l)' => j = l
    BY DEF FifoNames
  <2>2. \A l \in Instances : Opening(l)' => Opening(l)
    BY DEF Opening
  <2>3. \A l \in Instances : Opening(j) /\ Opening(l) => j = l
    BY <2>1 DEF FifoInv, FifoNames
  <2>4. NameFound(j)'
    <3>1. CASE j = i
      BY <2>1, <3>1
    <3>2. CASE j # i
      <4>1. NameFound(j)
        BY <2>1 DEF FifoInv, FifoNames
      <4>2. Opening(j) => name' = name
        BY <2>3, <3>2
      <4>3. QED BY <3>2, <4>1, <4>2 DEF NameFound, Opening
    <3>3. QED BY <3>1, <3>2
  <2>5. QED BY <2>2, <2>3, <2>4
<1>4. QED BY <1>2, <1>3

(* The causes of earlier ends remain. *)
LEMMA FifoCauses ==
  ASSUME FifoInv, died' = died, overlap => overlap',
         \A j \in Instances : pc[j] # "off" => pc'[j] # "off",
         \A j \in Instances : rfifo[j] = "end" => rfifo'[j] = "end"
  PROVE  FifoEndsForCause'
BY DEF FifoInv, FifoEndsForCause

LEMMA FifoShmOpens ==
  ASSUME FifoInv, NEW i \in Instances, ShmOpen(i)
  PROVE  FifoInv'
<1>1. /\ pc[i] = "off" /\ \A j \in Instances : j < i => pc[j] # "off"
      /\ shm' = FALSE /\ pc' = [pc EXCEPT ![i] = "size"]
      /\ overlap' = (overlap \/ \E j \in Instances : Opening(j))
      /\ UNCHANGED <<name, died, wfifo, wpipe, rfifo, rpipe, pipe, wrote, got>>
  BY DEF ShmOpen
<1>2. pc'[i] = "size" /\ \A j \in Instances \ {i} : pc'[j] = pc[j]
  BY <1>1 DEF FifoInv, FifoTypeOK
<1>3. FifoTypeOK'
  BY <1>1 DEF FifoInv, FifoTypeOK
<1>4. wfifo[i] = "off" /\ rfifo[i] = "off"
  BY <1>1 DEF FifoInv, FifoThreads
<1>5. FifoThreads'
  <2>1. SUFFICES ASSUME NEW j \in Instances
                 PROVE  /\ pc'[j] # "run" => wfifo[j] = "off"
                        /\ pc'[j] \notin {"run", "end"} => rfifo[j] = "off"
                        /\ pc'[j] # "off" => \A l \in Instances : l < j => pc'[l] # "off"
                        /\ pc'[j] \in SetUp => \E l \in Instances : l > j /\ pc'[l] # "off"
    BY <1>1 DEF FifoThreads
  <2>2. CASE j = i
    BY <1>1, <1>2, <1>4, <2>2 DEF SetUp
  <2>3. CASE j # i
    <3>1. pc[j] # "off" => \A l \in Instances : l < j => pc[l] # "off"
      BY DEF FifoInv, FifoThreads
    <3>2. pc[j] \in SetUp => i > j
      <4>1. i \in Nat /\ j \in Nat
        BY FifoAssumption DEF Instances
      <4>2. QED BY <1>1, <2>3, <3>1, <4>1 DEF SetUp
    <3>3. QED BY <1>2, <2>3, <3>1, <3>2 DEF FifoInv, FifoThreads
  <2>4. QED BY <2>2, <2>3
<1>6. FifoNames'
  <2>1. SUFFICES ASSUME ~overlap', NEW j \in Instances
                 PROVE  /\ NameFound(j)'
                        /\ \A l \in Instances : Opening(j)' /\ Opening(l)' => j = l
    BY DEF FifoNames
  <2>2. ~overlap /\ \A l \in Instances : ~Opening(l)
    BY <1>1, <2>1
  <2>3. \A l \in Instances \ {i} : ~Opening(l)'
    BY <1>1, <1>2, <2>2 DEF Opening
  <2>4. NameFound(j)
    BY <2>2 DEF FifoInv, FifoNames
  <2>5. NameFound(j)'
    BY <1>1, <1>2, <2>4 DEF NameFound
  <2>6. QED BY <2>3, <2>5
<1>7. FifoData'
  BY <1>1 DEF FifoInv, FifoData
<1>8. FifoEndsForCause'
  BY <1>1, <1>2, FifoCauses
<1>9. QED BY <1>3, <1>5, <1>6, <1>7, <1>8 DEF FifoInv

(* main before its threads: the shared memory, and the pipe. *)
LEMMA FifoSetsUp ==
  ASSUME FifoInv, NEW i \in Instances, ShmSize(i) \/ FifoAccess(i) \/ FifoRm(i)
  PROVE  FifoInv'
<1>1. UNCHANGED <<died, wfifo, wpipe, rfifo, rpipe, pipe, wrote, got, overlap>>
  BY DEF ShmSize, FifoAccess, FifoRm
<1>2. /\ pc[i] \in {"size", "access", "rm"} /\ pc'[i] \in {"access", "rm", "mkfifo"}
      /\ \A j \in Instances \ {i} : pc'[j] = pc[j]
      /\ pc' \in [Instances -> {"off", "size", "access", "rm", "mkfifo", "run", "end"}]
      /\ shm' \in BOOLEAN /\ (~shm' => ~shm /\ pc[i] # "size")
      /\ name' \in {name, 0}
      /\ pc'[i] = "mkfifo" => name' = 0
  <2>1. pc \in [Instances -> {"off", "size", "access", "rm", "mkfifo", "run", "end"}] /\ shm \in BOOLEAN
    BY DEF FifoInv, FifoTypeOK
  <2>2. CASE ShmSize(i)
    BY <2>1, <2>2, SMTT(30) DEF ShmSize
  <2>3. CASE FifoAccess(i)
    BY <2>1, <2>3, SMTT(30) DEF FifoAccess
  <2>4. CASE FifoRm(i)
    BY <2>1, <2>4, SMTT(30) DEF FifoRm
  <2>5. QED BY <2>2, <2>3, <2>4
<1>3. wfifo[i] = "off" /\ rfifo[i] = "off"
  BY <1>2 DEF FifoInv, FifoThreads
<1>4. FifoTypeOK'
  BY <1>1, <1>2 DEF FifoInv, FifoTypeOK
<1>5. Opening(i)
  BY <1>2 DEF Opening
<1>6. NameFound(i)'
  BY <1>1, <1>2, <1>3 DEF NameFound
<1>7. FifoThreads' /\ FifoNames'
  <2>1. ~shm' => ~shm
    BY <1>2
  <2>2. ~shm' /\ pc'[i] \in SetUp => pc[i] \in SetUp
    BY <1>2 DEF SetUp
  <2>3. \A j \in Instances \ {i} : /\ pc'[j] = pc[j] /\ wfifo'[j] = wfifo[j] /\ rfifo'[j] = rfifo[j]
                                   /\ wpipe'[j] = wpipe[j] /\ rpipe'[j] = rpipe[j]
    BY <1>1, <1>2
  <2>4. wfifo'[i] = "off" /\ rfifo'[i] = "off" /\ pc[i] # "off" /\ pc'[i] # "off" /\ overlap' = overlap
    BY <1>1, <1>2, <1>3
  <2>5. QED BY <1>5, <1>6, <2>1, <2>2, <2>3, <2>4, FifoOne
<1>8. FifoData'
  BY <1>1 DEF FifoInv, FifoData
<1>9. FifoEndsForCause'
  BY <1>1, <1>2, FifoCauses
<1>10. QED BY <1>4, <1>7, <1>8, <1>9 DEF FifoInv

(* An instance ends, with its writing thread, for a cause. *)
LEMMA FifoEnded ==
  ASSUME FifoInv, NEW i \in Instances, NEW why \in {"kill", "bus", "pipe", "absent", "exists"},
         pc[i] # "off", Ends(i, why),
         UNCHANGED <<shm, name, wpipe, rfifo, rpipe, pipe, wrote, got, overlap>>,
         why = "bus" => \E j \in Instances : j > i /\ pc[j] # "off",
         why = "pipe" => rfifo[i] = "end" \/ overlap,
         why \in {"absent", "exists"} => overlap
  PROVE  FifoInv'
<1>1. /\ pc' = [pc EXCEPT ![i] = "end"] /\ wfifo' = [wfifo EXCEPT ![i] = "off"]
      /\ died' = [died EXCEPT ![i] = why]
  BY DEF Ends
<1>2. /\ pc'[i] = "end" /\ wfifo'[i] = "off" /\ died'[i] = why
      /\ \A j \in Instances \ {i} : pc'[j] = pc[j] /\ wfifo'[j] = wfifo[j] /\ died'[j] = died[j]
  BY <1>1 DEF FifoInv, FifoTypeOK
<1>3. FifoTypeOK'
  <2>1. /\ pc' \in [Instances -> {"off", "size", "access", "rm", "mkfifo", "run", "end"}]
        /\ wfifo' \in [Instances -> {"off", "open", "wait", "write"}]
        /\ died' \in [Instances -> {"", "kill", "bus", "pipe", "absent", "exists"}]
    BY <1>1 DEF FifoInv, FifoTypeOK
  <2>2. \A j \in Instances : wfifo'[j] \in {"wait", "write"} => wpipe'[j] # 0
    BY <1>2 DEF FifoInv, FifoTypeOK
  <2>3. QED BY <2>1, <2>2 DEF FifoInv, FifoTypeOK
<1>4. FifoThreads' /\ FifoNames'
  <2>1. Opening(i)' => Opening(i)
    BY <1>2 DEF Opening
  <2>2. ~overlap => NameFound(i)'
    BY <1>2 DEF FifoInv, FifoNames, NameFound
  <2>3. pc'[i] = "end" /\ wfifo'[i] = "off" /\ pc'[i] \notin SetUp
    BY <1>2 DEF SetUp
  <2>4. \A j \in Instances \ {i} : /\ pc'[j] = pc[j] /\ wfifo'[j] = wfifo[j] /\ rfifo'[j] = rfifo[j]
                                   /\ wpipe'[j] = wpipe[j] /\ rpipe'[j] = rpipe[j]
    BY <1>2
  <2>5. QED BY <2>1, <2>2, <2>3, <2>4, FifoOne
<1>5. FifoData'
  BY DEF FifoInv, FifoData
<1>6. FifoEndsForCause'
  <2>1. SUFFICES ASSUME NEW j \in Instances
                 PROVE  /\ died'[j] = "bus" => \E l \in Instances : l > j /\ pc'[l] # "off"
                        /\ died'[j] = "pipe" => rfifo[j] = "end" \/ overlap
                        /\ died'[j] \in {"absent", "exists"} => overlap
    BY DEF FifoEndsForCause
  <2>2. \A l \in Instances : pc[l] # "off" => pc'[l] # "off"
    BY <1>2
  <2>3. CASE j = i
    BY <1>2, <2>2, <2>3
  <2>4. CASE j # i
    BY <1>2, <2>2, <2>4 DEF FifoInv, FifoEndsForCause
  <2>5. QED BY <2>3, <2>4
<1>7. QED BY <1>3, <1>4, <1>5, <1>6 DEF FifoInv

(* A step of the threads of one instance, which moves no message. *)
LEMMA FifoThreadStep ==
  ASSUME FifoInv, NEW i \in Instances,
         UNCHANGED <<died, pipe, wrote, got, overlap>>,
         FifoTypeOK',
         \A j \in Instances \ {i} : /\ pc'[j] = pc[j] /\ wfifo'[j] = wfifo[j] /\ rfifo'[j] = rfifo[j]
                                    /\ wpipe'[j] = wpipe[j] /\ rpipe'[j] = rpipe[j],
         pc[i] # "off", pc'[i] # "off",
         pc'[i] # "run" => wfifo'[i] = "off",
         pc'[i] \notin {"run", "end"} => rfifo'[i] = "off",
         ~shm' => ~shm,
         ~shm' /\ pc'[i] \in SetUp => pc[i] \in SetUp,
         Opening(i)' => Opening(i),
         name' = name \/ Opening(i),
         ~overlap => NameFound(i)',
         rfifo[i] = "end" => rfifo'[i] = "end"
  PROVE  FifoInv'
<1>1. FifoThreads' /\ FifoNames'
  BY FifoOne
<1>2. FifoData'
  BY DEF FifoInv, FifoData
<1>3. FifoEndsForCause'
  <2>1. \A j \in Instances : pc[j] # "off" => pc'[j] # "off"
    OBVIOUS
  <2>2. \A j \in Instances : rfifo[j] = "end" => rfifo'[j] = "end"
    OBVIOUS
  <2>3. QED BY <2>1, <2>2, FifoCauses
<1>4. QED BY <1>1, <1>2, <1>3 DEF FifoInv

LEMMA FifoMakes ==
  ASSUME FifoInv, NEW i \in Instances, MkFifo(i)
  PROVE  FifoInv'
<1>1. /\ pc[i] = "mkfifo" /\ Opening(i) /\ wfifo[i] = "off" /\ rfifo[i] = "off"
      /\ UNCHANGED <<shm, wpipe, rpipe, pipe, wrote, got, overlap>>
  BY DEF MkFifo, FifoInv, FifoThreads, Opening
<1>2. CASE name = 0
  <2>1. /\ name' = i /\ pc' = [pc EXCEPT ![i] = "run"] /\ wfifo' = [wfifo EXCEPT ![i] = "open"]
        /\ rfifo' = [rfifo EXCEPT ![i] = "size"] /\ died' = died
    BY <1>2 DEF MkFifo
  <2>2. /\ pc'[i] = "run" /\ wfifo'[i] = "open" /\ rfifo'[i] = "size"
        /\ \A j \in Instances \ {i} : pc'[j] = pc[j] /\ wfifo'[j] = wfifo[j] /\ rfifo'[j] = rfifo[j]
    BY <2>1 DEF FifoInv, FifoTypeOK
  <2>3. FifoTypeOK'
    <3>1. /\ pc' \in [Instances -> {"off", "size", "access", "rm", "mkfifo", "run", "end"}]
          /\ wfifo' \in [Instances -> {"off", "open", "wait", "write"}]
          /\ rfifo' \in [Instances -> {"off", "size", "open", "wait", "read", "end"}]
      BY <2>1 DEF FifoInv, FifoTypeOK
    <3>2. /\ \A j \in Instances : wfifo'[j] \in {"wait", "write"} => wpipe'[j] # 0
          /\ \A j \in Instances : rfifo'[j] \in {"wait", "read"} => rpipe'[j] # 0
      BY <1>1, <2>2 DEF FifoInv, FifoTypeOK
    <3>3. QED BY <1>1, <2>1, <3>1, <3>2 DEF FifoInv, FifoTypeOK
  <2>4. NameFound(i)'
    BY <2>1, <2>2 DEF NameFound
  <2>5. pc[i] \in SetUp
    BY <1>1 DEF SetUp
  <2>6. \A j \in Instances \ {i} : /\ pc'[j] = pc[j] /\ wfifo'[j] = wfifo[j] /\ rfifo'[j] = rfifo[j]
                                   /\ wpipe'[j] = wpipe[j] /\ rpipe'[j] = rpipe[j]
    BY <1>1, <2>2
  <2>7. pc[i] # "off" /\ pc'[i] = "run" /\ rfifo[i] # "end" /\ shm' = shm /\ died' = died
    BY <1>1, <2>1, <2>2
  <2>8. QED BY <1>1, <2>3, <2>4, <2>5, <2>6, <2>7, FifoThreadStep
<1>3. CASE name # 0
  <2>1. overlap
    BY <1>1, <1>3 DEF FifoInv, FifoNames, NameFound
  <2>2. Ends(i, "exists") /\ name' = name /\ rfifo' = rfifo
    BY <1>3 DEF MkFifo
  <2>3. QED BY <1>1, <2>1, <2>2, FifoEnded
<1>4. QED BY <1>2, <1>3

LEMMA FifoStops ==
  ASSUME FifoInv, NEW i \in Instances, Store(i) \/ Kill(i)
  PROVE  FifoInv'
<1>1. CASE Store(i)
  <2>1. pc[i] = "run" /\ ~shm
    BY <1>1 DEF Store
  <2>2. \E j \in Instances : j > i /\ pc[j] # "off"
    BY <2>1 DEF FifoInv, FifoThreads, SetUp
  <2>3. QED BY <1>1, <2>1, <2>2, FifoEnded DEF Store
<1>2. CASE Kill(i)
  BY <1>2, FifoEnded DEF Kill
<1>3. QED BY <1>1, <1>2

(* The writing thread opens the pipe it finds under the name: while no other
   instance is opening, its own. *)
LEMMA FifoWriterOpens ==
  ASSUME FifoInv, NEW i \in Instances, WriteOpen(i) \/ WriteOpened(i)
  PROVE  FifoInv'
<1>1. /\ wfifo[i] \in {"open", "wait"} /\ pc[i] = "run" /\ Opening(i)
      /\ UNCHANGED <<shm, name, rfifo, rpipe, pipe, wrote, got, overlap>>
  BY DEF WriteOpen, WriteOpened, FifoInv, FifoThreads, Opening
<1>2. ~overlap => NameFound(i)
  BY DEF FifoInv, FifoNames
<1>3. CASE WriteOpen(i) /\ name = 0
  <2>1. overlap
    <3>1. ~overlap => name = i
      BY <1>2, <1>3 DEF WriteOpen, NameFound
    <3>2. i # 0
      BY FifoAssumption DEF Instances
    <3>3. QED BY <1>3, <3>1, <3>2
  <2>2. Ends(i, "absent") /\ wpipe' = wpipe
    BY <1>3 DEF WriteOpen
  <2>3. QED BY <1>1, <2>1, <2>2, FifoEnded
<1>4. CASE WriteOpened(i) \/ name # 0
  <2>1. /\ pc' = pc /\ died' = died
        /\ \/ WriteOpen(i) /\ name # 0 /\ wfifo[i] = "open"
              /\ wfifo' = [wfifo EXCEPT ![i] = "wait"] /\ wpipe' = [wpipe EXCEPT ![i] = name]
           \/ WriteOpened(i) /\ wfifo[i] = "wait" /\ Readers(wpipe[i]) # {}
              /\ wfifo' = [wfifo EXCEPT ![i] = "write"] /\ wpipe' = wpipe
    BY <1>4 DEF WriteOpen, WriteOpened
  <2>2. /\ \/ wfifo[i] = "open" /\ name # 0 /\ wfifo'[i] = "wait" /\ wpipe'[i] = name
           \/ wfifo[i] = "wait" /\ Readers(wpipe[i]) # {} /\ wfifo'[i] = "write" /\ wpipe'[i] = wpipe[i]
        /\ \A j \in Instances \ {i} : wfifo'[j] = wfifo[j] /\ wpipe'[j] = wpipe[j]
        /\ wfifo' \in [Instances -> {"off", "open", "wait", "write"}]
        /\ wpipe' \in [Instances -> Instances \cup {0}]
    <3>1. CASE WriteOpen(i) /\ name # 0 /\ wfifo[i] = "open"
               /\ wfifo' = [wfifo EXCEPT ![i] = "wait"] /\ wpipe' = [wpipe EXCEPT ![i] = name]
      BY <3>1 DEF FifoInv, FifoTypeOK
    <3>2. CASE WriteOpened(i) /\ wfifo[i] = "wait" /\ Readers(wpipe[i]) # {}
               /\ wfifo' = [wfifo EXCEPT ![i] = "write"] /\ wpipe' = wpipe
      BY <3>2 DEF FifoInv, FifoTypeOK
    <3>3. QED BY <2>1, <3>1, <3>2
  <2>3. FifoTypeOK'
    <3>1. \A j \in Instances : wfifo'[j] \in {"wait", "write"} => wpipe'[j] # 0
      BY <2>2 DEF FifoInv, FifoTypeOK
    <3>2. QED BY <1>1, <2>1, <2>2, <3>1 DEF FifoInv, FifoTypeOK
  <2>4. ASSUME ~overlap PROVE NameFound(i)'
    <3>1. wpipe'[i] = i
      BY <1>2, <2>2, <2>4 DEF NameFound
    <3>2. wfifo'[i] = "write" => rfifo[i] \in {"wait", "read"}
      <4>1. SUFFICES ASSUME wfifo[i] = "wait", Readers(wpipe[i]) # {}
                     PROVE  rfifo[i] \in {"wait", "read"}
        BY <2>2
      <4>2. wpipe[i] = i
        BY <1>2, <2>4, <4>1 DEF NameFound
      <4>3. PICK j \in Instances : rfifo[j] \in {"wait", "read"} /\ rpipe[j] = i
        BY <4>1, <4>2 DEF Readers
      <4>4. rpipe[j] = j
        BY <2>4, <4>3 DEF FifoInv, FifoNames, NameFound
      <4>5. QED BY <4>3, <4>4
    <3>3. QED BY <1>1, <1>2, <2>1, <2>2, <2>4, <3>1, <3>2 DEF NameFound
  <2>5. \A j \in Instances \ {i} : /\ pc'[j] = pc[j] /\ wfifo'[j] = wfifo[j] /\ rfifo'[j] = rfifo[j]
                                   /\ wpipe'[j] = wpipe[j] /\ rpipe'[j] = rpipe[j]
    BY <1>1, <2>1, <2>2
  <2>6. pc[i] = "run" /\ pc'[i] = "run" /\ pc[i] \in SetUp
    BY <1>1, <2>1 DEF SetUp
  <2>7. QED BY <1>1, <2>1, <2>3, <2>4, <2>5, <2>6, FifoThreadStep
<1>5. QED BY <1>3, <1>4

(* The child, which opens the pipe as the writing thread does. *)
LEMMA FifoReaderOpens ==
  ASSUME FifoInv, NEW i \in Instances, ChildInit(i) \/ ReadOpen(i) \/ ReadOpened(i) \/ KillChild(i)
  PROVE  FifoInv'
<1>1. UNCHANGED <<name, pc, died, wfifo, wpipe, pipe, wrote, got, overlap>> /\ (shm' = shm \/ shm')
  BY DEF ChildInit, ReadOpen, ReadOpened, KillChild
<1>2. rfifo[i] \in {"size", "open", "wait", "read"} /\ pc[i] \in {"run", "end"}
  BY DEF ChildInit, ReadOpen, ReadOpened, KillChild, FifoInv, FifoThreads, FifoTypeOK
<1>3. /\ \/ rfifo[i] = "size" /\ rfifo'[i] = "open" /\ rpipe'[i] = rpipe[i]
         \/ rfifo[i] = "open" /\ rfifo'[i] = (IF name = 0 THEN "end" ELSE "wait") /\ rpipe'[i] = name
         \/ rfifo[i] = "wait" /\ rfifo'[i] = "read" /\ rpipe'[i] = rpipe[i]
         \/ rfifo'[i] = "end" /\ rpipe'[i] = rpipe[i]
      /\ \A j \in Instances \ {i} : rfifo'[j] = rfifo[j] /\ rpipe'[j] = rpipe[j]
      /\ rfifo' \in [Instances -> {"off", "size", "open", "wait", "read", "end"}]
      /\ rpipe' \in [Instances -> Instances \cup {0}]
      /\ shm' \in BOOLEAN
  <2>1. CASE ChildInit(i)
    BY <2>1 DEF ChildInit, FifoInv, FifoTypeOK
  <2>2. CASE ReadOpen(i)
    BY <2>2 DEF ReadOpen, FifoInv, FifoTypeOK
  <2>3. CASE ReadOpened(i)
    BY <2>3 DEF ReadOpened, FifoInv, FifoTypeOK
  <2>4. CASE KillChild(i)
    BY <2>4 DEF KillChild, FifoInv, FifoTypeOK
  <2>5. QED BY <2>1, <2>2, <2>3, <2>4
<1>4. FifoTypeOK'
  <2>1. \A j \in Instances : rfifo'[j] \in {"wait", "read"} => rpipe'[j] # 0
    BY <1>2, <1>3 DEF FifoInv, FifoTypeOK
  <2>2. QED BY <1>1, <1>3, <2>1 DEF FifoInv, FifoTypeOK
<1>5. ASSUME ~overlap PROVE NameFound(i)'
  <2>1. NameFound(i)
    BY <1>5 DEF FifoInv, FifoNames
  <2>2. QED BY <1>1, <1>2, <1>3, <2>1 DEF NameFound
<1>6. Opening(i)' => Opening(i)
  BY <1>1, <1>2, <1>3 DEF Opening
<1>7. pc[i] = pc'[i] /\ (pc'[i] # "run" => wfifo'[i] = "off")
  BY <1>1 DEF FifoInv, FifoThreads
<1>8. \A j \in Instances \ {i} : /\ pc'[j] = pc[j] /\ wfifo'[j] = wfifo[j] /\ rfifo'[j] = rfifo[j]
                                 /\ wpipe'[j] = wpipe[j] /\ rpipe'[j] = rpipe[j]
  BY <1>1, <1>3
<1>9. QED BY <1>1, <1>2, <1>4, <1>5, <1>6, <1>7, <1>8, FifoThreadStep

LEMMA FifoNothing ==
  /\ <<>> \o <<>> = <<>>
  /\ \A i : [n \in 1 .. 0 |-> <<i, n>>] = <<>>
  /\ 0 \in 0 .. MaxWrites
  /\ <<>> \in Seq(Instances \X (1 .. MaxWrites))
<1>1. <<>> \in Seq(Nat)
  BY EmptySeq
<1>2. <<>> \o <<>> = <<>>
  BY <1>1, ConcatEmptySeq
<1>3. 1 .. 0 = {}
  OBVIOUS
<1>4. \A i : [n \in 1 .. 0 |-> <<i, n>>] = <<>>
  BY <1>3
<1>5. 0 \in 0 .. MaxWrites
  BY FifoAssumption
<1>6. <<>> \in Seq(Instances \X (1 .. MaxWrites))
  BY EmptySeq
<1>7. QED BY <1>2, <1>4, <1>5, <1>6

LEMMA FifoWrites ==
  ASSUME FifoInv, NEW i \in Instances, Write(i)
  PROVE  FifoInv'
<1>1. wfifo[i] = "write" /\ pc[i] = "run" /\ UNCHANGED <<shm, name, wpipe, rfifo, rpipe, got, overlap>>
  BY DEF Write, FifoInv, FifoThreads
<1>2. ~overlap => wpipe[i] = i /\ rfifo[i] \in {"wait", "read", "end"}
  BY <1>1 DEF FifoInv, FifoNames, NameFound
<1>3. wpipe[i] \in Instances
  BY <1>1 DEF FifoInv, FifoTypeOK
<1>4. CASE Readers(wpipe[i]) = {}
  <2>1. Ends(i, "pipe") /\ pipe' = pipe /\ wrote' = wrote
    BY <1>4 DEF Write
  <2>2. rfifo[i] = "end" \/ overlap
    <3>1. ASSUME ~overlap, rfifo[i] \in {"wait", "read"} PROVE FALSE
      <4>1. rpipe[i] = i /\ wpipe[i] = i
        BY <1>2, <3>1 DEF FifoInv, FifoNames, NameFound
      <4>2. i \in Readers(wpipe[i])
        BY <3>1, <4>1 DEF Readers
      <4>3. QED BY <1>4, <4>2
    <3>2. QED BY <1>2, <3>1
  <2>3. QED BY <1>1, <2>1, <2>2, FifoEnded
<1>5. CASE Readers(wpipe[i]) # {}
  <2>0. PICK w \in Instances, e \in 1 .. MaxWrites : w = wpipe[i] /\ e = wrote[i] + 1
    <3>1. wrote[i] < MaxWrites /\ wrote[i] \in 0 .. MaxWrites
      BY <1>5 DEF Write, FifoInv, FifoTypeOK
    <3>2. wrote[i] + 1 \in 1 .. MaxWrites
      BY <3>1, FifoAssumption
    <3>3. QED BY <1>3, <3>2
  <2>1. /\ pc' = pc /\ died' = died /\ wfifo' = wfifo
        /\ wrote' = [wrote EXCEPT ![i] = e]
        /\ pipe' = [pipe EXCEPT ![w] = Append(@, <<i, e>>)]
    <3>1. pc' = pc /\ died' = died /\ wfifo' = wfifo /\ wrote' = [wrote EXCEPT ![i] = e]
      BY <1>5, <2>0 DEF Write
    <3>2. wrote'[i] = e
      BY <3>1 DEF FifoInv, FifoTypeOK
    <3>3. QED BY <1>5, <2>0, <3>1, <3>2 DEF Write
  <2>2. FifoTypeOK'
    <3>1. pipe[w] \in Seq(Instances \X (1 .. MaxWrites)) /\ <<i, e>> \in Instances \X (1 .. MaxWrites)
      BY DEF FifoInv, FifoTypeOK
    <3>2. Append(pipe[w], <<i, e>>) \in Seq(Instances \X (1 .. MaxWrites))
      BY <3>1, AppendProperties
    <3>3. pipe' \in [Instances -> Seq(Instances \X (1 .. MaxWrites))]
      BY <2>1, <3>2 DEF FifoInv, FifoTypeOK
    <3>4. e \in 0 .. MaxWrites
      BY FifoAssumption
    <3>5. wrote' \in [Instances -> 0 .. MaxWrites]
      BY <2>1, <3>4 DEF FifoInv, FifoTypeOK
    <3>6. QED BY <1>1, <2>1, <3>3, <3>5 DEF FifoInv, FifoTypeOK
  <2>3. FifoThreads' /\ FifoNames' /\ FifoEndsForCause'
    BY <1>1, <2>1 DEF FifoInv, FifoThreads, FifoNames, FifoEndsForCause, NameFound, Opening
  <2>4. FifoData'
    <3>1. SUFFICES ASSUME ~overlap, NEW j \in Instances
                   PROVE  got[j] \o pipe'[j] = [n \in 1 .. wrote'[j] |-> <<j, n>>]
      BY <1>1 DEF FifoData
    <3>2. got[j] \o pipe[j] = [n \in 1 .. wrote[j] |-> <<j, n>>]
      BY <3>1 DEF FifoInv, FifoData
    <3>3. CASE j # i
      BY <1>2, <2>0, <2>1, <3>1, <3>2, <3>3 DEF FifoInv, FifoTypeOK
    <3>4. CASE j = i
      <4>1. pipe'[i] = Append(pipe[i], <<i, e>>) /\ wrote'[i] = e
        BY <1>2, <2>0, <2>1, <3>1 DEF FifoInv, FifoTypeOK
      <4>2. /\ got[i] \in Seq(Instances \X (1 .. MaxWrites))
            /\ pipe[i] \in Seq(Instances \X (1 .. MaxWrites))
            /\ <<i, e>> \in Instances \X (1 .. MaxWrites)
        BY DEF FifoInv, FifoTypeOK
      <4>3. got[i] \o Append(pipe[i], <<i, e>>) = Append(got[i] \o pipe[i], <<i, e>>)
        <5> DEFINE M == Instances \X (1 .. MaxWrites)
                   g == got[i]
                   q == pipe[i]
                   m == <<i, e>>
        <5>1. g \in Seq(M) /\ q \in Seq(M) /\ m \in M
          BY <4>2
        <5> HIDE DEF M, g, q, m
        <5>2. g \o Append(q, m) = Append(g \o q, m)
          BY <5>1, ConcatAppend
        <5>3. QED BY <5>2 DEF g, q, m
      <4>4. wrote[i] \in Nat /\ e = wrote[i] + 1
        BY <2>0, FifoTypes DEF FifoInv
      <4>5. Append([n \in 1 .. wrote[i] |-> <<i, n>>], <<i, e>>) = [n \in 1 .. e |-> <<i, n>>]
        BY <4>4
      <4>6. QED <5>1. got[i] \o pipe[i] = [n \in 1 .. wrote[i] |-> <<i, n>>]
        BY <3>2, <3>4, Zenon
      <5>2. got[i] \o pipe'[i] = [n \in 1 .. wrote'[i] |-> <<i, n>>]
        BY <4>1, <4>3, <4>5, <5>1, Zenon
      <5>3. QED BY <3>4, <5>2, Zenon
    <3>5. QED BY <3>3, <3>4
  <2>5. QED BY <2>2, <2>3, <2>4 DEF FifoInv
<1>6. QED BY <1>4, <1>5

LEMMA FifoReads ==
  ASSUME FifoInv, NEW i \in Instances, Read(i)
  PROVE  FifoInv'
<1>0. PICK r \in Instances : r = rpipe[i]
  BY DEF Read, FifoInv, FifoTypeOK
<1>1. /\ UNCHANGED <<shm, name, pc, died, wfifo, wpipe, rfifo, rpipe, wrote, overlap>>
      /\ rfifo[i] = "read"
      /\ got' = [got EXCEPT ![i] = @ \o pipe[r]]
      /\ pipe' = [pipe EXCEPT ![r] = <<>>]
  BY <1>0 DEF Read
<1>2. /\ pipe[r] \in Seq(Instances \X (1 .. MaxWrites))
      /\ got[i] \in Seq(Instances \X (1 .. MaxWrites))
      /\ got[i] \o pipe[r] \in Seq(Instances \X (1 .. MaxWrites))
      /\ <<>> \in Seq(Instances \X (1 .. MaxWrites))
  <2>1. /\ pipe[r] \in Seq(Instances \X (1 .. MaxWrites))
        /\ got[i] \in Seq(Instances \X (1 .. MaxWrites))
    BY FifoTypes DEF FifoInv
  <2>2. got[i] \o pipe[r] \in Seq(Instances \X (1 .. MaxWrites))
    BY <2>1, ConcatProperties
  <2>3. QED BY <2>1, <2>2, EmptySeq
<1>3. FifoTypeOK'
  <2>1. got' \in [Instances -> Seq(Instances \X (1 .. MaxWrites))]
    BY <1>1, <1>2 DEF FifoInv, FifoTypeOK
  <2>2. pipe' \in [Instances -> Seq(Instances \X (1 .. MaxWrites))]
    BY <1>1, <1>2 DEF FifoInv, FifoTypeOK
  <2>3. QED BY <1>1, <2>1, <2>2 DEF FifoInv, FifoTypeOK
<1>4. FifoThreads' /\ FifoNames' /\ FifoEndsForCause'
  BY <1>1 DEF FifoInv, FifoThreads, FifoNames, FifoEndsForCause, NameFound, Opening
<1>5. FifoData'
  <2>1. SUFFICES ASSUME ~overlap, NEW j \in Instances
                 PROVE  got'[j] \o pipe'[j] = [n \in 1 .. wrote[j] |-> <<j, n>>]
    BY <1>1 DEF FifoData
  <2>2. r = i
    BY <1>0, <1>1, <2>1 DEF FifoInv, FifoNames, NameFound
  <2>3. got[j] \o pipe[j] = [n \in 1 .. wrote[j] |-> <<j, n>>]
    BY <2>1 DEF FifoInv, FifoData
  <2>4. CASE j # i
    BY <1>1, <2>2, <2>3, <2>4 DEF FifoInv, FifoTypeOK
  <2>5. CASE j = i
    <3>1. got'[i] = got[i] \o pipe[i] /\ pipe'[i] = <<>>
      BY <1>1, <2>2 DEF FifoInv, FifoTypeOK
    <3>2. got[i] \o pipe[i] \in Seq(Instances \X (1 .. MaxWrites))
      BY <1>2, <2>2
    <3>3. (got[i] \o pipe[i]) \o <<>> = got[i] \o pipe[i]
      BY <3>2, ConcatEmptySeq
    <3>4. QED BY <2>3, <2>5, <3>1, <3>3
  <2>6. QED BY <2>4, <2>5
<1>6. QED BY <1>3, <1>4, <1>5 DEF FifoInv

LEMMA FifoStep ==
  ASSUME FifoInv, [FifoNext]_fifoVars
  PROVE  FifoInv'
<1>1. CASE UNCHANGED fifoVars
  <2>1. FifoTypeOK'
    BY <1>1 DEF fifoVars, FifoInv, FifoTypeOK
  <2>2. FifoThreads' /\ FifoEndsForCause'
    BY <1>1 DEF fifoVars, FifoInv, FifoThreads, FifoEndsForCause
  <2>3. FifoNames'
    BY <1>1 DEF fifoVars, FifoInv, FifoNames, NameFound, Opening
  <2>4. FifoData'
    BY <1>1 DEF fifoVars, FifoInv, FifoData
  <2>5. QED BY <2>1, <2>2, <2>3, <2>4 DEF FifoInv
<1>2. CASE FifoNext
  <2>1. PICK i \in Instances :
          \/ ShmOpen(i) \/ ShmSize(i) \/ FifoAccess(i) \/ FifoRm(i) \/ MkFifo(i) \/ Store(i) \/ Kill(i)
          \/ WriteOpen(i) \/ WriteOpened(i) \/ Write(i)
          \/ ChildInit(i) \/ ReadOpen(i) \/ ReadOpened(i) \/ Read(i) \/ KillChild(i)
    BY <1>2 DEF FifoNext
  <2>2. QED
    BY <2>1, FifoShmOpens, FifoSetsUp, FifoMakes, FifoStops, FifoWriterOpens, FifoWrites,
       FifoReaderOpens, FifoReads
<1>3. QED BY <1>1, <1>2

LEMMA FifoSafe == FifoSpec => []FifoInv
<1>1. FifoInit => FifoInv
  <2> SUFFICES ASSUME FifoInit PROVE FifoInv
    OBVIOUS
  <2> USE DEF FifoInit
  <2>1. FifoTypeOK
    BY FifoNothing DEF FifoTypeOK
  <2>2. FifoThreads /\ FifoEndsForCause
    BY DEF FifoThreads, FifoEndsForCause, SetUp
  <2>3. FifoNames
    BY DEF FifoNames, NameFound, Opening
  <2>4. FifoData
    <3>2. ASSUME NEW i \in Instances PROVE got[i] \o pipe[i] = [n \in 1 .. wrote[i] |-> <<i, n>>]
      <4>1. got[i] = <<>> /\ pipe[i] = <<>> /\ wrote[i] = 0
        OBVIOUS
      <4>2. QED BY <4>1, FifoNothing
    <3>3. QED BY <3>2 DEF FifoData
  <2>5. QED BY <2>1, <2>2, <2>3, <2>4 DEF FifoInv
<1>2. FifoInv /\ [FifoNext]_fifoVars => FifoInv'
  BY FifoStep
<1>3. QED BY <1>1, <1>2, PTL DEF FifoSpec

(* What a child has shown is the beginning of what its parent has written. *)
LEMMA FifoOrdered ==
  ASSUME FifoInv
  PROVE  FifoInOrder
<1>1. SUFFICES ASSUME ~overlap, NEW i \in Instances
               PROVE  /\ Len(got[i]) <= wrote[i]
                      /\ \A n \in DOMAIN got[i] : got[i][n] = <<i, n>>
  BY DEF FifoInOrder
<1> DEFINE g == got[i]
           q == pipe[i]
           w == wrote[i]
<1>2. g \o q = [n \in 1 .. w |-> <<i, n>>]
  BY <1>1 DEF FifoInv, FifoData
<1>3. g \in Seq(Instances \X (1 .. MaxWrites)) /\ q \in Seq(Instances \X (1 .. MaxWrites)) /\ w \in Nat
  BY FifoTypes DEF FifoInv
<1> HIDE DEF g, q, w
<1>4. Len(g \o q) = Len(g) + Len(q) /\ \A n \in 1 .. Len(g) : (g \o q)[n] = g[n]
  BY <1>3, ConcatProperties
<1>5. Len(g) \in Nat /\ Len(q) \in Nat /\ DOMAIN g = 1 .. Len(g)
  BY <1>3, LenProperties
<1>6. Len(g \o q) = w
  BY <1>2, <1>3
<1>7. \A n \in 1 .. w : (g \o q)[n] = <<i, n>>
  BY <1>2
<1>8. Len(g) <= w /\ \A n \in 1 .. Len(g) : n \in 1 .. w
  BY <1>3, <1>4, <1>5, <1>6
<1>9. QED BY <1>4, <1>5, <1>7, <1>8 DEF g, w

LEMMA FifoRuns == ProgramsSpec => FifoSpec
<1>1. ProgramsInit => FifoInit
  BY DEF ProgramsInit
<1>2. [ProgramsNext]_programVars => [FifoNext]_fifoVars
  BY DEF ProgramsNext, programVars
<1>3. QED BY <1>1, <1>2, PTL DEF ProgramsSpec, FifoSpec

(***************************************************************************)
(* fifo.c:6-43, wfifo.c:12-33, rfifo.c:21-36.  Any number of instances     *)
(* that are started one after the other, each when those before it have    *)
(* both their ends open or are gone, do not mix: each child shows what its *)
(* own parent wrote, in order and without a gap, whatever is killed.       *)
(***************************************************************************)
THEOREM FifoKeepsOrder == ProgramsSpec => []FifoInOrder
<1>1. FifoInv => FifoInOrder
  BY FifoOrdered
<1>2. QED BY <1>1, FifoRuns, FifoSafe, PTL

(***************************************************************************)
(* fifo.c:13-16, 24-28, 44-49, mainsrc0/main.c:27-36, 70-72.  An instance  *)
(* that ends by itself does so because a later one has truncated the       *)
(* shared memory, because its child has ended, or because two were started *)
(* together, however many there are.                                       *)
(***************************************************************************)
THEOREM FifoAlwaysForCause == ProgramsSpec => []FifoEndsForCause
<1>1. FifoInv => FifoEndsForCause
  BY DEF FifoInv
<1>2. QED BY <1>1, FifoRuns, FifoSafe, PTL

-----------------------------------------------------------------------------
(***************************************************************************)
(* MqttUtf8.                                                               *)
(***************************************************************************)
(* The characters: the comparisons of Mqtt_IsLegalUtf8 stand for the ranges
   of the code points. *)
LEMMA LenOf ==
  ASSUME NEW b \in 0 .. 255
  PROVE  /\ b < 192 => CharLen(b) = 1
         /\ b \in 192 .. 223 => CharLen(b) = 2
         /\ b \in 224 .. 239 => CharLen(b) = 3
         /\ b \in 240 .. 247 => CharLen(b) = 4
         /\ b > 247 => CharLen(b) \in {5, 6}
         /\ CharLen(b) \in 1 .. 6
         /\ CharLen(b) = 1 => b < 192
  BY DEF CharLen

LEMMA TwoRange ==
  ASSUME NEW a \in 192 .. 223, NEW b \in Trail
  PROVE  Two(a, b) >= 128 <=> a >= 194
  BY DEF Two, Trail

LEMMA ThreeRange ==
  ASSUME NEW a \in 224 .. 239, NEW b \in Trail, NEW c \in Trail
  PROVE  Three(a, b, c) >= 2048 /\ ~Surrogate(Three(a, b, c))
           <=> (a = 224 => b >= 160) /\ (a = 237 => b <= 159)
  BY DEF Three, Trail, Surrogate

LEMMA FourRange ==
  ASSUME NEW a \in 240 .. 247, NEW b \in Trail, NEW c \in Trail, NEW d \in Trail
  PROVE  Four(a, b, c, d) >= 65536 /\ Four(a, b, c, d) <= 1114111
           <=> (a = 240 => b >= 144) /\ (a = 244 => b <= 143) /\ a <= 244
  BY DEF Four, Trail

LEMMA Trailing ==
  ASSUME NEW s
  PROVE  /\ \A k \in 2 .. 1 : s[k] \in Trail
         /\ (\A k \in 2 .. 2 : s[k] \in Trail) <=> s[2] \in Trail
         /\ (\A k \in 2 .. 3 : s[k] \in Trail) <=> s[2] \in Trail /\ s[3] \in Trail
         /\ (\A k \in 2 .. 4 : s[k] \in Trail)
              <=> s[2] \in Trail /\ s[3] \in Trail /\ s[4] \in Trail
<1>1. \A k : ~(k \in 2 .. 1)
  OBVIOUS
<1>2. \A k : k \in 2 .. 2 <=> k = 2
  OBVIOUS
<1>3. \A k : k \in 2 .. 3 <=> k = 2 \/ k = 3
  OBVIOUS
<1>4. \A k : k \in 2 .. 4 <=> k = 2 \/ k = 3 \/ k = 4
  OBVIOUS
<1> QED
  BY <1>1, <1>2, <1>3, <1>4

(* mqtt.c:219-278: given the length that the first byte announces,
   Mqtt_IsLegalUtf8 accepts what RFC 3629 calls a character, and nothing
   else. *)
THEOREM CharacterJudged ==
  ASSUME NEW s, s[1] \in 0 .. 255
  PROVE  IsLegalUtf8(s, CharLen(s[1])) <=> Encodes(s, CharLen(s[1]))
<1>1. CASE s[1] < 192
  <2>1. CharLen(s[1]) = 1
    BY <1>1, LenOf
  <2>2. IsLegalUtf8(s, 1) <=> s[1] < 128
    BY <1>1, Trailing DEF IsLegalUtf8
  <2>3. Encodes(s, 1) <=> s[1] < 128
    BY Trailing DEF Encodes
  <2> QED
    BY <2>1, <2>2, <2>3
<1>2. CASE s[1] \in 192 .. 223
  <2>1. CharLen(s[1]) = 2
    BY <1>2, LenOf
  <2>2. IsLegalUtf8(s, 2) <=> s[2] \in Trail /\ s[1] >= 194
    BY <1>2, Trailing DEF IsLegalUtf8
  <2>3. Encodes(s, 2) <=> s[2] \in Trail /\ Two(s[1], s[2]) >= 128
    BY Trailing DEF Encodes
  <2> QED
    BY <1>2, <2>1, <2>2, <2>3, TwoRange
<1>3. CASE s[1] \in 224 .. 239
  <2>1. CharLen(s[1]) = 3
    BY <1>3, LenOf
  <2>2. IsLegalUtf8(s, 3) <=> /\ s[2] \in Trail /\ s[3] \in Trail
                              /\ s[1] = 224 => s[2] >= 160
                              /\ s[1] = 237 => s[2] <= 159
    BY <1>3, Trailing DEF IsLegalUtf8
  <2>3. Encodes(s, 3) <=> /\ s[2] \in Trail /\ s[3] \in Trail
                          /\ Three(s[1], s[2], s[3]) >= 2048
                          /\ ~Surrogate(Three(s[1], s[2], s[3]))
    BY Trailing DEF Encodes
  <2> QED
    BY <1>3, <2>1, <2>2, <2>3, ThreeRange
<1>4. CASE s[1] \in 240 .. 247
  <2>1. CharLen(s[1]) = 4
    BY <1>4, LenOf
  <2>2. IsLegalUtf8(s, 4) <=> /\ s[2] \in Trail /\ s[3] \in Trail /\ s[4] \in Trail
                              /\ s[1] = 240 => s[2] >= 144
                              /\ s[1] = 244 => s[2] <= 143
                              /\ s[1] <= 244
    BY <1>4, Trailing DEF IsLegalUtf8
  <2>3. Encodes(s, 4) <=> /\ s[2] \in Trail /\ s[3] \in Trail /\ s[4] \in Trail
                          /\ Four(s[1], s[2], s[3], s[4]) >= 65536
                          /\ Four(s[1], s[2], s[3], s[4]) <= 1114111
    BY Trailing DEF Encodes
  <2> QED
    BY <1>4, <2>1, <2>2, <2>3, FourRange
<1>5. CASE s[1] > 247
  <2>1. CharLen(s[1]) \in {5, 6}
    BY <1>5, LenOf
  <2> QED
    BY <2>1 DEF IsLegalUtf8, Encodes
<1> QED
  BY <1>1, <1>2, <1>3, <1>4, <1>5

-----------------------------------------------------------------------------
Ascii == \A k \in DOMAIN str : str[k] \in 1 .. 127

(* The first character, which every step of the loop looks at. *)
FirstFits == CharLen(str[1]) <= Len(str) /\ IsLegalUtf8(str, CharLen(str[1]))

(* The verdict is about the first character: once the loop is past it, it
   was legal, and what is refused at once was not. *)
TextInv ==
  /\ Utf8TypeOK
  /\ str # <<>> /\ (pos > 0 \/ verdict = "end") => pos >= CharLen(str[1]) /\ FirstFits
  /\ verdict = "refused" => pos < Len(str) /\ ~Ascii
  /\ verdict = "refused" /\ pos = 0 => ~FirstFits

LEMMA Texts ==
  ASSUME NEW t \in Seq(Bytes)
  PROVE  /\ Len(t) \in Nat
         /\ t # <<>> <=> Len(t) > 0
         /\ \A k \in 1 .. Len(t) : t[k] \in 0 .. 255
         /\ DOMAIN t = 1 .. Len(t)
<1>1. Len(t) \in Nat /\ DOMAIN t = 1 .. Len(t) /\ (t # <<>> <=> Len(t) > 0)
  OBVIOUS
<1>2. \A k \in 1 .. Len(t) : t[k] \in Bytes
  OBVIOUS
<1> QED
  BY <1>1, <1>2, MqttUtf8Assumption

LEMMA HereIs ==
  ASSUME Utf8TypeOK, pos < Len(str)
  PROVE  /\ Here \in 1 .. 6
         /\ CharLen(str[1]) \in 1 .. 6
         /\ pos = 0 => Here = CharLen(str[1]) /\ pos + Here = Here
         /\ Here = 1 => str[pos + 1] < 192
<1>1. 1 \in 1 .. Len(str) /\ pos + 1 \in 1 .. Len(str)
  BY Texts DEF Utf8TypeOK
<1>2. str[1] \in 0 .. 255 /\ str[pos + 1] \in 0 .. 255
  BY <1>1, Texts, Zenon DEF Utf8TypeOK
<1>3. CharLen(str[1]) \in 1 .. 6 /\ CharLen(str[pos + 1]) \in 1 .. 6
  BY <1>2, LenOf, Zenon
<1>4. CharLen(str[pos + 1]) = 1 => str[pos + 1] < 192
  BY <1>2, LenOf, Zenon
<1>5. pos = 0 => pos + 1 = 1
  OBVIOUS
<1>6. ASSUME NEW h \in 1 .. 6 PROVE pos = 0 => pos + h = h
  OBVIOUS
<1> QED
  BY <1>3, <1>4, <1>5, <1>6, Zenon DEF Here

LEMMA AsciiChar ==
  ASSUME NEW s, NEW i, s[1] \in 1 .. 127, s[i] \in 1 .. 127
  PROVE  CharLen(s[i]) = 1 /\ IsLegalUtf8(s, 1)
<1>1. s[1] < 128 /\ s[1] \in 0 .. 255
  OBVIOUS
<1> QED
  BY <1>1, LenOf, Trailing DEF IsLegalUtf8

LEMMA AsciiFits ==
  ASSUME Utf8TypeOK, Ascii, pos < Len(str)
  PROVE  Passes
<1>1. 1 \in DOMAIN str /\ pos + 1 \in DOMAIN str /\ pos + 1 <= Len(str)
  BY Texts DEF Utf8TypeOK
<1>2. str[1] \in 1 .. 127 /\ str[pos + 1] \in 1 .. 127
  BY <1>1, Zenon DEF Ascii
<1>3. Here = 1 /\ IsLegalUtf8(str, 1)
  BY <1>2, AsciiChar, Zenon DEF Here
<1> QED
  BY <1>1, <1>3, Zenon DEF Passes

LEMMA TypeInit == Utf8Init => Utf8TypeOK
<1> SUFFICES ASSUME Utf8Init PROVE Utf8TypeOK
  OBVIOUS
<1>1. PICK n \in 0 .. MaxText : str \in [1 .. n -> Bytes]
  BY DEF Utf8Init
<1>2. n \in Nat
  BY MqttUtf8Assumption
<1>3. str \in Seq(Bytes)
  BY <1>1, <1>2
<1> QED
  BY <1>3, Texts DEF Utf8Init, Utf8TypeOK

LEMMA TextSafe == Utf8Spec => []TextInv
<1>1. Utf8Init => TextInv
  <2> SUFFICES ASSUME Utf8Init PROVE TextInv
    OBVIOUS
  <2> QED
    BY TypeInit DEF Utf8Init, TextInv
<1>2. TextInv /\ [Utf8Next]_utf8Vars => TextInv'
  <2> SUFFICES ASSUME TextInv, [Utf8Next]_utf8Vars PROVE TextInv'
    OBVIOUS
  <2>1. /\ Len(str) \in Nat /\ pos \in 0 .. Len(str)
        /\ str # <<>> <=> Len(str) > 0
        /\ \A k \in 1 .. Len(str) : str[k] \in 0 .. 255
    BY Texts DEF TextInv, Utf8TypeOK
  <2>2. CASE NotUtf8
    <3>1. str' = str /\ pos' = pos /\ verdict = "busy" /\ verdict' = "refused" /\ pos < Len(str)
      BY <2>2 DEF NotUtf8
    <3>2. ~Ascii
      BY <2>2, AsciiFits DEF NotUtf8, TextInv
    <3>3. pos = 0 => ~FirstFits
      BY <2>2, HereIs, Zenon DEF NotUtf8, Passes, FirstFits, TextInv
    <3> QED
      BY <2>1, <3>1, <3>2, <3>3 DEF TextInv, Utf8TypeOK, Ascii, FirstFits
  <2>3. CASE NextChar
    <3>1. /\ str' = str /\ pos' = pos + Here /\ verdict' \in {"busy", "end"}
          /\ pos < Len(str) /\ verdict = "busy" /\ Passes
      BY <2>3 DEF NextChar
    <3>2. /\ Here \in 1 .. 6 /\ pos + Here <= Len(str)
          /\ CharLen(str[1]) \in 1 .. 6
      BY <3>1, HereIs, Zenon DEF Passes, TextInv
    <3>3. pos = 0 => Here = CharLen(str[1]) /\ FirstFits
      BY <3>1, HereIs, Zenon DEF Passes, FirstFits, TextInv
    <3>4. pos' >= CharLen(str[1]) /\ FirstFits
      BY <2>1, <3>1, <3>2, <3>3 DEF TextInv
    <3> QED
      BY <2>1, <3>1, <3>2, <3>4 DEF TextInv, Utf8TypeOK, FirstFits
  <2>4. CASE Empty
    BY <2>4 DEF Empty, TextInv, Utf8TypeOK
  <2>5. CASE UNCHANGED utf8Vars
    BY <2>5 DEF TextInv, Utf8TypeOK, Ascii, FirstFits, utf8Vars
  <2> QED
    BY <2>2, <2>3, <2>4, <2>5 DEF Utf8Next
<1> QED
  BY <1>1, <1>2, PTL DEF Utf8Spec

(* mqtt.c:219-304: a text of one character is judged right whatever its
   bytes, a text of one-byte characters is accepted, and what is accepted
   begins with a character. *)
THEOREM Judged == Utf8Spec => []TextJudged
<1>1. TextInv => TextJudged
  <2> SUFFICES ASSUME TextInv PROVE TextJudged
    OBVIOUS
  <2>1. /\ Len(str) \in Nat /\ pos \in 0 .. Len(str)
        /\ str # <<>> <=> Len(str) > 0
        /\ \A k \in 1 .. Len(str) : str[k] \in 0 .. 255
    BY Texts DEF TextInv, Utf8TypeOK
  <2>2. ASSUME str # <<>>
        PROVE  /\ CharLen(str[1]) \in 1 .. 6
               /\ FirstFits => Encodes(str, CharLen(str[1]))
               /\ Encodes(str, CharLen(str[1])) /\ CharLen(str[1]) <= Len(str) => FirstFits
    <3>1. 1 \in 1 .. Len(str)
      BY <2>1, <2>2
    <3>2. str[1] \in 0 .. 255
      BY <2>1, <3>1, Zenon
    <3> QED
      BY <3>2, LenOf, CharacterJudged, Zenon DEF FirstFits
  <2>3. ASSUME verdict # "busy", str # <<>>, CharLen(str[1]) = Len(str)
        PROVE  Accepted <=> Encodes(str, Len(str))
    <3>1. CASE verdict = "end"
      BY <2>1, <2>2, <2>3, <3>1 DEF TextInv, Accepted
    <3>2. CASE verdict = "refused"
      BY <2>1, <2>2, <2>3, <3>2 DEF TextInv, Accepted
    <3> QED
      BY <2>3, <3>1, <3>2 DEF TextInv, Utf8TypeOK
  <2>4. Ascii => verdict # "refused"
    BY DEF TextInv
  <2>5. Accepted /\ str # <<>> => Encodes(str, CharLen(str[1]))
    BY <2>2 DEF TextInv, Accepted
  <2> QED
    BY <2>3, <2>4, <2>5 DEF TextJudged, Ascii
<1> QED
  BY <1>1, TextSafe, PTL

-----------------------------------------------------------------------------
(* A text of at least two characters, the first of one byte. *)
Mixed == Len(str) >= 2 /\ str[1] < 128 /\ str[2] \notin Trail

OneByte == Utf8TypeOK /\ (Mixed => \A k \in 1 .. pos : str[k] < 192)

(* mqtt.c:292: a text that begins with a character of one byte is accepted
   only if it has no longer character at all: the later ones are looked for
   at its beginning.  What RFC 3629 says of them plays no part. *)
THEOREM LongerRefused ==
  Utf8Spec => [](Accepted /\ Mixed => \A k \in DOMAIN str : str[k] < 192)
<1>1. Utf8Init => OneByte
  <2> SUFFICES ASSUME Utf8Init PROVE OneByte
    OBVIOUS
  <2>1. pos = 0
    BY DEF Utf8Init
  <2>2. \A k : ~(k \in 1 .. 0)
    OBVIOUS
  <2> QED
    BY <2>1, <2>2, TypeInit DEF OneByte
<1>2. OneByte /\ [Utf8Next]_utf8Vars => OneByte'
  <2> SUFFICES ASSUME OneByte, [Utf8Next]_utf8Vars PROVE OneByte'
    OBVIOUS
  <2>1. /\ Len(str) \in Nat /\ pos \in 0 .. Len(str)
        /\ \A k \in 1 .. Len(str) : str[k] \in 0 .. 255
    BY Texts DEF OneByte, Utf8TypeOK
  <2>2. CASE NotUtf8
    BY <2>2 DEF NotUtf8, OneByte, Utf8TypeOK, Mixed
  <2>3. CASE NextChar
    <3>1. /\ str' = str /\ pos' = pos + Here /\ verdict' \in {"busy", "end"}
          /\ pos < Len(str) /\ IsLegalUtf8(str, Here) /\ pos + Here <= Len(str)
      BY <2>3 DEF NextChar, Passes
    <3>2. Here \in 1 .. 6 /\ (Here = 1 => str[pos + 1] < 192)
      BY <3>1, HereIs, Zenon DEF OneByte
    <3>3. Mixed => Here = 1
      <4>1. Here # 1 => 2 \in 2 .. Here
        BY <3>2
      <4> QED
        BY <3>1, <4>1, Zenon DEF Mixed, IsLegalUtf8
    <3>4. Mixed => \A k \in 1 .. pos + Here : str[k] < 192
      <4>1. \A k \in 1 .. pos + 1 : k \in 1 .. pos \/ k = pos + 1
        BY <2>1
      <4> QED
        BY <3>2, <3>3, <4>1, Zenon DEF OneByte
    <3>5. Utf8TypeOK'
      BY <2>1, <3>1, <3>2 DEF OneByte, Utf8TypeOK
    <3> QED
      BY <3>1, <3>4, <3>5 DEF OneByte, Mixed
  <2>4. CASE Empty
    BY <2>4 DEF Empty, OneByte, Utf8TypeOK, Mixed
  <2>5. CASE UNCHANGED utf8Vars
    BY <2>5 DEF utf8Vars, OneByte, Utf8TypeOK, Mixed
  <2> QED
    BY <2>2, <2>3, <2>4, <2>5 DEF Utf8Next
<1>3. OneByte => (Accepted /\ Mixed => \A k \in DOMAIN str : str[k] < 192)
  BY Texts DEF OneByte, Accepted, Utf8TypeOK
<1> QED
  BY <1>1, <1>2, <1>3, PTL DEF Utf8Spec

-----------------------------------------------------------------------------
(***************************************************************************)
(* NetServer, MqttUtf8, and the types of all.                              *)
(***************************************************************************)
LEMMA NetStep ==
  ASSUME NetTypeOK, [NetNext]_netVars
  PROVE  NetTypeOK'
<1> USE DEF NetTypeOK
<1>1. CASE UNCHANGED netVars
  BY <1>1 DEF netVars
<1>2. CASE Accept
  <2>1. sc' = {Head(backlog)} /\ backlog' = Tail(backlog) /\ backlog # <<>>
        /\ UNCHANGED <<child, cli, asks, request, reply, shut>>
    BY <1>2 DEF Accept
  <2>2. Head(backlog) \in Clients /\ Tail(backlog) \in Seq(Clients)
    BY <2>1, HeadTailProperties
  <2>3. QED BY <2>1, <2>2
<1>3. CASE Fork \/ ForkFails
  BY <1>3 DEF Fork, ForkFails
<1>4. ASSUME NEW c \in Clients, ConnectTo(c) PROVE NetTypeOK'
  <2>1. Append(backlog, c) \in Seq(Clients)
    BY AppendProperties
  <2>2. QED BY <1>4, <2>1 DEF ConnectTo
<1>5. ASSUME NEW c \in Clients, Ask(c) PROVE NetTypeOK'
  <2>1. asks[c] + 1 \in 0 .. MaxAsks
    BY <1>5, NetServerAssumption DEF Ask
  <2>2. QED BY <1>5, <2>1 DEF Ask
<1>6. ASSUME NEW c \in Clients, Answered(c) PROVE NetTypeOK'
  BY <1>6 DEF Answered
<1>7. ASSUME NEW c \in Clients, Quit(c) PROVE NetTypeOK'
  BY <1>7 DEF Quit
<1>8. ASSUME NEW c \in Clients, ChildRead(c) PROVE NetTypeOK'
  BY <1>8 DEF ChildRead
<1>9. ASSUME NEW c \in Clients, ChildWrite(c) PROVE NetTypeOK'
  BY <1>9 DEF ChildWrite
<1>10. QED
  BY <1>1, <1>2, <1>3, <1>4, <1>5, <1>6, <1>7, <1>8, <1>9 DEF NetNext, Parent, Child

LEMMA NetRuns == ProgramsSpec => []NetTypeOK
<1>1. ProgramsInit => NetTypeOK
  <2>1. NetInit => NetTypeOK
    <3>1. <<>> \in Seq(Clients) /\ 0 \in 0 .. MaxAsks
      BY EmptySeq, NetServerAssumption
    <3>2. QED BY <3>1 DEF NetInit, NetTypeOK
  <2>2. QED BY <2>1 DEF ProgramsInit
<1>2. [ProgramsNext]_programVars => [NetNext]_netVars
  BY DEF ProgramsNext, programVars
<1>3. NetTypeOK /\ [NetNext]_netVars => NetTypeOK'
  BY NetStep
<1>4. QED BY <1>1, <1>2, <1>3, PTL DEF ProgramsSpec

LEMMA Utf8Runs == ProgramsSpec => Utf8Spec
<1>1. ProgramsInit => Utf8Init
  BY DEF ProgramsInit
<1>2. [ProgramsNext]_programVars => [Utf8Next]_utf8Vars
  BY DEF ProgramsNext, programVars
<1>3. QED BY <1>1, <1>2, PTL DEF ProgramsSpec, Utf8Spec

(***************************************************************************)
(* The variables of all the components have their types: no step of a      *)
(* driver, a client or a server, a process of the message queue, an        *)
(* instance of the pipe or the check of a text leaves them.                *)
(***************************************************************************)
THEOREM ProgramTypes == ProgramsSpec => []TypesOK
<1>1. DriverInv => DriverTypeOK
  BY DEF DriverInv
<1>2. QueueInv => QueueTypeOK
  BY DEF QueueInv
<1>3. FifoInv => FifoTypeOK
  BY DEF FifoInv
<1>4. TextInv => Utf8TypeOK
  BY DEF TextInv
<1>5. DriverTypeOK /\ NetTypeOK /\ QueueTypeOK /\ FifoTypeOK /\ Utf8TypeOK => TypesOK
  BY DEF TypesOK
<1>6. QED
  BY <1>1, <1>2, <1>3, <1>4, <1>5, DriversRun, DriverSafe, NetRuns, QueueRuns, QueueSafe,
     FifoRuns, FifoSafe, Utf8Runs, TextSafe, PTL

-----------------------------------------------------------------------------
(***************************************************************************)
(* NetServer.  That a client is answered in the end is a matter of         *)
(* fairness; that it is never forgotten is not.  A connection waits for    *)
(* accept, is in the parent's hand, or has a child of its own; a question  *)
(* is on its way to the one who has the connection, or the child writes    *)
(* the answer, or the answer is on its way back.                           *)
(***************************************************************************)
Queued(c) == \E i \in DOMAIN backlog : backlog[i] = c

QueueDistinct == \A i, j \in DOMAIN backlog : backlog[i] = backlog[j] => i = j

Held(c) == Queued(c) \/ c \in sc \/ child[c] = "read"

InHand(c) ==
  \/ request[c] /\ ~reply[c] /\ Held(c)
  \/ ~request[c] /\ ~reply[c] /\ child[c] = "write"
  \/ ~request[c] /\ reply[c] /\ child[c] = "read"

(* What holds of each client, whatever the others do. *)
ClientWell(c) ==
  /\ cli[c] = "new" => ~Queued(c) /\ c \notin sc /\ child[c] = "none" /\ ~request[c] /\ ~reply[c]
  /\ Queued(c) => c \notin sc /\ child[c] = "none"
  /\ c \in sc => child[c] = "none"
  /\ cli[c] = "idle" => ~request[c] /\ ~reply[c] /\ Held(c)
  /\ cli[c] = "asked" => InHand(c)
  /\ child[c] \in {"spin", "zombie"} => cli[c] = "gone"
  /\ shut[c] # "open" => cli[c] = "gone"

NetTable ==
  /\ IsFiniteSet(Children)
  /\ Cardinality(Children) <= MaxProcs
  /\ (\E c \in Clients : cli[c] = "refused") => Cardinality(Children) = MaxProcs

NetInv ==
  /\ NetTypeOK
  /\ QueueDistinct
  /\ \A c, d \in sc : c = d
  /\ NetTable
  /\ \A c \in Clients : ClientWell(c)

(* The table of processes is touched by fork alone. *)
LEMMA TableAlone ==
  ASSUME NetTable, Children' = Children,
         \A c \in Clients : cli'[c] = "refused" => \E d \in Clients : cli[d] = "refused"
  PROVE  NetTable'
BY DEF NetTable

LEMMA ChildrenAlone ==
  ASSUME \A c \in Clients : child'[c] = "none" <=> child[c] = "none"
  PROVE  Children' = Children
BY DEF Children

LEMMA QueuedAlone ==
  ASSUME backlog' = backlog
  PROVE  /\ \A c \in Clients : Queued(c)' <=> Queued(c)
         /\ QueueDistinct => QueueDistinct'
BY DEF Queued, QueueDistinct

LEMMA QueuedAppend ==
  ASSUME NetTypeOK, NEW c \in Clients, backlog' = Append(backlog, c)
  PROVE  /\ \A d \in Clients : Queued(d)' <=> Queued(d) \/ d = c
         /\ QueueDistinct /\ ~Queued(c) => QueueDistinct'
<1>1. PICK b \in Seq(Clients) : b = backlog
  BY DEF NetTypeOK
<1>2. PICK e \in Seq(Clients) : e = Append(b, c)
  BY AppendProperties
<1>3. /\ Len(b) \in Nat /\ DOMAIN b = 1 .. Len(b) /\ DOMAIN e = 1 .. Len(b) + 1
      /\ e[Len(b) + 1] = c /\ \A i \in 1 .. Len(b) : e[i] = b[i]
  BY <1>2, AppendProperties, LenProperties
<1>4. \A i \in DOMAIN e : i \in DOMAIN b \/ i = Len(b) + 1
  BY <1>3
<1>5. \A i \in DOMAIN b : i \in DOMAIN e /\ i # Len(b) + 1
  BY <1>3
<1>6. ASSUME NEW d \in Clients
      PROVE  (\E i \in DOMAIN e : e[i] = d) <=> (\E i \in DOMAIN b : b[i] = d) \/ d = c
  <2>1. Len(b) + 1 \in DOMAIN e
    BY <1>3
  <2>2. QED
    BY <1>3, <1>4, <1>5, <2>1
<1>7. ASSUME QueueDistinct, ~Queued(c)
      PROVE  \A i, j \in DOMAIN e : e[i] = e[j] => i = j
  <2>1. \A i \in DOMAIN b : b[i] # c
    BY <1>1, <1>7 DEF Queued
  <2>2. \A i, j \in DOMAIN b : b[i] = b[j] => i = j
    BY <1>1, <1>7 DEF QueueDistinct
  <2>3. QED
    BY <1>3, <1>4, <2>1, <2>2
<1>8. QED
  BY <1>1, <1>2, <1>6, <1>7 DEF Queued, QueueDistinct

LEMMA QueuedTail ==
  ASSUME NetTypeOK, QueueDistinct, backlog # <<>>, backlog' = Tail(backlog)
  PROVE  /\ Head(backlog) \in Clients /\ Queued(Head(backlog))
         /\ \A d \in Clients : Queued(d)' <=> Queued(d) /\ d # Head(backlog)
         /\ QueueDistinct'
<1>1. PICK b \in Seq(Clients) : b = backlog /\ b # <<>>
  BY DEF NetTypeOK
<1>2. PICK t \in Seq(Clients), h \in Clients : t = Tail(b) /\ h = Head(b)
  BY <1>1, HeadTailProperties
<1>3. /\ Len(b) \in Nat \ {0} /\ DOMAIN b = 1 .. Len(b) /\ DOMAIN t = 1 .. Len(b) - 1
      /\ h = b[1] /\ \A i \in 1 .. Len(b) - 1 : t[i] = b[i + 1]
  <2>1. Len(b) # 0
    BY <1>1, EmptySeq
  <2>2. QED
    BY <1>1, <1>2, <2>1, HeadTailProperties, LenProperties
<1>4. \A i, j \in DOMAIN b : b[i] = b[j] => i = j
  BY <1>1 DEF QueueDistinct
<1>5. \A i \in DOMAIN t : i + 1 \in DOMAIN b /\ i + 1 # 1 /\ t[i] = b[i + 1]
  BY <1>3
<1>6. \A i \in DOMAIN b : i # 1 => i - 1 \in DOMAIN t /\ t[i - 1] = b[i]
  BY <1>3
<1>7. 1 \in DOMAIN b
  BY <1>3
<1>8. ASSUME NEW d \in Clients
      PROVE  (\E i \in DOMAIN t : t[i] = d) <=> (\E i \in DOMAIN b : b[i] = d) /\ d # h
  <2>1. ASSUME NEW i \in DOMAIN t, t[i] = d
        PROVE  (\E k \in DOMAIN b : b[k] = d) /\ d # h
    BY <1>3, <1>4, <1>5, <1>7, <2>1
  <2>2. ASSUME NEW i \in DOMAIN b, b[i] = d, d # h
        PROVE  \E k \in DOMAIN t : t[k] = d
    BY <1>3, <1>6, <2>2
  <2>3. QED BY <2>1, <2>2
<1>9. \A i, j \in DOMAIN t : t[i] = t[j] => i = j
  <2>1. SUFFICES ASSUME NEW i \in DOMAIN t, NEW j \in DOMAIN t, t[i] = t[j]
                 PROVE  i = j
    OBVIOUS
  <2>2. i + 1 = j + 1
    BY <1>4, <1>5, <2>1
  <2>3. QED
    BY <1>3, <2>2
<1>10. QED
  BY <1>1, <1>2, <1>3, <1>7, <1>8, <1>9 DEF Queued, QueueDistinct


(* A client that an action does not touch, and whose place stays. *)
LEMMA ClientAlone ==
  ASSUME NEW d, ClientWell(d), Queued(d)' <=> Queued(d), d \in sc' <=> d \in sc,
         child'[d] = child[d], cli'[d] = cli[d], request'[d] = request[d], reply'[d] = reply[d],
         shut'[d] = shut[d]
  PROVE  ClientWell(d)'
BY DEF ClientWell, Held, InHand

LEMMA NetConnect ==
  ASSUME NetInv, NEW c \in Clients, ConnectTo(c)
  PROVE  QueueDistinct' /\ (\A d, e \in sc' : d = e) /\ NetTable' /\ \A d \in Clients : ClientWell(d)'
<1>1. /\ cli[c] = "new" /\ cli' = [cli EXCEPT ![c] = "idle"] /\ backlog' = Append(backlog, c)
      /\ UNCHANGED <<sc, child, asks, request, reply, shut>>
  BY DEF ConnectTo
<1>2. /\ ~Queued(c) /\ ClientWell(c) /\ NetTypeOK /\ QueueDistinct
  BY <1>1 DEF NetInv, ClientWell
<1>3. QueueDistinct' /\ \A d \in Clients : Queued(d)' <=> Queued(d) \/ d = c
  BY <1>1, <1>2, QueuedAppend
<1>4. \A d \in Clients : cli'[d] = IF d = c THEN "idle" ELSE cli[d]
  BY <1>1, <1>2 DEF NetTypeOK
<1>5. NetTable'
  <2>1. Children' = Children
    BY <1>1 DEF Children
  <2>2. QED
    BY <1>4, <2>1, TableAlone DEF NetInv
<1>6. ASSUME NEW d \in Clients
      PROVE  ClientWell(d)'
  <2>1. CASE d = c
    BY <1>1, <1>2, <1>3, <1>4, <2>1 DEF ClientWell, Held, InHand
  <2>2. CASE d # c
    BY <1>1, <1>3, <1>4, <2>2, ClientAlone DEF NetInv
  <2>3. QED BY <2>1, <2>2
<1>7. QED
  BY <1>1, <1>3, <1>5, <1>6 DEF NetInv

LEMMA NetAccept ==
  ASSUME NetInv, Accept
  PROVE  QueueDistinct' /\ (\A d, e \in sc' : d = e) /\ NetTable' /\ \A d \in Clients : ClientWell(d)'
<1>1. /\ sc = {} /\ backlog # <<>> /\ sc' = {Head(backlog)} /\ backlog' = Tail(backlog)
      /\ UNCHANGED <<child, cli, asks, request, reply, shut>>
  BY DEF Accept
<1>2. NetTypeOK /\ QueueDistinct
  BY DEF NetInv
<1>3. /\ Head(backlog) \in Clients /\ Queued(Head(backlog)) /\ QueueDistinct'
      /\ \A d \in Clients : Queued(d)' <=> Queued(d) /\ d # Head(backlog)
  BY <1>1, <1>2, QueuedTail
<1>4. NetTable'
  <2>1. Children' = Children
    BY <1>1 DEF Children
  <2>2. QED
    BY <1>1, <2>1, TableAlone DEF NetInv
<1>5. PICK h \in Clients : h = Head(backlog)
  BY <1>3
<1>6. ASSUME NEW d \in Clients
      PROVE  ClientWell(d)'
  <2>0. ClientWell(d)
    BY DEF NetInv
  <2>1. CASE d = h
    BY <1>1, <1>3, <1>5, <2>0, <2>1 DEF ClientWell, Held, InHand
  <2>2. CASE d # h
    BY <1>1, <1>3, <1>5, <2>0, <2>2, ClientAlone
  <2>3. QED BY <2>1, <2>2
<1>7. QED
  BY <1>1, <1>3, <1>4, <1>6

LEMMA NetFork ==
  ASSUME NetInv, Fork
  PROVE  QueueDistinct' /\ (\A d, e \in sc' : d = e) /\ NetTable' /\ \A d \in Clients : ClientWell(d)'
<1>1. PICK c \in sc : /\ Cardinality(Children) < MaxProcs
                      /\ child' = [child EXCEPT ![c] = "read"] /\ sc' = {}
                      /\ UNCHANGED <<backlog, cli, asks, request, reply, shut>>
  BY DEF Fork
<1>2. c \in Clients /\ \A d \in sc : d = c
  BY DEF NetInv, NetTypeOK
<1>3. \A d \in Clients : child'[d] = IF d = c THEN "read" ELSE child[d]
  BY <1>1, <1>2 DEF NetInv, NetTypeOK
<1>4. \A d \in Clients : ClientWell(d)
  BY DEF NetInv
<1>5. child[c] = "none"
  BY <1>2, <1>4 DEF ClientWell
<1>6. Children' = Children \cup {c} /\ c \notin Children
  BY <1>2, <1>3, <1>5 DEF Children
<1>7. IsFiniteSet(Children') /\ Cardinality(Children') = Cardinality(Children) + 1 /\ Cardinality(Children) \in Nat
  <2>1. IsFiniteSet(Children)
    BY DEF NetInv, NetTable
  <2>2. QED
    BY <1>6, <2>1, FS_AddElement, FS_CardinalityType
<1>8. NetTable'
  <2>1. MaxProcs \in Nat
    BY NetServerAssumption
  <2>2. Cardinality(Children') <= MaxProcs
    BY <1>1, <1>7, <2>1
  <2>3. ~ \E d \in Clients : cli[d] = "refused"
    BY <1>1, <1>7, <2>1 DEF NetInv, NetTable
  <2>4. QED
    BY <1>1, <1>7, <2>2, <2>3 DEF NetTable
<1>9. ASSUME NEW d \in Clients
      PROVE  ClientWell(d)'
  <2>1. Queued(d)' <=> Queued(d)
    BY <1>1, QueuedAlone
  <2>2. CASE d = c
    BY <1>1, <1>2, <1>3, <1>4, <1>5, <2>1, <2>2 DEF ClientWell, Held, InHand
  <2>3. CASE d # c
    BY <1>1, <1>2, <1>3, <1>4, <2>1, <2>3, ClientAlone
  <2>4. QED BY <2>2, <2>3
<1>10. QED
  BY <1>1, <1>8, <1>9, QueuedAlone DEF NetInv

LEMMA NetForkFails ==
  ASSUME NetInv, ForkFails
  PROVE  QueueDistinct' /\ (\A d, e \in sc' : d = e) /\ NetTable' /\ \A d \in Clients : ClientWell(d)'
<1>1. PICK c \in sc : /\ Cardinality(Children) = MaxProcs /\ sc' = {}
                      /\ cli' = [cli EXCEPT ![c] = IF @ = "gone" THEN @ ELSE "refused"]
                      /\ UNCHANGED <<backlog, child, asks, request, reply, shut>>
  BY DEF ForkFails
<1>2. c \in Clients /\ \A d \in sc : d = c
  BY DEF NetInv, NetTypeOK
<1>3. \A d \in Clients : cli'[d] = IF d = c THEN (IF cli[c] = "gone" THEN "gone" ELSE "refused") ELSE cli[d]
  BY <1>1, <1>2 DEF NetInv, NetTypeOK
<1>4. \A d \in Clients : ClientWell(d)
  BY DEF NetInv
<1>5. NetTable'
  BY <1>1 DEF NetInv, NetTable, Children
<1>6. ASSUME NEW d \in Clients
      PROVE  ClientWell(d)'
  <2>1. Queued(d)' <=> Queued(d)
    BY <1>1, QueuedAlone
  <2>2. CASE d = c
    BY <1>1, <1>2, <1>3, <1>4, <2>1, <2>2 DEF ClientWell, Held, InHand
  <2>3. CASE d # c
    BY <1>1, <1>2, <1>3, <1>4, <2>1, <2>3, ClientAlone
  <2>4. QED BY <2>2, <2>3
<1>7. QED
  BY <1>1, <1>5, <1>6, QueuedAlone DEF NetInv

(* The actions of one client or one child, which leave the queue and the
   parent alone and make no process. *)
LEMMA NetOne ==
  ASSUME NetInv, NEW c \in Clients, UNCHANGED <<backlog, sc>>,
         \A d \in Clients : child'[d] = "none" <=> child[d] = "none",
         \A d \in Clients : cli'[d] = "refused" => cli[d] = "refused",
         \A d \in Clients \ {c} : /\ child'[d] = child[d] /\ cli'[d] = cli[d]
                                  /\ request'[d] = request[d] /\ reply'[d] = reply[d]
                                  /\ shut'[d] = shut[d],
         ClientWell(c) /\ (Queued(c)' <=> Queued(c)) => ClientWell(c)'
  PROVE  QueueDistinct' /\ (\A d, e \in sc' : d = e) /\ NetTable' /\ \A d \in Clients : ClientWell(d)'
<1>1. \A d \in Clients : Queued(d)' <=> Queued(d)
  BY QueuedAlone
<1>2. QueueDistinct'
  BY QueuedAlone DEF NetInv
<1>3. NetTable'
  BY ChildrenAlone, TableAlone DEF NetInv
<1>4. ASSUME NEW d \in Clients
      PROVE  ClientWell(d)'
  <2>0. ClientWell(d)
    BY DEF NetInv
  <2>1. CASE d = c
    BY <1>1, <2>0, <2>1
  <2>2. CASE d # c
    BY <1>1, <2>0, <2>2, ClientAlone
  <2>3. QED BY <2>1, <2>2
<1>5. QED
  BY <1>2, <1>3, <1>4 DEF NetInv

LEMMA NetClient ==
  ASSUME NetInv, NEW c \in Clients, Ask(c) \/ Answered(c) \/ Quit(c) \/ Child(c)
  PROVE  QueueDistinct' /\ (\A d, e \in sc' : d = e) /\ NetTable' /\ \A d \in Clients : ClientWell(d)'
<1>1. NetTypeOK
  BY DEF NetInv
<1>2. CASE Ask(c)
  <2>1. /\ cli[c] = "idle" /\ cli' = [cli EXCEPT ![c] = "asked"] /\ request' = [request EXCEPT ![c] = TRUE]
        /\ UNCHANGED <<backlog, sc, child, reply, shut>>
    BY <1>2 DEF Ask
  <2>2. cli'[c] = "asked" /\ request'[c] /\ \A d \in Clients \ {c} : cli'[d] = cli[d] /\ request'[d] = request[d]
    BY <1>1, <2>1 DEF NetTypeOK
  <2>3. ClientWell(c) /\ (Queued(c)' <=> Queued(c)) => ClientWell(c)'
    BY <2>1, <2>2 DEF ClientWell, Held, InHand
  <2>4. QED
    BY <2>1, <2>2, <2>3, NetOne
<1>3. CASE Answered(c)
  <2>1. /\ cli[c] = "asked" /\ reply[c] /\ cli' = [cli EXCEPT ![c] = "idle"] /\ reply' = [reply EXCEPT ![c] = FALSE]
        /\ UNCHANGED <<backlog, sc, child, request, shut>>
    BY <1>3 DEF Answered
  <2>2. cli'[c] = "idle" /\ ~reply'[c] /\ \A d \in Clients \ {c} : cli'[d] = cli[d] /\ reply'[d] = reply[d]
    BY <1>1, <2>1 DEF NetTypeOK
  <2>3. ClientWell(c) /\ (Queued(c)' <=> Queued(c)) => ClientWell(c)'
    BY <2>1, <2>2 DEF ClientWell, Held, InHand
  <2>4. QED
    BY <2>1, <2>2, <2>3, NetOne
<1>4. CASE Quit(c)
  <2>1. /\ cli' = [cli EXCEPT ![c] = "gone"]
        /\ shut' = [shut EXCEPT ![c] = IF reply[c] THEN "reset" ELSE "fin"]
        /\ request' = [request EXCEPT ![c] = @ /\ ~reply[c]] /\ reply' = [reply EXCEPT ![c] = FALSE]
        /\ UNCHANGED <<backlog, sc, child>>
    BY <1>4 DEF Quit
  <2>2. cli'[c] = "gone" /\ \A d \in Clients \ {c} : /\ cli'[d] = cli[d] /\ shut'[d] = shut[d]
                                                     /\ request'[d] = request[d] /\ reply'[d] = reply[d]
    BY <1>1, <2>1 DEF NetTypeOK
  <2>3. ClientWell(c) /\ (Queued(c)' <=> Queued(c)) => ClientWell(c)'
    BY <2>1, <2>2 DEF ClientWell
  <2>4. /\ \A d \in Clients : child'[d] = child[d]
        /\ \A d \in Clients : cli'[d] = "refused" => cli[d] = "refused"
    BY <2>1, <2>2
  <2>5. QED
    BY <2>1, <2>2, <2>3, <2>4, NetOne
<1>5. CASE ChildRead(c)
  <2>1. /\ child[c] = "read" /\ (request[c] \/ shut[c] # "open")
        /\ child' = [child EXCEPT ![c] = IF request[c] \/ shut[c] = "reset" THEN "write" ELSE "spin"]
        /\ request' = [request EXCEPT ![c] = FALSE]
        /\ UNCHANGED <<backlog, sc, cli, reply, shut>>
    BY <1>5 DEF ChildRead
  <2>2. /\ child'[c] = (IF request[c] \/ shut[c] = "reset" THEN "write" ELSE "spin") /\ ~request'[c]
        /\ \A d \in Clients \ {c} : child'[d] = child[d] /\ request'[d] = request[d]
    BY <1>1, <2>1 DEF NetTypeOK
  <2>3. ClientWell(c) /\ (Queued(c)' <=> Queued(c)) => ClientWell(c)'
    BY <2>1, <2>2 DEF ClientWell, Held, InHand
  <2>4. \A d \in Clients : child'[d] = "none" <=> child[d] = "none"
    BY <2>1, <2>2
  <2>5. QED
    BY <2>1, <2>2, <2>3, <2>4, NetOne
<1>6. CASE ChildWrite(c)
  <2>1. /\ child[c] = "write"
        /\ child' = [child EXCEPT ![c] = IF shut[c] = "reset" THEN "zombie" ELSE "read"]
        /\ reply' = [reply EXCEPT ![c] = shut[c] = "open"]
        /\ shut' = [shut EXCEPT ![c] = IF @ = "fin" THEN "reset" ELSE @]
        /\ UNCHANGED <<backlog, sc, cli, request>>
    BY <1>6 DEF ChildWrite
  <2>2. /\ child'[c] = (IF shut[c] = "reset" THEN "zombie" ELSE "read")
        /\ reply'[c] <=> shut[c] = "open"
        /\ shut'[c] = (IF shut[c] = "fin" THEN "reset" ELSE shut[c])
        /\ \A d \in Clients \ {c} : child'[d] = child[d] /\ reply'[d] = reply[d] /\ shut'[d] = shut[d]
    BY <1>1, <2>1 DEF NetTypeOK
  <2>3. ClientWell(c) /\ (Queued(c)' <=> Queued(c)) => ClientWell(c)'
    BY <2>1, <2>2 DEF ClientWell, Held, InHand
  <2>4. \A d \in Clients : child'[d] = "none" <=> child[d] = "none"
    BY <2>1, <2>2
  <2>5. QED
    BY <2>1, <2>2, <2>3, <2>4, NetOne
<1>7. QED
  BY <1>2, <1>3, <1>4, <1>5, <1>6 DEF Child

LEMMA NetInvStep ==
  ASSUME NetInv, [NetNext]_netVars
  PROVE  NetInv'
<1>1. NetTypeOK'
  BY NetStep DEF NetInv
<1>2. CASE UNCHANGED netVars
  BY <1>2 DEF netVars, NetInv, NetTypeOK, QueueDistinct, NetTable, Children, ClientWell, Queued, Held, InHand
<1>3. CASE NetNext
  <2>1. QueueDistinct' /\ (\A d, e \in sc' : d = e) /\ NetTable' /\ \A d \in Clients : ClientWell(d)'
    BY <1>3, NetConnect, NetAccept, NetFork, NetForkFails, NetClient DEF NetNext, Parent
  <2>2. QED
    BY <1>1, <2>1 DEF NetInv
<1>4. QED
  BY <1>2, <1>3

LEMMA NetInvInit == NetInit => NetInv
<1> SUFFICES ASSUME NetInit
             PROVE  NetInv
  OBVIOUS
<1>1. NetTypeOK
  <2>1. <<>> \in Seq(Clients) /\ 0 \in 0 .. MaxAsks
    BY EmptySeq, NetServerAssumption
  <2>2. QED BY <2>1 DEF NetInit, NetTypeOK
<1>2. DOMAIN backlog = {}
  BY DEF NetInit
<1>3. Children = {} /\ ~ \E c \in Clients : cli[c] = "refused"
  BY DEF NetInit, Children
<1>4. NetTable
  <2>1. IsFiniteSet({}) /\ Cardinality({}) = 0 /\ MaxProcs \in Nat
    BY FS_EmptySet, NetServerAssumption
  <2>2. QED
    BY <1>3, <2>1 DEF NetTable
<1>5. \A c \in Clients : ClientWell(c)
  BY <1>2 DEF NetInit, ClientWell, Queued
<1>6. QED
  BY <1>1, <1>2, <1>4, <1>5 DEF NetInit, NetInv, QueueDistinct

(***************************************************************************)
(* server.c:60-88, for any number of clients and any size of the process   *)
(* table: nobody who has asked is forgotten, only a server whose table is  *)
(* full turns a client away, and a child spins or ends only when its own   *)
(* client has gone.                                                        *)
(***************************************************************************)
NobodyForgotten ==
  /\ Cardinality(Children) <= MaxProcs
  /\ \A c \in Clients :
       /\ cli[c] = "asked" => InHand(c)
       /\ cli[c] = "refused" => Cardinality(Children) = MaxProcs
       /\ child[c] \in {"spin", "zombie"} => cli[c] = "gone"

LEMMA NetServes == NetInv => NobodyForgotten
BY DEF NetInv, NetTable, ClientWell, NobodyForgotten

(***************************************************************************)
(* server.c:60-88.  Whatever the clients and the children do, and however  *)
(* many they are, no client that has connected is forgotten.               *)
(***************************************************************************)
THEOREM NetServerSound == ProgramsSpec => []NobodyForgotten
<1>1. ProgramsInit => NetInv
  BY NetInvInit DEF ProgramsInit
<1>2. [ProgramsNext]_programVars => [NetNext]_netVars
  BY DEF ProgramsNext, programVars
<1>3. NetInv /\ [NetNext]_netVars => NetInv'
  BY NetInvStep
<1>4. QED
  BY <1>1, <1>2, <1>3, NetServes, PTL DEF ProgramsSpec

-----------------------------------------------------------------------------
(***************************************************************************)
(* MqttBuffer.                                                             *)
(***************************************************************************)
(* Every extent of the current chunk ends before the first free byte. *)
BelowUsed ==
  \A e \in exts : e.chunk = Len(chunks) => e.off + Header + e.room <= used

(* The free part of the current chunk is exactly what is available. *)
RestAvailable ==
  IF chunks = <<>> THEN avail = 0 /\ used = 0
                   ELSE used + avail = chunks[Len(chunks)]

(***************************************************************************)
(* The inductive invariant: disjointness alone is not inductive, since a   *)
(* step must know that the free part of the current chunk lies behind all  *)
(* of its extents and ends where the chunk ends.                           *)
(***************************************************************************)
BufInv ==
  /\ SlotsSuffice
  /\ RestAvailable
  /\ BelowUsed
  /\ ExtentsInside
  /\ ExtentsDisjoint

-----------------------------------------------------------------------------
(* What mqtt_buffer.c:41-43 computes covers the header and the payload. *)
LEMMA AlignedCovers ==
  ASSUME NEW bytes \in Nat
  PROVE  /\ Aligned(bytes) \in Nat
         /\ Aligned(bytes) >= bytes + Header
         /\ Aligned(bytes) > 0
<1> DEFINE n == bytes + Header
           k == Alignment - (n % Alignment)
<1>1. Alignment \in Nat /\ Alignment > 0 /\ Header \in Nat /\ Header > 0
  BY MqttBufferAssumption
<1>2. n \in Nat /\ n > 0
  BY <1>1
<1>3. k \in Int
  BY <1>1, <1>2
<1>4. k % Alignment \in 0 .. (Alignment - 1)
  BY <1>1, <1>3
<1>5. Aligned(bytes) = n + (k % Alignment)
  BY DEF Aligned
<1>6. QED
  BY <1>1, <1>2, <1>4, <1>5

(* A new chunk is large enough for the extent it is made for. *)
LEMMA ChunkCovers ==
  ASSUME NEW bytes \in Nat
  PROVE  ChunkSize(bytes) \in Nat /\ ChunkSize(bytes) >= Aligned(bytes)
BY AlignedCovers, MqttBufferAssumption DEF ChunkSize

(* The sizes that the buffer's operations allocate are numbers. *)
LEMMA SizesNat ==
  /\ \A bytes \in Sizes : bytes \in Nat
  /\ Header \in Nat
BY MqttBufferAssumption

(* One allocation keeps the types and the layout of the arena. *)
LEMMA NewExtentStep ==
  ASSUME TypeOK, BufInv,
         NEW bytes \in Nat, NewExtent(bytes, NextExtent(bytes))
  PROVE  /\ BufInv'
         /\ NextExtent(bytes) \in Extent
         /\ chunks' \in Seq(Nat) /\ max' \in Nat /\ avail' \in Nat
         /\ used' \in Nat /\ exts' \subseteq Extent
         /\ heap \in Int => heap' \in Int
<1> DEFINE e == NextExtent(bytes)
<1>1. /\ Aligned(bytes) \in Nat
      /\ Aligned(bytes) >= bytes + Header
      /\ Aligned(bytes) > 0
      /\ Header \in Nat /\ Header > 0
  BY AlignedCovers, MqttBufferAssumption
<1>2. ChunkSize(bytes) \in Nat /\ ChunkSize(bytes) >= Aligned(bytes)
  BY ChunkCovers
<1>3. CASE Carve(bytes, e)
  <2>1. /\ avail >= Aligned(bytes)
        /\ e = [chunk |-> Len(chunks), off |-> used, room |-> bytes]
        /\ exts' = exts \cup {e}
        /\ used' = used + Aligned(bytes)
        /\ avail' = avail - Aligned(bytes)
        /\ chunks' = chunks /\ max' = max /\ heap' = heap
    BY <1>3 DEF Carve, Fits
  <2>2. chunks # <<>>
    BY <1>1, <2>1 DEF BufInv, RestAvailable
  <2>3. Len(chunks) \in DOMAIN chunks /\ chunks[Len(chunks)] \in Nat
    BY <2>2 DEF TypeOK
  <2>4. e \in Extent
    BY <2>1 DEF Extent, TypeOK
  <2>5. used' \in Nat /\ avail' \in Nat /\ exts' \subseteq Extent
    BY <1>1, <2>1, <2>4 DEF TypeOK
  <2>6. SlotsSuffice' /\ RestAvailable'
    BY <1>1, <2>1, <2>2, <2>3, SMTT(30) DEF BufInv, SlotsSuffice, RestAvailable, TypeOK
  <2>7. BelowUsed'
    BY <1>1, <2>1, <2>4, SMTT(30) DEF BufInv, BelowUsed, TypeOK, Extent
  <2>8. ExtentsInside'
    <3>1. e.off + Header + e.room <= chunks[e.chunk]
      BY <1>1, <2>1, <2>2, <2>3 DEF BufInv, RestAvailable, TypeOK
    <3>2. QED
      BY <2>1, <2>3, <3>1 DEF BufInv, ExtentsInside
  <2>9. ExtentsDisjoint'
    <3>1. \A f \in exts : Apart(e, f) /\ Apart(f, e)
      BY <1>1, <2>1 DEF BufInv, BelowUsed, Apart, TypeOK, Extent
    <3>2. QED
      BY <2>1, <3>1 DEF BufInv, ExtentsDisjoint, Apart
  <2>10. QED
    BY <2>1, <2>4, <2>5, <2>6, <2>7, <2>8, <2>9 DEF BufInv, TypeOK
<1>4. CASE CarveNewChunk(bytes, e)
  <2>1. /\ e = [chunk |-> Len(chunks) + 1, off |-> 0, room |-> bytes]
        /\ exts' = exts \cup {e}
        /\ used' = Aligned(bytes)
        /\ avail' = ChunkSize(bytes) - Aligned(bytes)
        /\ chunks' = Append(chunks, ChunkSize(bytes))
        /\ max' = Grown
    BY <1>4 DEF CarveNewChunk
  <2>2. /\ chunks' \in Seq(Nat)
        /\ Len(chunks') = Len(chunks) + 1
        /\ Len(chunks) \in Nat
        /\ chunks'[Len(chunks) + 1] = ChunkSize(bytes)
        /\ \A i \in DOMAIN chunks : i \in DOMAIN chunks' /\ chunks'[i] = chunks[i]
        /\ Len(chunks) + 1 \in DOMAIN chunks'
        /\ chunks' # <<>>
    BY <1>2, <2>1 DEF TypeOK
  <2>3. \A f \in exts : f.chunk \in DOMAIN chunks /\ f.chunk # Len(chunks) + 1
    BY DEF BufInv, ExtentsInside, TypeOK
  <2>4. e \in Extent
    BY <2>1, <2>2 DEF Extent
  <2>5. used' \in Nat /\ avail' \in Nat /\ exts' \subseteq Extent
    BY <1>1, <1>2, <2>1, <2>4 DEF TypeOK
  <2>6. max' \in Nat /\ SlotsSuffice'
    BY <2>1, <2>2 DEF Grown, BufInv, SlotsSuffice, TypeOK
  <2>7. RestAvailable'
    BY <1>1, <1>2, <2>1, <2>2 DEF RestAvailable
  <2>8. BelowUsed'
    BY <1>1, <2>1, <2>2, <2>3 DEF BelowUsed
  <2>9. ExtentsInside'
    <3>1. e.chunk \in DOMAIN chunks' /\ e.off + Header + e.room <= chunks'[e.chunk]
      BY <1>1, <1>2, <2>1, <2>2
    <3>2. \A f \in exts : /\ f.chunk \in DOMAIN chunks'
                          /\ f.off + Header + f.room <= chunks'[f.chunk]
      BY <2>2 DEF BufInv, ExtentsInside
    <3>3. QED
      BY <2>1, <3>1, <3>2 DEF ExtentsInside
  <2>10. ExtentsDisjoint'
    <3>1. \A f \in exts : Apart(e, f) /\ Apart(f, e)
      BY <2>1, <2>3 DEF Apart
    <3>2. QED
      BY <2>1, <3>1 DEF BufInv, ExtentsDisjoint, Apart
  <2>11. heap \in Int => heap' \in Int
    BY <1>4 DEF CarveNewChunk, ArrayBlocks
  <2>12. QED
    BY <2>2, <2>4, <2>5, <2>6, <2>7, <2>8, <2>9, <2>10, <2>11 DEF BufInv
<1>5. QED
  BY <1>3, <1>4 DEF NewExtent

(* Every operation keeps the types and the layout of the arena. *)
LEMMA BufStep == TypeOK /\ BufInv /\ [Next]_vars => TypeOK' /\ BufInv'
<1> SUFFICES ASSUME TypeOK, BufInv, [Next]_vars
             PROVE  TypeOK' /\ BufInv'
  OBVIOUS
<1>1. ASSUME NEW bytes \in Sizes, AllocExtent(bytes)
      PROVE  TypeOK' /\ BufInv'
  BY <1>1, SizesNat, NewExtentStep DEF AllocExtent, TypeOK
<1>2. ASSUME NEW bytes \in Sizes, AllocFails(bytes)
      PROVE  TypeOK' /\ BufInv'
  BY <1>2 DEF AllocFails, Grown, ArrayBlocks, TypeOK, BufInv, SlotsSuffice,
              RestAvailable, BelowUsed, ExtentsInside, ExtentsDisjoint, Apart
<1>3. ASSUME NEW e \in exts, NEW len \in Sizes, AppendExtent(e, len)
      PROVE  TypeOK' /\ BufInv'
  <2>1. TypeOK'
    BY <1>3, SizesNat DEF AppendExtent, Link, TypeOK
  <2>2. BufInv'
    BY <1>3 DEF AppendExtent, BufInv, SlotsSuffice, RestAvailable, BelowUsed,
                ExtentsInside, ExtentsDisjoint, Apart
  <2>3. QED
    BY <2>1, <2>2
<1>4. ASSUME NEW size \in Sizes, NEW own \in BOOLEAN, Append_(size, own)
      PROVE  TypeOK' /\ BufInv'
  <2> DEFINE bytes == IF own THEN size ELSE Header
  <2>1. bytes \in Nat /\ size \in Nat
    BY SizesNat
  <2>2. NewExtent(bytes, NextExtent(bytes)) /\ Link(NextExtent(bytes), size)
    BY <1>4 DEF Append_
  <2>3. /\ BufInv' /\ NextExtent(bytes) \in Extent
        /\ chunks' \in Seq(Nat) /\ max' \in Nat /\ avail' \in Nat
        /\ used' \in Nat /\ exts' \subseteq Extent /\ heap' \in Int
    BY <2>1, <2>2, NewExtentStep DEF TypeOK
  <2>4. list' \in Seq([ext : Extent, len : Nat]) /\ buffered' \in Nat
    BY <2>1, <2>2, <2>3 DEF Link, TypeOK
  <2>5. QED
    BY <2>3, <2>4 DEF TypeOK
<1>5. CASE Reset
  <2>1. TypeOK'
    BY <1>5 DEF Reset, TypeOK, ArrayBlocks
  <2>2. BufInv'
    BY <1>5 DEF Reset, BufInv, SlotsSuffice, RestAvailable, BelowUsed,
                ExtentsInside, ExtentsDisjoint
  <2>3. QED
    BY <2>1, <2>2
<1>6. CASE UNCHANGED vars
  BY <1>6 DEF vars, TypeOK, BufInv, SlotsSuffice, RestAvailable, BelowUsed,
              ExtentsInside, ExtentsDisjoint, Apart
<1>7. QED
  BY <1>1, <1>2, <1>3, <1>4, <1>5, <1>6 DEF Next

(* A fresh buffer is well laid out. *)
LEMMA BufInit == Init => TypeOK /\ BufInv
BY DEF Init, TypeOK, BufInv, SlotsSuffice, RestAvailable, BelowUsed,
       ExtentsInside, ExtentsDisjoint

(* The arena's layout holds in every reachable state. *)
LEMMA Layout == Spec => [](TypeOK /\ BufInv)
BY BufInit, BufStep, PTL DEF Spec

(***************************************************************************)
(* Type correctness: the space left in a chunk never becomes negative.     *)
(***************************************************************************)
THEOREM TypeCorrect == Spec => []TypeOK
BY Layout, PTL

(***************************************************************************)
(* The array of chunk pointers always has a slot for every chunk.          *)
(***************************************************************************)
THEOREM Slots == Spec => []SlotsSuffice
<1>1. BufInv => SlotsSuffice
  BY DEF BufInv
<1>2. QED
  BY <1>1, Layout, PTL

(***************************************************************************)
(* Every extent lies inside a chunk that the buffer owns.                  *)
(***************************************************************************)
THEOREM Inside == Spec => []ExtentsInside
<1>1. BufInv => ExtentsInside
  BY DEF BufInv
<1>2. QED
  BY <1>1, Layout, PTL

(***************************************************************************)
(* No two extents of a buffer share a byte.                                *)
(***************************************************************************)
THEOREM Disjoint == Spec => []ExtentsDisjoint
<1>1. BufInv => ExtentsDisjoint
  BY DEF BufInv
<1>2. QED
  BY <1>1, Layout, PTL

-----------------------------------------------------------------------------
(* The allocations array is at most one block. *)
LEMMA GrownBlocks ==
  ASSUME TypeOK
  PROVE  Grown \in Nat /\ ArrayBlocks(Grown) \in Nat /\ ArrayBlocks(max) \in Nat
BY DEF Grown, ArrayBlocks, TypeOK

(* Each operation changes the heap by exactly the blocks that enter or     *)
(* leave the buffer.                                                       *)
LEMMA LeakStep == TypeOK /\ NoLeak /\ [Next]_vars => NoLeak'
<1> SUFFICES ASSUME TypeOK, NoLeak, [Next]_vars
             PROVE  NoLeak'
  OBVIOUS
<1>1. ASSUME NEW bytes \in Nat, NewExtent(bytes, NextExtent(bytes))
      PROVE  NoLeak'
  <2>1. CASE Carve(bytes, NextExtent(bytes))
    BY <2>1 DEF Carve, NoLeak
  <2>2. CASE CarveNewChunk(bytes, NextExtent(bytes))
    <3>1. ChunkSize(bytes) \in Nat
      BY ChunkCovers
    <3>2. Len(chunks') = Len(chunks) + 1 /\ Len(chunks) \in Nat
      BY <2>2, <3>1 DEF CarveNewChunk, TypeOK
    <3>3. /\ max' = Grown
          /\ heap' = heap + 1 + ArrayBlocks(Grown) - ArrayBlocks(max)
      BY <2>2 DEF CarveNewChunk
    <3>4. ArrayBlocks(max') = ArrayBlocks(Grown)
      BY <3>3
    <3>5. heap' = Len(chunks') + ArrayBlocks(max')
      BY <3>2, <3>3, <3>4, GrownBlocks DEF NoLeak
    <3>6. QED
      BY <3>5 DEF NoLeak
  <2>3. QED
    BY <1>1, <2>1, <2>2 DEF NewExtent
<1>2. ASSUME NEW bytes \in Sizes, AllocExtent(bytes)
      PROVE  NoLeak'
  BY <1>1, <1>2, SizesNat DEF AllocExtent
<1>3. ASSUME NEW bytes \in Sizes, AllocFails(bytes)
      PROVE  NoLeak'
  BY <1>3, GrownBlocks DEF AllocFails, NoLeak, TypeOK
<1>4. ASSUME NEW e \in exts, NEW len \in Sizes, AppendExtent(e, len)
      PROVE  NoLeak'
  BY <1>4 DEF AppendExtent, NoLeak
<1>5. ASSUME NEW size \in Sizes, NEW own \in BOOLEAN, Append_(size, own)
      PROVE  NoLeak'
  <2>1. (IF own THEN size ELSE Header) \in Nat
    BY SizesNat
  <2>2. QED
    BY <1>1, <1>5, <2>1 DEF Append_
<1>6. CASE Reset
  <2>1. Len(<<>>) = 0 /\ Len(chunks) \in Nat
    BY DEF TypeOK
  <2>2. QED
    BY <1>6, <2>1 DEF Reset, NoLeak, ArrayBlocks, TypeOK
<1>7. CASE UNCHANGED vars
  BY <1>7 DEF vars, NoLeak
<1>8. QED
  BY <1>2, <1>3, <1>4, <1>5, <1>6, <1>7 DEF Next

(***************************************************************************)
(* The buffer never loses a block, whichever allocations fail.             *)
(***************************************************************************)
THEOREM LeakFree == Spec => []NoLeak
<1>1. Init => NoLeak
  BY DEF Init, NoLeak, ArrayBlocks
<1>2. QED
  BY <1>1, LeakStep, TypeCorrect, PTL DEF Spec

-----------------------------------------------------------------------------
(* The packet's length, as a sum of which SequenceFacts knows the laws. *)
LEMMA TotalIsLenSum == \A extents : Total(extents) = LenSum(extents)
BY DEF Total, LenSum

(* Linking an extent adds the same to both. *)
LEMMA LinkCounts ==
  ASSUME TypeOK, BufferedIsTotal, NEW e \in Extent, NEW len \in Nat, Link(e, len)
  PROVE  BufferedIsTotal'
<1> DEFINE R == [ext : Extent, len : Nat]
           r == [ext |-> e, len |-> len]
<1>1. list \in Seq(R) /\ buffered = Total(list) /\ (\A q \in R : q.len \in Nat) /\ r \in R /\ r.len = len
  BY DEF TypeOK, BufferedIsTotal
<1>2. list' = Append(list, r) /\ buffered' = buffered + len
  BY DEF Link
<1> HIDE DEF R, r
<1>3. Total(list) \in Nat /\ Total(Append(list, r)) = Total(list) + r.len
  BY <1>1, TotalIsLenSum, LenSumAppend
<1>4. QED
  BY <1>1, <1>2, <1>3 DEF BufferedIsTotal

LEMMA TotalStep == TypeOK /\ BufInv /\ BufferedIsTotal /\ [Next]_vars => BufferedIsTotal'
<1> SUFFICES ASSUME TypeOK, BufInv, BufferedIsTotal, [Next]_vars
             PROVE  BufferedIsTotal'
  OBVIOUS
<1>1. ASSUME UNCHANGED <<list, buffered>>
      PROVE  BufferedIsTotal'
  BY <1>1 DEF BufferedIsTotal
<1>2. ASSUME NEW bytes \in Sizes, AllocExtent(bytes) \/ AllocFails(bytes)
      PROVE  BufferedIsTotal'
  BY <1>1, <1>2 DEF AllocExtent, AllocFails
<1>3. ASSUME NEW e \in exts, NEW len \in Sizes, AppendExtent(e, len)
      PROVE  BufferedIsTotal'
  <2>1. e \in Extent /\ len \in Nat
    BY SizesNat DEF TypeOK
  <2>2. QED
    BY <1>3, <2>1, LinkCounts DEF AppendExtent
<1>4. ASSUME NEW size \in Sizes, NEW own \in BOOLEAN, Append_(size, own)
      PROVE  BufferedIsTotal'
  <2> DEFINE bytes == IF own THEN size ELSE Header
  <2>1. bytes \in Nat /\ size \in Nat
    BY SizesNat
  <2>2. NewExtent(bytes, NextExtent(bytes)) /\ Link(NextExtent(bytes), size)
    BY <1>4 DEF Append_
  <2>3. NextExtent(bytes) \in Extent
    BY <2>1, <2>2, NewExtentStep
  <2>4. QED
    BY <2>1, <2>2, <2>3, LinkCounts
<1>5. CASE Reset
  BY <1>5, LenSumEmpty, TotalIsLenSum DEF Reset, BufferedIsTotal
<1>6. CASE UNCHANGED vars
  BY <1>1, <1>6 DEF vars
<1>7. QED
  BY <1>2, <1>3, <1>4, <1>5, <1>6 DEF Next

(***************************************************************************)
(* buffered_bytes is the length of the packet in the list, for every       *)
(* sequence of allocations, appends and resets: what MqttBuffer_Append-    *)
(* Extent adds is what the senders later count down.                       *)
(***************************************************************************)
THEOREM BufferedCounts == Spec => []BufferedIsTotal
<1>1. Init => BufferedIsTotal
  BY LenSumEmpty, TotalIsLenSum DEF Init, BufferedIsTotal
<1>2. QED
  BY <1>1, TotalStep, Layout, PTL DEF Spec
=============================================================================
