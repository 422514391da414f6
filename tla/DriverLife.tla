----------------------------- MODULE DriverLife -----------------------------
(***************************************************************************)
(* Loading and unloading the kernel modules: cardet/driver/dev.c,          *)
(* ok335xDriver/ds18b20, ok335xDriver/ioremap/userio.c, 4412Drive/ledsTest,*)
(* devNodeRegister and driverRegister, one of them at a time.              *)
(*                                                                         *)
(* An init function acquires its resources one by one, and the kernel may  *)
(* refuse any; the drivers differ in the order, in what they do about a    *)
(* refusal, and in what they release.  As soon as the kernel knows a       *)
(* driver's functions, programs and interrupts call them, while init is    *)
(* still at work and after it has failed.  A probe function is called      *)
(* inside platform_driver_register: the device is in the board's file.     *)
(* The kernel is external: a name (a GPIO, an interrupt, a class, a        *)
(* driver) is given to one holder only, an open file keeps its module      *)
(* loaded, deregistering what was not registered has no effect.            *)
(***************************************************************************)
EXTENDS Naturals, Sequences, FiniteSets

CONSTANTS
  Drivers,     \* those that are looked at
  MaxLoads,    \* bound: calls of insmod
  MaxRefusals, \* bound: times that the kernel is out of something
  MaxOpens     \* bound: files open at a time

Acquires == [
  cardet     |-> <<"gpio", "irq", "region", "alloc", "cdev", "class", "node">>,
  ds18b20    |-> <<"region", "cdev", "class", "node", "gpio">>,
  userio     |-> <<"region", "cdev", "class", "node", "oe", "setdataout", "dataout">>,
  leds       |-> <<"driver", "gpio", "misc">>,
  devnodereg |-> <<"driver", "misc">>,
  driverReg  |-> <<"driver">> ]

(* Mutant: the device is not deregistered. *)
ReleasesNoDevice == [
  cardet     |-> {"gpio", "irq", "region", "alloc", "class", "node"},
  ds18b20    |-> {"region", "class", "node"},
  userio     |-> {"region", "class", "node"},
  leds       |-> {"driver"},
  devnodereg |-> {"driver"},
  driverReg  |-> {"driver"} ]

Releases == [
  cardet     |-> {"gpio", "irq", "region", "alloc", "cdev", "class", "node"},
  ds18b20    |-> {"region", "cdev", "class", "node"},
  userio     |-> {"region", "cdev", "class", "node"},
  leds       |-> {"driver", "misc"},
  devnodereg |-> {"driver", "misc"},
  driverReg  |-> {"driver"} ]

ASSUME DriverLifeAssumption ==
  /\ Drivers \subseteq DOMAIN Acquires
  /\ MaxLoads \in Nat /\ MaxRefusals \in Nat /\ MaxOpens \in Nat

VARIABLES
  drv,      \* the driver
  mod,      \* "out", "coming", "live", or "oops": the kernel has crashed
  loads,
  at,       \* resources init has asked for
  held,     \* what this load was given
  left,     \* what earlier loads were given and did not release
  refused,  \* what this load was not given
  refusals, \* times that the kernel was out of something
  opens

driverVars == <<drv, mod, loads, at, held, left, refused, refusals, opens>>

DriverInit ==
  /\ drv \in Drivers
  /\ mod = "out"
  /\ loads = 0
  /\ at = 0
  /\ held = {}
  /\ left = {}
  /\ refused = {}
  /\ refusals = 0
  /\ opens = 0

-----------------------------------------------------------------------------
(* cardet frees its GPIOs before it asks for them. *)
Insmod ==
  /\ mod = "out"
  /\ loads < MaxLoads
  /\ mod' = "coming"
  /\ loads' = loads + 1
  /\ at' = 0
  /\ held' = {}
  /\ left' = IF drv = "cardet" THEN left \ {"gpio"} ELSE left
  /\ refused' = {}
  /\ UNCHANGED <<drv, refusals, opens>>

Wanted == Acquires[drv][at + 1]

(* Its name is taken, or the class it belongs to is missing. *)
Unavailable(r) ==
  \/ r \in left \cap {"gpio", "irq", "class", "node", "misc", "driver"}
  \/ r = "node" /\ "class" \notin held

Grant ==
  /\ mod = "coming"
  /\ at < Len(Acquires[drv])
  /\ ~Unavailable(Wanted)
  /\ at' = at + 1
  /\ held' = held \cup {Wanted}
  /\ UNCHANGED <<drv, mod, loads, left, refused, refusals, opens>>

(* Mutant: cdev_add's error is returned at once. *)
OnRefusedUndoNot(r) ==
  CASE drv = "cardet" /\ r \in {"region", "alloc", "class"} -> "leave"
    [] drv = "cardet" /\ r = "cdev"                         -> "return"
    [] drv \in {"ds18b20", "userio"} /\ r = "cdev"          -> "leave"
    [] drv \in {"leds", "devnodereg"} /\ r # "misc"         -> "return"
    [] OTHER                                                -> "on"

(* What init does about it: it goes on; it returns an error and leaves what
   it has; or it returns an error after releasing.  cardet returns the 0 of
   an earlier call when cdev_add fails; the init of a platform driver
   returns 0 always, but nothing is probed, or the probe goes no further. *)
OnRefused(r) ==
  CASE drv = "cardet" /\ r \in {"region", "alloc", "class"} -> "leave"
    [] drv = "cardet" /\ r = "cdev"                         -> "return"
    [] drv \in {"ds18b20", "userio"} /\ r = "cdev"          -> "undo"
    [] drv \in {"leds", "devnodereg"} /\ r # "misc"         -> "return"
    [] OTHER                                                -> "on"

Refuse ==
  /\ mod = "coming"
  /\ at < Len(Acquires[drv])
  /\ \/ Unavailable(Wanted) /\ UNCHANGED refusals
     \/ ~Unavailable(Wanted) /\ refusals < MaxRefusals /\ refusals' = refusals + 1
  /\ refused' = refused \cup {Wanted}
  /\ \/ /\ OnRefused(Wanted) = "on"
        /\ at' = at + 1
        /\ UNCHANGED <<mod, held, left>>
     \/ /\ OnRefused(Wanted) = "return"
        /\ at' = Len(Acquires[drv])
        /\ held' = held \ {"region"}
        /\ UNCHANGED <<mod, left>>
     \/ /\ OnRefused(Wanted) \in {"leave", "undo"}
        /\ mod' = "out"
        /\ left' = left \cup (IF OnRefused(Wanted) = "undo" THEN held \ {"region"} ELSE held)
        /\ held' = {}
        /\ at' = 0
  /\ UNCHANGED <<drv, loads, opens>>

(* userio ends with three writes through its mappings. *)
InitDone ==
  /\ mod = "coming"
  /\ at = Len(Acquires[drv])
  /\ mod' = IF drv = "userio" /\ ~({"oe", "setdataout", "dataout"} \subseteq held)
            THEN "oops" ELSE "live"
  /\ UNCHANGED <<drv, loads, at, held, left, refused, refusals, opens>>

-----------------------------------------------------------------------------
Entry == {"cdev", "misc"}

Oops == mod' = "oops" /\ UNCHANGED <<drv, loads, at, held, left, refused, refusals, opens>>

OpenFile ==
  /\ mod \in {"coming", "live"}
  /\ held \cap Entry # {}
  /\ opens < MaxOpens
  /\ opens' = opens + 1
  /\ UNCHANGED <<drv, mod, loads, at, held, left, refused, refusals>>

CloseFile ==
  /\ mod \in {"coming", "live"}
  /\ opens > 0
  /\ opens' = opens - 1
  /\ UNCHANGED <<drv, mod, loads, at, held, left, refused, refusals>>

(* A write to userio: dataout is NULL until it is mapped. *)
WriteUnmapped == drv = "userio" /\ opens > 0 /\ "dataout" \notin held /\ mod # "oops" /\ Oops

(* An edge, an open or a probe reaches the code of a load that is gone. *)
CallGone ==
  /\ mod # "oops"
  /\ \/ left \cap (Entry \cup {"irq", "driver"}) # {}
     \/ mod = "out" /\ opens > 0
  /\ Oops

(* ds18b20 and userio destroy the device of a class they did not get. *)
Rmmod ==
  /\ mod = "live"
  /\ opens = 0
  /\ IF drv \in {"ds18b20", "userio"} /\ "class" \notin held
     THEN Oops
     ELSE /\ mod' = "out"
          /\ left' = (left \ (Releases[drv] \cap {"gpio", "irq"})) \cup (held \ Releases[drv])
          /\ held' = {}
          /\ at' = 0
          /\ UNCHANGED <<drv, loads, refused, refusals, opens>>

DriverNext ==
  \/ Insmod
  \/ Grant
  \/ Refuse
  \/ InitDone
  \/ OpenFile
  \/ CloseFile
  \/ WriteUnmapped
  \/ CallGone
  \/ Rmmod

DriverSpec == DriverInit /\ [][DriverNext]_driverVars

-----------------------------------------------------------------------------
All == { Acquires[drv][i] : i \in 1 .. Len(Acquires[drv]) }

DriverTypeOK ==
  /\ drv \in Drivers
  /\ mod \in {"out", "coming", "live", "oops"}
  /\ loads \in 0 .. MaxLoads
  /\ at \in 0 .. Len(Acquires[drv])
  /\ held \subseteq All
  /\ left \subseteq All
  /\ refused \subseteq All
  /\ refusals \in 0 .. MaxRefusals
  /\ opens \in 0 .. MaxOpens

(***************************************************************************)
(* dev.c:112-176, ds18b20.c:175-229, userio.c:77-177, ledsDriver.c:62-126. *)
(* The kernel calls into a driver only while it is there and ready, but    *)
(* for three flaws: an init of cardet that failed leaves its interrupts    *)
(* and its device behind, userio uses registers that are not mapped (yet), *)
(* ds18b20 and userio are unloaded without the class that they did not get.*)
(***************************************************************************)
CrashesForCause == mod = "oops" =>
  \/ drv = "cardet" /\ left # {}
  \/ drv = "userio" /\ ~({"oe", "setdataout", "dataout"} \subseteq held)
  \/ drv \in {"ds18b20", "userio"} /\ "class" \in refused

Kept == [
  cardet |-> {}, ds18b20 |-> {"gpio"}, userio |-> {"oe", "setdataout", "dataout"},
  leds |-> {"gpio"}, devnodereg |-> {}, driverReg |-> {} ]

NotAgain == [
  cardet |-> {}, ds18b20 |-> {"gpio"}, userio |-> {},
  leds |-> {"gpio", "misc"}, devnodereg |-> {}, driverReg |-> {} ]

(***************************************************************************)
(* dev.c:148-176, ds18b20.c:207-229, userio.c:141-177, ledsDriver.c:62-85. *)
(* What a driver was given it gives back, when its init fails as when it   *)
(* is unloaded, but for the GPIO of ds18b20 and leds, userio's mappings    *)
(* and a failed init of cardet; and so it can be loaded again, but for     *)
(* leds, which then finds its own GPIO taken and registers no device.      *)
(***************************************************************************)
LoadsAgain ==
  /\ mod = "out" /\ (refusals = 0 \/ drv # "cardet") => left \subseteq Kept[drv]
  /\ mod = "live" /\ refusals = 0 =>
       All \ held = IF loads = 1 THEN {} ELSE NotAgain[drv]
=============================================================================
