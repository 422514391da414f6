----------------------------- MODULE MCPrograms -----------------------------
(***************************************************************************)
(* The repository's small programs, and the check of texts of the SDK,     *)
(* which have nothing in common: one of the components below runs, and the *)
(* others rest.                                                            *)
(***************************************************************************)
EXTENDS DriverLife, NetServer, MsgQueue, FifoPair, MqttUtf8

CONSTANTS
  p0, p1, p3, q3,  \* processes of msgqueue: main0, main1 and main3 twice
  c1, c2, c3

MCProgramOf == [p \in Procs |-> IF p = p0 THEN "main0" ELSE IF p = p1 THEN "main1" ELSE "main3"]

VARIABLE program

programVars == <<program, driverVars, netVars, queueVars, fifoVars, utf8Vars>>

ProgramsInit ==
  /\ program \in {"drivers", "net", "queue", "fifo", "utf8"}
  /\ DriverInit
  /\ program # "drivers" => drv = CHOOSE d \in Drivers : TRUE
  /\ NetInit
  /\ QueueInit
  /\ FifoInit
  /\ Utf8Init
  /\ program # "utf8" => str = <<>>

ProgramsNext ==
  \/ program = "drivers" /\ DriverNext /\ UNCHANGED <<program, netVars, queueVars, fifoVars, utf8Vars>>
  \/ program = "net" /\ NetNext /\ UNCHANGED <<program, driverVars, queueVars, fifoVars, utf8Vars>>
  \/ program = "queue" /\ QueueNext /\ UNCHANGED <<program, driverVars, netVars, fifoVars, utf8Vars>>
  \/ program = "fifo" /\ FifoNext /\ UNCHANGED <<program, driverVars, netVars, queueVars, utf8Vars>>
  \/ program = "utf8" /\ Utf8Next /\ UNCHANGED <<program, driverVars, netVars, queueVars, fifoVars>>

ProgramsSpec == ProgramsInit /\ [][ProgramsNext]_programVars /\ NetFairness

TypesOK == DriverTypeOK /\ NetTypeOK /\ QueueTypeOK /\ FifoTypeOK /\ Utf8TypeOK
=============================================================================
