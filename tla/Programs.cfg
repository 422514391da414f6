SPECIFICATION ProgramsSpec
CONSTANTS
  Drivers = {"cardet", "ds18b20", "userio", "leds", "devnodereg", "driverReg"}
  MaxLoads = 3
  MaxRefusals = 2
  MaxOpens = 1
  c1 = c1
  c2 = c2
  c3 = c3
  Clients = {c1, c2, c3}
  BACKLOG = 1
  MaxProcs = 2
  MaxAsks = 2
  p0 = p0
  p1 = p1
  p3 = p3
  q3 = q3
  Procs = {p0, p1, p3, q3}
  ProgramOf <- MCProgramOf
  Keys = {"MSGKEY", "MSG_KEY_xx", "negative"}
  BadKeys = {"negative"}
  MSGKEY = "MSGKEY"
  MSG_KEY_xx = "MSG_KEY_xx"
  QueueMax = 2
  MaxSent = 3
  MaxStarts = 2
  MaxWrites = 2
  Bytes = {0, 65, 128, 143, 144, 159, 160, 191, 194, 195, 224, 237, 240, 244, 245, 248, 252}
  MaxText = 4
INVARIANTS TypesOK CrashesForCause LoadsAgain QueueKeeps FifoInOrder FifoEndsForCause TextJudged
PROPERTIES Served
CHECK_DEADLOCK FALSE
