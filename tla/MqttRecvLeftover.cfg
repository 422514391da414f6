SPECIFICATION Spec
CONSTANTS
  Clients = {"sample"}
  BufSize = 8
  Packets <- MCSimplePackets
  MaxPkts = 3
  MaxConns = 1
INVARIANTS LeftoverKept
CHECK_DEADLOCK FALSE
