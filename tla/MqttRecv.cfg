SPECIFICATION FairSpec
CONSTANTS
  Clients = {"sample", "app"}
  BufSize = 8
  Packets <- MCPackets
  MaxPkts = 2
  MaxConns = 2
INVARIANTS TypeOK BufferInPlace InStep DropsOnlyOversized
PROPERTIES Dispatched
CHECK_DEADLOCK FALSE
