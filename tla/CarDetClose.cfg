CONSTANTS
  Second = 3
  CrossMax = 1
  MaxLag = 1
  MaxTime = 13
  FreeTime = 7
  LastEdge = 5
  MaxEdges = 2
  Modes = {"close"}
SPECIFICATION Spec
INVARIANT EveryCarCounted
CHECK_DEADLOCK FALSE
