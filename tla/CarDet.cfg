CONSTANTS
  Second = 3
  CrossMax = 1
  MaxLag = 1
  MaxTime = 13
  FreeTime = 7
  LastEdge = 3
  MaxEdges = 2
  Modes = {"orderly", "stray", "free"}
SPECIFICATION FairSpec
INVARIANTS TypeOK CountExact NoPhantomCount
PROPERTIES Rearms ReportConverges
CHECK_DEADLOCK FALSE
