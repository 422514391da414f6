SPECIFICATION FairSpec
CONSTANTS
  Shape <- MCShape
  MaxTyped = 3
  MaxInput = 1
INVARIANTS TypeOK WireExact OnlyRepliesWait
PROPERTIES RepliesSurvive StdinServed
CHECK_DEADLOCK FALSE
