SPECIFICATION FairSpec
CONSTANTS
  Shape <- MCShape
  MaxTyped = 2
  MaxInput = 0
PROPERTIES StdinUnblocked
CHECK_DEADLOCK FALSE
