CONSTANTS
  Strings = {3, 65536}
  Sizes = {0, 122, 2097146, 268435451}
  DataSizes = {1}
  Owns = {TRUE}
  InfoLen = 60
  MaxPkts = 2
  MaxExts = 4
SPECIFICATION Spec
CHECK_DEADLOCK FALSE
INVARIANTS TypeOK LengthsRight FullyWritten BufferedRight
PROPERTY RefusedUntouched
