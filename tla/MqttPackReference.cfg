CONSTANTS
  Strings = {3, 65536}
  Sizes = {0, 122}
  DataSizes = {1}
  Owns = {TRUE, FALSE}
  InfoLen = 60
  MaxPkts = 1
  MaxExts = 3
SPECIFICATION Spec
CHECK_DEADLOCK FALSE
INVARIANT ReferencesLive
