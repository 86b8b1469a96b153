SPECIFICATION LiveSpec
CONSTANTS
  TAGSIZE = 2
  CHUNK_SIZE = 6
  Level = 2
  InitMode = 98
  Modes = {0, 98}
  ClientLevels = {2}
  FileSizes <- SomeSizes
  Lib <- MCLib
  NativeAt <- Anywhere
  SwitchAt <- Anywhere
INVARIANT NeverDown
CHECK_DEADLOCK FALSE
