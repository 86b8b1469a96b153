SPECIFICATION LiveSpec
CONSTANTS
  TAGSIZE = 2
  CHUNK_SIZE = 6
  Level = 2
  InitMode = 98
  Modes = {82, 98}
  ClientLevels = {2}
  FileSizes <- SomeSizes
  Lib <- MCLib
  NativeAt <- Idle
  SwitchAt <- Anywhere
INVARIANT SilentIsIntact
CHECK_DEADLOCK FALSE
