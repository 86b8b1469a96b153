SPECIFICATION LiveSpec
CONSTANTS
  TAGSIZE = 2
  CHUNK_SIZE = 6
  Level = 2
  InitMode = 98
  Modes = {0, 97, 98, 111}
  ClientLevels = {1, 2}
  FileSizes <- AllSizes
  Lib <- MCLib
  NativeAt <- Idle
  SwitchAt <- Anywhere
INVARIANT SilentIsIntact
PROPERTY ConnectionEnds
CHECK_DEADLOCK FALSE
