SPECIFICATION LiveSpec
CONSTANTS
  TAGSIZE = 3
  CHUNK_SIZE = 9
  Level = 2
  InitMode = 98
  Modes = {0, 97, 98}
  ClientLevels = {2}
  FileSizes <- AllSizes
  Lib <- MCLib
  NativeAt <- Idle
  SwitchAt <- Anywhere
INVARIANTS TypeOK FilePrefix NeverDown VerdictExact IndInv
PROPERTIES ConnectionEnds ImplementsFileTransfer
