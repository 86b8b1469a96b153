SPECIFICATION LiveSpec
CONSTANTS
  f1 = f1
  f2 = f2
  f3 = f3
  f4 = f4
  Names <- MCNames
  Rand <- MCRand
INVARIANT TypeOK
PROPERTIES FilesKept NameFound
