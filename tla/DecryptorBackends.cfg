SPECIFICATION DSpec
CONSTANTS
  Lanes <- MCLanes
  Inputs <- MCInputs
  RECORD = 32
  Streams <- MCStreams
INVARIANTS PassesCheck HashExact Authentic
PROPERTY ImplementsAes
