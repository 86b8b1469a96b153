SPECIFICATION LiveSpec
CONSTANTS
  Queue <- MCQueue
  Slevel <- MCSlevel
  Function <- MCFunction
  Symbols <- MCSymbols
  Complete <- NotF5
  Correct <- NotF2
  Renamable <- NotF6
  Likwid = TRUE
  MaxRestarts = 2
INVARIANTS TypeOK Consistent Measured OnlyCorrect AllLinked
PROPERTIES NumberingKept Serves
CHECK_DEADLOCK FALSE
