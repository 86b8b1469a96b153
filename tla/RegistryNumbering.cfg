SPECIFICATION LiveSpec
CONSTANTS
  Queue <- MCQueue
  Slevel <- MCSlevel
  Function <- MCFunction
  Symbols <- MCSymbols
  Complete <- NotF5
  Correct <- All
  Renamable <- All
  Likwid = TRUE
  MaxRestarts = 0
INVARIANT ContractKept
CHECK_DEADLOCK FALSE
