SPECIFICATION LiveSpec
CONSTANTS
  Calls = {1, 2}
  MaxFaults = 1
  Counts <- MCCounts
INVARIANTS TypeOK ModeServed
PROPERTIES SwitchLasts SwitchTakesEffect HighReturns
CHECK_DEADLOCK FALSE
