SPECIFICATION LiveSpec
CONSTANTS
  Archs = {"aarch64", "x86_64", "no_msr"}
  SETTLE = 2
  IDLE = 8
  RUN = 12
  TAIL = 2
  SLACK = 8
  CAP = 36
  BLOCK = 2
  MaxLosses = 1
  Overruns = {0, 9}
  ATTEMPTS = 3
  TOL = 3600
  BUSY = 240000
  IdleW = 720000
  LoadW = 24000
  Bursts <- MCBursts
  Figures <- MCFigures
INVARIANTS Exclusive Paced NotDiscarded AcceptedIsNear KeptCleanest PositiveKept
PROPERTY Ends
CHECK_DEADLOCK FALSE
