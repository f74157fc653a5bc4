CONSTANTS
  MAX_SAMPLES = 2
SPECIFICATION SignalFairSpec
INVARIANTS
  NothingRead
PROPERTIES
  CrashesAtSecondBuffer
  Completes
CHECK_DEADLOCK FALSE
