SPECIFICATION Spec
CONSTANTS
  Chunks = 2
  Attempts = 2
  Tries = 2
  Transfers = 1
  Reads = 1
  Faults = 0
INVARIANTS ReportedMeansReceived
CHECK_DEADLOCK FALSE
