SPECIFICATION FairSpec
CONSTANTS
  Chunks = 2
  Attempts = 3
  Tries = 2
  Transfers = 2
  Reads = 2
  Faults = 2
INVARIANTS TypeOK ReturnedIntact EveryBeliefAnswered PromptReportsAreTrue
PROPERTIES BothReturn
CHECK_DEADLOCK FALSE
