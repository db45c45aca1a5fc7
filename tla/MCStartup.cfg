CONSTANTS
  STARTUP_INHIBIT_MS = 5
  STARTUP_RETRY_MS = 5
  STARTUP_WEEKLY_MS = 7
  STARTUP_ATTEMPT_LIMIT = 3
  STARTUP_BURN_MS = 2
  STARTUP_RESPONSE_MS = 2
  STARTUP_HELLO_RETRY_MS = 2
  STARTUP_CHECKPOINT_MS = 2
  STARTUP_POLL_MS = 1
  Work = 1
  InboxCap = 2
  NoRecord = NoRecord
SPECIFICATION Spec
INVARIANTS
  TypeOK
  OnImpliesReserved
  HandshakeCausality
  RamAheadOfMedia
  SavesAreValid
  ProgressLossBounded
PROPERTIES
  BurnSpacing
  ImplementsDeployment
  DurableProgress
CHECK_DEADLOCK FALSE
