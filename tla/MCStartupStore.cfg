CONSTANTS
  STARTUP_INHIBIT_MS = 2
  STARTUP_RETRY_MS = 3
  STARTUP_WEEKLY_MS = 4
  STARTUP_ATTEMPT_LIMIT = 2
  Requests <- MCRequests
  Factory <- MCFactory
  UINT32_MAX = 4
  Torn = Torn
  NoRecord = NoRecord
SPECIFICATION Spec
INVARIANTS
  TypeOK
  LoadedSlotIntact
  AcknowledgedIsDurable
PROPERTIES
  StaysLoadable
  SequenceAdvances
  ImplementsDurableRecord
