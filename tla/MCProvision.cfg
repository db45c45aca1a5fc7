CONSTANTS
  STARTUP_INHIBIT_MS = 2
  STARTUP_RETRY_MS = 3
  STARTUP_WEEKLY_MS = 4
  STARTUP_ATTEMPT_LIMIT = 2
  UINT32_MAX = 3
  Torn = Torn
  Images <- MCImages
  Devices <- MCDevices
SPECIFICATION Spec
INVARIANTS
  TypeOK
  CommittedSlotsComplete
  OneGeneration
  OkMeansBootable
