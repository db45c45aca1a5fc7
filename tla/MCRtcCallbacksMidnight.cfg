SPECIFICATION FairSpec
CONSTANTS
  TIMER_CALLBACK_ARRAY_SIZE = 2
  UINT32_MAX = 12
  Day = 4
  Requests = 1
  Deletes = 0
  Asked <- MCOnce
  Cuts = 1
  CutWords = {1}
PROPERTIES CalledEventually
