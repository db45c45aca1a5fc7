SPECIFICATION FairSpec
CONSTANTS
  TIMER_CALLBACK_ARRAY_SIZE = 2
  UINT32_MAX = 20
  Day = 3
  Requests = 2
  Deletes = 1
  Asked <- MCAsked
  Cuts = 1
  CutWords = {1}
INVARIANTS TypeOK TableIsExact CalledRightly OnceOnly
PROPERTIES CalledToday
