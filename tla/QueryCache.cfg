SPECIFICATION FairSpec
CONSTANTS
  Keys = {k1}
  Observers = {o1}
  MemoryCache = TRUE
  Retries = 1
  MaxRequests = 3
  MaxVersion = 1
INVARIANTS
  TypeOK
  NewestIsShown
  CallersJoinPending
PROPERTIES
  NewestWins
  LoadingEnds
