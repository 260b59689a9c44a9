SPECIFICATION Spec
CONSTANTS
  Keys = {k1}
  Observers = {o1}
  MemoryCache = FALSE
  Retries = 0
  MaxRequests = 2
  MaxVersion = 1
INVARIANT InvalidatedIsRefetched
