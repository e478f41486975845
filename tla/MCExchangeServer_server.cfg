CONSTANTS
  p1 = p1
  p2 = p2
  None = None
  Producers = {p1, p2}
  WorkerCount = 2
  Symbols = {1, 2}
  routes <- TwoRoutes
  MaxRequests = 3
  MaxTime = 1
  MaxEvents = 1
SPECIFICATION FairSpec
INVARIANTS AnsweredOnce
PROPERTIES ClockNeverBack ServerEnds
CHECK_DEADLOCK FALSE
