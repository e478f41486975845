CONSTANTS
  g1 = g1
  g2 = g2
  r1 = r1
  r2 = r2
  None = None
  Symbols <- TwoSymbols
  Gateways = {g1}
  QueueCapacity = 2
  ReplayWindow = 1
  MarketRequests <- MixedRequests
  WorkerCount = 2
  WorkerOf <- TwoWorkers
  Streams = {r1}
  RepliesGateways = {g1, None}
  MaxCommands = 1
  MaxEvents = 1
SPECIFICATION FairSpec
INVARIANTS NothingLeftAtClose
PROPERTIES KeepsPromise ShutdownEnds SnapshotComes SeatIsFreed CatchesUp
CHECK_DEADLOCK FALSE
