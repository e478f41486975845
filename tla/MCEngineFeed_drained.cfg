CONSTANTS
  g1 = g1
  g2 = g2
  r1 = r1
  r2 = r2
  None = None
  Symbols <- OneSymbol
  Gateways = {g1}
  QueueCapacity = 2
  ReplayWindow = 0
  MarketRequests <- FreshRequests
  WorkerCount = 1
  WorkerOf <- OneWorker
  Streams = {r1}
  RepliesGateways = {}
  MaxCommands = 1
  MaxEvents = 1
SPECIFICATION Spec
INVARIANTS DrainedAtShutdown
CHECK_DEADLOCK FALSE
