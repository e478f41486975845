CONSTANTS
  g1 = g1
  g2 = g2
  r1 = r1
  r2 = r2
  None = None
  Symbols <- OneSymbol
  Gateways = {g1}
  QueueCapacity = 1
  ReplayWindow = 1
  MarketRequests <- ResumeRequests
  WorkerCount = 1
  WorkerOf <- OneWorker
  Streams = {r1, r2}
  RepliesGateways = {}
  MaxCommands = 1
  MaxEvents = 3
SPECIFICATION Spec
SYMMETRY StreamsAlike
INVARIANTS TypeOK NoGap NothingMissed HistoryIsWindow
CHECK_DEADLOCK FALSE
