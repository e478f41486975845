CONSTANTS
  g1 = g1
  g2 = g2
  r1 = r1
  r2 = r2
  None = None
  Symbols <- TwoSymbols
  Gateways = {g1, g2}
  QueueCapacity = 1
  ReplayWindow = 0
  MarketRequests = {}
  WorkerCount = 2
  WorkerOf <- TwoWorkers
  Streams = {r1, r2}
  RepliesGateways = {g1, g2}
  MaxCommands = 2
  MaxEvents = 0
SPECIFICATION Spec
SYMMETRY Alike
INVARIANTS SeatsAgree LeaveFreesOwnSeat RepliesPrivate RepliesComplete
CHECK_DEADLOCK FALSE
