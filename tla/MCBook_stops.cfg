SPECIFICATION FairSpec
CONSTANTS
  None = None
  o1 = o1
  o2 = o2
  i1 = i1
  i2 = i2
  i3 = i3
  i4 = i4
  i5 = i5
  i6 = i6
  i7 = i7
  Owners = {o1, o2}
  Ids = {i1, i2, i3, i4, i5, i6, i7}
  PoolCapacity = 3
  BandBps = 2500
  CollarBps = 0
  GracePeriod = 0
  HaltDuration = 1
  NewOrders <- StopsOrders
  NewStops <- StopsStops
  Targets <- StopsTargets
  Amendments = {}
  StopAmendments <- StopsAmendments
  Times = {0}
  MaxPriority = 4
INVARIANTS
  LifeCycle
  ReentryNeverRefused
  NoStopMissed
  StopKeysUnique
PROPERTIES
  FiringOrderKept
  CallReturns
