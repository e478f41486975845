SPECIFICATION Spec
CONSTANTS
  None = None
  o1 = o1
  o2 = o2
  i1 = i1
  i2 = i2
  i3 = i3
  i4 = i4
  i5 = i5
  i6 = i6
  i7 = i7
  Owners = {o1, o2}
  Ids = {i1, i2, i3, i4, i5}
  PoolCapacity = 4
  BandBps = 2500
  CollarBps = 0
  GracePeriod = 1
  HaltDuration = 1
  NewOrders <- CrossedOrders
  NewStops = {}
  Targets = {}
  Amendments = {}
  StopAmendments = {}
  Times = {0}
  MaxPriority = 0
INVARIANTS
  NeverCrossed
