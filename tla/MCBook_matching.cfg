SPECIFICATION Spec
CONSTANTS
  None = None
  o1 = o1
  o2 = o2
  i1 = i1
  i2 = i2
  i3 = i3
  i4 = i4
  i5 = i5
  i6 = i6
  i7 = i7
  Owners = {o1, o2}
  Ids = {i1, i2, i3}
  PoolCapacity = 2
  BandBps = 9999
  CollarBps = 1000
  GracePeriod = 1
  HaltDuration = 1
  NewOrders <- MatchingOrders
  NewStops = {}
  Targets <- MatchingTargets
  Amendments <- MatchingAmendments
  StopAmendments = {}
  Times = {0}
  MaxPriority = 0
SYMMETRY Symmetry
INVARIANTS
  LevelsAgree
  OwnersAgree
  QuantityConserved
  AnswerTellsFate
  NeverCrossed
PROPERTIES
  FinalStateIsFinal
  PlaceIsKept
