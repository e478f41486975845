CONSTANTS
  i1 = i1
  i2 = i2
  i3 = i3
  i4 = i4
  None = None
  Ids = {i1, i2, i3, i4}
  PoolCapacity = 3
  NewOrders <- Orders
SPECIFICATION Spec
INVARIANTS LinksAgree check_invariants
PROPERTIES KeepsQueues
CHECK_DEADLOCK FALSE
