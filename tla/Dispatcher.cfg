SPECIFICATION MCSpec
CONSTANTS
  t1 = t1
  t2 = t2
  t3 = t3
  l1 = l1
  l2 = l2
  Tenants <- ThreeTenants
  Lanes <- TwoLanes
  NoTenant = NoTenant
  batchMax = 1
  maxOpen = 2
  MaxMsgs = 2
  MaxTotal = 4
INVARIANTS
  TenantHeldOnce
  ExecutorsAccounted
  OpenWithinCap
  NoLostWork
  NoLostWakeup
  NoLostCapWakeup
  DeliveryOrder
  CloseIsFinal
PROPERTIES
  ReadyKeepsStore
  RoundRobin
  EventuallyAcked
  CloseReturns
