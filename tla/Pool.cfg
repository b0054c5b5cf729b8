SPECIFICATION FairSpec
CONSTANTS
  k1 = k1
  c1 = c1
  c2 = c2
  c3 = c3
  c4 = c4
  c5 = c5
  Keys <- OneKey
  Clients <- FiveClients
  size = 2
  MaxGets = 1
INVARIANTS
  NoUseAfterClose
  InUseCounts
  NoIdleHandle
PROPERTIES
  ImplementsHandles
  GetReturns
