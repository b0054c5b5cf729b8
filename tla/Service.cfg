SPECIFICATION MCSpec
CONSTANTS
  gc = gc
  web = web
  lane = lane
  t1 = t1
  t2 = t2
  e = e
  Keys <- TwoKeys
  Clients <- ThreeClients
  Handlers <- OneHandler
  Lanes <- OneLane
  Work <- WorkOf
  Callers = {r1, r2}
  size = 2
  MaxGets = 9
  MaxCalls = 1
  MaxReady = 3
  DayMin = 4
  MaxNow = 7
  checkEvery = 1
INVARIANTS
  ServiceTypeOK
  ClosedLast
  WindowServedOnce
  DryRunPredicts
  OneProbe
PROPERTIES
  RewriteAllowed
  CallsReturn
