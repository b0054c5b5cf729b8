SPECIFICATION Spec
CONSTANTS
  ec1 = ec1
  ec2 = ec2
  mp1 = mp1
  mp2 = mp2
  Loads <- Triples
  Slots <- FourSlots
  DayLen = 2
  batchMax = 3
  budget = 1
  inOrder = TRUE
  MaxFaults = 1
  MaxPanics = 1
  MaxCrashes = 0
  MaxStops = 0
  MaxTotal = 3
INVARIANT LaterWins
