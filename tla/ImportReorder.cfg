SPECIFICATION Spec
CONSTANTS
  ec1 = ec1
  ec2 = ec2
  mp1 = mp1
  mp2 = mp2
  Loads <- Pairs
  Slots <- FourSlots
  DayLen = 2
  batchMax = 3
  budget = 2
  inOrder = FALSE
  MaxFaults = 0
  MaxPanics = 0
  MaxCrashes = 1
  MaxStops = 0
  MaxTotal = 3
INVARIANT LaterWins
