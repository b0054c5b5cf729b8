SPECIFICATION MCSpec
CONSTANTS
  ec1 = ec1
  ec2 = ec2
  mp1 = mp1
  mp2 = mp2
  Loads <- PairsAndTriples
  Slots <- FourSlots
  DayLen = 2
  batchMax = 3
  budget = 2
  inOrder = TRUE
  MaxFaults = 2
  MaxPanics = 1
  MaxCrashes = 1
  MaxStops = 1
  MaxTotal = 3
INVARIANTS
  LaterWinsUnlessRerun
  AckOrder
  AckedAccounted
  OneReply
  RepliedForgotten
PROPERTIES
  ReplyMeansStored
  EventuallyAcked
