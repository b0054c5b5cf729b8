SPECIFICATION Spec
CONSTANTS
  m1 = m1
  m2 = m2
  m3 = m3
  Meters <- ThreeMeters
  Slots <- FourSlots
  DayLen = 2
  Jobs <- TwoJobs
  flushRows = 1
  MaxFaults = 1
  MaxCrashes = 0
INVARIANT
  UnreadRowsKept
