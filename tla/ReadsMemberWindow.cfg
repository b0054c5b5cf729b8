SPECIFICATION Spec
CONSTANTS
    r1 = r1
    r2 = r2
    Reqs = {r1, r2}
    SlotsPerHour = 2
    HoursPerDay = 2
    DaysPerWeek = 2
    DaysPerMonth = 3
    MonthsPerYear = 4
    Skipped <- MCSkipped
    OpenEnd = 99
    maxTenants = 2
    TTL = 1
    maxEntries = 1
    MaxPeriodDays = 8
    Now = 60
    MaxClock = 1
    MaxVersions = 2
    Users = {u1, u2}
    BowOps <- MCBowOps
    Lease = 2
    FirstId = 2
    MaxBuckets = 5
    FlushEvery = 2
    MaxBowCalls = 3
    MaxFaults = 1
    MaxReopens = 2
INVARIANT MemberWindowKept
CHECK_DEADLOCK FALSE
