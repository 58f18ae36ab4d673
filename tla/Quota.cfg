SPECIFICATION Spec
CONSTANTS
    i1 = i1
    i2 = i2
    c1 = c1
    c2 = c2
    Installs = {i1, i2}
    Tenants = {"t"}
    TenantOf <- MCTenantOf
    RPS <- MCRPS
    DailyEvents <- MCDailyEvents
    Calls = {c1, c2}
    Inst <- MCInst
    Units <- MCUnits
    Sec = 2
    DayLen = 4
    RateTTL = 4
    MaxLatency = 3
    MaxClock = 8
INVARIANTS
    TypeOK
    DayBudget
    RateStretch
PROPERTY
    RetryMeetsFreshBucket
CHECK_DEADLOCK FALSE
