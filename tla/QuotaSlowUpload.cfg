SPECIFICATION Spec
CONSTANTS
    i1 = i1
    i2 = i2
    c1 = c1
    c2 = c2
    Installs = {i1}
    Tenants = {"t"}
    TenantOf <- MCTenantOf
    RPS <- MCTwoRPS
    DailyEvents <- MCDailyEvents
    Calls = {c1, c2}
    Inst <- MCOneInst
    Units <- MCUnits
    Sec = 2
    DayLen = 4
    RateTTL = 4
    MaxLatency = 4
    MaxClock = 8
INVARIANT
    RateBudget
CHECK_DEADLOCK FALSE
