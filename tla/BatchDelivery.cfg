SPECIFICATION FairSpec
CONSTANTS
    r1 = r1
    r2 = r2
    None = None
    Installs = {"i1", "i2"}
    Tenants = {"t"}
    TenantOf <- MCTenantOf
    Legacy = {"i1"}
    Events = {"a1", "big", "odd"}
    Owner <- MCOwner
    Session <- MCSession
    TsClient <- MCTsClient
    Invalid = {}
    Undecodable = {"odd"}
    BodyBytes <- MCBodyBytes
    Requests = {r1, r2}
    SentSkews = {2}
    RPS <- MCHighRPS
    DailyEvents = 1
    MaxEventsPerBatch = 2
    MaxBatchBytes = 2
    BodyReadFails = FALSE
    StartTime = 5
    MaxClock = 6
    MaxFaults = 1
    MaxFutureSkew = 1
    MaxPastSkew = 2
INVARIANTS
    NoSilentLoss
    OnlyDamageDrops
PROPERTIES
    ImplementsAtLeastOnce
    EveryEventSettles
CHECK_DEADLOCK FALSE
