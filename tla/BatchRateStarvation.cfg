SPECIFICATION FairSpec
CONSTANTS
    r1 = r1
    r2 = r2
    None = None
    Installs = {"i1"}
    Tenants = {"t"}
    TenantOf <- MCTenantOf
    Legacy = {}
    Events = {"a1", "a2", "bad"}
    Owner <- MCOwner
    Session <- MCSession
    TsClient <- MCTsClient
    Invalid = {"bad"}
    Undecodable = {}
    BodyBytes <- MCBodyBytes
    Requests = {r1, r2}
    SentSkews = {2}
    RPS <- MCLowRPS
    DailyEvents = 0
    MaxEventsPerBatch = 3
    MaxBatchBytes = 3
    BodyReadFails = FALSE
    StartTime = 5
    MaxClock = 5
    MaxFaults = 0
    MaxFutureSkew = 1
    MaxPastSkew = 2
PROPERTY
    EveryEventSettles
CHECK_DEADLOCK FALSE
