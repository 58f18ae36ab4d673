SPECIFICATION Spec
SYMMETRY Slots
CONSTANTS
    r1 = r1
    r2 = r2
    None = None
    Installs = {"i1"}
    Tenants = {"t"}
    TenantOf <- MCTenantOf
    Legacy = {}
    Events = {"a1", "a2", "bad"}
    Owner <- MCOwner
    Session <- MCSession
    TsClient <- MCTsClient
    Invalid = {"bad"}
    Undecodable = {}
    BodyBytes <- MCBodyBytes
    Requests = {r1, r2}
    SentSkews = {2}
    RPS <- MCHighRPS
    DailyEvents = 2
    MaxEventsPerBatch = 2
    MaxBatchBytes = 3
    BodyReadFails = TRUE
    StartTime = 5
    MaxClock = 6
    MaxFaults = 2
    MaxFutureSkew = 1
    MaxPastSkew = 2
INVARIANTS
    TypeOK
    DuplicatesCollapse
    PartitionsBounded
    BudgetBoundsStorage
    NoSilentLoss
CHECK_DEADLOCK FALSE
