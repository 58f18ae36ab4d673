SPECIFICATION Spec
CONSTANTS
    None = None
    Operator = Operator
    Pods = {p1, p2}
    PgFiles = 2
    ChFiles = 1
    Statements <- MCStatements
    PoolSize = 2
    Kids = {k1, k2}
    ConfKids = {k1, k2}
    TokenTTL = 0
    ClockSkew = 0
    RetireWait = 1
    MaxFaults = 1
    MaxRotations = 1
    MaxClock = 1
INVARIANTS
    TypeOK
    PgExactlyOnce
    SchemaBeforeTraffic
    OneActiveKey
    TokensStayVerifiable
PROPERTIES
    NoCrashLoop
    EveryPodServes
