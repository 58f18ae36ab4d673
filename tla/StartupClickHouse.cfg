SPECIFICATION Spec
CONSTANTS
    None = None
    Operator = Operator
    Pods = {p1, p2}
    PgFiles = 2
    ChFiles = 2
    Statements <- MCStatements
    PoolSize = 2
    Kids = {k1, k2, k3}
    ConfKids = {k1}
    TokenTTL = 0
    ClockSkew = 0
    RetireWait = 1
    MaxFaults = 0
    MaxRotations = 0
    MaxClock = 0
INVARIANT
    ChExactlyOnce
