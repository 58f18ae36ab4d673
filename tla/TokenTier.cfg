SPECIFICATION Spec
SYMMETRY Slots
CONSTANTS
    None = None
    c1 = c1
    c2 = c2
    t1 = t1
    t2 = t2
    d1 = d1
    d2 = d2
    d3 = d3
    r1 = r1
    r2 = r2
    Clients = {c1}
    Tenants = {t1}
    TenantOf <- MCTenantOf
    Devices = {d1, d2}
    ClientOf <- MCClientOf
    Hints = {"h"}
    Requests = {r1, r2}
    Genuine = TRUE
    ChallengeTTL = 3
    RateLimit = 2
    RateWindow = 2
    TokenTTL = 1
    ClockSkew = 0
    MaxExchange = 2
    MaxAsks = 3
    MaxFaults = 0
    MaxClock = 4
INVARIANT
    AttestationEarnsTierZero
CHECK_DEADLOCK FALSE
