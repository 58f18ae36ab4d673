SPECIFICATION Spec
SYMMETRY SlotsAndHints
CONSTANTS
    None = None
    c1 = c1
    c2 = c2
    t1 = t1
    t2 = t2
    d1 = d1
    d2 = d2
    d3 = d3
    r1 = r1
    r2 = r2
    h1 = h1
    h2 = h2
    h3 = h3
    h4 = h4
    Clients = {c1}
    Tenants = {t1}
    TenantOf <- MCTenantOf
    Devices = {d1}
    ClientOf <- MCClientOf
    Hints = {h1, h2, h3, h4}
    Requests = {r1, r2}
    Genuine = TRUE
    ChallengeTTL = 2
    RateLimit = 2
    RateWindow = 2
    TokenTTL = 1
    ClockSkew = 1
    MaxExchange = 0
    MaxAsks = 4
    MaxFaults = 1
    MaxClock = 3
INVARIANTS
    TypeOK
    NonceSpentOnce
    OneInstallPerAnchor
    RowGrowthBounded
    RevocationTakesEffect
CHECK_DEADLOCK FALSE
