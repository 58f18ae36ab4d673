SPECIFICATION Spec
SYMMETRY Slots
CONSTANTS
    None = None
    r1 = r1
    r2 = r2
    Kids = {"old", "new"}
    FirstKids = {"old"}
    Requests = {r1, r2}
    MinRefetch = 2
    TTL = 2
    Grace = 1
    MaxWait = 1
    MaxClock = 6
INVARIANTS
    TypeOK
    RetiredKeyDies
PROPERTIES
    PublishedKeyPickedUp
    FetchesAreSpaced
CHECK_DEADLOCK FALSE
