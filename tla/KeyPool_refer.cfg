SPECIFICATION Spec
CONSTANTS
    t1 = t1
    t2 = t2
    a = a
    b = b
    c1 = c1
    c2 = c2
    Tenants = {t1, t2}
    Names = {a, b}
    NoName = NoName
    Handlers = {c1, c2}
    MaxProviders = 2
    MaxKeys = 2
    MaxRequests = 4
    MaxConcurrent = 3
    MaxFaults = 1
CHECK_DEADLOCK FALSE
INVARIANTS
    TypeOK
    AllocationsRefer
    KeysCarryNames
    CountCoversAllocations
PROPERTIES
    InjectedUnderItsName
