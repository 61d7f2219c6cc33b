SPECIFICATION Spec
CONSTANTS
    t1 = t1
    t2 = t2
    n1 = n1
    n2 = n2
    Tenants = {t1}
    Workers = {w1}
    Names = {n1}
    ContainerName <- OwnNames
    NoTenant = NoTenant
    MaxJobs = 4
    MaxFaults = 2
    MaxExits = 1
INVARIANTS
    TypeOK
    SuccessMeansAgreement
    VersionsIncrease
    LeftRunningIsDue
    ContainerReachable
