SPECIFICATION Spec
CONSTANTS
    t1 = t1
    t2 = t2
    n1 = n1
    n2 = n2
    Tenants = {t1, t2}
    Workers = {w1}
    Names = {n1}
    ContainerName <- SharedName
    NoTenant = NoTenant
    MaxJobs = 2
    MaxFaults = 0
    MaxExits = 0
INVARIANTS
    DedicatedContainer
