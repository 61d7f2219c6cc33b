SPECIFICATION FairSpec
CONSTANTS
    t1 = t1
    n1 = n1
    Tenants = {t1}
    Kinds <- DeployDestroy
    NoKey = NoKey
    Handlers = {h1}
    Workers = {w1, w2}
    NoRequest = NoRequest
    NoHandler = NoHandler
    NoWorker = NoWorker
    Names = {n1}
    ContainerName <- OneName
    NoTenant = NoTenant
    MaxJobs = 2
    MaxSlow = 1
    MaxFaults = 2
INVARIANTS
    RowsAreRendered
PROPERTIES
    ImplementsExecutor
    JobsSettle
