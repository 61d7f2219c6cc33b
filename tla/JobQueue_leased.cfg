SPECIFICATION Spec
CONSTANTS
    Tenants = {t1}
    JobTypes = {deploy}
    Keys = {}
    NoKey = NoKey
    Handlers = {h1, h2}
    Workers = {w1, w2}
    NoRequest = NoRequest
    NoHandler = NoHandler
    NoWorker = NoWorker
    MaxJobs = 3
    MaxFaults = 2
    SlowExecution = FALSE
SYMMETRY Symmetry
INVARIANTS
    TypeOK
    RunningHasHeartbeat
    ExclusiveExecution
PROPERTIES
    OutcomeStable
    ImplementsLease
