SPECIFICATION Spec
CONSTANTS
    Tenants = {t1}
    JobTypes = {deploy, stop}
    Keys = {k1}
    NoKey = NoKey
    Handlers = {h1, h2}
    Workers = {w1, w2}
    NoRequest = NoRequest
    NoHandler = NoHandler
    NoWorker = NoWorker
    MaxJobs = 2
    MaxFaults = 0
    SlowExecution = TRUE
SYMMETRY Symmetry
INVARIANTS
    RunningHasHeartbeat
    DistinctAdmitters
    KeyedDistinct
    AcceptedJobMatchesRequest
PROPERTIES
    NeverReopened
