SPECIFICATION Spec
CONSTANTS
    Tenants = {t1}
    JobTypes = {deploy}
    Keys = {}
    NoKey = NoKey
    Handlers = {h1, h2}
    Workers = {w1}
    NoRequest = NoRequest
    NoHandler = NoHandler
    NoWorker = NoWorker
    MaxJobs = 2
    MaxFaults = 0
    SlowExecution = FALSE
INVARIANTS
    AtMostOneActiveJob
