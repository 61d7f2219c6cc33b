SPECIFICATION Spec
CONSTANTS
    Tenants = {t1}
    JobTypes = {deploy}
    Keys = {}
    NoKey = NoKey
    Handlers = {h1}
    Workers = {w1, w2}
    NoRequest = NoRequest
    NoHandler = NoHandler
    NoWorker = NoWorker
    MaxJobs = 1
    MaxFaults = 0
    SlowExecution = TRUE
PROPERTIES
    OnlyStalledReclaimed
