SPECIFICATION OperatorSpec
CONSTANTS
    Tenants = {t1}
    JobTypes = {deploy}
    Keys = {}
    NoKey = NoKey
    Handlers = {h1}
    Workers = {w1, w2}
    NoRequest = NoRequest
    NoHandler = NoHandler
    NoWorker = NoWorker
    MaxJobs = 3
    MaxFaults = 1
    SlowExecution = FALSE
    PageSize = 2
INVARIANTS
    ShownIsFinal
    PagesMissNothing
PROPERTIES
    CountersOnlyGrow
    WatchEnds
