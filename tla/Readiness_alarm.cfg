SPECIFICATION FairSpec
CONSTANTS
    w1 = w1
    w2 = w2
    Workers = {w1, w2}
    Interval = 3
    TTL = 4
INVARIANTS
    TypeOK
    RenewedSinceTick
    NoFalseAlarm
PROPERTIES
    DeathIsNoticed
    IdleWorkerIsReady
