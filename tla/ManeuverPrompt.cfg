\* Every request leaves its try block before its mutex can expire.
SPECIFICATION Spec
CONSTANTS
    Requests = {r1, r2, r3}
    Nobody = nobody
    MutexTTL = 3
    CooldownTTL = 2
    HoldLimit = 2
    RedisForgets = FALSE
SYMMETRY Symmetry
INVARIANTS
    HolderKeepsMutex
    TypeOK
    MutualExclusion
    AuditSound
    AuditComplete
PROPERTIES
    ReleasesOwnMutex
    CooldownHonoured
    GuardStableButForPoller
    ImplementsGate
