\* Redis may lose its keys under their holders, and holders may leave theirs behind.
\* A request is quick compared with a tick.
SPECIFICATION FairSpec
CONSTANTS
    Requests = {r1, r2}
    Nobody = nobody
    MutexTTL = 1
    CooldownTTL = 1
    HoldLimit = 0
    RedisForgets = TRUE
INVARIANTS
    AuditInStep
PROPERTIES
    Answered
    MutexFreed
