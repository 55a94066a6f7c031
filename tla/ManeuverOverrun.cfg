\* A request may take as long as its mutex lives, no other fault.
SPECIFICATION Spec
CONSTANTS
    Requests = {r1, r2}
    Nobody = nobody
    MutexTTL = 2
    CooldownTTL = 1
    HoldLimit = 2
    RedisForgets = FALSE
INVARIANTS
    MutualExclusion
