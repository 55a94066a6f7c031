\* A queue of two overflows; in the end nothing is left to do.
SPECIFICATION Spec
CONSTANTS
    Clients = {c1}
    Projects = {p1, p2}
    Capacity = 2
    MaxRecords = 3
    MaxSent = 3
INVARIANTS
    NothingMissed
    ToldInOrder
    LeavesNoTrace
CHECK_DEADLOCK FALSE
