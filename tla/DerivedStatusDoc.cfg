\* The same readings against the whole docstring.
SPECIFICATION Spec
CONSTANTS
    Levels <- Grid
    NaN = NaN
INVARIANTS
    AsDocumented
CHECK_DEADLOCK FALSE
