\* Every combination of six points, each absent, not a number or at a grid voltage.
SPECIFICATION Spec
CONSTANTS
    Levels <- Grid
    NaN = NaN
INVARIANTS
    DocumentedWhenClear
    EffectOfOneLoss
CHECK_DEADLOCK FALSE
