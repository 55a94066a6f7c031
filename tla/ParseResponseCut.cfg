\* The same messages; the CRC of a cut-off block becomes a point.
SPECIFICATION Spec
CONSTANTS
    Messages <- MCMessages
    Differs <- MCDiffers
INVARIANTS
    OnlySentPoints
CHECK_DEADLOCK FALSE
