\* Up to two objects, cut at every length; noise; one or two bits turned.  The
\* parser ends, so the model stops.
SPECIFICATION FairSpec
CONSTANTS
    Messages <- MCMessages
    Differs <- MCDiffers
INVARIANTS
    TypeOK
    InBounds
    Faithful
    CutKeepsPoints
    DamageRefused
PROPERTIES
    Terminates
CHECK_DEADLOCK FALSE
