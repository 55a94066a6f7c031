\* One tick is 30 s: 120 s, 60 s, 300 s and 360 s.
SPECIFICATION FairSpec
CONSTANTS
    Interval = 4
    CycleLimit = 2
    OnlineFor = 10
    StaleAfter = 12
INVARIANTS
    OneMissForgiven
    OutageShows
PROPERTIES
    TakenUp
