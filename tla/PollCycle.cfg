\* Two projects, two readings taken of one of them or one of each.
SPECIFICATION FairSpec
CONSTANTS
    Projects = {p1, p2}
    MaxReadings = 2
INVARIANTS
    TypeOK
    EveryAnswerStored
    OneStory
PROPERTIES
    BackwardsOnlyAcrossWriters
    SignalStops
    PollsForever
    OnceEnds
