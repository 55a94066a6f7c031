\* Both callers; the call ends, so the model stops.
SPECIFICATION PollFairSpec
CONSTANTS
    Timeout = 3
    HeaderRest = 2
    MaxPayload = 2
    ConnectLimit = 2
    Gap = 1
INVARIANTS
    PollTypeOK
    BoundedByTwice
    LoneStartByteCounts
    PollBounded
    ResultTells
PROPERTIES
    PollReturns
    ReadReturns
CHECK_DEADLOCK FALSE
