\* What the docstring of TelemetryConsumer says of the global route.
SPECIFICATION Spec
CONSTANTS
    Clients = {c1, c2}
    Projects = {p1}
    Capacity = 2
    MaxRecords = 1
    MaxSent = 1
INVARIANT GlobalHearsManeuvers
CHECK_DEADLOCK FALSE
