SPECIFICATION Spec
CONSTANTS
    Events = {e1}
    Subscribers = {audit, projector}
    Pollers = {p1, p2}
    Operators = {o1}
    MaxAttempts = 2
    MaxFailures = 4
    MaxFaults = 2
    MaxRetries = 1
CHECK_DEADLOCK FALSE
SYMMETRY Symmetry
INVARIANT RecoveredMeansProcessed
