SPECIFICATION FairSpec
CONSTANTS
    Events = {e1, e2}
    Subscribers = {audit, projector}
    Pollers = {p1}
    Operators = {o1}
    MaxAttempts = 2
    MaxFailures = 5
    MaxFaults = 0
    MaxRetries = 2
CHECK_DEADLOCK FALSE
INVARIANTS ProcessedAtMostOnce NoSilentLoss AttemptsCountDeliveries
PROPERTY Settled
