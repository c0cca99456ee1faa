SPECIFICATION Spec
CONSTANTS
    Requests = {r1, r2, r3, r4}
    SlowHandlers = FALSE
    Faults = TRUE
CHECK_DEADLOCK FALSE
INVARIANTS OneExecutionAtATime  RepliesAreReal
PROPERTY ClaimEnds
