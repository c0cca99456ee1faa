SPECIFICATION AuditSpec
CONSTANTS
    org = org
    other = other
    Writers = {w1, w2}
    Organizations <- MCOrganizations
    Events <- MCEvents
    Legacy <- MCLegacy
    MaxEntries = 4
    MaxClock = 4
    OnePerTick = TRUE
    TrailRequests = {q1, q2}
    Payees = {p1, p2}
    Nobody = Nobody  Director = Director
    MaxEvents = 5
CHECK_DEADLOCK FALSE
SYMMETRY Symmetry
INVARIANTS ChainDoesNotFork  TrailReplays
