SPECIFICATION JobsSpec
CONSTANTS
    a = a  b = b  bad = bad
    Workers = {w1, w2}
    File <- MCFile
    Invalid = {bad}
    Stalls = TRUE
    Survivors = TRUE
    Files = {f1, f2}
    Harmful = {f2}
    Scanners = {s1, s2}
    Attempts = 3
    MaxStalls = 1
    MaxScanFaults = 4
    admin = admin  leaver = leaver  NoUser = NoUser
    Requester = admin
    PayslipUsers <- MCPayslipUsers
    Assignments <- MCAssignments
    Gone = {leaver}
    Mailers = {m1, m2}
    MailAttempts = 2
    MaxMailFaults = 2

CHECK_DEADLOCK FALSE
INVARIANTS
    NoRowLost OneExpensePerDelivery VerdictsHold TwiceForAReason
PROPERTIES
     EveryoneTold
