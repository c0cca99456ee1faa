SPECIFICATION Spec
CONSTANTS
    Requests = {r1, r2}
    Periods = {1, 2}
    Amounts = {0, 1}
    MaxExpenses = 3
CHECK_DEADLOCK FALSE
SYMMETRY Symmetry
INVARIANTS NumbersGapless RaisesAreApproved
 
