SPECIFICATION Spec
CONSTANTS
    Employees = {e1, e2}
    Requests = {r1, r2}
    Contacts = {"Ann"}
    e1 = e1
    e2 = e2
    Amounts <- MCAmounts
    MaxPeriod = 1
    MaxLog = 2
INVARIANTS
    TypeOK
    FinalizedTotals
    OneSlipPerEmployee
    FinalizedOnce
PROPERTIES
    FollowsSealing
SYMMETRY Symmetry
