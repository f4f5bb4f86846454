SPECIFICATION Spec
CONSTANTS
    Employees = {e1, e2}
    NoEmployee = NoEmployee
    Termination <- Left
    Lookback = 1
    Requests = {r1, r2}
    MaxPeriod = 1
    MaxClock = 1
    MaxSerial = 2
PROPERTIES
    IssuedStays
SYMMETRY Symmetry
