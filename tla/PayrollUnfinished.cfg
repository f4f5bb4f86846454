SPECIFICATION Spec
CONSTANTS
    c1 = c1
    c2 = c2
    e1 = e1
    e2 = e2
    Companies = {c1}
    Employees = {e1}
    Employer <- MCEmployer
    Contractors = {}
    AutoVacation = {}
    VacationPct = 4
    Requests = {r1, r2}
    Endpoints <- MCWebEndpoints
    SavedStatuses <- MCStatuses
    Grosses = {100}
    ExtraAmounts = {}
    MaxPeriod = 2
    MaxEntry = 3
    MaxGross = 150
INVARIANT
    OneUnfinishedPeriod
