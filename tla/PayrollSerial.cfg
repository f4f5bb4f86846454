SPECIFICATION SerialSpec
CONSTANTS
    c1 = c1
    c2 = c2
    e1 = e1
    e2 = e2
    Companies = {c1, c2}
    Employees = {e1, e2}
    Employer <- MCEmployer2
    Contractors = {e2}
    AutoVacation = {e1}
    VacationPct = 4
    Requests = {r1}
    Endpoints <- MCSerialEndpoints
    SavedStatuses = {"approved"}
    Grosses = {100}
    ExtraAmounts = {}
    MaxPeriod = 3
    MaxEntry = 3
    MaxGross = 150
INVARIANTS
    OneUnfinishedPeriod
    YTDCountsPaidEarlierPeriods
    EntriesHavePeriod
PROPERTIES
    FollowsLifecycle
