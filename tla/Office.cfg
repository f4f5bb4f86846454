SPECIFICATION OfficeSpec
CONSTANTS
    MaxAccount = 2
    MaxNumber = 2
    acme = acme
    u1 = u1
    u2 = u2
    u3 = u3
    OldTasks <- MCOldTasks
    CompanyOf <- MCCompanyOf
    Companies = {acme}
    MaxStops = 2
    Readers = {r1, r2}
    Codes = {cad, usd}
    Bases = {cad, usd}
    Defaults = {usd}
    Quoted = {usd}
    LastDay = 2
    Users = {ann, bob}
    Visitors = {v1, v2}
    MaxSecrets = 3
    PayPeriods = {12}
    BasePays <- MCBasePays
    Extras <- MCExtras
    EarningsCodes <- MCEarningsCodes
    YMPE <- MCYMPE
    YBE <- MCYBE
    YAMPE <- MCYAMPE
    MaxInsurableEarnings <- MCMaxInsurableEarnings
    CPPRate <- MCCPPRate
    CPPMax <- MCCPPMax
    CPP2Rate <- MCCPP2Rate
    CPP2Max <- MCCPP2Max
    EIRate <- MCEIRate
    EIMax <- MCEIMax
INVARIANTS
    OfficeTypeOK
    NumbersGivenOnce DefaultExists
    ServedReady OneCustomerPerName
    NoMovingRateKept TableWhole
    OneAccountPerName
    ContributionsFollowEarnings PremiumsFollowEarnings
PROPERTIES
    DefaultKept
    ComesUp
    PrimaryKept EndedSessionsStayEnded
CHECK_DEADLOCK FALSE
