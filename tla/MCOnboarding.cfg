CONSTANTS
    sign = sign
    tour = tour
    lead = lead
    hr = hr
    NoLogin = NoLogin
    Employees = {e1}
    Specialists = {e1}
    ChecklistIds = {c1, c2}
    Items = {sign, tour}
    Required = {sign}
    ItemLists <- MCItemLists
    MaxEdits = 1
    Procs = {p1}
    Interleaved = FALSE
    MaxDeaths = 1
    Tasks = {sign, tour}
    Offset <- MCOffset
    Rule <- MCRule
    Users = {lead, hr}
    Manage = {hr}
    InRole = {hr}
    Logins <- MCLogins
    Desks = {q1}
    Runners = {w1, w2}
    Horizon = 1
    LastDay = 1
    MaxRuns = 3
    MaxChanges = 1
SPECIFICATION MCSpec
INVARIANT RemindedOnceADay
PROPERTY JoinersAreOnboarded
CHECK_DEADLOCK FALSE
