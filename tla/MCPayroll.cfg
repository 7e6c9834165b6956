SPECIFICATION MCSpec
CONSTANTS
    r1 = r1  a = a  b = b  d1 = d1  d2 = d2  p1 = p1  p2 = p2
    RunIds = {r1}
    Employees = {a, b}
    Dates = {1, 4}
    Amounts = {1, 2}
    MaxStructures = 2
    Employment <- JoinerAndLeaver
    Departments = {d1, d2}
    WorksIn <- TwoDepartments
    Foreign = {b}
    HasLogin = {a}
    Periods <- OnePeriod
    Rates = {0, 2}
    MaxCalculations = 2
    Procs = {p1, p2}
    Interleaved = TRUE
    MaxDeaths = 1
    Handlers = {"structure", "create", "rates", "calculate", "approve", "pay", "delete"}
    Months = {9, 10, 11, 12, 13}
    FirstDay <- MCFirstDay
    LastDay <- MCLastDay
    HireDates = {244, 290}
    Deals <- MCDeals
CHECK_DEADLOCK FALSE
INVARIANTS ApprovedIsDocumented PaidByTheDay PayeIsCumulative
PROPERTIES SlipsAreFrozen ApprovedIsAnnounced
