SPECIFICATION FairWSpec
CONSTANTS
    e1 = e1  t1 = t1  r1 = r1  r2 = r2  p1 = p1  p2 = p2
    Employees = {e1}
    Types = {t1}
    RequestIds = {r1}
    Policies <- Revised
    MonthsPerYear = 1
    DaysPerMonth = 1
    LastDate = 2
    Weekend = {}
    HolidayDates = {}
    HireDate <- FirstDayHire
    CreatedAs = {"ACTIVE"}
    LongLeave = 9
    Deltas = {}
    MaxAdjustment = 0
    ManualChanges = {}
    MayTerminate = {}
    Procs = {p1, p2}
    MayDie = TRUE
    Interleaved = TRUE
    Handlers = {"submit", "view"}
CHECK_DEADLOCK FALSE
PROPERTIES ProvisionedOnceConcurrently
