SPECIFICATION WSpec
CONSTANTS
    e1 = e1  t1 = t1  r1 = r1  r2 = r2  p1 = p1  p2 = p2
    Employees = {e1}
    Types = {t1}
    RequestIds = {r1, r2}
    Policies <- WithHalfDays
    MonthsPerYear = 2
    DaysPerMonth = 1
    LastDate = 3
    Weekend = {}
    HolidayDates = {}
    HireDate <- SecondDayHire
    CreatedAs = {"ACTIVE"}
    LongLeave = 2
    Deltas <- Corrections
    MaxAdjustment = 0
    ManualChanges = {}
    MayTerminate = {e1}
    Procs = {p1}
    MayDie = FALSE
    Interleaved = FALSE
    Handlers = {"submit", "approve", "reject", "cancel", "sync", "adjust", "view"}
SYMMETRY MCSymmetry
CHECK_DEADLOCK FALSE
PROPERTIES ImplementsLedger
