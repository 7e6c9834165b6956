SPECIFICATION FairHSpec
CONSTANTS
    e1 = e1   t1 = t1  r1 = r1  r2 = r2
    Employees = {e1}
    Types = {t1}
    RequestIds = {r1, r2}
    Policies <- Revised
    MonthsPerYear = 3
    DaysPerMonth = 1
    LastDate = 4
    Weekend = {3}
    HolidayDates = {2}
    HireDate <- SecondDayHire
    CreatedAs = {"ONBOARDING", "ACTIVE"}
    LongLeave = 1
    Deltas <- Corrections
    MaxAdjustment = 0
    ManualChanges <- ByHand
    MayTerminate = {e1}
CHECK_DEADLOCK FALSE
INVARIANTS NoOverlap LedgerBalanced NotOverdrawn AppliedIsOnLeave
PROPERTY LeaveEnds
