CONSTANTS
    Employees = {e1, e2, e3}
    Departments = {d1, d2}
    DepthLimit = 3
    Procs = {p1}
    Interleaved = FALSE
SPECIFICATION Spec
SYMMETRY Symmetry
INVARIANTS ChartIsSound ManagersAreEmployed HistoryExplains
