SPECIFICATION Spec
CONSTANTS
    ceo = ceo  head = head  lead = lead  dev = dev  Nobody = Nobody  d1 = d1  d2 = d2  p1 = p1  p2 = p2
    w1 = w1  w2 = w2  s1 = s1  s2 = s2
    Docs = {d1, d2}
    Employees = {ceo, head, lead, dev}
    ManagerOf <- MCManagerOf
    Procs = {p1, p2}
    Workers = {w1, w2}
    Scenarios <- MCScenarios
    MaxFiles = 3
    MaxDepth = 2
    MaxReports = 2
    IndexAttempts = 2
    MaxStalled = 1
    Screeners = {s1, s2}
    Attempts = 2
    MaxScreenings = 2
SYMMETRY Symmetry
CHECK_DEADLOCK FALSE
INVARIANTS StaleIndexNeedsFault ListMatchesCanRead ListedFilesExist ErasureIsComplete ScreeningSettles
