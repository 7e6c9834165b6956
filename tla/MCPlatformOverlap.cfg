SPECIFICATION MCSpec
CONSTANTS
    u1 = u1  dm = dm  c1 = c1  c2 = c2  w1 = w1  w2 = w2
    staff = staff  admin = admin  p1 = p1  p2 = p2
    Notes = {dm}
    Users = {u1}
    To <- ToOneUser
    Via <- BySlack
    Callers = {c1, c2}
    Workers = {w1, w2}
    Attempts = 3
    MaxStalled = 1
    MaxCrashes = 2
    MaxOutages = 1
    MaxUnanswered = 1
    CallersFail = TRUE
    SlackConfigured = TRUE
    Roles = {staff, admin}
    SystemRoles = {admin}
    MfaRoles = {admin}
    Permissions = {"read"}
    MaxAttempts = 2
    LockTime = 1
    AccessTtl = 2
    RefreshTtl = 3
    OneTimeTtl = 2
    ChallengeTtl = 2
    Window = 1
    Procs = {p1, p2}
    Scenarios <- MCOverlap
    MaxTime = 3
    MaxTokens = 3
    MaxOneTime = 2
    MaxSecrets = 5
CHECK_DEADLOCK FALSE
INVARIANT ChangesBiteAtOnce
