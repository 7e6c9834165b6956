SPECIFICATION MCSpec
CONSTANTS
    ada = ada  first = first  second = second  employee = employee  hrAdmin = hrAdmin
    d1 = d1  d2 = d2  q1 = q1  q2 = q2  c1 = c1  c2 = c2
    lead = lead  dev = dev  gone = gone  hr = hr  Nobody = Nobody  g1 = g1  g2 = g2  g3 = g3
    Staff = {ada}
    Desks = {d1, d2}
    MaxSession = 2
    DayLength = 3
    DaysPerMonth = 1
    ManualHours = {0, 3}
    LastHour = 4
    MaxRequests = 4
    MaxRecords = 2
    Questions = {q1, q2}
    Conversations = {c1}
    Chain <- MCChain
    Cooldown = 2
    DailyLimit = 1
    RoleLimits <- MCRoleLimits
    Setups <- MCSetups
    TicksPerDay = 2
    LastTick = 2
    MaxQuestions = 3
    MaxMishaps = 2
    Employees = {lead, dev, gone}
    Terminated = {gone}
    Users = {lead, dev, hr}
    Hr = {hr}
    Leads = {lead, hr}
    ManagerOf <- MCManagerOf
    Scenarios <- MCScenarios
    Ratings = {1, 2}
    GoalIds = {g1, g2, g3}
    Weights = {0, 40, 60}
    Ahead = 1
    LastDay = 2
    MaxDeaths = 1
CHECK_DEADLOCK FALSE
INVARIANTS SecondOpenNeedsCause HoursAddUp CapWithinFlight PaidIsCounted RefusalMeansAllDown
INVARIANTS ClosedIsSettled ShownRatingIsFinal GoalWeightsFit
PROPERTIES ForgottenIsClosed DueIsReminded
