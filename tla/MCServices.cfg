SPECIFICATION MCSpec
CONSTANTS
    Mails = {d1, d2, m1}
    Deploys = {d1, d2}
    PageSize = 2
    Lookback = 1
    MaxClock = 6
    MaxFaults = 2
    Emails = {e1}
    Passwords = {p1, p2}
    Links = {l1, l2}
    Requests = {q1, q2}
    None = None
    Puts = {u1, u2}
    Tests = {t1, t2}
    QuarantinedTests = {t2}
    Uploads = {w1, w2}
    Tokens = {k1, k2, k3, k4, k5}
    Starts = {10, 40, 66, 67}
    MaxTicks = 1
    Offers <- MCOffers
    Targets <- MCTargets
    Slips = 1
    Pool <- MCPool
    EngineersOnly = 2
    Wrong = 1
    ReportPlans <- MCReportPlans
    MaxRedeliveries = 1
INVARIANTS EveryDeployTriggers SessionsAreEarned LastLoginWorks
INVARIANTS SettledSchedulesAgree ConnectionStaysUsable 
INVARIANTS SlotVerdictsAreReal OneVerdictEach SearchVerdictsAreReal
CHECK_DEADLOCK FALSE
