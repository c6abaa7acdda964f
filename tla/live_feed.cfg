CONSTANTS
    c1 = c1
    c2 = c2
    a1 = a1
    a2 = a2
    Clients = {c1, c2}
    Accounts = {a1, a2}
    Sockets = {s1, s2}
    MaxFaults = 2
    Unsteady = {c1, a1}
    Mounted <- MCMounted
    RecoverAfter = 2
    None = None
SPECIFICATION FairSpec
INVARIANTS OneSocketPerHook AlwaysAWayForward NeverThePreviousAccount NoGhostSubscribers
PROPERTIES DashboardsSettle
CHECK_DEADLOCK FALSE
