SPECIFICATION Spec
CONSTANTS
    None = None
    eu = eu
    slow = slow
    xau = xau
    o1 = o1
    o2 = o2
    p1 = p1
    p2 = p2
    m1 = m1
    m2 = m2
    g1 = g1
    Feeds = {eu, slow, xau}
    Traded <- MCTraded
    Period <- MCPeriod
    Warmup <- MCWarmup
    Triggers = {eu, xau}
    ExactClose = FALSE
    OrderTypes <- MCOrderTypes
    Fillings <- MCFillings
    Capabilities <- MCCapabilities
    Hedging = TRUE
    Quotes <- MCQuotes
    Outputs <- MCOutputs
    OrderIds = {o1, o2}
    PositionIds = {p1, p2}
    PlanIds = {m1, m2}
    GroupIds = {g1}
INVARIANTS
    TypeOK
    BoundedProtection
    SnapshotAccepted
    PendingStaysValid
    ExitsNeverBlocked
SYMMETRY IdSymmetry
