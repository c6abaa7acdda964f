SPECIFICATION FairSpec
CONSTANTS
    Logins = {l1}
    Adapters = {x1, x2, x3}
    Threads = {h1, h2}
    Loop = Loop
    None = None
    MaxAttempts = 2
INVARIANTS
    NoCloseInFlight
    NoLeakedConnections
    AtMostTwoOrders
    SuccessIsPlaced
PROPERTIES
    EveryCallReturns
