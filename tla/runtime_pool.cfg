SPECIFICATION Spec
CONSTANTS
    e1 = e1
    e2 = e2
    e3 = e3
    p1 = p1
    p2 = p2
    h1 = h1
    h2 = h2
    Accounts = {a, b, c}
    Endpoints = {e1, e2, e3}
    Pools <- SmallPools
    Processes = {p1, p2}
    Threads = {h1, h2}
    ProcessOf <- TwoThreads
    None = None
INVARIANTS
    PInv
    NoSharedTerminal
PROPERTIES
    StableEndpoint
SYMMETRY AccountSymmetry
