SPECIFICATION Spec
CONSTANTS
    Logins = {l1, l2}
    Adapters = {x1, x2, x3}
    Threads = {h1}
    Loop = Loop
    None = None
    MaxAttempts = 2
PROPERTIES
    FailedReconfigureKeepsSession
SYMMETRY AdapterSymmetry
