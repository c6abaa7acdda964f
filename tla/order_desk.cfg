SPECIFICATION Spec
CONSTANTS
    Tickets = {t1}
    Bids = {10, 12}
    Levels = {9, 12}
    Spread = 1
    VolumeMin = 2
    VolumeMax = 5
    Volumes = {5}
    Percentages = {50, 80}
    None = None
    MaxDeals = 4
    MaxMoves = 2
INVARIANTS
    TargetBeyondPrice
    HistoryAgrees
PROPERTIES
    PartialCloseLeavesRest
    ProtectionKept
