CONSTANTS
    e1 = e1
    a1 = a1
    l1 = l1
    w1 = w1
    w2 = w2
    Identities = {w1, w2}
    Placeholders = {p1}
    Emails = {e1, e2}
    AccountIds = {a1, a2}
    Legacies = {l1}
    LegacyEmail <- MCLegacyEmail
    LegacyActive <- MCLegacyActive
    LegacyAccounts <- MCLegacyAccounts
    Bootstrap = {}
    Roles = {"owner", "admin", "trader"}
    MaxCrashes = 1
    None = None
SPECIFICATION Spec
INVARIANTS
    OneRecordPerIdentity
PROPERTIES
    OwnerRemains
    OwnersAreAppointed
    DisabledStaysOut
    AccountsFollowTheirMember
SYMMETRY MCSymmetry
CHECK_DEADLOCK FALSE
