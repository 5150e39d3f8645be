\* Administrators changing the rules under a request.
CONSTANTS
    u1 = u1
    r1 = r1
    r2 = r2
    a1 = a1
    a2 = a2
    NoAdmin = NoAdmin
    NoUser = NoUser
    Inherit = Inherit
    Lengths = {1, 2}
    MaxWindow = 3
    MaxRules = 10
    NoRow = NoRow
    StoreMayFail = TRUE
    MaxAmount = 3
    Users = {u1}
    Slots = {r1}
    Admins = {a1, a2}
    RuleSets <- AdminSets
    Costs = {1}
    MaxTime = 1
    MaxLedger = 1
SPECIFICATION Spec
SYMMETRY AdminSymmetry
INVARIANT
    MemoryMatchesStore
PROPERTIES
    OnlyStaleDrops
