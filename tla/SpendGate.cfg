\* Requests under fixed rules: two slots, one account, two windows.
CONSTANTS
    u1 = u1
    r1 = r1
    r2 = r2
    a1 = a1
    a2 = a2
    NoAdmin = NoAdmin
    NoUser = NoUser
    Inherit = Inherit
    Lengths = {1, 3}
    MaxWindow = 3
    MaxRules = 10
    NoRow = NoRow
    StoreMayFail = TRUE
    MaxAmount = 3
    Users = {u1}
    Slots = {r1, r2}
    Admins = {}
    RuleSets <- TwoRules
    Costs = {0, 1, 2}
    MaxTime = 4
    MaxLedger = 8
SPECIFICATION Spec
SYMMETRY SlotSymmetry
INVARIANTS
    AdmittedIsMetered
    OverspendBounded
    AnswersExact
PROPERTIES
    LiveWindowKept
    ChargeFollowsLedger
