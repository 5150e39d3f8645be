\* One request, two calls competing for a limit of one key.
CONSTANTS
    Owners = {o1, o2}
    Admin = admin
    TokenIds = {t1, t2}
    Calls = {c1, c2}
    MaxLiveTokensPerOwner = 1
    MaxEvents = 1
    None = none
    Requests = {"r1"}
    Names <- MCNames
    AutoName = "auto"
    DefaultImageModel = "b"
    Base <- MCBase
    Lower <- MCLower
    Uncloaked <- MCUncloaked
    Keys = {"codex", "claude"}
    PolicyProvider <- MCPolicyProvider
    Policies <- MCPolicies
    Registries <- MCRegistries
    Routes <- MCRoutes
    Bodies <- MCBodies
SPECIFICATION Spec
SYMMETRY Symmetry
INVARIANTS
    TokenLimitKept
    IssuedIsRecorded
    AuthenticatedInTime
    StaysInPolicy
