\* One vendor account and one OpenAI-compatible provider beside one of the
\* boot configuration's.
SPECIFICATION Spec
CONSTANTS
    None = None
    Vendors = {"v"}
    Compats = {"c", "s"}
    Tokens = {"t1", "t2"}
    Urls = {"u1", "u2"}
    Secrets = {"k"}
    Static = {"s"}
    StaticEntry = StaticEntry
    Docs = {"d0", "d1", "bad", "weights"}
    Default = "d0"
    Invalid = {"bad"}
    Refused = {"weights"}
    Submitted <- MCSubmitted
    Seeds <- MCSeeds
    MaxCalls = 2
    MaxChanges = 1
    MaxFaults = 1
    MaxStarts = 2
INVARIANTS
    RemovedStaysRemoved
    HeldIsStored
    RoutedAsHeld
    StoredIsRunning
    SecretStaysWithItsUrl
CHECK_DEADLOCK FALSE
