\* Two sessions competing for one slot or two calls competing for a session.
CONSTANTS
    Ids = {1, 2}
    Completers = {"c1", "c2"}
    MaxPendingLogins = 1
    NoId = 0
SPECIFICATION LoginSpec
INVARIANTS
    SettledOnce
PROPERTIES
    EveryLoginEnds
CHECK_DEADLOCK FALSE
