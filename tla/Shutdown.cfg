\* Two proxied requests and both listeners.
CONSTANTS
    r1 = r1
    r2 = r2
    metrics = metrics
    web = web
    Proxied = {r1, r2}
    Listeners = {metrics, web}
SPECIFICATION StopFairSpec
CHECK_DEADLOCK FALSE
INVARIANTS
    IdleIsExact
    CutIsReported
    NothingOutlivesThePool
PROPERTIES
    StopEnds
