\* Two requests that can each hold half of the budget and wait for the rest, one
\* behind the other; steps of 1, 1 and 2 put a large one ahead of a small one.
CONSTANTS
    o1 = o1
    o2 = o2
    r1 = r1
    r2 = r2
    r3 = r3
    NoOwner = NoOwner
    Owners = {o1, o2}
    Requests = {r1, r2}
    Budget = 4
    InitialBuffer = 1
    MaxJSON = 1
    BodyLimits = {1, 4}
    Lengths = {0, 3}
SPECIFICATION FairSpec
INVARIANTS
    ChargesExact
PROPERTIES
    GateAnswers
