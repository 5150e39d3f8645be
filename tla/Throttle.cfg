\* More attempts at a time than the limit of three, and nearly two windows of time.
CONSTANTS
    a1 = a1
    a2 = a2
    a3 = a3
    a4 = a4
    NoRow = NoRow
    NoTime = NoTime
    Attempts = {a1, a2, a3, a4}
    MaxFailures = 3
    LockFor = 4
    Skew = 1
    MaxNow = 7
SPECIFICATION Spec
SYMMETRY AttemptSymmetry
INVARIANTS
    GuessesBounded
    LockEarned
PROPERTIES
    LockNotRenewed
