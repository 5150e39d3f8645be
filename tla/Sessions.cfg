\* A sign-in, a password change and two resets or blocks at a time, through three
\* passwords and two sessions.
CONSTANTS
    s1 = s1
    s2 = s2
    c1 = c1
    a1 = a1
    a2 = a2
    SignIns = {s1}
    Changers = {c1}
    Admins = {a1, a2}
    MaxPasswords = 3
    MaxSessions = 2
SPECIFICATION SessionsSpec
SYMMETRY AdminSymmetry
INVARIANTS
    RevocationSignsOut
    EverySessionRecorded
    RestrictedUnlessCrossed
