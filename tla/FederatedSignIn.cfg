CONSTANTS
    a1 = a1
    a2 = a2
    s1 = s1
    s2 = s2
    e1 = e1
    e2 = e2
    p1 = p1
    p2 = p2
    l1 = l1
    l2 = l2
    NoId = NoId
    NoUser = NoUser
    NoEmail = NoEmail
    AdminIds = {a1, a2}
    Subjects = {s1, s2}
    Emails = {e1, e2}
    Policies = {"p1", "p2"}
    Grants = {"p2"}
    Procs = {p1, p2}
    Logins = {l1, l2}
    EmailsOf <- MCEmailsOf
    Configs <- MCConfigs
    Changes <- MCChanges
    NewUsers <- MCNewUsers
    MaxOps = 3
    MaxStarts = 2
SPECIFICATION Spec
SYMMETRY ProcSymmetry
INVARIANTS
    AdminRemainsUnlessStale
    SubjectOwnsAccount
    RedeemedOnce
PROPERTIES
    BootstrapFinished
    ColumnsKeepTheirOwner
CHECK_DEADLOCK FALSE
