\* Two catalogs and none, two overrides and three checks through two starts.
CONSTANTS
    Models = {"m"}
    Providers = {"claude", "chatgpt"}
    Keys <- MCKeys
    Rates = {0, 1, 2, 3}
    NoPrice = NoPrice
    NoTable = NoTable
    Sections <- MCSections
    Urls = {"u1", "u2"}
    Off = Off
    Tags = {"t1", "t2", "t3"}
    NoTag = NoTag
    DocOf <- MCDocOf
    Overrides <- MCOverrides
    MaxReplaces = 2
    MaxChecks = 3
    MaxStarts = 2
SPECIFICATION Spec
INVARIANTS
    PricesMatchStore
PROPERTIES
    KeepsPriceList
CHECK_DEADLOCK FALSE
