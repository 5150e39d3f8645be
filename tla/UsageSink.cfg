\* A queue of three, batches of two, and enough records to overflow both.
CONSTANTS
    QueueSize = 3
    BatchMax = 2
    MaxRecords = 5
    NoPrice = NoPrice
    NoBreakdown = NoBreakdown
    Unknown = Unknown
    Completed <- MCCompleted
    Reports <- MCReports
    Prices <- MCPrices
SPECIFICATION Spec
CHECK_DEADLOCK FALSE
INVARIANTS
    RecordsAccounted
    TokensPricedOnce
PROPERTIES
    DrainAnswers
