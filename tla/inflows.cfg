SPECIFICATION FairSpec
CONSTANTS
    Payments = {x1, x2}
    Doubtful = {x2}
    GiverOf <- MCGiverOf
    Nobody = "nobody"
    Jobs = {j1, j2}
    Workers = {w1}
    Operators = {o1}
    NoJob = NoJob
    NoEvent = NoEvent
    GiftKobo = 10
    GiftFee = 1
    RetryLimit = 1
    MaxMonth = 2
    MaxFaults = 1
    x1 = x1
    x2 = x2
    j1 = j1
    j2 = j2
    w1 = w1
    o1 = o1
INVARIANTS
    ProcessedIsRecorded
    ReplayedIsCredited
    GiversCounted
    NothingLostSilently
PROPERTIES
    ImplementsGiftBook
    WebhooksSettle
CHECK_DEADLOCK FALSE
