SPECIFICATION FairSpec
CONSTANTS
    People = {m1}
    Requests = {r1, r2}
    Senders = {r1}
    RateLimit = 2
    MaxAttempts = 1
    MaxOthers = 1
    MaxFaults = 2
    m1 = m1
    r1 = r1
    r2 = r2
INVARIANTS
    MembersAreNumbered
    SpentStaysSpent
PROPERTIES
    EveryoneGetsIn
CHECK_DEADLOCK FALSE
