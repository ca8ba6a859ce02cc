SPECIFICATION FairSpec
CONSTANTS
    Admins = {a1, a2}
    Founders = {a1}
    Requests = {r1, r2}
    TeamRequests = {r1}
    NoAdmin = NoAdmin
    NoEntry = NoEntry
    MaxVersion = 1
INVARIANTS
    LastAdminStays
    NothingAhead
PROPERTIES
    RevocationSettles
CHECK_DEADLOCK FALSE
