SPECIFICATION FairSpec
CONSTANTS
    PayoutIds = {p1}
    Signatories = {s1}
    Requests = {r1}
    Workers = {w1}
    Expirers = {}
    Sweepers = {}
    Initiator = NoSignatory
    NoPayout = NoPayout
    NoSignatory = NoSignatory
    Amounts = {3}
    Threshold = 5
    Fee = 1
    MinBalance = 1
    Policies = {1}
    InitialPolicy = 1
    InitialPanel = {s1}
    InitialBalance = 8
    InflowAmount = 3
    CancelInFlight = FALSE
    EarlyOutcome = TRUE
    LostAnswers = TRUE
    LinksLapse = FALSE
    MaxMonth = 1
    MaxInflows = 0
    MaxPolicyChanges = 0
    MaxPanelChanges = 0
    MaxFaults = 0
    p1 = p1
    r1 = r1
    s1 = s1
    w1 = w1
PROPERTIES
    SuccessIsRecorded
CHECK_DEADLOCK FALSE
