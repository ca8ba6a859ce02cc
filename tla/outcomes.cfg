SPECIFICATION FairSpec
CONSTANTS
    PayoutIds = {p1, p2}
    Signatories = {s1, s2}
    Requests = {r1}
    Workers = {w1}
    Expirers = {e1}
    Sweepers = {k1}
    Initiator = NoSignatory
    NoPayout = NoPayout
    NoSignatory = NoSignatory
    Amounts = {3, 5}
    Threshold = 5
    Fee = 1
    MinBalance = 0
    Policies = {2}
    InitialPolicy = 2
    InitialPanel = {s1, s2}
    InitialBalance = 8
    InflowAmount = 3
    CancelInFlight = FALSE
    EarlyOutcome = FALSE
    LostAnswers = TRUE
    LinksLapse = FALSE
    MaxMonth = 1
    MaxInflows = 0
    MaxPolicyChanges = 0
    MaxPanelChanges = 0
    MaxFaults = 0
    e1 = e1
    p1 = p1
    p2 = p2
    k1 = k1
    r1 = r1
    s1 = s1
    s2 = s2
    w1 = w1
INVARIANTS
    TypeOK
    FiringDiscipline
PROPERTIES
    EveryPayoutConcludes
    LocksComeBack
CHECK_DEADLOCK FALSE
