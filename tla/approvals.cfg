SPECIFICATION Spec
CONSTANTS
    PayoutIds = {p1}
    Signatories = {s1, s2, s3, s4}
    Requests = {r1, r2}
    Workers = {w1}
    Expirers = {e1}
    Sweepers = {}
    Initiator = s4
    NoPayout = NoPayout
    NoSignatory = NoSignatory
    Amounts = {5}
    Threshold = 5
    Fee = 1
    MinBalance = 1
    Policies = {1, 2}
    InitialPolicy = 2
    InitialPanel = {s1, s2, s4}
    InitialBalance = 8
    InflowAmount = 3
    CancelInFlight = FALSE
    EarlyOutcome = FALSE
    LostAnswers = TRUE
    LinksLapse = TRUE
    MaxMonth = 1
    MaxInflows = 0
    MaxPolicyChanges = 1
    MaxPanelChanges = 1
    MaxFaults = 1
    e1 = e1
    p1 = p1
    r1 = r1
    r2 = r2
    s1 = s1
    s2 = s2
    s3 = s3
    s4 = s4
    w1 = w1
SYMMETRY Symmetry
INVARIANTS
    NoVoteForgotten
    QuorumBehindTransfer
    QuorumReachable
PROPERTIES
    ImplementsLifecycle
CHECK_DEADLOCK FALSE
