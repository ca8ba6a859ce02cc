SPECIFICATION Spec
CONSTANTS
    PayoutIds = {p1, p2}
    Signatories = {s1}
    Requests = {r1, r2}
    Workers = {w1}
    Expirers = {e1}
    Sweepers = {}
    Initiator = NoSignatory
    NoPayout = NoPayout
    NoSignatory = NoSignatory
    Amounts = {3, 5}
    Threshold = 5
    Fee = 1
    MinBalance = 1
    Policies = {1}
    InitialPolicy = 1
    InitialPanel = {s1}
    InitialBalance = 7
    InflowAmount = 3
    CancelInFlight = FALSE
    EarlyOutcome = FALSE
    LostAnswers = FALSE
    LinksLapse = FALSE
    MaxMonth = 2
    MaxInflows = 1
    MaxPolicyChanges = 0
    MaxPanelChanges = 0
    MaxFaults = 1
    e1 = e1
    p1 = p1
    p2 = p2
    r1 = r1
    r2 = r2
    s1 = s1
    w1 = w1
SYMMETRY Symmetry
INVARIANTS
    LockConservation
    LocksCoverLive
    NotOvercommitted
    DebitsMatchTransfers
    OutcomeAgrees
CHECK_DEADLOCK FALSE
