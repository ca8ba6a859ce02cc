SPECIFICATION PromptSpec
CONSTANTS
    Requests = {r1, r2, r3}
    FailureThreshold = 2
    SuccessThreshold = 2
    HalfOpenMaxProbes = 2
    BaseCooldown = 2
    MaxCooldown = 5
    Timeout = 2
    r1 = r1
    r2 = r2
    r3 = r3
INVARIANTS
    ProbesBounded
PROPERTIES
    BacksOff
    RecoveryResumes
    OutageTrips
