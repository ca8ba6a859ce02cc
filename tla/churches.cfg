SPECIFICATION FairSpec
CONSTANTS
    grace = grace
    grace2 = grace2
    third = third
    r1 = r1
    r2 = r2
    r3 = r3
    r4 = r4
    Churches = {grace, grace2, third}
    Requests = {r1, r2, r3, r4}
    ChurchOf <- MCChurchOf
    Uploaders = {r1, r2}
    Slugs = {"grace", "grace-2", "grace-3", "grace-2-2", "grace-2-3"}
    Candidates <- MCCandidates
    Assets = {1, 2, 3, 4, 5, 6, 7}
    NoSlug = "no slug"
    NoAsset = 0
    MaxFaults = 2
INVARIANTS
    BrokenOnlyUnanswered
    StraysPaidFor
PROPERTY
    EveryoneRegisters
