SPECIFICATION FairSpec
CONSTANTS
    Members = {m1}
    Visitor = Visitor
    Org = Org
    Funds = {f1, f2}
    Requests = {r1, r2}
    AnonymousGiving = AnonymousGiving
    NoFund = NoFund
    NoRef = NoRef
    MaxDay = 2
    MaxChanges = 2
    MaxFaults = 1
INVARIANTS
    GivenNumbersResolve
PROPERTIES
    TappingSucceeds
    GivingPageOpens
CHECK_DEADLOCK FALSE
