SPECIFICATION FairSpec
CONSTANTS
    n1 = n1
    n2 = n2
    n3 = n3
    Names = {n1, n2, n3}
    NoName = NoName
    MaxIps = 2
    MaxAttempts = 2
    Plans <- LivePlans
INVARIANTS
    OneRowAttached
PROPERTIES
    RecheckEnds
    PausedSearchEnds
