SPECIFICATION Spec
CONSTANTS
    n1 = n1
    n2 = n2
    n3 = n3
    Names = {n1, n2, n3}
    NoName = NoName
    MaxIps = 2
    MaxAttempts = 2
    Plans <- SafetyPlans
SYMMETRY NameSymmetry
INVARIANTS
    TypeOK
    NoSilentLeak
    RecheckKeepsGround
PROPERTIES
    SearchLeavesWorkingRows
    WorkingReleasedOnlyWhenReplaced
