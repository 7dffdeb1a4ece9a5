SPECIFICATION Spec
CONSTANTS
    None = None
    i1 = i1
    i2 = i2
    Ips = {i1, i2}
    Batch = 1
    Threshold = 600
    Losses <- SomeLosses
    Rtts <- SomeRtts
    Events = {"scan", "clear", "delete", "sets"}
    MaxCrashes = 1
SYMMETRY IpSymmetry
INVARIANTS
    TypeOK
    BusyMeansAtWork
    EndedScanSettles
PROPERTIES
    TasksDoNotPile
    ApprovalLostForCause
    HealthCheckOnlyRevokes
    ClearedStaysDueUnlessScanning
