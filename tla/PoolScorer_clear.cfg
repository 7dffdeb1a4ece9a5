SPECIFICATION Spec
CONSTANTS
    None = None
    i1 = i1
    Ips = {i1}
    Batch = 1
    Threshold = 600
    Losses <- SomeLosses
    Rtts <- SomeRtts
    Events = {"clear"}
    MaxCrashes = 0
PROPERTY ClearedStaysDue
