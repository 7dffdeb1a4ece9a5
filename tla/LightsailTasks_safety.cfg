SPECIFICATION Spec
CONSTANTS
    t1 = t1
    t2 = t2
    NoTask = NoTask
    h1 = h1
    p1 = p1
    Tasks = {t1, t2}
    Starters = {h1}
    Stoppers = {p1}
    MaxCrashes = 0
SYMMETRY TaskSymmetry
INVARIANTS
    TypeOK
    RegisteredTaskLive
    SingleFlightOutsideWindow
    
    UndisturbedStopQuiesces
    UnownedInstanceHasCause
