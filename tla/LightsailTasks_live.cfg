SPECIFICATION FairSpec
CONSTANTS
    t1 = t1
    NoTask = NoTask
    h1 = h1
    p1 = p1
    Tasks = {t1}
    Starters = {h1}
    Stoppers = {p1}
    MaxCrashes = 1
PROPERTIES
    SearchingIsResumed
