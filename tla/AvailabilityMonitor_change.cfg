SPECIFICATION Spec
CONSTANTS
    g1 = g1
    k1 = k1
    k2 = k2
    h1 = h1
    h2 = h2
    h3 = h3
    i1 = i1
    i2 = i2
    i3 = i3
    i4 = i4
    NoIp = NoIp
    Groups = {g1}
    Slots = {k1}
    Batches = 2
    MaxCrashes = 1
    Plans <- ChangePlans
SYMMETRY CheckSymmetry
INVARIANTS
    TypeOK
    ReplacementReachesAllUnlessSpoiled
    ReplacementIsNotCooling
    SkipInTimeIsHonoured
    DistinctUnlessSpoiled
PROPERTIES
    EachMovesOnlyBad
