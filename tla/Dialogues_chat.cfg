SPECIFICATION Spec
CONSTANTS
    Absent = Absent
    Nil = Nil
    Root = Root
    Panels = {a}
    Profiles = {f}
    Domains = {x, y}
    Slots = {s1, s2}
    Plans <- SomePlans
    Servers <- SomeServers
    h1 = h1
    h2 = h2
    h3 = h3
    t = t
    u = u
    i1 = i1
    i2 = i2
    HostList <- ThreeHosts
    FirstTag <- TwoTags
    IpSets <- TwoSets
INVARIANTS
    TypeOK
    
    HysteriaNodeServed
    CredentialsStay
    MissingOnlyIfMixed
    
SYMMETRY Disorder
CHECK_DEADLOCK FALSE
