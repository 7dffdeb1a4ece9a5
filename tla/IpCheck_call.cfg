SPECIFICATION FairSpec
CONSTANTS
    i1 = i1
    i2 = i2
    server = server
    n1 = n1
    Ips = {i1, i2}
    Nodes = {server, n1}
    Excluded = {server}
    Unset = Unset
    MaxPolls = 2
    StuckPolls = 1
CHECK_DEADLOCK FALSE
INVARIANTS
    TypeOK
PROPERTIES
    
    CallEnds
