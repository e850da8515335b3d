CONSTANTS
    o1 = o1
    c1 = c1
    c2 = c2
    g1 = g1
    Owner = o1
    SuperGroup = g1
    Convs <- MCConvs
    MaxVer = 1
    MaxWrites = 2
INIT Init
NEXT Next
INVARIANT TypeOK
INVARIANT CacheCoherent
CHECK_DEADLOCK FALSE
