SPECIFICATION FairSpec
CONSTANTS
    t1 = t1
    t2 = t2
    n1 = n1
    n2 = n2
    Tasks = {t1, t2}
    Names = {n1, n2}
    TTL = 2
    Timeout = 1
    MaxVersion = 2
INVARIANTS
    TypeOK
    NoStaleFill
    BoundedStaleness
PROPERTIES
    CallsEnd
