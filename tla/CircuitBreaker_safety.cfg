SPECIFICATION FairSpec
CONSTANTS
    w1 = w1
    w2 = w2
    w3 = w3
    b1 = b1
    b2 = b2
    Workers = {w1, w2, w3}
    Breakers = {b1}
    Home <- SharedHome
    Threshold = 2
    Recovery = 2
    StateTTL = 3
    FailOpen = FALSE
INVARIANTS
    TypeOK
    OpeningNotLost
    NoOrphanHalfOpen
PROPERTIES
    LeavesHalfOpen
    LeavesOpen
