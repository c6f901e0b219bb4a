SPECIFICATION FairSpec
CONSTANTS
    Users <- MCUsers
    Prefixes <- MCPrefixes
    Under <- MCUnder
    Requests <- MCRequests
    TTL = 2
    MaxVersion = 1
INVARIANTS TypeOK IndexOutlives InvalidationHolds
PROPERTIES StaleEnds
