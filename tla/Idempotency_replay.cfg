SPECIFICATION FairSpec
CONSTANTS
    r1 = r1  r2 = r2  a = a  b = b  c = c  d = d  p = p  q = q  colon = colon
    small = small  big = big
    Slots = {r1, r2}
    Chars <- MCChars
    Colon = colon
    Operations <- MCOperations
    NoTenant = NoTenant
    NoKey = NoKey
    Partial = small
    Oversize <- MCOversize
    HashBody <- MCHashBody
    HashRequest <- MCHashRequest
    Chunks = 2
    TTL = 1
INVARIANTS TypeOK NoReexecution ReplayIsOwn ReplayIsWhole
PROPERTIES RequestsEnd
