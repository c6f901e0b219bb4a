SPECIFICATION Spec
CONSTANTS
    a = a
    b = b
    s1 = s1
    s2 = s2
    s3 = s3
    k1 = k1
    k2 = k2
    Packages <- MCPackages
    Workers = 2
    Sources <- MCSources
    KeyOf <- MCKeys
    MaxRuns = 2
    None = None
    Torn = Torn
SYMMETRY Symmetry
CONSTRAINT OneInTrouble
INVARIANTS SuccessIsCurrent EdgesFirst
CHECK_DEADLOCK FALSE
