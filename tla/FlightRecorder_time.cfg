SPECIFICATION FairSpec
CONSTANTS
    Threads = {"main", "worker"}
    Critical = {}
    Others = {"e1", "e2"}
    Faulty = {"e2"}
    Timers = {"f1", "f2", "f3", "f4"}
    None = "none"
    BufferSize = 2
    MaxFailures = 1
    MaxSwitches = 0
INVARIANTS Accounted
PROPERTIES WrittenInTime
CONSTRAINT StillInside
