SPECIFICATION Spec
CONSTANTS
    Threads = {main, worker}
    Critical = {"error"}
    Others = {"e1", "e2"}
    Faulty = {}
    Timers <- MCTimers
    None = "none"
    BufferSize = 2
    MaxFailures = 0
    MaxSwitches = 1
SYMMETRY Symmetry
INVARIANTS TypeOK Accounted CriticalIsWritten
