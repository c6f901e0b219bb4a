SPECIFICATION FairSpec
CONSTANTS
    MainApps <- MCMainApps
    ThreadApps <- MCThreadApps
    Alone <- MCAlone
    Callbacks = 2
    MaxSignals = 3
    Global = "global"
    Nobody = "nobody"
INVARIANTS NoSignalSwallowed WedgedOnlyBeforeUp
PROPERTIES CleanupEnds
CHECK_DEADLOCK FALSE
