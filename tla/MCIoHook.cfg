CONSTANTS
    i1 = i1
    i2 = i2
    Io = {i1, i2}
    Faults = {"ssd", "hdd", "mem"}
    NewKernel = FALSE
    Removal = TRUE
SPECIFICATION FairSpec
CHECK_DEADLOCK FALSE
INVARIANTS RefsExact ReleaseIsLast ErrorReported QuietButForLate
PROPERTIES EveryReadEnds RemovalEnds
