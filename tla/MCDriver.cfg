CONSTANTS
    None = None
    d1 = d1
    d2 = d2
    i1 = i1
    t1 = t1
    Disk = {d1, d2}
    Io = {i1}
    Task = {t1}
    Faults = TRUE
SPECIFICATION FairSpec
CHECK_DEADLOCK FALSE
INVARIANTS ServedIsWhole LostOnlyAtUnload RolesDisjoint HandsOutOpen  CleanExit
PROPERTY UnloadEnds
