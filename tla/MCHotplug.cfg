CONSTANTS
    None = None
    o1 = o1
    r1 = r1
    r2 = r2
    t1 = t1
    t2 = t2
    Lun = {0, 1}
    Cdev = {0, 1}
    Off = {o1}
    MaxFrag = 1
    PagePerFrag = 1
    SctrPerPage = 1
    LunSize = {1}
    Reader = {r1, r2}
    Task = {t1, t2}
    Faults = {"hdd", "ssd"}
    Drain = TRUE
    MaxRemovals = 1
SPECIFICATION HSpec
SYMMETRY MCSymmetry
INVARIANTS ReadsOutliveNoSsd MapAndOwnersAgree FreeButForReturned LunCoversUsers
