CONSTANTS
    None = None
    o1 = o1
    o2 = o2
    r1 = r1
    t1 = t1
    t2 = t2
    w1 = w1
    w2 = w2
    Lun = {0}
    Cdev = {0}
    Off = {o1}
    MaxFrag = 2
    PagePerFrag = 2
    SctrPerPage = 1
    LunSize = {4}
    Reader = {r1}
    Task = {t1}
    Writer = {w1, w2}
    Faults = {"hdd", "ssd"}
    Drain = TRUE
SPECIFICATION CSpec
SYMMETRY MCSymmetry
INVARIANT CoherentButForRaces
