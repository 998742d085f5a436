CONSTANTS
    None = None
    o1 = o1
    o2 = o2
    r1 = r1
    r2 = r2
    t1 = t1
    t2 = t2
    Lun = {0, 1}
    Cdev = {0}
    Off = {o1, o2}
    MaxFrag = 2
    PagePerFrag = 2
    SctrPerPage = 1
    LunSize = {3}
    Reader = {r1, r2}
    Task = {t1, t2}
    Faults = {"hdd", "ssd"}
    Drain = FALSE
SPECIFICATION FairSpec
INVARIANTS TypeOK Accounting Partition Pinned Populating LastUserPurges NoDeadFragment ChoiceStands
PROPERTIES HeldIsKept DeletionCompletes
