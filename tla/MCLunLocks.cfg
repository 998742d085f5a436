CONSTANTS
    l1 = l1
    l2 = l2
    Lun = {l1, l2}
    NrFrag = 3
    LogSize = 2
    Races = FALSE
SPECIFICATION Spec
SYMMETRY MCSymmetry
CHECK_DEADLOCK FALSE
INVARIANTS ListExact HeadInRing
