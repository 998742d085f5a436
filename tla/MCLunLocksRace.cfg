CONSTANTS
    l1 = l1
    l2 = l2
    Lun = {l1, l2}
    NrFrag = 2
    LogSize = 2
    Races = TRUE
SPECIFICATION Spec
SYMMETRY MCSymmetry
CHECK_DEADLOCK FALSE
INVARIANT CountBacksList
