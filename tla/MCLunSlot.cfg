CONSTANTS
    t1 = t1
    t2 = t2
    Task = {t1, t2}
    NrSlot = 2
    Word = 4
SPECIFICATION SlotSpec
SYMMETRY MCSymmetry
INVARIANTS RegisteredIsWhole RemovedIsPurged
