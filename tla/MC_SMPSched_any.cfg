CONSTANTS
    NumCPUs <- MC_NumCPUs
    NumaOf <- MC_NumaOf
    Threads = {t1, t2}
    Classes <- MC_Classes
    Deltas <- MC_Deltas
    Masks <- MC_Masks
    Garbage <- MC_Garbage
    UnblockCPUs = {0}
    MaxSetPriority = 1
    Word <- MC_Word
    Prios <- MC_Prios
    NULL = null
    t1 = t1
    t2 = t2
    t3 = t3
    null = null
SPECIFICATION Spec
SYMMETRY MC_Symmetry2
INVARIANT
    BitmapTracksLists
CHECK_DEADLOCK FALSE
