CONSTANTS
    NumCPUs <- MC_NumCPUs
    NumaOf <- MC_NumaOf
    Threads <- MC_Threads
    Classes <- MC_Classes
    Deltas <- MC_Deltas
    Masks <- MC_Masks
    Garbage = {0}
    UnblockCPUs = {0}
    MaxSetPriority = 0
    Word <- MC_Word
    Prios <- MC_Prios
    NULL = null
    t1 = t1
    t2 = t2
    t3 = t3
    null = null
SPECIFICATION Spec
SYMMETRY MC_Symmetry
INVARIANTS
    QueueIntegrity
    ExclusiveDispatch
    AffinityRespected
PROPERTIES
    IdleCPUFindsWork
    ThreadsRefines
