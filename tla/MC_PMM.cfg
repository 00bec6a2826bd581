CONSTANTS
    NumFrames <- MC_NumFrames
    PageSize <- MC_PageSize
    Word <- MC_Word
    LowMem <- MC_LowMem
    KernelEnd <- MC_KernelEnd
    MaxRun <- MC_MaxRun
    MemMaps <- MC_PassMaps
SPECIFICATION Spec
INVARIANTS
    TypeOK
    UsedPagesConsistent
    FirstFitCorrect
    AllocatesOnlyUsableMemory
PROPERTIES
    AbsSpec
