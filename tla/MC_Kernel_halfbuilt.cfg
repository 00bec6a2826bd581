CONSTANTS
    NumFrames <- MC_NumFrames
    PageSize <- MC_PageSize
    Word <- MC_Word
    LowMem <- MC_LowMem
    KernelEnd <- MC_KernelEnd
    MaxRun <- MC_MaxRun
    KPD <- MC_KPD
    KPT <- MC_KPT
    MemMaps <- MC_AmpleMaps
    MaxProc = 5
    TimeSlice = 2
    BatchSizes = {3}
    MaxBatches = 2
    Syscalls = {1, 2, 6}
    MaxLen = 1
    RAMFS_MAX_FILES = 2
    RAMFS_MAX_FILESIZE = 4096
    NoName = noname
    WELCOME = welcome
    README = readme
    FsNames = {}
    FsLens = {1}
SPECIFICATION Spec
CHECK_DEADLOCK FALSE
INVARIANT DispatchedProcessComplete
