CONSTANTS
    NumFrames <- MC_NumFrames
    PageSize <- MC_PageSize
    Word <- MC_Word
    LowMem <- MC_LowMem
    KernelEnd <- MC_KernelEnd
    MaxRun <- MC_MaxRun
    KPD <- MC_KPD
    KPT <- MC_KPT
    MemMaps <- MC_OomMaps
    MaxProc = 4
    TimeSlice = 2
    BatchSizes = {3}
    MaxBatches = 3
    Syscalls = {1, 2, 6}
    MaxLen = 1
    RAMFS_MAX_FILES = 3
    RAMFS_MAX_FILESIZE = 4096
    NoName = noname
    WELCOME = welcome
    README = readme
    FsNames = {welcome, f1, f2}
    FsLens = {1, 2}
SPECIFICATION Spec
CHECK_DEADLOCK FALSE
INVARIANTS
    DispatchConsistent
PROPERTIES
    FileSystemRefines
