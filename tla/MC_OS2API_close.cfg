CONSTANTS
    MAX_HANDLES = 5
    OPEN_MAX = 5
    Names <- MC_Names
    OpenFlags <- MC_OpenFlags
    OpenModes <- MC_OpenModes
    Blocks = {b1}
    OpenErrs = {13}      \* EACCES
    CloseErrs = {5}      \* EIO
    NULL = null
    n1 = n1
    n2 = n2
    b1 = b1
    null = null
SPECIFICATION Spec
SYMMETRY MC_Symmetry
PROPERTY
    TransferReachesItsFile
\* DosExit ends the process: the model stops there.
CHECK_DEADLOCK FALSE
