------------------------------- MODULE OS2API -------------------------------
(***************************************************************************)
(* The OS/2 API emulation layer (OS2_Wrapper/os2_emulator.c): the OS/2     *)
(* handle table laid over the Linux descriptors of the hosting process,    *)
(* and the Dos* calls of its export table as one program calls them, one   *)
(* after another.                                                          *)
(*                                                                         *)
(* The Linux side is modelled by what the calls do to the process: fdtab   *)
(* is the descriptor table (open() takes the lowest free descriptor,       *)
(* close() releases it even when it reports an error), exists is the set   *)
(* of file names in the directory.  File contents, offsets and the path    *)
(* strings are abstracted: a file is its name, and a descriptor records    *)
(* the file it reaches and its access mode.  Logging (printf) is left out. *)
(***************************************************************************)
EXTENDS Integers, FiniteSets, FiniteSetsExt, Functions, Bitwise

CONSTANTS
    MAX_HANDLES,    \* 256 in os2_emulator.c
    OPEN_MAX,       \* the process's descriptor limit (RLIMIT_NOFILE)
    Names,          \* file names programs pass
    OpenFlags,      \* ulOpenFlags values programs pass
    OpenModes,      \* ulOpenMode values programs pass
    Blocks,         \* addresses malloc can return
    OpenErrs,       \* errno values open() can report on lookup (e.g. EACCES)
    CloseErrs,      \* errno values close() can report on an open descriptor
    NULL

ASSUME MAX_HANDLES >= 4 /\ OPEN_MAX >= 4

VARIABLES
    handle_table, handle_table_initialized,   \* os2_emulator.c statics
    fdtab, exists, heap,                      \* the hosting Linux process
    running,                                  \* FALSE once DosExit has run
    ret                                       \* the last call and its results

vars == <<handle_table, handle_table_initialized, fdtab, exists, heap, running, ret>>

HIdx == 0 .. MAX_HANDLES - 1
Fds  == 0 .. OPEN_MAX - 1
TTY  == "tty"                                    \* what descriptors 0-2 reach
NoFile == [f |-> "none", acc |-> "none"]         \* a free descriptor

NO_ERROR == 0
ERROR_INVALID_FUNCTION == 1
ERROR_FILE_NOT_FOUND == 2
ERROR_TOO_MANY_OPEN_FILES == 4
ERROR_ACCESS_DENIED == 5
ERROR_INVALID_HANDLE == 6
ERROR_NOT_ENOUGH_MEMORY == 8
ERROR_INVALID_PARAMETER == 87
OS2Errors == {NO_ERROR, ERROR_INVALID_FUNCTION, ERROR_FILE_NOT_FOUND, ERROR_TOO_MANY_OPEN_FILES,
              ERROR_ACCESS_DENIED, ERROR_INVALID_HANDLE, ERROR_NOT_ENOUGH_MEMORY,
              ERROR_INVALID_PARAMETER}

\* Linux errno values (asm-generic/errno-base.h)
ENOENT == 2
EIO    == 5
EBADF  == 9
ENOMEM == 12
EACCES == 13
EEXIST == 17
EINVAL == 22
EMFILE == 24
ESPIPE == 29

FILE_EXISTED == 1
FILE_CREATED == 2
FILE_TRUNCATED == 3

(* Mutant: an errno without an OS/2 equivalent is returned as it is. *)
errno_to_os2_passthrough(err) ==
    CASE err = ENOENT -> ERROR_FILE_NOT_FOUND
      [] err = EACCES -> ERROR_ACCESS_DENIED
      [] err = EINVAL -> ERROR_INVALID_PARAMETER
      [] err = EMFILE -> ERROR_TOO_MANY_OPEN_FILES
      [] err = ENOMEM -> ERROR_NOT_ENOUGH_MEMORY
      [] err = EBADF  -> ERROR_INVALID_HANDLE
      [] OTHER        -> err

(* errno_to_os2; errno 0 never reaches it, every caller passes the errno *)
(* of a failed call.                                                     *)
errno_to_os2(err) ==
    CASE err = ENOENT -> ERROR_FILE_NOT_FOUND
      [] err = EACCES -> ERROR_ACCESS_DENIED
      [] err = EINVAL -> ERROR_INVALID_PARAMETER
      [] err = EMFILE -> ERROR_TOO_MANY_OPEN_FILES
      [] err = ENOMEM -> ERROR_NOT_ENOUGH_MEMORY
      [] err = EBADF  -> ERROR_INVALID_HANDLE
      [] OTHER        -> ERROR_INVALID_FUNCTION

(* init_handle_table: handles 0-2 are stdin, stdout and stderr. *)
init_handle_table(ht, done) ==
    IF done THEN ht
    ELSE [i \in HIdx |-> IF i < 3 THEN [linux_fd |-> i, in_use |-> TRUE, path |-> ""]
                         ELSE [linux_fd |-> -1, in_use |-> FALSE, path |-> ""]]

(* Mutant: the scan takes slot 3 whether or not it is in use. *)
allocate_handle_nocheck(ht, fd, path) ==
    [ht |-> [ht EXCEPT ![3] = [linux_fd |-> fd, in_use |-> TRUE, path |-> path]], h |-> 3]

(* allocate_handle: the first free slot from 3 on, or (HFILE)-1. *)
allocate_handle(ht, fd, path) ==
    LET free == {i \in 3 .. MAX_HANDLES - 1 : ~ht[i].in_use}
    IN  IF free = {} THEN [ht |-> ht, h |-> -1]
        ELSE LET i == Min(free)
             IN  [ht |-> [ht EXCEPT ![i] = [linux_fd |-> fd, in_use |-> TRUE, path |-> path]],
                  h  |-> i]

get_linux_fd(h) ==
    IF h >= MAX_HANDLES \/ ~handle_table[h].in_use THEN -1 ELSE handle_table[h].linux_fd

free_handle(ht, h) ==
    IF h < MAX_HANDLES /\ ht[h].in_use
    THEN [ht EXCEPT ![h] = [linux_fd |-> -1, in_use |-> FALSE, path |-> ""]]
    ELSE ht

(* DosOpen's translation of ulOpenMode and ulOpenFlags into open() flags; *)
(* an access value of 3 leaves flags at 0, which is O_RDONLY.             *)
open_flags(ulOpenFlags, ulOpenMode) ==
    LET access == ulOpenMode & 3
        open_action == ulOpenFlags & 255
    IN  [acc   |-> CASE access = 1 -> "w" [] access = 2 -> "rw" [] OTHER -> "r",
         creat |-> (open_action & 16) # 0,
         excl  |-> (open_action & 16) # 0 /\ (open_action & 1) = 0,
         trunc |-> (open_action & 2) # 0]

FreeFds == {d \in Fds : fdtab[d] = NoFile}

(* The error open() must report for name under flags fl, in Linux's     *)
(* order: the descriptor first, then the lookup; {} when it need not.    *)
OpenRefusal(name, fl) ==
    IF FreeFds = {} THEN {EMFILE}
    ELSE IF name \in exists /\ fl.creat /\ fl.excl THEN {EEXIST}
    ELSE IF name \notin exists /\ ~fl.creat THEN {ENOENT}
    ELSE {}

(* The errors open() can report: the refusal, or else one of OpenErrs. *)
OpenFailures(name, fl) ==
    IF OpenRefusal(name, fl) # {} THEN OpenRefusal(name, fl) ELSE OpenErrs

(* Mutant: every open with O_CREAT is reported as FILE_CREATED. *)
ReportedAction_creat(fl) ==
    IF fl.creat THEN FILE_CREATED
    ELSE (IF fl.trunc THEN FILE_TRUNCATED ELSE FILE_EXISTED)

(* The action DosOpen reports from the flags it passed to open(). *)
ReportedAction(fl) ==
    IF fl.creat THEN (IF fl.excl THEN FILE_CREATED ELSE FILE_EXISTED)
    ELSE (IF fl.trunc THEN FILE_TRUNCATED ELSE FILE_EXISTED)

(* DosOpen: init_handle_table, open(), then allocate_handle; with the    *)
(* table full the new descriptor is closed again.  A file created by     *)
(* O_CREAT stays created.                                                *)
DosOpen(name, ulOpenFlags, ulOpenMode) ==
    LET ht0 == init_handle_table(handle_table, handle_table_initialized)
        fl  == open_flags(ulOpenFlags, ulOpenMode)
    IN  /\ running
        /\ handle_table_initialized' = TRUE
        /\ UNCHANGED <<heap, running>>
        /\ \/ \E err \in OpenFailures(name, fl) :
                  /\ handle_table' = ht0
                  /\ ret' = [api |-> "DosOpen", rc |-> errno_to_os2(err), h |-> -1,
                             action |-> 0, f |-> name]
                  /\ UNCHANGED <<fdtab, exists>>
           \/ /\ OpenRefusal(name, fl) = {}
              /\ LET fd == Min(FreeFds)
                     a  == allocate_handle(ht0, fd, name)
                 IN  /\ handle_table' = a.ht
                     /\ exists' = exists \cup {name}
                     /\ IF a.h = -1
                        THEN /\ fdtab' = fdtab
                             /\ ret' = [api |-> "DosOpen", rc |-> ERROR_TOO_MANY_OPEN_FILES,
                                        h |-> -1, action |-> 0, f |-> name]
                        ELSE /\ fdtab' = [fdtab EXCEPT ![fd] = [f |-> name, acc |-> fl.acc]]
                             /\ ret' = [api |-> "DosOpen", rc |-> NO_ERROR, h |-> a.h,
                                        action |-> ReportedAction(fl), f |-> name]

(* read() or write() on descriptor fd: EBADF when it is not open or not *)
(* open for that direction.                                             *)
IOError(fd, dir) == fdtab[fd] = NoFile \/ fdtab[fd].acc \notin {dir, "rw"}

(* DosRead and DosWrite: get_linux_fd, then read() or write().  The data *)
(* is abstracted; ret records which file the transfer reached.           *)
Transfer(api, dir, h) ==
    LET fd == get_linux_fd(h)
    IN  /\ running
        /\ ret' = CASE fd < 0 ->
                         [api |-> api, rc |-> ERROR_INVALID_HANDLE, h |-> h, action |-> 0, f |-> "none"]
                    [] IOError(fd, dir) ->
                         [api |-> api, rc |-> errno_to_os2(EBADF), h |-> h, action |-> 0, f |-> "none"]
                    [] OTHER ->
                         [api |-> api, rc |-> NO_ERROR, h |-> h, action |-> 0, f |-> fdtab[fd].f]
        /\ UNCHANGED <<handle_table, handle_table_initialized, fdtab, exists, heap, running>>

DosRead(h)  == Transfer("DosRead", "r", h)
DosWrite(h) == Transfer("DosWrite", "w", h)

(* DosClose: close() releases the descriptor even when it reports an     *)
(* error (Linux), but the handle is freed only when close() returns 0.   *)
DosClose(h) ==
    LET fd == get_linux_fd(h)
        out(rc) == [api |-> "DosClose", rc |-> rc, h |-> h, action |-> 0, f |-> "none"]
    IN  /\ running
        /\ UNCHANGED <<handle_table_initialized, exists, heap, running>>
        /\ \/ /\ fd < 0
              /\ ret' = out(ERROR_INVALID_HANDLE)
              /\ UNCHANGED <<handle_table, fdtab>>
           \/ /\ fd >= 0 /\ fdtab[fd] = NoFile
              /\ ret' = out(errno_to_os2(EBADF))
              /\ UNCHANGED <<handle_table, fdtab>>
           \/ /\ fd >= 0 /\ fdtab[fd] # NoFile
              /\ fdtab' = [fdtab EXCEPT ![fd] = NoFile]
              /\ \/ /\ handle_table' = free_handle(handle_table, h)
                    /\ ret' = out(NO_ERROR)
                 \/ \E err \in CloseErrs :
                       /\ ret' = out(errno_to_os2(err))
                       /\ UNCHANGED handle_table

(* DosSetFilePtr: an origin other than FILE_BEGIN, FILE_CURRENT or       *)
(* FILE_END is refused; lseek fails with ESPIPE on the terminal, EBADF   *)
(* on a released descriptor, and EINVAL when a negative offset would     *)
(* move before the start (the offset itself is abstracted, so a negative *)
(* lOffset may or may not fail).                                          *)
DosSetFilePtr(h, neg, ulOrigin) ==
    LET fd == get_linux_fd(h)
        out(rc) == [api |-> "DosSetFilePtr", rc |-> rc, h |-> h, action |-> 0, f |-> "none"]
        errs == CASE fd < 0                -> {}
                  [] ulOrigin \notin 0 .. 2 -> {}
                  [] fdtab[fd] = NoFile     -> {EBADF}
                  [] fdtab[fd].f = TTY      -> {ESPIPE}
                  [] OTHER                  -> IF neg THEN {EINVAL, 0} ELSE {0}
    IN  /\ running
        /\ ret' \in CASE fd < 0                -> {out(ERROR_INVALID_HANDLE)}
                      [] ulOrigin \notin 0 .. 2 -> {out(ERROR_INVALID_PARAMETER)}
                      [] OTHER -> {out(IF e = 0 THEN NO_ERROR ELSE errno_to_os2(e)) : e \in errs}
        /\ UNCHANGED <<handle_table, handle_table_initialized, fdtab, exists, heap, running>>

(* DosDelete: unlink(); open descriptors keep reaching the file. *)
DosDelete(name) ==
    /\ running
    /\ exists' = exists \ {name}
    /\ ret' = [api |-> "DosDelete", rc |-> IF name \in exists THEN NO_ERROR
                                           ELSE errno_to_os2(ENOENT),
               h |-> -1, action |-> 0, f |-> name]
    /\ UNCHANGED <<handle_table, handle_table_initialized, fdtab, heap, running>>

DosExit ==
    /\ running
    /\ running' = FALSE
    /\ ret' = [api |-> "DosExit", rc |-> NO_ERROR, h |-> -1, action |-> 0, f |-> "none"]
    /\ UNCHANGED <<handle_table, handle_table_initialized, fdtab, exists, heap>>

DosSleep ==
    /\ running
    /\ ret' = [api |-> "DosSleep", rc |-> NO_ERROR, h |-> -1, action |-> 0, f |-> "none"]
    /\ UNCHANGED <<handle_table, handle_table_initialized, fdtab, exists, heap, running>>

(* DosAllocMem: malloc returns a block not in use, or fails. *)
DosAllocMem ==
    /\ running
    /\ \/ \E b \in Blocks \ heap :
             /\ heap' = heap \cup {b}
             /\ ret' = [api |-> "DosAllocMem", rc |-> NO_ERROR, h |-> -1, action |-> 0, f |-> "none"]
       \/ /\ heap' = heap
          /\ ret' = [api |-> "DosAllocMem", rc |-> ERROR_NOT_ENOUGH_MEMORY, h |-> -1,
                     action |-> 0, f |-> "none"]
    /\ UNCHANGED <<handle_table, handle_table_initialized, fdtab, exists, running>>

(* DosFreeMem: free() of a block the program allocated, or of NULL. *)
DosFreeMem(p) ==
    /\ running
    /\ heap' = heap \ {p}
    /\ ret' = [api |-> "DosFreeMem", rc |-> NO_ERROR, h |-> -1, action |-> 0, f |-> "none"]
    /\ UNCHANGED <<handle_table, handle_table_initialized, fdtab, exists, running>>

(* The process starts with descriptors 0-2 on the terminal and the       *)
(* handle table zeroed, as a static array is.                             *)
Init ==
    /\ handle_table = [i \in HIdx |-> [linux_fd |-> 0, in_use |-> FALSE, path |-> ""]]
    /\ handle_table_initialized = FALSE
    /\ fdtab = [d \in Fds |-> IF d < 3 THEN [f |-> TTY, acc |-> "rw"] ELSE NoFile]
    /\ exists = {}
    /\ heap = {}
    /\ running = TRUE
    /\ ret = [api |-> "none", rc |-> NO_ERROR, h |-> -1, action |-> 0, f |-> "none"]

Handles == 0 .. MAX_HANDLES     \* every slot, and one HFILE beyond the table

Next ==
    \/ \E n \in Names, fl \in OpenFlags, md \in OpenModes : DosOpen(n, fl, md)
    \/ \E h \in Handles : DosRead(h) \/ DosWrite(h) \/ DosClose(h)
    \/ \E h \in Handles, neg \in BOOLEAN, o \in 0 .. 3 : DosSetFilePtr(h, neg, o)
    \/ \E n \in Names : DosDelete(n)
    \/ DosSleep \/ DosAllocMem \/ DosExit
    \/ \E p \in heap \cup {NULL} : DosFreeMem(p)

Spec == Init /\ [][Next]_vars

(***************************************************************************)
(* Properties.                                                             *)
(***************************************************************************)
TypeOK ==
    /\ handle_table \in [HIdx -> [linux_fd : -1 .. OPEN_MAX - 1, in_use : BOOLEAN,
                                  path : Names \cup {""}]]
    /\ handle_table_initialized \in BOOLEAN
    /\ fdtab \in [Fds -> {NoFile} \cup [f : Names \cup {TTY}, acc : {"r", "w", "rw"}]]
    /\ exists \subseteq Names /\ heap \subseteq Blocks /\ running \in BOOLEAN
    /\ ret.rc \in OS2Errors /\ ret.h \in -1 .. MAX_HANDLES

(* Every descriptor the process holds is reachable through an OS/2       *)
(* handle: the emulator never loses a descriptor, not when the handle    *)
(* table is full (DosOpen closes it again) and not when close() fails.   *)
NoDescriptorLeak ==
    handle_table_initialized =>
        \A d \in Fds \ FreeFds : \E h \in HIdx : handle_table[h].in_use /\ handle_table[h].linux_fd = d

(* DosOpen reports FILE_CREATED only for a file that did not exist: the  *)
(* translation of OPEN_ACTION_* into O_CREAT and O_EXCL never lets open() *)
(* succeed on an existing file while the action says it was created.      *)
CreatedOnlyWhenNew ==
    [][ret'.api = "DosOpen" /\ ret'.rc = NO_ERROR /\ ret'.action = FILE_CREATED
         => ret'.f \notin exists]_vars

(* A DosRead or DosWrite through a handle reaches the file that handle   *)
(* was opened on (the terminal for handles 0-2), whatever DosClose calls *)
(* and failures came before.                                             *)
TransferReachesItsFile ==
    [][ret'.api \in {"DosRead", "DosWrite"} /\ ret'.rc = NO_ERROR
         => ret'.f = IF ret'.h < 3 THEN TTY ELSE handle_table[ret'.h].path]_vars

=============================================================================
