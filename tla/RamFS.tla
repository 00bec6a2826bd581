------------------------------- MODULE RamFS -------------------------------
(***************************************************************************)
(* The RAM file system (ramfs.c) as operators on its table, a function of  *)
(* slot numbers to [used, name, size].  A name is a model value: callers   *)
(* pass names already cut to RAMFS_MAX_FILENAME - 1 characters (the shell  *)
(* does so, kernel.c:343-347), which str_copy then copies unchanged, and   *)
(* str_equal compares two names character by character, which is equality *)
(* of the names.  File contents are abstracted to their size: mem_copy and *)
(* mem_set move bytes that no caller's decision depends on.                *)
(* An operation that returns a value returns [fs, rc].                      *)
(***************************************************************************)
EXTENDS Integers, FiniteSetsExt

CONSTANTS
    RAMFS_MAX_FILES,      \* 32 in ramfs.h
    RAMFS_MAX_FILESIZE,   \* 4096 in ramfs.h
    NoName                \* the empty name, name[0] = '\0'

FsSlots == 0 .. RAMFS_MAX_FILES - 1

FreeFile == [used |-> FALSE, name |-> NoName, size |-> 0]

ramfs_init == [i \in FsSlots |-> FreeFile]

str_equal(a, b) == a = b

(* The lowest slot of S, or -1 for a NULL result. *)
FirstSlot(S) == IF S = {} THEN -1 ELSE Min(S)

(* Mutant: the scan stops one slot early (i < RAMFS_MAX_FILES - 1). *)
find_file_short(fs, name) ==
    FirstSlot({i \in 0 .. RAMFS_MAX_FILES - 2 : fs[i].used /\ str_equal(fs[i].name, name)})

find_file(fs, name) ==
    FirstSlot({i \in FsSlots : fs[i].used /\ str_equal(fs[i].name, name)})

find_free_slot(fs) == FirstSlot({i \in FsSlots : ~fs[i].used})

ramfs_exists(fs, name) == find_file(fs, name) # -1

(* ramfs_create: -1 if the name exists or no slot is free. *)
ramfs_create(fs, name) ==
    LET f == find_free_slot(fs)
    IN  IF find_file(fs, name) # -1 \/ f = -1 THEN [fs |-> fs, rc |-> -1]
        ELSE [fs |-> [fs EXCEPT ![f] = [used |-> TRUE, name |-> name, size |-> 0]],
              rc |-> 0]

(* ramfs_write: overwrite, creating the file first when it does not exist; *)
(* the size is clamped to RAMFS_MAX_FILESIZE.                              *)
ramfs_write(fs, name, size) ==
    LET c == IF find_file(fs, name) = -1 THEN ramfs_create(fs, name)
             ELSE [fs |-> fs, rc |-> 0]
        n == IF size > RAMFS_MAX_FILESIZE THEN RAMFS_MAX_FILESIZE ELSE size
    IN  IF c.rc < 0 THEN [fs |-> fs, rc |-> -1]
        ELSE [fs |-> [c.fs EXCEPT ![find_file(c.fs, name)].size = n], rc |-> n]

(* ramfs_read: the bytes copied, at most max_size; -1 if not found. *)
ramfs_read(fs, name, max_size) ==
    LET i == find_file(fs, name)
    IN  IF i = -1 THEN -1
        ELSE IF fs[i].size > max_size THEN max_size ELSE fs[i].size

ramfs_delete(fs, name) ==
    LET i == find_file(fs, name)
    IN  IF i = -1 THEN [fs |-> fs, rc |-> -1]
        ELSE [fs |-> [fs EXCEPT ![i] = FreeFile], rc |-> 0]

ramfs_count(fs) == Cardinality({i \in FsSlots : fs[i].used})

ramfs_free_space(fs) ==
    Cardinality({i \in FsSlots : ~fs[i].used}) * RAMFS_MAX_FILESIZE

=============================================================================
