------------------------------ MODULE MC_OS2API ------------------------------
(***************************************************************************)
(* The emulator with two handle slots above the standard three and room   *)
(* for two descriptors above 0-2, so both the handle table and the        *)
(* descriptor table fill up; two file names; the open actions a program   *)
(* combines (open if exists, replace, create if new, open or create,      *)
(* create or replace) with the three access modes under OPEN_SHARE_DENYNONE. *)
(***************************************************************************)
EXTENDS OS2API, TLC

CONSTANTS n1, n2, b1, null

MC_Names == {n1, n2}
MC_Symmetry == Permutations(MC_Names)

(* OPEN_ACTION_OPEN_IF_EXISTS, _REPLACE_IF_EXISTS, _CREATE_IF_NEW, and   *)
(* CREATE_IF_NEW combined with OPEN_IF_EXISTS and with REPLACE_IF_EXISTS. *)
MC_OpenFlags == {1, 2, 16, 17, 18}

(* OPEN_SHARE_DENYNONE with OPEN_ACCESS_READONLY, _WRITEONLY, _READWRITE. *)
MC_OpenModes == {64, 65, 66}

=============================================================================
