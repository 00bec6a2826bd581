------------------------------ MODULE MC_Kernel ------------------------------
(***************************************************************************)
(* The kernel at a small scale.  Pages are 2 units and uint32_t wraps at   *)
(* 64; the first 4 units are the reserved first 1MB (frames 0-1) and the   *)
(* kernel image ends at 8 (frames 2-3, holding kernel_page_directory and   *)
(* first_page_table).  A process costs four frames (directory, kernel      *)
(* stack, user stack, the user stack's page table).                        *)
(***************************************************************************)
EXTENDS Kernel

(* kmain's fallback map: first 1MB reserved, the rest available.  With 18  *)
(* units available total_pages is 9, so frames 4-8 can be allocated: one   *)
(* process fits, the second runs out of memory part way.                   *)
TightMap ==
    << [base |-> 0, length |-> 4, type |-> 2],
       [base |-> 4, length |-> 18, type |-> 1] >>

(* total_pages 11, frames 4-10: one process fits, and the second gets its *)
(* directory and stacks but not the table for the user stack (after the  *)
(* alloc command has taken a table, not the user stack itself).           *)
MapFailMap ==
    << [base |-> 0, length |-> 4, type |-> 2],
       [base |-> 4, length |-> 22, type |-> 1] >>

(* Room for two processes; the third runs out of memory part way.        *)
MediumMap ==
    << [base |-> 0, length |-> 4, type |-> 2],
       [base |-> 4, length |-> 30, type |-> 1] >>

(* Room for four processes and the shell's pages.                          *)
AmpleMap ==
    << [base |-> 0, length |-> 4, type |-> 2],
       [base |-> 4, length |-> 44, type |-> 1] >>

MC_NumFrames == 24
MC_PageSize == 2
MC_Word == 64
MC_LowMem == 4
MC_KernelEnd == 8
MC_MaxRun == 1
MC_KPD == 2
MC_KPT == 3
MC_AmpleMaps == {AmpleMap}
MC_TightMaps == {TightMap}
MC_OomMaps == {TightMap, MapFailMap}
MC_MediumMaps == {MediumMap}

=============================================================================
