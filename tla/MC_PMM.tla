------------------------------- MODULE MC_PMM -------------------------------
(***************************************************************************)
(* PMM at a small scale: 12 frames of 2 units, uint32_t wrapping at 64      *)
(* units (MAX_PHYSICAL_MEMORY is under half of the address space), the      *)
(* first 4 units standing for the reserved first 1MB and the kernel image  *)
(* ending inside frame 2.                                                  *)
(***************************************************************************)
EXTENDS PMM

(* The fallback map of kmain: first 1MB reserved, the rest of a machine     *)
(* smaller than MAX_PHYSICAL_MEMORY available; total_pages then stops one   *)
(* frame short of the end of the available region.                          *)
FallbackMap ==
    << [base |-> 0, length |-> 4, type |-> 2],
       [base |-> 4, length |-> 18, type |-> 1] >>

(* A BIOS map with a hole: low memory, a reserved ROM region, RAM above.   *)
HoleMap ==
    << [base |-> 0, length |-> 3, type |-> 1],
       [base |-> 3, length |-> 1, type |-> 2],
       [base |-> 4, length |-> 17, type |-> 1],
       [base |-> 21, length |-> 3, type |-> 3] >>

(* A machine with RAM above 4GB: an available entry whose 64-bit base is   *)
(* beyond the uint32_t range, after an ACPI region inside MAX_PHYSICAL.    *)
HighMap ==
    << [base |-> 0, length |-> 4, type |-> 2],
       [base |-> 4, length |-> 14, type |-> 1],
       [base |-> 18, length |-> 6, type |-> 3],
       [base |-> 64, length |-> 24, type |-> 1] >>

MC_NumFrames == 12
MC_PageSize == 2
MC_Word == 64
MC_LowMem == 4
MC_KernelEnd == 5
MC_MaxRun == 3
MC_PassMaps == {FallbackMap, HoleMap}
MC_HighMaps == {HighMap}

=============================================================================
