----------------------------- MODULE MC_SMPSched -----------------------------
(***************************************************************************)
(* The SMP scheduler on 2 CPUs in 2 NUMA nodes with a pool of 3 threads.   *)
(* Delta -16 puts a thread at the bottom of its class band: priority 0 for *)
(* IDLETIME and 32 for REGULAR, bit 0 of two bitmap words, so threads share *)
(* a priority and also differ in it.  num_threads wraps at 8, more than   *)
(* the 3 threads can make it while the lists are well formed.              *)
(***************************************************************************)
EXTENDS SMPSched, TLC

MC_NumCPUs == 2
MC_NumaOf == [c \in 0 .. 1 |-> c]
CONSTANTS t1, t2, t3, null

MC_Threads == {t1, t2, t3}
MC_Symmetry == Permutations(MC_Threads)
MC_Symmetry2 == Permutations({t1, t2})
MC_Classes == {PRTYC_IDLETIME, PRTYC_REGULAR}
MC_Deltas == {-16}
MC_Garbage == {0, 1}
MC_Word == 8

(* The levels the classes and deltas above reach. *)
MC_Prios == {0, 32}

(* Affinity masks: 0 (all CPUs), only CPU 0, only CPU 1. *)
MC_Masks == {{}, {0}, {1}}

=============================================================================
