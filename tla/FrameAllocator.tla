--------------------------- MODULE FrameAllocator ---------------------------
(***************************************************************************)
(* What a physical frame allocator promises, independent of the bitmap:    *)
(* it grants contiguous runs of frames of a fixed pool that nobody owns,   *)
(* takes back frames that are owned, and refuses a request only when no    *)
(* run of the requested length is free.                                    *)
(***************************************************************************)
EXTENDS Naturals

CONSTANT MaxRun

VARIABLES pool, owned, last

Free == pool \ owned

RunAt(s, n) == s .. s + n - 1

Init == owned = {} /\ last = "none" /\ pool \in SUBSET Nat

Grant(s, n) ==
    /\ RunAt(s, n) \subseteq Free
    /\ owned' = owned \cup RunAt(s, n)
    /\ last' = "granted"
    /\ UNCHANGED pool

Refuse(n) ==
    /\ \A s \in Free : ~(RunAt(s, n) \subseteq Free)
    /\ last' = "refused"
    /\ UNCHANGED <<pool, owned>>

Release(S) ==
    /\ S # {} /\ S \subseteq owned
    /\ owned' = owned \ S
    /\ last' = "released"
    /\ UNCHANGED pool

Next ==
    \/ \E s \in Free, n \in 1 .. MaxRun : Grant(s, n)
    \/ \E n \in 1 .. MaxRun : Refuse(n)
    \/ \E S \in SUBSET owned : Release(S)

Spec == Init /\ [][Next]_<<pool, owned, last>>

=============================================================================
