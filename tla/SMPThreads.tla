----------------------------- MODULE SMPThreads -----------------------------
(***************************************************************************)
(* What the SMP scheduler promises the rest of the kernel, with the run    *)
(* queues left out: each thread is NEW (not yet returned by                *)
(* sched_create_thread), READY, RUNNING on exactly one CPU, or BLOCKED,    *)
(* and moves between these only as the API says (spec 4.4):               *)
(*   create      NEW -> READY, with an affinity mask;                      *)
(*   dispatch    READY -> RUNNING on an idle CPU its mask allows;          *)
(*   preempt     RUNNING -> READY (sched_schedule, sched_yield);           *)
(*   block       RUNNING -> BLOCKED (sched_block);                         *)
(*   wake        BLOCKED -> READY (sched_unblock).                         *)
(* Where a READY thread waits, and which one a CPU takes, is left open.    *)
(***************************************************************************)
CONSTANTS CPUs, Threads, NULL

VARIABLES
    tstate,     \* the state of each thread
    running,    \* the thread each CPU runs, or NULL
    affinity    \* the CPUs each thread may run on

absvars == <<tstate, running, affinity>>

Init ==
    /\ tstate = [t \in Threads |-> "NEW"]
    /\ running = [c \in CPUs |-> NULL]
    /\ affinity = [t \in Threads |-> {}]

Create(t) ==
    /\ tstate[t] = "NEW"
    /\ tstate' = [tstate EXCEPT ![t] = "READY"]
    /\ \E aff \in SUBSET CPUs \ {{}} : affinity' = [affinity EXCEPT ![t] = aff]
    /\ UNCHANGED running

Dispatch(c, t) ==
    /\ running[c] = NULL /\ tstate[t] = "READY" /\ c \in affinity[t]
    /\ running' = [running EXCEPT ![c] = t]
    /\ tstate' = [tstate EXCEPT ![t] = "RUNNING"]
    /\ UNCHANGED affinity

(* The thread running on c stops running, READY or BLOCKED. *)
Release(c, to) ==
    /\ running[c] # NULL
    /\ tstate' = [tstate EXCEPT ![running[c]] = to]
    /\ running' = [running EXCEPT ![c] = NULL]
    /\ UNCHANGED affinity

Preempt(c) == Release(c, "READY")

Block(c) == Release(c, "BLOCKED")

Wake(t) ==
    /\ tstate[t] = "BLOCKED"
    /\ tstate' = [tstate EXCEPT ![t] = "READY"]
    /\ UNCHANGED <<running, affinity>>

Next ==
    \/ \E t \in Threads : Create(t) \/ Wake(t)
    \/ \E c \in CPUs : Preempt(c) \/ Block(c) \/ \E t \in Threads : Dispatch(c, t)

Spec == Init /\ [][Next]_absvars

=============================================================================
