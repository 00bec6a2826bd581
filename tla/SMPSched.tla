------------------------------ MODULE SMPSched ------------------------------
(***************************************************************************)
(* The per-CPU run queues of the OSFree SMP scheduler                      *)
(* (side_project/SMPScheduler.cpp), after sched_init.                      *)
(*                                                                         *)
(* Every CPU runs the scheduler API on its own behalf: sched_schedule,     *)
(* sched_yield, sched_block and sched_balance_load on its own run queue,   *)
(* and sched_create_thread, sched_unblock and sched_set_priority on any    *)
(* thread.  A section under a run queue's spinlock (enqueue_thread,        *)
(* dequeue_highest_priority, the victim scan of steal_thread) is one       *)
(* atomic step; the plain loads and stores between them are steps of their *)
(* own, so another CPU can run between them as the code allows.            *)
(*                                                                         *)
(* The run queues are the intrusive lists of the code: next and prev       *)
(* pointers in the threads, a head pointer per CPU and priority, the       *)
(* non-empty bitmap and the atomic num_threads counter.  A thread is one   *)
(* of a fixed pool.  Time accounting, tids, pids and the OS/2 session     *)
(* flags are left out: no decision of the code reads them.                 *)
(***************************************************************************)
EXTENDS Integers, Sequences, FiniteSets, FiniteSetsExt, SequencesExt

CONSTANTS
    NumCPUs,        \* num_cpus given to sched_init
    NumaOf,         \* numa_topology: the NUMA node of each CPU
    Threads,        \* the threads sched_create_thread can return
    Classes,        \* priority classes callers pass
    Deltas,         \* priority deltas callers pass
    Masks,          \* affinity masks callers pass, as sets of bit numbers
    Garbage,        \* values an uninitialised numa_node field can hold
    UnblockCPUs,    \* CPUs that call sched_unblock
    MaxSetPriority, \* bound on sched_set_priority calls
    Word,           \* num_threads wraps at Word (2^32 in the code)
    NULL            \* the null thread pointer

PRTYC_NOCHANGE == 0
PRTYC_IDLETIME == 1
PRTYC_REGULAR == 2
PRTYC_TIMECRITICAL == 3
PRTYC_FOREGROUNDSERVER == 4

CPUs == 0 .. NumCPUs - 1

ASSUME NULL \notin Threads /\ NumaOf \in [CPUs -> Nat] /\ UnblockCPUs \subseteq CPUs

(* calculate_priority: the class's band of 32 levels, 16 + delta into it, *)
(* clamped to the band.                                                    *)
calculate_priority(class, delta) ==
    LET base == CASE class = PRTYC_IDLETIME         -> 0
                  [] class = PRTYC_REGULAR          -> 32
                  [] class = PRTYC_FOREGROUNDSERVER -> 64
                  [] class = PRTYC_TIMECRITICAL     -> 96
                  [] OTHER                          -> 32
        p == base + 16 + delta
    IN  IF p < base THEN base ELSE IF p > base + 31 THEN base + 31 ELSE p

MAX_PRIORITY == 127

(* The priority levels of a run queue; a model overrides it with the      *)
(* levels its classes and deltas reach.                                    *)
Prios == 0 .. MAX_PRIORITY

VARIABLES
    q,              \* the run queues: [next, prev, queues, queue_bitmap, num_threads]
    state, priority_class, priority_delta, effective_priority,
    cpu_id, cpu_affinity_mask, numa_node,
    created,        \* the threads sched_create_thread has returned
    current,        \* rq->current of each CPU
    pc, arg, nxt, vi, tload, rqsel,   \* each CPU's place in the API and its locals
    setprio_calls

(***************************************************************************)
(* The run-queue operations, as functions of Q = q.                        *)
(***************************************************************************)

(* enqueue_thread: push thread t at the head of rq c's list for prio. *)
enqueue_thread(Q, c, t, prio) ==
    LET h   == Q.queues[c][prio]
        pv1 == [Q.prev EXCEPT ![t] = NULL]
    IN  [next         |-> [Q.next EXCEPT ![t] = h],
         prev         |-> IF h # NULL THEN [pv1 EXCEPT ![h] = t] ELSE pv1,
         queues       |-> [Q.queues EXCEPT ![c][prio] = t],
         queue_bitmap |-> [Q.queue_bitmap EXCEPT ![c] = @ \cup {prio}],
         num_threads  |-> [Q.num_threads EXCEPT ![c] = (@ + 1) % Word]]

(* Mutant: the bit scan stops before bit 0 (while (bit > 0)). *)
Takeable_skipbit0(Q, c) ==
    {p \in Q.queue_bitmap[c] : Q.queues[c][p] # NULL /\ p % 32 # 0}

(* The priorities dequeue_highest_priority may take from: set in the      *)
(* bitmap with a non-NULL head.                                            *)
Takeable(Q, c) == {p \in Q.queue_bitmap[c] : Q.queues[c][p] # NULL}

(* dequeue_highest_priority: the head of the highest takeable list. *)
DequeuePrio(Q, c) == Max(Takeable(Q, c))

(* Mutant: the unlink of dequeue_highest_priority leaves the bit set. *)
dequeue_highest_priority_keepbit(Q, c) ==
    LET p   == DequeuePrio(Q, c)
        t   == Q.queues[c][p]
        n   == Q.next[t]
        pv1 == IF n # NULL THEN [Q.prev EXCEPT ![n] = NULL] ELSE Q.prev
    IN  [next         |-> [Q.next EXCEPT ![t] = NULL],
         prev         |-> [pv1 EXCEPT ![t] = NULL],
         queues       |-> [Q.queues EXCEPT ![c][p] = n],
         queue_bitmap |-> Q.queue_bitmap,
         num_threads  |-> [Q.num_threads EXCEPT ![c] = (@ + Word - 1) % Word]]

dequeue_highest_priority(Q, c) ==
    LET p   == DequeuePrio(Q, c)
        t   == Q.queues[c][p]
        n   == Q.next[t]
        pv1 == IF n # NULL THEN [Q.prev EXCEPT ![n] = NULL] ELSE Q.prev
    IN  [next         |-> [Q.next EXCEPT ![t] = NULL],
         prev         |-> [pv1 EXCEPT ![t] = NULL],
         queues       |-> [Q.queues EXCEPT ![c][p] = n],
         queue_bitmap |-> IF n = NULL
                          THEN [Q.queue_bitmap EXCEPT ![c] = @ \ {p}]
                          ELSE Q.queue_bitmap,
         num_threads  |-> [Q.num_threads EXCEPT ![c] = (@ + Word - 1) % Word]]

(* The nodes a walk along next meets from n, at most k of them: a list of *)
(* the pool's size or longer has a cycle.                                  *)
RECURSIVE Walk(_, _, _)
Walk(Q, n, k) == IF n = NULL \/ k = 0 THEN <<>> ELSE <<n>> \o Walk(Q, Q.next[n], k - 1)

Chain(Q, c, p) == Walk(Q, Q.queues[c][p], Cardinality(Threads) + 1)

Cyclic(Q, c, p) == Len(Chain(Q, c, p)) > Cardinality(Threads)

cpu_in_affinity(t, c) == c \in cpu_affinity_mask[t]

(* Mutant: the scan takes the first queued thread, whatever its mask. *)
RECURSIVE StealScan_noaffinity(_, _, _, _)
StealScan_noaffinity(Q, v, c, ps) ==
    IF ps = <<>> THEN [kind |-> "none"]
    ELSE LET ch == Chain(Q, v, Head(ps))
         IN  IF ch # <<>>
             THEN [kind |-> "found", prio |-> Head(ps), t |-> ch[1], before |-> NULL]
             ELSE StealScan_noaffinity(Q, v, c, Tail(ps))

(* The order steal_thread tries the priorities of a victim: from 0 up. *)
StealOrder == SetToSortSeq(Prios, <)

(* steal_thread's scan of victim v for thief c: priorities from the       *)
(* lowest, each list from its head.  The result is the first thread that  *)
(* may run on c with the node before it, none, or a hang when a list with *)
(* no such thread is a cycle (the while loop never ends).                  *)
RECURSIVE StealScan(_, _, _, _)
StealScan(Q, v, c, ps) ==
    IF ps = <<>> THEN [kind |-> "none"]
    ELSE LET ch == Chain(Q, v, Head(ps))
             hits == {i \in 1 .. Len(ch) : cpu_in_affinity(ch[i], c)}
         IN  IF hits # {}
             THEN LET i == Min(hits)
                  IN  [kind |-> "found", prio |-> Head(ps), t |-> ch[i],
                       before |-> IF i = 1 THEN NULL ELSE ch[i - 1]]
             ELSE IF Cyclic(Q, v, Head(ps)) THEN [kind |-> "hang"]
             ELSE StealScan(Q, v, c, Tail(ps))

(* Mutant: the unlink leaves t->next->prev pointing at t. *)
StealUnlink_noprev(Q, v, p, t, before) ==
    LET n   == Q.next[t]
        nx1 == IF before # NULL THEN [Q.next EXCEPT ![before] = n] ELSE Q.next
        qs  == IF before # NULL THEN Q.queues ELSE [Q.queues EXCEPT ![v][p] = n]
    IN  [next         |-> [nx1 EXCEPT ![t] = NULL],
         prev         |-> [Q.prev EXCEPT ![t] = NULL],
         queues       |-> qs,
         queue_bitmap |-> IF qs[v][p] = NULL
                          THEN [Q.queue_bitmap EXCEPT ![v] = @ \ {p}]
                          ELSE Q.queue_bitmap,
         num_threads  |-> [Q.num_threads EXCEPT ![v] = (@ + Word - 1) % Word]]

(* The unlink of steal_thread: found thread t after node before. *)
StealUnlink(Q, v, p, t, before) ==
    LET n   == Q.next[t]
        nx1 == IF before # NULL THEN [Q.next EXCEPT ![before] = n] ELSE Q.next
        qs  == IF before # NULL THEN Q.queues ELSE [Q.queues EXCEPT ![v][p] = n]
        pv1 == IF n # NULL THEN [Q.prev EXCEPT ![n] = before] ELSE Q.prev
    IN  [next         |-> [nx1 EXCEPT ![t] = NULL],
         prev         |-> [pv1 EXCEPT ![t] = NULL],
         queues       |-> qs,
         queue_bitmap |-> IF qs[v][p] = NULL
                          THEN [Q.queue_bitmap EXCEPT ![v] = @ \ {p}]
                          ELSE Q.queue_bitmap,
         num_threads  |-> [Q.num_threads EXCEPT ![v] = (@ + Word - 1) % Word]]

find_best_cpu(Q, aff, node) ==
    LET load == [i \in CPUs |-> IF NumaOf[i] = node
                                THEN ((Q.num_threads[i] * 3) % Word) \div 4
                                ELSE Q.num_threads[i]]
        cand == {i \in CPUs \cap aff : load[i] < Word - 1}
    IN  IF cand = {} THEN 0
        ELSE Min({i \in cand : \A j \in cand : load[i] <= load[j]})

(***************************************************************************)
(* The API, one action per step a CPU takes through it.                    *)
(***************************************************************************)
perthread == <<state, priority_class, priority_delta, effective_priority,
               cpu_id, cpu_affinity_mask, numa_node, created>>
locals == <<arg, nxt, vi, tload, rqsel>>
vars == <<q, perthread, current, pc, locals, setprio_calls>>

Queued(Q) == UNION {ToSet(Chain(Q, c, p)) : c \in CPUs, p \in Prios}

(* The lock of run queue r is free: no CPU is stuck in steal_thread's    *)
(* walk of r, which holds it forever.  acquire_runqueue_lock spins until  *)
(* it is free, so a locked section on r waits for it.                     *)
LockFree(r) == \A c \in CPUs : ~(pc[c] = "hung" /\ vi[c] = r)

(* The enqueue_thread call of an action: the list push, then state READY. *)
Enqueue(c, t, prio) ==
    /\ LockFree(c)
    /\ q' = enqueue_thread(q, c, t, prio)
    /\ state' = [state EXCEPT ![t] = "READY"]

Goto(c, where) == pc' = [pc EXCEPT ![c] = where]

(* Return from a call: the CPU is back in its own code and the call's     *)
(* locals are dead.                                                        *)
Done(c) ==
    /\ Goto(c, "idle")
    /\ arg' = [arg EXCEPT ![c] = NULL]
    /\ nxt' = [nxt EXCEPT ![c] = NULL]
    /\ vi' = [vi EXCEPT ![c] = 0]
    /\ tload' = [tload EXCEPT ![c] = 0]
    /\ rqsel' = [rqsel EXCEPT ![c] = 0]

(* sched_create_thread: a new thread, placed by find_best_cpu before its *)
(* numa_node field is written, so the node find_best_cpu compares is     *)
(* whatever malloc left there; then enqueued.                             *)
CreateThread(c, t, class, delta, mask) ==
    /\ pc[c] = "idle" /\ t \notin created
    /\ \E junk \in Garbage :
        LET aff  == IF mask = {} THEN CPUs ELSE mask
            prio == calculate_priority(class, delta)
            best == find_best_cpu(q, aff, junk)
        IN  /\ Enqueue(best, t, prio)
            /\ priority_class' = [priority_class EXCEPT ![t] = class]
            /\ priority_delta' = [priority_delta EXCEPT ![t] = delta]
            /\ effective_priority' = [effective_priority EXCEPT ![t] = prio]
            /\ cpu_affinity_mask' = [cpu_affinity_mask EXCEPT ![t] = aff]
            /\ cpu_id' = [cpu_id EXCEPT ![t] = best]
            /\ numa_node' = [numa_node EXCEPT ![t] = NumaOf[best]]
    /\ created' = created \cup {t}
    /\ UNCHANGED <<current, pc, locals, setprio_calls>>

(* sched_set_priority: new class (unless NOCHANGE), delta and priority, *)
(* then, if the thread is READY, the runqueue of its cpu_id is chosen ... *)
SetPriority(c, t, class, delta) ==
    /\ pc[c] = "idle" /\ t \in created /\ setprio_calls < MaxSetPriority
    /\ LET cls == IF class # PRTYC_NOCHANGE THEN class ELSE priority_class[t]
       IN  /\ priority_class' = [priority_class EXCEPT ![t] = cls]
           /\ effective_priority' = [effective_priority EXCEPT ![t] =
                                        calculate_priority(cls, delta)]
    /\ priority_delta' = [priority_delta EXCEPT ![t] = delta]
    /\ IF state[t] = "READY"
       THEN /\ Goto(c, "p_enq")
            /\ arg' = [arg EXCEPT ![c] = t]
            /\ rqsel' = [rqsel EXCEPT ![c] = cpu_id[t]]
            /\ UNCHANGED <<nxt, vi, tload>>
       ELSE UNCHANGED <<pc, locals>>
    /\ setprio_calls' = setprio_calls + 1
    /\ UNCHANGED <<q, state, cpu_id, cpu_affinity_mask, numa_node, created, current>>

(* ... and the thread is enqueued there, wherever it already is. *)
SetPriorityEnqueue(c) ==
    /\ pc[c] = "p_enq"
    /\ Enqueue(rqsel[c], arg[c], effective_priority[arg[c]])
    /\ Done(c)
    /\ UNCHANGED <<priority_class, priority_delta, effective_priority, cpu_id,
                   cpu_affinity_mask, numa_node, created, current, setprio_calls>>

(* sched_schedule, the check of rq->current: a RUNNING thread goes back  *)
(* to READY ...                                                           *)
Schedule(c) ==
    /\ pc[c] = "idle"
    /\ LET running == current[c] # NULL /\ state[current[c]] = "RUNNING"
       IN  /\ state' = IF running THEN [state EXCEPT ![current[c]] = "READY"] ELSE state
           /\ Goto(c, IF running THEN "s_enq" ELSE "s_deq")
    /\ UNCHANGED <<q, priority_class, priority_delta, effective_priority, cpu_id,
                   cpu_affinity_mask, numa_node, created, current, locals, setprio_calls>>

(* ... and is enqueued on this CPU ... *)
ScheduleEnqueue(c) ==
    /\ pc[c] = "s_enq"
    /\ Enqueue(c, current[c], effective_priority[current[c]])
    /\ Goto(c, "s_deq")
    /\ UNCHANGED <<priority_class, priority_delta, effective_priority, cpu_id,
                   cpu_affinity_mask, numa_node, created, current, locals, setprio_calls>>

(* ... dequeue_highest_priority picks the next thread ... *)
ScheduleDequeue(c) ==
    /\ pc[c] = "s_deq" /\ LockFree(c)
    /\ IF Takeable(q, c) = {}
       THEN q' = q /\ nxt' = [nxt EXCEPT ![c] = NULL]
       ELSE /\ q' = dequeue_highest_priority(q, c)
            /\ nxt' = [nxt EXCEPT ![c] = q.queues[c][DequeuePrio(q, c)]]
    /\ Goto(c, "s_fin")
    /\ UNCHANGED <<perthread, current, arg, vi, tload, rqsel, setprio_calls>>

(* ... and, outside the lock, it becomes RUNNING and rq->current. *)
ScheduleFinish(c) ==
    /\ pc[c] = "s_fin"
    /\ LET t == nxt[c]
       IN  /\ state' = IF t # NULL THEN [state EXCEPT ![t] = "RUNNING"] ELSE state
           /\ cpu_id' = IF t # NULL THEN [cpu_id EXCEPT ![t] = c] ELSE cpu_id
           /\ current' = [current EXCEPT ![c] = t]
    /\ Done(c)
    /\ UNCHANGED <<q, priority_class, priority_delta, effective_priority,
                   cpu_affinity_mask, numa_node, created, setprio_calls>>

(* sched_yield: the current thread READY, enqueued, then rq->current NULL. *)
Yield(c) ==
    /\ pc[c] = "idle" /\ current[c] # NULL
    /\ state' = [state EXCEPT ![current[c]] = "READY"]
    /\ Goto(c, "y_enq")
    /\ UNCHANGED <<q, priority_class, priority_delta, effective_priority, cpu_id,
                   cpu_affinity_mask, numa_node, created, current, locals, setprio_calls>>

YieldEnqueue(c) ==
    /\ pc[c] = "y_enq"
    /\ Enqueue(c, current[c], effective_priority[current[c]])
    /\ Goto(c, "y_clr")
    /\ UNCHANGED <<priority_class, priority_delta, effective_priority, cpu_id,
                   cpu_affinity_mask, numa_node, created, current, locals, setprio_calls>>

(* sched_block: the current thread BLOCKED, then rq->current NULL. *)
Block(c) ==
    /\ pc[c] = "idle" /\ current[c] # NULL
    /\ state' = [state EXCEPT ![current[c]] = "BLOCKED"]
    /\ Goto(c, "b_clr")
    /\ UNCHANGED <<q, priority_class, priority_delta, effective_priority, cpu_id,
                   cpu_affinity_mask, numa_node, created, current, locals, setprio_calls>>

(* Mutant: sched_yield leaves rq->current set. *)
ClearCurrent_yieldkeeps(c) ==
    /\ pc[c] \in {"y_clr", "b_clr"}
    /\ current' = IF pc[c] = "y_clr" THEN current ELSE [current EXCEPT ![c] = NULL]
    /\ Done(c)
    /\ UNCHANGED <<q, perthread, setprio_calls>>

(* The last store of sched_yield and of sched_block. *)
ClearCurrent(c) ==
    /\ pc[c] \in {"y_clr", "b_clr"}
    /\ current' = [current EXCEPT ![c] = NULL]
    /\ Done(c)
    /\ UNCHANGED <<q, perthread, setprio_calls>>

(* Mutant: sched_unblock without the test that the thread is BLOCKED. *)
Unblock_anystate(c, t) ==
    /\ pc[c] = "idle" /\ c \in UnblockCPUs /\ t \in created
    /\ Goto(c, "u_enq")
    /\ arg' = [arg EXCEPT ![c] = t]
    /\ UNCHANGED <<q, perthread, current, nxt, vi, tload, rqsel, setprio_calls>>

(* sched_unblock: the unlocked test that the thread is BLOCKED ... *)
Unblock(c, t) ==
    /\ pc[c] = "idle" /\ c \in UnblockCPUs /\ t \in created
    /\ state[t] = "BLOCKED"
    /\ Goto(c, "u_enq")
    /\ arg' = [arg EXCEPT ![c] = t]
    /\ UNCHANGED <<q, perthread, current, nxt, vi, tload, rqsel, setprio_calls>>

(* ... then find_best_cpu and enqueue_thread on that CPU. *)
UnblockEnqueue(c) ==
    /\ pc[c] = "u_enq"
    /\ LET t == arg[c]
           best == find_best_cpu(q, cpu_affinity_mask[t], numa_node[t])
       IN  /\ cpu_id' = [cpu_id EXCEPT ![t] = best]
           /\ Enqueue(best, t, effective_priority[t])
    /\ Done(c)
    /\ UNCHANGED <<priority_class, priority_delta, effective_priority,
                   cpu_affinity_mask, numa_node, created, current, setprio_calls>>

(* sched_balance_load: with fewer than 2 threads, steal_thread reads the *)
(* thief's load and tries the victims in order ...                        *)
Balance(c) ==
    /\ pc[c] = "idle" /\ q.num_threads[c] < 2
    /\ Goto(c, "l_steal")
    /\ vi' = [vi EXCEPT ![c] = 0]
    /\ tload' = [tload EXCEPT ![c] = q.num_threads[c]]
    /\ UNCHANGED <<q, perthread, current, arg, nxt, rqsel, setprio_calls>>

(* ... each victim with 2 more threads is locked and scanned ... *)
BalanceSteal(c) ==
    /\ pc[c] = "l_steal"
    /\ LET v == vi[c]
           r == StealScan(q, v, c, StealOrder)
           skip == v = c \/ q.num_threads[v] < (tload[c] + 2) % Word
       IN  CASE v >= NumCPUs ->
                    Done(c) /\ UNCHANGED q
             [] skip \/ (LockFree(v) /\ r.kind = "none") ->
                    /\ Goto(c, "l_steal") /\ vi' = [vi EXCEPT ![c] = v + 1]
                    /\ UNCHANGED <<q, arg, nxt, tload, rqsel>>
             [] LockFree(v) /\ r.kind = "hang" ->
                    Goto(c, "hung") /\ UNCHANGED <<q, locals>>
             [] LockFree(v) /\ r.kind = "found" ->
                    /\ q' = StealUnlink(q, v, r.prio, r.t, r.before)
                    /\ nxt' = [nxt EXCEPT ![c] = r.t]
                    /\ Goto(c, "l_enq") /\ UNCHANGED <<arg, vi, tload, rqsel>>
             [] OTHER -> FALSE    \* spinning on the victim's lock
    /\ UNCHANGED <<perthread, current, setprio_calls>>

(* ... and a stolen thread gets this cpu_id and joins this run queue. *)
BalanceEnqueue(c) ==
    /\ pc[c] = "l_enq"
    /\ cpu_id' = [cpu_id EXCEPT ![nxt[c]] = c]
    /\ Enqueue(c, nxt[c], effective_priority[nxt[c]])
    /\ Done(c)
    /\ UNCHANGED <<priority_class, priority_delta, effective_priority,
                   cpu_affinity_mask, numa_node, created, current, setprio_calls>>

(* sched_init has run: empty queues, no current thread. *)
Init ==
    /\ q = [next |-> [t \in Threads |-> NULL], prev |-> [t \in Threads |-> NULL],
            queues |-> [c \in CPUs |-> [p \in Prios |-> NULL]],
            queue_bitmap |-> [c \in CPUs |-> {}],
            num_threads |-> [c \in CPUs |-> 0]]
    /\ state = [t \in Threads |-> "READY"]
    /\ priority_class = [t \in Threads |-> PRTYC_NOCHANGE]
    /\ priority_delta = [t \in Threads |-> 0]
    /\ effective_priority = [t \in Threads |-> 0]
    /\ cpu_id = [t \in Threads |-> 0]
    /\ cpu_affinity_mask = [t \in Threads |-> {}]
    /\ numa_node = [t \in Threads |-> 0]
    /\ created = {}
    /\ current = [c \in CPUs |-> NULL]
    /\ pc = [c \in CPUs |-> "idle"]
    /\ arg = [c \in CPUs |-> NULL]
    /\ nxt = [c \in CPUs |-> NULL]
    /\ vi = [c \in CPUs |-> 0]
    /\ tload = [c \in CPUs |-> 0]
    /\ rqsel = [c \in CPUs |-> 0]
    /\ setprio_calls = 0

(* The steps a CPU takes once it has entered a call: the code runs to the *)
(* end of it (spinlocks are held only briefly by the other CPUs).          *)
InCall(c) ==
    \/ SetPriorityEnqueue(c) \/ ScheduleEnqueue(c) \/ ScheduleDequeue(c)
    \/ ScheduleFinish(c) \/ YieldEnqueue(c) \/ ClearCurrent(c)
    \/ UnblockEnqueue(c) \/ BalanceSteal(c) \/ BalanceEnqueue(c)

Next ==
    \E c \in CPUs :
        \/ \E t \in Threads, cl \in Classes, d \in Deltas, m \in Masks :
               CreateThread(c, t, cl, d, m)
        \/ \E t \in Threads, cl \in Classes \cup {PRTYC_NOCHANGE}, d \in Deltas :
               SetPriority(c, t, cl, d)
        \/ \E t \in Threads : Unblock(c, t)
        \/ Schedule(c) \/ Yield(c) \/ Block(c) \/ Balance(c)
        \/ InCall(c)

(* A CPU finishes each call it starts, and its timer keeps calling        *)
(* sched_schedule: every time slice interrupts whatever the CPU was doing  *)
(* between calls.                                                          *)
Spec == Init /\ [][Next]_vars
        /\ \A c \in CPUs : WF_vars(InCall(c)) /\ SF_vars(Schedule(c))

(***************************************************************************)
(* Properties.                                                             *)
(***************************************************************************)
(* The intrusive lists stay well formed through every interleaving of    *)
(* enqueue_thread, dequeue_highest_priority, steal_thread and the unlocked *)
(* code around them: each list ends, its prev pointers mirror its next     *)
(* pointers, the bitmap marks exactly the non-empty lists, num_threads     *)
(* counts the threads queued on the CPU, and no thread is queued twice.    *)
QueueIntegrity ==
    LET ch == [cp \in CPUs \X Prios |-> Chain(q, cp[1], cp[2])]
    IN  /\ \A c \in CPUs, p \in Prios :
              /\ Len(ch[c, p]) <= Cardinality(Threads)
              /\ \A i \in 1 .. Len(ch[c, p]) :
                    q.prev[ch[c, p][i]] = IF i = 1 THEN NULL ELSE ch[c, p][i - 1]
              /\ (p \in q.queue_bitmap[c]) <=> ch[c, p] # <<>>
        /\ \A c \in CPUs :
              q.num_threads[c] = MapThenSumSet(LAMBDA p : Len(ch[c, p]), Prios)
        \* no thread twice: the lists' lengths add up to the threads they hold
        /\ MapThenSumSet(LAMBDA cp : Len(ch[cp]), CPUs \X Prios)
              = Cardinality(UNION {ToSet(ch[cp]) : cp \in CPUs \X Prios})

(* Whatever the callers do, even to lists that have lost their shape, the *)
(* non-empty bitmap that dequeue_highest_priority trusts marks exactly the *)
(* priorities whose list head is set: enqueue_thread, the unlink of        *)
(* dequeue_highest_priority and that of steal_thread keep them in step.    *)
BitmapTracksLists ==
    \A c \in CPUs, p \in Prios : (p \in q.queue_bitmap[c]) <=> q.queues[c][p] # NULL

(* A thread dispatched by sched_schedule runs on one CPU only: once a CPU *)
(* is back outside the scheduler, its current thread is on no run queue   *)
(* and is not the current thread of another CPU outside the scheduler.     *)
ExclusiveDispatch ==
    LET queued == Queued(q)
    IN  \A c \in CPUs :
            pc[c] = "idle" /\ current[c] # NULL =>
                /\ current[c] \notin queued
                /\ \A d \in CPUs \ {c} : pc[d] = "idle" => current[d] # current[c]

(* A thread runs only on a CPU its affinity mask allows: find_best_cpu,   *)
(* steal_thread and sched_schedule together never place it elsewhere.    *)
AffinityRespected ==
    \A c \in CPUs :
        pc[c] = "idle" /\ current[c] # NULL => c \in cpu_affinity_mask[current[c]]

(***************************************************************************)
(* The refinement mapping to SMPThreads.  A CPU inside sched_schedule,    *)
(* sched_yield or sched_block has given its current thread up; elsewhere  *)
(* (also inside sched_unblock, sched_set_priority or the balancer, which  *)
(* the running thread calls) it runs rq->current if that thread is        *)
(* RUNNING.  A thread sched_create_thread has not returned is NEW.         *)
(***************************************************************************)
GivenUp == {"s_enq", "s_deq", "s_fin", "y_enq", "y_clr", "b_clr"}

RunsOn(c) ==
    IF pc[c] \notin GivenUp /\ current[c] # NULL /\ state[current[c]] = "RUNNING"
    THEN current[c] ELSE NULL

Abs == INSTANCE SMPThreads WITH
           tstate <- [t \in Threads |-> IF t \in created THEN state[t] ELSE "NEW"],
           running <- [c \in CPUs |-> RunsOn(c)],
           affinity <- cpu_affinity_mask

(* The run queues, the per-CPU current pointers and the unlocked steps    *)
(* between them implement the thread life cycle of SMPThreads: a thread   *)
(* is dispatched only when READY, on an idle CPU its mask allows, leaves  *)
(* a CPU only through sched_schedule, sched_yield or sched_block, and      *)
(* becomes READY again from BLOCKED only through sched_unblock.           *)
ThreadsRefines == Abs!Spec

(* A CPU with an empty current slot and a non-empty run queue eventually *)
(* dispatches a thread (or loses the work to a thief): the bitmap lookup  *)
(* of dequeue_highest_priority finds every non-empty list.                *)
IdleCPUFindsWork ==
    \A c \in CPUs :
        (current[c] = NULL /\ q.queue_bitmap[c] # {})
            ~> (current[c] # NULL \/ q.queue_bitmap[c] = {})

=============================================================================
