----------------------------- MODULE EventQueue -----------------------------
(***************************************************************************)
(* The input event ring of SimpleOS (events.c) with its producers and its  *)
(* consumer.  push_event runs inside the keyboard (IRQ1) and mouse (IRQ12) *)
(* handlers, behind an interrupt gate, so one handler's pushes are atomic  *)
(* and handlers never nest.  pop_event runs in kmain's loop with           *)
(* interrupts enabled, and queue_tail is volatile: every mention of it is  *)
(* a separate load, so a handler can run between any two of them.         *)
(*                                                                         *)
(* An event is identified by its arrival number; the payload (key, mouse   *)
(* position, buttons) is left out.  got, dropped and sent are history      *)
(* variables: the events kmain has received, the events push_event         *)
(* discarded under its drop-oldest policy, and the events pushed so far.   *)
(***************************************************************************)
EXTENDS Naturals, Sequences, SequencesExt

CONSTANTS
    EVENT_QUEUE_SIZE,   \* 256 in events.c
    MaxEvents,          \* bound on the events the devices produce
    MaxBurst            \* most events one mouse packet pushes (3 clicks + a move)

ASSUME EVENT_QUEUE_SIZE >= 2 /\ MaxEvents >= 1 /\ MaxBurst >= 1

VARIABLES
    event_queue, queue_head, queue_tail,  \* events.c
    cpc,                                  \* kmain's loop: where the consumer is
    idx, ev, t,                           \* queue_tail as loaded at line 36, the event
                                          \* copied, queue_tail as loaded at line 37
    sent, got, dropped

vars == <<event_queue, queue_head, queue_tail, cpc, idx, ev, t, sent, got, dropped>>

Slots == 0 .. EVENT_QUEUE_SIZE - 1
NONE == 0                                  \* EVENT_TYPE_NONE / an unwritten slot

(* Mutant: the head index advanced without wrapping at the ring's end. *)
push_event_nowrap(r, e) ==
    [q    |-> [r.q EXCEPT ![r.head] = e],
     head |-> r.head + 1,
     tail |-> r.tail,
     lost |-> {}]

(* push_event of event e on the ring r = [q, head, tail]: when the ring is *)
(* full the oldest slot is given up by advancing queue_tail.               *)
push_event(r, e) ==
    LET next_head == (r.head + 1) % EVENT_QUEUE_SIZE
        full      == next_head = r.tail
    IN  [q    |-> [r.q EXCEPT ![r.head] = e],
         head |-> next_head,
         tail |-> IF full THEN (r.tail + 1) % EVENT_QUEUE_SIZE ELSE r.tail,
         lost |-> IF full THEN {r.q[r.tail]} ELSE {}]

RECURSIVE PushAll(_, _)
PushAll(r, es) ==
    IF es = <<>> THEN [r EXCEPT !.lost = {}]
    ELSE LET r1 == push_event(r, Head(es))
             r2 == PushAll([r1 EXCEPT !.lost = {}], Tail(es))
         IN  [r2 EXCEPT !.lost = @ \cup r1.lost]

(* One interrupt handler pushing n events in a row. *)
DeviceIRQ(n) ==
    /\ sent + n <= MaxEvents
    /\ LET r == PushAll([q |-> event_queue, head |-> queue_head, tail |-> queue_tail,
                         lost |-> {}],
                        [i \in 1 .. n |-> sent + i])
       IN  /\ event_queue' = r.q
           /\ queue_head' = r.head
           /\ queue_tail' = r.tail
           /\ dropped' = dropped \cup r.lost
    /\ sent' = sent + n
    /\ cpc' = IF cpc = "halted" THEN "idle" ELSE cpc    \* the IRQ ends a hlt
    /\ UNCHANGED <<idx, ev, t, got>>

(* keyboard_callback: a key press with an ASCII code pushes one event. *)
KeyboardIRQ == DeviceIRQ(1)

(* mouse_callback on the third byte of a packet: one event per newly      *)
(* pressed button and one if the mouse moved.                              *)
MouseIRQ(n) == DeviceIRQ(n)

(* kmain: events_pending, then pop_event's own emptiness test. *)
Pending ==
    /\ cpc = "idle"
    /\ queue_head # queue_tail
    /\ cpc' = "index"
    /\ UNCHANGED <<event_queue, queue_head, queue_tail, idx, ev, t, sent, got, dropped>>

(* pop_event line 36, event = event_queue[queue_tail]: first the load of *)
(* the volatile queue_tail ...                                             *)
Index ==
    /\ cpc = "index"
    /\ idx' = queue_tail
    /\ cpc' = "copy"
    /\ UNCHANGED <<event_queue, queue_head, queue_tail, ev, t, sent, got, dropped>>

(* Mutant: the slot read is the newest one, queue_head - 1. *)
Copy_newest ==
    /\ cpc = "copy"
    /\ ev' = event_queue[(queue_head - 1) % EVENT_QUEUE_SIZE]
    /\ cpc' = "load"
    /\ UNCHANGED <<event_queue, queue_head, queue_tail, idx, t, sent, got, dropped>>

(* ... then the copy of the slot it names, which a handler may have        *)
(* overwritten in between.  A handler cannot run inside the copy itself    *)
(* in this model: the payload is left out, so a torn copy is not told      *)
(* apart from the event whose identity it carries.                         *)
Copy ==
    /\ cpc = "copy"
    /\ ev' = event_queue[idx]
    /\ cpc' = "load"
    /\ UNCHANGED <<event_queue, queue_head, queue_tail, idx, t, sent, got, dropped>>

(* pop_event line 37, the load of queue_tail ... *)
Load ==
    /\ cpc = "load"
    /\ t' = queue_tail
    /\ cpc' = "store"
    /\ UNCHANGED <<event_queue, queue_head, queue_tail, idx, ev, sent, got, dropped>>

(* ... and the store of queue_tail + 1; kmain hands the event to the      *)
(* shell's line editor or prints the click, then calls halt_cpu.           *)
Store ==
    /\ cpc = "store"
    /\ queue_tail' = (t + 1) % EVENT_QUEUE_SIZE
    /\ got' = Append(got, ev)
    /\ cpc' = "halted"
    /\ UNCHANGED <<event_queue, queue_head, idx, ev, t, sent, dropped>>

(* Mutant: the loop halts without first asking events_pending. *)
Halt_nocheck ==
    /\ cpc = "idle"
    /\ cpc' = "halted"
    /\ UNCHANGED <<event_queue, queue_head, queue_tail, idx, ev, t, sent, got, dropped>>

(* kmain: nothing pending, so straight to halt_cpu: hlt until the next   *)
(* interrupt.                                                              *)
Halt ==
    /\ cpc = "idle"
    /\ queue_head = queue_tail
    /\ cpc' = "halted"
    /\ UNCHANGED <<event_queue, queue_head, queue_tail, idx, ev, t, sent, got, dropped>>

(* The PIT's IRQ0 (every 10ms) ends the hlt; the loop polls again. *)
TimerIRQ ==
    /\ cpc = "halted"
    /\ cpc' = "idle"
    /\ UNCHANGED <<event_queue, queue_head, queue_tail, idx, ev, t, sent, got, dropped>>

Init ==
    /\ event_queue = [i \in Slots |-> NONE]
    /\ queue_head = 0
    /\ queue_tail = 0
    /\ cpc = "idle"
    /\ idx = 0
    /\ ev = NONE
    /\ t = 0
    /\ sent = 0
    /\ got = <<>>
    /\ dropped = {}

Next ==
    \/ KeyboardIRQ
    \/ \E n \in 2 .. MaxBurst : MouseIRQ(n)
    \/ TimerIRQ
    \/ Pending \/ Halt \/ Index \/ Copy \/ Load \/ Store

(* The loop runs whenever the CPU is not halted, and the PIT keeps firing, *)
(* so the consumer's steps and the timer's wake-up are weakly fair.        *)
Spec == Init /\ [][Next]_vars
        /\ WF_vars(Pending \/ Index \/ Copy \/ Load \/ Store) /\ WF_vars(TimerIRQ)

(***************************************************************************)
(* Properties.                                                             *)
(***************************************************************************)
TypeOK ==
    /\ event_queue \in [Slots -> 0 .. MaxEvents]
    /\ queue_head \in Slots /\ queue_tail \in Slots
    /\ cpc \in {"idle", "halted", "index", "copy", "load", "store"}
    /\ idx \in Slots /\ ev \in 0 .. MaxEvents /\ t \in Slots
    /\ sent \in 0 .. MaxEvents
    /\ got \in Seq(0 .. MaxEvents)
    /\ dropped \subseteq 1 .. MaxEvents

(* The events in the ring, oldest first. *)
InRing == {event_queue[(queue_tail + i) % EVENT_QUEUE_SIZE] :
              i \in 0 .. ((queue_head - queue_tail) % EVENT_QUEUE_SIZE) - 1}

(* As long as push_event has never had to drop, the shell receives real   *)
(* events, each at most once and in the order the devices produced them,  *)
(* whatever the interleaving of the handlers with the three loads of       *)
(* queue_tail and the store of pop_event: without an overflow only the     *)
(* consumer moves queue_tail, and no handler writes the slot it names.     *)
(* Once a burst has overflowed the ring, pop_event can deliver an event    *)
(* twice or skip one (events_loss), so nothing is claimed after that.      *)
DeliveredInOrderWithoutOverflow ==
    dropped = {} =>
        \A i, j \in DOMAIN got : i < j => 0 < got[i] /\ got[i] < got[j]

(* Spec 6: the ring drops only the oldest event and only on overflow.     *)
(* Every event pushed is delivered, still in the ring or in pop_event's    *)
(* hands, or was discarded by push_event's full-ring branch.               *)
NoLossBeyondDropOldest ==
    \A e \in 1 .. sent :
        e \in ToSet(got) \/ e \in dropped \/ e \in InRing
        \/ (cpc \in {"load", "store"} /\ ev = e)

(* kmain calls halt_cpu after every event even when more are pending, so *)
(* the ring is drained only because the PIT keeps waking the CPU: an       *)
(* event in the ring is eventually taken by pop_event.                     *)
PendingEventuallyPopped ==
    \A n \in 0 .. MaxEvents :
        (queue_head # queue_tail /\ Len(got) = n) ~> Len(got) > n

=============================================================================
