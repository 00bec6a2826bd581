---------------------------- MODULE MC_EventQueue ----------------------------
(***************************************************************************)
(* The event ring with 3 slots instead of 256 (2 usable: one slot is kept  *)
(* free to tell full from empty, as in events.c), so a mouse packet of up  *)
(* to 3 events overflows it, and 6 events in all.                          *)
(***************************************************************************)
EXTENDS EventQueue

MC_EVENT_QUEUE_SIZE == 3
MC_MaxEvents == 6
MC_MaxBurst == 3

=============================================================================
