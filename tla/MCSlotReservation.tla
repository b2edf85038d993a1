-------------------------- MODULE MCSlotReservation --------------------------
(***************************************************************************)
(* Two requests choose between two workers with one slot each: both change *)
(* a worker's counters between the loads and the compare-and-swap, and a   *)
(* second worker is tried when the first one is full.                      *)
(***************************************************************************)
EXTENDS SlotReservation

=============================================================================
