----------------------------- MODULE MCRingBuffer -----------------------------
(***************************************************************************)
(* A ring of 4 cells (3 usable) and chunks of up to 4 bytes: chunks longer *)
(* than the room, chunks that wrap and a full ring all occur.              *)
(***************************************************************************)
EXTENDS RingBuffer

=============================================================================
