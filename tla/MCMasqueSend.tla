---------------------------- MODULE MCMasqueSend ----------------------------
(***************************************************************************)
(* More packets than the device queue holds, batches of two in drains of   *)
(* three (so that the last batch of a drain is cut), and a channel and a   *)
(* flow with room for one entry each, so that both fill up.                *)
(***************************************************************************)
EXTENDS MasqueSend

=============================================================================
