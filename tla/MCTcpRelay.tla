----------------------------- MODULE MCTcpRelay -----------------------------
(***************************************************************************)
(* Two bytes each way through buffers of one.                              *)
(***************************************************************************)
EXTENDS TcpRelay

=============================================================================
