---------------------------- MODULE MCSocketTable ----------------------------
(***************************************************************************)
(* Two connections, two or three slots, one or two flows.                  *)
(***************************************************************************)
EXTENDS SocketTable, TLC

Symmetry == Permutations(Conns)

=============================================================================
