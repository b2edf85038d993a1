------------------------- MODULE MCTunnelLifecycle -------------------------
(***************************************************************************)
(* TunnelLifecycle for TLC.  Base = 2 and MaxDelay = 10 give the delays 2, *)
(* 4, 8, 10, 10, ...: the last doubling is cut, as 64 s is to 60 s.        *)
(***************************************************************************)
EXTENDS TunnelLifecycle

=============================================================================
