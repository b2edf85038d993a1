---------------------------- MODULE MCUdpSessions ----------------------------
(***************************************************************************)
(* Two associations and a port range of two, which other requests use too. *)
(***************************************************************************)
EXTENDS UdpSessions

=============================================================================
