---------------------------- MODULE MCConnectRace ----------------------------
(***************************************************************************)
(* One request for a name with up to three addresses, in two slots.        *)
(***************************************************************************)
EXTENDS ConnectRace

=============================================================================
