---------------------------- MODULE MCDnsResolver ----------------------------
(***************************************************************************)
(* DnsResolver for TLC.  Two requests may need four transaction ids and    *)
(* there are two, so that ids run out and are reused.                      *)
(***************************************************************************)
EXTENDS DnsResolver

=============================================================================
