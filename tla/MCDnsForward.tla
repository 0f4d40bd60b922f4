---------------------------- MODULE MCDnsForward ----------------------------
(* Two lookups, two sessions that dial, two questions. *)
EXTENDS DnsForward
=============================================================================
