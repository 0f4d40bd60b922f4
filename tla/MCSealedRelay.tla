--------------------------- MODULE MCSealedRelay ---------------------------
(* SealedRelay with two chunks each way: a batch of both does not fit. *)
EXTENDS SealedRelay
=============================================================================
