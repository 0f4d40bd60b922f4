----------------------------- MODULE MCRawServer ------------------------------
(* One connection through all stages and one that ends in its handshake. *)
EXTENDS RawServer, TLC

CONSTANTS c1, c2

MCConns == {c1, c2}
MCFrames == c1 :> 4 @@ c2 :> 2
=============================================================================
