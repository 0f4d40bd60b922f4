------------------------------ MODULE MCNetTcp ------------------------------
(* NetTcp with ring buffers and socket buffers of one unit. *)
EXTENDS NetTcp
=============================================================================
