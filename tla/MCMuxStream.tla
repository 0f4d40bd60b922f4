---------------------------- MODULE MCMuxStream ----------------------------
(***************************************************************************)
(* MuxStream with a window of one unit, sinks that buffer one unit and two *)
(* units in each direction: a sender that runs out of credit, a receiver   *)
(* that waits for its sink, and a read that takes two sends.               *)
(***************************************************************************)
EXTENDS MuxStream
=============================================================================
