----------------------------- MODULE MCMuxPool -----------------------------
(***************************************************************************)
(* MuxPool for two tasks and two connections at a time: the one in use and *)
(* its replacement.  A connection that has ended and that nobody refers to *)
(* can be dialled again, so there is no bound on how many follow.          *)
(***************************************************************************)
EXTENDS MuxPool

CONSTANTS t1, t2, c1, c2

MCTasks == {t1, t2}
MCConns == {c1, c2}
=============================================================================
