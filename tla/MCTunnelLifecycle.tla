------------------------- MODULE MCTunnelLifecycle -------------------------
(* Two starts of the tunnel, with every descriptor they can open. *)
EXTENDS TunnelLifecycle
=============================================================================
