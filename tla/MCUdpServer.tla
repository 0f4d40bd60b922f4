---------------------------- MODULE MCUdpServer ----------------------------
(* UdpServer with two sessions from one address, or from two. *)
EXTENDS UdpServer
=============================================================================
