------------------------------ MODULE MCUdpLink ------------------------------
(***************************************************************************)
(* UdpLink on six packet ids, a window of three and seven datagrams, so    *)
(* that the id wraps; reads of 862 bytes (the largest payload that         *)
(* encode_packet takes), 863 (one byte more) and 2220 (a full chunk and    *)
(* 862 more).                                                              *)
(***************************************************************************)
EXTENDS UdpLink

MCReadSizes == {862, 863, 2220}
=============================================================================
