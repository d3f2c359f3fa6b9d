------------------------------- MODULE MCUdpLink -------------------------------
(* UdpLink for TLC: A is started twice and bootstraps; B is started once. *)
EXTENDS UdpLink, TLC

CONSTANTS A, B

Restarts == (A :> 2) @@ (B :> 1)
==============================================================================
