---------------------------- MODULE MCPeerManager ----------------------------
(* PeerManager for TLC: the bootstrap list repeats a node. *)
EXTENDS PeerManager

CONSTANTS A, B, C, D

TwoNodesOneTwice == <<A, B, A>>
==============================================================================
