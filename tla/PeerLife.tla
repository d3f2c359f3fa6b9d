------------------------------- MODULE PeerLife -------------------------------
(***************************************************************************)
(* What a UDP peer promises its manager, and all the manager relies on:    *)
(* it runs; a disconnect is logged before it stops; a stopping peer keeps  *)
(* its place in the list until it can report nothing but its own end; and  *)
(* of what its greenlets still do meanwhile, at most one report says       *)
(* "working".  UdpPeer implements it (ImplementsPeerLife), and the peer    *)
(* events of PeerManager are its actions.                                  *)
(***************************************************************************)
EXTENDS Naturals

VARIABLES
    phase,      \* "running", inside Peer.stop ("stopping"), off the list ("gone")
    book,       \* the peer's entry in peermanager.status_book
    late        \* the one late report is still possible

vars == <<phase, book, late>>

Init == phase = "running" /\ book = "starting" /\ late = TRUE

\* Data is handed to the application.
Work == phase = "running" /\ book' = "working" /\ UNCHANGED <<phase, late>>

\* Peer.stop begins; a peer whose greenlets never ran is gone at once.
Disconnect ==
    /\ phase = "running"
    /\ book' = "disconnected" /\ phase' \in {"stopping", "gone"}
    /\ UNCHANGED late

LateWork ==
    /\ phase = "stopping" /\ late
    /\ book' = "working" /\ late' = FALSE
    /\ UNCHANGED phase

LateDisconnect ==
    phase # "running" /\ book' = "disconnected" /\ UNCHANGED <<phase, late>>

Gone == phase = "stopping" /\ phase' = "gone" /\ UNCHANGED <<book, late>>

Next == Work \/ Disconnect \/ LateWork \/ LateDisconnect \/ Gone

Spec == Init /\ [][Next]_vars
==============================================================================
