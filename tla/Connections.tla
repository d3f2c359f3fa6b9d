----------------------------- MODULE Connections -----------------------------
(***************************************************************************)
(* What the peer manager promises: for each peer ID at most one connection *)
(* at a time, that a stop ends once and for all before the ID can connect  *)
(* again; at most max_peers at a time, the ones that are still stopping    *)
(* included; and new ones only while the manager is open.  PeerManager     *)
(* implements it (ImplementsConnections).                                  *)
(***************************************************************************)
EXTENDS Naturals, FiniteSets

CONSTANTS
    IDs,        \* peer IDs
    max_peers   \* configs['p2p']['max_peers']

VARIABLES
    phase,      \* the manager: "new", "open", "closed"
    conn        \* per ID: "none", "running", "stopping"

vars == <<phase, conn>>

Taken == {id \in IDs : conn[id] # "none"}

Init == phase = "new" /\ conn = [id \in IDs |-> "none"]

Open == phase = "new" /\ phase' = "open" /\ UNCHANGED conn

Admit(id) ==
    /\ phase = "open" /\ conn[id] = "none" /\ Cardinality(Taken) < max_peers
    /\ conn' = [conn EXCEPT ![id] = "running"]
    /\ UNCHANGED phase

End(id) ==
    /\ conn[id] = "running" /\ conn' = [conn EXCEPT ![id] = "stopping"]
    /\ UNCHANGED phase

Remove(id) ==
    /\ conn[id] = "stopping" /\ conn' = [conn EXCEPT ![id] = "none"]
    /\ UNCHANGED phase

Close == phase # "closed" /\ phase' = "closed" /\ UNCHANGED conn

Next == Open \/ Close \/ \E id \in IDs : Admit(id) \/ End(id) \/ Remove(id)

Spec == Init /\ [][Next]_vars
==============================================================================
