----------------------------- MODULE PeerManager -----------------------------
(***************************************************************************)
(* udpPeerManager.PeerManager: the list of peers, the status book and the  *)
(* life of the manager, from start through bootstrap to stop.              *)
(*                                                                         *)
(* A peer is abstracted to what PeerLife promises of it and UdpPeer        *)
(* implements: it runs, it is inside Peer.stop ("stopping"), then it is    *)
(* out of the list.  A stopping peer may still claim to work once, and it  *)
(* or what is left of its greenlets may log its end again.                 *)
(*                                                                         *)
(* send and broadcast change nothing here: they append to the sQ of listed *)
(* peers (UdpPeer!SendPacket).                                             *)
(***************************************************************************)
EXTENDS Naturals, Sequences, FiniteSets, SequencesExt

CONSTANTS
    IDs,            \* peer IDs
    max_peers,      \* configs['p2p']['max_peers']
    bootstrap_nodes, \* the IDs of configs['p2p']['bootstrap_nodes'], in order
    MaxCreated      \* bound: connections accepted

ASSUME MaxPeersAssumption == max_peers \in Nat
ASSUME BootstrapAssumption == bootstrap_nodes \in Seq(IDs)
ASSUME MaxCreatedAssumption == MaxCreated \in Nat

VARIABLES
    state,      \* PeerManager.state
    todo,       \* what bootstrap has still to connect to
    peers,      \* PeerManager.peers
    created,    \* how many peers have been made: it tells peer objects apart
    stopping,   \* listed peers inside Peer.stop
    late,       \* stopping peers that may still claim to work
    leaving,    \* unlisted peers, whose last greenlets may still log an error
    status_book,
    idx,        \* index of the for loop of stop
    awaited,    \* the peer whose stop the manager's stop is waiting for
    atStop      \* history: how many peers stop found

vars == <<state, todo, peers, created, stopping, late, leaving, status_book,
          idx, awaited, atStop>>

\* Peer objects: the ID of the remote, and a number of their own.
Peer == [id : IDs, n : Nat \ {0}]
None == [id |-> "none", n |-> 0]
Statuses == {"unknown", "starting", "working", "disconnected"}

Listed(p) == \E i \in 1..Len(peers) : peers[i] = p
ListedIDs == {peers[i].id : i \in 1..Len(peers)}
Running(p) == Listed(p) /\ p \notin stopping

Init ==
    /\ state = "starting" /\ todo = <<>> /\ peers = <<>> /\ created = 0
    /\ stopping = {} /\ late = {} /\ leaving = {}
    /\ status_book = [id \in IDs |-> "unknown"]
    /\ idx = 1 /\ awaited = None /\ atStop = 0

Log(id, status) == status_book' = [status_book EXCEPT ![id] = status]

------------------------------------------------------------------------------
(* Connecting *)

\* Mutants of Approved: a check of approve_connection is missing.
ApprovedTwice(id) == Len(peers) < max_peers
ApprovedOneMore(id) == Len(peers) <= max_peers /\ id \notin ListedIDs

\* approve_connection returns no objection.
Approved(id) == Len(peers) < max_peers /\ id \notin ListedIDs

\* Mutant of LogStarting: nothing is written into the status book.
LogNothing(id) == UNCHANGED status_book

LogStarting(id) == Log(id, "starting")

\* create_peer, and 'starting' in the status book.
Connect(id) ==
    /\ created' = created + 1
    /\ peers' = Append(peers, [id |-> id, n |-> created'])
    /\ LogStarting(id)

\* start sets STARTED and runs bootstrap before it first yields (sleep(5)):
\* while something is left to do, no other action is possible.
Start ==
    /\ state = "starting"
    /\ state' = "started" /\ todo' = bootstrap_nodes
    /\ UNCHANGED <<peers, created, stopping, late, leaving, status_book, idx,
                   awaited, atStop>>

\* make_connection for the next bootstrap node.
Bootstrap ==
    /\ todo # <<>>
    /\ todo' = Tail(todo)
    /\ IF Approved(Head(todo)) THEN Connect(Head(todo))
                               ELSE UNCHANGED <<peers, created, status_book>>
    /\ UNCHANGED <<state, stopping, late, leaving, idx, awaited, atStop>>

\* The hub can run another greenlet.
Idle == todo = <<>>

\* _new_conn takes hellos.
Accepting == state = "started"

\* _new_conn for a hello that check_hello accepts (any other raises and changes
\* nothing).
NewConn(id) ==
    /\ Idle /\ Accepting /\ created < MaxCreated
    /\ Approved(id)
    /\ Connect(id)
    /\ UNCHANGED <<state, todo, stopping, late, leaving, idx, awaited, atStop>>

\* _new_conn with an objection: the peer is made, listed, told to disconnect and
\* unlisted without a yield, its greenlets never having run.  What remains is
\* the log entry send_disconnect makes for that ID.
Refuse(id) ==
    /\ Idle /\ Accepting
    /\ ~Approved(id)
    /\ Log(id, "disconnected")
    /\ UNCHANGED <<state, todo, peers, created, stopping, late, leaving, idx,
                   awaited, atStop>>

------------------------------------------------------------------------------
(* What peers do to the manager *)

\* A running peer reports data.
ReportData(p) ==
    /\ Idle /\ Running(p)
    /\ Log(p.id, "working")
    /\ UNCHANGED <<state, todo, peers, created, stopping, late, leaving, idx,
                   awaited, atStop>>

\* Mutant of MarkStopping: is_stopped is not set.
Unmarked(p) == UNCHANGED stopping

MarkStopping(p) == stopping' = stopping \cup {p}

\* A running peer reports a disconnect (timeout, bad packet, socket error, the
\* remote's disconnect, the manager's stop) and enters stop.
BeginStop(p) ==
    /\ Log(p.id, "disconnected")
    /\ MarkStopping(p)
    /\ late' = late \cup {p}

ReportDisconnect(p) ==
    /\ Idle /\ Running(p)
    /\ BeginStop(p)
    /\ UNCHANGED <<state, todo, peers, created, leaving, idx, awaited, atStop>>

\* The one turn recv_loop may still finish (PeerLife!LateWork).
LateWork(p) ==
    /\ Idle /\ p \in late
    /\ late' = late \ {p}
    /\ Log(p.id, "working")
    /\ UNCHANGED <<state, todo, peers, created, stopping, leaving, idx, awaited,
                   atStop>>

\* Another greenlet of a peer that has stopped, listed or not, reports a
\* disconnect (PeerLife!LateDisconnect): its stop returns at once.
LateDisconnect(p) ==
    /\ Idle
    /\ Log(p.id, "disconnected")
    /\ UNCHANGED <<state, todo, peers, created, stopping, late, leaving, idx,
                   awaited, atStop>>

\* Mutant of Wake: the stop that waits for the peer is not woken.
NoWake(p) == awaited

\* The stop that waits for p to be gone returns.
Wake(p) == IF awaited = p THEN None ELSE awaited

\* Peer.stop reaches peers.remove(self).
PeerGone(i) ==
    /\ Idle /\ peers[i] \in stopping
    /\ peers' = RemoveAt(peers, i)
    /\ stopping' = stopping \ {peers[i]}
    /\ late' = late \ {peers[i]}
    /\ leaving' = leaving \cup {peers[i]}
    /\ awaited' = Wake(peers[i])
    /\ UNCHANGED <<state, todo, created, status_book, idx, atStop>>

------------------------------------------------------------------------------
(* Stopping *)

\* stop, up to its loop.
Stop ==
    /\ Idle /\ state \in {"starting", "started"}
    /\ state' = "stopping" /\ idx' = 1 /\ atStop' = Len(peers)
    /\ UNCHANGED <<todo, peers, created, stopping, late, leaving, status_book,
                   awaited>>

\* Mutant of NextIndex: the loop takes every other peer.
EveryOther == idx + 2

\* The for loop of stop keeps an index into the list.
NextIndex == idx + 1

\* for peer in self.peers: peer.send_disconnect(msg).  The loop walks the list
\* by index while Peer.stop removes from it.
StopVisit ==
    /\ state = "stopping" /\ awaited = None /\ idx <= Len(peers)
    /\ idx' = NextIndex
    /\ IF peers[idx] \in stopping
       THEN Log(peers[idx].id, "disconnected") /\ UNCHANGED <<stopping, late, awaited>>
       ELSE BeginStop(peers[idx]) /\ awaited' = peers[idx]
    /\ UNCHANGED <<state, todo, peers, created, leaving, atStop>>

\* The loop has run off the end of what is left of the list.
StopEnd ==
    /\ state = "stopping" /\ awaited = None /\ idx > Len(peers)
    /\ state' = "stopped"
    /\ UNCHANGED <<todo, peers, created, stopping, late, leaving, status_book,
                   idx, awaited, atStop>>

------------------------------------------------------------------------------
Connecting ==
    \/ Start \/ Bootstrap
    \/ \E id \in IDs : NewConn(id) \/ Refuse(id)

ListedPeer == {peers[i] : i \in 1..Len(peers)}

PeerEvents ==
    \/ \E p \in ListedPeer : ReportData(p) \/ ReportDisconnect(p)
    \/ \E p \in late : LateWork(p)
    \/ \E p \in stopping \cup leaving : LateDisconnect(p)

Removals == \E i \in 1..Len(peers) : PeerGone(i)

Stopping == Stop \/ StopVisit \/ StopEnd

Next == Connecting \/ PeerEvents \/ Removals \/ Stopping

Spec == Init /\ [][Next]_vars

\* Peer.stop completes (UdpPeer!StopCompletes), and the greenlet in the
\* manager's stop runs when it can.
Fairness == WF_vars(Bootstrap) /\ WF_vars(Removals) /\ WF_vars(StopVisit \/ StopEnd)
FairSpec == Spec /\ Fairness

------------------------------------------------------------------------------
(* Properties *)

TypeOK ==
    /\ state \in {"starting", "started", "stopping", "stopped"}
    /\ todo \in Seq(IDs) /\ peers \in Seq(Peer) /\ created \in Nat
    /\ stopping \subseteq Peer /\ late \subseteq stopping /\ leaving \subseteq Peer
    /\ status_book \in [IDs -> Statuses]
    /\ idx \in Nat \ {0} /\ awaited \in Peer \cup {None} /\ atStop \in Nat

\* send asserts that at most one peer has an ID (udpPeerManager.py:118); the
\* check in approve_connection has to hold across every interleaving of
\* bootstrap, hellos and slow stops.
NoDuplicatePeers ==
    \A i, j \in 1..Len(peers) : peers[i].id = peers[j].id => i = j

\* README.md:23: max_peers bounds the directly connected peers.  A stopping
\* peer keeps its place until it is removed.
WithinMaxPeers == Len(peers) <= max_peers

\* Every listed ID has an entry in the status book, and an ID that the book
\* calls "starting" is listed: no entry outlives its connection as "starting",
\* whatever late reports and refused hellos of that ID write.
BookMatchesPeers ==
    \A id \in IDs : /\ id \in ListedIDs => status_book[id] # "unknown"
                    /\ status_book[id] = "starting" => id \in ListedIDs

\* What makes BookMatchesPeers inductive: a stopping peer keeps its place in the
\* list, so no new connection of its ID has made it "starting" again.
StoppingListed ==
    \A p \in stopping : p \in ListedPeer /\ status_book[p.id] # "starting"

\* The loop of stop skips the element after each one that is removed under it.
\* However many peers stop by themselves meanwhile, it skips no more peers than
\* have left the list: at most half of what it found keeps running.
StillRunning == ListedPeer \ stopping
HalfAreStopped == state = "stopped" => 2 * Cardinality(StillRunning) <= atStop

\* What makes it inductive: each running peer the loop has passed over stands
\* for one that has left the list.
PassedOver == {peers[i] : i \in {k \in 1..Len(peers) : k < idx}} \ stopping
HalfInv ==
    /\ state \in {"stopping", "stopped"} =>
            Len(peers) + Cardinality(PassedOver) <= atStop
    /\ state = "stopped" => idx > Len(peers)
    /\ todo # <<>> => state = "started"

\* Once stop has begun no connection is added to the list any more: neither a
\* bootstrap nor a hello that is still queued finds the manager STARTED.
NoPeerOnceStopping ==
    [][(state \in {"stopping", "stopped"}) => (ListedPeer' \subseteq ListedPeer)]_vars

\* stop returns, although every peer it visits blocks it until that peer's
\* greenlets are gone.
StopReturns == state = "stopping" ~> state = "stopped"

\* What it rests on: the peer that stop waits for is on its way out, so its end is
\* still to come and will wake stop (udpPeerManager.py:137-138); and stop visits no
\* more peers than it found, whatever leaves the list under it.
AwaitedStops == awaited # None => state = "stopping" /\ awaited \in stopping
VisitsBounded == state \in {"stopping", "stopped"} => idx <= atStop + 1
StopNeverStuck ==
    state = "stopping" =>
        /\ Idle /\ idx <= atStop + 1
        /\ \/ awaited = None
           \/ \E i \in 1..Len(peers) : peers[i] = awaited /\ peers[i] \in stopping

\* The manager and its list as Connections sees them: one connection per ID.
Phase == CASE state = "starting" -> "new"
           [] state = "started" -> "open"
           [] OTHER -> "closed"
StoppingIDs == {p.id : p \in stopping}
Conn == [id \in IDs |-> IF id \notin ListedIDs THEN "none"
                       ELSE IF id \in StoppingIDs THEN "stopping" ELSE "running"]

Set == INSTANCE Connections WITH phase <- Phase, conn <- Conn

\* A slow stop blocks its ID and its place in the list until the peer is gone,
\* whichever of its greenlets, the remote or the manager began it; bootstrap and
\* hellos see no more than that (udpPeerManager.py:50-67, 94-103, 160-174).
ImplementsConnections == Set!Spec

\* README.md:207: ctrl-c "stops the peerManager(which then stops the server and
\* peer connections)".
StopStopsPeers == state = "stopped" => StillRunning = {}
==============================================================================
