# ardelia in TLA+

This directory models the UDP peer-to-peer layer of ardelia and the node that is
built on it. TLC checks the models on small instances; TLAPS proves the safety
properties, the refinements and the safety half of the liveness properties for every
value of the constants. `PROJECT.json`
lists the runs, the lines every definition stands for, the hazards and the theorems.

    tlc -workers 2 -config UdpPeerTraffic.cfg UdpPeer
    tlapm UdpPeer_proofs.tla

## 1. The system

ardelia runs in one process per node, on gevent: greenlets are scheduled
cooperatively and lose control only where they block. Everything that is hard in
this code comes from that: a method is atomic until it touches an empty queue, a
sleep, a socket wait or the kill of another greenlet, and the places where it is
not atomic are easily overlooked.

| Component | State | Operations | Talks to |
|---|---|---|---|
| UDP peer, `udpPeer.py` | `is_stopped`, `is_pinged`, `last_contact`, `peerAddr`, `inbox`, `outbox`, `vipbox` | `run` (main loop), `send_loop`, `recv_loop`, `send`, `send_packet`, `report`, `send_disconnect`, `stop` | its packet handler by queues; the manager by `log`, `recv_queue` and `peers.remove` |
| Packet handler, `udpProtocol.py` | `sQ`, `rQ`, `hello_received`, the list of workers | `run`, `stop`, `send_worker`, `recv_worker` | the peer's boxes |
| UDP peer manager, `udpPeerManager.py` | `state`, `peers`, `status_book`, `recv_queue[0..9]` | `start`, `bootstrap`, `_new_conn`, `make_connection`, `approve_connection`, `send`, `broadcast`, `log`, `stop` | makes peers, is called back by them; the node's managers read its queues |
| Status manager, `node.py` | `status` (shared with the database manager) | announce (00), compare | queue 0; sends 03, 04 |
| Database manager, `node.py` | the database, `status['blockNumber']` | block (01), transaction (02), request (03), answer (04) | queues 1 to 4; `core.database` |
| Consensus manager, `node.py` | `temp`: block, voters, agreed of each hash | `publishBlock`, `signBlock`, `vote`, the loop for 05 to 09 | queues 5 to 9; `core.database` |
| Node, `node.py` | `stopped`, the managers | `start`, `stop` | all of the above |
| TCP peer and manager | the predecessors of the UDP files | | |
| `p2p.py`, `crypto.py` | none of the protocol | pack, sign, verify | libraries |
| test drivers | | `test_udp.py`, `test_tcp.py`, `msg_test.py` | |

What is hard, and what would make each component right:

* **Peer and handler.** Two worker pools and two loops share five queues. `stop`
  yields at every kill, so the greenlets it has not reached yet go on, and may
  report or send or enter `stop` themselves. Right means: data is delivered in
  order and not dropped silently, a session is addressed to the right socket,
  `stop` always completes, and what happens after it has begun is bounded.
* **Manager.** Peers stop slowly and stay in the list meanwhile; hellos, late
  reports and the manager's own `stop` meet that list. Right means: no two peers
  of one ID, no more than `max_peers`, an entry in the status book for every peer
  listed, a `stop` that returns and stops the peers.
* **Session.** Nothing is acknowledged or sent again, no farewell is ever sent, and
  a datagram out of turn ends the session at one end only. Two nodes may dial each
  other, and a node may start again while the other still holds its old session.
  Right means: an undisturbed handshake completes and its session stays, the
  sessions of two dialers never cross, and a half-open one ends.
* **Consensus.** Datagrams are lost, repeated and reordered; the same hash may be
  published twice. Right means: a block is sealed once per publication, by enough
  distinct nodes, for good, and sealed at all if nothing is lost.
* **Synchronisation.** One announcement per node, overlapping chunks, answers
  with `None` in them, broadcasts crossing them, handlers whose exceptions end
  the greenlet. Right means: the block number a node announces is backed by its
  database, and a node that is behind catches up.

## 2. The modules

| Module | Models | Implements |
|---|---|---|
| `UdpPeer` | one `Peer` with its `Protocol`; remote, socket and manager are its environment | `PeerLife`: what a peer promises its manager |
| `PeerManager` | one `PeerManager`; its peers do what `PeerLife` allows | `Connections`: at most one connection per ID, a bounded number of them, a manager that opens and closes |
| `UdpLink` | two managers with the peers they have for each other, at both ends of a network | |
| `Consensus` | `consensusMgr` of every node over an unreliable network | `Sealing`: what the managers promise together, without messages |
| `BlockSync` | `statusMgr` and `dbMgr` of every node, with start and stop of the nodes | |
| `MC*` | the constants of the instances TLC checks | |
| `*_proofs` | the theorems about the module of that name | |

The three abstract specifications are properties of the runs (`ImplementsPeerLife`,
`ImplementsConnections`, `ImplementsSealing`) and theorems. Operators that exist
only to be substituted for another one are commented "Mutant of": each names a
plausible slip, and the property it is paired with in `PROJECT.json` fails when
it is made.

### UdpPeer

One action is what a greenlet does for one item of its queue or one turn of its
loop, where nothing in between yields (`Queue.put` and `spawn` do not). Two methods
yield in the middle.

`Peer.stop` is split at every kill: `Stop` up to the first one, then one `KillNext`
for each worker, the send loop and the receive loop; `peers.remove` comes with the
kill of the receive loop. A peer whose greenlets have never run has nothing to block
on and stops in one step. `self.kill()`, the last line of `stop`, ends nothing:
`Peer` overrides `Greenlet.run`, and gevent (1.1 and later) takes a greenlet that
has started and whose `run` is its own for dead, so nothing is thrown into the main
loop. The main loop of a stopped peer, and its socket, stay until a datagram or an
error comes in; it then leaves its loop. For the same reason the links of a peer are
notified only by such a `kill`, so that `peer_die` finds a `stop` that is a no-op.

`send` waits in `sendto` when the socket's buffer is full, at most for the timeout of
the socket. `hand` is the packet it waits with. Meanwhile `read_ready` is clear,
which holds a main loop that has come to the top of its turn (`held`), and any other
greenlet may stop the peer: either the sender is killed, and `read_ready` stays
clear for ever, or the wait ends first and the turn goes on to the head of the outbox
although the peer is stopped. A wait ends by `SenderSent` or `SenderRaises`, both
with every outcome of the send that follows.

| Code | Actions |
|---|---|
| `Peer.__init__`, `run` to its loop, `Protocol.run` (twice) | `Init`, `PeerRun` |
| main loop | `Receive(kind)`, `MainReady`, `MainError`, `MainResume`, `MainFails` |
| `send_loop` with `send` | `SenderTimeout`, `SenderPing`, `SenderSend`, `SenderVipWaits`, `SenderVipFails`, `SenderSent`, `SenderRaises`, `SenderResume` |
| `recv_loop` with `report`, `parse_data` | `ReportChecked`, `ReportBad`, `ReportData`, `ReportNoQueue`, `ReportNoMethod` |
| `send_worker`, `recv_worker` | `SendWorker`, `RecvWorker`, `RecvWorkerDies` |
| `stop` | `Stop` (part of every report of a disconnect), `KillNext` |
| `PeerManager.send`/`broadcast`, `PeerManager.stop` | `SendPacket`, `ManagerDisconnect` |
| `time.time()` | `Tick`: `contact` is "recent", "quiet" (beyond pingtime), "lost" (beyond timeout) |

A packet is its control code; data also carries the number of its arrival. Data
comes in three kinds: for one of the manager's queues, with a method that has no queue
(`parse_data` catches the `IndexError`: logged, dropped, and the receiver goes on) and
without a usable method (uncaught, the receiver ends). A failed `send` reports, runs
`stop` inside the turn of the send loop, and when `stop` has come back goes on to
the outbox: `SenderVipFails`, then `SenderResume`.

`MainError` is one of the listed errors of `recvfrom`: the main loop reports it, which
stops the peer, and goes on with the message of the turn before (`message`) when the
stop has returned (`MainResume`), or at once if another greenlet had begun to stop the
peer. `MainFails` is any other socket error: the main loop is gone and nothing is
reported; the peer hears nothing more and is dropped by its own timeout.

### PeerManager

A peer is `[id, n]` (`n` tells two peers of one ID apart). It is running, or
inside `Peer.stop` (`stopping`), or out of the list. What peers do to the manager
are the actions of `PeerLife`: a report of data while running (`ReportData`), a
disconnect (`ReportDisconnect`), one report of data while stopping (`LateWork`),
another disconnect at any later time (`LateDisconnect`), and the end (`PeerGone`).
`start` does not yield before the end of `bootstrap`, so no other action happens
while `todo` is not empty. `_new_conn` with an objection makes a peer, lists it,
tells it to disconnect and unlists it without a yield (`Refuse`); what remains is
the "disconnected" it writes for that ID. The `for` loop of `stop` is an index
into a list that shrinks underneath it: `StopVisit`, which waits in `Peer.stop`
of the peer it visits (`awaited`) unless that peer is stopping already.

### UdpLink

Two nodes, each with at most one peer for the other, and the datagrams between
them. It composes what `UdpPeer` and `PeerManager` model of one end:

| Code | Actions |
|---|---|
| `PeerManager.start`, `bootstrap`, `make_connection`; the end of the process | `Start`, `Down` |
| `_new_conn`, `approve_connection` | `Accept`, `Refuse` |
| `PeerManager.send`, `broadcast` | `SendData` |
| `send_loop`, `send`, the worker that builds the packet | `Timeout`, `Ping`, `Send`, `SendFails` |
| main loop, `recv_worker`, `recv_loop` | `Receive` |
| `Peer.stop` after its kills | `Unlist` |
| `time.time()`, the network | `Tick`, `Lose`, `Drop`, and `dup` of every delivery |

The queues of a peer are one FIFO of packets to send and a datagram is taken in
and handled in one step: what the workers in between may do to the order is
`UdpPeer`'s subject, and `DeliveredInOrder` and `StopIsBounded` say that it is
little. A stopped peer stays listed until `Unlist`. There is no disconnect packet
because none is ever sent (`FarewellNeverSent`); a `sendto` that waits only delays, and
what a stopped peer's main loop still reads nobody handles; two nodes never reach
`max_peers`; `check_hello` compares the address a hello claims with its source, so
the model has only the source. Every socket gets a fresh number. Garbled
datagrams and unknown control codes are left to `UdpPeer`.

`faults` counts what goes wrong, all kinds together: a datagram lost, repeated or
overtaken by a later one of its socket, time that passes while something is
still on its way, a `sendto` that fails, a process that ends. A node that is
down may start again, with the datagrams of its earlier life still in the network
and the peer of the other end still there.

### Consensus

`temp` of each node, `alive` for the greenlet, and the messages 05, 07, 08, 09 as
a set. A delivery may leave the message in the set (a repetition), `Lose` takes
one away, a set has no order. A block is its hash; the model keeps whether the
hash in a message is a string or, because sealing converts the dict it keeps, an
integer that `signdata` refuses (`SignFails`). Signatures are abstracted away:
`vote` verifies them, prints the outcome and counts the vote either way.

### BlockSync

A block is its number, `None` is 0. Numbers travel and are compared as decimal
strings (`Digits`, `StringLess`, `Lower`), ranges are numeric. `Chunks` is the
loop of `statusMgr` and `dbMgr` that cuts an answer into messages. A handler that
raises ends its greenlet (`DbRuns`). `Start(n, peers)` happens when the managers
start, with `n` connected to every node that started before and possibly to
later ones; `Stop(n)` ends both at once, because `Node.stop` marks them without a
yield in between. `Height` is the chain a node begins with: `setBlockNum`, called
before the loops run, is the only way to have one. Messages may be repeated and
reordered, and are not lost.

The packets of applications come in the shapes (sets of keys) that `BlockShapes` and
`TxShapes` name: `dbMgr` reads two keys of a block packet (`node.py:174-175`) and of a
transaction packet (186-187) and raises when one is missing, as it is in the packet
the README shows. Hashes are hex strings or integers: a broadcast block is converted
before it is stored and passed on (175), a block of an answer while it is taken in
(258). Whether an integer comes back from the database is up to `core.database`, so
the constant `AsStored` has both cases; when it does, `converted` says which blocks
have one, and `Converted` which have one from the start. An answer with such a block
raises in `updateBlkTrans` when the transactions before it, and its own, have been
applied, and before any of its blocks is stored.

## 3. Runs

A run takes from some seconds to three minutes with two workers. `CHECK_DEADLOCK` is off
everywhere: a stopped peer, a stopped manager and an exhausted environment have
no next step.

| Run | Question | Instance and why it is enough |
|---|---|---|
| UdpPeerTraffic | Order, loss and addressing under traffic and socket errors: `DeliveredInOrder`, `NoSilentLoss`, `SessionAddressed`; what still happens once a stop has begun, and what the manager sees of it: `StopIsBounded`, `StopLeavesNobody`, `RemovedIsSilent`, `ImplementsPeerLife`; `TypeOK` | `NumWorkers` 1, which is two workers of each kind, so they can overtake one another; two datagrams, of the kinds that are answered, reported, delivered, dropped, or deadly to a worker or the receiver, so there is an order to break, a stale message to handle again and a report to wait while the peer stops; one packet of the application: with the acceptor's or dialer's first packet that is enough for both boxes to have an item when a send waits or fails (4.4 million states). Hellos go to listeners, not to peers; timeouts are in UdpPeerLive; the theorems cover both |
| UdpPeerData | `StopCompletes`, `DataDelivered` | two datagrams of data, data for no queue and garbled ones: one of the two receive workers may end and the receiver meets data it drops before the data that counts |
| UdpPeerLive | `SilentPeerDropped`, `PacketsLeave`, `FarewellNeverSent` | one datagram and one packet, with timeouts, sends that wait or fail and socket errors; each property follows one item or one silence |
| PeerManager | `NoDuplicatePeers`, `BookMatchesPeers`, `HalfAreStopped`, `ImplementsConnections` (which has in it that the list never exceeds `max_peers` and that no peer is added once `stop` has begun), `StopReturns`, `TypeOK` | four IDs for three places, a bootstrap list that repeats a node, four connections: the list fills up, an ID comes back while its old peer stops, and the loop of `stop` loses its place more than once |
| PeerManagerStop | *violation*: `StopStopsPeers` | finding 1 |
| UdpLink | `TwoDialersNeverOpen`, `OpenStays`, `NoHalfOpen`, `HandshakeHolds`, `HandshakeCompletes`, `TypeOK` | two nodes that bootstrap to each other, one of them started twice; one data packet; two faults, so a datagram of an earlier session can be late and the restart disturbed besides (183 000 states) |
| Consensus | `SealedOncePerPublication`, `SealedByQuorum`, `SealedIsFinal`, `ImplementsSealing`, `EndsOnlyByAsking`, `TypeOK` | threshold 2 and three voters, so a vote comes after sealing; two publications, so votes for the first reach the second; one request for a block, before or after it is published or sealed, so its answer may come after a second publication has reopened the entry; unlimited repetition. Voters are symmetric. A lost message is one never delivered, so safety needs no `Lose` (474 000 states) |
| ConsensusLive | `PublishedIsSealed` | two voters, as many as the threshold: every answer counts |
| BlockSync | `NumberIsBacked`, `TypeOK` | three chains of different length, so an answer can hold `None` and answers from two nodes cross; one block whose hash is an integer; one broadcast block, with and without all its keys, or the README's transaction (973 000 states) |
| BlockSyncLive | `ChunksComplete`, `QuietIsCaughtUp`, `CatchesUp`, `NumberNeverBack`, `EndsForCause`, `BroadcastsEnd` | a node with no block and one with five, three chunks; a database with gaps, since a broadcast block may come before the answer; two broadcasts, with and without all keys; integer hashes, which a broadcast block that the other node has already brings into the answer; one repeated message; either node may stop (119 000 states) |
| BlockSyncDigits | *violation*: `CatchesUp` | finding 2 |
| BlockSyncReadme | *violation*: `TransactionTaken` | finding 3 |

`ChunksComplete` is about the loop that cuts an answer into chunks, whose
condition looks inverted: nothing a node has of the range asked is missing from
its answer all the same, only repeated, and every chunk ends with the newest
block. That last part is why `NumberNeverBack` holds between two nodes although
the last block of whichever chunk comes last is "newest for now".

The bounds, all of them limits of the environment and none of the code:
`MaxArrivals`, `MaxPackets` (UdpPeer), `MaxCreated` (PeerManager), `MaxStarts`,
`MaxData`, `MaxFaults` (UdpLink), `MaxPublish`, `MaxAsk`, `MaxLost` (Consensus),
`Top` (at most 99, since `Digits` has two), `MaxCasts`, `MaxDups` (BlockSync). `Silence`
(UdpPeer) says whether time may pass without a datagram at all. The queues of the code
are unbounded, and so are those of the model.

### Fairness

* `UdpPeer`: weak fairness of `Hub`, the disjunction of all greenlets: the hub runs
  some greenlet as long as one is ready. That it picks a particular one is not
  assumed, and nothing of the remote, the application, the manager or the clock. A
  `sendto` that waits is among what is ready in the end: the socket has a timeout
  (`udpPeer.py:25`). A main loop in `wait_read` is not: nobody owes it a datagram.
* `PeerManager`: weak fairness of bootstrap, of the greenlet inside `stop`, and
  of `Removals`: a peer inside `Peer.stop` leaves the list. The last is what
  `UdpPeer!StopCompletes` establishes.
* `UdpLink`: time passes at each node; its send loop, whose waits end, gets its
  turns and its kills return; a datagram arrives or, with nobody there, is
  dropped. Loss needs no fairness; nodes need not start and applications need not
  send.
* `Consensus`: a message that stays on its way is delivered and handled, for 05
  and 07 only. The property gives up once a message is lost or a manager ends.
* `BlockSync`: every node starts; of each node, the queue of announcements (00),
  those of broadcasts (01, 02) and those of requests and answers (03, 04) are
  served as long as they hold something. The loops of `statusMgr` and `dbMgr` never
  block except in `gevent.sleep()`.

## 4. Findings

1. **Half of the peers survive `stop`** (`PeerManagerStop`,
   `udpPeerManager.py:137`). `stop` walks `self.peers`, from which `Peer.stop`
   removes the peer it has just visited. `HalfAreStopped` is what does hold: it
   stops at least half of the peers it found.
2. **Nine is more than ten** (`BlockSyncDigits`, `node.py:108`). Block numbers are
   compared as strings; two nodes with 9 and 10 blocks never exchange them.
3. **The README's transaction packet ends the receiver** (`BlockSyncReadme`,
   `node.py:187`). `dbMgr` reads both `transaction` and `transactions`.

Further behaviour of the code that the models contain and that contradicts no
document:

* The hub runs `Protocol.run` because the constructor started the handler, and
  `Peer.run` calls it again: a peer has twice `num_workers` workers of each kind.
* Two nodes that bootstrap to each other at the same time never connect: each
  refuses the hello of the other, because its own dialer is listed, and both time
  out. The README (87-90) says that such bootstrapping "will fail"; that it fails
  cleanly, without two half sessions, is `TwoDialersNeverOpen`.
* The farewell of `send_disconnect` is never sent: the remote notices the end of
  a session by its own timeout.
* When `recvfrom` fails while another greenlet stops the peer, the datagram
  before it is handled again, so data may be delivered a second time.
* A stopped peer leaves its main loop and its socket behind until a datagram comes
  in, for ever if the sender was killed inside `sendto`. `StopLeavesNobody` says that
  this is all it leaves.
* Up to two datagrams leave a peer after its stop has begun, those of a turn of the
  send loop that was waiting in the first of them (`StopIsBounded`).
* The status book does not say how a peer is: a hello that is refused because its ID
  is listed, and a late disconnect of an earlier peer of that ID, write
  "disconnected" over the entry of the one that runs. `BookMatchesPeers` says only
  that every listed ID has an entry and that an ID called "starting" is listed.
* A datagram that does not unpickle ends a receive worker for good. Data without a
  method ends the receive loop (`udpPeer.py:164`): the session goes on, pings are
  answered, and data that comes after it stays queued. `DataDelivered` makes an
  exception of it (`Deaf`).
* Among three nodes an answer can hold `None` as its last entry; the database
  manager raises after it has stored the rest and handles nothing more. Such a
  network may fail to catch up. `CatchesUp` and `EndsForCause` are therefore
  stated for two nodes.
* Among three nodes an answer from a shorter chain that arrives last takes the
  block number back (`node.py:222`), a broadcast block is passed on with an
  integer hash and ends the database manager two hops away, and a broadcast
  transaction circulates for ever. `NumberNeverBack` and `BroadcastsEnd` hold for
  two.
* The chunks overlap, so transactions of a block are applied more than once.
* A packet that lacks a key and an answer with an integer hash end the database manager
  that takes them in, the latter after it has applied transactions of blocks that it
  does not store. Between two nodes nothing else does: `EndsForCause`.
* A node that asks for a block after sealing gets an integer hash and its
  consensus manager ends; so does that of a node asked for an unknown hash.
  `EndsOnlyByAsking` says that no other message ends one: not a block that was not
  asked for, first or repeated, not a request for a block that was published, sealed
  or not, no vote however late.

## 5. Proofs

Proved with `tlapm` for every value of the constants, under the named assumptions
of the modules (`NumWorkers` at least 1, the bounds natural numbers, two `Nodes` in
`UdpLink`, finitely many of them and a `threshold` of at least 1 in `Consensus`, a
`MaxBlock` of at least 1 and at most 99 blocks in `BlockSync`). Every module's
`TypeOK` is proved first and used in all the other proofs.

**UdpPeer_proofs.** `FarewellNeverSent`, `SessionAddressed`, `DeliveredInOrder`,
`NoSilentLoss`, `StopIsBounded`, `StopLeavesNobody`, `StoppedIsLogged`,
`CarriersStay`, the action property `RemovedIsSilent` and the refinement
`ImplementsPeerLife`, for any number of workers and any traffic. None is inductive
by itself:

* `FarewellInv` adds that a disconnect packet in `sQ` or `vipbox` implies
  `is_stopped`, and that no turn of the sender holds one: a turn begins only in a peer
  that is not stopped, and the rest of one that waited or failed takes from the outbox,
  where only data is.
* `AddressInv` says what a dialer that has heard nothing cannot have: a datagram
  in its inbox, a message kept from an earlier turn, a confirm to sign, a completed
  handshake.
* `StopInv` records what has happened since `is_stopped` and what can no longer
  happen: after a late report the receiver is gone, a peer that is unlisted has no
  receiver, and what has left since leaves room for what the turn of the sender that is
  under way may still send (`RoomLeft`). The refinement rests on it.
* `OrderInv` orders the numbers in `delivered`, `rQ` and `inbox` as one line: they
  rise from the application back to the main loop, strictly as long as no stop
  has let the stale message in.
* `ReachInv` says that whatever greenlet of the peer is still alive, but for the main
  loop, is on the list of the one that kills, and that the receiver is on it as long as
  the peer is listed. So when the list is empty at most the main loop is left
  (`StopLeavesNobody`): what stands between that and `StopCompletes` is that the hub
  lets `stop` go on.
* `CarriersStay`: no datagram and no error takes the send loop or the last send worker
  from a peer that runs. This is the safety that `SilentPeerDropped` and
  `PacketsLeave` rest on; the receive workers, the receiver and the main loop have
  no such invariant, as each of them can die.

**PeerManager_proofs.** `NoDuplicatePeers`, `WithinMaxPeers`, `BookMatchesPeers`,
`HalfAreStopped`, `NoPeerOnceStopping`, `StopNeverStuck` and the refinement
`ImplementsConnections`.
The list changes only by appending an approved ID and by removing one element.
`StoppingListed` is what the book needs: a stopping peer keeps its place, so no
new peer of its ID can be "starting" when its late report is logged. `HalfInv`
counts: each running peer that the loop of `stop` has passed over (`PassedOver`) is
paid for by one that has been removed, so the two together never exceed the peers
found. `AwaitedStops` says that the peer `stop` waits for is on its way out, which
is listed because a stopping peer keeps its place; `VisitsBounded` that the loop's
index never exceeds the number of peers found. Together they are `StopNeverStuck`, the
safety half of `StopReturns`: a `stop` that waits is woken by an end that must come,
and it waits finitely often.

**UdpLink_proofs.** `TwoDialersNeverOpen`, whatever the network does. The invariant
`LinkInv` numbers the sockets by age. A confirm goes from a younger socket to an
older one, since it answers a hello that was sent before; nobody can address a
socket whose confirm is still queued; hence a dialer that is open is older than
the peer of the other node, which cannot hold of both.

The two action properties of undisturbed sessions, `OpenStays` and `HandshakeHolds`, are
proved for any number of starts, restarts and packets; only `faults` has to stay 0.
The packets of a handshake are identified by the socket of the dialer, which a hello
carries as its source and a confirm as its destination.

* `OnceInv`: whatever begins a session - a hello on its way, an acceptor whose confirm
  is queued, a confirm on its way - is the only thing that does for its dialer, and
  the dialer is not open yet. An open peer is therefore sent no hello and no second
  confirm, the only packets that would stop it: `OpenStays`.
* `TrackInv` says, of each of these stages, who waits for what: the dialer of a hello is
  running, has been quiet for no time at all, and has been told to nobody but the
  other's listener; the dialer of a confirm is sent nothing before it, and its
  acceptor runs and keeps its socket. So nothing overtakes, refuses or times out a
  handshake that has begun, and each step of it leads to the next: hello queued,
  hello on its way, confirm queued, confirm on its way, both ends open. This is
  `HandshakeHolds`; `HandshakeCompletes` adds only that packets that can be sent are
  sent and that datagrams on their way arrive.

**Consensus_proofs.** `SealedOncePerPublication`, `SealedByQuorum`, the action
properties `SealedIsFinal` and `EndsOnlyByAsking`, and the refinement
`ImplementsSealing`. `VotesInv` says that an entry not sealed yet has a publication
left to be sealed for, that its voters have signed and are distinct (as many as
the list is long), and that the sender of every vote on its way has signed. The
quorum then follows by cardinality, hence the finiteness of `Nodes`. `AskedFor` says
that a published block stays in `temp`, that one which is agreed has been stored, that
every request was made, and that a block with an integer hash answers a request to a
node that has stored it, also if a second publication has reopened its entry since.

`NoVoteForgotten` says that, as long as nothing is lost and no manager has ended, each node a
block was put to and whose vote is not counted has the block or the vote on its way. It
is inductive together with `VotesInv`, although votes may be for an earlier
publication of the same hash. `QuietIsSealed` follows: when no message is left a block
with enough voters in the network is sealed. It is the safety half of
`PublishedIsSealed`; fairness adds only that the messages run out.

**BlockSync_proofs.** `NumberIsBacked` and `ChunksComplete` for any nodes; the action
properties `NumberNeverBack`, `EndsForCause` and `OnlyCastsSend` between two. With `TypeOK`, which
knows that no answer is empty and that its entries are numbers or `None`,
`NumberIsBacked` is inductive: `RecvBlocks` takes the number from an entry that
`updateBlkTrans` has just stored and applied, and databases only grow. That chunks
are never empty (`ChunkTypes`) is where the assumption on `MaxBlock` enters.
`PairInv` says what two nodes know of each other: a request was made by the one
that is behind, for blocks the other has, so no answer holds `None` or ends below
the number of the node that gets it. `EndsForCause` needs `HashInv` besides: a block on
its way has a hex hash, since the only peer it could be passed on to with an integer
one is its sender, and an answer has an integer hash only if the database returns it.

`QuietIsCaughtUp` is the safety half of `CatchesUp`: between two nodes that both started and
whose managers run, when no announcement, request or answer is left, both have all
blocks of either. Its hypothesis `Comparable` is that the comparison of strings
agrees with that of numbers, as it does for any two numbers of as many digits
(`SameDigits`) and does not for 9 and 10 (finding 2). `CatchInv` says that
until the lower node has every block or an answer with all it lacks is on its way
(`Filled`), an announcement that will make it ask or be answered, or a request for
the whole range, is on its way (`Awaited`); and that its number does not move before
that, so that no request asks for less.

`OnlyCastsSend` is the half of `BroadcastsEnd` that is not about fairness: between two
nodes only the application puts a block or a transaction on the network; taking one
never sends another. It
follows from `PairInv`: the sender of a message is not its receiver, hence the only
peer it could be passed on to. No run lists it, since
an echo of broadcasts is what makes `BroadcastsEnd` fail too; it was checked with TLC
at the bounds of BlockSyncLive before it was proved.

Model-checked only: the liveness properties themselves (`StopCompletes`,
`SilentPeerDropped`, `PacketsLeave`, `DataDelivered`, `StopReturns`, `NoHalfOpen`,
`HandshakeCompletes`, `PublishedIsSealed`, `CatchesUp`, `BroadcastsEnd`), because
fairness is out of the prover's reach. Of most of them the half that is not about
fairness is proved, as said above: `StopLeavesNobody` for `StopCompletes`,
`CarriersStay` for `SilentPeerDropped` and `PacketsLeave`, `StopNeverStuck` for
`StopReturns`, `HandshakeHolds` for `HandshakeCompletes`, `QuietIsSealed` for
`PublishedIsSealed`, `QuietIsCaughtUp` for `CatchesUp`, `OnlyCastsSend` for
`BroadcastsEnd`; `NoSilentLoss` says as much for `DataDelivered`. No such half is proved
for `NoHalfOpen`. The properties of the runs that are expected to fail are not theorems, of course.

## 6. Not modelled

* The TCP peer and manager, the predecessors of the UDP code. They build
  `p2p.Packet` with two arguments where the class takes at least three, and read
  `control_code` where it has `ctrl_code`: `start_peer` raises `TypeError` at the
  hello of the first connection, and no step of their protocol can be reached.
* `Packet` and `crypto`: pure functions over libraries; `verify` answers False
  rather than raise, so `recv_worker` has no failure of its own but unpickling.
* `core.database`, `core.block`, `trie` are not part of the repository. The model
  relies on `getBlockByID` returning a block or `None` whether the number comes
  as an integer (`statusMgr`) or a string (`dbMgr`), and on `createBlock` storing
  the blocks it gets; it does not assume how hashes come back (`AsStored`).
* Nodes of different genesis hash ignore each other's status (`node.py:107`); all nodes
  of `BlockSync` share one, and their chains have fewer than 100 blocks.
* A second call of `PeerManager.stop` while the first is under way, which would walk
  the list of peers once more.
* Loss in `BlockSync`, where nothing is ever sent again: a lost announcement
  simply leaves a node behind.
* The node's life cycle is modelled where its managers are: `Start` and `Stop` of
  `BlockSync`, `Stop` of `Consensus`. That `Node.stop` ends with the stop of the
  peer manager is left to `PeerManager`.
* The test drivers, and `getBlockHashes`, `getBlocks`, `getTrans`, which nothing
  calls.

## 7. Plan

The order followed the importance of the behaviour: the peer, on which everything
rests; the manager, which relies on what was found about a stopping peer; the two
protocols of the node; then the sessions of two nodes, and the abstract
specifications that join the layers. What is left, in this order:

1. `NodeLife`: `Node.start` and `Node.stop` with the loops of the three managers
   and `PeerManager.state` in one module.
2. What does hold of synchronisation among three nodes: that a number that goes
   back comes forward again as long as no database manager ends.
3. The safety half of `NoHalfOpen`: what is half open hears nothing that would renew
   its contact.
4. What the abstract specifications promise, proved of them rather than of the modules
   that implement them.
5. The TCP files, should they be repaired.
