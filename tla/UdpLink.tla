-------------------------------- MODULE UdpLink --------------------------------
(***************************************************************************)
(* Two nodes whose peer managers make sessions with each other: hello to   *)
(* the other's listening address, confirm from a socket of the session's   *)
(* own, pings, data and timeouts, over a network that loses, repeats,      *)
(* delays and reorders datagrams, while nodes stop and start again.        *)
(*                                                                         *)
(* It composes, at both ends, what UdpPeer and PeerManager model of one:   *)
(* the workers, queues and loops of a peer are one FIFO of packets to send *)
(* and one step per datagram taken in.  A peer that stops is listed until  *)
(* its greenlets are killed.  No disconnect packet is ever sent            *)
(* (UdpPeer!FarewellNeverSent), so there is none here.                     *)
(***************************************************************************)
EXTENDS Naturals, Sequences, SequencesExt

CONSTANTS
    Nodes,          \* the two nodes
    Bootstraps,     \* those with the other in configs['p2p']['bootstrap_nodes']
    MaxStarts,      \* bound: how often each node is started
    MaxData,        \* bound: packets the applications send
    MaxFaults       \* bound: what network and nodes do wrong, all kinds together

ASSUME NodesAssumption == \E a, b \in Nodes : a # b /\ Nodes = {a, b}
ASSUME BootstrapsAssumption == Bootstraps \subseteq Nodes
ASSUME BoundsAssumption == {MaxData, MaxFaults} \subseteq Nat
ASSUME StartsAssumption == MaxStarts \in [Nodes -> Nat]

VARIABLES
    up,             \* the peer manager of a node is STARTED
    peer,           \* the peer a node has for the other, if any
    net,            \* datagrams on their way, oldest first
    socks,          \* sockets made so far; each gets a number of its own
    faults,         \* datagrams lost, repeated, overtaken or late, sends that
                    \* failed and processes that ended
    starts, data    \* counters for the bounds

counters == <<starts, data>>
vars == <<up, peer, net, socks, faults, counters>>

Other(n) == CHOOSE m \in Nodes : m # n

\* The address of the DatagramServer; the sockets of peers are 1, 2, ...
Listener == 0

\* role: made by make_connection or by _new_conn.  to: Peer.peerAddr.  open:
\* Protocol.hello_received.  out: packets queued to be sent.
NoPeer == [role |-> "none", sock |-> 0, to |-> 0, open |-> FALSE, pinged |-> FALSE,
           contact |-> "recent", stopped |-> FALSE, out |-> <<>>]
NewPeer(role, sock, to, packet) ==
    [NoPeer EXCEPT !.role = role, !.sock = sock, !.to = to, !.out = <<packet>>]

Listed(n) == peer[n].role # "none"
Running(n) == Listed(n) /\ ~peer[n].stopped

Datagram(ctrl, n, from, to) == [ctrl |-> ctrl, at |-> Other(n), from |-> from, to |-> to]

Init ==
    /\ up = [n \in Nodes |-> FALSE]
    /\ peer = [n \in Nodes |-> NoPeer]
    /\ net = <<>> /\ socks = 0 /\ faults = 0
    /\ starts = [n \in Nodes |-> 0] /\ data = 0

Faults(k) == faults + k <= MaxFaults /\ faults' = faults + k

------------------------------------------------------------------------------
(* The peer managers *)

\* PeerManager.start: open the server and bootstrap, without a yield between.
Start(n) ==
    /\ ~up[n] /\ starts[n] < MaxStarts[n]
    /\ up' = [up EXCEPT ![n] = TRUE]
    /\ starts' = [starts EXCEPT ![n] = @ + 1]
    /\ IF n \in Bootstraps
       THEN /\ socks' = socks + 1
            /\ peer' = [peer EXCEPT ![n] = NewPeer("dialer", socks', Listener, "hello")]
       ELSE UNCHANGED <<socks, peer>>
    /\ UNCHANGED <<net, faults, data>>

\* Mutant of Down: the peers are not stopped.
DownKeepsPeer(n) ==
    /\ up[n]
    /\ up' = [up EXCEPT ![n] = FALSE]
    /\ Faults(1)
    /\ UNCHANGED <<peer, net, socks, counters>>

\* The process ends, after PeerManager.stop or without it.
Down(n) ==
    /\ up[n]
    /\ up' = [up EXCEPT ![n] = FALSE]
    /\ peer' = [peer EXCEPT ![n] = NoPeer]
    /\ Faults(1)
    /\ UNCHANGED <<net, socks, counters>>

\* pm.send and pm.broadcast reach a peer that is listed, open or not.
SendData(n) ==
    /\ up[n] /\ Listed(n) /\ data < MaxData
    /\ data' = data + 1
    /\ peer' = [peer EXCEPT ![n].out = Append(@, "data")]
    /\ UNCHANGED <<up, net, socks, faults, starts>>

------------------------------------------------------------------------------
(* The send loop of the peer of n *)

Stop(n) == peer' = [peer EXCEPT ![n].stopped = TRUE]

\* The greenlets have been killed and peers.remove is reached.
Unlist(n) ==
    /\ Listed(n) /\ peer[n].stopped
    /\ peer' = [peer EXCEPT ![n] = NoPeer]
    /\ UNCHANGED <<up, net, socks, faults, counters>>

\* Mutant of TimedOut: a session that is open is given more time.
TimedOutUnlessOpen(n) == peer[n].contact = "lost" /\ ~peer[n].open

TimedOut(n) == peer[n].contact = "lost"

Timeout(n) ==
    /\ Running(n) /\ TimedOut(n)
    /\ Stop(n)
    /\ UNCHANGED <<up, net, socks, faults, counters>>

Ping(n) ==
    /\ Running(n) /\ peer[n].contact = "quiet" /\ ~peer[n].pinged
    /\ peer' = [peer EXCEPT ![n].pinged = TRUE, ![n].out = Append(@, "ping")]
    /\ UNCHANGED <<up, net, socks, faults, counters>>

Idle(n) ==
    /\ Running(n) /\ peer[n].out # <<>>
    /\ peer[n].contact = "recent" \/ (peer[n].contact = "quiet" /\ peer[n].pinged)

\* The head of the queue goes to peerAddr as it is now.  The worker that builds
\* a confirm sets hello_received.
Send(n) ==
    /\ Idle(n)
    /\ LET p == peer[n]
       IN /\ net' = Append(net, Datagram(Head(p.out), n, p.sock, p.to))
          /\ peer' = [peer EXCEPT ![n].out = Tail(@),
                                  ![n].open = @ \/ Head(p.out) = "confirm"]
    /\ UNCHANGED <<up, socks, faults, counters>>

\* sendto fails: report and stop.
SendFails(n) ==
    /\ Idle(n)
    /\ Stop(n)
    /\ Faults(1)
    /\ UNCHANGED <<up, net, socks, counters>>

------------------------------------------------------------------------------
(* The network *)

\* A datagram that is waited for: one on its way, or in the queue of a peer.
Pending == net # <<>> \/ \E n \in Nodes : Running(n) /\ peer[n].out # <<>>

\* Time passes at the peer of n: beyond ping_interval, then beyond timeout.
Tick(n) ==
    /\ Running(n) /\ peer[n].contact # "lost"
    /\ Faults(IF Pending THEN 1 ELSE 0)
    /\ peer' = [peer EXCEPT ![n].contact = IF @ = "recent" THEN "quiet" ELSE "lost"]
    /\ UNCHANGED <<up, net, socks, counters>>

\* An older datagram of the same socket is overtaken.
Overtakes(i) == \E j \in 1..(i - 1) : net[j].from = net[i].from

\* Datagram i is taken off the network, unless it is delivered once more.
Arrives(i, dup) ==
    /\ Faults((IF dup THEN 1 ELSE 0) + (IF Overtakes(i) THEN 1 ELSE 0))
    /\ net' = IF dup THEN net ELSE RemoveAt(net, i)

Lose(i) ==
    /\ net' = RemoveAt(net, i)
    /\ Faults(1)
    /\ UNCHANGED <<up, peer, socks, counters>>

------------------------------------------------------------------------------
(* Datagrams at a listening address: PeerManager._new_conn *)

AtListener(i, dup) == net[i].to = Listener /\ Arrives(i, dup)

\* Mutant of NewSession: the answer is queued twice.
NewSessionTwice(n, from) ==
    /\ socks' = socks + 1
    /\ peer' = [peer EXCEPT ![n] =
         [NewPeer("acceptor", socks', from, "confirm") EXCEPT !.out = <<"confirm", "confirm">>]]

\* Mutant of NewSession: the answer goes to the listening address.
NewSessionToListener(n, from) ==
    /\ socks' = socks + 1
    /\ peer' = [peer EXCEPT ![n] = NewPeer("acceptor", socks', Listener, "confirm")]

NewSession(n, from) ==
    /\ socks' = socks + 1
    /\ peer' = [peer EXCEPT ![n] = NewPeer("acceptor", socks', from, "confirm")]

\* approve_connection: no peer of that ID is listed.
Free(n) == ~Listed(n)

Accept(i, dup) ==
    LET n == net[i].at
    IN /\ AtListener(i, dup) /\ up[n] /\ net[i].ctrl = "hello" /\ Free(n)
       /\ NewSession(n, net[i].from)
       /\ UNCHANGED <<up, counters>>

\* Mutant of Refuse: a node that dials answers, on the session it has begun.
RefuseUnlessDialing(i, dup) ==
    LET n == net[i].at
    IN /\ AtListener(i, dup) /\ up[n] /\ (net[i].ctrl # "hello" \/ ~Free(n))
       /\ peer' = IF peer[n].role = "dialer"
                  THEN [peer EXCEPT ![n].to = net[i].from, ![n].out = Append(@, "confirm")]
                  ELSE peer
       /\ UNCHANGED <<up, socks, counters>>

\* A hello that finds a peer is refused, without a word (its peer is stopped
\* before it runs); anything else raises out of the handler.
Refuse(i, dup) ==
    LET n == net[i].at
    IN /\ AtListener(i, dup) /\ up[n] /\ (net[i].ctrl # "hello" \/ ~Free(n))
       /\ UNCHANGED <<up, peer, socks, counters>>

\* Nobody is there: the node is down, or the socket is not of a running peer.
Nobody(i) ==
    LET n == net[i].at
    IN IF net[i].to = Listener THEN ~up[n]
       ELSE ~(Running(n) /\ peer[n].sock = net[i].to)

Drop(i) ==
    /\ Nobody(i)
    /\ net' = RemoveAt(net, i)
    /\ UNCHANGED <<up, peer, socks, faults, counters>>

------------------------------------------------------------------------------
(* Datagrams at the socket of a peer: Peer.run, recv_worker, recv_loop *)

\* The peer p after the main loop has taken a datagram from socket from.
Heard(p, from) == [p EXCEPT !.to = from, !.contact = "recent", !.pinged = FALSE]

\* ... and after a worker and the receiver have handled it: what comes out of
\* turn is reported, which stops the peer.
Handled(p, ctrl) ==
    CASE ctrl = "confirm" /\ ~p.open -> [p EXCEPT !.open = TRUE]
      [] ctrl = "ping" /\ p.open -> [p EXCEPT !.out = Append(@, "pong")]
      [] ctrl = "pong" -> p
      [] ctrl = "data" /\ p.open -> p
      [] OTHER -> [p EXCEPT !.stopped = TRUE]

Receive(i, dup) ==
    LET m == net[i]
        n == m.at
    IN /\ m.to # Listener /\ ~Nobody(i)
       /\ Arrives(i, dup)
       /\ peer' = [peer EXCEPT ![n] = Handled(Heard(@, m.from), m.ctrl)]
       /\ UNCHANGED <<up, socks, counters>>

------------------------------------------------------------------------------
Delivery(i, dup) == Accept(i, dup) \/ Refuse(i, dup) \/ Receive(i, dup)

Next ==
    \/ \E n \in Nodes :
          \/ Start(n) \/ Down(n) \/ SendData(n)
          \/ Unlist(n) \/ Timeout(n) \/ Ping(n) \/ Send(n) \/ SendFails(n)
          \/ Tick(n)
    \/ \E i \in DOMAIN net :
          \/ \E dup \in BOOLEAN : Delivery(i, dup)
          \/ Drop(i)
          \/ Lose(i)

Spec == Init /\ [][Next]_vars

\* Time passes; the send loop, whose waits end, gets its turns and kills
\* return; a datagram arrives or is lost.  Nodes need not start, and nothing is
\* assumed of the applications.
Fairness ==
    /\ \A n \in Nodes :
          /\ WF_vars(Tick(n))
          /\ WF_vars(Unlist(n) \/ Timeout(n) \/ Ping(n) \/ Send(n))
    /\ WF_vars(\E i \in DOMAIN net : Delivery(i, FALSE) \/ Drop(i))
FairSpec == Spec /\ Fairness

------------------------------------------------------------------------------
(* Properties *)

Ctrl == {"hello", "confirm", "ping", "pong", "data"}
Peer == [role : {"none", "dialer", "acceptor"}, sock : Nat, to : Nat,
         open : BOOLEAN, pinged : BOOLEAN, contact : {"recent", "quiet", "lost"},
         stopped : BOOLEAN, out : Seq(Ctrl)]
DatagramType == [ctrl : Ctrl, at : Nodes, from : Nat, to : Nat]

TypeOK ==
    /\ up \in [Nodes -> BOOLEAN]
    /\ peer \in [Nodes -> Peer]
    /\ net \in Seq(DatagramType)
    /\ socks \in Nat /\ faults \in 0..MaxFaults
    /\ starts \in [Nodes -> Nat] /\ data \in Nat
    /\ \A n \in Nodes : Listed(n) => up[n] /\ peer[n].sock \in 1..socks

\* Two nodes that bootstrap to each other never end up with two sessions of which
\* each holds one end, the other end being refused: their two dialers are never
\* both open, whatever is delayed from earlier sessions (README.md:87-90 says of
\* such a configuration that it "will fail").
TwoDialersNeverOpen ==
    ~ \A n \in Nodes : peer[n].role = "dialer" /\ peer[n].open

\* As long as network and nodes are well-behaved, an open session is not torn down
\* by the traffic of the two ends, only by silence (udpProtocol.py:86-131 ends it
\* for any packet out of turn).
OpenStays ==
    [][\A n \in Nodes :
          Running(n) /\ peer[n].open /\ faults' = 0 =>
            (Running(n))' \/ peer[n].contact = "lost"]_vars

\* The two ends of one session.
Linked ==
    \A n \in Nodes :
        Running(n) /\ peer[n].open /\ peer[n].to = peer[Other(n)].sock

\* No half-open session: a peer that is listed becomes one end of a session with
\* the peer at the other node, or is removed.
NoHalfOpen == \A n \in Nodes : Listed(n) ~> (Linked \/ ~Listed(n))

\* A hello to a node that is up and has no peer makes a session, unless network or
\* nodes misbehave.
Dials(n) ==
    /\ Running(n) /\ peer[n].role = "dialer" /\ Head(peer[n].out \o <<"">>) = "hello"
    /\ up[Other(n)] /\ ~Listed(Other(n))
HandshakeCompletes == \A n \in Nodes : Dials(n) ~> (Linked \/ faults > 0)

\* A session is being made for the dialer of n: the hello is queued or on its way to
\* a node that is up and has no peer, or the answer to it is.
Queued(s, c) == \E j \in DOMAIN s : s[j] = c
Begun(n) ==
    LET m == Other(n)
    IN /\ Running(n) /\ peer[n].role = "dialer" /\ up[m]
       /\ \/ /\ ~Listed(m)
             /\ \/ Queued(peer[n].out, "hello")
                \/ \E i \in DOMAIN net :
                      net[i].ctrl = "hello" /\ net[i].from = peer[n].sock
          \/ /\ Running(m) /\ peer[m].to = peer[n].sock
             /\ \/ Queued(peer[m].out, "confirm")
                \/ \E i \in DOMAIN net :
                      net[i].ctrl = "confirm" /\ net[i].to = peer[n].sock

\* A handshake is never forgotten half-way: whatever the two nodes do meanwhile, the
\* packet that is to complete it stays queued or on its way until both ends have
\* the session, unless network or nodes misbehave (udpPeerManager.py:50-67,
\* udpProtocol.py:86-107).
HandshakeHolds ==
    [][\A n \in Nodes : Begun(n) /\ faults' = 0 => (Begun(n) \/ Linked)']_vars
==============================================================================
