---------------------------- MODULE UdpLink_proofs ----------------------------
(***************************************************************************)
(* Proofs about UdpLink, for any number of starts, packets and faults.     *)
(* TypeOK comes first; the invariant of the handshake is relative to it.   *)
(***************************************************************************)
EXTENDS UdpLink, SequenceTheorems, TLAPS

------------------------------------------------------------------------------
(* Two nodes, queues and datagrams *)

LEMMA TheOther ==
    ASSUME NEW n \in Nodes
    PROVE  /\ Other(n) \in Nodes /\ Other(n) # n
           /\ \A m \in Nodes : m = n \/ m = Other(n)
           /\ Other(Other(n)) = n
<1>1. \E m \in Nodes : m # n
  BY NodesAssumption
<1>2. Other(n) \in Nodes /\ Other(n) # n
  BY <1>1 DEF Other
<1>3. \A m \in Nodes : m = n \/ m = Other(n)
  BY <1>2, NodesAssumption
<1>4. Other(Other(n)) \in Nodes /\ Other(Other(n)) # Other(n)
  BY <1>2 DEF Other
<1> QED
  BY <1>2, <1>3, <1>4

\* The queue without its element i.
LEMMA RemovedAt ==
    ASSUME NEW S, NEW s \in Seq(S), NEW i \in DOMAIN s
    PROVE  /\ RemoveAt(s, i) \in Seq(S) /\ DOMAIN RemoveAt(s, i) = 1..(Len(s) - 1)
           /\ DOMAIN s = 1..Len(s) /\ Len(s) \in Nat
           /\ \A j \in 1..(Len(s) - 1) :
                 RemoveAt(s, i)[j] = s[IF j < i THEN j ELSE j + 1]
<1> DEFINE pre == SubSeq(s, 1, i - 1)
           post == SubSeq(s, i + 1, Len(s))
<1>1. /\ i \in 1..Len(s) /\ i - 1 \in Int /\ i + 1 \in Int
      /\ Len(s) \in Nat /\ 1 \in Int
      /\ \A j \in 1..(i - 1) : s[j] \in S
      /\ \A j \in (i + 1)..Len(s) : s[j] \in S
  OBVIOUS
<1>2. /\ pre \in Seq(S) /\ Len(pre) = i - 1
      /\ \A j \in 1..(i - 1) : pre[j] = s[j]
<2>1. /\ pre \in Seq(S)
      /\ Len(pre) = (IF 1 <= i - 1 THEN (i - 1) - 1 + 1 ELSE 0)
      /\ \A j \in 1..((i - 1) - 1 + 1) : pre[j] = s[1 + j - 1]
  BY <1>1, SubSeqProperties
<2> QED
  BY <2>1, <1>1
<1>3. /\ post \in Seq(S) /\ Len(post) = Len(s) - i
      /\ \A j \in 1..(Len(s) - i) : post[j] = s[i + j]
<2>1. /\ post \in Seq(S)
      /\ Len(post) = (IF i + 1 <= Len(s) THEN Len(s) - (i + 1) + 1 ELSE 0)
      /\ \A j \in 1..(Len(s) - (i + 1) + 1) : post[j] = s[(i + 1) + j - 1]
  BY <1>1, SubSeqProperties
<2> QED
  BY <2>1, <1>1
<1>4. RemoveAt(s, i) = pre \o post
  BY DEF RemoveAt
<1> HIDE DEF pre, post
<1>5. /\ pre \o post \in Seq(S)
      /\ Len(pre \o post) = Len(pre) + Len(post)
      /\ \A j \in 1..(Len(pre) + Len(post)) :
            (pre \o post)[j] = IF j <= Len(pre) THEN pre[j] ELSE post[j - Len(pre)]
  BY <1>2, <1>3, ConcatProperties
<1>6. DOMAIN (pre \o post) = 1..(Len(s) - 1) /\ DOMAIN s = 1..Len(s)
<2>1. DOMAIN (pre \o post) = 1..Len(pre \o post)
  BY <1>5
<2> QED
  BY <2>1, <1>1, <1>2, <1>3, <1>5
<1>7. ASSUME NEW j \in 1..(Len(s) - 1)
      PROVE  (pre \o post)[j] = s[IF j < i THEN j ELSE j + 1]
<2>1. j \in 1..(Len(pre) + Len(post))
  BY <1>1, <1>2, <1>3
<2>2. CASE j < i
  <3>1. (pre \o post)[j] = pre[j] /\ j \in 1..(i - 1)
    BY <1>1, <1>2, <1>5, <2>1, <2>2
  <3> QED
    BY <1>2, <2>2, <3>1
<2>3. CASE ~(j < i)
  <3>0. ~(j <= i - 1) /\ Len(pre) = i - 1
    BY <1>1, <1>2, <2>3
  <3>1. (pre \o post)[j] = post[j - (i - 1)]
    BY <1>5, <2>1, <3>0
  <3>2. j - (i - 1) \in 1..(Len(s) - i) /\ i + (j - (i - 1)) = j + 1
    BY <1>1, <2>3
  <3>3. post[j - (i - 1)] = s[i + (j - (i - 1))]
    BY <1>3, <3>2
  <3> QED
    BY <2>3, <3>1, <3>2, <3>3
<2> QED
  BY <2>2, <2>3
<1> QED
  BY <1>1, <1>4, <1>5, <1>6, <1>7

\* Taking a datagram off the network adds none.
LEMMA Removed ==
    ASSUME NEW S, NEW s \in Seq(S), NEW i \in DOMAIN s
    PROVE  RemoveAt(s, i) \in Seq(S) /\ Range(RemoveAt(s, i)) \subseteq Range(s)
<1>1. ASSUME NEW j \in DOMAIN RemoveAt(s, i)
      PROVE  \E l \in DOMAIN s : RemoveAt(s, i)[j] = s[l]
  <2>1. j \in 1..(Len(s) - 1) /\ i \in 1..Len(s) /\ Len(s) \in Nat
    BY RemovedAt
  <2>2. (IF j < i THEN j ELSE j + 1) \in DOMAIN s
    BY <2>1
  <2> QED
    BY <2>1, <2>2, RemovedAt
<1> QED
  BY <1>1, RemovedAt DEF Range

LEMMA Appended ==
    ASSUME NEW S, NEW s \in Seq(S), NEW e \in S
    PROVE  Append(s, e) \in Seq(S) /\ Range(Append(s, e)) = Range(s) \cup {e}
<1>1. /\ Append(s, e) \in Seq(S) /\ Len(Append(s, e)) = Len(s) + 1
      /\ \A i \in 1..Len(s) : Append(s, e)[i] = s[i]
      /\ Append(s, e)[Len(s) + 1] = e
      /\ Len(s) \in Nat
  BY AppendProperties
<1>2. DOMAIN Append(s, e) = 1..(Len(s) + 1) /\ DOMAIN s = 1..Len(s)
  BY <1>1
<1> QED
  BY <1>1, <1>2 DEF Range

LEMMA InRange ==
    ASSUME NEW S, NEW s \in Seq(S)
    PROVE  /\ Range(s) \subseteq S
           /\ \A i \in DOMAIN s : s[i] \in Range(s) /\ s[i] \in S
  BY DEF Range

\* The queue of a new peer.
LEMMA OnePacket ==
    ASSUME NEW c \in Ctrl
    PROVE  <<c>> \in Seq(Ctrl) /\ <<>> \in Seq(Ctrl)
  OBVIOUS

LEMMA NoPeerType == NoPeer \in Peer
<1>1. <<>> \in Seq(Ctrl)
  OBVIOUS
<1> QED
  BY <1>1 DEF NoPeer, Peer

LEMMA NewPeerType ==
    ASSUME NEW role \in {"dialer", "acceptor"}, NEW sock \in Nat, NEW to \in Nat,
           NEW c \in Ctrl
    PROVE  LET q == NewPeer(role, sock, to, c)
           IN /\ q \in Peer /\ q.role = role /\ q.sock = sock /\ q.to = to
              /\ ~q.open /\ q.out = <<c>>
<1>1. <<c>> \in Seq(Ctrl)
  BY OnePacket
<1> QED
  BY <1>1, NoPeerType DEF NewPeer, NoPeer, Peer

\* What handling a datagram does to a peer.
LEMMA HandledType ==
    ASSUME NEW p \in Peer, NEW from \in Nat, NEW c \in Ctrl
    PROVE  LET q == Handled(Heard(p, from), c)
           IN /\ q \in Peer /\ q.role = p.role /\ q.sock = p.sock /\ q.to = from
              /\ q.open = p.open \/ c = "confirm"
              /\ q.out = p.out \/ q.out = Append(p.out, "pong")
<1> DEFINE h == Heard(p, from)
<1>1. /\ h \in Peer /\ h.role = p.role /\ h.sock = p.sock /\ h.to = from
      /\ h.open = p.open /\ h.out = p.out
  BY DEF Heard, Peer
<1> HIDE DEF h
<1>2. Append(p.out, "pong") \in Seq(Ctrl)
  BY AppendProperties DEF Peer, Ctrl
<1>3. \/ Handled(h, c) = [h EXCEPT !.open = TRUE] /\ c = "confirm"
      \/ Handled(h, c) = [h EXCEPT !.out = Append(@, "pong")]
      \/ Handled(h, c) = h
      \/ Handled(h, c) = [h EXCEPT !.stopped = TRUE]
  BY DEF Handled
<1>4. CASE Handled(h, c) = [h EXCEPT !.open = TRUE] /\ c = "confirm"
  BY <1>1, <1>4 DEF h, Peer
<1>5. CASE Handled(h, c) = [h EXCEPT !.out = Append(@, "pong")]
  BY <1>1, <1>2, <1>5 DEF h, Peer
<1>6. CASE Handled(h, c) = h
  BY <1>1, <1>6 DEF h
<1>7. CASE Handled(h, c) = [h EXCEPT !.stopped = TRUE]
  BY <1>1, <1>7 DEF h, Peer
<1> QED
  BY <1>3, <1>4, <1>5, <1>6, <1>7

LEMMA HandledKeeps ==
    ASSUME NEW p \in Peer, NEW from \in Nat, NEW c \in Ctrl
    PROVE  /\ Handled(Heard(p, from), c) \in Peer
           /\ Handled(Heard(p, from), c).role = p.role
           /\ Handled(Heard(p, from), c).sock = p.sock
           /\ Handled(Heard(p, from), c).to = from
  BY HandledType

------------------------------------------------------------------------------
(* Type correctness *)

\* The part of TypeOK that relates variables.
Lists(u, P, k) == \A n \in Nodes : P[n].role # "none" => u[n] /\ P[n].sock \in 1..k

LEMMA TypeParts ==
    TypeOK => /\ up \in [Nodes -> BOOLEAN] /\ peer \in [Nodes -> Peer]
              /\ net \in Seq(DatagramType)
              /\ socks \in Nat /\ faults \in 0..MaxFaults
              /\ starts \in [Nodes -> Nat] /\ data \in Nat
              /\ Lists(up, peer, socks)
  BY DEF TypeOK, Lists, Listed

LEMMA TypePartsNext ==
    /\ up' \in [Nodes -> BOOLEAN] /\ peer' \in [Nodes -> Peer]
    /\ net' \in Seq(DatagramType)
    /\ socks' \in Nat /\ faults' \in 0..MaxFaults
    /\ starts' \in [Nodes -> Nat] /\ data' \in Nat
    /\ Lists(up', peer', socks')
    => TypeOK'
  BY DEF TypeOK, Lists, Listed

\* A peer that is replaced by one that keeps its socket.
LEMMA ListsKeep ==
    ASSUME NEW u, NEW P \in [Nodes -> Peer], NEW k, Lists(u, P, k),
           NEW n \in Nodes, NEW q \in Peer,
           q.role = P[n].role /\ q.sock = P[n].sock
    PROVE  LET P2 == [P EXCEPT ![n] = q]
           IN P2 \in [Nodes -> Peer] /\ Lists(u, P2, k)
  BY DEF Lists

\* A peer that is removed, on a node that may go down.
LEMMA ListsLeave ==
    ASSUME NEW u \in [Nodes -> BOOLEAN], NEW P \in [Nodes -> Peer], NEW k,
           Lists(u, P, k), NEW n \in Nodes, NEW b \in BOOLEAN
    PROVE  LET P2 == [P EXCEPT ![n] = NoPeer]
           IN /\ P2 \in [Nodes -> Peer]
              /\ Lists(u, P2, k) /\ Lists([u EXCEPT ![n] = b], P2, k)
<1>1. NoPeer.role = "none"
  BY DEF NoPeer
<1> QED
  BY <1>1, NoPeerType DEF Lists

\* A peer that is made, on a node that is up.
LEMMA ListsJoin ==
    ASSUME NEW u \in [Nodes -> BOOLEAN], NEW P \in [Nodes -> Peer], NEW k \in Nat,
           Lists(u, P, k), NEW n \in Nodes, u[n], NEW q \in Peer, q.sock = k + 1
    PROVE  LET P2 == [P EXCEPT ![n] = q]
           IN P2 \in [Nodes -> Peer] /\ Lists(u, P2, k + 1)
  BY DEF Lists

LEMMA TypeInit == Init => TypeOK
<1> SUFFICES ASSUME Init PROVE TypeOK
  OBVIOUS
<1>1. peer \in [Nodes -> Peer] /\ \A n \in Nodes : ~Listed(n)
  BY NoPeerType DEF Init, Listed, NoPeer
<1>2. net \in Seq(DatagramType)
  BY EmptySeq DEF Init
<1>3. faults \in 0..MaxFaults
  BY BoundsAssumption DEF Init
<1> QED
  BY <1>1, <1>2, <1>3 DEF Init, TypeOK

LEMMA FaultsType ==
    ASSUME faults \in 0..MaxFaults, NEW k \in 0..2, Faults(k)
    PROVE  faults' \in 0..MaxFaults
  BY BoundsAssumption DEF Faults

LEMMA ArrivesType ==
    ASSUME TypeOK, NEW i \in DOMAIN net, NEW dup \in BOOLEAN, Arrives(i, dup)
    PROVE  /\ faults' \in 0..MaxFaults
           /\ net' \in Seq(DatagramType) /\ Range(net') \subseteq Range(net)
           /\ net[i] \in DatagramType /\ net[i] \in Range(net)
<1>1. net \in Seq(DatagramType) /\ faults \in 0..MaxFaults
  BY DEF TypeOK
<1>2. faults' \in 0..MaxFaults
  BY <1>1, FaultsType DEF Arrives
<1>3. RemoveAt(net, i) \in Seq(DatagramType) /\ Range(RemoveAt(net, i)) \subseteq Range(net)
  BY <1>1, Removed
<1>4. net[i] \in DatagramType /\ net[i] \in Range(net)
  BY <1>1, InRange
<1>5. net' = net \/ net' = RemoveAt(net, i)
  BY DEF Arrives
<1> QED
  BY <1>1, <1>2, <1>3, <1>4, <1>5

\* What the actions of the send loop and the clock do to a peer.
Kept(n) ==
    \E q \in Peer :
        /\ peer' = [peer EXCEPT ![n] = q]
        /\ q.role = peer[n].role /\ q.sock = peer[n].sock /\ q.to = peer[n].to
        /\ \/ q.out = peer[n].out \/ q.out = Append(peer[n].out, "ping")
           \/ q.out = Append(peer[n].out, "data")
           \/ peer[n].out # <<>> /\ q.out = Tail(peer[n].out)
        /\ \/ q.open = peer[n].open
           \/ peer[n].out # <<>> /\ Head(peer[n].out) = "confirm"

LEMMA KeptType ==
    ASSUME peer \in [Nodes -> Peer], Lists(up, peer, socks),
           NEW n \in Nodes, Kept(n), up' = up, socks' = socks
    PROVE  peer' \in [Nodes -> Peer] /\ Lists(up', peer', socks')
<1>1. PICK q \in Peer : /\ peer' = [peer EXCEPT ![n] = q]
                        /\ q.role = peer[n].role /\ q.sock = peer[n].sock
  BY DEF Kept
<1> DEFINE P2 == [peer EXCEPT ![n] = q]
<1>2. P2 \in [Nodes -> Peer] /\ Lists(up, P2, socks)
  BY <1>1, ListsKeep
<1>3. peer' = P2
  BY <1>1
<1> HIDE DEF P2
<1> QED
  BY <1>2, <1>3

LEMMA QueueType ==
    ASSUME peer \in [Nodes -> Peer], NEW n \in Nodes
    PROVE  /\ Append(peer[n].out, "ping") \in Seq(Ctrl)
           /\ Append(peer[n].out, "data") \in Seq(Ctrl)
           /\ peer[n].out # <<>> => /\ Tail(peer[n].out) \in Seq(Ctrl)
                                    /\ Head(peer[n].out) \in Ctrl
<1>1. peer[n].out \in Seq(Ctrl)
  BY DEF Peer
<1>2. "ping" \in Ctrl /\ "data" \in Ctrl
  BY DEF Ctrl
<1> QED
  BY <1>1, <1>2, AppendProperties, HeadTailProperties

LEMMA SendDataKeeps ==
    ASSUME TypeOK, NEW n \in Nodes, SendData(n)
    PROVE  Kept(n)
<1>1. peer \in [Nodes -> Peer] /\ peer[n] \in Peer
  BY DEF TypeOK
<1> DEFINE q == [peer[n] EXCEPT !.out = Append(@, "data")]
<1>2. q \in Peer
  BY <1>1, QueueType DEF Peer
<1>3. peer' = [peer EXCEPT ![n] = q]
  BY <1>1 DEF SendData
<1>4. /\ q.role = peer[n].role /\ q.sock = peer[n].sock /\ q.to = peer[n].to
      /\ q.open = peer[n].open /\ q.out = Append(peer[n].out, "data")
  BY <1>1 DEF Peer
<1> QED
  BY <1>2, <1>3, <1>4 DEF Kept

LEMMA PingKeeps ==
    ASSUME TypeOK, NEW n \in Nodes, Ping(n)
    PROVE  Kept(n)
<1>1. peer \in [Nodes -> Peer] /\ peer[n] \in Peer
  BY DEF TypeOK
<1> DEFINE q == [peer[n] EXCEPT !.pinged = TRUE, !.out = Append(@, "ping")]
<1>2. q \in Peer
  BY <1>1, QueueType DEF Peer
<1>3. peer' = [peer EXCEPT ![n] = q]
  BY <1>1 DEF Ping
<1>4. /\ q.role = peer[n].role /\ q.sock = peer[n].sock /\ q.to = peer[n].to
      /\ q.open = peer[n].open /\ q.out = Append(peer[n].out, "ping")
  BY <1>1 DEF Peer
<1> QED
  BY <1>2, <1>3, <1>4 DEF Kept

LEMMA StopKeeps ==
    ASSUME TypeOK, NEW n \in Nodes, Stop(n)
    PROVE  Kept(n)
<1>1. peer \in [Nodes -> Peer] /\ peer[n] \in Peer
  BY DEF TypeOK
<1> DEFINE q == [peer[n] EXCEPT !.stopped = TRUE]
<1>2. q \in Peer
  BY <1>1 DEF Peer
<1>3. peer' = [peer EXCEPT ![n] = q]
  BY <1>1 DEF Stop
<1>4. /\ q.role = peer[n].role /\ q.sock = peer[n].sock /\ q.to = peer[n].to
      /\ q.open = peer[n].open /\ q.out = peer[n].out
  BY <1>1 DEF Peer
<1> QED
  BY <1>2, <1>3, <1>4 DEF Kept

LEMMA TickKeeps ==
    ASSUME TypeOK, NEW n \in Nodes, Tick(n)
    PROVE  Kept(n)
<1>1. peer \in [Nodes -> Peer] /\ peer[n] \in Peer
  BY DEF TypeOK
<1> DEFINE q == [peer[n] EXCEPT !.contact = IF @ = "recent" THEN "quiet" ELSE "lost"]
<1>2. q \in Peer
  BY <1>1 DEF Peer
<1>3. peer' = [peer EXCEPT ![n] = q]
  BY <1>1 DEF Tick
<1>4. /\ q.role = peer[n].role /\ q.sock = peer[n].sock /\ q.to = peer[n].to
      /\ q.open = peer[n].open /\ q.out = peer[n].out
  BY <1>1 DEF Peer
<1> QED
  BY <1>2, <1>3, <1>4 DEF Kept

LEMMA SendKeeps ==
    ASSUME TypeOK, NEW n \in Nodes, Send(n)
    PROVE  /\ Kept(n)
           /\ LET m == Datagram(Head(peer[n].out), n, peer[n].sock, peer[n].to)
              IN m \in DatagramType /\ net' = Append(net, m)
           /\ peer[n].out # <<>> /\ peer'[n].out = Tail(peer[n].out) /\ Listed(n)
<1>1. peer \in [Nodes -> Peer] /\ peer[n] \in Peer /\ peer[n].out # <<>> /\ Listed(n)
  BY DEF TypeOK, Send, Idle, Running
<1> DEFINE q == [peer[n] EXCEPT !.out = Tail(@),
                                !.open = @ \/ Head(peer[n].out) = "confirm"]
<1>2. q \in Peer
  BY <1>1, QueueType DEF Peer
<1>3. peer' = [peer EXCEPT ![n] = q]
  BY <1>1 DEF Send
<1>4. /\ q.role = peer[n].role /\ q.sock = peer[n].sock /\ q.to = peer[n].to
      /\ q.open = (peer[n].open \/ Head(peer[n].out) = "confirm")
      /\ q.out = Tail(peer[n].out)
  BY <1>1 DEF Peer
<1>5. q.open = peer[n].open \/ Head(peer[n].out) = "confirm"
  BY <1>1, <1>4 DEF Peer
<1>6. Kept(n) /\ peer'[n].out = Tail(peer[n].out)
  BY <1>1, <1>2, <1>3, <1>4, <1>5 DEF Kept
<1>7. Datagram(Head(peer[n].out), n, peer[n].sock, peer[n].to) \in DatagramType
  BY <1>1, QueueType, TheOther DEF Datagram, DatagramType, Peer
<1>8. net' = Append(net, Datagram(Head(peer[n].out), n, peer[n].sock, peer[n].to))
  BY DEF Send
<1> QED
  BY <1>1, <1>6, <1>7, <1>8

\* Each step keeps the types.
LEMMA TypeNext == TypeOK /\ [Next]_vars => TypeOK'
<1> SUFFICES ASSUME TypeOK, [Next]_vars PROVE TypeOK'
  OBVIOUS
<1> /\ up \in [Nodes -> BOOLEAN] /\ peer \in [Nodes -> Peer]
    /\ net \in Seq(DatagramType)
    /\ socks \in Nat /\ faults \in 0..MaxFaults
    /\ starts \in [Nodes -> Nat] /\ data \in Nat
    /\ Lists(up, peer, socks)
  BY TypeParts
<1> USE TypePartsNext
<1>1. ASSUME NEW n \in Nodes, Start(n) PROVE TypeOK'
  <2>1. /\ ~up[n] /\ up' = [up EXCEPT ![n] = TRUE]
        /\ starts' = [starts EXCEPT ![n] = @ + 1]
        /\ net' = net /\ faults' = faults /\ data' = data
    BY <1>1 DEF Start
  <2>2. CASE n \in Bootstraps
    <3> DEFINE q == NewPeer("dialer", socks + 1, Listener, "hello")
    <3>1. socks' = socks + 1 /\ peer' = [peer EXCEPT ![n] = q]
      BY <1>1, <2>2 DEF Start
    <3>2. q \in Peer /\ q.sock = socks + 1
      <4>1. socks + 1 \in Nat /\ Listener \in Nat /\ "hello" \in Ctrl
        BY DEF Ctrl, Listener
      <4> QED
        BY <4>1, NewPeerType
    <3>3. Lists(up', peer, socks)
      BY <2>1 DEF Lists
    <3> HIDE DEF q
    <3>4. up' \in [Nodes -> BOOLEAN] /\ up'[n]
      BY <2>1
    <3>5. peer' \in [Nodes -> Peer] /\ Lists(up', peer', socks')
      BY <3>1, <3>2, <3>3, <3>4, ListsJoin
    <3> QED
      BY <2>1, <3>1, <3>4, <3>5
  <2>3. CASE n \notin Bootstraps
    <3>1. UNCHANGED <<socks, peer>>
      BY <1>1, <2>3 DEF Start
    <3> QED
      BY <2>1, <3>1 DEF Lists
  <2> QED
    BY <2>2, <2>3
<1>2. ASSUME NEW n \in Nodes, Down(n) PROVE TypeOK'
  <2>1. /\ up' = [up EXCEPT ![n] = FALSE]
        /\ peer' = [peer EXCEPT ![n] = NoPeer]
        /\ UNCHANGED <<net, socks, counters>> /\ Faults(1)
    BY <1>2 DEF Down
  <2>2. faults' \in 0..MaxFaults
    BY <2>1, FaultsType
  <2>3. peer' \in [Nodes -> Peer] /\ Lists(up', peer', socks)
    BY <2>1, ListsLeave
  <2> QED
    BY <2>1, <2>2, <2>3 DEF counters
<1>3. ASSUME NEW n \in Nodes, SendData(n) PROVE TypeOK'
  <2>1. Kept(n)
    BY <1>3, SendDataKeeps
  <2>2. UNCHANGED <<up, net, socks, faults, starts>> /\ data' = data + 1
    BY <1>3 DEF SendData
  <2> QED
    BY <2>1, <2>2, KeptType
<1>4. ASSUME NEW n \in Nodes, Unlist(n) PROVE TypeOK'
  <2>1. peer' = [peer EXCEPT ![n] = NoPeer] /\ UNCHANGED <<up, net, socks, faults, counters>>
    BY <1>4 DEF Unlist
  <2>2. peer' \in [Nodes -> Peer] /\ Lists(up, peer', socks)
    BY <2>1, ListsLeave
  <2> QED
    BY <2>1, <2>2 DEF counters
<1>5. ASSUME NEW n \in Nodes, Timeout(n) PROVE TypeOK'
  <2>1. Kept(n) /\ UNCHANGED <<up, net, socks, faults, counters>>
    BY <1>5, StopKeeps DEF Timeout
  <2> QED
    BY <2>1, KeptType DEF counters
<1>6. ASSUME NEW n \in Nodes, Ping(n) PROVE TypeOK'
  <2>1. Kept(n) /\ UNCHANGED <<up, net, socks, faults, counters>>
    BY <1>6, PingKeeps DEF Ping
  <2> QED
    BY <2>1, KeptType DEF counters
<1>7. ASSUME NEW n \in Nodes, Send(n) PROVE TypeOK'
  <2> DEFINE m == Datagram(Head(peer[n].out), n, peer[n].sock, peer[n].to)
  <2>1. Kept(n) /\ m \in DatagramType /\ net' = Append(net, m)
    BY <1>7, SendKeeps
  <2>2. UNCHANGED <<up, socks, faults, counters>>
    BY <1>7 DEF Send
  <2> HIDE DEF m
  <2>3. net' \in Seq(DatagramType)
    BY <2>1, Appended
  <2> QED
    BY <2>1, <2>2, <2>3, KeptType DEF counters
<1>8. ASSUME NEW n \in Nodes, SendFails(n) PROVE TypeOK'
  <2>1. Kept(n) /\ Faults(1) /\ UNCHANGED <<up, net, socks, counters>>
    BY <1>8, StopKeeps DEF SendFails
  <2>2. faults' \in 0..MaxFaults
    BY <2>1, FaultsType
  <2> QED
    BY <2>1, <2>2, KeptType DEF counters
<1>9. ASSUME NEW n \in Nodes, Tick(n) PROVE TypeOK'
  <2>1. Kept(n) /\ UNCHANGED <<up, net, socks, counters>>
    BY <1>9, TickKeeps DEF Tick
  <2>2. faults' \in 0..MaxFaults
    BY <1>9, FaultsType DEF Tick
  <2> QED
    BY <2>1, <2>2, KeptType DEF counters
<1>10. ASSUME NEW i \in DOMAIN net, NEW dup \in BOOLEAN, Accept(i, dup) PROVE TypeOK'
  <2> DEFINE n == net[i].at
             q == NewPeer("acceptor", socks + 1, net[i].from, "confirm")
  <2>1. /\ Arrives(i, dup) /\ up[n]
        /\ socks' = socks + 1 /\ peer' = [peer EXCEPT ![n] = q]
        /\ UNCHANGED <<up, counters>>
    BY <1>10 DEF Accept, AtListener, NewSession
  <2>2. faults' \in 0..MaxFaults /\ net' \in Seq(DatagramType) /\ net[i] \in DatagramType
    BY <2>1, ArrivesType
  <2>3. n \in Nodes /\ q \in Peer /\ q.sock = socks + 1
    <3>1. n \in Nodes /\ net[i].from \in Nat /\ socks + 1 \in Nat /\ "confirm" \in Ctrl
      BY <2>2 DEF DatagramType, Ctrl
    <3> QED
      BY <3>1, NewPeerType
  <2> HIDE DEF n, q
  <2>4. peer' \in [Nodes -> Peer] /\ Lists(up, peer', socks')
    BY <2>1, <2>3, ListsJoin
  <2> QED
    BY <2>1, <2>2, <2>4 DEF counters
<1>11. ASSUME NEW i \in DOMAIN net, NEW dup \in BOOLEAN, Refuse(i, dup) PROVE TypeOK'
  <2>1. Arrives(i, dup) /\ UNCHANGED <<up, peer, socks, counters>>
    BY <1>11 DEF Refuse, AtListener
  <2>2. faults' \in 0..MaxFaults /\ net' \in Seq(DatagramType)
    BY <2>1, ArrivesType
  <2> QED
    BY <2>1, <2>2 DEF counters
<1>12. ASSUME NEW i \in DOMAIN net, NEW dup \in BOOLEAN, Receive(i, dup) PROVE TypeOK'
  <2> DEFINE n == net[i].at
             q == Handled(Heard(peer[n], net[i].from), net[i].ctrl)
  <2>1. /\ Arrives(i, dup) /\ UNCHANGED <<up, socks, counters>>
        /\ peer' = [peer EXCEPT ![n] = Handled(Heard(@, net[i].from), net[i].ctrl)]
    BY <1>12 DEF Receive
  <2>2. faults' \in 0..MaxFaults /\ net' \in Seq(DatagramType) /\ net[i] \in DatagramType
    BY <2>1, ArrivesType
  <2>3. n \in Nodes /\ peer' = [peer EXCEPT ![n] = q]
    BY <2>1, <2>2 DEF DatagramType
  <2>4. peer[n] \in Peer /\ net[i].from \in Nat /\ net[i].ctrl \in Ctrl
    <3>1. net[i].from \in Nat /\ net[i].ctrl \in Ctrl
      BY <2>2 DEF DatagramType
    <3>2. n \in Nodes
      BY <2>3
    <3>3. \A l \in Nodes : peer[l] \in Peer
      OBVIOUS
    <3> QED
      BY <3>1, <3>2, <3>3
  <2>5. q \in Peer /\ q.role = peer[n].role /\ q.sock = peer[n].sock
    <3> DEFINE p == peer[n]
               from == net[i].from
               c == net[i].ctrl
    <3>1. p \in Peer /\ from \in Nat /\ c \in Ctrl
      BY <2>4
    <3> HIDE DEF p, from, c
    <3>2. /\ Handled(Heard(p, from), c) \in Peer
          /\ Handled(Heard(p, from), c).role = p.role
          /\ Handled(Heard(p, from), c).sock = p.sock
      BY <3>1, HandledKeeps
    <3> QED
      BY <3>2 DEF p, from, c
  <2> HIDE DEF n, q
  <2>6. peer' \in [Nodes -> Peer] /\ Lists(up, peer', socks)
    BY <2>3, <2>5, ListsKeep
  <2> QED
    BY <2>1, <2>2, <2>6 DEF counters
<1>13. ASSUME NEW i \in DOMAIN net, Drop(i) PROVE TypeOK'
  <2>1. net' = RemoveAt(net, i) /\ UNCHANGED <<up, peer, socks, faults, counters>>
    BY <1>13 DEF Drop
  <2>2. net' \in Seq(DatagramType)
    BY <2>1, Removed
  <2> QED
    BY <2>1, <2>2 DEF counters
<1>14. ASSUME NEW i \in DOMAIN net, Lose(i) PROVE TypeOK'
  <2>1. net' = RemoveAt(net, i) /\ Faults(1) /\ UNCHANGED <<up, peer, socks, counters>>
    BY <1>14 DEF Lose
  <2>2. net' \in Seq(DatagramType) /\ faults' \in 0..MaxFaults
    BY <2>1, Removed, FaultsType
  <2> QED
    BY <2>1, <2>2 DEF counters
<1>15. CASE UNCHANGED vars
  BY <1>15 DEF vars, counters
<1> QED
  BY <1>1, <1>2, <1>3, <1>4, <1>5, <1>6, <1>7, <1>8, <1>9, <1>10, <1>11, <1>12,
     <1>13, <1>14, <1>15 DEF Next, Delivery

\* Type correctness, for any number of starts, packets and faults: a listed peer
\* belongs to a node that is up and has a socket of its own
\* (udpPeerManager.py:160-166).
THEOREM TypeCorrect == Spec => []TypeOK
<1>1. Init => TypeOK
  BY TypeInit
<1>2. TypeOK /\ [Next]_vars => TypeOK'
  BY TypeNext
<1> QED
  BY <1>1, <1>2, PTL DEF Spec

------------------------------------------------------------------------------
(* The handshake: sockets are numbered in the order they are made, and a        *)
(* confirm goes from a younger socket to an older one.                          *)

OnlyFirst(s, c) == \A j \in DOMAIN s : s[j] = c => j = 1

Confirms(s) == Queued(s, "confirm")
ConfirmFirst(s) == OnlyFirst(s, "confirm")

\* A confirm is queued by an acceptor whose remote is older than itself.
PeerOK(p, k) ==
    /\ p.to \in 0..k
    /\ ConfirmFirst(p.out)
    /\ Confirms(p.out) => p.role = "acceptor" /\ p.to < p.sock
    /\ p.role # "none" => p.sock \in 1..k

\* ... and sent by a socket no younger than the one the sender has now.
DatagramOK(m, P, k) ==
    /\ m.from \in 1..k /\ m.to \in 0..k
    /\ m.ctrl = "confirm" =>
          /\ m.to < m.from
          /\ P[Other(m.at)].role # "none" => m.from <= P[Other(m.at)].sock

\* A dialer that is open is older than the peer at the other node.
Ordered(P, n) ==
    P[n].role # "none" /\ P[Other(n)].role # "none" =>
        /\ P[n].sock # P[Other(n)].sock
        /\ P[n].role = "dialer" /\ P[n].open => P[n].sock < P[Other(n)].sock

\* Nobody knows a socket from which a confirm is still to be sent.
Unseen(P, N, n) ==
    Confirms(P[n].out) =>
        /\ \A m \in N : m.from # P[n].sock /\ m.to # P[n].sock
        /\ \A l \in Nodes : P[l].to # P[n].sock

LinkOK(P, N, k) ==
    /\ \A n \in Nodes : PeerOK(P[n], k) /\ Ordered(P, n) /\ Unseen(P, N, n)
    /\ \A m \in N : DatagramOK(m, P, k)

LinkInv == LinkOK(peer, Range(net), socks)

\* Queues: a new one, one that is added to, one whose head is sent.
LEMMA QueueNew ==
    ASSUME NEW c, NEW d
    PROVE  /\ OnlyFirst(<<c>>, d) /\ (Queued(<<c>>, d) => c = d)
           /\ ~Queued(<<>>, d) /\ OnlyFirst(<<>>, d)
  BY DEF Queued, OnlyFirst

LEMMA QueueAppend ==
    ASSUME NEW s \in Seq(Ctrl), NEW d, OnlyFirst(s, d), NEW c \in Ctrl, c # d
    PROVE  /\ OnlyFirst(Append(s, c), d)
           /\ Queued(Append(s, c), d) => Queued(s, d)
<1>1. /\ Len(Append(s, c)) = Len(s) + 1 /\ Append(s, c) \in Seq(Ctrl)
      /\ \A i \in 1..Len(s) : Append(s, c)[i] = s[i]
      /\ Append(s, c)[Len(s) + 1] = c
      /\ Len(s) \in Nat
  BY AppendProperties
<1>2. DOMAIN Append(s, c) = 1..(Len(s) + 1) /\ DOMAIN s = 1..Len(s)
  BY <1>1
<1>3. \A i \in DOMAIN Append(s, c) :
         Append(s, c)[i] = d => i \in DOMAIN s /\ s[i] = d
  BY <1>1, <1>2
<1> QED
  BY <1>3 DEF Queued, OnlyFirst

LEMMA QueueTail ==
    ASSUME NEW s \in Seq(Ctrl), s # <<>>, NEW d, OnlyFirst(s, d)
    PROVE  /\ ~Queued(Tail(s), d) /\ OnlyFirst(Tail(s), d)
           /\ Head(s) = d => Queued(s, d)
<1>1. /\ Tail(s) \in Seq(Ctrl) /\ Len(Tail(s)) = Len(s) - 1
      /\ \A i \in 1..Len(Tail(s)) : Tail(s)[i] = s[i + 1]
      /\ Len(s) \in Nat /\ Len(s) # 0
  BY HeadTailProperties
<1>2. \A i \in DOMAIN Tail(s) : Tail(s)[i] # d
  <2>1. SUFFICES ASSUME NEW i \in DOMAIN Tail(s) PROVE s[i + 1] # d
    BY <1>1
  <2>2. i \in 1..(Len(s) - 1) /\ i + 1 \in DOMAIN s
    BY <1>1
  <2> QED
    BY <2>2 DEF OnlyFirst
<1>3. Head(s) = s[1] /\ 1 \in DOMAIN s
  BY <1>1
<1> QED
  BY <1>2, <1>3 DEF Queued, OnlyFirst

LEMMA ConfirmsNew ==
    ASSUME NEW c
    PROVE  /\ ConfirmFirst(<<c>>) /\ (Confirms(<<c>>) => c = "confirm")
           /\ ~Confirms(<<>>) /\ ConfirmFirst(<<>>)
  BY QueueNew DEF Confirms, ConfirmFirst

LEMMA ConfirmsAppend ==
    ASSUME NEW s \in Seq(Ctrl), ConfirmFirst(s), NEW c \in Ctrl, c # "confirm"
    PROVE  /\ ConfirmFirst(Append(s, c))
           /\ Confirms(Append(s, c)) => Confirms(s)
  BY QueueAppend DEF Confirms, ConfirmFirst

LEMMA ConfirmsTail ==
    ASSUME NEW s \in Seq(Ctrl), s # <<>>, ConfirmFirst(s)
    PROVE  /\ ~Confirms(Tail(s)) /\ ConfirmFirst(Tail(s))
           /\ Head(s) = "confirm" => Confirms(s)
  BY QueueTail DEF Confirms, ConfirmFirst

\* A network with fewer datagrams.
LEMMA Fewer ==
    ASSUME NEW P, NEW N, NEW k, LinkOK(P, N, k), NEW N2, N2 \subseteq N
    PROVE  LinkOK(P, N2, k)
  BY DEF LinkOK, Unseen

\* A peer that goes on with the same socket, in the same role.
LEMMA GoesOn ==
    ASSUME NEW P \in [Nodes -> Peer], NEW N \in SUBSET DatagramType, NEW k \in Nat,
           LinkOK(P, N, k),
           NEW n \in Nodes, NEW q \in Peer,
           q.role = P[n].role, q.sock = P[n].sock,
           ConfirmFirst(q.out), Confirms(q.out) => Confirms(P[n].out),
           q.to = P[n].to \/ (~Confirms(P[n].out) /\ \E m \in N : q.to = m.from),
           q.role = "dialer" /\ q.open =>
               P[n].open \/ (P[Other(n)].role # "none" => q.sock < P[Other(n)].sock)
    PROVE  LinkOK([P EXCEPT ![n] = q], N, k)
<1> DEFINE P2 == [P EXCEPT ![n] = q]
<1>1. P2[n] = q /\ \A l \in Nodes : l # n => P2[l] = P[l]
  OBVIOUS
<1>2. \A l \in Nodes : P2[l].role = P[l].role /\ P2[l].sock = P[l].sock
  BY <1>1
<1> HIDE DEF P2
<1>3. \A m \in N : DatagramOK(m, P2, k)
  <2>1. \A m \in N : Other(m.at) \in Nodes /\ DatagramOK(m, P, k)
    BY TheOther DEF LinkOK, DatagramType
  <2> QED
    BY <1>2, <2>1 DEF DatagramOK
<1>4. PeerOK(q, k)
  <2>1. PeerOK(P[n], k)
    BY DEF LinkOK
  <2>2. q.to \in 0..k
    BY <2>1 DEF LinkOK, PeerOK, DatagramOK
  <2>3. Confirms(q.out) => q.to = P[n].to
    OBVIOUS
  <2> QED
    BY <2>1, <2>2, <2>3 DEF PeerOK
<1>5. \A l \in Nodes : PeerOK(P2[l], k)
  BY <1>1, <1>4 DEF LinkOK
<1>6. \A l \in Nodes : Ordered(P2, l)
  <2>1. SUFFICES ASSUME NEW l \in Nodes PROVE Ordered(P2, l)
    OBVIOUS
  <2>2. Other(l) \in Nodes /\ Ordered(P, l)
    BY TheOther DEF LinkOK
  <2>3. CASE l = n
    BY <1>1, <1>2, <2>2, <2>3 DEF Ordered
  <2>4. CASE l # n
    BY <1>1, <1>2, <2>2, <2>4 DEF Ordered
  <2> QED
    BY <2>3, <2>4
<1>7. \A l \in Nodes : Unseen(P2, N, l)
  <2>1. SUFFICES ASSUME NEW l \in Nodes, Confirms(P2[l].out)
                 PROVE  /\ \A m \in N : m.from # P2[l].sock /\ m.to # P2[l].sock
                        /\ \A i \in Nodes : P2[i].to # P2[l].sock
    BY DEF Unseen
  <2>2. Confirms(P[l].out)
    BY <1>1, <2>1
  <2>3. /\ \A m \in N : m.from # P[l].sock /\ m.to # P[l].sock
        /\ \A i \in Nodes : P[i].to # P[l].sock
    BY <2>2 DEF LinkOK, Unseen
  <2>4. q.to # P[l].sock
    BY <2>3
  <2> QED
    BY <1>1, <1>2, <2>3, <2>4
<1> QED
  BY <1>3, <1>5, <1>6, <1>7 DEF LinkOK, P2

\* A peer that is removed.
LEMMA Leaves ==
    ASSUME NEW P \in [Nodes -> Peer], NEW N \in SUBSET DatagramType, NEW k \in Nat,
           LinkOK(P, N, k), NEW n \in Nodes
    PROVE  LinkOK([P EXCEPT ![n] = NoPeer], N, k)
<1> DEFINE P2 == [P EXCEPT ![n] = NoPeer]
<1>1. P2[n] = NoPeer /\ \A l \in Nodes : l # n => P2[l] = P[l]
  OBVIOUS
<1> HIDE DEF P2
<1>2. NoPeer.role = "none" /\ NoPeer.to = 0 /\ NoPeer.out = <<>>
  BY DEF NoPeer
<1>3. ~Confirms(NoPeer.out) /\ ConfirmFirst(NoPeer.out)
  BY <1>2, ConfirmsNew
<1>4. \A m \in N : DatagramOK(m, P2, k)
  <2>1. \A m \in N : Other(m.at) \in Nodes /\ DatagramOK(m, P, k)
    BY TheOther DEF LinkOK, DatagramType
  <2> QED
    BY <1>1, <1>2, <2>1 DEF DatagramOK
<1>5. PeerOK(NoPeer, k)
  BY <1>2, <1>3 DEF PeerOK
<1>6. \A l \in Nodes : PeerOK(P2[l], k)
  BY <1>1, <1>5 DEF LinkOK
<1>7. \A l \in Nodes : Ordered(P2, l)
  <2>1. \A l \in Nodes : Other(l) \in Nodes /\ Ordered(P, l)
    BY TheOther DEF LinkOK
  <2> QED
    BY <1>1, <1>2, <2>1 DEF Ordered
<1>8. \A l \in Nodes : Unseen(P2, N, l)
  <2>1. SUFFICES ASSUME NEW l \in Nodes, Confirms(P2[l].out)
                 PROVE  /\ \A m \in N : m.from # P2[l].sock /\ m.to # P2[l].sock
                        /\ \A i \in Nodes : P2[i].to # P2[l].sock
    BY DEF Unseen
  <2>2. l # n /\ P2[l] = P[l] /\ Confirms(P[l].out)
    BY <1>1, <1>3, <2>1
  <2>3. /\ \A m \in N : m.from # P[l].sock /\ m.to # P[l].sock
        /\ \A i \in Nodes : P[i].to # P[l].sock
    BY <2>2 DEF LinkOK, Unseen
  <2>4. P[l].role = "acceptor" /\ P[l].sock # 0
    BY <2>2 DEF LinkOK, PeerOK
  <2> QED
    BY <1>1, <1>2, <2>2, <2>3, <2>4
<1> QED
  BY <1>4, <1>6, <1>7, <1>8 DEF LinkOK, P2

\* A peer that is made, with the next socket.
LEMMA Joins ==
    ASSUME NEW P \in [Nodes -> Peer], NEW N \in SUBSET DatagramType, NEW k \in Nat,
           LinkOK(P, N, k),
           NEW n \in Nodes, NEW q \in Peer, NEW c,
           q.sock = k + 1, ~q.open, q.out = <<c>>, q.role # "none",
           c = "confirm" => q.role = "acceptor",
           q.to = Listener \/ \E m \in N : q.to = m.from
    PROVE  LinkOK([P EXCEPT ![n] = q], N, k + 1)
<1> DEFINE P2 == [P EXCEPT ![n] = q]
<1>1. P2[n] = q /\ \A l \in Nodes : l # n => P2[l] = P[l]
  OBVIOUS
<1> HIDE DEF P2
<1>2. \A m \in N : m.from \in 1..k /\ m.to \in 0..k
  BY DEF LinkOK, DatagramOK
<1>3. q.to \in 0..k
  BY <1>2 DEF Listener
<1>4. \A l \in Nodes : P[l].to \in 0..k /\ (P[l].role # "none" => P[l].sock \in 1..k)
  BY DEF LinkOK, PeerOK
<1>5. \A m \in N : DatagramOK(m, P2, k + 1)
  <2>1. SUFFICES ASSUME NEW m \in N PROVE DatagramOK(m, P2, k + 1)
    OBVIOUS
  <2>2. Other(m.at) \in Nodes /\ DatagramOK(m, P, k)
    BY TheOther DEF LinkOK, DatagramType
  <2>3. CASE Other(m.at) = n
    BY <1>1, <1>2, <2>2, <2>3 DEF DatagramOK
  <2>4. CASE Other(m.at) # n
    BY <1>1, <1>2, <2>2, <2>4 DEF DatagramOK
  <2> QED
    BY <2>3, <2>4
<1>6. PeerOK(q, k + 1)
  <2>1. ConfirmFirst(q.out) /\ (Confirms(q.out) => c = "confirm")
    BY ConfirmsNew
  <2> QED
    BY <1>3, <2>1 DEF PeerOK
<1>7. \A l \in Nodes : PeerOK(P[l], k + 1)
  BY DEF LinkOK, PeerOK
<1>8. \A l \in Nodes : PeerOK(P2[l], k + 1)
  BY <1>1, <1>6, <1>7
<1>9. \A l \in Nodes : Ordered(P2, l)
  <2>1. SUFFICES ASSUME NEW l \in Nodes PROVE Ordered(P2, l)
    OBVIOUS
  <2>2. /\ Other(l) \in Nodes /\ Other(l) # l /\ Ordered(P, l)
        /\ l = n \/ Other(l) = n
    BY TheOther DEF LinkOK
  <2>3. CASE l = n
    BY <1>1, <1>4, <2>2, <2>3 DEF Ordered
  <2>4. CASE l # n
    BY <1>1, <1>4, <2>2, <2>4 DEF Ordered
  <2> QED
    BY <2>3, <2>4
<1>10. \A l \in Nodes : Unseen(P2, N, l)
  <2>1. SUFFICES ASSUME NEW l \in Nodes, Confirms(P2[l].out)
                 PROVE  /\ \A m \in N : m.from # P2[l].sock /\ m.to # P2[l].sock
                        /\ \A i \in Nodes : P2[i].to # P2[l].sock
    BY DEF Unseen
  <2>2. CASE l = n
    BY <1>1, <1>2, <1>3, <1>4, <2>2
  <2>3. CASE l # n
    <3>1. P2[l] = P[l] /\ Confirms(P[l].out)
      BY <1>1, <2>1, <2>3
    <3>2. /\ \A m \in N : m.from # P[l].sock /\ m.to # P[l].sock
          /\ \A i \in Nodes : P[i].to # P[l].sock
      BY <3>1 DEF LinkOK, Unseen
    <3>3. P[l].sock \in 1..k
      BY <3>1 DEF LinkOK, PeerOK
    <3>4. q.to # P[l].sock
      BY <3>2, <3>3 DEF Listener
    <3> QED
      BY <1>1, <3>1, <3>2, <3>4
  <2> QED
    BY <2>2, <2>3
<1> QED
  BY <1>5, <1>8, <1>9, <1>10 DEF LinkOK, P2

\* A datagram that is sent, by a peer that has no confirm to send any more.
LEMMA Sends ==
    ASSUME NEW P \in [Nodes -> Peer], NEW N \in SUBSET DatagramType, NEW k \in Nat,
           LinkOK(P, N, k),
           NEW n \in Nodes, P[n].role # "none", ~Confirms(P[n].out),
           NEW m \in DatagramType,
           m.from = P[n].sock, m.to = P[n].to, m.at = Other(n),
           m.ctrl = "confirm" => m.to < m.from
    PROVE  LinkOK(P, N \cup {m}, k)
<1>1. PeerOK(P[n], k)
  BY DEF LinkOK
<1>2. Other(m.at) = n
  BY TheOther
<1>3. DatagramOK(m, P, k)
  BY <1>1, <1>2 DEF DatagramOK, PeerOK
<1>4. \A l \in Nodes : Unseen(P, N \cup {m}, l)
  <2>1. SUFFICES ASSUME NEW l \in Nodes, Confirms(P[l].out)
                 PROVE  /\ \A d \in N \cup {m} : d.from # P[l].sock /\ d.to # P[l].sock
                        /\ \A i \in Nodes : P[i].to # P[l].sock
    BY DEF Unseen
  <2>2. /\ \A d \in N : d.from # P[l].sock /\ d.to # P[l].sock
        /\ \A i \in Nodes : P[i].to # P[l].sock
    BY <2>1 DEF LinkOK, Unseen
  <2>3. l # n /\ Other(n) = l /\ P[l].role # "none"
    BY <2>1, TheOther DEF LinkOK, PeerOK
  <2>4. P[n].sock # P[l].sock
    BY <2>3 DEF LinkOK, Ordered
  <2> QED
    BY <2>2, <2>4
<1> QED
  BY <1>3, <1>4 DEF LinkOK

LEMMA LinkInit == Init => LinkInv
<1> SUFFICES ASSUME Init PROVE LinkInv
  OBVIOUS
<1>1. /\ peer = [n \in Nodes |-> NoPeer] /\ net = <<>> /\ socks = 0
  BY DEF Init
<1>2. Range(net) = {}
  BY <1>1 DEF Range
<1>3. /\ NoPeer.role = "none" /\ NoPeer.to = 0 /\ NoPeer.out = <<>>
  BY DEF NoPeer
<1>4. ~Confirms(NoPeer.out) /\ ConfirmFirst(NoPeer.out)
  BY <1>3, ConfirmsNew
<1>5. \A n \in Nodes : PeerOK(peer[n], 0) /\ Ordered(peer, n) /\ Unseen(peer, {}, n)
  BY <1>1, <1>3, <1>4 DEF PeerOK, Ordered, Unseen
<1> QED
  BY <1>1, <1>2, <1>5 DEF LinkInv, LinkOK

\* What the send loop and the clock do keeps the sockets in order.
LEMMA KeptLinks ==
    ASSUME TypeOK, LinkInv, NEW n \in Nodes, Kept(n)
    PROVE  LinkOK(peer', Range(net), socks)
<1>1. PICK q \in Peer :
        /\ peer' = [peer EXCEPT ![n] = q]
        /\ q.role = peer[n].role /\ q.sock = peer[n].sock /\ q.to = peer[n].to
        /\ \/ q.out = peer[n].out \/ q.out = Append(peer[n].out, "ping")
           \/ q.out = Append(peer[n].out, "data")
           \/ peer[n].out # <<>> /\ q.out = Tail(peer[n].out)
        /\ \/ q.open = peer[n].open
           \/ peer[n].out # <<>> /\ Head(peer[n].out) = "confirm"
  BY DEF Kept
<1>2. /\ peer \in [Nodes -> Peer] /\ Range(net) \in SUBSET DatagramType /\ socks \in Nat
      /\ LinkOK(peer, Range(net), socks)
  BY InRange DEF TypeOK, LinkInv
<1>3. peer[n].out \in Seq(Ctrl) /\ PeerOK(peer[n], socks)
  BY <1>2 DEF LinkOK, Peer
<1>4. ConfirmFirst(peer[n].out)
  BY <1>3 DEF PeerOK
<1>5. "ping" \in Ctrl /\ "data" \in Ctrl
  BY DEF Ctrl
<1>6. ConfirmFirst(q.out) /\ (Confirms(q.out) => Confirms(peer[n].out))
  <2>1. CASE q.out = peer[n].out
    BY <1>4, <2>1
  <2>2. ASSUME NEW c \in {"ping", "data"}, q.out = Append(peer[n].out, c)
        PROVE  ConfirmFirst(q.out) /\ (Confirms(q.out) => Confirms(peer[n].out))
    <3>1. c \in Ctrl /\ c # "confirm"
      BY <1>5
    <3>2. /\ ConfirmFirst(Append(peer[n].out, c))
          /\ Confirms(Append(peer[n].out, c)) => Confirms(peer[n].out)
      BY <1>3, <1>4, <3>1, ConfirmsAppend
    <3> QED
      BY <2>2, <3>2
  <2>3. CASE peer[n].out # <<>> /\ q.out = Tail(peer[n].out)
    <3>1. ~Confirms(Tail(peer[n].out)) /\ ConfirmFirst(Tail(peer[n].out))
      BY <1>3, <1>4, <2>3, ConfirmsTail
    <3> QED
      BY <2>3, <3>1
  <2> QED
    BY <1>1, <2>1, <2>2, <2>3
<1>7. q.role = "dialer" /\ q.open => peer[n].open
  <2>1. CASE q.open = peer[n].open
    BY <2>1
  <2>2. CASE peer[n].out # <<>> /\ Head(peer[n].out) = "confirm"
    <3>1. Confirms(peer[n].out)
      BY <1>3, <1>4, <2>2, ConfirmsTail
    <3> QED
      BY <1>1, <1>3, <3>1 DEF PeerOK
  <2> QED
    BY <1>1, <2>1, <2>2
<1>8. LinkOK([peer EXCEPT ![n] = q], Range(net), socks)
  BY <1>1, <1>2, <1>6, <1>7, GoesOn
<1> QED
  BY <1>1, <1>8

LEMMA LinkNext == TypeOK /\ LinkInv /\ [Next]_vars => LinkInv'
<1> SUFFICES ASSUME TypeOK, LinkInv, [Next]_vars
             PROVE  LinkOK(peer', Range(net'), socks')
  BY DEF LinkInv
<1>0. /\ peer \in [Nodes -> Peer] /\ net \in Seq(DatagramType) /\ socks \in Nat
      /\ Range(net) \in SUBSET DatagramType
      /\ LinkOK(peer, Range(net), socks)
  BY InRange DEF TypeOK, LinkInv
<1>1. ASSUME NEW n \in Nodes, Start(n) PROVE LinkOK(peer', Range(net'), socks')
  <2>1. net' = net
    BY <1>1 DEF Start
  <2>2. CASE n \in Bootstraps
    <3> DEFINE q == NewPeer("dialer", socks + 1, Listener, "hello")
    <3>1. socks' = socks + 1 /\ peer' = [peer EXCEPT ![n] = q]
      BY <1>1, <2>2 DEF Start
    <3>2. socks + 1 \in Nat /\ Listener \in Nat /\ "hello" \in Ctrl
      BY <1>0 DEF Ctrl, Listener
    <3>3. /\ q \in Peer /\ q.sock = socks + 1 /\ ~q.open /\ q.out = <<"hello">>
          /\ q.role = "dialer" /\ q.to = Listener
      BY <3>2, NewPeerType
    <3> HIDE DEF q
    <3>4. LinkOK([peer EXCEPT ![n] = q], Range(net), socks + 1)
      BY <1>0, <3>3, Joins
    <3> QED
      BY <2>1, <3>1, <3>4
  <2>3. CASE n \notin Bootstraps
    <3>1. UNCHANGED <<socks, peer>>
      BY <1>1, <2>3 DEF Start
    <3> QED
      BY <1>0, <2>1, <3>1
  <2> QED
    BY <2>2, <2>3
<1>2. ASSUME NEW n \in Nodes, Down(n) \/ Unlist(n)
      PROVE  LinkOK(peer', Range(net'), socks')
  <2>1. peer' = [peer EXCEPT ![n] = NoPeer] /\ UNCHANGED <<net, socks>>
    BY <1>2 DEF Down, Unlist
  <2>2. LinkOK([peer EXCEPT ![n] = NoPeer], Range(net), socks)
    BY <1>0, Leaves
  <2> QED
    BY <2>1, <2>2
<1>3. ASSUME NEW n \in Nodes,
             SendData(n) \/ Timeout(n) \/ Ping(n) \/ SendFails(n) \/ Tick(n)
      PROVE  LinkOK(peer', Range(net'), socks')
  <2>1. UNCHANGED <<net, socks>>
    BY <1>3 DEF SendData, Timeout, Ping, SendFails, Tick
  <2>2. Kept(n)
    BY <1>3, SendDataKeeps, PingKeeps, StopKeeps, TickKeeps DEF Timeout, SendFails
  <2>3. LinkOK(peer', Range(net), socks)
    BY <2>2, KeptLinks
  <2> QED
    BY <2>1, <2>3
<1>4. ASSUME NEW n \in Nodes, Send(n) PROVE LinkOK(peer', Range(net'), socks')
  <2> DEFINE m == Datagram(Head(peer[n].out), n, peer[n].sock, peer[n].to)
  <2>1. /\ Kept(n) /\ m \in DatagramType /\ net' = Append(net, m)
        /\ peer[n].out # <<>> /\ peer'[n].out = Tail(peer[n].out) /\ Listed(n)
    BY <1>4, SendKeeps
  <2>2. /\ m.from = peer[n].sock /\ m.to = peer[n].to /\ m.at = Other(n)
        /\ m.ctrl = Head(peer[n].out)
    BY DEF Datagram
  <2> HIDE DEF m
  <2>3. LinkOK(peer', Range(net), socks) /\ socks' = socks
    BY <1>4, <2>1, KeptLinks DEF Send
  <2>4. /\ peer' \in [Nodes -> Peer]
        /\ peer'[n].role = peer[n].role /\ peer'[n].sock = peer[n].sock
        /\ peer'[n].to = peer[n].to
    BY <1>0, <2>1 DEF Kept
  <2>5. peer[n].out \in Seq(Ctrl) /\ PeerOK(peer[n], socks)
    BY <1>0 DEF LinkOK, Peer
  <2>6. ~Confirms(peer'[n].out) /\ (Head(peer[n].out) = "confirm" => Confirms(peer[n].out))
    BY <2>1, <2>5, ConfirmsTail DEF PeerOK
  <2>7. m.ctrl = "confirm" => m.to < m.from
    BY <2>2, <2>5, <2>6 DEF PeerOK
  <2>8. peer'[n].role # "none"
    BY <2>1, <2>4 DEF Listed
  <2>9. LinkOK(peer', Range(net) \cup {m}, socks)
    BY <1>0, <2>1, <2>2, <2>3, <2>4, <2>6, <2>7, <2>8, Sends
  <2>10. Range(net') = Range(net) \cup {m}
    BY <1>0, <2>1, Appended
  <2> QED
    BY <2>3, <2>9, <2>10
<1>5. ASSUME NEW i \in DOMAIN net, NEW dup \in BOOLEAN, Accept(i, dup)
      PROVE  LinkOK(peer', Range(net'), socks')
  <2> DEFINE n == net[i].at
             q == NewPeer("acceptor", socks + 1, net[i].from, "confirm")
  <2>1. /\ Arrives(i, dup)
        /\ socks' = socks + 1 /\ peer' = [peer EXCEPT ![n] = q]
    BY <1>5 DEF Accept, AtListener, NewSession
  <2>2. /\ Range(net') \subseteq Range(net)
        /\ net[i] \in DatagramType /\ net[i] \in Range(net)
    BY <2>1, ArrivesType
  <2>3. n \in Nodes /\ net[i].from \in Nat /\ socks + 1 \in Nat /\ "confirm" \in Ctrl
    BY <1>0, <2>2 DEF DatagramType, Ctrl
  <2>4. /\ q \in Peer /\ q.sock = socks + 1 /\ ~q.open /\ q.out = <<"confirm">>
        /\ q.role = "acceptor" /\ q.to = net[i].from
    BY <2>3, NewPeerType
  <2>5. \E m \in Range(net) : q.to = m.from
    BY <2>2, <2>4
  <2> HIDE DEF n, q
  <2>6. LinkOK([peer EXCEPT ![n] = q], Range(net), socks + 1)
    BY <1>0, <2>3, <2>4, <2>5, Joins
  <2>7. LinkOK([peer EXCEPT ![n] = q], Range(net'), socks + 1)
    BY <2>2, <2>6, Fewer
  <2> QED
    BY <2>1, <2>7
<1>6. ASSUME NEW i \in DOMAIN net, NEW dup \in BOOLEAN, Refuse(i, dup)
      PROVE  LinkOK(peer', Range(net'), socks')
  <2>1. Arrives(i, dup) /\ UNCHANGED <<peer, socks>>
    BY <1>6 DEF Refuse, AtListener
  <2>2. Range(net') \subseteq Range(net)
    BY <2>1, ArrivesType
  <2> QED
    BY <1>0, <2>1, <2>2, Fewer
<1>7. ASSUME NEW i \in DOMAIN net, NEW dup \in BOOLEAN, Receive(i, dup)
      PROVE  LinkOK(peer', Range(net'), socks')
  <2> DEFINE n == net[i].at
             from == net[i].from
             c == net[i].ctrl
             q == Handled(Heard(peer[n], from), c)
  <2>1. /\ Arrives(i, dup) /\ socks' = socks
        /\ net[i].to # Listener /\ ~Nobody(i)
        /\ peer' = [peer EXCEPT ![n] = Handled(Heard(@, from), c)]
    BY <1>7 DEF Receive
  <2>2. /\ Range(net') \subseteq Range(net)
        /\ net[i] \in DatagramType /\ net[i] \in Range(net)
    BY <2>1, ArrivesType
  <2>3. n \in Nodes /\ from \in Nat /\ c \in Ctrl
    BY <2>2 DEF DatagramType
  <2>4. Listed(n) /\ net[i].to = peer[n].sock
    BY <2>1 DEF Nobody, Running
  <2>5. DatagramOK(net[i], peer, socks)
    BY <1>0, <2>2 DEF LinkOK
  <2>6. c = "confirm" /\ peer[Other(n)].role # "none" => peer[n].sock < peer[Other(n)].sock
    <3>1. c = "confirm" /\ peer[Other(n)].role # "none" =>
            /\ net[i].to < net[i].from /\ net[i].from <= peer[Other(n)].sock
      BY <2>5 DEF DatagramOK
    <3>2. net[i].to \in Nat /\ net[i].from \in Nat /\ peer[Other(n)].sock \in Nat
      BY <1>0, <2>2, <2>3, TheOther DEF DatagramType, Peer
    <3> QED
      BY <2>4, <3>1, <3>2
  <2>7. \E m \in Range(net) : from = m.from
    BY <2>2
  <2>8. \E m \in Range(net) : m.to = peer[n].sock
    BY <2>2, <2>4
  <2>9. peer' = [peer EXCEPT ![n] = q]
    BY <2>1
  <2> HIDE DEF n, from, c
  <2>10. ~Confirms(peer[n].out) /\ ConfirmFirst(peer[n].out)
    BY <1>0, <2>3, <2>8 DEF LinkOK, Unseen, PeerOK
  <2>11. peer[n] \in Peer /\ peer[n].out \in Seq(Ctrl)
    BY <1>0, <2>3 DEF Peer
  <2>12. /\ q \in Peer /\ q.role = peer[n].role /\ q.sock = peer[n].sock /\ q.to = from
         /\ q.open = peer[n].open \/ c = "confirm"
         /\ q.out = peer[n].out \/ q.out = Append(peer[n].out, "pong")
    BY <2>3, <2>11, HandledType
  <2> HIDE DEF q
  <2>13. ConfirmFirst(q.out) /\ ~Confirms(q.out)
    BY <2>10, <2>11, <2>12, ConfirmsAppend DEF Ctrl
  <2>14. q.role = "dialer" /\ q.open =>
           peer[n].open \/ (peer[Other(n)].role # "none" => q.sock < peer[Other(n)].sock)
    BY <2>6, <2>12
  <2>15. LinkOK([peer EXCEPT ![n] = q], Range(net), socks)
    BY <1>0, <2>3, <2>7, <2>10, <2>12, <2>13, <2>14, GoesOn
  <2> QED
    BY <2>1, <2>2, <2>9, <2>15, Fewer
<1>8. ASSUME NEW i \in DOMAIN net, Drop(i) \/ Lose(i)
      PROVE  LinkOK(peer', Range(net'), socks')
  <2>1. net' = RemoveAt(net, i) /\ UNCHANGED <<peer, socks>>
    BY <1>8 DEF Drop, Lose
  <2>2. Range(net') \subseteq Range(net)
    BY <1>0, <2>1, Removed
  <2> QED
    BY <1>0, <2>1, <2>2, Fewer
<1>9. CASE UNCHANGED vars
  BY <1>0, <1>9 DEF vars
<1> QED
  BY <1>1, <1>2, <1>3, <1>4, <1>5, <1>6, <1>7, <1>8, <1>9 DEF Next, Delivery

\* Two nodes that dial each other never both have their session open, however often
\* they start again and whatever the network repeats, loses or delays: a confirm
\* comes from a younger socket, so each dialer would be older than the other
\* (udpPeerManager.py:59-67, udpProtocol.py:100-107).
THEOREM DialersSafe == Spec => []TwoDialersNeverOpen
<1>1. LinkInv => TwoDialersNeverOpen
  <2> SUFFICES ASSUME LinkInv, \A n \in Nodes : peer[n].role = "dialer" /\ peer[n].open
               PROVE  FALSE
    BY DEF TwoDialersNeverOpen
  <2>1. PICK a \in Nodes : TRUE
    BY NodesAssumption
  <2>2. Other(a) \in Nodes /\ Other(Other(a)) = a
    BY TheOther
  <2>3. Ordered(peer, a) /\ Ordered(peer, Other(a))
    BY <2>2 DEF LinkInv, LinkOK
  <2>4. PeerOK(peer[a], socks) /\ PeerOK(peer[Other(a)], socks)
    BY <2>2 DEF LinkInv, LinkOK
  <2>5. peer[a].sock \in Int /\ peer[Other(a)].sock \in Int
    BY <2>2, <2>4 DEF PeerOK
  <2> QED
    BY <2>2, <2>3, <2>5 DEF Ordered
<1>2. Init => TypeOK /\ LinkInv
  BY TypeInit, LinkInit
<1>3. TypeOK /\ LinkInv /\ [Next]_vars => TypeOK' /\ LinkInv'
  BY TypeNext, LinkNext
<1> QED
  BY <1>1, <1>2, <1>3, PTL DEF Spec

------------------------------------------------------------------------------
(* An open session is not torn down by the traffic of its ends *)

\* The packets that begin a session - a hello on its way, an acceptor that has not
\* confirmed yet, a confirm on its way - all stand for the socket of the dialer.
Begins(m) == m.ctrl \in {"hello", "confirm"}
Dialer(m) == IF m.ctrl = "hello" THEN m.from ELSE m.to

Hellos(s) == Queued(s, "hello")

\* Nothing begins a session for socket s, and it is not open.
Unbegun(P, N, s) ==
    /\ \A i \in DOMAIN N : Begins(N[i]) => Dialer(N[i]) # s
    /\ \A n \in Nodes : /\ Confirms(P[n].out) => P[n].to # s
                        /\ P[n].open => P[n].sock # s

\* A datagram that begins a session is the only thing that does, for that socket.
BeginsOnce(P, N) ==
    /\ \A i, j \in DOMAIN N :
          Begins(N[i]) /\ Begins(N[j]) /\ Dialer(N[i]) = Dialer(N[j]) => i = j
    /\ \A i \in DOMAIN N : Begins(N[i]) =>
          /\ N[i].ctrl = "hello" => N[i].to = Listener
          /\ \A n \in Nodes : /\ Confirms(P[n].out) => P[n].to # Dialer(N[i])
                              /\ P[n].open => P[n].sock # Dialer(N[i])

\* ... and so is an acceptor that has not confirmed.
AnswersOnce(P) ==
    \A n, l \in Nodes : Confirms(P[n].out) =>
        /\ P[l].open => P[l].sock # P[n].to
        /\ l # n /\ Confirms(P[l].out) => P[l].to # P[n].to

\* Nobody knows a socket from which a hello is still to be sent.
HelloOK(P, N, n) ==
    /\ OnlyFirst(P[n].out, "hello")
    /\ Hellos(P[n].out) =>
          /\ P[n].role # "none" /\ ~P[n].open /\ P[n].to = Listener
          /\ \A i \in DOMAIN N : N[i].from # P[n].sock /\ N[i].to # P[n].sock
          /\ \A l \in Nodes : P[l].to # P[n].sock

OnceOK(P, N) ==
    /\ BeginsOnce(P, N) /\ AnswersOnce(P)
    /\ \A n \in Nodes : HelloOK(P, N, n) /\ (P[n].open => P[n].role # "none")

\* The inductive invariant, as long as the network repeats nothing.
OnceInv == faults = 0 => OnceOK(peer, net)

\* A datagram that is taken off the network; if it begins a session, nothing does
\* after that.
LEMMA OnceTaken ==
    ASSUME NEW P, NEW N \in Seq(DatagramType), OnceOK(P, N), NEW i \in DOMAIN N
    PROVE  /\ OnceOK(P, RemoveAt(N, i))
           /\ Begins(N[i]) => Unbegun(P, RemoveAt(N, i), Dialer(N[i]))
<1> DEFINE R == RemoveAt(N, i)
           at(j) == IF j < i THEN j ELSE j + 1
<1>1. /\ DOMAIN R = 1..(Len(N) - 1) /\ DOMAIN N = 1..Len(N) /\ Len(N) \in Nat
      /\ \A j \in 1..(Len(N) - 1) : R[j] = N[at(j)]
  BY RemovedAt
<1>2. \A j \in DOMAIN R : R[j] = N[at(j)] /\ at(j) \in DOMAIN N /\ at(j) # i
  BY <1>1
<1>3. \A j, l \in DOMAIN R : at(j) = at(l) => j = l
  BY <1>1
<1> HIDE DEF R, at
<1>4. BeginsOnce(P, R)
  <2>1. \A j, l \in DOMAIN R :
           Begins(R[j]) /\ Begins(R[l]) /\ Dialer(R[j]) = Dialer(R[l]) => j = l
    BY <1>2, <1>3 DEF OnceOK, BeginsOnce
  <2> QED
    BY <1>2, <2>1 DEF OnceOK, BeginsOnce
<1>5. \A n \in Nodes : HelloOK(P, R, n)
  BY <1>2 DEF OnceOK, HelloOK
<1>6. Begins(N[i]) => Unbegun(P, R, Dialer(N[i]))
  BY <1>2 DEF OnceOK, BeginsOnce, Unbegun
<1> QED
  BY <1>4, <1>5, <1>6 DEF OnceOK, R

\* A peer that goes on, is made or is removed.
LEMMA OncePeer ==
    ASSUME NEW P \in [Nodes -> Peer], NEW N \in Seq(DatagramType), OnceOK(P, N),
           NEW n \in Nodes, NEW q \in Peer,
           OnlyFirst(q.out, "hello"), q.open => q.role # "none",
           Confirms(q.out) => /\ q.to # q.sock
                              /\ \/ Confirms(P[n].out) /\ q.to = P[n].to
                                 \/ Unbegun(P, N, q.to),
           q.open => (P[n].open /\ q.sock = P[n].sock) \/ Unbegun(P, N, q.sock),
           Hellos(q.out) =>
              /\ q.role # "none" /\ ~q.open /\ q.to = Listener /\ q.sock # Listener
              /\ \A i \in DOMAIN N : N[i].from # q.sock /\ N[i].to # q.sock
              /\ \A l \in Nodes : l # n => P[l].to # q.sock,
           \A l \in Nodes : l # n /\ Hellos(P[l].out) => q.to # P[l].sock
    PROVE  OnceOK([P EXCEPT ![n] = q], N)
<1> DEFINE P2 == [P EXCEPT ![n] = q]
<1>1. P2[n] = q /\ \A l \in Nodes : l # n => P2[l] = P[l]
  OBVIOUS
<1> HIDE DEF P2
<1>2. BeginsOnce(P2, N)
  <2> SUFFICES ASSUME NEW i \in DOMAIN N, Begins(N[i]), NEW l \in Nodes
               PROVE  /\ Confirms(P2[l].out) => P2[l].to # Dialer(N[i])
                      /\ P2[l].open => P2[l].sock # Dialer(N[i])
    BY DEF OnceOK, BeginsOnce
  <2>1. \A k \in Nodes : /\ Confirms(P[k].out) => P[k].to # Dialer(N[i])
                         /\ P[k].open => P[k].sock # Dialer(N[i])
    BY DEF OnceOK, BeginsOnce
  <2>2. CASE l = n
    BY <1>1, <2>1, <2>2 DEF Unbegun
  <2>3. CASE l # n
    BY <1>1, <2>1, <2>3
  <2> QED
    BY <2>2, <2>3
<1>3. AnswersOnce(P2)
  <2> SUFFICES ASSUME NEW k \in Nodes, NEW l \in Nodes, Confirms(P2[k].out)
               PROVE  /\ P2[l].open => P2[l].sock # P2[k].to
                      /\ l # k /\ Confirms(P2[l].out) => P2[l].to # P2[k].to
    BY DEF AnswersOnce
  <2>1. \A x, y \in Nodes : Confirms(P[x].out) =>
           /\ P[y].open => P[y].sock # P[x].to
           /\ y # x /\ Confirms(P[y].out) => P[y].to # P[x].to
    BY DEF OnceOK, AnswersOnce
  <2>2. CASE k = n /\ l = n
    BY <1>1, <2>2
  <2>3. CASE k = n /\ l # n
    BY <1>1, <2>1, <2>3 DEF Unbegun
  <2>4. CASE k # n /\ l = n
    BY <1>1, <2>1, <2>4 DEF Unbegun
  <2>5. CASE k # n /\ l # n
    BY <1>1, <2>1, <2>5
  <2> QED
    BY <2>2, <2>3, <2>4, <2>5
<1>4. ASSUME NEW l \in Nodes PROVE HelloOK(P2, N, l)
  <2>1. HelloOK(P, N, l)
    BY DEF OnceOK
  <2>2. CASE l = n
    BY <1>1, <2>2 DEF HelloOK
  <2>3. CASE l # n
    BY <1>1, <2>1, <2>3 DEF HelloOK
  <2> QED
    BY <2>2, <2>3
<1>5. ASSUME NEW l \in Nodes PROVE P2[l].open => P2[l].role # "none"
  <2>1. P[l].open => P[l].role # "none"
    BY DEF OnceOK
  <2> QED
    BY <1>1, <2>1
<1> QED
  BY <1>2, <1>3, <1>4, <1>5 DEF OnceOK, P2

\* A datagram that is sent.
LEMMA OnceSent ==
    ASSUME NEW P, NEW N \in Seq(DatagramType), OnceOK(P, N), NEW m \in DatagramType,
           Begins(m) => Unbegun(P, N, Dialer(m)),
           m.ctrl = "hello" => m.to = Listener,
           \A l \in Nodes : Hellos(P[l].out) => m.from # P[l].sock /\ m.to # P[l].sock
    PROVE  OnceOK(P, Append(N, m))
<1> DEFINE A == Append(N, m)
<1>1. /\ DOMAIN A = 1..(Len(N) + 1) /\ DOMAIN N = 1..Len(N) /\ Len(N) \in Nat
      /\ \A i \in 1..Len(N) : A[i] = N[i]
      /\ A[Len(N) + 1] = m
  BY AppendProperties
<1>2. \A i \in DOMAIN A : i \in DOMAIN N \/ i = Len(N) + 1
  BY <1>1
<1> HIDE DEF A
<1>3. \A i \in DOMAIN A : \/ i \in DOMAIN N /\ A[i] = N[i]
                          \/ i = Len(N) + 1 /\ A[i] = m
  BY <1>1, <1>2
<1>4. BeginsOnce(P, A)
  <2>1. ASSUME NEW i \in DOMAIN A, NEW j \in DOMAIN A, Begins(A[i]), Begins(A[j]),
               Dialer(A[i]) = Dialer(A[j])
        PROVE  i = j
    <3>1. CASE i \in DOMAIN N /\ A[i] = N[i] /\ j \in DOMAIN N /\ A[j] = N[j]
      BY <2>1, <3>1 DEF OnceOK, BeginsOnce
    <3>2. CASE i \in DOMAIN N /\ A[i] = N[i] /\ j = Len(N) + 1 /\ A[j] = m
      BY <2>1, <3>2 DEF Unbegun
    <3>3. CASE i = Len(N) + 1 /\ A[i] = m /\ j \in DOMAIN N /\ A[j] = N[j]
      BY <2>1, <3>3 DEF Unbegun
    <3> QED
      BY <1>3, <3>1, <3>2, <3>3
  <2>2. ASSUME NEW i \in DOMAIN A, Begins(A[i])
        PROVE  /\ A[i].ctrl = "hello" => A[i].to = Listener
               /\ \A n \in Nodes : /\ Confirms(P[n].out) => P[n].to # Dialer(A[i])
                                   /\ P[n].open => P[n].sock # Dialer(A[i])
    <3>1. CASE i \in DOMAIN N /\ A[i] = N[i]
      BY <2>2, <3>1 DEF OnceOK, BeginsOnce
    <3>2. CASE A[i] = m
      BY <2>2, <3>2 DEF Unbegun
    <3> QED
      BY <1>3, <3>1, <3>2
  <2> QED
    BY <2>1, <2>2 DEF BeginsOnce
<1>5. ASSUME NEW n \in Nodes PROVE HelloOK(P, A, n)
  BY <1>3 DEF OnceOK, HelloOK
<1> QED
  BY <1>4, <1>5 DEF OnceOK, A

\* What the send loop and the clock do to a peer begins no session that was begun.
LEMMA KeptOnce ==
    ASSUME TypeOK, LinkInv, OnceOK(peer, net), NEW n \in Nodes, Kept(n), Listed(n)
    PROVE  OnceOK(peer', net)
<1>1. PICK q \in Peer :
        /\ peer' = [peer EXCEPT ![n] = q]
        /\ q.role = peer[n].role /\ q.sock = peer[n].sock /\ q.to = peer[n].to
        /\ \/ q.out = peer[n].out \/ q.out = Append(peer[n].out, "ping")
           \/ q.out = Append(peer[n].out, "data")
           \/ peer[n].out # <<>> /\ q.out = Tail(peer[n].out)
        /\ \/ q.open = peer[n].open
           \/ peer[n].out # <<>> /\ Head(peer[n].out) = "confirm"
  BY DEF Kept
<1>2. /\ peer \in [Nodes -> Peer] /\ net \in Seq(DatagramType) /\ peer[n].out \in Seq(Ctrl)
      /\ peer[n].role # "none" /\ \A i \in DOMAIN net : net[i] \in Range(net)
  BY InRange DEF TypeOK, Peer, Listed
<1>3. /\ PeerOK(peer[n], socks) /\ Unseen(peer, Range(net), n) /\ HelloOK(peer, net, n)
      /\ OnlyFirst(peer[n].out, "hello") /\ OnlyFirst(peer[n].out, "confirm")
  BY DEF LinkInv, LinkOK, OnceOK, HelloOK, PeerOK, ConfirmFirst
<1>4. ASSUME NEW d \in {"hello", "confirm"}
      PROVE  OnlyFirst(q.out, d) /\ (Queued(q.out, d) => Queued(peer[n].out, d))
  <2>1. OnlyFirst(peer[n].out, d)
    BY <1>3
  <2>2. CASE q.out = peer[n].out
    BY <2>1, <2>2
  <2>3. ASSUME NEW c \in {"ping", "data"}, q.out = Append(peer[n].out, c)
        PROVE  OnlyFirst(q.out, d) /\ (Queued(q.out, d) => Queued(peer[n].out, d))
    <3>1. c \in Ctrl /\ c # d
      BY DEF Ctrl
    <3>2. /\ OnlyFirst(Append(peer[n].out, c), d)
          /\ Queued(Append(peer[n].out, c), d) => Queued(peer[n].out, d)
      BY <1>2, <2>1, <3>1, QueueAppend
    <3> QED
      BY <2>3, <3>2
  <2>4. CASE peer[n].out # <<>> /\ q.out = Tail(peer[n].out)
    <3>1. ~Queued(Tail(peer[n].out), d) /\ OnlyFirst(Tail(peer[n].out), d)
      BY <1>2, <2>1, <2>4, QueueTail
    <3> QED
      BY <2>4, <3>1
  <2> QED
    BY <1>1, <2>2, <2>3, <2>4
<1>5. Confirms(q.out) => q.to # q.sock /\ Confirms(peer[n].out) /\ q.to = peer[n].to
  <2>1. Confirms(peer[n].out) => peer[n].to < peer[n].sock /\ peer[n].to \in Int
                                  /\ peer[n].sock \in Int
    BY <1>2, <1>3 DEF PeerOK
  <2>2. Confirms(q.out) => Confirms(peer[n].out)
    BY <1>4 DEF Confirms
  <2> QED
    BY <1>1, <2>1, <2>2
<1>6. q.open => (peer[n].open /\ q.sock = peer[n].sock) \/ Unbegun(peer, net, q.sock)
  <2>1. CASE q.open = peer[n].open \/ peer[n].open
    BY <1>1, <2>1
  <2>2. CASE ~peer[n].open /\ peer[n].out # <<>> /\ Head(peer[n].out) = "confirm"
    <3>1. Confirms(peer[n].out)
      BY <1>2, <1>3, <2>2, QueueTail DEF Confirms
    <3>2. /\ \A i \in DOMAIN net : net[i].from # q.sock /\ net[i].to # q.sock
          /\ \A l \in Nodes : peer[l].to # q.sock
      BY <1>1, <1>2, <1>3, <3>1 DEF Unseen
    <3>3. ASSUME NEW l \in Nodes, peer[l].open PROVE peer[l].sock # q.sock
      <4>1. l # n /\ peer[l].role # "none"
        BY <2>2, <3>3 DEF OnceOK
      <4>2. Other(n) = l /\ Ordered(peer, n)
        BY <4>1, TheOther DEF LinkInv, LinkOK
      <4> QED
        BY <1>1, <1>2, <4>1, <4>2 DEF Ordered
    <3> QED
      BY <3>2, <3>3 DEF Unbegun, Dialer
  <2> QED
    BY <1>1, <2>1, <2>2
<1>7. Hellos(q.out) =>
         /\ q.role # "none" /\ ~q.open /\ q.to = Listener /\ q.sock # Listener
         /\ \A i \in DOMAIN net : net[i].from # q.sock /\ net[i].to # q.sock
         /\ \A l \in Nodes : l # n => peer[l].to # q.sock
  <2> SUFFICES ASSUME Hellos(q.out)
               PROVE  /\ q.role # "none" /\ ~q.open /\ q.to = Listener /\ q.sock # Listener
                      /\ \A i \in DOMAIN net : net[i].from # q.sock /\ net[i].to # q.sock
                      /\ \A l \in Nodes : l # n => peer[l].to # q.sock
    OBVIOUS
  <2>1. Hellos(peer[n].out)
    BY <1>4 DEF Hellos
  <2>2. Head(peer[n].out) # "confirm" \/ peer[n].out = <<>>
    <3>1. peer[n].out[1] = "hello"
      BY <1>3, <2>1 DEF Hellos, Queued, OnlyFirst
    <3> QED
      BY <1>2, <3>1
  <2>3. q.open = peer[n].open
    BY <1>1, <2>2
  <2>4. peer[n].sock # Listener
    BY <1>2, <1>3 DEF PeerOK, Listener
  <2> QED
    BY <1>1, <1>2, <1>3, <2>1, <2>3, <2>4 DEF HelloOK
<1>8. \A l \in Nodes : l # n /\ Hellos(peer[l].out) => q.to # peer[l].sock
  BY <1>1 DEF OnceOK, HelloOK
<1>9. OnlyFirst(q.out, "hello") /\ (q.open => q.role # "none")
  BY <1>1, <1>2, <1>4
<1>10. OnceOK([peer EXCEPT ![n] = q], net)
  BY <1>2, <1>5, <1>6, <1>7, <1>8, <1>9, OncePeer
<1> QED
  BY <1>1, <1>10

\* The datagram that the send loop sends.
LEMMA SendOnce ==
    ASSUME TypeOK, LinkInv, OnceOK(peer, net), NEW n \in Nodes, Send(n)
    PROVE  OnceOK(peer', net')
<1> DEFINE p == peer[n]
           m == Datagram(Head(p.out), n, p.sock, p.to)
<1>1. /\ Kept(n) /\ m \in DatagramType /\ net' = Append(net, m)
      /\ p.out # <<>> /\ peer'[n].out = Tail(p.out) /\ Listed(n)
  BY SendKeeps
<1>2. /\ peer \in [Nodes -> Peer] /\ net \in Seq(DatagramType) /\ p.out \in Seq(Ctrl)
      /\ p.role # "none" /\ \A i \in DOMAIN net : net[i] \in Range(net)
  BY <1>1, InRange DEF TypeOK, Peer, Listed
<1>3. /\ PeerOK(p, socks) /\ Unseen(peer, Range(net), n) /\ HelloOK(peer, net, n)
      /\ OnlyFirst(p.out, "hello") /\ OnlyFirst(p.out, "confirm")
  BY DEF LinkInv, LinkOK, OnceOK, HelloOK, PeerOK, ConfirmFirst
<1>4. m.ctrl = Head(p.out) /\ m.from = p.sock /\ m.to = p.to
  BY DEF Datagram
<1>5. OnceOK(peer', net)
  BY <1>1, KeptOnce
<1>6. /\ peer'[n].sock = p.sock /\ peer'[n].to = p.to /\ peer'[n].role = p.role
      /\ \A l \in Nodes : l # n => peer'[l] = peer[l]
      /\ peer'[n].open => p.open \/ m.ctrl = "confirm"
  BY <1>1, <1>2, <1>4 DEF Kept
<1>7. Head(p.out) = p.out[1] /\ 1 \in DOMAIN p.out
  BY <1>1, <1>2, EmptySeq, LenProperties
<1>8. ~Confirms(peer'[n].out) /\ ~Hellos(peer'[n].out)
  BY <1>1, <1>2, <1>3, QueueTail DEF Confirms, Hellos
<1>9. p.sock \in 1..socks /\ p.to \in 0..socks /\ socks \in Nat
  BY <1>2, <1>3 DEF PeerOK, TypeOK
<1>10. ASSUME NEW l \in Nodes, l # n, peer[l].role # "none"
       PROVE  peer[l].sock # p.sock
  <2>1. Other(n) = l /\ Ordered(peer, n)
    BY <1>10, TheOther DEF LinkInv, LinkOK
  <2> QED
    BY <1>2, <1>10, <2>1 DEF Ordered
<1> HIDE DEF m
<1>11. CASE m.ctrl = "hello"
  <2>1. Hellos(p.out)
    BY <1>4, <1>7, <1>11 DEF Hellos, Queued
  <2>2. /\ ~p.open /\ p.to = Listener
        /\ \A i \in DOMAIN net : net[i].from # p.sock /\ net[i].to # p.sock
        /\ \A l \in Nodes : peer[l].to # p.sock
    BY <1>3, <2>1 DEF HelloOK
  <2>3. \A i \in DOMAIN net : Begins(net[i]) => Dialer(net[i]) # p.sock
    BY <2>2 DEF Dialer
  <2>4. ASSUME NEW l \in Nodes
        PROVE  /\ Confirms(peer'[l].out) => peer'[l].to # p.sock
               /\ peer'[l].open => peer'[l].sock # p.sock
    <3>1. CASE l = n
      BY <1>6, <1>8, <1>11, <2>2, <3>1
    <3>2. CASE l # n
      BY <1>6, <1>10, <2>2, <3>2 DEF OnceOK
    <3> QED
      BY <3>1, <3>2
  <2>5. Unbegun(peer', net, Dialer(m))
    BY <1>4, <1>11, <2>3, <2>4 DEF Unbegun, Dialer
  <2>6. ASSUME NEW l \in Nodes, Hellos(peer'[l].out)
        PROVE  m.from # peer'[l].sock /\ m.to # peer'[l].sock
    <3>1. l # n /\ peer'[l] = peer[l]
      BY <1>6, <1>8, <2>6
    <3>2. peer[l].role # "none" /\ peer[n].to # peer[l].sock
      BY <2>6, <3>1 DEF OnceOK, HelloOK
    <3> QED
      BY <1>4, <1>10, <3>1, <3>2
  <2> QED
    BY <1>1, <1>2, <1>4, <1>5, <1>11, <2>2, <2>5, <2>6, OnceSent
<1>12. CASE m.ctrl # "hello"
  <2>1. ASSUME NEW l \in Nodes, Hellos(peer'[l].out)
        PROVE  m.from # peer'[l].sock /\ m.to # peer'[l].sock
    <3>1. l # n /\ peer'[l] = peer[l]
      BY <1>6, <1>8, <2>1
    <3>2. peer[l].role # "none" /\ peer[n].to # peer[l].sock
      BY <2>1, <3>1 DEF OnceOK, HelloOK
    <3> QED
      BY <1>4, <1>10, <3>1, <3>2
  <2>2. ASSUME m.ctrl = "confirm" PROVE Unbegun(peer', net, p.to)
    <3>1. Confirms(p.out) /\ p.to # p.sock
      BY <1>3, <1>4, <1>7, <1>9, <2>2 DEF PeerOK, Confirms, Queued
    <3>2. \A i \in DOMAIN net : Begins(net[i]) => Dialer(net[i]) # p.to
      BY <3>1 DEF OnceOK, BeginsOnce
    <3>3. ASSUME NEW l \in Nodes
          PROVE  /\ Confirms(peer'[l].out) => peer'[l].to # p.to
                 /\ peer'[l].open => peer'[l].sock # p.to
      <4>1. CASE l = n
        BY <1>6, <1>8, <3>1, <4>1
      <4>2. CASE l # n
        BY <1>6, <3>1, <4>2 DEF OnceOK, AnswersOnce
      <4> QED
        BY <4>1, <4>2
    <3> QED
      BY <3>2, <3>3 DEF Unbegun
  <2>3. Begins(m) => Unbegun(peer', net, Dialer(m))
    BY <1>4, <1>12, <2>2 DEF Begins, Dialer
  <2> QED
    BY <1>1, <1>2, <1>5, <1>12, <2>1, <2>3, OnceSent
<1> QED
  BY <1>11, <1>12

\* A step after which nothing has gone wrong: nothing had before it.
LEMMA NoFaults ==
    ASSUME TypeOK, [Next]_vars, faults' = 0
    PROVE  /\ faults = 0 /\ \A k \in Nat : Faults(k) => k = 0
           /\ \A i \in DOMAIN net, dup \in BOOLEAN : Arrives(i, dup) =>
                 net' = RemoveAt(net, i) /\ ~Overtakes(i)
<1>1. faults \in Nat
  BY BoundsAssumption DEF TypeOK
<1>2. \A k \in Nat : Faults(k) => k = 0 /\ faults = 0
  BY <1>1 DEF Faults
<1>3. faults' = faults \/ \E k \in Nat : Faults(k)
  <2>1. \A i, dup : Arrives(i, dup) => \E k \in Nat : Faults(k)
    BY DEF Arrives
  <2>2. \A n \in Nodes : Tick(n) => \E k \in Nat : Faults(k)
    BY DEF Tick
  <2> QED
    BY <2>1, <2>2 DEF Next, Delivery, Accept, Refuse, Receive, AtListener, Start, Down,
       SendData, Unlist, Timeout, Ping, Send, SendFails, Drop, Lose, vars
<1>4. ASSUME NEW i \in DOMAIN net, NEW dup \in BOOLEAN, Arrives(i, dup)
      PROVE  net' = RemoveAt(net, i) /\ ~Overtakes(i)
  <2>1. ~dup /\ ~Overtakes(i)
    BY <1>2, <1>4 DEF Arrives
  <2> QED
    BY <1>4, <2>1 DEF Arrives
<1> QED
  BY <1>2, <1>3, <1>4

LEMMA OnceNext == TypeOK /\ LinkInv /\ OnceInv /\ [Next]_vars => OnceInv'
<1> SUFFICES ASSUME TypeOK, LinkInv, OnceInv, [Next]_vars, faults' = 0
             PROVE  OnceOK(peer', net')
  BY DEF OnceInv
<1>0. /\ peer \in [Nodes -> Peer] /\ net \in Seq(DatagramType) /\ socks \in Nat
      /\ faults \in Nat /\ \A i \in DOMAIN net : net[i] \in Range(net)
  BY BoundsAssumption, InRange DEF TypeOK
<1>1. faults = 0
  BY NoFaults
<1>2. OnceOK(peer, net) /\ \A l \in Nodes : PeerOK(peer[l], socks)
  BY <1>1 DEF OnceInv, LinkInv, LinkOK
<1>3. ASSUME NEW i \in DOMAIN net, NEW dup \in BOOLEAN, Arrives(i, dup)
      PROVE  net' = RemoveAt(net, i)
  BY <1>3, NoFaults
\* A new peer knows nobody, and its socket is one that nobody knows.
<1>4. ASSUME NEW n \in Nodes, Start(n) PROVE OnceOK(peer', net')
  <2>1. net' = net
    BY <1>4 DEF Start
  <2>2. CASE n \in Bootstraps
    <3> DEFINE q == NewPeer("dialer", socks + 1, Listener, "hello")
    <3>1. peer' = [peer EXCEPT ![n] = q]
      BY <1>4, <2>2 DEF Start
    <3>2. socks + 1 \in Nat /\ Listener \in Nat /\ "hello" \in Ctrl
      BY <1>0 DEF Ctrl, Listener
    <3>3. /\ q \in Peer /\ q.sock = socks + 1 /\ ~q.open /\ q.out = <<"hello">>
          /\ q.role = "dialer" /\ q.to = Listener
      BY <3>2, NewPeerType
    <3> HIDE DEF q
    <3>4. OnlyFirst(q.out, "hello") /\ ~Confirms(q.out)
      BY <3>3, QueueNew DEF Confirms
    <3>5. /\ q.sock # Listener
          /\ \A i \in DOMAIN net : net[i].from # q.sock /\ net[i].to # q.sock
          /\ \A l \in Nodes : peer[l].to # q.sock
      <4>1. \A m \in Range(net) : m.from \in 1..socks /\ m.to \in 0..socks
        BY DEF LinkInv, LinkOK, DatagramOK
      <4>2. \A l \in Nodes : peer[l].to \in 0..socks
        BY <1>2 DEF PeerOK
      <4> QED
        BY <1>0, <3>3, <4>1, <4>2 DEF Listener
    <3>6. \A l \in Nodes : Hellos(peer[l].out) => q.to # peer[l].sock
      BY <1>2, <3>3 DEF OnceOK, HelloOK, PeerOK, Listener
    <3>7. OnceOK([peer EXCEPT ![n] = q], net)
      <4>1. /\ q.open => q.role # "none"
            /\ q.open => (peer[n].open /\ q.sock = peer[n].sock) \/ Unbegun(peer, net, q.sock)
            /\ Hellos(q.out) => /\ q.role # "none" /\ ~q.open /\ q.to = Listener
                               /\ q.sock # Listener
        BY <3>3, <3>5
      <4>2. \A l \in Nodes : l # n /\ Hellos(peer[l].out) => q.to # peer[l].sock
        BY <3>6
      <4>3. \A l \in Nodes : l # n => peer[l].to # q.sock
        BY <3>5
      <4> HIDE DEF q
      <4> QED
        BY <1>0, <1>2, <3>3, <3>4, <3>5, <4>1, <4>2, <4>3, OncePeer
    <3> QED
      BY <2>1, <3>1, <3>7
  <2>3. CASE n \notin Bootstraps
    BY <1>2, <1>4, <2>1, <2>3 DEF Start
  <2> QED
    BY <2>2, <2>3
<1>5. ASSUME NEW n \in Nodes, Down(n) \/ Unlist(n) PROVE OnceOK(peer', net')
  <2>1. peer' = [peer EXCEPT ![n] = NoPeer] /\ net' = net
    BY <1>5 DEF Down, Unlist
  <2>2. /\ NoPeer \in Peer /\ ~NoPeer.open /\ NoPeer.to = Listener /\ NoPeer.out = <<>>
    BY NoPeerType DEF NoPeer, Listener
  <2>3. OnlyFirst(NoPeer.out, "hello") /\ ~Confirms(NoPeer.out) /\ ~Hellos(NoPeer.out)
    BY <2>2, QueueNew DEF Confirms, Hellos
  <2>4. \A l \in Nodes : Hellos(peer[l].out) => NoPeer.to # peer[l].sock
    BY <1>2, <2>2 DEF OnceOK, HelloOK, PeerOK, Listener
  <2>5. OnceOK([peer EXCEPT ![n] = NoPeer], net)
    BY <1>0, <1>2, <2>2, <2>3, <2>4, OncePeer
  <2> QED
    BY <2>1, <2>5
<1>6. ASSUME NEW n \in Nodes,
             SendData(n) \/ Timeout(n) \/ Ping(n) \/ SendFails(n) \/ Tick(n)
      PROVE  OnceOK(peer', net')
  <2>1. net' = net /\ Listed(n)
    BY <1>6 DEF SendData, Timeout, Ping, SendFails, Tick, Running, Idle
  <2>2. Kept(n)
    BY <1>6, SendDataKeeps, PingKeeps, StopKeeps, TickKeeps DEF Timeout, SendFails
  <2>3. OnceOK(peer', net)
    BY <1>2, <2>1, <2>2, KeptOnce
  <2> QED
    BY <2>1, <2>3
<1>7. ASSUME NEW n \in Nodes, Send(n) PROVE OnceOK(peer', net')
  BY <1>2, <1>7, SendOnce
<1>8. ASSUME NEW i \in DOMAIN net, NEW dup \in BOOLEAN, Accept(i, dup)
      PROVE  OnceOK(peer', net')
  <2> DEFINE n == net[i].at
             q == NewPeer("acceptor", socks + 1, net[i].from, "confirm")
  <2>1. net' = RemoveAt(net, i) /\ peer' = [peer EXCEPT ![n] = q] /\ net[i].ctrl = "hello"
    BY <1>3, <1>8 DEF Accept, AtListener, NewSession
  <2>2. /\ net[i] \in DatagramType /\ net[i] \in Range(net)
    BY <1>0, InRange
  <2>3. n \in Nodes /\ net[i].from \in Nat /\ socks + 1 \in Nat /\ "confirm" \in Ctrl
    BY <1>0, <2>2 DEF DatagramType, Ctrl
  <2>4. /\ q \in Peer /\ q.sock = socks + 1 /\ ~q.open /\ q.out = <<"confirm">>
        /\ q.role = "acceptor" /\ q.to = net[i].from
    BY <2>3, NewPeerType
  <2>5. OnceOK(peer, net') /\ Unbegun(peer, net', net[i].from)
    BY <1>0, <1>2, <2>1, OnceTaken DEF Begins, Dialer
  <2>6. net' \in Seq(DatagramType)
    BY <1>0, <2>1, Removed
  <2>7. q.to # q.sock
    <3>1. net[i].from \in 1..socks
      BY <2>2 DEF LinkInv, LinkOK, DatagramOK
    <3> QED
      BY <1>0, <2>4, <3>1
  <2>8. \A l \in Nodes : Hellos(peer[l].out) => q.to # peer[l].sock
    BY <1>2, <2>4 DEF OnceOK, HelloOK
  <2> HIDE DEF n, q
  <2>9. OnlyFirst(q.out, "hello") /\ ~Hellos(q.out)
    BY <2>4, QueueNew DEF Hellos
  <2>10. OnceOK([peer EXCEPT ![n] = q], net')
    BY <1>0, <2>3, <2>4, <2>5, <2>6, <2>7, <2>8, <2>9, OncePeer
  <2> QED
    BY <2>1, <2>10
<1>9. ASSUME NEW i \in DOMAIN net, NEW dup \in BOOLEAN, Refuse(i, dup)
      PROVE  OnceOK(peer', net')
  <2>1. net' = RemoveAt(net, i) /\ peer' = peer
    BY <1>3, <1>9 DEF Refuse, AtListener
  <2> QED
    BY <1>0, <1>2, <2>1, OnceTaken
<1>10. ASSUME NEW i \in DOMAIN net, NEW dup \in BOOLEAN, Receive(i, dup)
       PROVE  OnceOK(peer', net')
  <2> DEFINE n == net[i].at
             from == net[i].from
             c == net[i].ctrl
             q == Handled(Heard(peer[n], from), c)
  <2>1. /\ net' = RemoveAt(net, i) /\ peer' = [peer EXCEPT ![n] = q]
        /\ net[i].to # Listener /\ ~Nobody(i)
    BY <1>3, <1>10 DEF Receive
  <2>2. net[i] \in DatagramType /\ net[i] \in Range(net)
    BY <1>0, InRange
  <2>3. n \in Nodes /\ from \in Nat /\ c \in Ctrl
    BY <2>2 DEF DatagramType
  <2>4. peer[n].role # "none" /\ net[i].to = peer[n].sock
    BY <2>1 DEF Nobody, Running, Listed
  <2>5. ~Confirms(peer[n].out) /\ ~Hellos(peer[n].out)
    BY <1>2, <2>2, <2>3, <2>4 DEF LinkInv, LinkOK, Unseen, OnceOK, HelloOK
  <2>6. ConfirmFirst(peer[n].out) /\ OnlyFirst(peer[n].out, "hello")
    BY <1>2, <2>3 DEF PeerOK, OnceOK, HelloOK
  <2>7. OnceOK(peer, net') /\ (c = "confirm" => Unbegun(peer, net', peer[n].sock))
    BY <1>0, <1>2, <2>1, <2>4, OnceTaken DEF Begins, Dialer
  <2>8. net' \in Seq(DatagramType)
    BY <1>0, <2>1, Removed
  <2>9. \A l \in Nodes : Hellos(peer[l].out) => from # peer[l].sock
    BY <1>2 DEF OnceOK, HelloOK
  <2> HIDE DEF n, from, c
  <2>10. peer[n] \in Peer /\ peer[n].out \in Seq(Ctrl)
    BY <1>0, <2>3 DEF Peer
  <2>11. /\ q \in Peer /\ q.role = peer[n].role /\ q.sock = peer[n].sock /\ q.to = from
         /\ q.open = peer[n].open \/ c = "confirm"
         /\ q.out = peer[n].out \/ q.out = Append(peer[n].out, "pong")
    BY <2>3, <2>10, HandledType
  <2> HIDE DEF q
  <2>12. OnlyFirst(q.out, "hello") /\ ~Hellos(q.out) /\ ~Confirms(q.out)
    <3>1. "pong" \in Ctrl
      BY DEF Ctrl
    <3>2. /\ OnlyFirst(Append(peer[n].out, "pong"), "hello")
          /\ ~Queued(Append(peer[n].out, "pong"), "hello")
          /\ ~Confirms(Append(peer[n].out, "pong"))
      BY <2>5, <2>6, <2>10, <3>1, QueueAppend, ConfirmsAppend DEF Hellos
    <3> QED
      BY <2>5, <2>6, <2>11, <3>2 DEF Hellos
  <2>13. OnceOK([peer EXCEPT ![n] = q], net')
    BY <1>0, <2>3, <2>4, <2>7, <2>8, <2>9, <2>11, <2>12, OncePeer
  <2> QED
    BY <2>1, <2>13
<1>11. ASSUME NEW i \in DOMAIN net, Drop(i) \/ Lose(i) PROVE OnceOK(peer', net')
  <2>1. net' = RemoveAt(net, i) /\ peer' = peer
    BY <1>11 DEF Drop, Lose
  <2> QED
    BY <1>0, <1>2, <2>1, OnceTaken
<1>12. CASE UNCHANGED vars
  BY <1>2, <1>12 DEF vars
<1> QED
  BY <1>4, <1>5, <1>6, <1>7, <1>8, <1>9, <1>10, <1>11, <1>12 DEF Next, Delivery

\* As long as network and nodes are well-behaved, an open session ends only by
\* silence, whatever either end sends, and in whatever order sessions begin and end
\* (udpProtocol.py:86-131): an open peer is sent no hello and no second confirm.
THEOREM SessionStays == Spec => OpenStays
<1> DEFINE Stays == \A n \in Nodes :
                       Running(n) /\ peer[n].open /\ faults' = 0 =>
                         (Running(n))' \/ peer[n].contact = "lost"
<1>1. Init => OnceInv
  <2> SUFFICES ASSUME Init PROVE OnceOK(peer, net)
    BY DEF OnceInv
  <2>1. peer = [n \in Nodes |-> NoPeer] /\ net = <<>>
    BY DEF Init
  <2>2. NoPeer.out = <<>> /\ ~NoPeer.open
    BY DEF NoPeer
  <2>3. OnlyFirst(NoPeer.out, "hello") /\ ~Confirms(NoPeer.out) /\ ~Hellos(NoPeer.out)
    BY <2>2, QueueNew DEF Confirms, Hellos
  <2> QED
    BY <2>1, <2>2, <2>3 DEF OnceOK, BeginsOnce, AnswersOnce, HelloOK
<1>2. TypeOK /\ LinkInv /\ OnceInv /\ [Next]_vars => [Stays]_vars
  <2> SUFFICES ASSUME TypeOK, OnceInv, Next, NEW n \in Nodes,
                      Running(n), peer[n].open, faults' = 0, ~(Running(n))'
               PROVE  peer[n].contact = "lost"
    OBVIOUS
  <2>0. /\ peer \in [Nodes -> Peer] /\ faults \in Nat /\ net \in Seq(DatagramType)
    BY BoundsAssumption DEF TypeOK
  <2>1. \A k \in Nat : Faults(k) => k = 0 /\ faults = 0
    BY <2>0 DEF Faults
  <2>2. ASSUME NEW l \in Nodes, Timeout(l) PROVE peer[n].contact = "lost"
    BY <2>0, <2>2 DEF Timeout, TimedOut, Stop, Running, Listed, Peer
  <2>3. ASSUME NEW l \in Nodes,
               Start(l) \/ Down(l) \/ SendData(l) \/ Unlist(l) \/ Ping(l) \/ Send(l)
                 \/ SendFails(l) \/ Tick(l)
        PROVE  FALSE
    <3>1. ~Down(l) /\ ~SendFails(l)
      BY <2>1 DEF Down, SendFails
    <3>2. CASE Start(l)
      <4>1. l # n
        BY <3>2 DEF Start, TypeOK, Running
      <4> QED
        BY <2>0, <3>2, <4>1 DEF Start, Running, Listed
    <3>3. CASE Unlist(l)
      BY <2>0, <3>3 DEF Unlist, Running, Listed
    <3>4. CASE SendData(l) \/ Ping(l) \/ Send(l) \/ Tick(l)
      <4>1. Kept(l) /\ peer'[n].stopped = peer[n].stopped
        <5>1. peer[l] \in Peer /\ peer[n] \in Peer
          BY <2>0
        <5>2. CASE SendData(l)
          <6>1. Kept(l)
            BY <5>2, SendDataKeeps
          <6>2. peer'[n].stopped = peer[n].stopped
            BY <2>0, <5>1, <5>2 DEF SendData, Peer
          <6> QED
            BY <6>1, <6>2
        <5>3. CASE Ping(l)
          <6> DEFINE q == [peer[l] EXCEPT !.pinged = TRUE, !.out = Append(@, "ping")]
          <6>1. Kept(l)
            BY <5>3, PingKeeps
          <6>2. q.stopped = peer[l].stopped /\ peer' = [peer EXCEPT ![l] = q]
            BY <2>0, <5>1, <5>3 DEF Ping, Peer
          <6> HIDE DEF q
          <6> QED
            BY <2>0, <6>1, <6>2
        <5>4. CASE Send(l)
          <6> DEFINE q == [peer[l] EXCEPT !.out = Tail(@),
                                          !.open = @ \/ Head(peer[l].out) = "confirm"]
          <6>1. Kept(l)
            BY <5>4, SendKeeps
          <6>2. q.stopped = peer[l].stopped
            BY <5>1 DEF Peer
          <6>3. peer' = [peer EXCEPT ![l] = q]
            BY <2>0, <5>4 DEF Send
          <6> HIDE DEF q
          <6> QED
            BY <2>0, <6>1, <6>2, <6>3
        <5>5. CASE Tick(l)
          <6>1. Kept(l)
            BY <5>5, TickKeeps
          <6>2. peer'[n].stopped = peer[n].stopped
            BY <2>0, <5>1, <5>5 DEF Tick, Peer
          <6> QED
            BY <6>1, <6>2
        <5> QED
          BY <3>4, <5>2, <5>3, <5>4, <5>5
      <4>2. peer'[n].role = peer[n].role
        BY <2>0, <4>1 DEF Kept
      <4> QED
        BY <4>1, <4>2 DEF Running, Listed
    <3> QED
      BY <2>3, <3>1, <3>2, <3>3, <3>4
  <2>4. ASSUME NEW i \in DOMAIN net, NEW dup \in BOOLEAN, Receive(i, dup)
        PROVE  FALSE
    <3> DEFINE l == net[i].at
               c == net[i].ctrl
               h == Heard(peer[l], net[i].from)
    <3>1. /\ net[i].to # Listener /\ ~Nobody(i) /\ Arrives(i, dup)
          /\ peer' = [peer EXCEPT ![l] = Handled(h, c)]
      BY <2>4 DEF Receive
    <3>2. l \in Nodes /\ c \in Ctrl /\ net[i].from \in Nat
      <4>1. net[i] \in DatagramType
        BY <2>0, InRange
      <4> QED
        BY <4>1 DEF DatagramType
    <3>3. l = n
      BY <2>0, <3>1, <3>2 DEF Running, Listed
    <3>4. net[i].to = peer[n].sock
      BY <3>1, <3>3 DEF Nobody
    <3>5. faults = 0
      BY <2>1, <3>1 DEF Arrives
    <3>6. c # "hello" /\ c # "confirm"
      BY <3>1, <3>4, <3>5 DEF OnceInv, OnceOK, BeginsOnce, Begins, Dialer
    <3>7. peer[n] \in Peer
      BY <2>0
    <3>8. h \in Peer /\ h.open /\ ~h.stopped /\ h.role = peer[n].role
      BY <3>2, <3>3, <3>7 DEF Heard, Peer, Running
    <3> HIDE DEF h, l, c
    <3>9. Handled(h, c) = h \/ Handled(h, c) = [h EXCEPT !.out = Append(@, "pong")]
      BY <3>2, <3>6, <3>8 DEF Handled, Ctrl
    <3>10. ~Handled(h, c).stopped /\ Handled(h, c).role = peer[n].role
      BY <3>8, <3>9 DEF Peer
    <3> QED
      BY <2>0, <3>1, <3>3, <3>10 DEF Running, Listed
  <2>5. ASSUME NEW i \in DOMAIN net, NEW dup \in BOOLEAN, Accept(i, dup)
        PROVE  FALSE
    <3>1. net[i].at \in Nodes /\ net[i].at # n
      <4>1. net[i] \in DatagramType
        BY <2>0, InRange
      <4> QED
        BY <2>5, <4>1 DEF Accept, Free, Running, DatagramType
    <3> QED
      BY <2>0, <2>5, <3>1 DEF Accept, NewSession, Running, Listed
  <2>6. ASSUME NEW i \in DOMAIN net, Drop(i) \/ Lose(i) \/ \E dup \in BOOLEAN : Refuse(i, dup)
        PROVE  FALSE
    BY <2>6 DEF Drop, Lose, Refuse, Running, Listed
  <2> QED
    BY <2>2, <2>3, <2>4, <2>5, <2>6 DEF Next, Delivery
<1>3. Init => TypeOK /\ LinkInv
  BY TypeInit, LinkInit
<1>4. TypeOK /\ LinkInv /\ OnceInv /\ [Next]_vars => TypeOK' /\ LinkInv' /\ OnceInv'
  BY TypeNext, LinkNext, OnceNext
<1> QED
  BY <1>1, <1>2, <1>3, <1>4, PTL DEF Spec, OpenStays

------------------------------------------------------------------------------
(* A handshake that has begun goes on *)

\* A dialer that waits for its answer, and the acceptor that gives it: neither has
\* waited long, as no time passes at a peer while something is pending.
Waits(p, s) ==
    /\ p.role = "dialer" /\ p.sock = s /\ p.to = Listener
    /\ ~p.stopped /\ ~p.open /\ p.contact = "recent"
Answers(p, s) ==
    /\ p.role = "acceptor" /\ p.to = s
    /\ ~p.stopped /\ p.contact = "recent"

\* The dialer of a hello waits, and nobody but the listener hears of its socket.
HelloQueued(P, n) == Hellos(P[n].out) => Waits(P[n], P[n].sock)
HelloSent(P, N, i) ==
    N[i].ctrl = "hello" =>
        /\ Waits(P[Other(N[i].at)], N[i].from)
        /\ \A j \in DOMAIN N : /\ N[j].to # N[i].from
                               /\ N[j].from = N[i].from => N[j].to = Listener
        /\ \A l \in Nodes : P[l].to # N[i].from

\* The dialer of a confirm waits, and the confirm is the first thing it will get.
ConfirmQueued(P, N, n) ==
    Confirms(P[n].out) =>
        /\ Answers(P[n], P[n].to) /\ Waits(P[Other(n)], P[n].to)
        /\ \A j \in DOMAIN N : N[j].to # P[n].to
ConfirmSent(P, N, i) ==
    N[i].ctrl = "confirm" =>
        /\ Waits(P[N[i].at], N[i].to)
        /\ Answers(P[Other(N[i].at)], N[i].to)
        /\ P[Other(N[i].at)].open /\ P[Other(N[i].at)].sock = N[i].from
        /\ \A j \in DOMAIN N : /\ N[j].to # N[i].from
                               /\ N[j].to = N[i].to => N[j].from = N[i].from /\ i <= j

TrackOK(P, N) ==
    /\ \A n \in Nodes : HelloQueued(P, n) /\ ConfirmQueued(P, N, n)
    /\ \A i \in DOMAIN N : HelloSent(P, N, i) /\ ConfirmSent(P, N, i)

\* The inductive invariant, as long as nothing goes wrong.
TrackInv == faults = 0 => TrackOK(peer, net)

\* Nothing is pending between the nodes.
LEMMA TrackIdle ==
    ASSUME NEW P, \A n \in Nodes : ~Hellos(P[n].out) /\ ~Confirms(P[n].out)
    PROVE  TrackOK(P, <<>>)
  BY DEF TrackOK, HelloQueued, ConfirmQueued

\* A datagram that is taken off the network.
LEMMA TrackTaken ==
    ASSUME NEW P, NEW N \in Seq(DatagramType), TrackOK(P, N), NEW i \in DOMAIN N
    PROVE  TrackOK(P, RemoveAt(N, i))
<1> DEFINE R == RemoveAt(N, i)
           at(j) == IF j < i THEN j ELSE j + 1
<1>1. /\ DOMAIN R = 1..(Len(N) - 1) /\ DOMAIN N = 1..Len(N) /\ Len(N) \in Nat
      /\ \A j \in 1..(Len(N) - 1) : R[j] = N[at(j)]
  BY RemovedAt
<1>2. \A j \in DOMAIN R : R[j] = N[at(j)] /\ at(j) \in DOMAIN N
  BY <1>1
<1>3. \A j, l \in DOMAIN R : at(j) <= at(l) => j <= l
  BY <1>1
<1> HIDE DEF R, at
<1>4. \A n \in Nodes : HelloQueued(P, n) /\ ConfirmQueued(P, R, n)
  BY <1>2 DEF TrackOK, ConfirmQueued
<1>5. ASSUME NEW j \in DOMAIN R PROVE HelloSent(P, R, j)
  <2>1. HelloSent(P, N, at(j)) /\ R[j] = N[at(j)]
    BY <1>2 DEF TrackOK
  <2> QED
    BY <1>2, <2>1 DEF HelloSent
<1>6. ASSUME NEW j \in DOMAIN R PROVE ConfirmSent(P, R, j)
  <2>1. ConfirmSent(P, N, at(j)) /\ R[j] = N[at(j)]
    BY <1>2 DEF TrackOK
  <2> QED
    BY <1>2, <1>3, <2>1 DEF ConfirmSent
<1> QED
  BY <1>4, <1>5, <1>6 DEF TrackOK, R

\* A peer that goes on, with what begins a session still queued or gone.
Steady(p, q) ==
    /\ q.role = p.role /\ q.sock = p.sock /\ q.to = p.to
    /\ q.stopped = p.stopped /\ q.contact = p.contact
    /\ p.open => q.open
    /\ p.role = "dialer" => (q.open => p.open)
    /\ Hellos(q.out) => Hellos(p.out)
    /\ Confirms(q.out) => Confirms(p.out)

LEMMA TrackSteady ==
    ASSUME NEW P \in [Nodes -> Peer], NEW N \in Seq(DatagramType), TrackOK(P, N),
           NEW n \in Nodes, NEW q \in Peer, Steady(P[n], q)
    PROVE  TrackOK([P EXCEPT ![n] = q], N)
<1> DEFINE P2 == [P EXCEPT ![n] = q]
<1>1. P2[n] = q /\ \A l \in Nodes : l # n => P2[l] = P[l]
  OBVIOUS
<1> HIDE DEF P2
<1>2. \A l \in Nodes : /\ P2[l].sock = P[l].sock /\ P2[l].to = P[l].to
                       /\ P[l].open => P2[l].open
                       /\ Hellos(P2[l].out) => Hellos(P[l].out)
                       /\ Confirms(P2[l].out) => Confirms(P[l].out)
  BY <1>1 DEF Steady
<1>3. \A l \in Nodes : \A s : /\ Waits(P[l], s) => Waits(P2[l], s)
                              /\ Answers(P[l], s) => Answers(P2[l], s)
  BY <1>1 DEF Steady, Waits, Answers
<1>4. ASSUME NEW l \in Nodes PROVE HelloQueued(P2, l) /\ ConfirmQueued(P2, N, l)
  <2>1. HelloQueued(P, l) /\ ConfirmQueued(P, N, l) /\ Other(l) \in Nodes
    BY TheOther DEF TrackOK
  <2> QED
    BY <1>2, <1>3, <2>1 DEF HelloQueued, ConfirmQueued
<1>5. ASSUME NEW i \in DOMAIN N PROVE HelloSent(P2, N, i) /\ ConfirmSent(P2, N, i)
  <2>1. HelloSent(P, N, i) /\ ConfirmSent(P, N, i)
    BY DEF TrackOK
  <2>2. N[i].at \in Nodes /\ Other(N[i].at) \in Nodes
    <3>1. N[i] \in DatagramType
      BY InRange
    <3> QED
      BY <3>1, TheOther DEF DatagramType
  <2> QED
    BY <1>2, <1>3, <2>1, <2>2 DEF HelloSent, ConfirmSent
<1> QED
  BY <1>4, <1>5 DEF TrackOK, P2

\* The peer of n is neither end of a session that is being made, unless it has still
\* to send the packet that begins it.
Apart(P, N, n) ==
    /\ ~Confirms(P[Other(n)].out)
    /\ \A i \in DOMAIN N : /\ N[i].ctrl = "hello" => N[i].at = n
                           /\ N[i].ctrl # "confirm"

LEMMA ApartUnless ==
    ASSUME NEW P, NEW N \in Seq(DatagramType), TrackOK(P, N), NEW n \in Nodes,
           \A s : ~Waits(P[n], s) /\ ~Answers(P[n], s)
    PROVE  Apart(P, N, n)
<1>1. Other(n) \in Nodes /\ Other(Other(n)) = n
  BY TheOther
<1>2. ~Confirms(P[Other(n)].out)
  BY <1>1 DEF TrackOK, ConfirmQueued
<1>3. ASSUME NEW i \in DOMAIN N
      PROVE  (N[i].ctrl = "hello" => N[i].at = n) /\ N[i].ctrl # "confirm"
  <2>1. N[i] \in DatagramType
    BY InRange
  <2>2. N[i].at = n \/ Other(N[i].at) = n
    BY <2>1, TheOther DEF DatagramType
  <2>3. HelloSent(P, N, i) /\ ConfirmSent(P, N, i)
    BY DEF TrackOK
  <2> QED
    BY <2>2, <2>3 DEF HelloSent, ConfirmSent
<1> QED
  BY <1>2, <1>3 DEF Apart

\* Such a peer may become anything, as long as a packet that begins a session is
\* queued only as it should be.
LEMMA TrackApart ==
    ASSUME NEW P \in [Nodes -> Peer], NEW N \in Seq(DatagramType), TrackOK(P, N),
           NEW n \in Nodes, NEW q \in Peer, Apart(P, N, n),
           Hellos(q.out) => Waits(q, q.sock),
           Confirms(q.out) =>
              /\ Answers(q, q.to) /\ Waits(P[Other(n)], q.to)
              /\ \A j \in DOMAIN N : N[j].to # q.to,
           \A i \in DOMAIN N : N[i].ctrl = "hello" => q.to # N[i].from
    PROVE  TrackOK([P EXCEPT ![n] = q], N)
<1> DEFINE P2 == [P EXCEPT ![n] = q]
<1>1. P2[n] = q /\ \A l \in Nodes : l # n => P2[l] = P[l]
  OBVIOUS
<1> HIDE DEF P2
<1>2. Other(n) \in Nodes /\ Other(n) # n /\ \A l \in Nodes : l = n \/ l = Other(n)
  BY TheOther
<1>3. ASSUME NEW l \in Nodes PROVE HelloQueued(P2, l) /\ ConfirmQueued(P2, N, l)
  <2>1. CASE l = n
    BY <1>1, <1>2, <2>1 DEF HelloQueued, ConfirmQueued
  <2>2. CASE l = Other(n)
    BY <1>1, <1>2, <2>2 DEF TrackOK, HelloQueued, ConfirmQueued, Apart
  <2> QED
    BY <1>2, <2>1, <2>2
<1>4. ASSUME NEW i \in DOMAIN N PROVE HelloSent(P2, N, i) /\ ConfirmSent(P2, N, i)
  <2>1. HelloSent(P, N, i)
    BY DEF TrackOK
  <2>2. (N[i].ctrl = "hello" => N[i].at = n) /\ N[i].ctrl # "confirm"
    BY DEF Apart
  <2>3. N[i].ctrl = "hello" => \A l \in Nodes : P2[l].to # N[i].from
    BY <1>1, <2>1 DEF HelloSent
  <2> QED
    BY <1>1, <1>2, <2>1, <2>2, <2>3 DEF HelloSent, ConfirmSent
<1> QED
  BY <1>3, <1>4 DEF TrackOK, P2

\* A datagram that is sent.
LEMMA TrackSent ==
    ASSUME NEW P, NEW N \in Seq(DatagramType), TrackOK(P, N), NEW m \in DatagramType,
           m.ctrl = "hello" =>
              /\ Waits(P[Other(m.at)], m.from) /\ m.to = Listener /\ m.to # m.from
              /\ \A j \in DOMAIN N : N[j].to # m.from /\ N[j].from # m.from
              /\ \A l \in Nodes : P[l].to # m.from,
           m.ctrl = "confirm" =>
              /\ Waits(P[m.at], m.to) /\ Answers(P[Other(m.at)], m.to)
              /\ P[Other(m.at)].open /\ P[Other(m.at)].sock = m.from /\ m.to # m.from
              /\ \A j \in DOMAIN N : N[j].to # m.from /\ N[j].to # m.to,
           \A n \in Nodes : Confirms(P[n].out) => m.to # P[n].to,
           \A i \in DOMAIN N : N[i].ctrl = "hello" =>
              m.to # N[i].from /\ (m.from = N[i].from => m.to = Listener),
           \A i \in DOMAIN N : N[i].ctrl = "confirm" =>
              m.to # N[i].from /\ (m.to = N[i].to => m.from = N[i].from)
    PROVE  TrackOK(P, Append(N, m))
<1> DEFINE A == Append(N, m)
<1>1. /\ DOMAIN A = 1..(Len(N) + 1) /\ DOMAIN N = 1..Len(N) /\ Len(N) \in Nat
      /\ \A i \in 1..Len(N) : A[i] = N[i]
      /\ A[Len(N) + 1] = m
  BY AppendProperties
<1> HIDE DEF A
<1>2. \A i \in DOMAIN A : \/ i \in DOMAIN N /\ A[i] = N[i] /\ i <= Len(N) + 1
                          \/ i = Len(N) + 1 /\ A[i] = m
  BY <1>1
<1>3. \A n \in Nodes : HelloQueued(P, n) /\ ConfirmQueued(P, A, n)
  BY <1>2 DEF TrackOK, ConfirmQueued
<1>4. ASSUME NEW i \in DOMAIN A PROVE HelloSent(P, A, i) /\ ConfirmSent(P, A, i)
  <2>1. CASE i \in DOMAIN N /\ A[i] = N[i] /\ i <= Len(N) + 1
    <3>1. HelloSent(P, N, i) /\ ConfirmSent(P, N, i)
      BY <2>1 DEF TrackOK
    <3>2. HelloSent(P, A, i)
      BY <1>2, <2>1, <3>1 DEF HelloSent
    <3>3. ConfirmSent(P, A, i)
      BY <1>2, <2>1, <3>1 DEF ConfirmSent
    <3> QED
      BY <3>2, <3>3
  <2>2. CASE i = Len(N) + 1 /\ A[i] = m
    <3>1. HelloSent(P, A, i)
      BY <1>2, <2>2 DEF HelloSent
    <3>2. i <= i
      BY <1>1, <2>2
    <3>3. ConfirmSent(P, A, i)
      BY <1>2, <2>2, <3>2 DEF ConfirmSent
    <3> QED
      BY <3>1, <3>3
  <2> QED
    BY <1>2, <2>1, <2>2
<1> QED
  BY <1>3, <1>4 DEF TrackOK, A

\* Packets that the application and the send loop queue.
LEMMA QueueKeeps ==
    ASSUME TypeOK, NEW n \in Nodes, SendData(n) \/ Ping(n)
    PROVE  \E c \in {"data", "ping"}, q \in Peer :
              /\ peer' = [peer EXCEPT ![n] = q] /\ q.out = Append(peer[n].out, c)
              /\ q.role = peer[n].role /\ q.sock = peer[n].sock /\ q.to = peer[n].to
              /\ q.stopped = peer[n].stopped /\ q.contact = peer[n].contact
              /\ q.open = peer[n].open
<1>1. peer \in [Nodes -> Peer] /\ peer[n] \in Peer
  BY DEF TypeOK
<1>2. CASE SendData(n)
  <2> DEFINE q == [peer[n] EXCEPT !.out = Append(@, "data")]
  <2>1. q \in Peer /\ peer' = [peer EXCEPT ![n] = q]
    BY <1>1, <1>2, QueueType DEF SendData, Peer
  <2>2. /\ q.out = Append(peer[n].out, "data")
        /\ q.role = peer[n].role /\ q.sock = peer[n].sock /\ q.to = peer[n].to
        /\ q.stopped = peer[n].stopped /\ q.contact = peer[n].contact
        /\ q.open = peer[n].open
    BY <1>1 DEF Peer
  <2> QED
    BY <2>1, <2>2
<1>3. CASE Ping(n)
  <2> DEFINE q == [peer[n] EXCEPT !.pinged = TRUE, !.out = Append(@, "ping")]
  <2>1. q \in Peer /\ peer' = [peer EXCEPT ![n] = q]
    BY <1>1, <1>3, QueueType DEF Ping, Peer
  <2>2. /\ q.out = Append(peer[n].out, "ping")
        /\ q.role = peer[n].role /\ q.sock = peer[n].sock /\ q.to = peer[n].to
        /\ q.stopped = peer[n].stopped /\ q.contact = peer[n].contact
        /\ q.open = peer[n].open
    BY <1>1 DEF Peer
  <2> QED
    BY <2>1, <2>2
<1> QED
  BY <1>2, <1>3

LEMMA QueueTrack ==
    ASSUME TypeOK, LinkInv, OnceOK(peer, net), TrackOK(peer, net), NEW n \in Nodes,
           SendData(n) \/ Ping(n)
    PROVE  TrackOK(peer', net)
<1>1. /\ peer \in [Nodes -> Peer] /\ net \in Seq(DatagramType)
      /\ peer[n] \in Peer /\ peer[n].out \in Seq(Ctrl)
  BY DEF TypeOK, Peer
<1>2. OnlyFirst(peer[n].out, "hello") /\ OnlyFirst(peer[n].out, "confirm")
  BY DEF LinkInv, LinkOK, PeerOK, ConfirmFirst, OnceOK, HelloOK
<1>3. PICK c \in {"data", "ping"}, q \in Peer :
        /\ peer' = [peer EXCEPT ![n] = q] /\ q.out = Append(peer[n].out, c)
        /\ q.role = peer[n].role /\ q.sock = peer[n].sock /\ q.to = peer[n].to
        /\ q.stopped = peer[n].stopped /\ q.contact = peer[n].contact
        /\ q.open = peer[n].open
  BY QueueKeeps
<1>4. c \in Ctrl /\ c # "hello" /\ c # "confirm"
  BY DEF Ctrl
<1>5. /\ Hellos(q.out) => Hellos(peer[n].out)
      /\ Confirms(q.out) => Confirms(peer[n].out)
  BY <1>1, <1>2, <1>3, <1>4, QueueAppend DEF Hellos, Confirms
<1>6. Steady(peer[n], q)
  BY <1>3, <1>5 DEF Steady
<1> QED
  BY <1>1, <1>3, <1>6, TrackSteady

LEMMA SendPeer ==
    ASSUME TypeOK, NEW n \in Nodes, Send(n)
    PROVE  \E q \in Peer :
              /\ peer' = [peer EXCEPT ![n] = q] /\ q.out = Tail(peer[n].out)
              /\ q.role = peer[n].role /\ q.sock = peer[n].sock /\ q.to = peer[n].to
              /\ q.stopped = peer[n].stopped /\ q.contact = peer[n].contact
              /\ peer[n].open => q.open
              /\ q.open => peer[n].open \/ Head(peer[n].out) = "confirm"
              /\ Head(peer[n].out) = "confirm" => q.open
<1> DEFINE q == [peer[n] EXCEPT !.out = Tail(@),
                                !.open = @ \/ Head(peer[n].out) = "confirm"]
<1>1. peer \in [Nodes -> Peer] /\ peer[n] \in Peer /\ peer[n].out # <<>>
  BY DEF TypeOK, Send, Idle
<1>2. q \in Peer /\ peer' = [peer EXCEPT ![n] = q]
  BY <1>1, QueueType DEF Send, Peer
<1>3. /\ q.out = Tail(peer[n].out)
      /\ q.role = peer[n].role /\ q.sock = peer[n].sock /\ q.to = peer[n].to
      /\ q.stopped = peer[n].stopped /\ q.contact = peer[n].contact
      /\ peer[n].open => q.open
      /\ q.open => peer[n].open \/ Head(peer[n].out) = "confirm"
      /\ Head(peer[n].out) = "confirm" => q.open
  BY <1>1 DEF Peer
<1> QED
  BY <1>2, <1>3

\* A packet that is sent: what was true of it in the queue is true of it on its way.
LEMMA SendTrack ==
    ASSUME TypeOK, LinkInv, OnceOK(peer, net), TrackOK(peer, net), NEW n \in Nodes,
           Send(n)
    PROVE  TrackOK(peer', net')
<1> DEFINE p == peer[n]
           m == Datagram(Head(p.out), n, p.sock, p.to)
<1>1. /\ m \in DatagramType /\ net' = Append(net, m) /\ p.out # <<>> /\ Listed(n)
  BY SendKeeps
<1>2. /\ peer \in [Nodes -> Peer] /\ net \in Seq(DatagramType) /\ p.out \in Seq(Ctrl)
      /\ p \in Peer /\ p.role # "none" /\ \A i \in DOMAIN net : net[i] \in Range(net)
  BY <1>1, InRange DEF TypeOK, Peer, Listed
<1>3. /\ PeerOK(p, socks) /\ Unseen(peer, Range(net), n) /\ HelloOK(peer, net, n)
      /\ OnlyFirst(p.out, "hello") /\ OnlyFirst(p.out, "confirm")
      /\ HelloQueued(peer, n) /\ ConfirmQueued(peer, net, n)
  BY DEF LinkInv, LinkOK, OnceOK, HelloOK, PeerOK, ConfirmFirst, TrackOK
<1>4. /\ m.ctrl = Head(p.out) /\ m.from = p.sock /\ m.to = p.to
      /\ m.at = Other(n) /\ Other(m.at) = n
      /\ Other(n) \in Nodes /\ Other(n) # n /\ \A l \in Nodes : l = n \/ l = Other(n)
  BY TheOther DEF Datagram
<1>5. Head(p.out) = p.out[1] /\ 1 \in DOMAIN p.out
  BY <1>1, <1>2, EmptySeq, LenProperties
<1>6. /\ m.ctrl = "hello" => Hellos(p.out)
      /\ m.ctrl = "confirm" => Confirms(p.out)
  BY <1>4, <1>5 DEF Hellos, Confirms, Queued
<1>7. PICK q \in Peer :
        /\ peer' = [peer EXCEPT ![n] = q] /\ q.out = Tail(p.out)
        /\ q.role = p.role /\ q.sock = p.sock /\ q.to = p.to
        /\ q.stopped = p.stopped /\ q.contact = p.contact
        /\ p.open => q.open
        /\ q.open => p.open \/ Head(p.out) = "confirm"
        /\ Head(p.out) = "confirm" => q.open
  BY SendPeer
<1>8. /\ q.open => p.open \/ m.ctrl = "confirm"
      /\ m.ctrl = "confirm" => q.open
  BY <1>4, <1>7
<1> HIDE DEF m
<1>9. ~Hellos(q.out) /\ ~Confirms(q.out)
  BY <1>1, <1>2, <1>3, <1>7, <1>8, QueueTail DEF Hellos, Confirms
<1>10. p.role = "dialer" => (q.open => p.open)
  BY <1>3, <1>6, <1>7, <1>8 DEF PeerOK
<1>11. TrackOK(peer', net)
  <2>1. Steady(p, q)
    BY <1>7, <1>8, <1>9, <1>10 DEF Steady
  <2> QED
    BY <1>2, <1>7, <2>1, TrackSteady
<1>12. /\ peer'[n] = q /\ \A l \in Nodes : l # n => peer'[l] = peer[l]
       /\ \A l \in Nodes : peer'[l].to = peer[l].to
  BY <1>2, <1>7, <1>8
<1>13. p.sock \in 1..socks /\ p.to \in 0..socks /\ socks \in Nat
  BY <1>2, <1>3 DEF PeerOK, TypeOK
<1>14. peer[Other(n)].role # "none" => peer[Other(n)].sock # p.sock
  BY <1>2 DEF LinkInv, LinkOK, Ordered
<1>15. \A i \in DOMAIN net :
          /\ net[i] \in DatagramType /\ DatagramOK(net[i], peer, socks)
          /\ HelloSent(peer, net, i) /\ ConfirmSent(peer, net, i)
          /\ net[i].at = n \/ net[i].at = Other(n)
          /\ net[i].at = Other(n) => Other(net[i].at) = n
  <2>1. \A i \in DOMAIN net : net[i] \in DatagramType
    BY <1>2, InRange
  <2> QED
    BY <1>2, <1>4, <2>1, TheOther DEF LinkInv, LinkOK, TrackOK, DatagramType
<1>16. m.ctrl = "hello" =>
          /\ Waits(peer'[Other(m.at)], m.from) /\ m.to = Listener /\ m.to # m.from
          /\ \A j \in DOMAIN net : net[j].to # m.from /\ net[j].from # m.from
          /\ \A l \in Nodes : peer'[l].to # m.from
  <2> SUFFICES ASSUME m.ctrl = "hello"
               PROVE  /\ Waits(q, p.sock) /\ p.to = Listener /\ p.to # p.sock
                      /\ \A j \in DOMAIN net : net[j].to # p.sock /\ net[j].from # p.sock
                      /\ \A l \in Nodes : peer[l].to # p.sock
    BY <1>4, <1>12
  <2>1. Waits(p, p.sock)
    BY <1>3, <1>6 DEF HelloQueued
  <2>2. Waits(q, p.sock) /\ p.to = Listener
    BY <1>7, <1>8, <1>10, <2>1 DEF Waits
  <2>3. p.to # p.sock
    BY <1>13, <2>2 DEF Listener
  <2> QED
    BY <1>3, <1>6, <2>2, <2>3 DEF HelloOK
<1>17. m.ctrl = "confirm" =>
          /\ Waits(peer'[m.at], m.to) /\ Answers(peer'[Other(m.at)], m.to)
          /\ peer'[Other(m.at)].open /\ peer'[Other(m.at)].sock = m.from /\ m.to # m.from
          /\ \A j \in DOMAIN net : net[j].to # m.from /\ net[j].to # m.to
  <2> SUFFICES ASSUME m.ctrl = "confirm"
               PROVE  /\ Waits(peer[Other(n)], p.to) /\ Answers(q, p.to)
                      /\ q.open /\ q.sock = p.sock /\ p.to # p.sock
                      /\ \A j \in DOMAIN net : net[j].to # p.sock /\ net[j].to # p.to
    BY <1>4, <1>12
  <2>1. Confirms(p.out)
    BY <1>6
  <2>2. Answers(p, p.to) /\ Waits(peer[Other(n)], p.to) /\ \A j \in DOMAIN net : net[j].to # p.to
    BY <1>3, <2>1 DEF ConfirmQueued
  <2>3. Answers(q, p.to)
    BY <1>7, <1>8, <2>2 DEF Answers
  <2>4. p.to # p.sock
    BY <1>3, <1>13, <2>1 DEF PeerOK
  <2>5. \A j \in DOMAIN net : net[j].to # p.sock
    BY <1>2, <1>3, <2>1 DEF Unseen
  <2> QED
    BY <1>7, <1>8, <2>2, <2>3, <2>4, <2>5
<1>18. \A l \in Nodes : Confirms(peer'[l].out) => m.to # peer'[l].to
  <2> SUFFICES ASSUME Confirms(peer[Other(n)].out)
               PROVE  p.to # peer[Other(n)].to
    BY <1>4, <1>9, <1>12
  <2>1. Waits(p, peer[Other(n)].to)
    BY <1>4, TheOther DEF TrackOK, ConfirmQueued
  <2> QED
    BY <1>13, <2>1 DEF Waits, Listener
<1>19. ASSUME NEW i \in DOMAIN net, net[i].ctrl = "hello"
       PROVE  m.to # net[i].from /\ (m.from = net[i].from => m.to = Listener)
  <2>1. /\ Waits(peer[Other(net[i].at)], net[i].from)
        /\ \A l \in Nodes : peer[l].to # net[i].from
    BY <1>15, <1>19 DEF HelloSent
  <2>2. CASE net[i].at = Other(n)
    BY <1>4, <1>15, <2>1, <2>2 DEF Waits
  <2>3. CASE net[i].at = n
    BY <1>4, <1>14, <2>1, <2>3 DEF Waits
  <2> QED
    BY <1>15, <2>2, <2>3
<1>20. ASSUME NEW i \in DOMAIN net, net[i].ctrl = "confirm"
       PROVE  m.to # net[i].from /\ (m.to = net[i].to => m.from = net[i].from)
  <2>1. /\ Waits(peer[net[i].at], net[i].to)
        /\ Answers(peer[Other(net[i].at)], net[i].to)
        /\ peer[Other(net[i].at)].sock = net[i].from
    BY <1>15, <1>20 DEF ConfirmSent
  <2>2. net[i].from \in 1..socks /\ net[i].to \in 0..socks /\ net[i].to < net[i].from
    BY <1>15, <1>20 DEF DatagramOK
  <2>3. CASE net[i].at = Other(n)
    <3>1. p.to = net[i].to /\ p.sock = net[i].from
      BY <1>15, <2>1, <2>3 DEF Answers
    <3> QED
      BY <1>4, <1>13, <2>2, <3>1
  <2>4. CASE net[i].at = n
    <3>1. p.to = 0 /\ p.sock = net[i].to
      BY <2>1, <2>4 DEF Waits, Listener
    <3> QED
      BY <1>4, <1>13, <2>2, <3>1
  <2> QED
    BY <1>15, <2>3, <2>4
<1> QED
  BY <1>1, <1>2, <1>11, <1>16, <1>17, <1>18, <1>19, <1>20, TrackSent

\* What is on its way after datagram i is taken off was on its way before.
LEMMA OneOfOthers ==
    ASSUME NEW N \in Seq(DatagramType), NEW i \in DOMAIN N, NEW j \in DOMAIN RemoveAt(N, i)
    PROVE  \E l \in DOMAIN N : l # i /\ RemoveAt(N, i)[j] = N[l]
<1>1. /\ j \in 1..(Len(N) - 1) /\ DOMAIN N = 1..Len(N) /\ Len(N) \in Nat
      /\ RemoveAt(N, i)[j] = N[IF j < i THEN j ELSE j + 1]
  BY RemovedAt
<1>2. (IF j < i THEN j ELSE j + 1) \in DOMAIN N /\ (IF j < i THEN j ELSE j + 1) # i
  BY <1>1
<1> QED
  BY <1>1, <1>2

\* A hello that is accepted: the answer to it is queued.
LEMMA AcceptTrack ==
    ASSUME TypeOK, LinkInv, OnceOK(peer, net), TrackOK(peer, net),
           NEW i \in DOMAIN net, NEW dup \in BOOLEAN, Accept(i, dup),
           net' = RemoveAt(net, i)
    PROVE  TrackOK(peer', net')
<1> DEFINE n == net[i].at
           q == NewPeer("acceptor", socks + 1, net[i].from, "confirm")
<1>1. /\ peer' = [peer EXCEPT ![n] = q] /\ net[i].ctrl = "hello" /\ peer[n].role = "none"
  BY DEF Accept, AtListener, NewSession, Free, Listed
<1>2. /\ peer \in [Nodes -> Peer] /\ net \in Seq(DatagramType) /\ socks \in Nat
      /\ net[i] \in DatagramType /\ net' \in Seq(DatagramType)
  BY InRange, Removed DEF TypeOK
<1>3. n \in Nodes /\ net[i].from \in Nat /\ socks + 1 \in Nat /\ "confirm" \in Ctrl
  BY <1>2 DEF DatagramType, Ctrl
<1>4. /\ q \in Peer /\ q.to = net[i].from /\ q.out = <<"confirm">>
      /\ Answers(q, q.to)
  <2>1. /\ q \in Peer /\ q.to = net[i].from /\ q.out = <<"confirm">>
        /\ q.role = "acceptor"
    BY <1>3, NewPeerType
  <2>2. ~q.stopped /\ q.contact = "recent"
    BY DEF NewPeer, NoPeer
  <2> QED
    BY <2>1, <2>2 DEF Answers
<1> HIDE DEF n, q
<1>5. TrackOK(peer, net') /\ Unbegun(peer, net', net[i].from)
  BY <1>1, <1>2, TrackTaken, OnceTaken DEF Begins, Dialer
<1>6. Apart(peer, net', n)
  <2>1. \A s : ~Waits(peer[n], s) /\ ~Answers(peer[n], s)
    BY <1>1 DEF Waits, Answers
  <2> QED
    BY <1>2, <1>3, <1>5, <2>1, ApartUnless
<1>7. ~Hellos(q.out)
  BY <1>4, QueueNew DEF Hellos
<1>8. /\ Waits(peer[Other(n)], q.to)
      /\ \A j \in DOMAIN net : net[j].to # q.to
  BY <1>1, <1>4 DEF TrackOK, HelloSent, n
<1>9. \A j \in DOMAIN net' : net'[j].to # q.to
  BY <1>2, <1>8, OneOfOthers
<1>10. \A j \in DOMAIN net' : net'[j].ctrl = "hello" => q.to # net'[j].from
  BY <1>4, <1>5 DEF Unbegun, Begins, Dialer
<1> QED
  BY <1>1, <1>2, <1>3, <1>4, <1>5, <1>6, <1>7, <1>8, <1>9, <1>10, TrackApart

\* What a peer takes in is never the packet that begins somebody else's session: it
\* ends a session's handshake, or comes when there is none.
LEMMA ReceiveTrack ==
    ASSUME TypeOK, LinkInv, OnceOK(peer, net), TrackOK(peer, net),
           NEW i \in DOMAIN net, NEW dup \in BOOLEAN, Receive(i, dup),
           net' = RemoveAt(net, i), ~Overtakes(i)
    PROVE  TrackOK(peer', net')
<1> DEFINE n == net[i].at
           from == net[i].from
           c == net[i].ctrl
           q == Handled(Heard(peer[n], from), c)
<1>1. /\ peer' = [peer EXCEPT ![n] = q] /\ net[i].to # Listener /\ ~Nobody(i)
  BY DEF Receive
<1>2. /\ peer \in [Nodes -> Peer] /\ net \in Seq(DatagramType)
      /\ net[i] \in DatagramType /\ net[i] \in Range(net) /\ net' \in Seq(DatagramType)
  BY InRange, Removed DEF TypeOK
<1>3. /\ n \in Nodes /\ from \in Nat /\ c \in Ctrl
      /\ Other(n) \in Nodes /\ Other(Other(n)) = n
      /\ \A l \in Nodes : l = n \/ l = Other(n)
  BY <1>2, TheOther DEF DatagramType
<1>4. net[i].to = peer[n].sock
  BY <1>1 DEF Nobody
<1>5. ~Confirms(peer[n].out) /\ ~Hellos(peer[n].out)
  BY <1>2, <1>3, <1>4 DEF LinkInv, LinkOK, Unseen, OnceOK, HelloOK
<1>6. ConfirmFirst(peer[n].out) /\ OnlyFirst(peer[n].out, "hello")
  BY <1>3 DEF LinkInv, LinkOK, PeerOK, OnceOK, HelloOK
<1>7. TrackOK(peer, net')
  BY <1>2, TrackTaken
<1> HIDE DEF n, from, c
<1>8. peer[n] \in Peer /\ peer[n].out \in Seq(Ctrl)
  BY <1>2, <1>3 DEF Peer
<1>9. /\ q \in Peer /\ q.to = from
      /\ q.out = peer[n].out \/ q.out = Append(peer[n].out, "pong")
  BY <1>3, <1>8, HandledType
<1> HIDE DEF q
<1>10. ~Hellos(q.out) /\ ~Confirms(q.out)
  <2>1. "pong" \in Ctrl
    BY DEF Ctrl
  <2>2. /\ ~Queued(Append(peer[n].out, "pong"), "hello")
        /\ ~Confirms(Append(peer[n].out, "pong"))
    BY <1>5, <1>6, <1>8, <2>1, QueueAppend, ConfirmsAppend DEF Hellos
  <2> QED
    BY <1>5, <1>9, <2>2 DEF Hellos
<1>11. ~Confirms(peer[Other(n)].out)
  BY <1>3, <1>4 DEF TrackOK, ConfirmQueued, Waits
<1>12. ASSUME NEW j \in DOMAIN net'
       PROVE  /\ net'[j].ctrl = "hello" => net'[j].at = n /\ from # net'[j].from
              /\ net'[j].ctrl # "confirm"
  <2>1. PICK l \in DOMAIN net : l # i /\ net'[j] = net[l]
    BY <1>2, OneOfOthers
  <2>2. HelloSent(peer, net, l) /\ ConfirmSent(peer, net, l)
    BY DEF TrackOK
  <2>3. net[l].at \in Nodes
    <3>1. net[l] \in DatagramType
      BY <1>2, InRange
    <3> QED
      BY <3>1 DEF DatagramType
  <2>4. CASE net[l].at = n
    <3>1. net[l].ctrl # "confirm"
      <4>1. SUFFICES ASSUME net[l].ctrl = "confirm" PROVE FALSE
        OBVIOUS
      <4>2. net[l].to = net[i].to
        BY <1>4, <2>2, <2>4, <4>1 DEF ConfirmSent, Waits
      <4>3. net[i].from = net[l].from /\ l <= i
        BY <2>2, <4>1, <4>2 DEF ConfirmSent
      <4>4. l \in 1..(i - 1)
        BY <1>2, <2>1, <4>3
      <4> QED
        BY <4>3, <4>4 DEF Overtakes
    <3>2. net[l].ctrl = "hello" => from # net[l].from
      BY <1>1, <2>2 DEF HelloSent, from
    <3> QED
      BY <2>1, <2>4, <3>1, <3>2
  <2>5. CASE net[l].at = Other(n)
    <3>1. net[l].ctrl # "hello"
      BY <1>3, <1>4, <2>2, <2>5 DEF HelloSent, Waits
    <3>2. net[l].ctrl # "confirm"
      BY <1>3, <1>4, <2>2, <2>5 DEF ConfirmSent
    <3> QED
      BY <2>1, <3>1, <3>2
  <2> QED
    BY <1>3, <2>3, <2>4, <2>5
<1>13. Apart(peer, net', n)
  BY <1>11, <1>12 DEF Apart
<1> QED
  BY <1>1, <1>2, <1>3, <1>7, <1>9, <1>10, <1>12, <1>13, TrackApart

LEMMA TrackNext == TypeOK /\ LinkInv /\ OnceInv /\ TrackInv /\ [Next]_vars => TrackInv'
<1> SUFFICES ASSUME TypeOK, LinkInv, OnceInv, TrackInv, [Next]_vars, faults' = 0
             PROVE  TrackOK(peer', net')
  BY DEF TrackInv
<1>1. /\ faults = 0 /\ \A k \in Nat : Faults(k) => k = 0
      /\ \A i \in DOMAIN net, dup \in BOOLEAN : Arrives(i, dup) =>
            net' = RemoveAt(net, i) /\ ~Overtakes(i)
  BY NoFaults
<1>2. /\ peer \in [Nodes -> Peer] /\ net \in Seq(DatagramType) /\ socks \in Nat
      /\ OnceOK(peer, net) /\ TrackOK(peer, net)
      /\ \A m \in Range(net) : m.from \in 1..socks
      /\ \A i \in DOMAIN net : net[i] \in Range(net)
  BY <1>1, InRange DEF TypeOK, OnceInv, TrackInv, LinkInv, LinkOK, DatagramOK
\* A new dialer: there was no peer, so nothing began a session with one.
<1>3. ASSUME NEW n \in Nodes, Start(n) PROVE TrackOK(peer', net')
  <2>1. net' = net /\ peer[n].role = "none"
    BY <1>3 DEF Start, TypeOK, Listed
  <2>2. CASE n \in Bootstraps
    <3> DEFINE q == NewPeer("dialer", socks + 1, Listener, "hello")
    <3>1. peer' = [peer EXCEPT ![n] = q]
      BY <1>3, <2>2 DEF Start
    <3>2. socks + 1 \in Nat /\ Listener \in Nat /\ "hello" \in Ctrl
      BY <1>2 DEF Ctrl, Listener
    <3>3. q \in Peer /\ q.out = <<"hello">> /\ q.to = Listener /\ Waits(q, q.sock)
      <4>1. /\ q \in Peer /\ ~q.open /\ q.out = <<"hello">>
            /\ q.role = "dialer" /\ q.to = Listener
        BY <3>2, NewPeerType
      <4>2. ~q.stopped /\ q.contact = "recent"
        BY DEF NewPeer, NoPeer
      <4> QED
        BY <4>1, <4>2 DEF Waits
    <3> HIDE DEF q
    <3>4. ~Confirms(q.out)
      BY <3>3, QueueNew DEF Confirms
    <3>5. \A i \in DOMAIN net : net[i].ctrl = "hello" => q.to # net[i].from
      BY <1>2, <3>3 DEF Listener
    <3>6. Apart(peer, net, n)
      <4>1. \A s : ~Waits(peer[n], s) /\ ~Answers(peer[n], s)
        BY <2>1 DEF Waits, Answers
      <4> QED
        BY <1>2, <4>1, ApartUnless
    <3> QED
      BY <1>2, <2>1, <3>1, <3>3, <3>4, <3>5, <3>6, TrackApart
  <2>3. CASE n \notin Bootstraps
    BY <1>2, <1>3, <2>1, <2>3 DEF Start
  <2> QED
    BY <2>2, <2>3
<1>4. ASSUME NEW n \in Nodes PROVE ~Down(n) /\ ~SendFails(n)
  BY <1>1 DEF Down, SendFails
\* A peer that is removed was stopped; one that times out is heard of no more.
<1>5. ASSUME NEW n \in Nodes, Unlist(n) \/ Timeout(n) PROVE TrackOK(peer', net')
  <2>1. net' = net /\ \A s : ~Waits(peer[n], s) /\ ~Answers(peer[n], s)
    BY <1>5 DEF Unlist, Timeout, TimedOut, Waits, Answers
  <2>2. Apart(peer, net, n)
    BY <1>2, <2>1, ApartUnless
  <2>3. ~Hellos(peer[n].out) /\ ~Confirms(peer[n].out)
    BY <1>2, <2>1 DEF TrackOK, HelloQueued, ConfirmQueued
  <2>4. \A i \in DOMAIN net : net[i].ctrl = "hello" => peer[n].to # net[i].from
    BY <1>2 DEF TrackOK, HelloSent
  <2>5. PICK q \in Peer : /\ peer' = [peer EXCEPT ![n] = q]
                          /\ ~Hellos(q.out) /\ ~Confirms(q.out)
                          /\ q.to = peer[n].to \/ q.to = Listener
    <3>1. CASE Unlist(n)
      <4>1. NoPeer \in Peer /\ NoPeer.out = <<>> /\ NoPeer.to = Listener
        BY NoPeerType DEF NoPeer, Listener
      <4>2. ~Hellos(NoPeer.out) /\ ~Confirms(NoPeer.out)
        BY <4>1, QueueNew DEF Hellos, Confirms
      <4> QED
        BY <3>1, <4>1, <4>2 DEF Unlist
    <3>2. CASE Timeout(n)
      <4> DEFINE q == [peer[n] EXCEPT !.stopped = TRUE]
      <4>1. peer[n] \in Peer
        BY <1>2
      <4>2. q \in Peer /\ q.out = peer[n].out /\ q.to = peer[n].to
        BY <4>1 DEF Peer
      <4>3. peer' = [peer EXCEPT ![n] = q]
        BY <1>2, <3>2 DEF Timeout, Stop
      <4> HIDE DEF q
      <4> QED
        BY <2>3, <4>2, <4>3
    <3> QED
      BY <1>5, <3>1, <3>2
  <2>6. \A i \in DOMAIN net : net[i].ctrl = "hello" => q.to # net[i].from
    BY <1>2, <2>4, <2>5 DEF Listener
  <2> QED
    BY <1>2, <2>1, <2>2, <2>5, <2>6, TrackApart
<1>6. ASSUME NEW n \in Nodes, SendData(n) \/ Ping(n) PROVE TrackOK(peer', net')
  <2>1. net' = net
    BY <1>6 DEF SendData, Ping
  <2> QED
    BY <1>2, <1>6, <2>1, QueueTrack
<1>7. ASSUME NEW n \in Nodes, Send(n) PROVE TrackOK(peer', net')
  BY <1>2, <1>7, SendTrack
\* Time passes only while nothing is pending.
<1>8. ASSUME NEW n \in Nodes, Tick(n) PROVE TrackOK(peer', net')
  <2>1. net' = net /\ ~Pending
    BY <1>1, <1>8 DEF Tick
  <2>2. net = <<>> /\ \A l \in Nodes : Running(l) => peer[l].out = <<>>
    BY <2>1 DEF Pending
  <2>3. ASSUME NEW l \in Nodes PROVE ~Hellos(peer'[l].out) /\ ~Confirms(peer'[l].out)
    <3>1. peer'[l].out = peer[l].out
      <4>1. peer[n] \in Peer /\ peer[l] \in Peer
        BY <1>2
      <4> DEFINE q == [peer[n] EXCEPT !.contact = IF @ = "recent" THEN "quiet" ELSE "lost"]
      <4>2. q.out = peer[n].out /\ peer' = [peer EXCEPT ![n] = q]
        BY <1>2, <1>8, <4>1 DEF Tick, Peer
      <4> HIDE DEF q
      <4> QED
        BY <1>2, <4>2
    <3>2. Running(l) => ~Hellos(peer[l].out) /\ ~Confirms(peer[l].out)
      BY <2>2, QueueNew DEF Hellos, Confirms
    <3>3. Hellos(peer[l].out) \/ Confirms(peer[l].out) => Running(l)
      BY <1>2 DEF TrackOK, HelloQueued, ConfirmQueued, Waits, Answers, Running, Listed
    <3> QED
      BY <3>1, <3>2, <3>3
  <2> QED
    BY <2>1, <2>2, <2>3, TrackIdle
<1>9. ASSUME NEW i \in DOMAIN net, NEW dup \in BOOLEAN, Accept(i, dup)
      PROVE  TrackOK(peer', net')
  <2>1. net' = RemoveAt(net, i)
    BY <1>1, <1>9 DEF Accept, AtListener
  <2> QED
    BY <1>2, <1>9, <2>1, AcceptTrack
<1>10. ASSUME NEW i \in DOMAIN net, NEW dup \in BOOLEAN, Receive(i, dup)
       PROVE  TrackOK(peer', net')
  <2>1. net' = RemoveAt(net, i) /\ ~Overtakes(i)
    BY <1>1, <1>10 DEF Receive
  <2> QED
    BY <1>2, <1>10, <2>1, ReceiveTrack
<1>11. ASSUME NEW i \in DOMAIN net, Drop(i) \/ Lose(i) \/ \E dup \in BOOLEAN : Refuse(i, dup)
       PROVE  TrackOK(peer', net')
  <2>1. net' = RemoveAt(net, i) /\ peer' = peer
    BY <1>1, <1>11 DEF Drop, Lose, Refuse, AtListener
  <2> QED
    BY <1>2, <2>1, TrackTaken
<1>12. CASE UNCHANGED vars
  BY <1>2, <1>12 DEF vars
<1> QED
  BY <1>3, <1>4, <1>5, <1>6, <1>7, <1>8, <1>9, <1>10, <1>11, <1>12 DEF Next, Delivery

\* No two peers have a socket in common.
LEMMA OneDialer ==
    ASSUME LinkInv, NEW n \in Nodes, Listed(n), NEW l \in Nodes,
           Waits(peer[l], peer[n].sock)
    PROVE  l = n
<1>1. l = n \/ l = Other(n)
  BY TheOther
<1>2. Ordered(peer, n) /\ peer[l].role # "none" /\ peer[l].sock = peer[n].sock
  BY DEF LinkInv, LinkOK, Waits
<1> QED
  BY <1>1, <1>2 DEF Ordered, Listed

\* What is known of the two nodes while a handshake is under way: before the hello is
\* taken, the dialer is sent nothing; after that, nothing but the confirm.
HelloUnderWay(n) ==
    /\ ~Listed(Other(n)) /\ Pending
    /\ \A j \in DOMAIN net : net[j].to # peer[n].sock
ConfirmUnderWay(n) ==
    LET m == Other(n)
    IN /\ Running(m) /\ Pending /\ Answers(peer[m], peer[n].sock)
       /\ \A j \in DOMAIN net :
             /\ net[j].to # peer[m].sock
             /\ net[j].to = peer[n].sock =>
                   /\ peer[m].open /\ net[j].from = peer[m].sock
                   /\ net[j].ctrl = "confirm" \/ Overtakes(j)

LEMMA UnderWay ==
    ASSUME TypeOK, LinkInv, OnceOK(peer, net), TrackOK(peer, net),
           NEW n \in Nodes, Begun(n)
    PROVE  /\ Running(n) /\ up[Other(n)] /\ Waits(peer[n], peer[n].sock)
           /\ HelloUnderWay(n) \/ ConfirmUnderWay(n)
<1> DEFINE m == Other(n)
<1>1. /\ Running(n) /\ up[m] /\ Listed(n)
  BY DEF Begun, Running
<1>2. /\ m \in Nodes /\ m # n /\ Other(m) = n /\ \A l \in Nodes : l = n \/ l = m
  BY TheOther
<1>3. /\ net \in Seq(DatagramType) /\ \A j \in DOMAIN net : net[j] \in Range(net)
      /\ \A j \in DOMAIN net : net[j] \in DatagramType
      /\ peer[n].out \in Seq(Ctrl) /\ peer[m].out \in Seq(Ctrl)
      /\ DOMAIN net = 1..Len(net) /\ Len(net) \in Nat
  BY <1>2, InRange DEF TypeOK, Peer
<1>4. \A j \in DOMAIN net : /\ HelloSent(peer, net, j) /\ ConfirmSent(peer, net, j)
                            /\ net[j].at \in Nodes /\ Other(net[j].at) \in Nodes
  BY <1>3, TheOther DEF TrackOK, DatagramType
<1> HIDE DEF m
<1>5. CASE ~Listed(m) /\ Queued(peer[n].out, "hello")
  <2>1. Hellos(peer[n].out)
    BY <1>5 DEF Hellos
  <2>2. Waits(peer[n], peer[n].sock)
    BY <2>1 DEF TrackOK, HelloQueued
  <2>3. \A j \in DOMAIN net : net[j].to # peer[n].sock
    BY <2>1 DEF OnceOK, HelloOK
  <2>4. peer[n].out # <<>>
    BY <2>1, QueueNew DEF Hellos
  <2> QED
    BY <1>1, <1>5, <2>2, <2>3, <2>4 DEF HelloUnderWay, Pending, m
<1>6. ASSUME ~Listed(m), NEW i \in DOMAIN net, net[i].ctrl = "hello",
             net[i].from = peer[n].sock
      PROVE  Waits(peer[n], peer[n].sock) /\ HelloUnderWay(n)
  <2>1. /\ Waits(peer[Other(net[i].at)], peer[n].sock)
        /\ \A j \in DOMAIN net : net[j].to # peer[n].sock
    BY <1>4, <1>6 DEF HelloSent
  <2>2. Waits(peer[n], peer[n].sock)
    BY <1>1, <1>4, <2>1, OneDialer
  <2>3. net # <<>>
    BY <1>6
  <2> QED
    BY <1>6, <2>1, <2>2, <2>3 DEF HelloUnderWay, Pending, m
<1>7. CASE Running(m) /\ peer[m].to = peer[n].sock /\ Queued(peer[m].out, "confirm")
  <2>1. Confirms(peer[m].out)
    BY <1>7 DEF Confirms
  <2>2. /\ Waits(peer[n], peer[n].sock) /\ Answers(peer[m], peer[n].sock)
        /\ \A j \in DOMAIN net : net[j].to # peer[n].sock
    BY <1>2, <1>7, <2>1 DEF TrackOK, ConfirmQueued
  <2>3. \A j \in DOMAIN net : net[j].to # peer[m].sock
    BY <1>2, <1>3, <2>1 DEF LinkInv, LinkOK, Unseen
  <2>4. peer[m].out # <<>>
    BY <2>1, QueueNew DEF Confirms
  <2> QED
    BY <1>1, <1>2, <1>7, <2>2, <2>3, <2>4 DEF ConfirmUnderWay, Pending, m
<1>8. ASSUME Running(m), peer[m].to = peer[n].sock, NEW i \in DOMAIN net,
             net[i].ctrl = "confirm", net[i].to = peer[n].sock
      PROVE  Waits(peer[n], peer[n].sock) /\ ConfirmUnderWay(n)
  <2>1. Waits(peer[net[i].at], peer[n].sock)
    BY <1>4, <1>8 DEF ConfirmSent
  <2>2. net[i].at = n
    BY <1>1, <1>4, <2>1, OneDialer
  <2>3. /\ Waits(peer[n], peer[n].sock) /\ Answers(peer[m], peer[n].sock)
        /\ peer[m].open /\ peer[m].sock = net[i].from
        /\ \A j \in DOMAIN net :
              /\ net[j].to # peer[m].sock
              /\ net[j].to = peer[n].sock => net[j].from = peer[m].sock /\ i <= j
    BY <1>4, <1>8, <2>2 DEF ConfirmSent, m
  <2>4. ASSUME NEW j \in DOMAIN net, net[j].to = peer[n].sock
        PROVE  net[j].ctrl = "confirm" \/ Overtakes(j)
    <3>1. i = j \/ i \in 1..(j - 1)
      BY <1>3, <2>3, <2>4
    <3> QED
      BY <1>8, <2>3, <2>4, <3>1 DEF Overtakes
  <2>5. net # <<>>
    BY <1>8
  <2> QED
    BY <1>8, <2>3, <2>4, <2>5 DEF ConfirmUnderWay, Pending, m
<1> QED
  BY <1>1, <1>5, <1>6, <1>7, <1>8 DEF Begun, m

\* A step that keeps both peers, and what the handshake waits for in a queue or on its
\* way.
LEMMA BegunKept ==
    ASSUME NEW n \in Nodes, Begun(n), up' = up,
           \A l \in Nodes :
              /\ peer'[l].role = peer[l].role /\ peer'[l].sock = peer[l].sock
              /\ peer'[l].to = peer[l].to /\ peer'[l].stopped = peer[l].stopped,
           \A l \in Nodes, c \in {"hello", "confirm"} : Queued(peer[l].out, c) =>
              \/ Queued(peer'[l].out, c)
              \/ \E j \in DOMAIN net' :
                    net'[j] = Datagram(c, l, peer[l].sock, peer[l].to),
           \A i \in DOMAIN net :
              \/ net[i].ctrl = "hello" /\ net[i].from = peer[n].sock /\ ~Listed(Other(n))
              \/ net[i].ctrl = "confirm" /\ net[i].to = peer[n].sock
              => \E j \in DOMAIN net' : net'[j] = net[i]
    PROVE  (Begun(n))'
<1> DEFINE m == Other(n)
<1>1. m \in Nodes
  BY TheOther
<1>2. (Listed(m))' = Listed(m) /\ (Running(m))' = Running(m) /\ (Running(n))' = Running(n)
  BY <1>1 DEF Listed, Running
<1>3. /\ peer'[n].role = peer[n].role /\ peer'[n].sock = peer[n].sock
      /\ peer'[m].to = peer[m].to
  BY <1>1
<1>4. Queued(peer[n].out, "hello") =>
         \/ Queued(peer'[n].out, "hello")
         \/ \E j \in DOMAIN net' : net'[j].ctrl = "hello" /\ net'[j].from = peer[n].sock
  BY DEF Datagram
<1>5. Queued(peer[m].out, "confirm") =>
         \/ Queued(peer'[m].out, "confirm")
         \/ \E j \in DOMAIN net' : net'[j].ctrl = "confirm" /\ net'[j].to = peer[m].to
  BY <1>1 DEF Datagram
<1>6. CASE ~Listed(m) /\ Queued(peer[n].out, "hello")
  BY <1>2, <1>3, <1>4, <1>6 DEF Begun
<1>7. ASSUME ~Listed(m), NEW i \in DOMAIN net, net[i].ctrl = "hello",
             net[i].from = peer[n].sock
      PROVE  (Begun(n))'
  BY <1>2, <1>3, <1>7 DEF Begun
<1>8. CASE Running(m) /\ peer[m].to = peer[n].sock /\ Queued(peer[m].out, "confirm")
  BY <1>2, <1>3, <1>5, <1>8 DEF Begun
<1>9. ASSUME Running(m), peer[m].to = peer[n].sock, NEW i \in DOMAIN net,
             net[i].ctrl = "confirm", net[i].to = peer[n].sock
      PROVE  (Begun(n))'
  BY <1>2, <1>3, <1>9 DEF Begun
<1> QED
  BY <1>6, <1>7, <1>8, <1>9 DEF Begun

LEMMA OthersStay ==
    ASSUME NEW N \in Seq(DatagramType), NEW i \in DOMAIN N, NEW l \in DOMAIN N, l # i
    PROVE  \E j \in DOMAIN RemoveAt(N, i) : RemoveAt(N, i)[j] = N[l]
<1> DEFINE R == RemoveAt(N, i)
           j == IF l < i THEN l ELSE l - 1
<1>1. /\ DOMAIN R = 1..(Len(N) - 1) /\ DOMAIN N = 1..Len(N) /\ Len(N) \in Nat
      /\ \A k \in 1..(Len(N) - 1) : R[k] = N[IF k < i THEN k ELSE k + 1]
  BY RemovedAt
<1> HIDE DEF R
<1>2. j \in 1..(Len(N) - 1) /\ (IF j < i THEN j ELSE j + 1) = l
  BY <1>1
<1> HIDE DEF j
<1>3. j \in DOMAIN R /\ R[j] = N[l]
  BY <1>1, <1>2
<1> QED
  BY <1>3 DEF R

\* Packets that are queued or sent while the handshake is under way.
LEMMA QueueBegun ==
    ASSUME TypeOK, NEW n \in Nodes, Begun(n), NEW l \in Nodes, SendData(l) \/ Ping(l)
    PROVE  (Begun(n))'
<1>1. PICK c \in {"data", "ping"}, q \in Peer :
        /\ peer' = [peer EXCEPT ![l] = q] /\ q.out = Append(peer[l].out, c)
        /\ q.role = peer[l].role /\ q.sock = peer[l].sock /\ q.to = peer[l].to
        /\ q.stopped = peer[l].stopped
  BY QueueKeeps
<1>2. /\ peer \in [Nodes -> Peer] /\ peer[l].out \in Seq(Ctrl) /\ c \in Ctrl
      /\ up' = up /\ net' = net
  BY DEF TypeOK, Peer, Ctrl, SendData, Ping
<1>3. /\ Len(q.out) = Len(peer[l].out) + 1 /\ q.out \in Seq(Ctrl)
      /\ \A i \in 1..Len(peer[l].out) : q.out[i] = peer[l].out[i]
      /\ Len(peer[l].out) \in Nat
  BY <1>1, <1>2, AppendProperties
<1>4. \A d : Queued(peer[l].out, d) => Queued(q.out, d)
  <2>1. \A i \in DOMAIN peer[l].out : i \in DOMAIN q.out /\ q.out[i] = peer[l].out[i]
    BY <1>2, <1>3
  <2> QED
    BY <2>1 DEF Queued
<1>5. \A k \in Nodes :
         /\ peer'[k].role = peer[k].role /\ peer'[k].sock = peer[k].sock
         /\ peer'[k].to = peer[k].to /\ peer'[k].stopped = peer[k].stopped
         /\ \A d : Queued(peer[k].out, d) => Queued(peer'[k].out, d)
  BY <1>1, <1>2, <1>4
<1> QED
  BY <1>2, <1>5, BegunKept

LEMMA SendBegun ==
    ASSUME TypeOK, LinkInv, OnceOK(peer, net), NEW n \in Nodes, Begun(n),
           NEW l \in Nodes, Send(l)
    PROVE  (Begun(n))'
<1> DEFINE m == Datagram(Head(peer[l].out), l, peer[l].sock, peer[l].to)
<1>1. PICK q \in Peer :
        /\ peer' = [peer EXCEPT ![l] = q]
        /\ q.role = peer[l].role /\ q.sock = peer[l].sock /\ q.to = peer[l].to
        /\ q.stopped = peer[l].stopped
  BY SendPeer
<1>2. /\ peer \in [Nodes -> Peer] /\ net \in Seq(DatagramType) /\ m \in DatagramType
      /\ net' = Append(net, m) /\ up' = up /\ peer[l].out # <<>>
      /\ peer[l].out \in Seq(Ctrl)
  BY SendKeeps DEF TypeOK, Send, Peer
<1>3. /\ DOMAIN net' = 1..(Len(net) + 1) /\ DOMAIN net = 1..Len(net) /\ Len(net) \in Nat
      /\ \A i \in 1..Len(net) : net'[i] = net[i]
      /\ net'[Len(net) + 1] = m
  BY <1>2, AppendProperties
<1>4. OnlyFirst(peer[l].out, "hello") /\ OnlyFirst(peer[l].out, "confirm")
  BY DEF LinkInv, LinkOK, PeerOK, ConfirmFirst, OnceOK, HelloOK
<1>5. Head(peer[l].out) = peer[l].out[1]
  BY <1>2, EmptySeq, LenProperties
<1> HIDE DEF m
<1>6. \A c \in {"hello", "confirm"} : Queued(peer[l].out, c) =>
         \E j \in DOMAIN net' : net'[j] = Datagram(c, l, peer[l].sock, peer[l].to)
  <2> SUFFICES ASSUME NEW c \in {"hello", "confirm"}, Queued(peer[l].out, c)
               PROVE  m = Datagram(c, l, peer[l].sock, peer[l].to)
    BY <1>3
  <2>1. Head(peer[l].out) = c
    BY <1>4, <1>5 DEF Queued, OnlyFirst
  <2> QED
    BY <2>1 DEF m
<1>7. \A k \in Nodes :
         /\ peer'[k].role = peer[k].role /\ peer'[k].sock = peer[k].sock
         /\ peer'[k].to = peer[k].to /\ peer'[k].stopped = peer[k].stopped
         /\ k # l => peer'[k] = peer[k]
  BY <1>1, <1>2
<1>8. \A k \in Nodes, c \in {"hello", "confirm"} : Queued(peer[k].out, c) =>
         \/ Queued(peer'[k].out, c)
         \/ \E j \in DOMAIN net' : net'[j] = Datagram(c, k, peer[k].sock, peer[k].to)
  BY <1>6, <1>7
<1>9. \A i \in DOMAIN net : \E j \in DOMAIN net' : net'[j] = net[i]
  BY <1>3
<1> QED
  BY <1>2, <1>7, <1>8, <1>9, BegunKept

\* A hello that is accepted while the dialer waits for an answer is its own.
LEMMA AcceptBegun ==
    ASSUME TypeOK, LinkInv, OnceOK(peer, net), TrackOK(peer, net),
           NEW n \in Nodes, Begun(n),
           NEW i \in DOMAIN net, NEW dup \in BOOLEAN, Accept(i, dup)
    PROVE  (Begun(n))'
<1> DEFINE m == Other(n)
           q == NewPeer("acceptor", socks + 1, net[i].from, "confirm")
<1>1. /\ peer' = [peer EXCEPT ![net[i].at] = q] /\ net[i].ctrl = "hello"
      /\ ~Listed(net[i].at) /\ up' = up
  BY DEF Accept, AtListener, NewSession, Free
<1>2. /\ m \in Nodes /\ m # n /\ Other(m) = n /\ \A l \in Nodes : l = n \/ l = m
  BY TheOther
<1>3. peer \in [Nodes -> Peer] /\ net[i].at \in Nodes
  <2>1. net[i] \in DatagramType
    BY InRange DEF TypeOK
  <2> QED
    BY <2>1 DEF TypeOK, DatagramType
<1>4. Running(n) /\ Listed(n) /\ up[m] /\ peer[n].role = "dialer"
  BY DEF Begun, Running
<1>5. net[i].at = m
  BY <1>1, <1>2, <1>3, <1>4
<1>6. net[i].from = peer[n].sock
  <2>1. Waits(peer[n], net[i].from)
    BY <1>1, <1>2, <1>5 DEF TrackOK, HelloSent
  <2> QED
    BY <2>1 DEF Waits
<1>7. /\ q.role = "acceptor" /\ ~q.stopped /\ q.to = net[i].from
      /\ q.out = <<"confirm">>
  BY DEF NewPeer, NoPeer
<1>8. Queued(q.out, "confirm")
  BY <1>7 DEF Queued
<1> HIDE DEF q, m
<1>9. peer'[m] = q /\ peer'[n] = peer[n]
  BY <1>1, <1>2, <1>3, <1>5
<1>10. (Running(n))' /\ (Running(m))' /\ peer'[m].to = peer'[n].sock
  BY <1>4, <1>6, <1>7, <1>9 DEF Running, Listed
<1> QED
  BY <1>1, <1>4, <1>8, <1>9, <1>10 DEF Begun, m

\* The only datagram that either peer takes in is the confirm, and with it both ends
\* have the session.
LEMMA ReceiveBegun ==
    ASSUME TypeOK, LinkInv, OnceOK(peer, net), TrackOK(peer, net),
           NEW n \in Nodes, Begun(n),
           NEW i \in DOMAIN net, NEW dup \in BOOLEAN, Receive(i, dup), ~Overtakes(i)
    PROVE  Linked'
<1> DEFINE m == Other(n)
           h == Heard(peer[n], net[i].from)
<1>1. /\ net[i].to = peer[net[i].at].sock /\ Running(net[i].at)
      /\ peer' = [peer EXCEPT ![net[i].at] =
                    Handled(Heard(@, net[i].from), net[i].ctrl)]
  BY DEF Receive, Nobody
<1>2. /\ m \in Nodes /\ m # n /\ Other(m) = n /\ \A l \in Nodes : l = n \/ l = m
  BY TheOther
<1>3. peer \in [Nodes -> Peer] /\ peer[n] \in Peer /\ net[i].at \in Nodes /\ net[i].from \in Nat
  <2>1. net[i] \in DatagramType
    BY InRange DEF TypeOK
  <2> QED
    BY <2>1 DEF TypeOK, DatagramType
<1>4. /\ Running(n) /\ Waits(peer[n], peer[n].sock)
      /\ HelloUnderWay(n) \/ ConfirmUnderWay(n)
  BY UnderWay
<1> HIDE DEF m
<1>5. net[i].at = n /\ ConfirmUnderWay(n)
  BY <1>1, <1>2, <1>3, <1>4 DEF HelloUnderWay, ConfirmUnderWay, Running, m
<1>6. /\ Running(m) /\ Answers(peer[m], peer[n].sock) /\ peer[m].open
      /\ net[i].from = peer[m].sock /\ net[i].ctrl = "confirm"
  BY <1>1, <1>5 DEF ConfirmUnderWay, m
<1>7. /\ h \in Peer /\ ~h.open /\ ~h.stopped /\ h.role = peer[n].role
      /\ h.sock = peer[n].sock /\ h.to = net[i].from
  BY <1>3, <1>4 DEF Heard, Peer, Waits
<1> HIDE DEF h
<1>8. Handled(h, "confirm") = [h EXCEPT !.open = TRUE]
  BY <1>7 DEF Handled
<1> DEFINE q == [h EXCEPT !.open = TRUE]
<1>9. /\ q.open /\ ~q.stopped /\ q.role = peer[n].role
      /\ q.sock = peer[n].sock /\ q.to = peer[m].sock
  BY <1>6, <1>7 DEF Peer
<1>10. peer' = [peer EXCEPT ![n] = q]
  BY <1>1, <1>5, <1>6, <1>8 DEF h
<1> HIDE DEF q
<1>11. peer'[n] = q /\ peer'[m] = peer[m]
  BY <1>2, <1>3, <1>10
<1>12. \A k \in Nodes :
          /\ peer'[k].role # "none" /\ ~peer'[k].stopped /\ peer'[k].open
          /\ peer'[k].to = peer'[Other(k)].sock
  <2>1. /\ peer'[n].role # "none" /\ ~peer'[n].stopped /\ peer'[n].open
        /\ peer'[n].to = peer'[m].sock
    BY <1>4, <1>9, <1>11 DEF Running, Listed
  <2>2. /\ peer'[m].role # "none" /\ ~peer'[m].stopped /\ peer'[m].open
        /\ peer'[m].to = peer'[n].sock
    BY <1>6, <1>9, <1>11 DEF Running, Listed, Answers
  <2> QED
    BY <1>2, <2>1, <2>2 DEF m
<1> QED
  BY <1>12 DEF Linked, Running, Listed

\* What is dropped or refused is not what the handshake waits for.
LEMMA RefuseBegun ==
    ASSUME TypeOK, LinkInv, OnceOK(peer, net), TrackOK(peer, net),
           NEW n \in Nodes, Begun(n),
           NEW i \in DOMAIN net, Drop(i) \/ \E dup \in BOOLEAN : Refuse(i, dup),
           net' = RemoveAt(net, i)
    PROVE  (Begun(n))'
<1> DEFINE m == Other(n)
<1>1. /\ peer' = peer /\ up' = up
      /\ \/ Nobody(i)
         \/ net[i].to = Listener /\ (net[i].ctrl # "hello" \/ Listed(net[i].at))
  <2>1. CASE Drop(i)
    BY <2>1 DEF Drop
  <2>2. ASSUME NEW dup \in BOOLEAN, Refuse(i, dup)
        PROVE  /\ peer' = peer /\ up' = up /\ net[i].to = Listener
               /\ net[i].ctrl # "hello" \/ Listed(net[i].at)
    BY <2>2 DEF Refuse, AtListener, Free
  <2> QED
    BY <2>1, <2>2
<1>2. /\ m \in Nodes /\ m # n /\ Other(m) = n /\ \A l \in Nodes : l = n \/ l = m
  BY TheOther
<1>3. /\ net \in Seq(DatagramType) /\ net[i].at \in Nodes /\ Other(net[i].at) \in Nodes
      /\ Other(Other(net[i].at)) = net[i].at
  <2>1. net[i] \in DatagramType
    BY InRange DEF TypeOK
  <2> QED
    BY <2>1, TheOther DEF TypeOK, DatagramType
<1>4. Running(n) /\ Listed(n) /\ up[m] /\ peer[n].sock # Listener
  <2>1. Running(n) /\ Listed(n) /\ up[m]
    BY DEF Begun, Running
  <2> QED
    BY <2>1 DEF TypeOK, Listener
<1>5. ~(net[i].ctrl = "hello" /\ net[i].from = peer[n].sock /\ ~Listed(m))
  <2> SUFFICES ASSUME net[i].ctrl = "hello", net[i].from = peer[n].sock, ~Listed(m)
               PROVE  FALSE
    OBVIOUS
  <2>1. Waits(peer[Other(net[i].at)], peer[n].sock)
    BY DEF TrackOK, HelloSent
  <2>2. Other(net[i].at) = n
    BY <1>3, <1>4, <2>1, OneDialer
  <2>3. net[i].at = m /\ net[i].to = Listener
    BY <1>3, <2>2 DEF OnceOK, BeginsOnce, Begins
  <2> QED
    BY <1>1, <1>4, <2>3 DEF Nobody
<1>6. ~(net[i].ctrl = "confirm" /\ net[i].to = peer[n].sock)
  <2> SUFFICES ASSUME net[i].ctrl = "confirm", net[i].to = peer[n].sock
               PROVE  FALSE
    OBVIOUS
  <2>1. Waits(peer[net[i].at], peer[n].sock)
    BY DEF TrackOK, ConfirmSent
  <2>2. net[i].at = n
    BY <1>3, <1>4, <2>1, OneDialer
  <2> QED
    BY <1>1, <1>4, <2>2 DEF Nobody
<1>7. \A l \in DOMAIN net :
         \/ net[l].ctrl = "hello" /\ net[l].from = peer[n].sock /\ ~Listed(m)
         \/ net[l].ctrl = "confirm" /\ net[l].to = peer[n].sock
         => \E j \in DOMAIN net' : net'[j] = net[l]
  BY <1>3, <1>5, <1>6, OthersStay
<1> QED
  BY <1>1, <1>7, BegunKept

\* A handshake that has begun is completed by its packets unless something goes wrong:
\* no step of the two nodes forgets it, refuses it or lets anything else get in its way
\* (udpPeerManager.py:50-67, udpProtocol.py:86-107).  With the fairness of the send loops
\* and of the network this is why HandshakeCompletes holds.
THEOREM HandshakeOnTrack == Spec => HandshakeHolds
<1> DEFINE Holds == \A n \in Nodes : Begun(n) /\ faults' = 0 => (Begun(n) \/ Linked)'
<1>1. Init => TypeOK /\ LinkInv /\ OnceInv /\ TrackInv
  <2> SUFFICES ASSUME Init PROVE OnceInv /\ TrackInv
    BY TypeInit, LinkInit
  <2>1. peer = [n \in Nodes |-> NoPeer] /\ net = <<>>
    BY DEF Init
  <2>2. NoPeer.out = <<>> /\ ~NoPeer.open
    BY DEF NoPeer
  <2>3. OnlyFirst(NoPeer.out, "hello") /\ ~Confirms(NoPeer.out) /\ ~Hellos(NoPeer.out)
    BY <2>2, QueueNew DEF Confirms, Hellos
  <2>4. OnceInv
    BY <2>1, <2>2, <2>3 DEF OnceInv, OnceOK, BeginsOnce, AnswersOnce, HelloOK
  <2>5. TrackInv
    BY <2>1, <2>3, TrackIdle DEF TrackInv
  <2> QED
    BY <2>4, <2>5
<1>2. TypeOK /\ LinkInv /\ OnceInv /\ TrackInv /\ [Next]_vars => [Holds]_vars
  <2> SUFFICES ASSUME TypeOK, LinkInv, OnceInv, TrackInv, Next,
                      NEW n \in Nodes, Begun(n), faults' = 0
               PROVE  (Begun(n))' \/ Linked'
    OBVIOUS
  <2>1. /\ faults = 0 /\ \A k \in Nat : Faults(k) => k = 0
        /\ \A i \in DOMAIN net, dup \in BOOLEAN : Arrives(i, dup) =>
              net' = RemoveAt(net, i) /\ ~Overtakes(i)
    BY NoFaults
  <2>2. OnceOK(peer, net) /\ TrackOK(peer, net)
    BY <2>1 DEF OnceInv, TrackInv
  <2>3. /\ Running(n) /\ up[Other(n)] /\ Waits(peer[n], peer[n].sock)
        /\ HelloUnderWay(n) \/ ConfirmUnderWay(n)
    BY <2>2, UnderWay
  <2>4. \A l \in Nodes : l = n \/ l = Other(n)
    BY TheOther
  <2>5. ASSUME NEW l \in Nodes
        PROVE  ~Start(l) /\ ~Down(l) /\ ~SendFails(l) /\ ~Tick(l)
    <3>1. ~Down(l) /\ ~SendFails(l)
      BY <2>1 DEF Down, SendFails
    <3>2. up[n]
      BY <2>3 DEF TypeOK, Running
    <3>3. ~Start(l)
      BY <2>3, <2>4, <3>2 DEF Start
    <3>4. ~Tick(l)
      BY <2>1, <2>3 DEF Tick, HelloUnderWay, ConfirmUnderWay
    <3> QED
      BY <3>1, <3>3, <3>4
  <2>6. ASSUME NEW l \in Nodes PROVE ~Unlist(l) /\ ~Timeout(l)
    BY <2>3, <2>4 DEF Unlist, Timeout, TimedOut, Running, Waits, Answers,
       HelloUnderWay, ConfirmUnderWay
  <2>7. ASSUME NEW l \in Nodes, SendData(l) \/ Ping(l) PROVE (Begun(n))'
    BY <2>7, QueueBegun
  <2>8. ASSUME NEW l \in Nodes, Send(l) PROVE (Begun(n))'
    BY <2>2, <2>8, SendBegun
  <2>9. ASSUME NEW i \in DOMAIN net, NEW dup \in BOOLEAN, Accept(i, dup)
        PROVE  (Begun(n))'
    BY <2>2, <2>9, AcceptBegun
  <2>10. ASSUME NEW i \in DOMAIN net, NEW dup \in BOOLEAN, Receive(i, dup)
         PROVE  Linked'
    <3>1. ~Overtakes(i)
      BY <2>1, <2>10 DEF Receive
    <3> QED
      BY <2>2, <2>10, <3>1, ReceiveBegun
  <2>11. ASSUME NEW i \in DOMAIN net, Drop(i) \/ \E dup \in BOOLEAN : Refuse(i, dup)
         PROVE  (Begun(n))'
    <3>1. net' = RemoveAt(net, i)
      BY <2>1, <2>11 DEF Drop, Refuse, AtListener
    <3> QED
      BY <2>2, <2>11, <3>1, RefuseBegun
  <2>12. ASSUME NEW i \in DOMAIN net PROVE ~Lose(i)
    BY <2>1 DEF Lose
  <2> QED
    BY <2>5, <2>6, <2>7, <2>8, <2>9, <2>10, <2>11, <2>12 DEF Next, Delivery
<1>3. /\ TypeOK /\ LinkInv /\ OnceInv /\ TrackInv /\ [Next]_vars
      => TypeOK' /\ LinkInv' /\ OnceInv' /\ TrackInv'
  BY TypeNext, LinkNext, OnceNext, TrackNext
<1> QED
  BY <1>1, <1>2, <1>3, PTL DEF Spec, HandshakeHolds
==============================================================================
