------------------------- MODULE PeerManager_proofs -------------------------
(***************************************************************************)
(* Proofs about PeerManager for every set of IDs, every max_peers and      *)
(* every list of bootstrap nodes.                                          *)
(***************************************************************************)
EXTENDS PeerManager, SequenceTheorems, FiniteSetTheorems, TLAPS

\* list.remove: the rest of the list keeps its order (udpPeer.py:58).
LEMMA RemoveAtProperties ==
    ASSUME NEW S, NEW s \in Seq(S), NEW i \in 1..Len(s)
    PROVE  /\ RemoveAt(s, i) \in Seq(S)
           /\ Len(RemoveAt(s, i)) = Len(s) - 1
           /\ \A j \in 1..(Len(s) - 1) :
                RemoveAt(s, i)[j] = IF j < i THEN s[j] ELSE s[j + 1]
<1> DEFINE front == SubSeq(s, 1, i - 1)
           back  == SubSeq(s, i + 1, Len(s))
<1>1. Len(s) \in Nat /\ i \in Nat /\ 1 <= i /\ i <= Len(s)
  BY LenProperties
<1>2. /\ front \in Seq(S) /\ Len(front) = i - 1
      /\ \A j \in 1..(i - 1) : front[j] = s[j]
  <2>1. \A j \in 1..(i - 1) : s[j] \in S
    BY <1>1, ElementOfSeq
  <2> QED
    BY <1>1, <2>1, SubSeqProperties
<1>3. /\ back \in Seq(S) /\ Len(back) = Len(s) - i
      /\ \A j \in 1..(Len(s) - i) : back[j] = s[i + j]
  <2>1. \A j \in (i + 1)..Len(s) : s[j] \in S
    BY <1>1, ElementOfSeq
  <2>2. back \in Seq(S)
    BY <1>1, <2>1, SubSeqProperties
  <2>3. Len(back) = Len(s) - i
    BY <1>1, <2>1, SubSeqProperties
  <2>4. \A j \in 1..(Len(s) - (i + 1) + 1) : back[j] = s[(i + 1) + j - 1]
    BY <1>1, <2>1, SubSeqProperties
  <2> QED
    BY <1>1, <2>2, <2>3, <2>4
<1>4. RemoveAt(s, i) = front \o back
  BY DEF RemoveAt
<1> HIDE DEF front, back
<1>5. /\ RemoveAt(s, i) \in Seq(S)
      /\ Len(RemoveAt(s, i)) = Len(s) - 1
  BY <1>1, <1>2, <1>3, <1>4, ConcatProperties
<1>6. ASSUME NEW j \in 1..(Len(s) - 1)
      PROVE  RemoveAt(s, i)[j] = IF j < i THEN s[j] ELSE s[j + 1]
  <2>1. (front \o back)[j] = IF j <= Len(front) THEN front[j] ELSE back[j - Len(front)]
    BY <1>1, <1>2, <1>3, ConcatProperties
  <2>2. CASE j < i
    BY <1>1, <1>2, <1>4, <2>1, <2>2
  <2>3. CASE ~(j < i)
    <3>1. j - (i - 1) \in 1..(Len(s) - i)
      BY <1>1, <2>3
    <3>2. back[j - (i - 1)] = s[i + (j - (i - 1))]
      BY <1>3, <3>1
    <3>3. i + (j - (i - 1)) = j + 1
      BY <1>1
    <3> QED
      BY <1>1, <1>2, <1>4, <2>1, <2>3, <3>2, <3>3
  <2> QED
    BY <2>2, <2>3
<1> QED
  BY <1>5, <1>6

LEMMA RemoveAtElements ==
    ASSUME NEW S, NEW s \in Seq(S), NEW i \in 1..Len(s), NEW j \in 1..Len(s),
           j # i
    PROVE  \E k \in 1..Len(RemoveAt(s, i)) : RemoveAt(s, i)[k] = s[j]
<1>1. Len(s) \in Nat
  BY LenProperties
<1>2. CASE j < i
  <2>1. j \in 1..(Len(s) - 1)
    BY <1>1, <1>2
  <2> QED
    BY <1>2, <2>1, RemoveAtProperties
<1>3. CASE j > i
  <2>1. j - 1 \in 1..(Len(s) - 1) /\ ~(j - 1 < i) /\ (j - 1) + 1 = j
    BY <1>1, <1>3
  <2>2. RemoveAt(s, i)[j - 1] = s[(j - 1) + 1]
    BY <2>1, RemoveAtProperties
  <2> QED
    BY <2>1, <2>2, RemoveAtProperties
<1> QED
  BY <1>1, <1>2, <1>3

LEMMA RemoveAtFrom ==
    ASSUME NEW S, NEW s \in Seq(S), NEW i \in 1..Len(s),
           NEW k \in 1..Len(RemoveAt(s, i))
    PROVE  \E j \in 1..Len(s) : j # i /\ RemoveAt(s, i)[k] = s[j]
<1>1. Len(s) \in Nat /\ k \in 1..(Len(s) - 1)
  BY LenProperties, RemoveAtProperties
<1>2. RemoveAt(s, i)[k] = IF k < i THEN s[k] ELSE s[k + 1]
  BY <1>1, RemoveAtProperties
<1>3. k \in 1..Len(s) /\ k + 1 \in 1..Len(s)
  BY <1>1
<1> QED
  BY <1>1, <1>2, <1>3

------------------------------------------------------------------------------
(* Type correctness *)

LEMMA TypeInit == Init => TypeOK
  BY EmptySeq DEF Init, TypeOK, Statuses

LEMMA ListedPeerType == TypeOK => ListedPeer \subseteq Peer
  BY ElementOfSeq DEF TypeOK, ListedPeer

LEMMA ConnectType ==
    ASSUME TypeOK, NEW id \in IDs, Connect(id)
    PROVE  /\ created' \in Nat
           /\ peers' \in Seq(Peer)
           /\ Len(peers') = Len(peers) + 1
           /\ \A i \in 1..Len(peers) : peers'[i] = peers[i]
           /\ peers'[Len(peers) + 1].id = id
           /\ status_book' \in [IDs -> Statuses]
<1>1. created' \in Nat \ {0}
  BY DEF Connect, TypeOK
<1> DEFINE p == [id |-> id, n |-> created']
<1>2. p \in Peer /\ p.id = id
  BY <1>1 DEF Peer
<1>3. peers' = Append(peers, p) /\ peers \in Seq(Peer)
  BY DEF Connect, TypeOK
<1> HIDE DEF p
<1>4. /\ peers' \in Seq(Peer) /\ Len(peers') = Len(peers) + 1
      /\ \A i \in 1..Len(peers) : peers'[i] = peers[i]
      /\ peers'[Len(peers) + 1] = p
  BY <1>2, <1>3
<1> QED
  BY <1>1, <1>2, <1>4 DEF Connect, LogStarting, Log, TypeOK, Statuses

LEMMA TypeStep == TypeOK /\ [Next]_vars => TypeOK'
<1> SUFFICES ASSUME TypeOK, [Next]_vars
             PROVE  TypeOK'
  OBVIOUS
<1>1. CASE Start
  BY <1>1, BootstrapAssumption DEF Start, TypeOK
<1>2. CASE Bootstrap
  <2>1. Head(todo) \in IDs /\ todo' \in Seq(IDs)
    BY <1>2 DEF Bootstrap, TypeOK
  <2> QED
    BY <1>2, <2>1, ConnectType DEF Bootstrap, TypeOK
<1>3. ASSUME NEW id \in IDs, NewConn(id)
      PROVE  TypeOK'
  BY <1>3, ConnectType DEF NewConn, TypeOK
<1>4. ASSUME NEW id \in IDs, Refuse(id)
      PROVE  TypeOK'
  BY <1>4 DEF Refuse, Log, TypeOK, Statuses
<1>5. ASSUME NEW p \in ListedPeer, ReportData(p) \/ ReportDisconnect(p)
      PROVE  TypeOK'
  <2>1. p \in Peer
    BY ListedPeerType
  <2> QED
    BY <1>5, <2>1 DEF ReportData, ReportDisconnect, BeginStop, MarkStopping, Log, TypeOK,
       Statuses, Peer
<1>6. ASSUME NEW p \in late, LateWork(p)
      PROVE  TypeOK'
  BY <1>6 DEF LateWork, Log, TypeOK, Statuses, Peer
<1>7. ASSUME NEW p \in stopping \cup leaving, LateDisconnect(p)
      PROVE  TypeOK'
  BY <1>7 DEF LateDisconnect, Log, TypeOK, Statuses, Peer
<1>8. ASSUME NEW i \in 1..Len(peers), PeerGone(i)
      PROVE  TypeOK'
  <2>1. peers[i] \in Peer /\ peers' \in Seq(Peer)
    BY <1>8, ElementOfSeq, RemoveAtProperties DEF PeerGone, TypeOK
  <2> QED
    BY <1>8, <2>1 DEF PeerGone, Wake, TypeOK
<1>9. CASE Stop
  BY <1>9, LenProperties DEF Stop, TypeOK
<1>10. CASE StopVisit
  <2>1. idx \in 1..Len(peers) /\ idx' \in Nat \ {0}
    BY <1>10, LenProperties DEF StopVisit, NextIndex, TypeOK
  <2>2. peers[idx] \in Peer
    BY <2>1, ElementOfSeq DEF TypeOK
  <2>3. /\ status_book' \in [IDs -> Statuses]
        /\ stopping' \subseteq Peer /\ late' \subseteq stopping'
        /\ awaited' \in Peer \cup {None}
    <3>1. CASE peers[idx] \in stopping
      BY <1>10, <2>2, <3>1 DEF StopVisit, Log, TypeOK, Statuses
    <3>2. CASE peers[idx] \notin stopping
      BY <1>10, <2>2, <3>2 DEF StopVisit, BeginStop, MarkStopping, Log, TypeOK, Statuses
    <3> QED
      BY <3>1, <3>2
  <2> QED
    BY <1>10, <2>1, <2>3 DEF StopVisit, TypeOK
<1>11. CASE StopEnd
  BY <1>11 DEF StopEnd, TypeOK
<1>12. CASE UNCHANGED vars
  BY <1>12 DEF vars, TypeOK
<1> QED
  BY <1>1, <1>2, <1>3, <1>4, <1>5, <1>6, <1>7, <1>8, <1>9, <1>10, <1>11, <1>12
     DEF Next, Connecting, PeerEvents, Removals, Stopping

\* The manager's fields keep their types.
THEOREM TypeCorrect == Spec => []TypeOK
  BY TypeInit, TypeStep, PTL DEF Spec

------------------------------------------------------------------------------
(* The peer list *)

\* An action leaves the list alone, adds an approved ID, or removes one place.
LEMMA ListStep ==
    ASSUME TypeOK, [Next]_vars
    PROVE  \/ peers' = peers
           \/ \E id \in IDs : Approved(id) /\ Connect(id)
           \/ \E i \in 1..Len(peers) : PeerGone(i)
<1>1. CASE Start \/ Stopping \/ PeerEvents \/ UNCHANGED vars
  BY <1>1 DEF Start, Stopping, Stop, StopVisit, StopEnd, PeerEvents, ReportData,
     ReportDisconnect, LateWork, LateDisconnect, vars
<1>2. CASE Bootstrap
  <2>1. Head(todo) \in IDs
    BY <1>2 DEF Bootstrap, TypeOK
  <2> QED
    BY <1>2, <2>1 DEF Bootstrap
<1>3. ASSUME NEW id \in IDs, NewConn(id) \/ Refuse(id)
      PROVE  peers' = peers \/ (Approved(id) /\ Connect(id))
  BY <1>3 DEF NewConn, Refuse
<1>4. CASE Removals
  BY <1>4 DEF Removals
<1> QED
  BY <1>1, <1>2, <1>3, <1>4 DEF Next, Connecting

LEMMA ListInvariantStep ==
    TypeOK /\ NoDuplicatePeers /\ WithinMaxPeers /\ [Next]_vars
        => NoDuplicatePeers' /\ WithinMaxPeers'
<1> SUFFICES ASSUME TypeOK, NoDuplicatePeers, WithinMaxPeers, [Next]_vars
             PROVE  NoDuplicatePeers' /\ WithinMaxPeers'
  OBVIOUS
<1>0. Len(peers) \in Nat /\ peers \in Seq(Peer)
  BY LenProperties DEF TypeOK
<1>1. CASE peers' = peers
  BY <1>1 DEF NoDuplicatePeers, WithinMaxPeers
<1>2. ASSUME NEW id \in IDs, Approved(id), Connect(id)
      PROVE  NoDuplicatePeers' /\ WithinMaxPeers'
  <2>1. /\ Len(peers') = Len(peers) + 1
        /\ \A i \in 1..Len(peers) : peers'[i] = peers[i]
        /\ peers'[Len(peers) + 1].id = id
    BY <1>2, ConnectType
  <2>2. \A i \in 1..Len(peers) : peers[i].id # id
    BY <1>2 DEF Approved, ListedIDs
  <2>3. WithinMaxPeers'
    BY <1>0, <1>2, <2>1, MaxPeersAssumption DEF Approved, WithinMaxPeers
  <2>4. ASSUME NEW i \in 1..Len(peers'), NEW j \in 1..Len(peers'),
               peers'[i].id = peers'[j].id
        PROVE  i = j
    <3>1. /\ i \in 1..Len(peers) \/ i = Len(peers) + 1
          /\ j \in 1..Len(peers) \/ j = Len(peers) + 1
      BY <1>0, <2>1
    <3> QED
      BY <2>1, <2>2, <2>4, <3>1 DEF NoDuplicatePeers
  <2> QED
    BY <2>3, <2>4 DEF NoDuplicatePeers
<1>3. ASSUME NEW i \in 1..Len(peers), PeerGone(i)
      PROVE  NoDuplicatePeers' /\ WithinMaxPeers'
  <2>1. /\ peers' = RemoveAt(peers, i)
        /\ Len(peers') = Len(peers) - 1
        /\ \A j \in 1..(Len(peers) - 1) :
             peers'[j] = IF j < i THEN peers[j] ELSE peers[j + 1]
    BY <1>0, <1>3, RemoveAtProperties DEF PeerGone
  <2>2. WithinMaxPeers'
    BY <1>0, <2>1, MaxPeersAssumption DEF WithinMaxPeers
  <2>3. ASSUME NEW j \in 1..Len(peers'), NEW k \in 1..Len(peers'),
               peers'[j].id = peers'[k].id
        PROVE  j = k
    <3> DEFINE old(m) == IF m < i THEN m ELSE m + 1
    <3>1. /\ old(j) \in 1..Len(peers) /\ old(k) \in 1..Len(peers)
          /\ peers'[j] = peers[old(j)] /\ peers'[k] = peers[old(k)]
      BY <1>0, <2>1
    <3>2. old(j) = old(k)
      BY <2>3, <3>1 DEF NoDuplicatePeers
    <3> QED
      BY <1>0, <2>1, <3>2
  <2> QED
    BY <2>2, <2>3 DEF NoDuplicatePeers
<1> QED
  BY <1>1, <1>2, <1>3, ListStep

LEMMA ListInit == Init => NoDuplicatePeers /\ WithinMaxPeers
  BY MaxPeersAssumption DEF Init, NoDuplicatePeers, WithinMaxPeers

\* The assertion of send (udpPeerManager.py:118) never fails.
THEOREM NeverDuplicate == Spec => []NoDuplicatePeers
  BY TypeInit, TypeStep, ListInit, ListInvariantStep, PTL DEF Spec

\* The list never outgrows max_peers.
THEOREM NeverTooMany == Spec => []WithinMaxPeers
  BY TypeInit, TypeStep, ListInit, ListInvariantStep, PTL DEF Spec

------------------------------------------------------------------------------
(* The status book *)

LEMMA BookInit == Init => StoppingListed /\ BookMatchesPeers
  BY DEF Init, StoppingListed, BookMatchesPeers, ListedIDs

\* A step that keeps the list and logs anything but "starting", and stops only
\* listed peers, keeps the book.
LEMMA BookKept ==
    ASSUME TypeOK, StoppingListed, BookMatchesPeers, peers' = peers,
           \A id \in IDs : status_book'[id] \in {status_book[id], "working", "disconnected"},
           \A p \in stopping' : p \in stopping \/
               (p \in ListedPeer /\ status_book'[p.id] = "disconnected")
    PROVE  StoppingListed' /\ BookMatchesPeers'
<1>1. ListedPeer' = ListedPeer /\ ListedIDs' = ListedIDs
  BY DEF ListedPeer, ListedIDs
<1>2. \A p \in stopping : p.id \in IDs
  BY DEF TypeOK, Peer
<1>3. StoppingListed'
  BY <1>1, <1>2 DEF StoppingListed
<1>4. BookMatchesPeers'
  BY <1>1 DEF BookMatchesPeers
<1> QED
  BY <1>3, <1>4

LEMMA BookStep ==
    TypeOK /\ StoppingListed /\ BookMatchesPeers /\ [Next]_vars
        => StoppingListed' /\ BookMatchesPeers'
<1> SUFFICES ASSUME TypeOK, StoppingListed, BookMatchesPeers, [Next]_vars
             PROVE  StoppingListed' /\ BookMatchesPeers'
  OBVIOUS
<1>0. /\ Len(peers) \in Nat /\ peers \in Seq(Peer)
      /\ ListedPeer \subseteq Peer
      /\ status_book \in [IDs -> Statuses]
  BY LenProperties, ListedPeerType DEF TypeOK
<1>1. ASSUME NEW id \in IDs, Approved(id), Connect(id), stopping' = stopping
      PROVE  StoppingListed' /\ BookMatchesPeers'
  <2>1. /\ Len(peers') = Len(peers) + 1
        /\ \A i \in 1..Len(peers) : peers'[i] = peers[i]
        /\ peers'[Len(peers) + 1].id = id
    BY <1>1, ConnectType
  <2>2. ListedIDs' = ListedIDs \cup {id} /\ ListedPeer \subseteq ListedPeer'
    <3>1. 1..Len(peers') = (1..Len(peers)) \cup {Len(peers) + 1}
      BY <1>0, <2>1
    <3> QED
      BY <2>1, <3>1 DEF ListedIDs, ListedPeer
  <2>3. status_book' = [status_book EXCEPT ![id] = "starting"]
    BY <1>1 DEF Connect, LogStarting, Log
  <2>4. \A p \in stopping : p.id \in IDs /\ p.id # id
    BY <1>1 DEF StoppingListed, ListedPeer, Approved, ListedIDs, TypeOK, Peer
  <2>5. StoppingListed'
    BY <1>0, <1>1, <2>2, <2>3, <2>4 DEF StoppingListed
  <2>6. BookMatchesPeers'
    BY <1>0, <2>2, <2>3 DEF BookMatchesPeers
  <2> QED
    BY <2>5, <2>6
<1>2. ASSUME NEW i \in 1..Len(peers), PeerGone(i)
      PROVE  StoppingListed' /\ BookMatchesPeers'
  <2>1. /\ peers' = RemoveAt(peers, i) /\ status_book' = status_book
        /\ stopping' = stopping \ {peers[i]} /\ peers[i] \in stopping
    BY <1>2 DEF PeerGone
  <2>2. \A j \in 1..Len(peers) : j # i =>
           \E k \in 1..Len(peers') : peers'[k] = peers[j]
    BY <1>0, <2>1, RemoveAtElements
  <2>3. \A k \in 1..Len(peers') : \E j \in 1..Len(peers) : peers'[k] = peers[j]
    BY <1>0, <2>1, RemoveAtFrom
  <2>4. StoppingListed'
    BY <2>1, <2>2 DEF StoppingListed, ListedPeer
  <2>5. ListedIDs' \subseteq ListedIDs
    BY <2>3 DEF ListedIDs
  <2>6. ASSUME NEW id \in IDs, status_book[id] = "starting"
        PROVE  id \in ListedIDs'
    <3>1. PICK j \in 1..Len(peers) : peers[j].id = id
      BY <2>6 DEF BookMatchesPeers, ListedIDs
    <3>2. j # i
      BY <2>1, <2>6, <3>1 DEF StoppingListed
    <3> QED
      BY <2>2, <3>1, <3>2 DEF ListedIDs
  <2> QED
    BY <2>1, <2>4, <2>5, <2>6 DEF BookMatchesPeers
<1>3. CASE Start
  BY <1>3, BookKept DEF Start
<1>4. CASE Bootstrap
  <2>1. Head(todo) \in IDs /\ stopping' = stopping
    BY <1>4 DEF Bootstrap, TypeOK
  <2> QED
    BY <1>1, <1>4, <2>1, BookKept DEF Bootstrap
<1>5. ASSUME NEW id \in IDs, NewConn(id)
      PROVE  StoppingListed' /\ BookMatchesPeers'
  BY <1>1, <1>5 DEF NewConn
<1>6. ASSUME NEW id \in IDs, Refuse(id)
      PROVE  StoppingListed' /\ BookMatchesPeers'
  BY <1>0, <1>6, BookKept DEF Refuse, Log
<1>7. ASSUME NEW p \in ListedPeer, ReportData(p) \/ ReportDisconnect(p)
      PROVE  StoppingListed' /\ BookMatchesPeers'
  <2>1. p.id \in IDs
    BY <1>0 DEF Peer
  <2> QED
    BY <1>0, <1>7, <2>1, BookKept DEF ReportData, ReportDisconnect, BeginStop,
       MarkStopping, Log
<1>8. ASSUME NEW p \in late, LateWork(p)
      PROVE  StoppingListed' /\ BookMatchesPeers'
  BY <1>0, <1>8, BookKept DEF LateWork, Log
<1>9. ASSUME NEW p \in stopping \cup leaving, LateDisconnect(p)
      PROVE  StoppingListed' /\ BookMatchesPeers'
  BY <1>0, <1>9, BookKept DEF LateDisconnect, Log
<1>10. CASE Stop \/ StopEnd
  BY <1>10, BookKept DEF Stop, StopEnd
<1>11. CASE StopVisit
  <2>1. idx \in 1..Len(peers)
    BY <1>0, <1>11 DEF StopVisit, TypeOK
  <2>2. peers[idx] \in ListedPeer /\ peers[idx].id \in IDs
    BY <1>0, <2>1 DEF ListedPeer, Peer
  <2> QED
    BY <1>0, <1>11, <2>2, BookKept DEF StopVisit, BeginStop, MarkStopping, Log
<1>12. CASE UNCHANGED vars
  BY <1>12, BookKept DEF vars
<1> QED
  BY <1>1, <1>2, <1>3, <1>4, <1>5, <1>6, <1>7, <1>8, <1>9, <1>10, <1>11, <1>12
     DEF Next, Connecting, PeerEvents, Removals, Stopping

\* check_status finds every listed ID, and "starting" always means listed.
THEOREM BookCorrect == Spec => []BookMatchesPeers
  BY TypeInit, TypeStep, BookInit, BookStep, PTL DEF Spec

------------------------------------------------------------------------------
(* Half of the peers are stopped *)

LEMMA ImageCardinality ==
    ASSUME NEW n \in Nat, NEW f, DOMAIN f = 1..n
    PROVE  /\ IsFiniteSet({f[i] : i \in 1..n})
           /\ Cardinality({f[i] : i \in 1..n}) <= n
<1> DEFINE T == {f[i] : i \in 1..n}
           g == [i \in 1..n |-> f[i]]
<1>1. g \in Surjection(1..n, T)
  BY DEF Surjection
<1>2. IsFiniteSet(1..n) /\ Cardinality(1..n) = n
  BY FS_Interval
<1> HIDE DEF T, g
<1>3. IsFiniteSet(T) /\ Cardinality(T) <= n
  BY <1>1, <1>2, FS_Surjection
<1> QED
  BY <1>3 DEF T

LEMMA ListedPeerFinite ==
    ASSUME TypeOK
    PROVE  /\ IsFiniteSet(ListedPeer)
           /\ Cardinality(ListedPeer) <= Len(peers)
<1>1. Len(peers) \in Nat /\ DOMAIN peers = 1..Len(peers)
  BY LenProperties DEF TypeOK
<1> QED
  BY <1>1, ImageCardinality DEF ListedPeer

LEMMA PassedOverFinite ==
    ASSUME TypeOK
    PROVE  /\ IsFiniteSet(PassedOver)
           /\ Cardinality(PassedOver) \in Nat
<1>1. PassedOver \in SUBSET ListedPeer
  BY DEF PassedOver, ListedPeer
<1>2. IsFiniteSet(PassedOver)
  BY <1>1, ListedPeerFinite, FS_Subset
<1> QED
  BY <1>2, FS_CardinalityType

LEMMA HalfInit == Init => HalfInv
  BY DEF Init, HalfInv

\* A step that passes over nobody else and leaves the list alone.
LEMMA HalfKept ==
    ASSUME TypeOK, TypeOK', HalfInv, UNCHANGED <<peers, state, atStop>>,
           PassedOver' \subseteq PassedOver, idx <= idx',
           todo' = todo \/ (todo # <<>> /\ state = "started")
    PROVE  HalfInv'
<1>1. /\ IsFiniteSet(PassedOver')
      /\ Cardinality(PassedOver') <= Cardinality(PassedOver)
  BY PassedOverFinite, FS_Subset
<1>2. /\ Cardinality(PassedOver) \in Nat /\ Cardinality(PassedOver') \in Nat
  BY <1>1, PassedOverFinite, FS_CardinalityType
<1>3. Len(peers) \in Nat /\ atStop \in Nat /\ idx \in Nat /\ idx' \in Nat
  BY LenProperties DEF TypeOK
<1> QED
  BY <1>1, <1>2, <1>3 DEF HalfInv

LEMMA HalfStep ==
    TypeOK /\ TypeOK' /\ NoDuplicatePeers /\ HalfInv /\ [Next]_vars => HalfInv'
<1> SUFFICES ASSUME TypeOK, TypeOK', NoDuplicatePeers, HalfInv, [Next]_vars
             PROVE  HalfInv'
  OBVIOUS
<1>0. /\ Len(peers) \in Nat /\ idx \in Nat \ {0} /\ peers \in Seq(Peer)
      /\ atStop \in Nat
  BY LenProperties DEF TypeOK
<1>1. ASSUME UNCHANGED <<peers, state, atStop, idx, todo>>, stopping \subseteq stopping'
      PROVE  HalfInv'
  <2>1. PassedOver' \subseteq PassedOver
    BY <1>1 DEF PassedOver
  <2> QED
    BY <1>0, <1>1, <2>1, HalfKept
<1>2. CASE Start \/ Bootstrap \/ (\E id \in IDs : NewConn(id))
  BY <1>2 DEF Start, Bootstrap, NewConn, Accepting, Idle, HalfInv
<1>3. CASE PeerEvents \/ (\E id \in IDs : Refuse(id)) \/ UNCHANGED vars
  BY <1>1, <1>3 DEF PeerEvents, ReportData, ReportDisconnect, LateWork,
     LateDisconnect, BeginStop, MarkStopping, Refuse, vars
<1>4. ASSUME NEW i \in 1..Len(peers), PeerGone(i)
      PROVE  HalfInv'
  <2>1. /\ Len(peers') = Len(peers) - 1
        /\ \A j \in 1..(Len(peers) - 1) :
             peers'[j] = IF j < i THEN peers[j] ELSE peers[j + 1]
        /\ stopping' = stopping \ {peers[i]}
        /\ UNCHANGED <<state, todo, idx, atStop>>
    BY <1>0, <1>4, RemoveAtProperties DEF PeerGone
  \* the peer that moves into the place of the one that left
  <2>2. PassedOver' \subseteq PassedOver \cup {peers[idx]}
    <3> SUFFICES ASSUME NEW k \in 1..Len(peers'), k < idx, peers'[k] \notin stopping'
                 PROVE  peers'[k] \in PassedOver \cup {peers[idx]}
      BY <2>1 DEF PassedOver
    <3>1. CASE k < i
      <4>1. k \in 1..Len(peers) /\ peers'[k] = peers[k] /\ k # i
        BY <1>0, <2>1, <3>1
      <4>2. peers[k] # peers[i]
        BY <4>1 DEF NoDuplicatePeers
      <4> QED
        BY <2>1, <4>1, <4>2 DEF PassedOver
    <3>2. CASE ~(k < i)
      <4>1. /\ k + 1 \in 1..Len(peers) /\ peers'[k] = peers[k + 1] /\ k + 1 # i
            /\ k + 1 < idx \/ k + 1 = idx
        BY <1>0, <2>1, <3>2
      <4>2. peers[k + 1] # peers[i]
        BY <4>1 DEF NoDuplicatePeers
      <4> QED
        BY <2>1, <4>1, <4>2 DEF PassedOver
    <3> QED
      BY <3>1, <3>2
  <2>3. /\ IsFiniteSet(PassedOver \cup {peers[idx]})
        /\ Cardinality(PassedOver \cup {peers[idx]}) <= Cardinality(PassedOver) + 1
    BY PassedOverFinite, FS_AddElement
  <2>4. /\ IsFiniteSet(PassedOver')
        /\ Cardinality(PassedOver') <= Cardinality(PassedOver \cup {peers[idx]})
    BY <2>2, <2>3, FS_Subset
  <2>5. Cardinality(PassedOver) \in Nat /\ Cardinality(PassedOver') \in Nat
    BY <2>4, PassedOverFinite, FS_CardinalityType
  <2>6. Cardinality(PassedOver \cup {peers[idx]}) \in Nat
    BY <2>3, FS_CardinalityType
  <2>7. Cardinality(PassedOver') <= Cardinality(PassedOver) + 1
    BY <2>3, <2>4, <2>5, <2>6
  <2> QED
    BY <1>0, <2>1, <2>5, <2>7 DEF HalfInv
<1>5. CASE Stop
  <2>1. PassedOver' = {}
    BY <1>5 DEF Stop, PassedOver
  <2>2. Cardinality(PassedOver') = 0
    BY <2>1, FS_EmptySet
  <2> QED
    BY <1>0, <1>5, <2>2 DEF Stop, Idle, HalfInv
<1>6. CASE StopVisit
  <2>1. idx \in 1..Len(peers) /\ idx' = idx + 1 /\ peers[idx] \in stopping'
        /\ stopping \subseteq stopping' /\ UNCHANGED <<peers, state, atStop, todo>>
    BY <1>0, <1>6 DEF StopVisit, NextIndex, BeginStop, MarkStopping
  <2>2. PassedOver' \subseteq PassedOver
    <3> SUFFICES ASSUME NEW k \in 1..Len(peers), k < idx + 1, peers[k] \notin stopping'
                 PROVE  peers[k] \in PassedOver
      BY <2>1 DEF PassedOver
    <3>1. k # idx
      BY <2>1
    <3> QED
      BY <1>0, <2>1, <3>1 DEF PassedOver
  <2> QED
    BY <1>0, <2>1, <2>2, HalfKept
<1>7. CASE StopEnd
  <2>1. PassedOver' = PassedOver
    BY <1>7 DEF StopEnd, PassedOver
  <2> QED
    BY <1>7, <2>1 DEF StopEnd, HalfInv
<1> QED
  BY <1>2, <1>3, <1>4, <1>5, <1>6, <1>7
     DEF Next, Connecting, Removals, Stopping

LEMMA HalfInvariant == Spec => []HalfInv
<1>1. Spec => [](TypeOK /\ NoDuplicatePeers)
  BY TypeCorrect, NeverDuplicate, PTL
<1> QED
  BY <1>1, HalfInit, HalfStep, PTL DEF Spec

\* stop may leave peers running, but never more than half of what it found, for
\* every list and however many peers stop by themselves meanwhile.
THEOREM HalfStopped == Spec => []HalfAreStopped
<1>1. TypeOK /\ HalfInv => HalfAreStopped
  <2> SUFFICES ASSUME TypeOK, HalfInv, state = "stopped"
               PROVE  2 * Cardinality(StillRunning) <= atStop
    BY DEF HalfAreStopped
  <2>1. Len(peers) \in Nat /\ idx \in Nat /\ atStop \in Nat /\ idx > Len(peers)
    BY LenProperties DEF TypeOK, HalfInv
  <2>2. PassedOver = StillRunning
    BY <2>1 DEF PassedOver, StillRunning, ListedPeer
  <2>3. StillRunning \in SUBSET ListedPeer
    BY DEF StillRunning
  <2>4. /\ Cardinality(StillRunning) <= Cardinality(ListedPeer)
        /\ Cardinality(StillRunning) \in Nat /\ Cardinality(ListedPeer) \in Nat
    BY <2>3, ListedPeerFinite, FS_Subset, FS_CardinalityType
  <2>5. Cardinality(StillRunning) <= Len(peers)
    BY <2>1, <2>4, ListedPeerFinite
  <2>6. Len(peers) + Cardinality(StillRunning) <= atStop
    BY <2>2 DEF HalfInv
  <2> QED
    BY <2>1, <2>4, <2>5, <2>6
<1> QED
  BY <1>1, TypeCorrect, HalfInvariant, PTL

\* No interleaving of bootstrap, hellos and stop adds a peer to a manager that
\* is stopping.
THEOREM NoneOnceStopping == Spec => NoPeerOnceStopping
<1>1. TypeOK /\ HalfInv /\ [Next]_vars
        => (state \in {"stopping", "stopped"} => ListedPeer' \subseteq ListedPeer)
  <2> SUFFICES ASSUME TypeOK, HalfInv, [Next]_vars, state \in {"stopping", "stopped"}
               PROVE  ListedPeer' \subseteq ListedPeer
    OBVIOUS
  <2>1. ASSUME peers' = peers
        PROVE  ListedPeer' \subseteq ListedPeer
    BY <2>1 DEF ListedPeer
  <2>2. CASE Start \/ Stopping \/ PeerEvents \/ UNCHANGED vars
              \/ (\E id \in IDs : Refuse(id))
    BY <2>1, <2>2 DEF Start, Stopping, Stop, StopVisit, StopEnd, PeerEvents,
       ReportData, ReportDisconnect, LateWork, LateDisconnect, Refuse, vars
  <2>3. ~Bootstrap
    BY DEF Bootstrap, HalfInv
  <2>4. \A id \in IDs : ~NewConn(id)
    BY DEF NewConn, Accepting
  <2>5. ASSUME NEW i \in 1..Len(peers), PeerGone(i)
        PROVE  ListedPeer' \subseteq ListedPeer
    <3>1. peers \in Seq(Peer) /\ peers' = RemoveAt(peers, i)
      BY <2>5 DEF PeerGone, TypeOK
    <3> QED
      BY <3>1, RemoveAtFrom DEF ListedPeer
  <2> QED
    BY <2>2, <2>3, <2>4, <2>5 DEF Next, Connecting, Removals
<1> QED
  BY <1>1, TypeCorrect, HalfInvariant, PTL DEF Spec, NoPeerOnceStopping

------------------------------------------------------------------------------
(* The manager implements Connections *)

LEMMA SetInit == Init => Set!Init
<1> SUFFICES ASSUME Init PROVE Set!Init
  OBVIOUS
<1>1. ListedIDs = {}
  BY DEF Init, ListedIDs
<1> QED
  BY <1>1 DEF Init, Set!Init, Phase, Conn

\* Nothing Connections knows of has changed.
LEMMA ConnSame ==
    ASSUME peers' = peers, stopping' = stopping
    PROVE  Conn' = Conn
  BY DEF Conn, ListedIDs, StoppingIDs

LEMMA ConnectMaps ==
    ASSUME TypeOK, StoppingListed, NEW id \in IDs, Approved(id), Connect(id),
           state = "started", UNCHANGED <<state, stopping>>
    PROVE  Set!Admit(id)
<1>0. peers \in Seq(Peer) /\ Len(peers) \in Nat
  BY LenProperties DEF TypeOK
<1>1. /\ Len(peers') = Len(peers) + 1
      /\ \A i \in 1..Len(peers) : peers'[i] = peers[i]
      /\ peers'[Len(peers) + 1].id = id
  BY ConnectType
<1>2. 1..Len(peers') = (1..Len(peers)) \cup {Len(peers) + 1}
  BY <1>0, <1>1
<1>3. ListedIDs' = ListedIDs \cup {id} /\ id \notin ListedIDs
  BY <1>1, <1>2 DEF ListedIDs, Approved
<1>4. StoppingIDs' = StoppingIDs /\ id \notin StoppingIDs
  BY <1>3 DEF StoppingIDs, StoppingListed, ListedPeer, ListedIDs
<1>5. Conn' = [Conn EXCEPT ![id] = "running"] /\ Conn[id] = "none"
  BY <1>3, <1>4 DEF Conn
\* one place in the list for each ID that is taken
<1>6. Cardinality(Set!Taken) < max_peers
  <2> DEFINE f == [i \in 1..Len(peers) |-> peers[i].id]
  <2>1. {f[i] : i \in 1..Len(peers)} = ListedIDs
    BY DEF ListedIDs
  <2>2. DOMAIN f = 1..Len(peers)
    OBVIOUS
  <2> HIDE DEF f
  <2>3. IsFiniteSet(ListedIDs) /\ Cardinality(ListedIDs) <= Len(peers)
    BY <1>0, <2>1, <2>2, ImageCardinality
  <2>4. Set!Taken \in SUBSET ListedIDs
    BY DEF Set!Taken, Conn
  <2>5. /\ Cardinality(Set!Taken) <= Cardinality(ListedIDs)
        /\ Cardinality(Set!Taken) \in Nat /\ Cardinality(ListedIDs) \in Nat
    BY <2>3, <2>4, FS_Subset, FS_CardinalityType
  <2> QED
    BY <1>0, <2>3, <2>5, MaxPeersAssumption DEF Approved
<1>7. Phase = "open" /\ Phase' = Phase
  BY DEF Phase
<1>8. Set!Cardinality(Set!Taken) = Cardinality(Set!Taken)
  BY DEF Cardinality, Set!Cardinality
<1> QED
  BY <1>5, <1>6, <1>7, <1>8 DEF Set!Admit

LEMMA StopMaps ==
    ASSUME TypeOK, StoppingListed, NoDuplicatePeers,
           NEW p \in ListedPeer, p \notin stopping,
           BeginStop(p), UNCHANGED <<peers, state>>
    PROVE  p.id \in IDs /\ Set!End(p.id)
<1>1. p.id \in IDs
  BY ListedPeerType DEF Peer
<1>2. p.id \in ListedIDs
  BY DEF ListedPeer, ListedIDs
<1>3. p.id \notin StoppingIDs
  BY DEF StoppingIDs, StoppingListed, NoDuplicatePeers, ListedPeer
<1>4. ListedIDs' = ListedIDs /\ StoppingIDs' = StoppingIDs \cup {p.id}
  BY DEF BeginStop, MarkStopping, ListedIDs, StoppingIDs
<1>5. Conn[p.id] = "running" /\ Conn' = [Conn EXCEPT ![p.id] = "stopping"]
  BY <1>1, <1>2, <1>3, <1>4 DEF Conn
<1> QED
  BY <1>1, <1>5 DEF Set!End, Phase

LEMMA GoneMaps ==
    ASSUME TypeOK, StoppingListed, NoDuplicatePeers,
           NEW i \in 1..Len(peers), PeerGone(i)
    PROVE  peers[i].id \in IDs /\ Set!Remove(peers[i].id)
<1> DEFINE id == peers[i].id
<1>0. peers \in Seq(Peer) /\ peers[i] \in ListedPeer
  BY DEF TypeOK, ListedPeer
<1>1. id \in IDs /\ id \in ListedIDs
  BY <1>0, ListedPeerType DEF Peer, ListedIDs
<1>2. /\ peers' = RemoveAt(peers, i) /\ stopping' = stopping \ {peers[i]}
      /\ peers[i] \in stopping /\ state' = state
  BY DEF PeerGone
<1>3. \A j \in 1..Len(peers) : j # i =>
         \E k \in 1..Len(peers') : peers'[k] = peers[j]
  BY <1>0, <1>2, RemoveAtElements
<1>4. ListedIDs' = ListedIDs \ {id}
  <2>1. \A k \in 1..Len(peers') :
           \E j \in 1..Len(peers) : j # i /\ peers'[k] = peers[j]
    BY <1>0, <1>2, RemoveAtFrom
  <2>2. \A j \in 1..Len(peers) : j # i => peers[j].id # id
    BY DEF NoDuplicatePeers
  <2> HIDE DEF id
  <2>3. ListedIDs' \subseteq ListedIDs \ {id}
    BY <2>1, <2>2 DEF ListedIDs
  <2>4. ListedIDs \ {id} \subseteq ListedIDs'
    <3> SUFFICES ASSUME NEW j \in 1..Len(peers), peers[j].id # id
                 PROVE  peers[j].id \in ListedIDs'
      BY DEF ListedIDs
    <3>1. j # i
      BY DEF id
    <3> QED
      BY <1>3, <3>1 DEF ListedIDs
  <2> QED
    BY <2>3, <2>4
<1>5. \A p \in stopping : p.id = id => p = peers[i]
  BY DEF StoppingListed, ListedPeer, NoDuplicatePeers
<1>6. StoppingIDs' = StoppingIDs \ {id} /\ id \in StoppingIDs
  BY <1>2, <1>5 DEF StoppingIDs
<1> HIDE DEF id
<1>7. Conn[id] = "stopping" /\ Conn' = [Conn EXCEPT ![id] = "none"]
  BY <1>1, <1>4, <1>6 DEF Conn
<1>8. id \in IDs /\ Set!Remove(id)
  BY <1>1, <1>2, <1>7 DEF Set!Remove, Phase
<1> QED
  BY <1>8 DEF id

LEMMA SetStep ==
    TypeOK /\ NoDuplicatePeers /\ StoppingListed /\ HalfInv /\ [Next]_vars
        => [Set!Next]_(Set!vars)
<1> SUFFICES ASSUME TypeOK, NoDuplicatePeers, StoppingListed, HalfInv, [Next]_vars
             PROVE  Set!Next \/ UNCHANGED Set!vars
  OBVIOUS
<1>0. Len(peers) \in Nat
  BY LenProperties DEF TypeOK
<1>1. ASSUME UNCHANGED <<peers, stopping, state>>
      PROVE  UNCHANGED Set!vars
  BY <1>1, ConnSame DEF Set!vars, Phase
<1>2. CASE UNCHANGED vars \/ (\E id \in IDs : Refuse(id))
            \/ (\E p \in ListedPeer : ReportData(p)) \/ (\E p \in late : LateWork(p))
            \/ (\E p \in stopping \cup leaving : LateDisconnect(p))
  BY <1>1, <1>2 DEF vars, Refuse, ReportData, LateWork, LateDisconnect
<1>3. CASE Start
  BY <1>3, ConnSame DEF Start, Set!Next, Set!Open, Phase
<1>4. CASE Bootstrap
  <2>1. state = "started" /\ Head(todo) \in IDs /\ UNCHANGED <<state, stopping>>
    BY <1>4 DEF Bootstrap, HalfInv, TypeOK
  <2>2. CASE Approved(Head(todo))
    BY <1>4, <2>1, <2>2, ConnectMaps DEF Bootstrap, Set!Next
  <2>3. CASE ~Approved(Head(todo))
    BY <1>1, <1>4, <2>1, <2>3 DEF Bootstrap
  <2> QED
    BY <2>2, <2>3
<1>5. ASSUME NEW id \in IDs, NewConn(id)
      PROVE  Set!Next
  BY <1>5, ConnectMaps DEF NewConn, Accepting, Set!Next
<1>6. ASSUME NEW p \in ListedPeer, ReportDisconnect(p)
      PROVE  Set!Next
  BY <1>6, StopMaps DEF ReportDisconnect, Running, Set!Next
<1>7. CASE Removals
  BY <1>7, GoneMaps DEF Removals, Set!Next
<1>8. CASE Stop
  BY <1>8, ConnSame DEF Stop, Set!Next, Set!Close, Phase
<1>9. CASE StopVisit
  <2>1. idx \in 1..Len(peers) /\ peers[idx] \in ListedPeer /\ UNCHANGED <<peers, state>>
    BY <1>0, <1>9 DEF StopVisit, TypeOK, ListedPeer
  <2>2. CASE peers[idx] \in stopping
    BY <1>1, <1>9, <2>1, <2>2 DEF StopVisit
  <2>3. CASE peers[idx] \notin stopping
    BY <1>9, <2>1, <2>3, StopMaps DEF StopVisit, Set!Next
  <2> QED
    BY <2>2, <2>3
<1>10. CASE StopEnd
  BY <1>10, ConnSame DEF StopEnd, Set!vars, Phase
<1> QED
  BY <1>2, <1>3, <1>4, <1>5, <1>6, <1>7, <1>8, <1>9, <1>10
     DEF Next, Connecting, PeerEvents, Stopping

LEMMA StoppingListedInvariant == Spec => []StoppingListed
  BY TypeInit, TypeStep, BookInit, BookStep, PTL DEF Spec

\* Slow stops, late reports, refused hellos and the manager's own stop included,
\* the list behaves as one connection per ID and max_peers in all, for every set
\* of IDs and every max_peers.
THEOREM ManagerImplementsConnections == Spec => ImplementsConnections
<1>1. Spec => [](TypeOK /\ NoDuplicatePeers /\ StoppingListed /\ HalfInv)
  BY TypeCorrect, NeverDuplicate, StoppingListedInvariant, HalfInvariant, PTL
<1> QED
  BY <1>1, SetInit, SetStep, PTL DEF Spec, ImplementsConnections, Set!Spec

------------------------------------------------------------------------------
(* The manager's stop is never stuck *)

LEMMA AwaitedInit == Init => AwaitedStops /\ VisitsBounded
  BY DEF Init, AwaitedStops, VisitsBounded

LEMMA AwaitedStep ==
    TypeOK /\ HalfInv /\ AwaitedStops /\ VisitsBounded /\ [Next]_vars
        => AwaitedStops' /\ VisitsBounded'
<1> SUFFICES ASSUME TypeOK, HalfInv, AwaitedStops, VisitsBounded, [Next]_vars
             PROVE  AwaitedStops' /\ VisitsBounded'
  OBVIOUS
<1>0. Len(peers) \in Nat /\ idx \in Nat \ {0} /\ atStop \in Nat
  BY LenProperties DEF TypeOK
\* stop comes to a peer, or the awaited one is still stopping
<1>1. ASSUME UNCHANGED <<state, awaited, idx, atStop>>, stopping \subseteq stopping'
      PROVE  AwaitedStops' /\ VisitsBounded'
  BY <1>1 DEF AwaitedStops, VisitsBounded
<1>2. CASE Start
  BY <1>2 DEF Start, AwaitedStops, VisitsBounded
<1>3. CASE Bootstrap \/ UNCHANGED vars \/ (\E id \in IDs : NewConn(id) \/ Refuse(id))
  BY <1>1, <1>3 DEF Bootstrap, NewConn, Refuse, vars
<1>4. CASE PeerEvents
  BY <1>1, <1>4 DEF PeerEvents, ReportData, ReportDisconnect, BeginStop, MarkStopping,
     LateWork, LateDisconnect
<1>5. ASSUME NEW i \in 1..Len(peers), PeerGone(i)
      PROVE  AwaitedStops' /\ VisitsBounded'
  <2>1. /\ stopping' = stopping \ {peers[i]} /\ UNCHANGED <<state, idx, atStop>>
        /\ awaited' = IF awaited = peers[i] THEN None ELSE awaited
    BY <1>5 DEF PeerGone, Wake
  <2> QED
    BY <2>1 DEF AwaitedStops, VisitsBounded
<1>6. CASE Stop
  BY <1>0, <1>6 DEF Stop, AwaitedStops, VisitsBounded
<1>7. CASE StopVisit
  <2>1. state = "stopping" /\ idx <= Len(peers) /\ idx' = idx + 1 /\ state' = state
        /\ atStop' = atStop
    BY <1>7 DEF StopVisit, NextIndex
  <2>2. Len(peers) <= atStop
    <3>1. Len(peers) + Cardinality(PassedOver) <= atStop
      BY <2>1 DEF HalfInv
    <3> QED
      BY <1>0, <3>1, PassedOverFinite
  <2>3. VisitsBounded'
    BY <1>0, <2>1, <2>2 DEF VisitsBounded
  <2>4. AwaitedStops'
    BY <1>7, <2>1 DEF StopVisit, BeginStop, MarkStopping, AwaitedStops
  <2> QED
    BY <2>3, <2>4
<1>8. CASE StopEnd
  BY <1>0, <1>8 DEF StopEnd, AwaitedStops, VisitsBounded
<1> QED
  BY <1>2, <1>3, <1>4, <1>5, <1>6, <1>7, <1>8
     DEF Next, Connecting, Removals, Stopping

\* While the manager stops, it can visit the next peer, or end, or wait for a peer
\* that is inside its own stop, and it visits no more peers than it found: all that
\* StopReturns needs besides fairness, for every max_peers.
THEOREM NeverStuck == Spec => []StopNeverStuck
<1>1. TypeOK /\ HalfInv /\ StoppingListed /\ AwaitedStops /\ VisitsBounded
        => StopNeverStuck
  <2> SUFFICES ASSUME HalfInv, StoppingListed, AwaitedStops, VisitsBounded,
                      state = "stopping"
               PROVE  /\ Idle /\ idx <= atStop + 1
                      /\ \/ awaited = None
                         \/ \E i \in 1..Len(peers) :
                               peers[i] = awaited /\ peers[i] \in stopping
    BY DEF StopNeverStuck
  <2>1. Idle /\ idx <= atStop + 1
    BY DEF HalfInv, VisitsBounded, Idle
  <2>2. awaited # None => awaited \in stopping /\ awaited \in ListedPeer
    BY DEF AwaitedStops, StoppingListed
  <2> QED
    BY <2>1, <2>2 DEF ListedPeer
<1> QED
  BY <1>1, TypeCorrect, HalfInvariant, StoppingListedInvariant, AwaitedInit,
     AwaitedStep, PTL DEF Spec
==============================================================================
