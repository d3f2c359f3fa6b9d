-------------------------- MODULE BlockSync_proofs --------------------------
(***************************************************************************)
(* Proofs about BlockSync for every set of nodes, all chains they may      *)
(* start with, every chunk size and every bound.                           *)
(***************************************************************************)
EXTENDS BlockSync, SequenceTheorems, TLAPS

USE TopAssumption, HeightAssumption

\* The chunks overlap (node.py:114-121): each of them is the list from its index
\* to the end.
LEMMA ChunkIsTail ==
    ASSUME NEW S, NEW res \in Seq(S), NEW k \in 0..Len(res), k * MaxBlock < Len(res)
    PROVE  ChunkAt(res, k * MaxBlock) = SubSeq(res, k * MaxBlock + 1, Len(res))
<1>1. k * MaxBlock \in Nat
  BY LenProperties, MaxBlockAssumption
<1> DEFINE index == k * MaxBlock
<1> HIDE DEF index
<1>2. CASE index + MaxBlock < Len(res)
  BY <1>2, LenProperties DEF ChunkAt, Slice, index
<1>3. CASE ~(index + MaxBlock < Len(res))
  BY <1>3, LenProperties DEF ChunkAt, Slice, index
<1> QED
  BY <1>2, <1>3 DEF index

\* Every chunk of a list is a list of at least one block, of that list, and ends
\* as the list does: the subscript [-1] of node.py:222 finds its last element.
LEMMA ChunkTypes ==
    ASSUME NEW S, NEW res \in Seq(S), NEW c \in Chunks(res)
    PROVE  /\ c \in Seq(S) /\ c # <<>>
           /\ c[Len(c)] = res[Len(res)]
           /\ \A i \in DOMAIN c : \E j \in DOMAIN res : c[i] = res[j]
<1>1. Len(res) \in Nat /\ DOMAIN res = 1..Len(res)
  BY LenProperties
<1>2. PICK k \in 0..Len(res) : k * MaxBlock < Len(res) /\ c = ChunkAt(res, k * MaxBlock)
  BY DEF Chunks
<1> DEFINE index == k * MaxBlock
<1>3. index \in Nat /\ index < Len(res)
  BY <1>1, <1>2, MaxBlockAssumption
<1>4. c = SubSeq(res, index + 1, Len(res))
  BY <1>2, ChunkIsTail
<1> HIDE DEF index
<1>5. \A i \in (index + 1)..Len(res) : res[i] \in S
  BY <1>1, <1>3, ElementOfSeq
<1>6. /\ c \in Seq(S)
      /\ Len(c) = Len(res) - index
      /\ \A i \in 1..(Len(res) - index) : c[i] = res[index + i]
  <2> DEFINE first == index + 1
  <2>1. first \in Int /\ Len(res) \in Int /\ first <= Len(res)
    BY <1>1, <1>3
  <2> HIDE DEF first
  <2>2. /\ SubSeq(res, first, Len(res)) \in Seq(S)
        /\ Len(SubSeq(res, first, Len(res))) = Len(res) - first + 1
        /\ \A i \in 1..(Len(res) - first + 1) :
              SubSeq(res, first, Len(res))[i] = res[first + i - 1]
    BY <1>5, <2>1, SubSeqProperties DEF first
  <2>3. c = SubSeq(res, first, Len(res))
    BY <1>4 DEF first
  <2>4. ASSUME NEW i \in 1..(Len(res) - index) PROVE c[i] = res[index + i]
    <3>1. i \in 1..(Len(res) - first + 1) /\ first + i - 1 = index + i
      BY <1>1, <1>3 DEF first
    <3> QED
      BY <2>2, <2>3, <3>1
  <2>5. c \in Seq(S) /\ Len(c) = Len(res) - first + 1
    BY <2>2, <2>3
  <2>6. Len(c) = Len(res) - index
    BY <1>1, <1>3, <2>5 DEF first
  <2> QED
    BY <2>4, <2>5, <2>6
<1>7. Len(c) \in 1..Len(res) /\ DOMAIN c = 1..Len(c)
  BY <1>1, <1>3, <1>6, LenProperties
<1>8. c[Len(c)] = res[Len(res)]
  BY <1>1, <1>3, <1>6, <1>7
<1>9. \A i \in DOMAIN c : c[i] = res[index + i] /\ index + i \in DOMAIN res
  BY <1>1, <1>3, <1>6, <1>7
<1>10. c # <<>>
  BY <1>7, EmptySeq
<1> QED
  BY <1>6, <1>8, <1>9, <1>10

\* The first chunk holds the whole list.
LEMMA FirstChunk ==
    ASSUME NEW S, NEW res \in Seq(S), Len(res) > 0
    PROVE  \E c \in Chunks(res) : \A j \in DOMAIN res : j \in DOMAIN c /\ c[j] = res[j]
<1>1. Len(res) \in Nat /\ DOMAIN res = 1..Len(res)
  BY LenProperties
<1>2. 0 * MaxBlock = 0
  BY MaxBlockAssumption
<1> DEFINE c == ChunkAt(res, 0 * MaxBlock)
<1>3. c \in Chunks(res)
  BY <1>1, <1>2 DEF Chunks
<1>4. c = SubSeq(res, 1, Len(res))
  BY <1>1, <1>2, ChunkIsTail
<1> HIDE DEF c
<1>5. \A i \in 1..Len(res) : res[i] \in S
  BY <1>1, ElementOfSeq
<1>6. /\ c \in Seq(S) /\ Len(c) = Len(res)
      /\ \A i \in 1..(Len(res) - 1 + 1) : c[i] = res[1 + i - 1]
  BY <1>1, <1>4, <1>5, SubSeqProperties
<1>7. \A j \in DOMAIN res : j \in DOMAIN c /\ c[j] = res[j]
  BY <1>1, <1>6, LenProperties
<1> QED
  BY <1>3, <1>7

\* A list of getBlockByID holds block numbers and None.
LEMMA BlockListType ==
    ASSUME NEW blks, NEW fro \in 0..Top, NEW to \in 0..Top
    PROVE  BlockList(blks, fro, to) \in Seq(0..Top)
<1> DEFINE len == IF to > fro THEN to - fro ELSE 0
<1>1. len \in Nat
  OBVIOUS
<1>2. \A i \in 1..len : (IF fro + i \in blks THEN fro + i ELSE None) \in 0..Top
  BY DEF None
<1>3. BlockList(blks, fro, to) = [i \in 1..len |-> IF fro + i \in blks THEN fro + i ELSE None]
  BY DEF BlockList
<1> HIDE DEF len
<1> QED
  BY <1>1, <1>2, <1>3, IsASeq

\* What a node sends is well-formed.
GoodMessage(m) == m \in Message \/ Reply(m)

LEMMA RepliesType ==
    ASSUME NEW n \in Nodes, NEW to \in Nodes, NEW res \in Seq(0..Top)
    PROVE  \A m \in Replies(n, to, res) : GoodMessage(m)
<1> SUFFICES ASSUME NEW c \in Chunks(res)
             PROVE  Reply(Msg("04", n, to, <<c, Range(c) \cap converted[n]>>))
  BY DEF Replies, GoodMessage
<1>1. c \in Seq(0..Top) /\ c # <<>>
  BY ChunkTypes
<1> QED
  BY <1>1 DEF Reply, Msg

\* The peers of a node are nodes.
LEMMA BroadcastType ==
    ASSUME NEW method, NEW n \in Nodes, NEW data, NEW excluded,
           \A p \in Nodes : Msg(method, n, p, data) \in Message
    PROVE  \A m \in Broadcast(method, n, data, excluded) : GoodMessage(m)
  BY DEF Broadcast, Peers, GoodMessage

LEMMA MessageTypes ==
    ASSUME NEW n \in Nodes, NEW p \in Nodes
    PROVE  /\ \A k \in 0..Top : Msg("00", n, p, <<k>>) \in Message
           /\ \A k, l \in 0..Top : Msg("03", n, p, <<k, l>>) \in Message
           /\ \A b \in Numbers, hex \in BOOLEAN, keys \in BlockShapes :
                Msg("01", n, p, <<BlockData(b, hex, keys)>>) \in Message
           /\ \A keys \in TxShapes : Msg("02", n, p, <<keys>>) \in Message
<1>1. \A k \in 0..Top : Msg("00", n, p, <<k>>) \in Message
  BY DEF Msg, Message
<1>2. \A k, l \in 0..Top : Msg("03", n, p, <<k, l>>) \in Message
  BY DEF Msg, Message
<1>3. \A b \in Numbers, hex \in BOOLEAN, keys \in BlockShapes :
         Msg("01", n, p, <<BlockData(b, hex, keys)>>) \in Message
  BY DEF Msg, Message
<1>4. \A keys \in TxShapes : Msg("02", n, p, <<keys>>) \in Message
  BY DEF Msg, Message
<1> QED
  BY <1>1, <1>2, <1>3, <1>4

\* What a message of each method holds.
LEMMA MessageParts ==
    ASSUME NEW m, GoodMessage(m)
    PROVE  /\ m.from \in Nodes /\ m.to \in Nodes
           /\ m.method = "00" => m.data[1] \in 0..Top
           /\ m.method = "03" => m.data[1] \in 0..Top /\ m.data[2] \in 0..Top
           /\ m.method = "01" => \E b \in Numbers, hex \in BOOLEAN, keys \in BlockShapes :
                                    m.data[1] = BlockData(b, hex, keys)
           /\ m.method = "02" => \E keys \in TxShapes : m.data = <<keys>>
           /\ m.method = "04" => m.data[1] \in Seq(0..Top) /\ m.data[1] # <<>>
<1>1. CASE Reply(m)
  BY <1>1 DEF Reply
<1>2. CASE m \in Message
  BY <1>2 DEF Message
<1> QED
  BY <1>1, <1>2 DEF GoodMessage

------------------------------------------------------------------------------
\* Taking a message leaves the rest, and keeps the counter within its bound.
LEMMA TakeType ==
    ASSUME TypeOK, NEW m \in net, NEW mgr, NEW dup \in BOOLEAN, Take(m, mgr, dup)
    PROVE  /\ \A k \in Left(m, dup) : GoodMessage(k)
           /\ dups' \in 0..MaxDups
           /\ m.to \in Nodes /\ m.from \in Nodes
<1>1. \A k \in net : GoodMessage(k)
  BY DEF TypeOK, GoodMessage
<1>2. dups' \in 0..MaxDups
  <2>1. MaxDups \in Nat
    BY BoundsAssumption
  <2> QED
    BY <2>1 DEF Take, TypeOK
<1> QED
  BY <1>1, <1>2, MessageParts DEF Left

\* A greenlet that ends leaves the others.
LEMMA DbRunsType ==
    ASSUME NEW n, NEW ok \in BOOLEAN, DbRuns(n, ok), running \subseteq started \X Managers
    PROVE  running' \subseteq started \X Managers
  BY DEF DbRuns

\* What createBlock is given is stored, and nothing is lost.
LEMMA StoreType ==
    ASSUME TypeOK, NEW n \in Nodes, NEW blks \in SUBSET Numbers, Store(n, blks)
    PROVE  /\ stored' \in [Nodes -> SUBSET Numbers]
           /\ converted' \in [Nodes -> SUBSET Numbers]
           /\ \A p \in Nodes : stored[p] \subseteq stored'[p]
<1>1. stored' \in [Nodes -> SUBSET Numbers]
  BY DEF Store, TypeOK
<1>2. converted' \in [Nodes -> SUBSET Numbers]
  BY DEF Store, TypeOK
<1>3. \A p \in Nodes : stored[p] \subseteq stored'[p]
  BY DEF Store, TypeOK
<1> QED
  BY <1>1, <1>2, <1>3

\* The blocks of a list are block numbers.
LEMMA ListedBlocks ==
    ASSUME NEW blks \in Seq(0..Top)
    PROVE  Range(blks) \ {None} \subseteq Numbers
<1> SUFFICES ASSUME NEW i \in DOMAIN blks, blks[i] # None PROVE blks[i] \in Numbers
  BY DEF Range
<1>1. blks[i] \in 0..Top
  BY ElementOfSeq, LenProperties
<1> QED
  BY <1>1 DEF None, Numbers

\* Applying and storing the blocks of a list, or failing on the way.
LEMMA UpdateType ==
    ASSUME TypeOK, NEW n \in Nodes, NEW blks \in Seq(0..Top), NEW ints,
           updateBlkTrans(n, blks, ints)
    PROVE  /\ stored' \in [Nodes -> SUBSET Numbers]
           /\ converted' \in [Nodes -> SUBSET Numbers]
           /\ applied' \in [Nodes -> SUBSET Numbers]
           /\ \A p \in Nodes : /\ stored[p] \subseteq stored'[p]
                              /\ applied[p] \subseteq applied'[p]
<1> DEFINE got == Range(blks) \ {None}
           reached == {i \in DOMAIN blks : \A j \in 1..(i - 1) : blks[j] \notin ints}
           used == {blks[i] : i \in reached} \ {None}
<1>1. got \subseteq Numbers /\ used \subseteq got
  BY ListedBlocks DEF Range
<1>2. applied' = [applied EXCEPT ![n] = @ \cup used]
  BY DEF updateBlkTrans
<1>3. Store(n, got) \/ UNCHANGED database
  BY DEF updateBlkTrans
<1> HIDE DEF got, used
<1>4. applied' \in [Nodes -> SUBSET Numbers] /\ \A p \in Nodes : applied[p] \subseteq applied'[p]
  BY <1>1, <1>2 DEF TypeOK
<1>5. CASE Store(n, got)
  BY <1>1, <1>4, <1>5, StoreType
<1>6. CASE UNCHANGED database
  BY <1>4, <1>6 DEF database, TypeOK
<1> QED
  BY <1>3, <1>5, <1>6

\* A list without integer hashes is applied and stored as a whole.
LEMMA UpdateWhole ==
    ASSUME TypeOK, NEW n \in Nodes, NEW blks \in Seq(0..Top),
           updateBlkTrans(n, blks, {})
    PROVE  /\ stored' = [stored EXCEPT ![n] = @ \cup (Range(blks) \ {None})]
           /\ applied' = [applied EXCEPT ![n] = @ \cup (Range(blks) \ {None})]
<1>1. {i \in DOMAIN blks : \A j \in 1..(i - 1) : blks[j] \notin {}} = DOMAIN blks
  OBVIOUS
<1>2. {blks[i] : i \in DOMAIN blks} = Range(blks)
  BY DEF Range
<1> QED
  BY <1>1, <1>2 DEF updateBlkTrans, Store

\* Type correctness of the two managers of every node, for every chunk, whether
\* or not it holds None, and for broadcasts of any kind.
THEOREM TypeCorrect == Spec => []TypeOK
<1>1. Init => TypeOK
  <2> SUFFICES ASSUME Init PROVE TypeOK
    OBVIOUS
  <2>1. \A n \in Nodes : 1..Height[n] \in SUBSET Numbers /\ Height[n] \in 0..Top
    BY DEF Numbers
  <2>2. 0 \in 0..MaxCasts /\ 0 \in 0..MaxDups
    BY BoundsAssumption
  <2>3. Converted \in [Nodes -> SUBSET Numbers]
    BY DatabaseAssumption DEF Numbers
  <2> QED
    BY <2>1, <2>2, <2>3 DEF Init, TypeOK
<1>2. TypeOK /\ [Next]_vars => TypeOK'
  <2> SUFFICES ASSUME TypeOK, [Next]_vars PROVE TypeOK'
    OBVIOUS
  <2> USE DEF GoodMessage, database
  <2>1. ASSUME NEW n \in Nodes, NEW peers \in SUBSET Nodes, Start(n, peers)
        PROVE  TypeOK'
    <3>1. blockNumber[n] \in 0..Top
      BY DEF TypeOK
    <3>2. \A m \in net' : GoodMessage(m)
      BY <2>1, <3>1, MessageTypes DEF Start, TypeOK
    <3>3. running' \subseteq started' \X Managers
      BY <2>1 DEF Start, TypeOK
    <3>4. links' \subseteq {{a, p} : a \in Nodes, p \in Nodes}
      BY <2>1 DEF Start, TypeOK
    <3> QED
      BY <2>1, <3>2, <3>3, <3>4 DEF Start, TypeOK
  <2>2. ASSUME NEW n \in Stoppers, Stop(n) PROVE TypeOK'
    BY <2>2 DEF Stop, TypeOK
  <2>3. ASSUME NEW m \in net, NEW dup \in BOOLEAN, Handle(m, dup)
        PROVE  TypeOK'
    <3>1. GoodMessage(m)
      BY DEF TypeOK
    <3>2. CASE RecvStatus(m, dup)
      <4> DEFINE own == blockNumber[m.to]
                 num == m.data[1]
      <4>1. Take(m, "stat", dup) /\ m.method = "00"
        BY <3>2 DEF RecvStatus
      <4>2. own \in 0..Top /\ num \in 0..Top /\ m.to \in Nodes /\ m.from \in Nodes
        BY <3>1, <4>1, MessageParts DEF TypeOK
      <4>3. \A k \in Broadcast("03", m.to, <<own, num>>, {}) : GoodMessage(k)
        BY <4>2, MessageTypes, BroadcastType
      <4>4. \A k \in Replies(m.to, m.from, BlockList(stored[m.to], num, own)) : GoodMessage(k)
        BY <4>2, BlockListType, RepliesType
      <4>5. \A k \in Left(m, dup) : GoodMessage(k)
        BY <4>1, TakeType
      <4>6. \A k \in net' : GoodMessage(k)
        BY <3>2, <4>3, <4>4, <4>5 DEF RecvStatus
      <4>7. dups' \in 0..MaxDups
        BY <4>1, TakeType
      <4> QED
        BY <3>2, <4>6, <4>7 DEF RecvStatus, TypeOK
    <3>3. CASE RecvGetBlocks(m, dup)
      <4>1. Take(m, "db", dup) /\ m.method = "03"
        BY <3>3 DEF RecvGetBlocks
      <4>2. /\ m.data[1] \in 0..Top /\ m.data[2] \in 0..Top
            /\ m.to \in Nodes /\ m.from \in Nodes
        BY <3>1, <4>1, MessageParts
      <4>3. \A k \in Replies(m.to, m.from,
                       BlockList(stored[m.to], m.data[1], m.data[2])) : GoodMessage(k)
        BY <4>2, BlockListType, RepliesType
      <4>4. \A k \in net' : GoodMessage(k)
        BY <3>3, <4>1, <4>3, TakeType DEF RecvGetBlocks
      <4>5. dups' \in 0..MaxDups
        BY <4>1, TakeType
      <4> QED
        BY <3>3, <4>4, <4>5 DEF RecvGetBlocks, TypeOK
    <3>4. CASE RecvBlocks(m, dup)
      <4> DEFINE blks == m.data[1]
                 last == blks[Len(blks)]
      <4>1. Take(m, "db", dup) /\ m.method = "04"
        BY <3>4 DEF RecvBlocks
      <4>2. m.to \in Nodes /\ blks \in Seq(0..Top) /\ blks # <<>>
        BY <3>1, <4>1, MessageParts
      <4>3. last \in 0..Top
        <5>1. Len(blks) \in 1..Len(blks)
          BY <4>2, EmptySeq, LenProperties
        <5> QED
          BY <4>2, <5>1, ElementOfSeq
      <4> DEFINE ok == m.data[2] = {} /\ last # None
      <4>4. /\ stored' \in [Nodes -> SUBSET Numbers]
            /\ converted' \in [Nodes -> SUBSET Numbers]
            /\ applied' \in [Nodes -> SUBSET Numbers]
        BY <3>4, <4>2, UpdateType DEF RecvBlocks
      <4>5. blockNumber' \in [Nodes -> 0..Top]
        <5>1. blockNumber' = IF ok THEN [blockNumber EXCEPT ![m.to] = last] ELSE blockNumber
          BY <3>4 DEF RecvBlocks
        <5> QED
          BY <4>2, <4>3, <5>1 DEF TypeOK
      <4>6. running' \subseteq started' \X Managers
        <5>1. DbRuns(m.to, ok) /\ started' = started
          BY <3>4 DEF RecvBlocks
        <5>2. ok \in BOOLEAN /\ running \subseteq started \X Managers
          BY DEF TypeOK
        <5>3. running' \subseteq started \X Managers
          BY <5>1, <5>2, DbRunsType
        <5> QED
          BY <5>1, <5>3
      <4>7. \A k \in net' : GoodMessage(k)
        BY <3>4, <4>1, TakeType DEF RecvBlocks
      <4>8. dups' \in 0..MaxDups
        BY <4>1, TakeType
      <4>9. UNCHANGED <<started, links, pending, casts>>
        BY <3>4 DEF RecvBlocks
      <4> QED
        BY <4>4, <4>5, <4>6, <4>7, <4>8, <4>9 DEF TypeOK
    <3>5. CASE RecvBlock(m, dup)
      <4>1. Take(m, "db", dup) /\ m.method = "01"
        BY <3>5 DEF RecvBlock
      <4> DEFINE packet == m.data[1]
      <4>2. PICK b \in Numbers, hex \in BOOLEAN, keys \in BlockShapes :
              packet = BlockData(b, hex, keys)
        BY <3>1, <4>1, MessageParts
      <4>3. packet.block = b /\ packet.keys = keys /\ Usable(packet) \in BOOLEAN
        <5>1. packet.block = b /\ packet.keys = keys
          BY <4>2 DEF BlockData
        <5>2. Usable(packet) \in BOOLEAN
          BY DEF Usable
        <5> QED
          BY <5>1, <5>2
      <4>4. m.to \in Nodes
        BY <3>1, MessageParts
      <4> DEFINE passed == <<BlockData(packet.block, FALSE, packet.keys)>>
      <4>5. \A k \in Broadcast("01", m.to, passed, {m.from}) : GoodMessage(k)
        <5>1. \A p \in Nodes : Msg("01", m.to, p, <<BlockData(b, FALSE, keys)>>) \in Message
          BY <4>4, MessageTypes
        <5> QED
          BY <4>3, <4>4, <5>1, BroadcastType
      <4>6. \A k \in net' : GoodMessage(k)
        BY <3>5, <4>1, <4>5, TakeType DEF RecvBlock
      <4>7. stored' \in [Nodes -> SUBSET Numbers] /\ converted' \in [Nodes -> SUBSET Numbers]
        <5>1. CASE Usable(packet)
          BY <3>5, <4>3, <4>4, <5>1, StoreType DEF RecvBlock
        <5>2. CASE ~Usable(packet)
          BY <3>5, <5>2 DEF RecvBlock, TypeOK
        <5> QED
          BY <5>1, <5>2
      <4>8. running' \subseteq started' \X Managers
        <5>1. DbRuns(m.to, Usable(packet)) /\ started' = started
          BY <3>5 DEF RecvBlock
        <5> QED
          BY <4>3, <5>1, DbRunsType DEF TypeOK
      <4>9. dups' \in 0..MaxDups
        BY <4>1, TakeType
      <4>10. UNCHANGED <<started, links, blockNumber, applied, pending, casts>>
        BY <3>5 DEF RecvBlock
      <4> QED
        BY <4>6, <4>7, <4>8, <4>9, <4>10 DEF TypeOK
    <3>6. CASE RecvTransaction(m, dup)
      <4> DEFINE ok == TxKeys \subseteq m.data[1]
      <4>1. Take(m, "db", dup) /\ m.method = "02"
        BY <3>6 DEF RecvTransaction
      <4>2. (\E keys \in TxShapes : m.data = <<keys>>) /\ m.to \in Nodes
        BY <3>1, <4>1, MessageParts
      <4>3. \A k \in Broadcast("02", m.to, m.data, {m.from}) : GoodMessage(k)
        BY <4>2, MessageTypes, BroadcastType
      <4>4. \A k \in net' : GoodMessage(k)
        BY <3>6, <4>1, <4>3, TakeType DEF RecvTransaction
      <4>5. running' \subseteq started' \X Managers
        <5>1. DbRuns(m.to, ok) /\ started' = started
          BY <3>6 DEF RecvTransaction
        <5>2. ok \in BOOLEAN /\ running \subseteq started \X Managers
          BY DEF TypeOK
        <5>3. running' \subseteq started \X Managers
          BY <5>1, <5>2, DbRunsType
        <5> QED
          BY <5>1, <5>3
      <4>6. pending' \subseteq Nodes
        BY <3>6, <4>2 DEF RecvTransaction, TypeOK
      <4>7. dups' \in 0..MaxDups
        BY <4>1, TakeType
      <4>8. UNCHANGED <<started, links, blockNumber, database, applied, casts>>
        BY <3>6 DEF RecvTransaction
      <4> QED
        BY <4>4, <4>5, <4>6, <4>7, <4>8 DEF TypeOK
    <3> QED
      BY <2>3, <3>2, <3>3, <3>4, <3>5, <3>6 DEF Handle
  <2>4. ASSUME NEW n \in Nodes, NEW method, NEW data, Cast(n, method, data),
               \A p \in Nodes : Msg(method, n, p, data) \in Message
        PROVE  TypeOK'
    <3>1. \A k \in Broadcast(method, n, data, {}) : GoodMessage(k)
      BY <2>4, BroadcastType
    <3>2. casts' \in 0..MaxCasts
      BY <2>4, BoundsAssumption DEF Cast, TypeOK
    <3>3. \A k \in net' : GoodMessage(k)
      BY <2>4, <3>1 DEF Cast, TypeOK
    <3> QED
      BY <2>4, <3>2, <3>3 DEF Cast, TypeOK
  <2>5. ASSUME NEW n \in Casters, NEW keys \in TxShapes, CastTransaction(n, keys)
        PROVE  TypeOK'
    <3>1. n \in Nodes
      BY ActorsAssumption
    <3> QED
      BY <2>4, <2>5, <3>1, MessageTypes DEF CastTransaction
  <2>6. ASSUME NEW n \in Casters, NEW keys \in BlockShapes, CastBlock(n, keys)
        PROVE  TypeOK'
    <3> DEFINE data == <<BlockData(blockNumber[n] + 1, TRUE, keys)>>
    <3>1. n \in Nodes
      BY ActorsAssumption
    <3>2. blockNumber[n] + 1 \in Numbers
      BY <2>6, <3>1 DEF CastBlock, TypeOK, Numbers
    <3>3. Cast(n, "01", data)
      BY <2>6 DEF CastBlock
    <3>4. \A p \in Nodes : Msg("01", n, p, data) \in Message
      BY <3>1, <3>2, MessageTypes
    <3> HIDE DEF data
    <3> QED
      BY <2>4, <3>1, <3>3, <3>4
  <2>7. CASE UNCHANGED vars
    BY <2>7 DEF vars, TypeOK
  <2> QED
    BY <2>1, <2>2, <2>3, <2>5, <2>6, <2>7 DEF Next
<1> QED
  BY <1>1, <1>2, PTL DEF Spec

\* A broadcast block adds to the databases.
LEMMA BlockGrows ==
    ASSUME TypeOK, NEW m \in net, NEW dup \in BOOLEAN, RecvBlock(m, dup)
    PROVE  \A n \in Nodes : stored[n] \subseteq stored'[n]
<1>1. CASE Usable(m.data[1])
  <2>1. PICK b \in Numbers, hex \in BOOLEAN, keys \in BlockShapes :
          m.data[1] = BlockData(b, hex, keys)
    BY MessageParts DEF RecvBlock, TypeOK, GoodMessage
  <2>2. {m.data[1].block} \in SUBSET Numbers /\ m.to \in Nodes
    BY <2>1, MessageParts DEF BlockData, TypeOK, GoodMessage
  <2> QED
    BY <1>1, <2>2, StoreType DEF RecvBlock
<1>2. CASE ~Usable(m.data[1])
  BY <1>2 DEF RecvBlock, database
<1> QED
  BY <1>1, <1>2

------------------------------------------------------------------------------
\* The block number of every node is a block it has stored and applied
\* (node.py:220-222, 247-261), for chains and chunks of any length.
THEOREM NumberBacked == Spec => []NumberIsBacked
<1>1. Init => NumberIsBacked
  <2> SUFFICES ASSUME Init, NEW n \in Nodes, Height[n] # 0
               PROVE  Height[n] \in 1..Height[n]
    BY DEF Init, NumberIsBacked
  <2> QED
    OBVIOUS
<1>2. TypeOK /\ NumberIsBacked /\ [Next]_vars => NumberIsBacked'
  <2> SUFFICES ASSUME TypeOK, NumberIsBacked, [Next]_vars PROVE NumberIsBacked'
    OBVIOUS
  \* What has been stored and applied stays so.
  <2>1. ASSUME UNCHANGED <<blockNumber, applied>>,
               \A n \in Nodes : stored[n] \subseteq stored'[n]
        PROVE  NumberIsBacked'
    BY <2>1 DEF NumberIsBacked
  <2>2. ASSUME UNCHANGED <<blockNumber, applied, stored>> PROVE NumberIsBacked'
    BY <2>2 DEF NumberIsBacked
  <2>3. ASSUME NEW m \in net, NEW dup \in BOOLEAN, RecvBlocks(m, dup)
        PROVE  NumberIsBacked'
    <3> DEFINE n == m.to
               blks == m.data[1]
               last == blks[Len(blks)]
               ok == m.data[2] = {} /\ last # None
    <3>1. n \in Nodes /\ blks \in Seq(0..Top) /\ blks # <<>>
      BY <2>3, MessageParts DEF RecvBlocks, TypeOK, GoodMessage
    <3>2. /\ updateBlkTrans(n, blks, m.data[2])
          /\ blockNumber' = IF ok THEN [blockNumber EXCEPT ![n] = last] ELSE blockNumber
      BY <2>3 DEF RecvBlocks
    <3>3. \A p \in Nodes : stored[p] \subseteq stored'[p] /\ applied[p] \subseteq applied'[p]
      BY <3>1, <3>2, UpdateType
    <3>4. CASE ~ok
      BY <3>2, <3>3, <3>4 DEF NumberIsBacked
    <3>5. CASE ok
      \* nothing failed: the last block was stored and applied with the others
      <4>1. last \in Range(blks) \ {None}
        <5>1. Len(blks) \in DOMAIN blks
          BY <3>1, EmptySeq, LenProperties
        <5> QED
          BY <3>5, <5>1 DEF Range
      <4>2. /\ stored' = [stored EXCEPT ![n] = @ \cup (Range(blks) \ {None})]
            /\ applied' = [applied EXCEPT ![n] = @ \cup (Range(blks) \ {None})]
        BY <3>1, <3>2, <3>5, UpdateWhole
      <4> HIDE DEF n, blks, last
      <4>3. last \in stored'[n] /\ last \in applied'[n]
        BY <3>1, <4>1, <4>2 DEF TypeOK
      <4>4. blockNumber' = [blockNumber EXCEPT ![n] = last]
        BY <3>2, <3>5
      <4> QED
        BY <3>1, <3>3, <4>3, <4>4 DEF NumberIsBacked, TypeOK
    <3> QED
      BY <3>4, <3>5
  <2>4. ASSUME NEW m \in net, NEW dup \in BOOLEAN, RecvBlock(m, dup)
        PROVE  NumberIsBacked'
    <3>1. \A n \in Nodes : stored[n] \subseteq stored'[n]
      BY <2>4, BlockGrows
    <3> QED
      BY <2>1, <2>4, <3>1 DEF RecvBlock
  <2>5. ASSUME NEW m \in net, NEW dup \in BOOLEAN, Handle(m, dup)
        PROVE  NumberIsBacked'
    BY <2>2, <2>3, <2>4, <2>5
       DEF Handle, RecvStatus, RecvGetBlocks, RecvTransaction, database
  <2>6. CASE UNCHANGED vars
    BY <2>2, <2>6 DEF vars, database
  <2> QED
    BY <2>2, <2>5, <2>6
       DEF Next, Start, Stop, CastTransaction, CastBlock, Cast, database
<1> QED
  BY <1>1, <1>2, TypeCorrect, PTL DEF Spec

------------------------------------------------------------------------------
\* What an answer for the blocks fro+1..to holds, for any database.
LEMMA AnswerComplete ==
    ASSUME NEW blks \in SUBSET Numbers, NEW to \in blks, NEW fro \in 0..(to - 1)
    PROVE  LET cs == Chunks(BlockList(blks, fro, to))
               got == {b \in Numbers : \E c \in cs : b \in Range(c)}
           IN /\ got = blks \cap ((fro + 1)..to)
              /\ \A c \in cs : c[Len(c)] = to
<1> DEFINE res == BlockList(blks, fro, to)
           cs == Chunks(res)
           got == {b \in Numbers : \E c \in cs : b \in Range(c)}
<1>1. to \in 1..Top /\ fro \in 0..Top /\ fro < to
  BY DEF Numbers
<1>2. res \in Seq(0..Top)
  BY <1>1, BlockListType
<1>3. res = [i \in 1..(to - fro) |-> IF fro + i \in blks THEN fro + i ELSE None]
  BY <1>1 DEF BlockList
<1>4. DOMAIN res = 1..(to - fro) /\ Len(res) = to - fro
  <2>1. DOMAIN res = 1..(to - fro)
    BY <1>3
  <2> QED
    BY <1>1, <1>2, <2>1, LenProperties
<1>5. \A i \in 1..(to - fro) : res[i] = IF fro + i \in blks THEN fro + i ELSE None
  BY <1>3
<1> HIDE DEF res
<1>6. \A c \in cs : c[Len(c)] = to
  <2>1. res[Len(res)] = to
    BY <1>1, <1>4, <1>5
  <2> QED
    BY <1>2, <2>1, ChunkTypes
<1>0. \A x : x \in got <=> x \in Numbers /\ \E c \in cs : \E i \in DOMAIN c : x = c[i]
  <2> HIDE DEF cs
  <2> QED
    BY DEF Range
<1> HIDE DEF cs, got
<1>7. got \subseteq blks \cap ((fro + 1)..to)
  <2> SUFFICES ASSUME NEW c \in cs, NEW i \in DOMAIN c, c[i] \in Numbers
               PROVE  c[i] \in blks \cap ((fro + 1)..to)
    BY <1>0
  <2>1. PICK j \in DOMAIN res : c[i] = res[j]
    BY <1>2, ChunkTypes DEF cs
  <2> QED
    BY <1>1, <1>4, <1>5, <2>1 DEF Numbers, None
<1>8. blks \cap ((fro + 1)..to) \subseteq got
  <2> SUFFICES ASSUME NEW b \in blks, b \in (fro + 1)..to PROVE b \in got
    OBVIOUS
  <2>1. b - fro \in DOMAIN res /\ res[b - fro] = b /\ b \in Numbers
    BY <1>1, <1>4, <1>5
  <2>2. PICK c \in cs : \A j \in DOMAIN res : j \in DOMAIN c /\ c[j] = res[j]
    BY <1>1, <1>2, <1>4, FirstChunk DEF cs
  <2>3. b - fro \in DOMAIN c /\ c[b - fro] = b
    BY <2>1, <2>2
  <2> QED
    BY <1>0, <2>1, <2>3
<1> QED
  BY <1>6, <1>7, <1>8 DEF res, cs, got

\* Whatever a database holds and whatever chunk size is asked for, the answers for
\* a range are complete and each of them ends with the newest block
\* (node.py:112-121, 199-208).
THEOREM AnswersComplete == Spec => []ChunksComplete
<1>1. TypeOK => ChunksComplete
  <2> SUFFICES ASSUME TypeOK, NEW n \in Nodes, NEW to \in stored[n],
                      NEW fro \in 0..(to - 1)
               PROVE  LET cs == Chunks(BlockList(stored[n], fro, to))
                          got == {b \in Numbers : \E c \in cs : b \in Range(c)}
                      IN /\ got = stored[n] \cap ((fro + 1)..to)
                         /\ \A c \in cs : c[Len(c)] = to
    BY DEF ChunksComplete
  <2>1. stored[n] \in SUBSET Numbers
    BY DEF TypeOK
  <2> QED
    BY <2>1, AnswerComplete
<1> QED
  BY <1>1, TypeCorrect, PTL

------------------------------------------------------------------------------
(* What each step sends *)

LEMMA SentMethods ==
    /\ \A method, n, data, excluded : \A k \in Broadcast(method, n, data, excluded) :
          k.method = method
    /\ \A n, to, res : \A k \in Replies(n, to, res) : k.method = "04"
  BY DEF Broadcast, Replies, Msg

\* What is new on its way, by the handler that sent it.
LEMMA NewMessages ==
    ASSUME NEW m, NEW dup \in BOOLEAN, Handle(m, dup), ~RecvStatus(m, dup),
           NEW k \in net' \ net
    PROVE  k.method \in {"01", "02", "04"} /\ (k.method = "04" => RecvGetBlocks(m, dup))
<1>1. CASE RecvGetBlocks(m, dup)
  BY <1>1, SentMethods DEF RecvGetBlocks, Left
<1>2. CASE RecvBlocks(m, dup)
  BY <1>2 DEF RecvBlocks, Left
<1>3. CASE RecvBlock(m, dup)
  BY <1>3, SentMethods DEF RecvBlock, Left
<1>4. CASE RecvTransaction(m, dup)
  BY <1>4, SentMethods DEF RecvTransaction, Left
<1> QED
  BY <1>1, <1>2, <1>3, <1>4 DEF Handle

LEMMA NewCasts ==
    ASSUME NEW n, NEW keys, CastTransaction(n, keys) \/ CastBlock(n, keys),
           NEW k \in net' \ net
    PROVE  k.method \in {"01", "02"}
<1>1. CASE CastTransaction(n, keys)
  BY <1>1, SentMethods DEF CastTransaction, Cast
<1>2. CASE CastBlock(n, keys)
  <2>1. PICK data : net' = net \cup Broadcast("01", n, data, {})
    BY <1>2 DEF CastBlock, Cast
  <2> QED
    BY <2>1, SentMethods
<1> QED
  BY <1>1, <1>2

------------------------------------------------------------------------------
(* Two nodes, a with the shorter chain or one as long as that of b.  Only a is *)
(* ever sent blocks, and every list of them ends with the newest block of b.   *)

PairMessage(a, b, m) ==
    /\ m.from # m.to
    /\ m.method = "00" => /\ m.data[1] \in {Height[a], Height[b]}
                          /\ m.from = b => m.data[1] = Height[b]
    /\ m.method = "01" => m.data[1].hex
    /\ m.method = "03" => /\ m.to = a => m.data[2] <= m.data[1]
                          /\ m.to = b => m.data[2] = Height[b]
    /\ m.method = "04" => /\ m.to = a /\ Height[b] # None
                          /\ m.data[1][Len(m.data[1])] = Height[b]

PairInv(a, b) ==
    /\ blockNumber[a] \in {Height[a], Height[b]} /\ blockNumber[b] = Height[b]
    /\ Height[b] # None => Height[b] \in stored[b]
    /\ links \subseteq {{a, b}}
    /\ \A m \in net : PairMessage(a, b, m)

Pair(a, b) == Nodes = {a, b} /\ a # b /\ Height[a] <= Height[b]

\* An answer that is not empty ends with the last block asked for, if that is there.
LEMMA AnswerEnds ==
    ASSUME NEW blks, NEW fro \in 0..Top, NEW to \in 0..Top,
           NEW c \in Chunks(BlockList(blks, fro, to))
    PROVE  /\ fro < to /\ to # None
           /\ to \in blks => c[Len(c)] = to
<1> DEFINE res == BlockList(blks, fro, to)
<1>1. res \in Seq(0..Top)
  BY BlockListType
<1>2. fro < to
  <2> SUFFICES ASSUME ~(fro < to) PROVE FALSE
    OBVIOUS
  <2>1. Len(res) = 0
    <3>1. DOMAIN res = 1..0
      BY DEF BlockList
    <3> QED
      BY <1>1, <3>1, LenProperties
  <2>2. PICK k \in 0..Len(res) : k * MaxBlock < Len(res)
    BY DEF Chunks
  <2> QED
    BY <2>1, <2>2, MaxBlockAssumption
<1>3. res = [i \in 1..(to - fro) |-> IF fro + i \in blks THEN fro + i ELSE None]
  BY <1>2 DEF BlockList
<1>4. Len(res) = to - fro
  BY <1>1, <1>2, <1>3, LenProperties
<1>5. to \in blks => res[Len(res)] = to
  BY <1>2, <1>3, <1>4
<1>6. c[Len(c)] = res[Len(res)]
  BY <1>1, ChunkTypes
<1> QED
  BY <1>2, <1>5, <1>6 DEF None

LEMMA NotLower == ASSUME NEW n \in 0..Top PROVE ~Lower(n, n)
  BY DEF Lower, StringLess, Digits

\* With two nodes, a node's only peer is the other.
LEMMA OnePeer ==
    ASSUME NEW a, NEW b, a # b, NEW n \in {a, b}, NEW L, L \subseteq {{a, b}},
           NEW p, {n, p} \in L
    PROVE  p # n /\ p \in {a, b}
<1>1. {n, p} = {a, b}
  OBVIOUS
<1> QED
  BY <1>1

\* The invariant of two nodes.
LEMMA PairStep ==
    ASSUME NEW a, NEW b, Pair(a, b)
    PROVE  Spec => []PairInv(a, b)
<1> USE DEF Pair
<1>1. Init => PairInv(a, b)
  <2> SUFFICES ASSUME Init PROVE PairInv(a, b)
    OBVIOUS
  <2>1. Height[b] # None => Height[b] \in 1..Height[b]
    BY DEF None
  <2> QED
    BY <2>1 DEF Init, PairInv
<1>2. TypeOK /\ PairInv(a, b) /\ [Next]_vars => PairInv(a, b)'
  <2> SUFFICES ASSUME TypeOK, PairInv(a, b), [Next]_vars PROVE PairInv(a, b)'
    OBVIOUS
  <2>0. Height[a] \in 0..Top /\ Height[b] \in 0..Top /\ a \in Nodes /\ b \in Nodes
    OBVIOUS
  \* What the steps that leave the numbers and the links alone have to show.
  <2>1. ASSUME UNCHANGED <<blockNumber, links>>,
               stored[b] \subseteq stored'[b],
               \A m \in net' : PairMessage(a, b, m)
        PROVE  PairInv(a, b)'
    BY <2>1 DEF PairInv
  <2>2. ASSUME NEW n \in Nodes, NEW q \in Peers(n)
        PROVE  q # n /\ q \in Nodes
    BY <2>2, OnePeer DEF Peers, PairInv
  <2>3. ASSUME NEW m \in net PROVE PairMessage(a, b, m) /\ GoodMessage(m)
    BY DEF PairInv, TypeOK, GoodMessage
  <2>4. ASSUME NEW n \in Nodes, NEW peers \in SUBSET Nodes, Start(n, peers)
        PROVE  PairInv(a, b)'
    <3>1. \A p \in peers : p # n /\ PairMessage(a, b, Msg("00", n, p, <<blockNumber[n]>>))
      BY <2>4 DEF Start, PairInv, PairMessage, Msg
    <3>2. \A m \in net' : PairMessage(a, b, m)
      BY <2>3, <2>4, <3>1 DEF Start
    <3>3. \A p \in peers : {n, p} = {a, b}
      BY <3>1
    <3>4. links' \subseteq {{a, b}}
      BY <2>4, <3>3 DEF Start, PairInv
    <3> QED
      BY <2>4, <3>2, <3>4 DEF Start, PairInv, database
  <2>5. ASSUME NEW n \in Stoppers, Stop(n)
        PROVE  PairInv(a, b)'
    BY <2>1, <2>3, <2>5 DEF Stop, database
  <2>6. ASSUME NEW m \in net, NEW dup \in BOOLEAN, RecvStatus(m, dup)
        PROVE  PairInv(a, b)'
    <3> DEFINE n == m.to
               num == m.data[1]
               own == blockNumber[n]
    <3>1. m.method = "00" /\ PairMessage(a, b, m) /\ n \in Nodes /\ m.from \in Nodes
      BY <2>3, <2>6, MessageParts DEF RecvStatus
    <3>2. /\ num \in {Height[a], Height[b]} /\ own \in {Height[a], Height[b]}
          /\ m.from = b => num = Height[b]
          /\ n = b => own = Height[b]
          /\ m.from # n
      BY <3>1 DEF PairMessage, PairInv
    <3>3. ASSUME NEW q \in Peers(n)
          PROVE  PairMessage(a, b, Msg("03", n, q, <<own, num>>))
      <4>1. q # n /\ q \in Nodes
        BY <2>2, <3>1
      <4>2. q = a => num <= own
        BY <2>0, <3>1, <3>2, <4>1
      <4>3. q = b => num = Height[b]
        BY <2>0, <3>1, <3>2, <4>1
      <4> QED
        BY <4>1, <4>2, <4>3 DEF PairMessage, Msg
    <3>4. ASSUME NEW c \in Chunks(BlockList(stored[n], num, own))
          PROVE  PairMessage(a, b, Msg("04", n, m.from, <<c, Range(c) \cap converted[n]>>))
      <4>1. num < own /\ own # None /\ (own \in stored[n] => c[Len(c)] = own)
        BY <2>0, <3>2, AnswerEnds
      <4>2. n = b /\ m.from = a
        BY <2>0, <3>1, <3>2, <4>1
      <4>3. own = Height[b] /\ own \in stored[n]
        BY <3>2, <4>1, <4>2 DEF PairInv
      <4> QED
        BY <3>2, <4>1, <4>2, <4>3 DEF PairMessage, Msg
    <3>5. \A k \in net' : PairMessage(a, b, k)
      BY <2>3, <2>6, <3>3, <3>4 DEF RecvStatus, Left, Broadcast, Replies
    <3> QED
      BY <2>1, <2>6, <3>5 DEF RecvStatus, database
  <2>7. ASSUME NEW m \in net, NEW dup \in BOOLEAN, RecvGetBlocks(m, dup)
        PROVE  PairInv(a, b)'
    <3> DEFINE n == m.to
               fro == m.data[1]
               to == m.data[2]
    <3>1. /\ m.method = "03" /\ PairMessage(a, b, m) /\ n \in Nodes /\ m.from \in Nodes
          /\ fro \in 0..Top /\ to \in 0..Top
      BY <2>3, <2>7, MessageParts DEF RecvGetBlocks
    <3>2. ASSUME NEW c \in Chunks(BlockList(stored[n], fro, to))
          PROVE  PairMessage(a, b, Msg("04", n, m.from, <<c, Range(c) \cap converted[n]>>))
      <4>1. fro < to /\ to # None /\ (to \in stored[n] => c[Len(c)] = to)
        BY <3>1, AnswerEnds
      <4>2. n = b /\ m.from = a /\ to = Height[b]
        BY <3>1, <4>1 DEF PairMessage
      <4>3. to \in stored[n]
        BY <4>1, <4>2 DEF PairInv
      <4> QED
        BY <4>1, <4>2, <4>3 DEF PairMessage, Msg
    <3>3. \A k \in net' : PairMessage(a, b, k)
      BY <2>3, <2>7, <3>2 DEF RecvGetBlocks, Left, Replies
    <3> QED
      BY <2>1, <2>7, <3>3 DEF RecvGetBlocks, database
  <2>8. ASSUME NEW m \in net, NEW dup \in BOOLEAN, RecvBlocks(m, dup)
        PROVE  PairInv(a, b)'
    <3> DEFINE blks == m.data[1]
    <3>1. m.method = "04" /\ PairMessage(a, b, m) /\ blks \in Seq(0..Top)
      BY <2>3, <2>8, MessageParts DEF RecvBlocks
    <3>2. m.to = a /\ blks[Len(blks)] = Height[b]
      BY <3>1 DEF PairMessage
    <3>3. blockNumber' \in {blockNumber, [blockNumber EXCEPT ![a] = Height[b]]}
      BY <2>8, <3>2 DEF RecvBlocks
    <3>4. stored[b] \subseteq stored'[b]
      BY <2>0, <2>8, <3>1, <3>2, UpdateType DEF RecvBlocks
    <3> HIDE DEF blks
    <3>5. blockNumber'[a] \in {Height[a], Height[b]} /\ blockNumber'[b] = Height[b]
      BY <2>0, <3>3 DEF PairInv, TypeOK
    <3>6. \A k \in net' : PairMessage(a, b, k)
      BY <2>3, <2>8 DEF RecvBlocks, Left
    <3> QED
      BY <2>8, <3>4, <3>5, <3>6 DEF RecvBlocks, PairInv
  <2>9. ASSUME NEW m \in net, NEW dup \in BOOLEAN, RecvBlock(m, dup)
        PROVE  PairInv(a, b)'
    <3>1. m.to \in Nodes /\ m.from \in Nodes /\ m.from # m.to
      BY <2>3, MessageParts DEF PairMessage
    <3>2. Peers(m.to) \ {m.from} = {}
      BY <2>2, <3>1
    <3>3. \A k \in net' : k \in net
      BY <2>9, <3>2 DEF RecvBlock, Left, Broadcast
    <3>4. stored[b] \subseteq stored'[b]
      BY <2>0, <2>9, BlockGrows
    <3> QED
      BY <2>1, <2>3, <2>9, <3>3, <3>4 DEF RecvBlock
  <2>10. ASSUME NEW m \in net, NEW dup \in BOOLEAN, RecvTransaction(m, dup)
        PROVE  PairInv(a, b)'
    <3>1. m.to \in Nodes /\ m.from \in Nodes /\ m.from # m.to
      BY <2>3, MessageParts DEF PairMessage
    <3>2. Peers(m.to) \ {m.from} = {}
      BY <2>2, <3>1
    <3>3. \A k \in net' : k \in net
      BY <2>10, <3>2 DEF RecvTransaction, Left, Broadcast
    <3> QED
      BY <2>1, <2>3, <2>10, <3>3 DEF RecvTransaction, database
  <2>11. ASSUME NEW n \in Nodes, NEW method, NEW data, Cast(n, method, data),
                \A q \in Nodes : q # n => PairMessage(a, b, Msg(method, n, q, data))
         PROVE  PairInv(a, b)'
    <3>1. \A k \in Broadcast(method, n, data, {}) : PairMessage(a, b, k)
      BY <2>2, <2>11 DEF Broadcast
    <3>2. \A m \in net' : PairMessage(a, b, m)
      BY <2>3, <2>11, <3>1 DEF Cast
    <3> QED
      BY <2>1, <2>11, <3>2 DEF Cast, database
  <2>13. ASSUME NEW n \in Casters, NEW keys, CastTransaction(n, keys)
         PROVE  PairInv(a, b)'
    <3>1. \A q : q # n => PairMessage(a, b, Msg("02", n, q, <<keys>>))
      BY DEF PairMessage, Msg
    <3> QED
      BY <2>11, <2>13, <3>1, ActorsAssumption DEF CastTransaction
  <2>14. ASSUME NEW n \in Casters, NEW keys, CastBlock(n, keys)
         PROVE  PairInv(a, b)'
    <3> DEFINE data == <<BlockData(blockNumber[n] + 1, TRUE, keys)>>
    <3>1. \A q : q # n => PairMessage(a, b, Msg("01", n, q, data))
      BY DEF PairMessage, Msg, BlockData
    <3>2. Cast(n, "01", data)
      BY <2>14 DEF CastBlock
    <3> HIDE DEF data
    <3> QED
      BY <2>11, <3>1, <3>2, ActorsAssumption
  <2>12. CASE UNCHANGED vars
    BY <2>1, <2>3, <2>12 DEF vars, database
  <2> QED
    BY <2>4, <2>5, <2>6, <2>7, <2>8, <2>9, <2>10, <2>12, <2>13, <2>14 DEF Next, Handle
<1> QED
  BY <1>1, <1>2, TypeCorrect, PTL DEF Spec

\* No hash comes back as an integer from a database that does not return them so.
HashInv ==
    ~AsStored => /\ \A n \in Nodes : converted[n] = {}
                 /\ \A m \in net : m.method = "04" => m.data[2] = {}

LEMMA HashInvariant == Spec => []HashInv
<1>1. Init => HashInv
  BY DatabaseAssumption DEF Init, HashInv
<1>2. TypeOK /\ HashInv /\ [Next]_vars => HashInv'
  <2> SUFFICES ASSUME TypeOK, HashInv, [Next]_vars, ~AsStored
               PROVE  /\ \A n \in Nodes : converted'[n] = {}
                      /\ \A m \in net' : m.method = "04" => m.data[2] = {}
    BY DEF HashInv
  <2>1. converted' = converted
    BY DEF Next, vars, database, Start, Stop, Handle, RecvStatus, RecvGetBlocks, RecvBlocks,
       RecvBlock, RecvTransaction, updateBlkTrans, Store, CastTransaction, CastBlock, Cast
  <2>2. ASSUME NEW n \in Nodes, NEW to, NEW res
        PROVE  \A k \in Replies(n, to, res) : k.data[2] = {}
    BY DEF Replies, Msg, HashInv
  <2>3. ASSUME NEW m \in net, NEW dup \in BOOLEAN, Handle(m, dup)
        PROVE  \A k \in net' \ net : k.method = "04" => k.data[2] = {}
    <3>1. m.to \in Nodes
      BY MessageParts DEF TypeOK, GoodMessage
    <3>2. CASE RecvStatus(m, dup)
      BY <2>2, <3>1, <3>2, SentMethods DEF RecvStatus, Left
    <3>3. CASE RecvGetBlocks(m, dup)
      BY <2>2, <3>1, <3>3 DEF RecvGetBlocks, Left
    <3>4. CASE ~RecvStatus(m, dup) /\ ~RecvGetBlocks(m, dup)
      BY <2>3, <3>4, NewMessages
    <3> QED
      BY <3>2, <3>3, <3>4
  <2>4. ASSUME NEW n \in Nodes, NEW peers \in SUBSET Nodes, Start(n, peers)
        PROVE  \A k \in net' \ net : k.method = "04" => k.data[2] = {}
    BY <2>4 DEF Start, Msg
  <2>5. \A k \in net' \ net : k.method = "04" => k.data[2] = {}
    BY <2>3, <2>4, NewCasts DEF Next, vars, Stop
  <2> QED
    BY <2>1, <2>5 DEF HashInv
<1> QED
  BY <1>1, <1>2, TypeCorrect, PTL DEF Spec

\* Between two nodes with chains of any lengths, the number of a node never goes
\* back, however the chunks of answers, old and new, are reordered and repeated
\* (node.py:222).
THEOREM NeverBack ==
    ASSUME NEW a, NEW b, Pair(a, b)
    PROVE  Spec => NumberNeverBack
<1> DEFINE Rises == \A n \in Nodes : blockNumber'[n] >= blockNumber[n]
<1>1. TypeOK /\ PairInv(a, b) /\ PairInv(a, b)' /\ [Next]_vars => [Rises]_vars
  <2> SUFFICES ASSUME TypeOK, PairInv(a, b), PairInv(a, b)', Next PROVE Rises
    OBVIOUS
  <2>1. CASE \E m \in net, dup \in BOOLEAN : RecvBlocks(m, dup)
    <3>1. PICK m \in net, dup \in BOOLEAN : RecvBlocks(m, dup)
      BY <2>1
    <3>2. m.to = a /\ m.data[1][Len(m.data[1])] = Height[b] /\ Height[b] # None
      BY <3>1 DEF PairInv, PairMessage, RecvBlocks
    <3>3. blockNumber' \in {blockNumber, [blockNumber EXCEPT ![a] = Height[b]]}
      BY <3>1, <3>2 DEF RecvBlocks
    <3> QED
      BY <3>3 DEF Pair, PairInv, TypeOK
  <2>2. CASE ~(\E m \in net, dup \in BOOLEAN : RecvBlocks(m, dup))
    <3>1. blockNumber' = blockNumber
      BY <2>2 DEF Next, Start, Stop, Handle, RecvStatus, RecvGetBlocks, RecvBlock,
                  RecvTransaction, CastTransaction, CastBlock, Cast
    <3> QED
      BY <3>1 DEF TypeOK
  <2> QED
    BY <2>1, <2>2
<1> QED
  BY <1>1, PairStep, TypeCorrect, PTL DEF Spec, NumberNeverBack

\* Between two nodes, whatever keys their packets have and whatever their databases
\* do to hashes, a database manager ends only by its stop, by a broadcast that lacks
\* a key, or by an answer with a block whose hash was stored as an integer
\* (node.py:174-175, 186-187, 222, 258).
THEOREM ManagersLive ==
    ASSUME NEW a, NEW b, Pair(a, b)
    PROVE  Spec => EndsForCause
<1> DEFINE Cause(n) == \/ n \in Stoppers /\ Stop(n)
                       \/ \E m \in net, dup \in BOOLEAN : m.to = n /\ Fatal(m) /\ Handle(m, dup)
           Ends == \A n \in Nodes : <<n, "db">> \in running \ running' => Cause(n)
<1>1. TypeOK /\ PairInv(a, b) /\ HashInv /\ [Next]_vars => [Ends]_vars
  <2> SUFFICES ASSUME TypeOK, PairInv(a, b), HashInv, Next,
                      NEW n \in Nodes, <<n, "db">> \in running \ running'
               PROVE  Cause(n)
    OBVIOUS
  <2>1. ASSUME NEW m \in net
        PROVE  PairMessage(a, b, m) /\ GoodMessage(m)
    BY DEF PairInv, TypeOK, GoodMessage
  <2>2. ASSUME NEW m \in net, NEW dup \in BOOLEAN, Handle(m, dup)
        PROVE  m.to = n /\ Fatal(m)
    <3>1. CASE RecvBlocks(m, dup)
      <4>1. DbRuns(m.to, m.data[2] = {})
        BY <2>1, <3>1 DEF RecvBlocks, PairMessage
      <4>2. m.to = n /\ m.data[2] # {}
        BY <4>1 DEF DbRuns
      <4> QED
        BY <3>1, <4>2 DEF HashInv, RecvBlocks, Fatal
    <3>2. CASE RecvBlock(m, dup)
      <4>1. DbRuns(m.to, Usable(m.data[1])) /\ m.data[1].hex
        BY <2>1, <3>2 DEF RecvBlock, PairMessage
      <4>2. m.to = n /\ ~Usable(m.data[1])
        BY <4>1 DEF DbRuns
      <4> QED
        BY <3>2, <4>1, <4>2 DEF RecvBlock, Usable, Fatal
    <3>3. CASE RecvTransaction(m, dup)
      <4>1. DbRuns(m.to, TxKeys \subseteq m.data[1])
        BY <3>3 DEF RecvTransaction
      <4>2. m.to = n /\ ~(TxKeys \subseteq m.data[1])
        BY <4>1 DEF DbRuns
      <4> QED
        BY <3>3, <4>2 DEF RecvTransaction, Fatal
    <3> QED
      BY <2>2, <3>1, <3>2, <3>3 DEF Handle, RecvStatus, RecvGetBlocks
  <2>3. ASSUME NEW k \in Stoppers, Stop(k) PROVE k = n
    BY <2>3 DEF Stop
  <2> QED
    BY <2>2, <2>3 DEF Next, Start, CastTransaction, CastBlock, Cast
<1> QED
  BY <1>1, HashInvariant, PairStep, TypeCorrect, PTL DEF Spec, EndsForCause

\* Between two nodes a broadcast is never answered with another, repeated or not: a
\* node's peers without the sender are none (node.py:177, 188).
THEOREM BroadcastsUnanswered ==
    ASSUME NEW a, NEW b, Pair(a, b)
    PROVE  Spec => OnlyCastsSend
<1> DEFINE Bounded == casts' = casts
                       => {m \in net' : m.method \in {"01", "02"}} \subseteq net
<1>1. TypeOK /\ PairInv(a, b) /\ [Next]_vars => [Bounded]_vars
  <2> SUFFICES ASSUME TypeOK, PairInv(a, b), Next, casts' = casts,
                      NEW k \in net', k.method \in {"01", "02"}
               PROVE  k \in net
    OBVIOUS
  <2>1. ASSUME NEW m \in net PROVE Peers(m.to) \ {m.from} = {}
    <3>1. m.to \in Nodes /\ m.from \in Nodes /\ m.from # m.to
      BY MessageParts DEF PairInv, PairMessage, TypeOK, GoodMessage
    <3> QED
      BY <3>1, OnePeer DEF Pair, Peers, PairInv
  <2>2. ASSUME NEW n \in Nodes, NEW peers \in SUBSET Nodes, Start(n, peers)
        PROVE  k \in net
    BY <2>2 DEF Start, Msg
  <2>3. ASSUME NEW n \in Stoppers, Stop(n)
        PROVE  k \in net
    BY <2>3 DEF Stop
  <2>4. ASSUME NEW m \in net, NEW dup \in BOOLEAN, Handle(m, dup)
        PROVE  k \in net
    <3>1. CASE RecvStatus(m, dup)
      BY <3>1 DEF RecvStatus, Left, Broadcast, Replies, Msg
    <3>2. CASE RecvGetBlocks(m, dup)
      BY <3>2 DEF RecvGetBlocks, Left, Replies, Msg
    <3>3. CASE RecvBlocks(m, dup)
      BY <3>3 DEF RecvBlocks, Left
    <3>4. CASE RecvBlock(m, dup)
      BY <2>1, <3>4 DEF RecvBlock, Left, Broadcast
    <3>5. CASE RecvTransaction(m, dup)
      BY <2>1, <3>5 DEF RecvTransaction, Left, Broadcast
    <3> QED
      BY <2>4, <3>1, <3>2, <3>3, <3>4, <3>5 DEF Handle
  <2>5. ASSUME NEW n \in Casters, NEW keys, CastTransaction(n, keys) \/ CastBlock(n, keys)
        PROVE  k \in net
    <3>1. casts' = casts + 1
      BY <2>5 DEF CastTransaction, CastBlock, Cast
    <3> QED
      BY <3>1 DEF TypeOK
  <2> QED
    BY <2>2, <2>3, <2>4, <2>5 DEF Next
<1> QED
  BY <1>1, PairStep, TypeCorrect, PTL DEF Spec, OnlyCastsSend

------------------------------------------------------------------------------
(* Two nodes catch up: the safety half of CatchesUp *)

\* What the comparison of strings comes to for numbers of one and of two digits.
FirstDigit(k) == IF k < 10 THEN k ELSE k \div 10
LastDigit(k) == k % 10

LEMMA LowerByDigits ==
    ASSUME NEW m \in 0..99, NEW n \in 0..99
    PROVE  Lower(m, n) <=>
             \/ FirstDigit(m) < FirstDigit(n)
             \/ FirstDigit(m) = FirstDigit(n) /\ m < 10 /\ n >= 10
             \/ FirstDigit(m) = FirstDigit(n) /\ m >= 10 /\ n >= 10 /\ LastDigit(m) < LastDigit(n)
<1>1. CASE m < 10 /\ n < 10
  <2>1. Digits(m) = <<m>> /\ Digits(n) = <<n>>
    BY <1>1 DEF Digits
  <2>2. DOMAIN <<m>> = {1} /\ DOMAIN <<n>> = {1} /\ Len(<<m>>) = 1 /\ Len(<<n>>) = 1
    OBVIOUS
  <2>3. StringLess(<<m>>, <<n>>) <=> m < n
    <3>1. \A i \in 1..(1 - 1) : <<m>>[i] = <<n>>[i]
      OBVIOUS
    <3>2. <<m>>[1] = m /\ <<n>>[1] = n
      OBVIOUS
    <3>3. ~(Len(<<m>>) < Len(<<n>>))
      BY <2>2
    <3>4. StringLess(<<m>>, <<n>>) <=> \E k \in {1} : <<m>>[k] < <<n>>[k]
      BY <2>2, <3>1, <3>3 DEF StringLess
    <3> QED
      BY <3>2, <3>4
  <2>4. Lower(m, n) <=> m < n
    BY <2>1, <2>3 DEF Lower
  <2> QED
    BY <1>1, <2>4 DEF FirstDigit
<1>2. CASE m < 10 /\ n >= 10
  <2> DEFINE d == n \div 10
             r == n % 10
  <2>1. Digits(m) = <<m>> /\ Digits(n) = <<d, r>> /\ d \in Nat
    BY <1>2 DEF Digits
  <2> HIDE DEF d, r
  <2>2. Lower(m, n) <=> m < d \/ m = d
    BY <2>1 DEF Lower, StringLess
  <2> QED
    BY <1>2, <2>2 DEF d, FirstDigit
<1>3. CASE m >= 10 /\ n < 10
  <2> DEFINE d == m \div 10
             r == m % 10
  <2>1. Digits(n) = <<n>> /\ Digits(m) = <<d, r>> /\ d \in Nat
    BY <1>3 DEF Digits
  <2> HIDE DEF d, r
  <2>2. Lower(m, n) <=> d < n
    BY <2>1 DEF Lower, StringLess
  <2> QED
    BY <1>3, <2>2 DEF d, FirstDigit
<1>4. CASE m >= 10 /\ n >= 10
  <2> DEFINE d == m \div 10
             r == m % 10
             e == n \div 10
             q == n % 10
  <2>1. Digits(m) = <<d, r>> /\ Digits(n) = <<e, q>>
    BY <1>4 DEF Digits
  <2>2. d \in Nat /\ e \in Nat /\ r \in Nat /\ q \in Nat
    OBVIOUS
  <2> HIDE DEF d, r, e, q
  <2>3. Lower(m, n) <=> d < e \/ (d = e /\ r < q)
    BY <2>1, <2>2 DEF Lower, StringLess
  <2> QED
    BY <1>4, <2>3 DEF d, r, e, q, FirstDigit, LastDigit
<1> QED
  BY <1>1, <1>2, <1>3, <1>4

\* Of two numbers at most one is the lower, and it is as numbers when they have
\* the same number of digits.
LEMMA LowerOrders ==
    ASSUME NEW m \in 0..99, NEW n \in 0..99
    PROVE  /\ ~(Lower(m, n) /\ Lower(n, m))
           /\ (m < 10 <=> n < 10) => (Lower(m, n) <=> m < n)
<1>1. ASSUME NEW k \in 0..99
      PROVE  /\ k \div 10 \in 0..9 /\ k % 10 \in 0..9
             /\ k = 10 * (k \div 10) + (k % 10)
  OBVIOUS
<1>2. FirstDigit(m) \in Int /\ FirstDigit(n) \in Int /\ LastDigit(m) \in Int /\ LastDigit(n) \in Int
  BY <1>1 DEF FirstDigit, LastDigit
<1>3. ~(Lower(m, n) /\ Lower(n, m))
  <2>1. Lower(m, n) <=>
             \/ FirstDigit(m) < FirstDigit(n)
             \/ FirstDigit(m) = FirstDigit(n) /\ m < 10 /\ n >= 10
             \/ FirstDigit(m) = FirstDigit(n) /\ m >= 10 /\ n >= 10 /\ LastDigit(m) < LastDigit(n)
    BY LowerByDigits
  <2>2. Lower(n, m) <=>
             \/ FirstDigit(n) < FirstDigit(m)
             \/ FirstDigit(n) = FirstDigit(m) /\ n < 10 /\ m >= 10
             \/ FirstDigit(n) = FirstDigit(m) /\ n >= 10 /\ m >= 10 /\ LastDigit(n) < LastDigit(m)
    BY LowerByDigits
  <2> QED
    BY <1>2, <2>1, <2>2
<1>4. ASSUME m < 10, n < 10 PROVE Lower(m, n) <=> m < n
  <2>1. FirstDigit(m) = m /\ FirstDigit(n) = n
    BY <1>4 DEF FirstDigit
  <2>2. Lower(m, n) <=> FirstDigit(m) < FirstDigit(n)
    <3>1. ~(m >= 10) /\ ~(n >= 10)
      BY <1>4
    <3> QED
      BY <3>1, LowerByDigits
  <2> QED
    BY <2>1, <2>2
<1>5. ASSUME m >= 10, n >= 10 PROVE Lower(m, n) <=> m < n
  <2> DEFINE d == m \div 10
             e == n \div 10
             r == m % 10
             q == n % 10
  <2>1. FirstDigit(m) = d /\ FirstDigit(n) = e /\ LastDigit(m) = r /\ LastDigit(n) = q
    BY <1>5 DEF FirstDigit, LastDigit
  <2>2. m = 10 * d + r /\ n = 10 * e + q
    BY <1>1
  <2>3. d \in 0..9 /\ e \in 0..9 /\ r \in 0..9 /\ q \in 0..9
    BY <1>1
  <2>4. Lower(m, n) <=> d < e \/ (d = e /\ r < q)
    <3>1. Lower(m, n) <=> \/ FirstDigit(m) < FirstDigit(n)
                          \/ FirstDigit(m) = FirstDigit(n) /\ LastDigit(m) < LastDigit(n)
      <4>1. ~(m < 10) /\ ~(n < 10)
        BY <1>5
      <4> QED
        BY <1>5, <4>1, LowerByDigits
    <3> QED
      BY <2>1, <3>1
  <2> HIDE DEF d, e, r, q
  <2> QED
    BY <2>2, <2>3, <2>4
<1> QED
  BY <1>3, <1>4, <1>5

\* Node a has all the blocks of b, or a message that brings those it lacks is on
\* its way.
Filled(a, b) ==
    \/ 1..Height[b] \subseteq stored[a]
    \/ \E m \in net : /\ m.method = "04" /\ m.to = a
                      /\ 1..Height[b] \subseteq stored[a] \cup Range(m.data[1])

\* A request of a for the blocks it lacks, or what will lead to one or to an answer.
Awaited(a, b) ==
    \/ Msg("03", a, b, <<Height[a], Height[b]>>) \in net
    \/ Msg("00", b, a, <<Height[b]>>) \in net
    \/ Msg("00", a, b, <<Height[a]>>) \in net

FirstRange(a, b, m) ==
    /\ m.method = "00" /\ m.from = a => m.data[1] = Height[a]
    /\ m.method = "03" => m = Msg("03", a, b, <<Height[a], Height[b]>>)

\* The inductive invariant: as long as no manager has ended, once a has taken a new
\* block number, or an answer is on its way, the whole of the answer is; and until
\* then it is asked for.
CatchInv(a, b) ==
    /\ 1..Height[a] \subseteq stored[a] /\ 1..Height[b] \subseteq stored[b]
    /\ \A m \in net : FirstRange(a, b, m)
    /\ a \notin started => blockNumber[a] = Height[a]
    /\ {a, b} \subseteq started => {a, b} \in links
    /\ ~Disturbed =>
         /\ blockNumber[a] # Height[a] => Filled(a, b)
         /\ (\E m \in net : m.method = "04") => Filled(a, b)
         /\ {a, b} \subseteq started => Filled(a, b) \/ Awaited(a, b)

\* Databases only grow.
LEMMA StoredGrows ==
    ASSUME TypeOK, [Next]_vars, NEW n \in Nodes
    PROVE  stored[n] \subseteq stored'[n]
<1>1. ASSUME NEW m \in net, NEW dup \in BOOLEAN, Handle(m, dup)
      PROVE  stored[n] \subseteq stored'[n]
  <2>1. m.to \in Nodes
    BY MessageParts DEF TypeOK, GoodMessage
  <2>2. CASE RecvBlocks(m, dup)
    <3>1. m.data[1] \in Seq(0..Top)
      BY <2>2, MessageParts DEF RecvBlocks, TypeOK, GoodMessage
    <3> QED
      BY <2>1, <2>2, <3>1, UpdateType DEF RecvBlocks
  <2>3. CASE RecvBlock(m, dup)
    BY <2>3, BlockGrows
  <2> QED
    BY <1>1, <2>2, <2>3 DEF Handle, RecvStatus, RecvGetBlocks, RecvTransaction, database
<1> QED
  BY <1>1 DEF Next, vars, database, Start, Stop, CastTransaction, CastBlock, Cast

\* What is on its way stays so, but for the message taken.
LEMMA NetKeeps ==
    ASSUME [Next]_vars
    PROVE  \/ net \subseteq net'
           \/ \E m \in net, dup \in BOOLEAN : Handle(m, dup) /\ net \ {m} \subseteq net'
<1>1. ASSUME NEW m \in net, NEW dup \in BOOLEAN, Handle(m, dup)
      PROVE  net \ {m} \subseteq net'
  <2>1. Left(m, dup) \subseteq net'
    BY <1>1 DEF Handle, RecvStatus, RecvGetBlocks, RecvBlocks, RecvBlock, RecvTransaction
  <2> QED
    BY <2>1 DEF Left
<1> QED
  BY <1>1 DEF Next, vars, Start, Stop, CastTransaction, CastBlock, Cast

\* Node a stays filled: the message that fills it leaves only by filling it, or with
\* the database manager of a.
LEMMA StaysFilled ==
    ASSUME TypeOK, [Next]_vars, NEW a \in Nodes, NEW b \in Nodes, Filled(a, b), ~Disturbed'
    PROVE  Filled(a, b)'
<1>1. stored[a] \subseteq stored'[a]
  BY StoredGrows
<1>2. CASE 1..Height[b] \subseteq stored[a]
  BY <1>1, <1>2 DEF Filled
<1>3. ASSUME NEW m \in net, m.method = "04", m.to = a,
             1..Height[b] \subseteq stored[a] \cup Range(m.data[1])
      PROVE  Filled(a, b)'
  <2>1. CASE m \in net'
    BY <1>1, <1>3, <2>1 DEF Filled
  <2>2. CASE m \notin net'
    <3>1. PICK dup \in BOOLEAN : Handle(m, dup)
      BY <2>2, NetKeeps
    <3>2. RecvBlocks(m, dup)
      BY <1>3, <3>1 DEF Handle, RecvStatus, RecvGetBlocks, RecvBlock, RecvTransaction
    <3> DEFINE blks == m.data[1]
               got == Range(blks) \ {None}
    <3>3. m.data[2] = {}
      <4> SUFFICES ASSUME m.data[2] # {} PROVE FALSE
        OBVIOUS
      <4>1. DbRuns(a, FALSE) /\ <<a, "db">> \in running /\ started' = started
        BY <1>3, <3>2 DEF RecvBlocks, Take
      <4>2. a \in started' /\ <<a, "db">> \notin running'
        BY <4>1 DEF TypeOK, DbRuns
      <4> QED
        BY <4>2 DEF Disturbed, Managers
    <3>4. stored'[a] = stored[a] \cup got
      <4>1. blks \in Seq(0..Top)
        BY <1>3, MessageParts DEF TypeOK, GoodMessage
      <4>2. updateBlkTrans(a, blks, {})
        BY <1>3, <3>2, <3>3 DEF RecvBlocks
      <4>3. stored' = [stored EXCEPT ![a] = @ \cup got]
        BY <4>1, <4>2, UpdateWhole
      <4> HIDE DEF got
      <4> QED
        BY <4>3 DEF TypeOK
    <3>5. 1..Height[b] \subseteq stored[a] \cup got
      BY <1>3 DEF None
    <3> QED
      BY <3>4, <3>5 DEF Filled
  <2> QED
    BY <2>1, <2>2
<1> QED
  BY <1>2, <1>3 DEF Filled

\* A manager that ended stays so.
LEMMA DisturbedForGood ==
    ASSUME TypeOK, [Next]_vars, Disturbed
    PROVE  Disturbed'
<1>1. PICK n \in started, mgr \in Managers : <<n, mgr>> \notin running
  BY DEF Disturbed
<1>2. n \in started' /\ <<n, mgr>> \notin running'
  BY <1>1 DEF Next, vars, Start, Stop, Handle, RecvStatus, RecvGetBlocks, RecvBlocks,
     RecvBlock, RecvTransaction, DbRuns, CastTransaction, CastBlock, Cast
<1> QED
  BY <1>2 DEF Disturbed

\* An answer for the range that a lacks fills it: its first chunk is the range.
LEMMA AnswerFills ==
    ASSUME NEW a, NEW b, Pair(a, b), TypeOK, CatchInv(a, b),
           stored[a] \subseteq stored'[a],
           Replies(b, a, BlockList(stored[b], Height[a], Height[b])) \subseteq net'
    PROVE  Filled(a, b)'
<1> DEFINE res == BlockList(stored[b], Height[a], Height[b])
<1>0. Height[a] \in 0..Top /\ Height[b] \in 0..Top /\ Height[a] <= Height[b]
  BY DEF Pair
<1>1. CASE Height[a] = Height[b]
  BY <1>1 DEF CatchInv, Filled
<1>2. CASE Height[a] # Height[b]
  <2>1. res \in Seq(0..Top)
    BY <1>0, BlockListType
  <2>2. res = [i \in 1..(Height[b] - Height[a]) |->
                 IF Height[a] + i \in stored[b] THEN Height[a] + i ELSE None]
    BY <1>0, <1>2 DEF BlockList
  <2>3. DOMAIN res = 1..(Height[b] - Height[a]) /\ Len(res) > 0
    <3>1. DOMAIN res = 1..(Height[b] - Height[a])
      BY <2>2
    <3>2. Len(res) = Height[b] - Height[a]
      BY <1>0, <2>1, <3>1, <1>2, LenProperties
    <3> QED
      BY <1>0, <1>2, <3>1, <3>2
  <2>4. \A k \in (Height[a] + 1)..Height[b] : k - Height[a] \in DOMAIN res /\ res[k - Height[a]] = k
    <3> SUFFICES ASSUME NEW k \in (Height[a] + 1)..Height[b]
                 PROVE  k - Height[a] \in DOMAIN res /\ res[k - Height[a]] = k
      OBVIOUS
    <3>1. k - Height[a] \in 1..(Height[b] - Height[a]) /\ Height[a] + (k - Height[a]) = k
      BY <1>0
    <3>2. k \in stored[b]
      <4>1. k \in 1..Height[b]
        BY <1>0
      <4> QED
        BY <4>1 DEF CatchInv
    <3> QED
      BY <2>2, <3>1, <3>2
  <2> HIDE DEF res
  <2>5. PICK c \in Chunks(res) : \A j \in DOMAIN res : j \in DOMAIN c /\ c[j] = res[j]
    BY <2>1, <2>3, FirstChunk
  <2> DEFINE m == Msg("04", b, a, <<c, Range(c) \cap converted[b]>>)
  <2>6. m \in net'
    BY DEF Replies, res
  <2>7. m.method = "04" /\ m.to = a /\ m.data[1] = c
    BY DEF Msg
  <2>8. 1..Height[b] \subseteq stored'[a] \cup Range(c)
    <3> SUFFICES ASSUME NEW k \in 1..Height[b] PROVE k \in stored'[a] \cup Range(c)
      OBVIOUS
    <3>1. CASE k <= Height[a]
      <4>1. k \in 1..Height[a]
        BY <1>0, <3>1
      <4> QED
        BY <4>1 DEF CatchInv
    <3>2. CASE ~(k <= Height[a])
      <4>1. k \in (Height[a] + 1)..Height[b]
        BY <1>0, <3>2
      <4>2. k - Height[a] \in DOMAIN c /\ c[k - Height[a]] = k
        BY <2>4, <2>5, <4>1
      <4> QED
        BY <4>2 DEF Range
    <3> QED
      BY <3>1, <3>2
  <2> HIDE DEF m
  <2> QED
    BY <2>6, <2>7, <2>8 DEF Filled
<1> QED
  BY <1>1, <1>2

\* The comparison of strings finds the shorter chain.
Comparable(a, b) == Height[a] < Height[b] => Lower(Height[a], Height[b])

\* Numbers with as many digits are comparable.
LEMMA SameDigits ==
    ASSUME NEW a \in Nodes, NEW b \in Nodes, Height[a] < 10 <=> Height[b] < 10
    PROVE  Comparable(a, b)
<1>1. Height[a] \in 0..99 /\ Height[b] \in 0..99
  OBVIOUS
<1> QED
  BY <1>1, LowerOrders DEF Comparable

LEMMA NeverLower ==
    ASSUME NEW a, NEW b, Pair(a, b), Comparable(a, b)
    PROVE  ~Lower(Height[b], Height[a])
<1>1. Height[a] \in 0..99 /\ Height[b] \in 0..99 /\ Height[a] <= Height[b]
  BY DEF Pair
<1>2. CASE Height[a] = Height[b]
  BY <1>1, <1>2, LowerOrders
<1>3. CASE Height[a] < Height[b]
  BY <1>1, <1>3, LowerOrders DEF Comparable
<1> QED
  BY <1>1, <1>2, <1>3

\* The messages keep asking for, and announcing, what they do at the start.
LEMMA FirstRangeStep ==
    ASSUME NEW a, NEW b, Pair(a, b), Comparable(a, b),
           TypeOK, PairInv(a, b), CatchInv(a, b), [Next]_vars
    PROVE  \A m \in net' : FirstRange(a, b, m)
<1>0. \A m \in net : FirstRange(a, b, m) /\ PairMessage(a, b, m) /\ GoodMessage(m)
  BY DEF CatchInv, PairInv, TypeOK, GoodMessage
<1>1. ASSUME NEW n \in Nodes, NEW peers \in SUBSET Nodes, Start(n, peers)
      PROVE  \A m \in net' : FirstRange(a, b, m)
  <2>1. n = a => blockNumber[n] = Height[a]
    BY <1>1 DEF Start, CatchInv
  <2>2. \A p \in peers : FirstRange(a, b, Msg("00", n, p, <<blockNumber[n]>>))
    BY <2>1 DEF FirstRange, Msg
  <2> QED
    BY <1>0, <1>1, <2>2 DEF Start
<1>2. ASSUME NEW m \in net, NEW dup \in BOOLEAN, RecvStatus(m, dup)
      PROVE  \A k \in net' : FirstRange(a, b, k)
  <2> DEFINE n == m.to
             num == m.data[1]
             own == blockNumber[n]
  <2>1. ASSUME Lower(own, num), NEW q \in Peers(n)
        PROVE  Msg("03", n, q, <<own, num>>) = Msg("03", a, b, <<Height[a], Height[b]>>)
    <3>1. m.method = "00" /\ n \in {a, b} /\ m.from \in {a, b} /\ m.from # n
      BY <1>0, <1>2, MessageParts DEF RecvStatus, PairMessage, Pair
    <3>2. n = a
      <4> SUFFICES ASSUME n = b PROVE FALSE
        BY <3>1
      <4>1. own = Height[b] /\ num = Height[a]
        BY <1>0, <3>1 DEF PairInv, FirstRange
      <4> QED
        BY <2>1, <4>1, NeverLower
    <3>3. num = Height[b] /\ own \in {Height[a], Height[b]}
      BY <1>0, <3>1, <3>2 DEF PairMessage, PairInv
    <3>4. own = Height[a]
      BY <2>1, <3>3, NotLower DEF Pair
    <3>5. q = b
      BY <2>1, <3>2, OnePeer DEF Peers, PairInv, Pair
    <3> QED
      BY <3>2, <3>3, <3>4, <3>5
  <2>2. FirstRange(a, b, Msg("03", a, b, <<Height[a], Height[b]>>))
    BY DEF FirstRange, Msg
  <2>3. \A k \in Replies(n, m.from, BlockList(stored[n], num, own)) : FirstRange(a, b, k)
    BY DEF Replies, Msg, FirstRange
  <2>4. Lower(own, num) => \A k \in Broadcast("03", n, <<own, num>>, {}) : FirstRange(a, b, k)
    BY <2>1, <2>2 DEF Broadcast
  <2>5. net' = Left(m, dup) \cup
                 (IF Lower(own, num) THEN Broadcast("03", n, <<own, num>>, {})
                  ELSE IF Lower(num, own) THEN Replies(n, m.from, BlockList(stored[n], num, own))
                  ELSE {})
    BY <1>2 DEF RecvStatus
  <2> HIDE DEF n, num, own
  <2> QED
    BY <1>0, <2>3, <2>4, <2>5 DEF Left
<1>3. ASSUME NEW m \in net, NEW dup \in BOOLEAN, Handle(m, dup), ~RecvStatus(m, dup)
      PROVE  \A k \in net' : FirstRange(a, b, k)
  <2>1. \A k \in net' \ net : k.method \in {"01", "02", "04"}
    BY <1>3, NewMessages
  <2> QED
    BY <1>0, <2>1 DEF FirstRange
<1>4. ASSUME NEW n \in Casters, NEW keys, CastTransaction(n, keys) \/ CastBlock(n, keys)
      PROVE  \A k \in net' : FirstRange(a, b, k)
  <2>1. \A k \in net' \ net : k.method \in {"01", "02"}
    BY <1>4, NewCasts
  <2> QED
    BY <1>0, <2>1 DEF FirstRange
<1>5. CASE (\E n \in Stoppers : Stop(n)) \/ UNCHANGED vars
  BY <1>0, <1>5 DEF Stop, vars
<1> QED
  BY <1>1, <1>2, <1>3, <1>4, <1>5 DEF Next

\* The start of the second node announces; an announcement leads to a request or to
\* an answer, and a request to an answer.
LEMMA AwaitedStep ==
    ASSUME NEW a, NEW b, Pair(a, b), Comparable(a, b),
           TypeOK, PairInv(a, b), CatchInv(a, b), [Next]_vars,
           {a, b} \subseteq started', ~Disturbed'
    PROVE  Filled(a, b)' \/ Awaited(a, b)'
<1>0. a \in Nodes /\ b \in Nodes /\ a # b /\ ~Disturbed
  BY DisturbedForGood DEF Pair
<1>1. CASE Filled(a, b)
  BY <1>0, <1>1, StaysFilled
<1>2. CASE ~Filled(a, b) /\ ~({a, b} \subseteq started)
  <2>1. PICK n \in Nodes, peers \in SUBSET Nodes : Start(n, peers)
    BY <1>2 DEF Next, vars, Stop, Handle, RecvStatus, RecvGetBlocks, RecvBlocks,
       RecvBlock, RecvTransaction, CastTransaction, CastBlock, Cast
  <2>2. blockNumber[a] = Height[a] /\ blockNumber[b] = Height[b]
    BY <1>0, <1>2 DEF CatchInv, PairInv
  <2>3. CASE n = a
    <3>1. b \in peers
      BY <1>0, <2>1, <2>3 DEF Start
    <3> QED
      BY <2>1, <2>2, <2>3, <3>1 DEF Start, Awaited
  <2>4. CASE n = b
    <3>1. a \in peers
      BY <1>0, <2>1, <2>4 DEF Start
    <3> QED
      BY <2>1, <2>2, <2>4, <3>1 DEF Start, Awaited
  <2> QED
    BY <2>3, <2>4 DEF Pair
<1>3. CASE ~Filled(a, b) /\ {a, b} \subseteq started
  <2>1. Awaited(a, b) /\ {a, b} \in links
    BY <1>0, <1>3 DEF CatchInv
  <2>2. CASE net \subseteq net'
    BY <2>1, <2>2 DEF Awaited
  <2>3. ASSUME NEW m \in net, NEW dup \in BOOLEAN, Handle(m, dup), net \ {m} \subseteq net'
        PROVE  Filled(a, b)' \/ Awaited(a, b)'
    <3>1. CASE m = Msg("03", a, b, <<Height[a], Height[b]>>)
      <4>1. m.method = "03" /\ m.to = b /\ m.from = a /\ m.data[1] = Height[a]
            /\ m.data[2] = Height[b]
        BY <3>1 DEF Msg
      <4>2. RecvGetBlocks(m, dup)
        BY <2>3, <4>1 DEF Handle, RecvStatus, RecvBlocks, RecvBlock, RecvTransaction
      <4>3. Replies(b, a, BlockList(stored[b], Height[a], Height[b])) \subseteq net'
        BY <4>1, <4>2 DEF RecvGetBlocks
      <4> QED
        BY <1>0, <4>3, AnswerFills, StoredGrows
    <3>2. CASE m = Msg("00", b, a, <<Height[b]>>)
      <4>1. m.method = "00" /\ m.to = a /\ m.from = b /\ m.data[1] = Height[b]
        BY <3>2 DEF Msg
      <4>2. RecvStatus(m, dup)
        BY <2>3, <4>1 DEF Handle, RecvGetBlocks, RecvBlocks, RecvBlock, RecvTransaction
      <4>3. blockNumber[a] = Height[a] /\ Height[a] # Height[b]
        BY <1>0, <1>3 DEF CatchInv, Filled
      <4>4. Lower(Height[a], Height[b])
        BY <4>3 DEF Comparable, Pair
      <4>5. Broadcast("03", a, <<Height[a], Height[b]>>, {}) \subseteq net'
        BY <4>1, <4>2, <4>3, <4>4 DEF RecvStatus
      <4>6. b \in Peers(a)
        BY <1>0, <2>1 DEF Peers
      <4> QED
        BY <4>5, <4>6 DEF Broadcast, Awaited
    <3>3. CASE m = Msg("00", a, b, <<Height[a]>>)
      <4>1. m.method = "00" /\ m.to = b /\ m.from = a /\ m.data[1] = Height[a]
        BY <3>3 DEF Msg
      <4>2. RecvStatus(m, dup)
        BY <2>3, <4>1 DEF Handle, RecvGetBlocks, RecvBlocks, RecvBlock, RecvTransaction
      <4>3. blockNumber[b] = Height[b] /\ Height[a] # Height[b]
        BY <1>3 DEF CatchInv, Filled, PairInv
      <4>4. Lower(Height[a], Height[b]) /\ ~Lower(Height[b], Height[a])
        BY <4>3, NeverLower DEF Comparable, Pair
      <4>5. Replies(b, a, BlockList(stored[b], Height[a], Height[b])) \subseteq net'
        BY <4>1, <4>2, <4>3, <4>4 DEF RecvStatus
      <4> QED
        BY <1>0, <4>5, AnswerFills, StoredGrows
    <3>4. CASE m \notin {Msg("03", a, b, <<Height[a], Height[b]>>),
                         Msg("00", b, a, <<Height[b]>>), Msg("00", a, b, <<Height[a]>>)}
      BY <2>1, <2>3, <3>4 DEF Awaited
    <3> QED
      BY <3>1, <3>2, <3>3, <3>4
  <2> QED
    BY <2>2, <2>3, NetKeeps
<1> QED
  BY <1>1, <1>2, <1>3

LEMMA CatchStep ==
    ASSUME NEW a, NEW b, Pair(a, b), Comparable(a, b),
           TypeOK, PairInv(a, b), PairInv(a, b)', CatchInv(a, b), [Next]_vars
    PROVE  CatchInv(a, b)'
<1>0. a \in Nodes /\ b \in Nodes /\ a # b
  BY DEF Pair
<1>1. 1..Height[a] \subseteq stored'[a] /\ 1..Height[b] \subseteq stored'[b]
  BY <1>0, StoredGrows DEF CatchInv
<1>2. blockNumber'[a] # Height[a] /\ ~Disturbed' => Filled(a, b)'
  <2> SUFFICES ASSUME blockNumber'[a] # Height[a], ~Disturbed' PROVE Filled(a, b)
    BY <1>0, StaysFilled
  <2>0. ~Disturbed
    BY DisturbedForGood
  <2>1. CASE blockNumber[a] # Height[a]
    BY <2>0, <2>1 DEF CatchInv
  <2>2. CASE blockNumber'[a] # blockNumber[a]
    <3>1. PICK m \in net, dup \in BOOLEAN : RecvBlocks(m, dup)
      BY <2>2 DEF Next, vars, Start, Stop, Handle, RecvStatus, RecvGetBlocks, RecvBlock,
         RecvTransaction, CastTransaction, CastBlock, Cast
    <3> QED
      BY <2>0, <3>1 DEF CatchInv, RecvBlocks
  <2> QED
    BY <2>1, <2>2
<1>3. ASSUME NEW m \in net', m.method = "04", ~Disturbed' PROVE Filled(a, b)'
  <2>1. CASE Filled(a, b)
    BY <1>0, <1>3, <2>1, StaysFilled
  <2>2. CASE ~Filled(a, b)
    <3>1. m \notin net
      BY <1>3, <2>2, DisturbedForGood DEF CatchInv
    <3>2. PICK k \in net, dup \in BOOLEAN : RecvStatus(k, dup) \/ RecvGetBlocks(k, dup)
      <4>1. \A n \in Nodes, peers \in SUBSET Nodes : ~Start(n, peers)
        BY <1>3, <3>1 DEF Start, Msg
      <4>2. \A n \in Casters : \A keys : ~(CastTransaction(n, keys) \/ CastBlock(n, keys))
        BY <1>3, <3>1, NewCasts
      <4>3. net' # net
        BY <1>3, <3>1
      <4>4. PICK k \in net, dup \in BOOLEAN : Handle(k, dup)
        BY <4>1, <4>2, <4>3 DEF Next, vars, Stop
      <4> QED
        BY <1>3, <3>1, <4>4, NewMessages
    <3>3. FirstRange(a, b, k) /\ PairMessage(a, b, k) /\ k.from \in {a, b} /\ k.to \in {a, b}
      BY MessageParts DEF CatchInv, PairInv, TypeOK, GoodMessage, Pair
    <3>4. CASE RecvGetBlocks(k, dup)
      <4>1. k = Msg("03", a, b, <<Height[a], Height[b]>>)
        BY <3>3, <3>4 DEF FirstRange, RecvGetBlocks
      <4>2. k.to = b /\ k.from = a /\ k.data[1] = Height[a] /\ k.data[2] = Height[b]
        BY <4>1 DEF Msg
      <4>3. Replies(b, a, BlockList(stored[b], Height[a], Height[b])) \subseteq net'
        BY <3>4, <4>2 DEF RecvGetBlocks
      <4> QED
        BY <1>0, <4>3, AnswerFills, StoredGrows
    <3>5. CASE RecvStatus(k, dup)
      <4> DEFINE n == k.to
                 num == k.data[1]
                 own == blockNumber[n]
      <4>1. m \in Replies(n, k.from, BlockList(stored[n], num, own)) /\ ~Lower(own, num)
            /\ Lower(num, own)
        <5>1. \A x \in Broadcast("03", n, <<own, num>>, {}) : x.method = "03"
          BY DEF Broadcast, Msg
        <5>2. net' = Left(k, dup) \cup
                 (IF Lower(own, num) THEN Broadcast("03", n, <<own, num>>, {})
                  ELSE IF Lower(num, own)
                       THEN Replies(n, k.from, BlockList(stored[n], num, own))
                       ELSE {})
          BY <3>5 DEF RecvStatus
        <5> HIDE DEF n, num, own
        <5> QED
          BY <1>3, <3>1, <5>1, <5>2 DEF Left
      <4>2. k.method = "00" /\ k.from # n
        BY <3>3, <3>5 DEF RecvStatus, PairMessage
      <4>3. n = b
        <5> SUFFICES ASSUME n = a PROVE FALSE
          BY <3>3
        <5>1. num = Height[b] /\ own \in {Height[a], Height[b]}
          BY <3>3, <4>2 DEF PairMessage, PairInv
        <5> QED
          BY <4>1, <5>1, NeverLower, NotLower DEF Pair
      <4>4. k.from = a /\ num = Height[a] /\ own = Height[b]
        BY <3>3, <4>2, <4>3 DEF FirstRange, PairInv
      <4>5. Replies(b, a, BlockList(stored[b], Height[a], Height[b])) \subseteq net'
        BY <3>5, <4>1, <4>3, <4>4 DEF RecvStatus
      <4> QED
        BY <1>0, <4>5, AnswerFills, StoredGrows
    <3> QED
      BY <3>2, <3>4, <3>5
  <2> QED
    BY <2>1, <2>2
<1>4. a \notin started' => blockNumber'[a] = Height[a]
  <2> SUFFICES ASSUME a \notin started' PROVE blockNumber'[a] = Height[a]
    OBVIOUS
  <2>1. a \notin started
    BY DEF Next, vars, Start, Stop, Handle, RecvStatus, RecvGetBlocks, RecvBlocks,
       RecvBlock, RecvTransaction, CastTransaction, CastBlock, Cast
  <2>2. ASSUME NEW m \in net, NEW dup \in BOOLEAN, RecvBlocks(m, dup) PROVE FALSE
    <3>1. m.to = a /\ <<a, "db">> \in running
      BY <2>2 DEF RecvBlocks, Take, PairInv, PairMessage
    <3> QED
      BY <2>1, <3>1 DEF TypeOK
  <2>3. blockNumber' = blockNumber
    BY <2>2 DEF Next, vars, Start, Stop, Handle, RecvStatus, RecvGetBlocks, RecvBlock,
       RecvTransaction, CastTransaction, CastBlock, Cast
  <2> QED
    BY <2>1, <2>3 DEF CatchInv
<1>5. {a, b} \subseteq started' => {a, b} \in links'
  <2>1. ASSUME NEW n \in Nodes, NEW peers \in SUBSET Nodes, Start(n, peers),
               {a, b} \subseteq started'
        PROVE  {a, b} \in links'
    <3>1. links' = links \cup {{n, p} : p \in peers} /\ started' = started \cup {n}
          /\ started \subseteq peers /\ n \notin peers
      BY <2>1 DEF Start
    <3>2. CASE {a, b} \subseteq started
      BY <3>1, <3>2 DEF CatchInv
    <3>3. CASE n = a
      <4>1. b \in peers
        BY <1>0, <2>1, <3>1, <3>3
      <4> QED
        BY <3>1, <3>3, <4>1
    <3>4. CASE n = b
      <4>1. a \in peers
        BY <1>0, <2>1, <3>1, <3>4
      <4>2. {b, a} \in links'
        BY <3>1, <3>4, <4>1
      <4>3. {b, a} = {a, b}
        OBVIOUS
      <4> QED
        BY <4>2, <4>3
    <3> QED
      BY <2>1, <3>1, <3>2, <3>3, <3>4
  <2>2. CASE UNCHANGED <<started, links>>
    BY <2>2 DEF CatchInv
  <2> QED
    BY <2>1, <2>2 DEF Next, vars, Stop, Handle, RecvStatus, RecvGetBlocks, RecvBlocks,
       RecvBlock, RecvTransaction, CastTransaction, CastBlock, Cast
<1>6. \A m \in net' : FirstRange(a, b, m)
  BY FirstRangeStep
<1>7. {a, b} \subseteq started' /\ ~Disturbed' => Filled(a, b)' \/ Awaited(a, b)'
  BY AwaitedStep
<1> QED
  BY <1>1, <1>2, <1>3, <1>4, <1>5, <1>6, <1>7 DEF CatchInv

\* Between two nodes with chains of any lengths that the comparison of strings
\* orders right - any two of as many digits, say -, nothing is asked for or sent too
\* little: once the announcements, requests and answers are handled, and unless a
\* manager ended, both have every block of either.
THEOREM QuietCaughtUp ==
    ASSUME NEW a, NEW b, Pair(a, b), Comparable(a, b)
    PROVE  Spec => []QuietIsCaughtUp
<1>1. Init => CatchInv(a, b)
  <2> SUFFICES ASSUME Init PROVE CatchInv(a, b)
    OBVIOUS
  <2>1. a \in Nodes /\ b \in Nodes
    BY DEF Pair
  <2> QED
    BY <2>1 DEF Init, CatchInv
<1>2. TypeOK /\ PairInv(a, b) /\ PairInv(a, b)' /\ CatchInv(a, b) /\ [Next]_vars
        => CatchInv(a, b)'
  BY CatchStep
<1>3. TypeOK /\ CatchInv(a, b) => QuietIsCaughtUp
  <2> SUFFICES ASSUME CatchInv(a, b), started = Nodes, ~Disturbed,
                      \A m \in net : m.method \notin {"00", "03", "04"}
               PROVE  \A n \in Nodes : UNION {1..Height[p] : p \in Nodes} \subseteq stored[n]
    BY DEF QuietIsCaughtUp
  <2>1. ~Awaited(a, b)
    BY DEF Awaited, Msg
  <2>2. 1..Height[b] \subseteq stored[a]
    BY <2>1 DEF CatchInv, Filled, Pair
  <2>3. 1..Height[a] \subseteq 1..Height[b]
    <3>1. Height[a] \in 0..Top /\ Height[b] \in 0..Top /\ Height[a] <= Height[b]
      BY DEF Pair
    <3> QED
      BY <3>1
  <2>4. UNION {1..Height[p] : p \in Nodes} = 1..Height[b]
    BY <2>3 DEF Pair
  <2> QED
    BY <2>2, <2>4 DEF CatchInv, Pair
<1> QED
  BY <1>1, <1>2, <1>3, PairStep, TypeCorrect, PTL DEF Spec
=============================================================================
