------------------------------- MODULE BlockSync -------------------------------
(***************************************************************************)
(* node.statusMgr and node.dbMgr on every node: a node announces its block *)
(* number once (message 00), the lower of two asks for the missing blocks  *)
(* (03), the higher sends them in chunks (04), and whoever receives blocks *)
(* applies their transactions.  dbMgr also passes on broadcast blocks (01) *)
(* and transactions (02).                                                  *)
(*                                                                         *)
(* A block is its number.  Database is external: getBlockByID returns the  *)
(* block or None, createBlock stores every block it is given that is not   *)
(* None; AsStored says whether the hash of a block comes back from it as   *)
(* the integer it was stored with.  The nodes have one genesis hash.       *)
(* Messages may be reordered and repeated, and are not lost.               *)
(***************************************************************************)
EXTENDS Integers, Sequences, FiniteSets, Functions

CONSTANTS
    Nodes,
    Height,         \* the chain each node has in its database at the start
    Converted,      \* those of its blocks whose hash was stored as an integer
    Top,            \* bound: the block numbers are 1..Top
    MaxBlock,       \* status['maxBlock'], "3" in the code
    AsStored,       \* external: getBlockByID returns hashes as they were stored
    BlockShapes,    \* the sets of keys, besides method, of block packets sent
    TxShapes,       \* and of transaction packets
    Casters,        \* nodes whose application broadcasts blocks and transactions
    Stoppers,       \* nodes that may be stopped
    MaxCasts,       \* bound: blocks and transactions the applications broadcast
    MaxDups         \* bound: messages the network repeats

ASSUME TopAssumption == Top \in 1..99
ASSUME HeightAssumption == Height \in [Nodes -> 0..Top]
ASSUME MaxBlockAssumption == MaxBlock \in Nat \ {0}
ASSUME ShapesAssumption == BlockShapes \subseteq SUBSET {"block", "blocks"}
                           /\ TxShapes \subseteq SUBSET {"transaction", "transactions"}
ASSUME DatabaseAssumption ==
    /\ AsStored \in BOOLEAN
    /\ Converted \in [Nodes -> SUBSET (1..Top)]
    /\ \A n \in Nodes : Converted[n] \subseteq 1..Height[n]
    /\ ~AsStored => \A n \in Nodes : Converted[n] = {}
ASSUME ActorsAssumption == Casters \cup Stoppers \subseteq Nodes
ASSUME BoundsAssumption == {MaxCasts, MaxDups} \subseteq Nat

VARIABLES
    started,        \* nodes that have started
    links,          \* which nodes have each other as a peer
    running,        \* which managers of which node run
    blockNumber,    \* status['blockNumber'] of each node, as a number
    stored,         \* the blocks in the database of each node
    converted,      \* those whose hash the database returns as an integer
    applied,        \* history: blocks whose transactions each node applied
    pending,        \* nodes that took a broadcast transaction
    net,            \* messages on their way, or in a recv_queue
    casts, dups     \* counters for the bounds

database == <<stored, converted>>
vars == <<started, links, running, blockNumber, database, applied, pending, net,
          casts, dups>>

Numbers == 1..Top
None == 0               \* no block has the number 0
Managers == {"stat", "db"}

------------------------------------------------------------------------------
(* Block numbers are compared as decimal strings. *)

Digits(n) == IF n < 10 THEN <<n>> ELSE <<n \div 10, n % 10>>

\* a < b for strings: the first difference decides, or a is a proper prefix.
StringLess(a, b) ==
    \/ \E k \in DOMAIN a \cap DOMAIN b :
          a[k] < b[k] /\ \A i \in 1..(k - 1) : a[i] = b[i]
    \/ Len(a) < Len(b) /\ \A i \in DOMAIN a : a[i] = b[i]

Lower(m, n) == StringLess(Digits(m), Digits(n))

------------------------------------------------------------------------------
(* Chunks: while index < length, with index stepping by maxBlock *)

\* Python's s[a:b], with 0-based a and b.
Slice(s, a, b) == SubSeq(s, a + 1, IF b < Len(s) THEN b ELSE Len(s))

\* Mutants of ChunkAt: disjoint chunks; the long slice starts one step too far.
ChunkProper(res, index) == Slice(res, index, index + MaxBlock)
ChunkAfter(res, index) ==
    IF index + MaxBlock < Len(res)
    THEN Slice(res, index + MaxBlock, Len(res))
    ELSE Slice(res, index, index + MaxBlock)

ChunkAt(res, index) ==
    IF index + MaxBlock < Len(res)
    THEN Slice(res, index, Len(res))
    ELSE Slice(res, index, index + MaxBlock)

Chunks(res) ==
    {ChunkAt(res, k * MaxBlock) : k \in {j \in 0..Len(res) : j * MaxBlock < Len(res)}}

\* Mutant of BlockList: the range starts one block late.
BlockListLate(blks, fro, to) ==
    [i \in 1..(IF to > fro THEN to - fro - 1 ELSE 0) |->
        IF fro + 1 + i \in blks THEN fro + 1 + i ELSE None]

\* The list of getBlockByID of the numbers fro+1..to in the database blks.
BlockList(blks, fro, to) ==
    [i \in 1..(IF to > fro THEN to - fro ELSE 0) |->
        IF fro + i \in blks THEN fro + i ELSE None]

------------------------------------------------------------------------------
(* Messages *)

Peers(n) == {p \in Nodes : {n, p} \in links}

Msg(method, from, to, data) ==
    [method |-> method, from |-> from, to |-> to, data |-> data]
Broadcast(method, n, data, excluded) ==
    {Msg(method, n, p, data) : p \in Peers(n) \ excluded}
\* An answer: a chunk, and which of its blocks have an integer hash.
Replies(n, to, res) ==
    {Msg("04", n, to, <<c, Range(c) \cap converted[n]>>) : c \in Chunks(res)}

\* A packet with a block whose hash is still a hex string, or already an integer.
BlockData(b, hex, keys) == [block |-> b, hex |-> hex, keys |-> keys]

\* The keys that dbMgr reads of a block packet and of a transaction packet.
BlockKeys == {"block", "blocks"}
TxKeys == {"transaction", "transactions"}

Init ==
    /\ started = {}
    /\ links = {}
    /\ running = {}
    /\ blockNumber = Height
    /\ stored = [n \in Nodes |-> 1..Height[n]]
    /\ converted = Converted
    /\ applied = [n \in Nodes |-> 1..Height[n]]
    /\ pending = {}
    /\ net = {}
    /\ casts = 0 /\ dups = 0

------------------------------------------------------------------------------
(* Node.start and Node.stop *)

\* Mutant of Start: the node is not marked as started.
StartUnmarked(n, peers) ==
    /\ n \notin started /\ n \notin peers
    /\ started \cup Peers(n) \subseteq peers
    /\ links' = links \cup {{n, p} : p \in peers}
    /\ running' = running \cup ({n} \X Managers)
    /\ net' = net \cup {Msg("00", n, p, <<blockNumber[n]>>) : p \in peers}
    /\ UNCHANGED <<started, blockNumber, database, applied, pending, casts, dups>>

\* By the time the managers start, pm.start has connected the node to the nodes
\* that started before it, and others may have connected to it.  statusMgr.run
\* then announces the status, once.
Start(n, peers) ==
    /\ n \notin started /\ n \notin peers
    /\ started \cup Peers(n) \subseteq peers
    /\ started' = started \cup {n}
    /\ links' = links \cup {{n, p} : p \in peers}
    /\ running' = running \cup ({n} \X Managers)
    /\ net' = net \cup {Msg("00", n, p, <<blockNumber[n]>>) : p \in peers}
    /\ UNCHANGED <<blockNumber, database, applied, pending, casts, dups>>

\* Node.stop marks stat and db as stopped without a yield between them, and each
\* leaves its loop when it runs next.
Stop(n) ==
    /\ \E mgr \in Managers : <<n, mgr>> \in running
    /\ running' = running \ ({n} \X Managers)
    /\ UNCHANGED <<started, links, blockNumber, database, applied, pending, net,
                   casts, dups>>

------------------------------------------------------------------------------
(* The loops of the two managers: a message is taken from its recv_queue and *)
(* handled without a yield.  With dup, the network delivers it once more.    *)

Take(m, mgr, dup) ==
    /\ <<m.to, mgr>> \in running
    /\ dup => dups < MaxDups
    /\ dups' = IF dup THEN dups + 1 ELSE dups

Left(m, dup) == IF dup THEN net ELSE net \ {m}

\* An exception in dbMgr.run ends the greenlet of node n.
DbRuns(n, ok) == running' = IF ok THEN running ELSE running \ {<<n, "db">>}

\* 00: ask every peer for the blocks up to the number announced, or answer with
\* the blocks the sender lacks.
RecvStatus(m, dup) ==
    /\ m.method = "00" /\ Take(m, "stat", dup)
    /\ LET n == m.to
           num == m.data[1]
           own == blockNumber[n]
       IN net' = Left(m, dup) \cup
            (IF Lower(own, num) THEN Broadcast("03", n, <<own, num>>, {})
             ELSE IF Lower(num, own) THEN Replies(n, m.from, BlockList(stored[n], num, own))
             ELSE {})
    /\ UNCHANGED <<started, links, running, blockNumber, database, applied, pending,
                   casts>>

\* 03: answer with the blocks from+1..to, None for those not in the database.
RecvGetBlocks(m, dup) ==
    /\ m.method = "03" /\ Take(m, "db", dup)
    /\ net' = Left(m, dup) \cup
                Replies(m.to, m.from, BlockList(stored[m.to], m.data[1], m.data[2]))
    /\ UNCHANGED <<started, links, running, blockNumber, database, applied, pending,
                   casts>>

\* Database.createBlock.
Store(n, blks) ==
    /\ stored' = [stored EXCEPT ![n] = @ \cup blks]
    /\ converted' = IF AsStored THEN [converted EXCEPT ![n] = @ \cup blks] ELSE converted

\* Apply the transactions of the blocks that are not None, and then store them.
\* A block whose hash is an integer already raises when its own transactions have
\* been applied: what comes after it is not applied, and nothing is stored.
updateBlkTrans(n, blks, integers) ==
    LET reached == {i \in DOMAIN blks : \A j \in 1..(i - 1) : blks[j] \notin integers}
    IN /\ applied' = [applied EXCEPT ![n] = @ \cup ({blks[i] : i \in reached} \ {None})]
       /\ IF integers = {} THEN Store(n, Range(blks) \ {None}) ELSE UNCHANGED database

\* 04: take the blocks; the last of the list gives the block number, and if it
\* is None the subscript raises.
RecvBlocks(m, dup) ==
    /\ m.method = "04" /\ Take(m, "db", dup)
    /\ LET n == m.to
           blks == m.data[1]
           last == blks[Len(blks)]
           ok == m.data[2] = {} /\ last # None
       IN /\ updateBlkTrans(n, blks, m.data[2])
          /\ blockNumber' = IF ok THEN [blockNumber EXCEPT ![n] = last] ELSE blockNumber
          /\ DbRuns(n, ok)
    /\ net' = Left(m, dup)
    /\ UNCHANGED <<started, links, pending, casts>>

\* A block packet with both keys, and a hash that can be converted.
Usable(packet) == BlockKeys \subseteq packet.keys /\ packet.hex

\* Mutant of RecvBlock: a broadcast block gives the block number.
RecvBlockNewest(m, dup) ==
    /\ m.method = "01" /\ Take(m, "db", dup)
    /\ DbRuns(m.to, Usable(m.data[1]))
    /\ Store(m.to, {m.data[1].block})
    /\ blockNumber' = [blockNumber EXCEPT ![m.to] = m.data[1].block]
    /\ net' = Left(m, dup)
    /\ UNCHANGED <<started, links, applied, pending, casts>>

\* Mutants of RecvBlock and RecvTransaction: the sender is not excluded.
RecvBlockEchoed(m, dup) ==
    /\ m.method = "01" /\ Take(m, "db", dup)
    /\ LET n == m.to
           packet == m.data[1]
       IN /\ DbRuns(n, Usable(packet))
          /\ IF Usable(packet) THEN Store(n, {packet.block}) ELSE UNCHANGED database
          /\ net' = Left(m, dup) \cup
                (IF Usable(packet)
                 THEN Broadcast("01", n, <<BlockData(packet.block, FALSE, packet.keys)>>, {})
                 ELSE {})
    /\ UNCHANGED <<started, links, blockNumber, applied, pending, casts>>

RecvTransactionEchoed(m, dup) ==
    /\ m.method = "02" /\ Take(m, "db", dup)
    /\ DbRuns(m.to, TRUE)
    /\ pending' = pending \cup {m.to}
    /\ net' = Left(m, dup) \cup Broadcast("02", m.to, m.data, {})
    /\ UNCHANGED <<started, links, blockNumber, database, applied, casts>>

\* 01: make the hash an integer, store the block and pass the dict on as it now
\* is.  A packet that lacks a key raises, and so does a hash that is an integer.
RecvBlock(m, dup) ==
    /\ m.method = "01" /\ Take(m, "db", dup)
    /\ LET n == m.to
           packet == m.data[1]
       IN /\ DbRuns(n, Usable(packet))
          /\ IF Usable(packet) THEN Store(n, {packet.block}) ELSE UNCHANGED database
          /\ net' = Left(m, dup) \cup
                (IF Usable(packet)
                 THEN Broadcast("01", n, <<BlockData(packet.block, FALSE, packet.keys)>>,
                                {m.from})
                 ELSE {})
    /\ UNCHANGED <<started, links, blockNumber, applied, pending, casts>>

\* 02: both keys are read, so a packet that lacks one raises.
RecvTransaction(m, dup) ==
    /\ m.method = "02" /\ Take(m, "db", dup)
    /\ LET n == m.to
           ok == TxKeys \subseteq m.data[1]
       IN /\ DbRuns(n, ok)
          /\ pending' = IF ok THEN pending \cup {n} ELSE pending
          /\ net' = Left(m, dup) \cup
                (IF ok THEN Broadcast("02", n, m.data, {m.from}) ELSE {})
    /\ UNCHANGED <<started, links, blockNumber, database, applied, casts>>

Handle(m, dup) ==
    \/ RecvStatus(m, dup)
    \/ RecvGetBlocks(m, dup)
    \/ RecvBlocks(m, dup)
    \/ RecvBlock(m, dup)
    \/ RecvTransaction(m, dup)

------------------------------------------------------------------------------
(* The application: pm.broadcast of a transaction, or of its next block.  *)

Cast(n, method, data) ==
    /\ n \in started /\ casts < MaxCasts
    /\ casts' = casts + 1
    /\ net' = net \cup Broadcast(method, n, data, {})
    /\ UNCHANGED <<started, links, running, blockNumber, database, applied, pending,
                   dups>>

CastTransaction(n, keys) == Cast(n, "02", <<keys>>)
CastBlock(n, keys) ==
    /\ blockNumber[n] < Top
    /\ Cast(n, "01", <<BlockData(blockNumber[n] + 1, TRUE, keys)>>)

Next ==
    \/ \E n \in Nodes, peers \in SUBSET Nodes : Start(n, peers)
    \/ \E n \in Stoppers : Stop(n)
    \/ \E m \in net, dup \in BOOLEAN : Handle(m, dup)
    \/ \E n \in Casters, keys \in TxShapes : CastTransaction(n, keys)
    \/ \E n \in Casters, keys \in BlockShapes : CastBlock(n, keys)

Spec == Init /\ [][Next]_vars

\* Every node is started, and a turn of a manager's loop takes a message from
\* every recv_queue of its that is not empty: the loop yields only through
\* gevent.sleep().  Blocks asked for and broadcasts are in queues of their own.
Handles(n, methods) ==
    \E m \in net : m.to = n /\ m.method \in methods /\ Handle(m, FALSE)
Queues == {{"00"}, {"01", "02"}, {"03", "04"}}
Fairness ==
    /\ WF_vars(\E n \in Nodes, peers \in SUBSET Nodes : Start(n, peers))
    /\ \A n \in Nodes, methods \in Queues : WF_vars(Handles(n, methods))
FairSpec == Spec /\ Fairness

------------------------------------------------------------------------------
(* Properties *)

Message ==
       [method : {"00"}, from : Nodes, to : Nodes, data : {<<k>> : k \in 0..Top}]
  \cup [method : {"03"}, from : Nodes, to : Nodes, data : (0..Top) \X (0..Top)]
  \cup [method : {"01"}, from : Nodes, to : Nodes,
        data : {<<BlockData(b, hex, keys)>> :
                  b \in Numbers, hex \in BOOLEAN, keys \in BlockShapes}]
  \cup [method : {"02"}, from : Nodes, to : Nodes, data : {<<keys>> : keys \in TxShapes}]

Reply(m) ==
    /\ m.method = "04" /\ {m.from, m.to} \subseteq Nodes
    /\ m.data[1] \in Seq(0..Top) /\ m.data[1] # <<>>
    /\ m.data[2] \subseteq Range(m.data[1])

TypeOK ==
    /\ started \subseteq Nodes
    /\ links \subseteq {{n, p} : n \in Nodes, p \in Nodes}
    /\ running \subseteq started \X Managers
    /\ blockNumber \in [Nodes -> 0..Top]
    /\ stored \in [Nodes -> SUBSET Numbers]
    /\ converted \in [Nodes -> SUBSET Numbers]
    /\ applied \in [Nodes -> SUBSET Numbers]
    /\ pending \subseteq Nodes
    /\ \A m \in net : m \in Message \/ Reply(m)
    /\ casts \in 0..MaxCasts /\ dups \in 0..MaxDups

\* The block number a node announces is backed by its database: the block is
\* stored and its transactions were applied, whichever chunks, None entries and
\* broadcast blocks reached it in whichever order.
NumberIsBacked ==
    \A n \in Nodes :
        blockNumber[n] # 0 => blockNumber[n] \in stored[n] \cap applied[n]

\* Whatever range up to a block of its own a node is asked for, the chunks of its
\* answer together hold every block it has of that range, and each of them, not
\* only the one sent last, ends with the newest block: this is what lets dbMgr
\* take the block number from any of them, in whichever order they arrive.
ChunksComplete ==
    \A n \in Nodes : \A to \in stored[n] : \A fro \in 0..(to - 1) :
        LET cs == Chunks(BlockList(stored[n], fro, to))
            got == {b \in Numbers : \E c \in cs : b \in Range(c)}
        IN /\ got = stored[n] \cap ((fro + 1)..to)
           /\ \A c \in cs : c[Len(c)] = to

\* Between two nodes, while no manager stops or dies, every node ends with all
\* the blocks that either had (node.py:98: "initial broadcast of status to
\* receive updates from neighbor").
Disturbed == \E n \in started, mgr \in Managers : <<n, mgr>> \notin running
CatchesUp ==
    \A n \in Nodes :
        <>(Disturbed \/ UNION {1..Height[p] : p \in Nodes} \subseteq stored[n])

\* Nothing is asked for again, so a node that lacks a block when the announcements,
\* requests and answers have all been handled would lack it for ever (node.py:94-121,
\* 199-222): between two nodes that started and whose managers run, there is none.
QuietIsCaughtUp ==
    /\ started = Nodes /\ ~Disturbed
    /\ \A m \in net : m.method \notin {"00", "03", "04"}
    => \A n \in Nodes : UNION {1..Height[p] : p \in Nodes} \subseteq stored[n]

\* Between two nodes, whatever is announced, answered, reordered and repeated, the
\* block number of a node never goes back (node.py:222, "assume last is newest
\* for now").
NumberNeverBack ==
    [][\A n \in Nodes : blockNumber'[n] >= blockNumber[n]]_vars

\* What takes the database manager of the node that handles it with it: a broadcast
\* that lacks a key dbMgr reads (node.py:174-175, 186-187), or an answer with a
\* block whose hash the database of the sender returns as an integer (node.py:258).
Fatal(m) ==
    \/ m.method = "01" /\ ~(BlockKeys \subseteq m.data[1].keys)
    \/ m.method = "02" /\ ~(TxKeys \subseteq m.data[1])
    \/ m.method = "04" /\ AsStored /\ m.data[2] # {}

\* Between two nodes nothing else ends a database manager but its stop: no answer
\* ends with None (node.py:222), whatever ranges are asked for and whatever has
\* been stored out of order, and no block is passed back to where it came from
\* with the integer hash of node.py:175.
EndsForCause ==
    [][\A n \in Nodes :
          <<n, "db">> \in running \ running'
            => \/ n \in Stoppers /\ Stop(n)
               \/ \E m \in net, dup \in BOOLEAN : m.to = n /\ Fatal(m) /\ Handle(m, dup)]_vars

\* Between two nodes broadcasts die out (node.py:177 and 188 pass them on to every
\* peer but the sender, seen before or not).
BroadcastsEnd ==
    <>[](Disturbed \/ \A m \in net : m.method \notin {"01", "02"})

\* Why they do: between two nodes only the application puts a block or a transaction
\* on the network.  Taking one from it never sends another, the peer it would be
\* passed on to being the sender, and what else a node handles sends none.
OnlyCastsSend ==
    [][casts' = casts
        => {m \in net' : m.method \in {"01", "02"}} \subseteq net]_vars

\* A node takes the transaction packet the README shows, method and transaction,
\* as "regular data": its database manager runs until the node stops it.
TransactionTaken ==
    [][\A m \in net :
          m.method = "02" /\ net' # net /\ m \notin net' => <<m.to, "db">> \in running']_vars
==============================================================================
