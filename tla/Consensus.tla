------------------------------- MODULE Consensus -------------------------------
(***************************************************************************)
(* node.consensusMgr on every node of a network: a proposer broadcasts a   *)
(* block (message 05), the others answer with their signature of its hash  *)
(* (07), and the proposer seals the block - announces it (08) and stores   *)
(* it - once enough distinct nodes have signed.                            *)
(*                                                                         *)
(* Messages travel over peers (UdpPeer): they may be lost, duplicated and  *)
(* reordered, and carry the ID of the node that sent them.  Signatures are *)
(* abstracted away: vote only prints the outcome of verifydata.  A block   *)
(* is its hash; what matters of the block dict itself is whether its       *)
(* 'hash' is still the hex string or, as sealing leaves it, an integer.    *)
(***************************************************************************)
EXTENDS Naturals, Sequences, FiniteSets, Functions

CONSTANTS
    Nodes,
    Proposers,      \* the nodes whose application calls publishBlock
    Blocks,
    threshold,      \* consensusMgr.threshold, 1 in the code
    MaxPublish,     \* bound: calls of publishBlock
    MaxAsk,         \* bound: different requests for a block (message 09)
    MaxLost         \* bound: messages the network loses

ASSUME NodesAssumption == IsFiniteSet(Nodes)
ASSUME ProposersAssumption == Proposers \subseteq Nodes
ASSUME ThresholdAssumption == threshold \in Nat \ {0}
ASSUME BoundsAssumption == {MaxPublish, MaxAsk, MaxLost} \subseteq Nat

VARIABLES
    temp,       \* consensusMgr.temp of each node
    alive,      \* nodes whose consensusMgr greenlet still runs
    db,         \* how often each node has handed a block to createBlock
    net,        \* messages on their way
    published,  \* history: how often each node published each block
    signed,     \* history: who signed what
    asked,      \* history: who asked whom for which block
    lost        \* counter for its bound

vars == <<temp, alive, db, net, published, signed, asked, lost>>

\* An entry of temp; proposed says that the key is present.
Entry == [proposed : BOOLEAN, voters : Seq(Nodes), agreed : BOOLEAN]
NoEntry == [proposed |-> FALSE, voters |-> <<>>, agreed |-> FALSE]
\* Mutant of Fresh: the entry is made without the key agreed.
FreshUnagreed == [proposed |-> TRUE, voters |-> <<>>]

Fresh   == [proposed |-> TRUE, voters |-> <<>>, agreed |-> FALSE]

\* Message methods.  06, "request signature", is handled by the same code as 05
\* and sent by none.  hex: the hash in the message is a hex string.
Message == [method : {"05", "07", "08", "09"}, from : Nodes, to : Nodes,
            block : Blocks, hex : BOOLEAN]
Msg(method, from, to, b, hex) ==
    [method |-> method, from |-> from, to |-> to, block |-> b, hex |-> hex]

\* Mutant of Broadcast: the hash is an integer before the message is written.
BroadcastSealed(method, n, b) == {Msg(method, n, p, b, FALSE) : p \in Nodes \ {n}}

\* pm.broadcast: a copy for every peer, serialized on the spot (json.dumps).
Broadcast(method, n, b) == {Msg(method, n, p, b, TRUE) : p \in Nodes \ {n}}

Init ==
    /\ temp = [n \in Nodes |-> [b \in Blocks |-> NoEntry]]
    /\ alive = Nodes
    /\ db = [n \in Nodes |-> [b \in Blocks |-> 0]]
    /\ net = {}
    /\ published = [n \in Nodes |-> [b \in Blocks |-> 0]]
    /\ signed = {}
    /\ asked = {} /\ lost = 0

------------------------------------------------------------------------------
(* The proposer's application *)

\* publishBlock, with a block dict of its own: an entry for the hash, whatever
\* was there before.
publishBlock(n, b) ==
    /\ published[n][b] < MaxPublish
    /\ published' = [published EXCEPT ![n][b] = @ + 1]
    /\ temp' = [temp EXCEPT ![n][b] = Fresh]
    /\ net' = net \cup Broadcast("05", n, b)
    /\ UNCHANGED <<alive, db, signed, asked, lost>>

------------------------------------------------------------------------------
(* consensusMgr.run: one message.  The network may deliver it again (dup). *)

Delivered(m, dup) == IF dup THEN net ELSE net \ {m}

\* 05: sign the hash and answer the sender.
Sign(m, dup) ==
    /\ m.method = "05" /\ m.to \in alive /\ m.hex
    /\ net' = Delivered(m, dup) \cup {Msg("07", m.to, m.from, m.block, TRUE)}
    /\ signed' = signed \cup {[signer |-> m.to, block |-> m.block]}
    /\ UNCHANGED <<temp, alive, db, published, asked, lost>>

\* 05 with an integer hash: signdata raises, which ends the greenlet.
SignFails(m) ==
    /\ m.method = "05" /\ m.to \in alive /\ ~m.hex
    /\ net' = net \ {m}
    /\ alive' = alive \ {m.to}
    /\ UNCHANGED <<temp, db, published, signed, asked, lost>>

\* Mutants of Counts: a check of vote is missing.
CountsWhenSealed(n, v, b) ==
    temp[n][b].proposed /\ v \notin Range(temp[n][b].voters)
CountsTwice(n, v, b) == temp[n][b].proposed /\ ~temp[n][b].agreed

\* The vote counts: the hash is proposed here, the sender has not voted and the
\* block is not sealed.
Counts(n, v, b) ==
    /\ temp[n][b].proposed
    /\ v \notin Range(temp[n][b].voters)
    /\ ~temp[n][b].agreed

\* Mutant of Enough: more than the threshold is required.
MoreThanEnough(voters) == Len(voters) > threshold

Enough(voters) == Len(voters) >= threshold

\* 07: vote.  Reaching the threshold seals the block in the same step: agreed,
\* message 08, an integer hash, createBlock.
Vote(m, dup) ==
    /\ m.method = "07" /\ m.to \in alive
    /\ LET n == m.to
           b == m.block
           voters == Append(temp[n][b].voters, m.from)
           seal == Counts(n, m.from, b) /\ Enough(voters)
       IN /\ temp' = IF Counts(n, m.from, b)
                     THEN [temp EXCEPT ![n][b] = [@ EXCEPT !.voters = voters,
                                                           !.agreed = seal]]
                     ELSE temp
          /\ db' = IF seal THEN [db EXCEPT ![n][b] = @ + 1] ELSE db
          /\ net' = Delivered(m, dup) \cup
                      (IF seal THEN Broadcast("08", n, b) ELSE {})
    /\ UNCHANGED <<alive, published, signed, asked, lost>>

\* 08: the sealed block is printed and dropped.
Sealed(m) ==
    /\ m.method = "08" /\ m.to \in alive
    /\ net' = net \ {m}
    /\ UNCHANGED <<temp, alive, db, published, signed, asked, lost>>

\* 09: send the proposed block to the node that asks, with the hash it has now.
Answer(m, dup) ==
    /\ m.method = "09" /\ m.to \in alive /\ temp[m.to][m.block].proposed
    /\ net' = Delivered(m, dup) \cup
                {Msg("05", m.to, m.from, m.block, ~temp[m.to][m.block].agreed)}
    /\ UNCHANGED <<temp, alive, db, published, signed, asked, lost>>

\* 09 for a hash that is no key of temp: KeyError ends the greenlet.
AnswerFails(m) ==
    /\ m.method = "09" /\ m.to \in alive /\ ~temp[m.to][m.block].proposed
    /\ net' = net \ {m}
    /\ alive' = alive \ {m.to}
    /\ UNCHANGED <<temp, db, published, signed, asked, lost>>

------------------------------------------------------------------------------
(* The environment *)

Request(n, p, b) == [from |-> n, to |-> p, block |-> b]

\* A voter asks the proposer for a block (no code of the repository sends 09).
Ask(n, p, b) ==
    /\ n # p /\ asked' = asked \cup {Request(n, p, b)}
    /\ Cardinality(asked') <= MaxAsk
    /\ net' = net \cup {Msg("09", n, p, b, TRUE)}
    /\ UNCHANGED <<temp, alive, db, published, signed, lost>>

Lose(m) ==
    /\ lost < MaxLost
    /\ lost' = lost + 1
    /\ net' = net \ {m}
    /\ UNCHANGED <<temp, alive, db, published, signed, asked>>

\* consensusMgr.stop, or the end of its loop with the peer manager.
Stop(n) ==
    /\ n \in alive
    /\ alive' = alive \ {n}
    /\ UNCHANGED <<temp, db, net, published, signed, asked, lost>>

Handle(m, dup) ==
    \/ Sign(m, dup) \/ SignFails(m)
    \/ Vote(m, dup)
    \/ Sealed(m)
    \/ Answer(m, dup) \/ AnswerFails(m)

Next ==
    \/ \E n \in Proposers, b \in Blocks : publishBlock(n, b)
    \/ \E m \in net, dup \in BOOLEAN : Handle(m, dup)
    \/ \E n \in Nodes, p \in Proposers, b \in Blocks : Ask(n, p, b)
    \/ \E m \in net : Lose(m)
    \/ \E n \in Nodes : Stop(n)

Spec == Init /\ [][Next]_vars

\* A message on its way is delivered unless it is lost, and the greenlet that
\* finds it in its queue handles it.  Repetition is not relied on.
Fairness ==
    \A from, to \in Nodes, b \in Blocks, method \in {"05", "07"} :
        LET m == Msg(method, from, to, b, TRUE)
        IN WF_vars(m \in net /\ Handle(m, FALSE))
FairSpec == Spec /\ Fairness

------------------------------------------------------------------------------
(* Properties *)

TypeOK ==
    /\ temp \in [Nodes -> [Blocks -> Entry]]
    /\ alive \subseteq Nodes
    /\ db \in [Nodes -> [Blocks -> Nat]]
    /\ net \subseteq Message
    /\ published \in [Nodes -> [Blocks -> Nat]]
    /\ signed \subseteq [signer : Nodes, block : Blocks]
    /\ asked \subseteq [from : Nodes, to : Nodes, block : Blocks]
    /\ lost \in Nat

\* Duplicated and late votes, votes for an earlier publication of the same hash
\* and repeated publications never make a proposer store a block more often than
\* it published it.
SealedOncePerPublication ==
    \A n \in Nodes, b \in Blocks : db[n][b] <= published[n][b]

Signers(b) == {n \in Nodes : [signer |-> n, block |-> b] \in signed}

\* A block is stored only after threshold distinct nodes have signed it, however
\* often the network repeats a vote.
SealedByQuorum ==
    \A n \in Nodes, b \in Blocks :
        db[n][b] > 0 => Cardinality(Signers(b)) >= threshold

\* The inductive strengthening of the two properties above: an entry that is not
\* sealed has a publication of its own to be sealed for, and every voter counted,
\* once, has signed, as has the sender of every vote on its way.
VotesCounted(n, b) ==
    /\ temp[n][b].proposed /\ ~temp[n][b].agreed => db[n][b] < published[n][b]
    /\ Range(temp[n][b].voters) \subseteq Signers(b)
    /\ Cardinality(Range(temp[n][b].voters)) = Len(temp[n][b].voters)
VotesInv ==
    /\ SealedOncePerPublication /\ SealedByQuorum
    /\ \A n \in Nodes, b \in Blocks : VotesCounted(n, b)
    /\ \A m \in net : m.method = "07" => m.from \in Signers(m.block)

\* Only a new publication reopens a sealed entry: late votes leave it as it is.
SealedIsFinal ==
    [][\A n \in Nodes, b \in Blocks :
          temp[n][b].agreed => \/ temp'[n][b] = temp[n][b]
                               \/ published'[n][b] > published[n][b]]_vars

\* What the managers implement together, whatever the network does: a block is
\* stored once per publication, by the node that published it, and only after
\* threshold nodes have signed it; votes that are lost, repeated, late or for an
\* earlier publication change nothing else (node.py:303-382).
Votes == INSTANCE Sealing WITH
    open <- [n \in Nodes |-> [b \in Blocks |->
               temp[n][b].proposed /\ ~temp[n][b].agreed]],
    sealed <- db
ImplementsSealing == Votes!Spec

\* The two messages that end a manager: a request for a block it has never
\* published (KeyError, node.py:345), and a block it has itself asked for that came
\* back with the integer hash of sealing, from a node that has stored it
\* (node.py:375).
Deadly(m) ==
    \/ m.method = "09" /\ published[m.to][m.block] = 0
    \/ /\ m.method = "05" /\ Request(m.to, m.from, m.block) \in asked
       /\ db[m.from][m.block] > 0

\* Nothing else ends one but its own stop, which takes no message off the network:
\* no broadcast of a block, first or repeated, no vote however late, no sealed
\* block, no request for a block that was published, sealed or not.
EndsOnlyByAsking ==
    [][\A n \in alive : n \notin alive' =>
          \/ net' = net
          \/ \E m \in net : m.to = n /\ net' = net \ {m} /\ Deadly(m)]_vars

\* What makes it so: a published block stays in temp, a sealed one is stored,
\* requests come from asking, and a block with an integer hash answers one.
AskedFor ==
    /\ \A n \in Nodes, b \in Blocks :
          /\ published[n][b] > 0 => temp[n][b].proposed
          /\ temp[n][b].agreed => db[n][b] > 0
    /\ \A m \in net :
          /\ m.method = "09" => Request(m.from, m.to, m.block) \in asked
          /\ m.method = "05" /\ ~m.hex => /\ Request(m.to, m.from, m.block) \in asked
                                          /\ db[m.from][m.block] > 0

Undisturbed == lost = 0 /\ alive = Nodes

\* No vote is forgotten: of every node that a block not sealed yet was put to, the
\* block is on its way, or the vote, or the vote is counted; a vote for an earlier
\* publication of the same hash will do.
OnItsWay(n, v, b) ==
    Msg("05", n, v, b, TRUE) \in net \/ Msg("07", v, n, b, TRUE) \in net
NoVoteForgotten ==
    \A n \in Nodes, b \in Blocks :
        temp[n][b].proposed /\ ~temp[n][b].agreed =>
            /\ ~Enough(temp[n][b].voters)
            /\ Undisturbed =>
                  \A v \in Nodes \ {n} : OnItsWay(n, v, b) \/ v \in Range(temp[n][b].voters)

\* Nothing is sent again (node.py:353), so a block whose messages have all been
\* handled and that is not sealed would never be: with no message lost and every
\* manager alive there is none, if there are threshold nodes to vote.
QuietIsSealed ==
    /\ Undisturbed /\ Cardinality(Nodes) > threshold
    /\ \A m \in net : m.method \notin {"05", "07"}
    => \A n \in Nodes, b \in Blocks : temp[n][b].proposed => temp[n][b].agreed

\* With no message lost, every manager alive and at least threshold voters,
\* each published block is sealed.
PublishedIsSealed ==
    \A n \in Proposers, b \in Blocks :
        temp[n][b].proposed ~> (temp[n][b].agreed \/ ~Undisturbed)
==============================================================================
