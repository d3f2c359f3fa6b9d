-------------------------- MODULE Consensus_proofs --------------------------
(***************************************************************************)
(* Proofs about Consensus for every finite set of nodes, every set of      *)
(* blocks, every threshold and every bound.                                *)
(***************************************************************************)
EXTENDS Consensus, FiniteSetTheorems, SequenceTheorems, TLAPS

USE ProposersAssumption, ThresholdAssumption, BoundsAssumption

\* Every copy of a broadcast, and every single message, is well-formed.
LEMMA MessageTypes ==
    ASSUME NEW n \in Nodes, NEW b \in Blocks, NEW method \in {"05", "07", "08", "09"}
    PROVE  /\ Broadcast(method, n, b) \subseteq Message
           /\ \A p \in Nodes, hex \in BOOLEAN : Msg(method, n, p, b, hex) \in Message
<1>1. ASSUME NEW p \in Nodes, NEW hex \in BOOLEAN
      PROVE  Msg(method, n, p, b, hex) \in Message
  BY DEF Msg, Message
<1> QED
  BY <1>1 DEF Broadcast

\* A new entry of temp is well-formed.
LEMMA EntryTypes == NoEntry \in Entry /\ Fresh \in Entry
  BY EmptySeq DEF NoEntry, Fresh, Entry

------------------------------------------------------------------------------
\* Type correctness of all the managers, whatever the network does.
THEOREM TypeCorrect == Spec => []TypeOK
<1>1. Init => TypeOK
  BY EntryTypes DEF Init, TypeOK
<1>2. TypeOK /\ [Next]_vars => TypeOK'
  <2> SUFFICES ASSUME TypeOK, [Next]_vars PROVE TypeOK'
    OBVIOUS
  <2>1. ASSUME NEW n \in Proposers, NEW b \in Blocks, publishBlock(n, b)
        PROVE  TypeOK'
    <3>1. Broadcast("05", n, b) \subseteq Message /\ Fresh \in Entry
      BY MessageTypes, EntryTypes
    <3> QED
      BY <2>1, <3>1 DEF publishBlock, TypeOK
  <2>2. ASSUME NEW m \in net, NEW dup \in BOOLEAN, Handle(m, dup)
        PROVE  TypeOK'
    <3>1. m \in Message /\ m.from \in Nodes /\ m.to \in Nodes /\ m.block \in Blocks
      BY DEF TypeOK, Message
    <3>2. Delivered(m, dup) \subseteq Message
      BY DEF Delivered, TypeOK
    <3>3. CASE Sign(m, dup)
      <4>1. Msg("07", m.to, m.from, m.block, TRUE) \in Message
        BY <3>1, MessageTypes
      <4>2. net' \subseteq Message
        BY <3>2, <3>3, <4>1 DEF Sign
      <4>3. signed' \subseteq [signer : Nodes, block : Blocks]
        BY <3>1, <3>3 DEF Sign, TypeOK
      <4> QED
        BY <3>3, <4>2, <4>3 DEF Sign, TypeOK
    <3>4. CASE SignFails(m)
      BY <3>4 DEF SignFails, TypeOK
    <3>5. CASE Vote(m, dup)
      <4> DEFINE n == m.to
                 b == m.block
                 voters == Append(temp[n][b].voters, m.from)
                 seal == Counts(n, m.from, b) /\ Enough(voters)
      <4>1. voters \in Seq(Nodes) /\ seal \in BOOLEAN
        BY <3>1, AppendProperties DEF TypeOK, Entry, Counts, Enough
      <4>2. temp' \in [Nodes -> [Blocks -> Entry]]
        <5> DEFINE entry == [temp[n][b] EXCEPT !.voters = voters, !.agreed = seal]
        <5>1. entry \in Entry
          <6>1. temp[n][b] \in Entry
            BY <3>1 DEF TypeOK
          <6> HIDE DEF n, b, voters, seal
          <6> QED
            BY <4>1, <6>1 DEF Entry
        <5>2. temp' = IF Counts(n, m.from, b) THEN [temp EXCEPT ![n][b] = entry]
                                              ELSE temp
          BY <3>5 DEF Vote
        <5> QED
          BY <3>1, <5>1, <5>2 DEF TypeOK
      <4>3. net' \subseteq Message
        BY <3>1, <3>2, <3>5, MessageTypes DEF Vote
      <4>4. db' \in [Nodes -> [Blocks -> Nat]]
        <5>1. db' = IF seal THEN [db EXCEPT ![n][b] = @ + 1] ELSE db
          BY <3>5 DEF Vote
        <5> QED
          BY <3>1, <5>1 DEF TypeOK
      <4> QED
        BY <3>5, <4>2, <4>3, <4>4 DEF Vote, TypeOK
    <3>6. CASE Sealed(m)
      BY <3>6 DEF Sealed, TypeOK
    <3>7. CASE Answer(m, dup)
      <4>1. (~temp[m.to][m.block].agreed) \in BOOLEAN
        OBVIOUS
      <4>2. Msg("05", m.to, m.from, m.block, ~temp[m.to][m.block].agreed) \in Message
        BY <3>1, <4>1, MessageTypes
      <4> QED
        BY <3>2, <3>7, <4>2 DEF Answer, TypeOK
    <3>8. CASE AnswerFails(m)
      BY <3>8 DEF AnswerFails, TypeOK
    <3> QED
      BY <2>2, <3>3, <3>4, <3>5, <3>6, <3>7, <3>8 DEF Handle
  <2>3. ASSUME NEW n \in Nodes, NEW p \in Proposers, NEW b \in Blocks, Ask(n, p, b)
        PROVE  TypeOK'
    <3>1. Msg("09", n, p, b, TRUE) \in Message
      BY MessageTypes
    <3>2. asked' \subseteq [from : Nodes, to : Nodes, block : Blocks]
      BY <2>3 DEF Ask, Request, TypeOK
    <3> QED
      BY <2>3, <3>1, <3>2 DEF Ask, TypeOK
  <2>4. ASSUME NEW m \in net, Lose(m) PROVE TypeOK'
    BY <2>4 DEF Lose, TypeOK
  <2>5. ASSUME NEW n \in Nodes, Stop(n) PROVE TypeOK'
    BY <2>5 DEF Stop, TypeOK
  <2>6. CASE UNCHANGED vars
    BY <2>6 DEF vars, TypeOK
  <2> QED
    BY <2>1, <2>2, <2>3, <2>4, <2>5, <2>6 DEF Next
<1> QED
  BY <1>1, <1>2, PTL DEF Spec

------------------------------------------------------------------------------
(* The inductive invariant *)

\* A voter more is a member more.
LEMMA RangeOfAppend ==
    ASSUME NEW s \in Seq(Nodes), NEW v \in Nodes
    PROVE  Range(Append(s, v)) = Range(s) \cup {v}
<1>1. /\ DOMAIN s = 1..Len(s) /\ DOMAIN Append(s, v) = 1..(Len(s) + 1)
      /\ Len(s) \in Nat
  BY AppendProperties, LenProperties
<1>2. /\ \A i \in 1..Len(s) : Append(s, v)[i] = s[i]
      /\ Append(s, v)[Len(s) + 1] = v
  BY AppendProperties
<1>3. \A i \in 1..(Len(s) + 1) : i \in 1..Len(s) \/ i = Len(s) + 1
  BY <1>1
<1>4. ASSUME NEW i \in DOMAIN Append(s, v) PROVE Append(s, v)[i] \in Range(s) \cup {v}
  BY <1>1, <1>2, <1>3 DEF Range
<1>5. ASSUME NEW i \in DOMAIN s PROVE s[i] \in Range(Append(s, v))
  <2>1. i \in DOMAIN Append(s, v) /\ Append(s, v)[i] = s[i]
    BY <1>1, <1>2
  <2> QED
    BY <2>1 DEF Range
<1>6. v \in Range(Append(s, v))
  <2>1. Len(s) + 1 \in DOMAIN Append(s, v)
    BY <1>1
  <2> QED
    BY <1>2, <2>1 DEF Range
<1> QED
  BY <1>4, <1>5, <1>6 DEF Range

\* One more voter, not counted before: the voters stay distinct.
LEMMA OneMoreVoter ==
    ASSUME NEW s \in Seq(Nodes), NEW v \in Nodes, v \notin Range(s),
           Cardinality(Range(s)) = Len(s)
    PROVE  /\ Range(Append(s, v)) = Range(s) \cup {v}
           /\ Cardinality(Range(Append(s, v))) = Len(Append(s, v))
<1>1. Range(Append(s, v)) = Range(s) \cup {v}
  BY RangeOfAppend
<1>2. IsFiniteSet(Range(s))
  <2>1. Range(s) \subseteq Nodes
    BY ElementOfSeq, LenProperties DEF Range
  <2> QED
    BY <2>1, NodesAssumption, FS_Subset
<1>3. Cardinality(Range(s) \cup {v}) = Len(s) + 1
  BY <1>2, FS_AddElement
<1> QED
  BY <1>1, <1>3, AppendProperties

\* Signers are nodes, so there are finitely many; more signatures never make
\* them fewer.
LEMMA SignersGrow ==
    ASSUME NEW b, signed \subseteq signed'
    PROVE  /\ Signers(b) \subseteq Signers(b)'
           /\ Cardinality(Signers(b)) \in Nat /\ Cardinality(Signers(b)') \in Nat
           /\ Cardinality(Signers(b)) <= Cardinality(Signers(b)')
<1>1. Signers(b) \subseteq Signers(b)' /\ Signers(b)' \subseteq Nodes
  BY DEF Signers
<1>2. IsFiniteSet(Signers(b)') /\ IsFiniteSet(Signers(b))
  BY <1>1, NodesAssumption, FS_Subset
<1> QED
  BY <1>1, <1>2, FS_Subset, FS_CardinalityType

\* What a step leaves as it was keeps its part of the invariant.
LEMMA UntouchedEntry ==
    ASSUME NEW n \in Nodes, NEW b \in Blocks, VotesCounted(n, b),
           temp'[n][b] = temp[n][b], db'[n][b] = db[n][b],
           published'[n][b] = published[n][b], signed \subseteq signed'
    PROVE  VotesCounted(n, b)'
<1>1. Signers(b) \subseteq Signers(b)'
  BY SignersGrow
<1> QED
  BY <1>1 DEF VotesCounted

\* The votes on their way have their signatures, if those added have them.
LEMMA VotesOnTheirWay ==
    ASSUME VotesInv, signed \subseteq signed',
           \A m \in net' \ net : m.method = "07" => m.from \in Signers(m.block)'
    PROVE  \A m \in net' : m.method = "07" => m.from \in Signers(m.block)'
<1>1. ASSUME NEW m \in net', m.method = "07" PROVE m.from \in Signers(m.block)'
  <2>1. CASE m \in net
    BY <1>1, <2>1, SignersGrow DEF VotesInv
  <2>2. CASE m \notin net
    BY <1>1, <2>2
  <2> QED
    BY <2>1, <2>2
<1> QED
  BY <1>1

\* A step that touches neither entries, stores nor publications, and sends no
\* vote that is not signed, keeps the invariant.
LEMMA QuietStep ==
    ASSUME VotesInv, signed \subseteq signed', UNCHANGED <<temp, db, published>>,
           \A m \in net' \ net : m.method = "07" => m.from \in Signers(m.block)'
    PROVE  VotesInv'
<1>1. SealedOncePerPublication'
  BY DEF VotesInv, SealedOncePerPublication
<1>2. SealedByQuorum'
  <2> SUFFICES ASSUME NEW n \in Nodes, NEW b \in Blocks, db[n][b] > 0
               PROVE  Cardinality(Signers(b)') >= threshold
    BY DEF SealedByQuorum
  <2>1. Cardinality(Signers(b)) >= threshold
    BY DEF VotesInv, SealedByQuorum
  <2> QED
    BY <2>1, SignersGrow
<1>3. \A n \in Nodes, b \in Blocks : VotesCounted(n, b)'
  BY UntouchedEntry DEF VotesInv
<1> QED
  BY <1>1, <1>2, <1>3, VotesOnTheirWay DEF VotesInv

\* A broadcast of a block or of a seal holds no vote.
LEMMA BroadcastHasNoVote ==
    ASSUME NEW n, NEW b, NEW method \in {"05", "08"}
    PROVE  \A m \in Broadcast(method, n, b) : m.method # "07"
  BY DEF Broadcast, Msg

\* A vote that counts makes one more distinct signer; enough of them are a quorum.
LEMMA CountedVote ==
    ASSUME TypeOK, VotesInv, NEW m \in net, m.method = "07",
           Counts(m.to, m.from, m.block)
    PROVE  LET voters == Append(temp[m.to][m.block].voters, m.from)
           IN  /\ Range(voters) \subseteq Signers(m.block)
               /\ Cardinality(Range(voters)) = Len(voters)
               /\ Enough(voters) => Cardinality(Signers(m.block)) >= threshold
<1> DEFINE s == temp[m.to][m.block].voters
           voters == Append(s, m.from)
<1>1. m.from \in Nodes /\ m.to \in Nodes /\ m.block \in Blocks
  BY DEF TypeOK, Message
<1>2. s \in Seq(Nodes) /\ m.from \notin Range(s)
  BY <1>1 DEF TypeOK, Entry, Counts
<1>3. Range(s) \subseteq Signers(m.block) /\ Cardinality(Range(s)) = Len(s)
  BY <1>1 DEF VotesInv, VotesCounted
<1>4. m.from \in Signers(m.block)
  BY DEF VotesInv
<1> HIDE DEF s
<1>5. Range(voters) \subseteq Signers(m.block) /\ Cardinality(Range(voters)) = Len(voters)
  BY <1>1, <1>2, <1>3, <1>4, OneMoreVoter
<1>6. IsFiniteSet(Signers(m.block))
  BY NodesAssumption, FS_Subset DEF Signers
<1>7. /\ Cardinality(Range(voters)) <= Cardinality(Signers(m.block))
      /\ Cardinality(Signers(m.block)) \in Nat /\ Len(voters) \in Nat
  BY <1>1, <1>2, <1>5, <1>6, FS_Subset, FS_CardinalityType, AppendProperties, LenProperties
<1> QED
  BY <1>5, <1>7 DEF Enough, s

\* The inductive invariant.
THEOREM VotesInvariant == Spec => [](TypeOK /\ VotesInv)
<1>1. Init => VotesInv
  <2> SUFFICES ASSUME Init PROVE VotesInv
    OBVIOUS
  <2>1. ASSUME NEW n \in Nodes, NEW b \in Blocks
        PROVE  /\ VotesCounted(n, b)
               /\ db[n][b] = 0 /\ published[n][b] = 0
    <3>1. temp[n][b] = NoEntry /\ db[n][b] = 0 /\ published[n][b] = 0
      BY DEF Init
    <3>2. ~temp[n][b].proposed /\ temp[n][b].voters = <<>>
      BY <3>1 DEF NoEntry
    <3>3. Range(temp[n][b].voters) = {} /\ Len(temp[n][b].voters) = 0
      BY <3>2 DEF Range
    <3>4. Cardinality(Range(temp[n][b].voters)) = 0
      BY <3>3, FS_EmptySet
    <3> QED
      BY <3>1, <3>2, <3>3, <3>4 DEF VotesCounted
  <2>2. SealedOncePerPublication /\ SealedByQuorum
    BY <2>1 DEF SealedOncePerPublication, SealedByQuorum
  <2>3. net = {}
    BY DEF Init
  <2> QED
    BY <2>1, <2>2, <2>3 DEF VotesInv
<1>2. TypeOK /\ VotesInv /\ [Next]_vars => VotesInv'
  <2> SUFFICES ASSUME TypeOK, VotesInv, [Next]_vars PROVE VotesInv'
    OBVIOUS
  <2>1. ASSUME NEW n \in Proposers, NEW b \in Blocks, publishBlock(n, b)
        PROVE  VotesInv'
    <3>1. n \in Nodes
      OBVIOUS
    <3>2. /\ temp' = [temp EXCEPT ![n][b] = Fresh]
          /\ published' = [published EXCEPT ![n][b] = @ + 1]
          /\ db' = db /\ signed' = signed
          /\ net' = net \cup Broadcast("05", n, b)
      BY <2>1 DEF publishBlock
    <3>3. /\ temp'[n][b] = Fresh
          /\ published'[n][b] = published[n][b] + 1
          /\ \A p \in Nodes, c \in Blocks :
                p # n \/ c # b => /\ temp'[p][c] = temp[p][c]
                                  /\ published'[p][c] = published[p][c]
      BY <3>1, <3>2 DEF TypeOK
    <3>4. \A p \in Nodes, c \in Blocks :
             published[p][c] \in Nat /\ db[p][c] \in Nat /\ db[p][c] <= published[p][c]
      BY DEF TypeOK, VotesInv, SealedOncePerPublication
    <3>5. SealedOncePerPublication'
      <4> SUFFICES ASSUME NEW p \in Nodes, NEW c \in Blocks
                   PROVE  db'[p][c] <= published'[p][c]
        BY DEF SealedOncePerPublication
      <4>1. db'[p][c] <= published[p][c] /\ published[p][c] \in Nat /\ db'[p][c] \in Nat
        BY <3>2, <3>4
      <4>2. published'[p][c] = published[p][c] \/ published'[p][c] = published[p][c] + 1
        BY <3>3
      <4> QED
        BY <4>1, <4>2
    <3>6. SealedByQuorum'
      BY <3>2 DEF VotesInv, SealedByQuorum, Signers
    <3>7. VotesCounted(n, b)'
      <4>1. Range(Fresh.voters) = {} /\ Len(Fresh.voters) = 0
        BY DEF Fresh, Range
      <4>2. db'[n][b] < published'[n][b]
        BY <3>1, <3>2, <3>3, <3>4
      <4> QED
        BY <3>3, <4>1, <4>2, FS_EmptySet DEF VotesCounted
    <3>8. \A p \in Nodes, c \in Blocks : VotesCounted(p, c)'
      BY <3>2, <3>3, <3>7, UntouchedEntry DEF VotesInv
    <3>9. \A m \in net' : m.method = "07" => m.from \in Signers(m.block)'
      BY <3>2, BroadcastHasNoVote, VotesOnTheirWay
    <3> QED
      BY <3>5, <3>6, <3>8, <3>9 DEF VotesInv
  <2>2. ASSUME NEW m \in net, NEW dup \in BOOLEAN, Handle(m, dup)
        PROVE  VotesInv'
    <3>1. m.from \in Nodes /\ m.to \in Nodes /\ m.block \in Blocks
      BY DEF TypeOK, Message
    <3>2. Delivered(m, dup) \subseteq net
      BY DEF Delivered
    <3>3. CASE Sign(m, dup)
      <4>1. m.to \in Signers(m.block)'
        BY <3>1, <3>3 DEF Sign, Signers
      <4>2. \A k \in net' \ net : k.from = m.to /\ k.block = m.block
        BY <3>2, <3>3 DEF Sign, Msg
      <4> QED
        BY <3>3, <4>1, <4>2, QuietStep DEF Sign
    <3>4. CASE SignFails(m)
      BY <3>4, QuietStep DEF SignFails
    <3>5. CASE Vote(m, dup) /\ ~Counts(m.to, m.from, m.block)
      BY <3>2, <3>5, QuietStep DEF Vote
    <3>6. CASE Vote(m, dup) /\ Counts(m.to, m.from, m.block)
      <4> DEFINE n == m.to
                 b == m.block
                 voters == Append(temp[n][b].voters, m.from)
                 entry == [temp[n][b] EXCEPT !.voters = voters,
                                             !.agreed = Enough(voters)]
      <4>1. /\ temp' = [temp EXCEPT ![n][b] = entry]
            /\ db' = IF Enough(voters) THEN [db EXCEPT ![n][b] = @ + 1] ELSE db
            /\ net' = Delivered(m, dup) \cup
                        (IF Enough(voters) THEN Broadcast("08", n, b) ELSE {})
            /\ published' = published /\ signed' = signed
        <5>1. (Counts(n, m.from, b) /\ Enough(voters)) = Enough(voters)
          BY <3>6 DEF Enough
        <5>2. temp' = [temp EXCEPT ![n][b] =
                         [@ EXCEPT !.voters = voters,
                                   !.agreed = Counts(n, m.from, b) /\ Enough(voters)]]
          BY <3>6 DEF Vote
        <5>3. temp' = [temp EXCEPT ![n][b] = entry]
          BY <5>1, <5>2
        <5> QED
          BY <3>6, <5>3 DEF Vote
      <4>2. /\ temp[n][b] \in Entry
            /\ db \in [Nodes -> [Blocks -> Nat]]
            /\ published \in [Nodes -> [Blocks -> Nat]]
            /\ temp \in [Nodes -> [Blocks -> Entry]]
        BY <3>1 DEF TypeOK
      <4>3. /\ temp'[n][b].voters = voters
            /\ temp'[n][b].agreed = Enough(voters)
        BY <3>1, <4>1, <4>2 DEF Entry
      <4>4. \A p \in Nodes, c \in Blocks :
               p # n \/ c # b => temp'[p][c] = temp[p][c] /\ db'[p][c] = db[p][c]
        BY <3>1, <4>1, <4>2
      <4>5. db'[n][b] = IF Enough(voters) THEN db[n][b] + 1 ELSE db[n][b]
        BY <3>1, <4>1, <4>2
      <4>6. db[n][b] < published[n][b]
        BY <3>1, <3>6 DEF VotesInv, VotesCounted, Counts
      <4>7. /\ Range(voters) \subseteq Signers(b)
            /\ Cardinality(Range(voters)) = Len(voters)
            /\ Enough(voters) => Cardinality(Signers(b)) >= threshold
        BY <3>6, CountedVote DEF Vote
      <4> HIDE DEF n, b, voters, entry
      <4>9. SealedOncePerPublication'
        <5> SUFFICES ASSUME NEW p \in Nodes, NEW c \in Blocks
                     PROVE  db'[p][c] <= published[p][c]
          BY <4>1 DEF SealedOncePerPublication
        <5>1. db[p][c] <= published[p][c] /\ db[p][c] \in Nat /\ published[p][c] \in Nat
          BY <4>2 DEF VotesInv, SealedOncePerPublication
        <5>2. CASE p = n /\ c = b
          BY <4>5, <4>6, <5>1, <5>2
        <5>3. CASE p # n \/ c # b
          BY <4>4, <5>1, <5>3
        <5> QED
          BY <5>2, <5>3
      <4>10. SealedByQuorum'
        <5> SUFFICES ASSUME NEW p \in Nodes, NEW c \in Blocks, db'[p][c] > 0
                     PROVE  Cardinality(Signers(c)) >= threshold
          BY <4>1 DEF SealedByQuorum, Signers
        <5>1. CASE db[p][c] > 0
          BY <5>1 DEF VotesInv, SealedByQuorum
        <5>2. CASE ~(db[p][c] > 0)
          <6>1. p = n /\ c = b
            BY <4>4, <5>2
          <6> QED
            BY <4>5, <4>7, <5>2, <6>1
        <5> QED
          BY <5>1, <5>2
      <4>11. VotesCounted(n, b)'
        <5>1. Signers(b)' = Signers(b)
          BY <4>1 DEF Signers
        <5>2. ~Enough(voters) => db'[n][b] < published'[n][b]
          BY <4>1, <4>5, <4>6
        <5> QED
          BY <4>3, <4>7, <5>1, <5>2 DEF VotesCounted
      <4>12. \A p \in Nodes, c \in Blocks : VotesCounted(p, c)'
        BY <4>1, <4>4, <4>11, UntouchedEntry DEF VotesInv
      <4>13. \A k \in net' : k.method = "07" => k.from \in Signers(k.block)'
        BY <3>2, <4>1, BroadcastHasNoVote, VotesOnTheirWay
      <4> QED
        BY <4>9, <4>10, <4>12, <4>13 DEF VotesInv
    <3>7. CASE Sealed(m)
      BY <3>7, QuietStep DEF Sealed
    <3>8. CASE Answer(m, dup)
      <4>1. \A k \in net' \ net : k.method # "07"
        BY <3>2, <3>8 DEF Answer, Msg
      <4> QED
        BY <3>8, <4>1, QuietStep DEF Answer
    <3>9. CASE AnswerFails(m)
      BY <3>9, QuietStep DEF AnswerFails
    <3> QED
      BY <2>2, <3>3, <3>4, <3>5, <3>6, <3>7, <3>8, <3>9 DEF Handle
  <2>3. ASSUME NEW n \in Nodes, NEW p \in Proposers, NEW b \in Blocks, Ask(n, p, b)
        PROVE  VotesInv'
    <3>1. \A k \in net' \ net : k.method # "07"
      BY <2>3 DEF Ask, Msg
    <3> QED
      BY <2>3, <3>1, QuietStep DEF Ask
  <2>4. ASSUME NEW m \in net, Lose(m) PROVE VotesInv'
    BY <2>4, QuietStep DEF Lose
  <2>5. ASSUME NEW n \in Nodes, Stop(n) PROVE VotesInv'
    BY <2>5, QuietStep DEF Stop
  <2>6. CASE UNCHANGED vars
    BY <2>6, QuietStep DEF vars
  <2> QED
    BY <2>1, <2>2, <2>3, <2>4, <2>5, <2>6 DEF Next
<1> QED
  BY <1>1, <1>2, TypeCorrect, PTL DEF Spec

------------------------------------------------------------------------------
\* A proposer stores a block at most once for each time it published it
\* (node.py:364-376).
THEOREM SealedOnce == Spec => []SealedOncePerPublication
<1>1. VotesInv => SealedOncePerPublication
  BY DEF VotesInv
<1> QED
  BY <1>1, VotesInvariant, PTL

\* A stored block was signed by threshold distinct nodes (node.py:368-370).
THEOREM SealedByEnough == Spec => []SealedByQuorum
<1>1. VotesInv => SealedByQuorum
  BY DEF VotesInv
<1> QED
  BY <1>1, VotesInvariant, PTL

\* A sealed entry stays as it is until the hash is published again.
THEOREM SealStays == Spec => SealedIsFinal
<1> DEFINE Final ==
      \A n \in Nodes, b \in Blocks :
         temp[n][b].agreed => \/ temp'[n][b] = temp[n][b]
                              \/ published'[n][b] > published[n][b]
<1>1. TypeOK /\ [Next]_vars => [Final]_vars
  <2> SUFFICES ASSUME TypeOK, Next, NEW n \in Nodes, NEW b \in Blocks,
                      temp[n][b].agreed
               PROVE  \/ temp'[n][b] = temp[n][b]
                      \/ published'[n][b] > published[n][b]
    OBVIOUS
  <2>1. ASSUME NEW p \in Proposers, NEW c \in Blocks, publishBlock(p, c)
        PROVE  \/ temp'[n][b] = temp[n][b]
               \/ published'[n][b] > published[n][b]
    <3>1. CASE p = n /\ c = b
      BY <2>1, <3>1 DEF publishBlock, TypeOK
    <3>2. CASE p # n \/ c # b
      BY <2>1, <3>2 DEF publishBlock, TypeOK
    <3> QED
      BY <3>1, <3>2
  <2>2. ASSUME NEW m \in net, NEW dup \in BOOLEAN, Vote(m, dup)
        PROVE  temp'[n][b] = temp[n][b]
    <3>1. m.to \in Nodes /\ m.block \in Blocks
      BY DEF TypeOK, Message
    <3>2. CASE Counts(m.to, m.from, m.block)
      <4>1. m.to # n \/ m.block # b
        BY <3>2 DEF Counts
      <4> QED
        BY <2>2, <3>1, <4>1 DEF Vote, TypeOK
    <3>3. CASE ~Counts(m.to, m.from, m.block)
      BY <2>2, <3>3 DEF Vote
    <3> QED
      BY <3>2, <3>3
  <2>3. ASSUME NEW m \in net, NEW dup \in BOOLEAN, Handle(m, dup)
        PROVE  temp'[n][b] = temp[n][b]
    BY <2>2, <2>3 DEF Handle, Sign, SignFails, Sealed, Answer, AnswerFails
  <2> QED
    BY <2>1, <2>3 DEF Next, Ask, Lose, Stop
<1> QED
  BY <1>1, TypeCorrect, PTL DEF Spec, SealedIsFinal

------------------------------------------------------------------------------
(* The managers implement Sealing *)

\* What an entry of temp says of its block: put to the vote, not sealed.
Open(t) == [n \in Nodes |-> [b \in Blocks |-> t[n][b].proposed /\ ~t[n][b].agreed]]

OpenExcept(n, b, v) == [Open(temp) EXCEPT ![n][b] = v]

LEMMA OpenChange ==
    ASSUME NEW n \in Nodes, NEW b \in Blocks, NEW v,
           (temp'[n][b].proposed /\ ~temp'[n][b].agreed) = v,
           \A p \in Nodes, c \in Blocks : p # n \/ c # b => temp'[p][c] = temp[p][c]
    PROVE  Open(temp') = OpenExcept(n, b, v)
<1> DEFINE E == [Open(temp) EXCEPT ![n][b] = v]
<1>1. \A p \in Nodes, c \in Blocks :
         E[p][c] = IF p = n /\ c = b THEN v ELSE temp[p][c].proposed /\ ~temp[p][c].agreed
  BY DEF Open
<1>2. \A p \in Nodes : E[p] = [c \in Blocks |-> E[p][c]]
  BY DEF Open
<1>3. E = [p \in Nodes |-> E[p]]
  BY DEF Open
<1> HIDE DEF E
<1>4. \A p \in Nodes, c \in Blocks : E[p][c] = (temp'[p][c].proposed /\ ~temp'[p][c].agreed)
  BY <1>1
<1>5. Open(temp') = E
  BY <1>2, <1>3, <1>4 DEF Open
<1> QED
  BY <1>5 DEF E, OpenExcept

LEMMA SealingStep == TypeOK /\ VotesInv /\ [Next]_vars => [Votes!Next]_(Votes!vars)
<1> SUFFICES ASSUME TypeOK, VotesInv, [Next]_vars
             PROVE  Votes!Next \/ UNCHANGED Votes!vars
  OBVIOUS
<1>1. ASSUME UNCHANGED <<temp, db, signed>>
      PROVE  UNCHANGED Votes!vars
  BY <1>1 DEF Votes!vars
<1>2. ASSUME NEW n \in Proposers, NEW b \in Blocks, publishBlock(n, b)
      PROVE  Votes!Next
  <2>1. n \in Nodes /\ temp' = [temp EXCEPT ![n][b] = Fresh]
        /\ UNCHANGED <<db, signed>>
    BY <1>2 DEF publishBlock
  <2>2. Fresh.proposed = TRUE /\ Fresh.agreed = FALSE
    BY DEF Fresh
  <2>3. \A p \in Nodes, c \in Blocks :
           temp'[p][c] = IF p = n /\ c = b THEN Fresh ELSE temp[p][c]
    BY <2>1 DEF TypeOK
  <2>4. Open(temp') = OpenExcept(n, b, TRUE)
    <3>1. (temp'[n][b].proposed /\ ~temp'[n][b].agreed) = TRUE
      BY <2>1, <2>2, <2>3
    <3>2. \A p \in Nodes, c \in Blocks : p # n \/ c # b => temp'[p][c] = temp[p][c]
      BY <2>3
    <3> QED
      BY <2>1, <3>1, <3>2, OpenChange
  <2>5. Votes!Publish(n, b)
    BY <2>1, <2>4 DEF Votes!Publish, Open, OpenExcept
  <2> QED
    BY <2>1, <2>5 DEF Votes!Next
<1>3. ASSUME NEW m \in net, NEW dup \in BOOLEAN, Handle(m, dup)
      PROVE  Votes!Next \/ UNCHANGED Votes!vars
  <2>1. m.from \in Nodes /\ m.to \in Nodes /\ m.block \in Blocks
    BY DEF TypeOK, Message
  <2>2. CASE Sign(m, dup)
    <3>1. Votes!Sign(m.to, m.block)
      BY <2>2 DEF Sign, Votes!Sign
    <3> QED
      BY <2>1, <3>1 DEF Votes!Next
  <2>3. CASE SignFails(m) \/ Sealed(m) \/ Answer(m, dup) \/ AnswerFails(m)
    BY <1>1, <2>3 DEF SignFails, Sealed, Answer, AnswerFails
  <2>4. CASE Vote(m, dup)
    <3> DEFINE n == m.to
               b == m.block
               voters == Append(temp[n][b].voters, m.from)
    <3>1. CASE ~Counts(n, m.from, b)
      BY <1>1, <2>4, <3>1 DEF Vote
    <3>2. CASE Counts(n, m.from, b)
      <4> DEFINE entry == [temp[n][b] EXCEPT !.voters = voters, !.agreed = Enough(voters)]
      <4>1. temp' = [temp EXCEPT ![n][b] = entry]
        <5>1. (Counts(n, m.from, b) /\ Enough(voters)) = Enough(voters)
          BY <3>2 DEF Enough
        <5>2. temp' = [temp EXCEPT ![n][b] =
                         [@ EXCEPT !.voters = voters,
                                   !.agreed = Counts(n, m.from, b) /\ Enough(voters)]]
          BY <2>4, <3>2 DEF Vote
        <5> QED
          BY <5>1, <5>2
      <4>2. /\ db' = IF Enough(voters) THEN [db EXCEPT ![n][b] = @ + 1] ELSE db
            /\ signed' = signed
        BY <2>4, <3>2 DEF Vote
      <4>3. temp[n][b] \in Entry /\ temp \in [Nodes -> [Blocks -> Entry]]
        BY <2>1 DEF TypeOK
      <4>4. entry.proposed = temp[n][b].proposed /\ entry.agreed = Enough(voters)
        BY <4>3 DEF Entry
      <4>5. temp[n][b].proposed = TRUE /\ temp[n][b].agreed = FALSE
        BY <3>2, <4>3 DEF Counts, Entry
      <4>6. Enough(voters) => Cardinality(Signers(b)) >= threshold
        BY <2>4, <3>2, CountedVote DEF Vote
      <4> HIDE DEF entry, voters
      <4>7. \A p \in Nodes, c \in Blocks :
               temp'[p][c] = IF p = n /\ c = b THEN entry ELSE temp[p][c]
        BY <2>1, <4>1, <4>3
      <4>8. CASE Enough(voters)
        <5>1. Open(temp') = OpenExcept(n, b, FALSE) /\ Open(temp)[n][b]
          <6>1. (temp'[n][b].proposed /\ ~temp'[n][b].agreed) = FALSE
            BY <2>1, <4>4, <4>7, <4>8
          <6>2. Open(temp') = OpenExcept(n, b, FALSE)
            <7>1. \A p \in Nodes, c \in Blocks :
                     p # n \/ c # b => temp'[p][c] = temp[p][c]
              BY <4>7
            <7> QED
              BY <2>1, <6>1, <7>1, OpenChange
          <6> QED
            BY <2>1, <4>5, <6>2 DEF Open
        <5>2. Votes!Cardinality(Votes!Signers(b)) = Cardinality(Signers(b))
          BY DEF Cardinality, Votes!Cardinality, Signers, Votes!Signers
        <5>3. Votes!Seal(n, b)
          BY <2>1, <4>2, <4>6, <4>8, <5>1, <5>2 DEF Votes!Seal, Open, OpenExcept
        <5> QED
          BY <2>1, <5>3 DEF Votes!Next
      <4>9. CASE ~Enough(voters)
        <5>1. Open(temp') = Open(temp)
          <6>1. \A p \in Nodes, c \in Blocks :
                   (temp'[p][c].proposed /\ ~temp'[p][c].agreed)
                     = (temp[p][c].proposed /\ ~temp[p][c].agreed)
            BY <4>4, <4>5, <4>7, <4>9
          <6> QED
            BY <6>1 DEF Open
        <5> QED
          BY <4>2, <4>9, <5>1 DEF Votes!vars, Open
      <4> QED
        BY <4>8, <4>9
    <3> QED
      BY <3>1, <3>2
  <2> QED
    BY <1>3, <2>2, <2>3, <2>4 DEF Handle
<1>4. CASE (\E n \in Nodes, p \in Proposers, b \in Blocks : Ask(n, p, b))
            \/ (\E m \in net : Lose(m)) \/ (\E n \in Nodes : Stop(n)) \/ UNCHANGED vars
  BY <1>1, <1>4 DEF Ask, Lose, Stop, vars
<1> QED
  BY <1>2, <1>3, <1>4 DEF Next

\* For every network of nodes, every threshold and whatever the network does to
\* the votes, the managers together do no more than Sealing says.
THEOREM ManagersImplementSealing == Spec => ImplementsSealing
<1>1. Init => Votes!Init
  <2> SUFFICES ASSUME Init PROVE Votes!Init
    OBVIOUS
  <2>1. ASSUME NEW n \in Nodes, NEW b \in Blocks
        PROVE  (temp[n][b].proposed /\ ~temp[n][b].agreed) = FALSE
    BY DEF Init, NoEntry
  <2> QED
    BY <2>1 DEF Init, Votes!Init
<1> QED
  BY <1>1, SealingStep, VotesInvariant, PTL DEF Spec, ImplementsSealing, Votes!Spec

------------------------------------------------------------------------------
(* What can end a manager *)

\* The parts of AskedFor: about the entries, and about one message.
EntriesKept(n, b) ==
    /\ published[n][b] > 0 => temp[n][b].proposed
    /\ temp[n][b].agreed => db[n][b] > 0
Accounted(m) ==
    /\ m.method = "09" => Request(m.from, m.to, m.block) \in asked
    /\ m.method = "05" /\ ~m.hex => /\ Request(m.to, m.from, m.block) \in asked
                                    /\ db[m.from][m.block] > 0

LEMMA AskedForParts ==
    AskedFor <=> /\ \A n \in Nodes, b \in Blocks : EntriesKept(n, b)
                 /\ \A m \in net : Accounted(m)
  BY DEF AskedFor, EntriesKept, Accounted

\* A message that is accounted for stays so: requests are not forgotten, and what
\* is stored stays stored.
LEMMA StillAccounted ==
    ASSUME TypeOK, NEW m \in net, Accounted(m), asked \subseteq asked',
           \A n \in Nodes, b \in Blocks : db[n][b] > 0 => db'[n][b] > 0
    PROVE  Accounted(m)'
<1>1. m.from \in Nodes /\ m.block \in Blocks
  BY DEF TypeOK, Message
<1> QED
  BY <1>1 DEF Accounted, Request

\* What a node broadcasts of itself asks for nothing and has the hash in hex.
LEMMA BroadcastAccounted ==
    ASSUME NEW n, NEW b, NEW method \in {"05", "08"}, NEW m \in Broadcast(method, n, b)
    PROVE  Accounted(m)'
<1>1. m.method \in {"05", "08"} /\ m.hex = TRUE
  BY DEF Broadcast, Msg
<1> QED
  BY <1>1 DEF Accounted

LEMMA AskedForStep == TypeOK /\ AskedFor /\ [Next]_vars => AskedFor'
<1> SUFFICES ASSUME TypeOK, AskedFor, [Next]_vars
             PROVE  AskedFor'
  OBVIOUS
<1>1. /\ \A n \in Nodes, b \in Blocks : EntriesKept(n, b)
      /\ \A m \in net : Accounted(m)
  BY AskedForParts
<1>2. ASSUME \A n \in Nodes, b \in Blocks : EntriesKept(n, b)',
             \A m \in net' : Accounted(m)'
      PROVE  AskedFor'
  BY <1>2 DEF AskedFor, EntriesKept, Accounted
<1>3. ASSUME temp' = temp, db' = db, published' = published, asked \subseteq asked',
             \A m \in net' \ net : Accounted(m)'
      PROVE  AskedFor'
  <2>1. ASSUME NEW m \in net' PROVE Accounted(m)'
    BY <1>1, <1>3, StillAccounted
  <2>2. \A n \in Nodes, b \in Blocks : EntriesKept(n, b)'
    BY <1>1, <1>3 DEF EntriesKept
  <2> QED
    BY <1>2, <2>1, <2>2
<1>4. ASSUME NEW n \in Proposers, NEW b \in Blocks, publishBlock(n, b)
      PROVE  AskedFor'
  <2>1. ASSUME NEW i \in Nodes, NEW c \in Blocks PROVE EntriesKept(i, c)'
    <3>1. CASE i = n /\ c = b
      <4>1. temp'[i][c] = Fresh
        BY <1>4, <3>1 DEF publishBlock, TypeOK
      <4> QED
        BY <4>1 DEF EntriesKept, Fresh
    <3>2. CASE ~(i = n /\ c = b)
      <4>1. temp'[i][c] = temp[i][c] /\ published'[i][c] = published[i][c] /\ db' = db
        BY <1>4, <3>2 DEF publishBlock, TypeOK
      <4> QED
        BY <1>1, <4>1 DEF EntriesKept
    <3> QED
      BY <3>1, <3>2
  <2>2. ASSUME NEW m \in net' PROVE Accounted(m)'
    BY <1>1, <1>4, StillAccounted, BroadcastAccounted DEF publishBlock
  <2> QED
    BY <1>2, <2>1, <2>2
<1>5. ASSUME NEW m \in net, NEW dup \in BOOLEAN, Handle(m, dup)
      PROVE  AskedFor'
  <2>1. Delivered(m, dup) \subseteq net /\ m.to \in Nodes /\ m.block \in Blocks
    BY DEF Delivered, TypeOK, Message
  <2>2. CASE Sign(m, dup)
    <3>1. \A x \in net' \ net : Accounted(x)'
      BY <2>1, <2>2 DEF Sign, Msg, Accounted
    <3> QED
      BY <1>3, <2>2, <3>1 DEF Sign
  <2>3. CASE Vote(m, dup)
    <3> DEFINE n == m.to
               b == m.block
               voters == Append(temp[n][b].voters, m.from)
               seal == Counts(n, m.from, b) /\ Enough(voters)
    <3>1. /\ temp' = IF Counts(n, m.from, b)
                     THEN [temp EXCEPT ![n][b] = [@ EXCEPT !.voters = voters,
                                                           !.agreed = seal]]
                     ELSE temp
          /\ db' = IF seal THEN [db EXCEPT ![n][b] = @ + 1] ELSE db
          /\ published' = published /\ asked' = asked
      BY <2>3 DEF Vote
    <3>2. ASSUME NEW i \in Nodes, NEW c \in Blocks
          PROVE  /\ db'[i][c] = IF i = n /\ c = b /\ seal THEN db[i][c] + 1 ELSE db[i][c]
                 /\ temp'[i][c].proposed = temp[i][c].proposed
                 /\ temp'[i][c].agreed => temp[i][c].agreed \/ (i = n /\ c = b /\ seal)
      <4>1. db'[i][c] = IF i = n /\ c = b /\ seal THEN db[i][c] + 1 ELSE db[i][c]
        BY <2>1, <3>1 DEF TypeOK
      <4>2. temp[i][c] \in Entry
        BY DEF TypeOK
      <4>3. CASE i = n /\ c = b /\ Counts(n, m.from, b)
        <5>1. temp'[i][c] = [temp[i][c] EXCEPT !.voters = voters, !.agreed = seal]
          BY <2>1, <3>1, <4>3 DEF TypeOK
        <5> HIDE DEF voters, seal
        <5>2. temp'[i][c].proposed = temp[i][c].proposed /\ temp'[i][c].agreed = seal
          BY <4>2, <5>1 DEF Entry
        <5> QED
          BY <4>1, <4>3, <5>2
      <4>4. CASE ~(i = n /\ c = b /\ Counts(n, m.from, b))
        <5>1. temp'[i][c] = temp[i][c]
          BY <2>1, <3>1, <4>4 DEF TypeOK
        <5> QED
          BY <4>1, <5>1
      <4> QED
        BY <4>3, <4>4
    <3> HIDE DEF seal, voters
    <3>3. \A i \in Nodes, c \in Blocks : db[i][c] \in Nat
      BY DEF TypeOK
    <3>4. ASSUME NEW i \in Nodes, NEW c \in Blocks PROVE EntriesKept(i, c)'
      <4>1. published'[i][c] = published[i][c]
        BY <3>1
      <4> QED
        BY <1>1, <3>2, <3>3, <4>1 DEF EntriesKept
    <3>5. \A i \in Nodes, c \in Blocks : db[i][c] > 0 => db'[i][c] > 0
      BY <3>2, <3>3
    <3>6. net' \subseteq Delivered(m, dup) \cup Broadcast("08", n, b)
      BY <2>3 DEF Vote
    <3>7. ASSUME NEW x \in net' PROVE Accounted(x)'
      BY <1>1, <2>1, <3>1, <3>5, <3>6, StillAccounted, BroadcastAccounted
    <3> QED
      BY <1>2, <3>4, <3>7
  <2>4. CASE Answer(m, dup)
    <3>1. ASSUME NEW x \in net' \ net PROVE Accounted(x)'
      <4>1. x = Msg("05", m.to, m.from, m.block, ~temp[m.to][m.block].agreed)
        BY <2>1, <2>4 DEF Answer
      <4>2. Request(m.from, m.to, m.block) \in asked
        BY <1>1, <2>4 DEF Answer, Accounted
      <4>3. temp[m.to][m.block].agreed => db[m.to][m.block] > 0
        BY <1>1, <2>1 DEF EntriesKept
      <4> QED
        BY <2>4, <4>1, <4>2, <4>3 DEF Answer, Accounted, Msg
    <3> QED
      BY <1>3, <2>4, <3>1 DEF Answer
  <2>5. CASE SignFails(m) \/ Sealed(m) \/ AnswerFails(m)
    BY <1>3, <2>1, <2>5 DEF SignFails, Sealed, AnswerFails
  <2> QED
    BY <1>5, <2>2, <2>3, <2>4, <2>5 DEF Handle
<1>6. ASSUME NEW n \in Nodes, NEW p \in Proposers, NEW b \in Blocks, Ask(n, p, b)
      PROVE  AskedFor'
  <2>1. \A m \in net' \ net : Accounted(m)'
    BY <1>6 DEF Ask, Accounted, Msg, Request
  <2> QED
    BY <1>3, <1>6, <2>1 DEF Ask
<1>7. CASE (\E m \in net : Lose(m)) \/ (\E n \in Nodes : Stop(n)) \/ UNCHANGED vars
  BY <1>3, <1>7 DEF Lose, Stop, vars
<1> QED
  BY <1>4, <1>5, <1>6, <1>7 DEF Next

\* A manager ends by its own stop, by a request for a block it has never published,
\* or by the sealed block that it asked a node for which has stored it
\* (node.py:345, 375), and by no other message, whatever the network does.
THEOREM OnlyAskingEnds == Spec => EndsOnlyByAsking
<1>1. Init => AskedFor
  BY DEF Init, AskedFor, NoEntry
<1>2. TypeOK /\ AskedFor /\ [Next]_vars
        => [\A n \in alive : n \notin alive' =>
               \/ net' = net
               \/ \E m \in net : m.to = n /\ net' = net \ {m} /\ Deadly(m)]_vars
  <2> SUFFICES ASSUME TypeOK, AskedFor, Next, NEW n \in alive, n \notin alive',
                      net' # net
               PROVE  \E m \in net : m.to = n /\ net' = net \ {m} /\ Deadly(m)
    OBVIOUS
  <2>1. PICK m \in net : SignFails(m) \/ AnswerFails(m)
    BY DEF Next, publishBlock, Handle, Sign, Vote, Sealed, Answer, Ask, Lose, Stop
  <2>2. m.to = n /\ net' = net \ {m} /\ m.to \in Nodes /\ m.block \in Blocks
    BY <2>1 DEF SignFails, AnswerFails, TypeOK, Message
  <2>3. CASE SignFails(m)
    BY <2>2, <2>3 DEF SignFails, AskedFor, Deadly
  <2>4. CASE AnswerFails(m)
    <3>1. published[m.to][m.block] \in Nat /\ ~(published[m.to][m.block] > 0)
      BY <2>2, <2>4 DEF AnswerFails, AskedFor, TypeOK
    <3> QED
      BY <2>2, <2>4, <3>1 DEF AnswerFails, Deadly
  <2> QED
    BY <2>1, <2>2, <2>3, <2>4
<1> QED
  BY <1>1, <1>2, AskedForStep, TypeCorrect, PTL DEF Spec, EndsOnlyByAsking

------------------------------------------------------------------------------
(* No vote is forgotten: the safety half of PublishedIsSealed *)

\* Node v is heard, or will be, about the block b of n.
Heard(n, v, b) == OnItsWay(n, v, b) \/ v \in Range(temp[n][b].voters)

\* Losses and ends of managers are never made up for.
LEMMA DisturbedForGood == TypeOK /\ [Next]_vars /\ Undisturbed' => Undisturbed
<1> SUFFICES ASSUME TypeOK, [Next]_vars, Undisturbed'
             PROVE  Undisturbed
  OBVIOUS
<1>1. alive' \subseteq alive
  BY DEF Next, vars, publishBlock, Handle, Sign, SignFails, Vote, Sealed, Answer,
     AnswerFails, Ask, Lose, Stop
<1>2. lost \in Nat /\ (lost' = lost \/ lost' = lost + 1)
  BY DEF Next, vars, publishBlock, Handle, Sign, SignFails, Vote, Sealed, Answer,
     AnswerFails, Ask, Lose, Stop, TypeOK
<1> QED
  BY <1>1, <1>2 DEF Undisturbed, TypeOK

\* A step that keeps the entry, and of the votes on their way to it every one that
\* is not counted, keeps its part of the invariant.
LEMMA StillHeard ==
    ASSUME NoVoteForgotten, NEW n \in Nodes, NEW b \in Blocks,
           Undisturbed' => Undisturbed, temp'[n][b] = temp[n][b],
           temp'[n][b].proposed, ~temp'[n][b].agreed,
           \A v \in Nodes \ {n} : Undisturbed' /\ OnItsWay(n, v, b) => Heard(n, v, b)'
    PROVE  /\ ~Enough(temp'[n][b].voters)
           /\ Undisturbed' => \A v \in Nodes \ {n} : Heard(n, v, b)'
<1>1. temp[n][b].proposed /\ ~temp[n][b].agreed
  OBVIOUS
<1>2. /\ ~Enough(temp[n][b].voters)
      /\ Undisturbed => \A v \in Nodes \ {n} : Heard(n, v, b)
  BY <1>1 DEF NoVoteForgotten, Heard
<1>3. ~Enough(temp'[n][b].voters)
  BY <1>2 DEF Enough
<1>4. ASSUME NEW v \in Nodes \ {n}, Undisturbed' PROVE Heard(n, v, b)'
  <2>1. Heard(n, v, b)
    BY <1>2, <1>4
  <2>2. CASE OnItsWay(n, v, b)
    BY <1>4, <2>2
  <2>3. CASE v \in Range(temp[n][b].voters)
    BY <2>3 DEF Heard
  <2> QED
    BY <2>1, <2>2, <2>3 DEF Heard
<1> QED
  BY <1>3, <1>4

LEMMA NoVoteForgottenStep ==
    TypeOK /\ NoVoteForgotten /\ [Next]_vars => NoVoteForgotten'
<1> SUFFICES ASSUME TypeOK, NoVoteForgotten, [Next]_vars,
                    NEW n \in Nodes, NEW b \in Blocks,
                    temp'[n][b].proposed, ~temp'[n][b].agreed
             PROVE  /\ ~Enough(temp'[n][b].voters)
                    /\ Undisturbed' => \A v \in Nodes \ {n} : Heard(n, v, b)'
  BY DEF NoVoteForgotten, Heard, Enough
<1> DEFINE Goal == /\ ~Enough(temp'[n][b].voters)
                   /\ Undisturbed' => \A v \in Nodes \ {n} : Heard(n, v, b)'
<1>0. Undisturbed' => Undisturbed
  BY DisturbedForGood
<1>1. ASSUME net \subseteq net' \/ ~Undisturbed', temp'[n][b] = temp[n][b]
      PROVE  Goal
  <2>1. \A v \in Nodes \ {n} : Undisturbed' /\ OnItsWay(n, v, b) => Heard(n, v, b)'
    BY <1>1 DEF OnItsWay, Heard
  <2> QED
    BY <1>0, <1>1, <2>1, StillHeard
<1>2. ASSUME NEW p \in Proposers, NEW c \in Blocks, publishBlock(p, c)
      PROVE  Goal
  <2>1. CASE p = n /\ c = b
    <3>1. temp'[n][b] = Fresh /\ net' = net \cup Broadcast("05", n, b)
      BY <1>2, <2>1 DEF publishBlock, TypeOK
    <3>2. ~Enough(Fresh.voters)
      <4>1. Len(Fresh.voters) = 0
        BY DEF Fresh
      <4> QED
        BY <4>1 DEF Enough
    <3>3. \A v \in Nodes \ {n} : OnItsWay(n, v, b)'
      BY <3>1 DEF Broadcast, OnItsWay
    <3> QED
      BY <3>1, <3>2, <3>3 DEF Enough, Heard
  <2>2. CASE p # n \/ c # b
    <3>1. temp'[n][b] = temp[n][b] /\ net \subseteq net'
      BY <1>2, <2>2 DEF publishBlock, TypeOK
    <3> QED
      BY <1>1, <3>1
  <2> QED
    BY <2>1, <2>2
<1>3. ASSUME NEW m \in net, NEW dup \in BOOLEAN, Handle(m, dup)
      PROVE  Goal
  <2>1. m.from \in Nodes /\ m.to \in Nodes /\ m.block \in Blocks
    BY DEF TypeOK, Message
  <2>2. net \ {m} \subseteq Delivered(m, dup)
    BY DEF Delivered
  <2>4. ASSUME m.method \notin {"05", "07"} \/ (m.method = "05" /\ ~m.hex),
               net \ {m} \subseteq net', temp' = temp
        PROVE  Goal
    <3>1. \A v \in Nodes \ {n} : OnItsWay(n, v, b) => OnItsWay(n, v, b)'
      BY <2>4 DEF OnItsWay, Msg
    <3> QED
      BY <1>0, <2>4, <3>1, StillHeard DEF Heard
  <2>5. CASE Sign(m, dup)
    <3>1. net' = Delivered(m, dup) \cup {Msg("07", m.to, m.from, m.block, TRUE)}
          /\ temp' = temp /\ m.method = "05"
      BY <2>5 DEF Sign
    <3>2. ASSUME NEW v \in Nodes \ {n}, OnItsWay(n, v, b)
          PROVE  OnItsWay(n, v, b)'
      <4>1. CASE Msg("05", n, v, b, TRUE) = m
        <5>1. Msg("07", v, n, b, TRUE) \in net'
          BY <3>1, <4>1 DEF Msg
        <5> QED
          BY <5>1 DEF OnItsWay
      <4>2. CASE Msg("05", n, v, b, TRUE) # m
        <5>1. Msg("07", v, n, b, TRUE) # m
          BY <3>1 DEF Msg
        <5> QED
          BY <2>2, <3>1, <3>2, <4>2, <5>1 DEF OnItsWay
      <4> QED
        BY <4>1, <4>2
    <3> QED
      BY <1>0, <3>1, <3>2, StillHeard DEF Heard
  <2>6. CASE SignFails(m)
    BY <2>2, <2>4, <2>6 DEF SignFails
  <2>7. CASE Vote(m, dup)
    <3> DEFINE voters == Append(temp[m.to][m.block].voters, m.from)
    <3>1. net \ {m} \subseteq net' /\ m.method = "07"
      BY <2>2, <2>7 DEF Vote
    <3>2. \A v \in Nodes \ {n} : OnItsWay(n, v, b) =>
             OnItsWay(n, v, b)' \/ (m.to = n /\ m.block = b /\ m.from = v)
      BY <3>1 DEF OnItsWay, Msg
    <3>3. CASE ~Counts(m.to, m.from, m.block)
      <4>1. temp' = temp
        BY <2>7, <3>3 DEF Vote
      <4>2. ASSUME NEW v \in Nodes \ {n}, OnItsWay(n, v, b) PROVE Heard(n, v, b)'
        BY <3>2, <3>3, <4>1, <4>2 DEF Counts, Heard
      <4> QED
        BY <1>0, <4>1, <4>2, StillHeard
    <3>4. CASE Counts(m.to, m.from, m.block) /\ ~(m.to = n /\ m.block = b)
      <4>1. temp'[n][b] = temp[n][b]
        BY <2>1, <2>7, <3>4 DEF Vote, TypeOK
      <4> QED
        BY <1>0, <3>2, <3>4, <4>1, StillHeard DEF Heard
    <3>5. CASE Counts(m.to, m.from, m.block) /\ m.to = n /\ m.block = b
      <4>1. temp[n][b] \in Entry /\ temp \in [Nodes -> [Blocks -> Entry]]
        BY DEF TypeOK
      <4>2. /\ temp'[n][b].voters = voters
            /\ temp'[n][b].agreed = Enough(voters)
            /\ temp'[n][b].proposed = temp[n][b].proposed
        <5>1. (Counts(n, m.from, b) /\ Enough(voters)) = Enough(voters)
          BY <3>5 DEF Enough
        <5>2. temp' = [temp EXCEPT ![n][b] =
                         [@ EXCEPT !.voters = voters,
                                   !.agreed = Counts(n, m.from, b) /\ Enough(voters)]]
          BY <2>7, <3>5 DEF Vote
        <5> HIDE DEF voters
        <5>3. temp'[n][b] = [temp[n][b] EXCEPT !.voters = voters, !.agreed = Enough(voters)]
          BY <4>1, <5>1, <5>2
        <5> QED
          BY <4>1, <5>3 DEF Entry
      <4>3. temp[n][b].voters \in Seq(Nodes)
        BY <4>1 DEF Entry
      <4>4. Range(voters) = Range(temp[n][b].voters) \cup {m.from}
        BY <2>1, <3>5, <4>3, RangeOfAppend
      <4>5. temp[n][b].proposed /\ ~temp[n][b].agreed
        BY <3>5 DEF Counts
      <4>6. ~Enough(temp'[n][b].voters)
        BY <4>2 DEF Enough
      <4>7. ASSUME NEW v \in Nodes \ {n}, Undisturbed' PROVE Heard(n, v, b)'
        <5>1. Heard(n, v, b)
          BY <1>0, <4>5, <4>7 DEF NoVoteForgotten, Heard
        <5>2. v \in Range(temp[n][b].voters) \/ v = m.from => v \in Range(temp'[n][b].voters)
          BY <4>2, <4>4
        <5> QED
          BY <3>2, <5>1, <5>2 DEF Heard
      <4> QED
        BY <4>6, <4>7
    <3> QED
      BY <3>3, <3>4, <3>5
  <2>8. CASE Sealed(m)
    BY <2>4, <2>8 DEF Sealed
  <2>9. CASE Answer(m, dup)
    BY <2>2, <2>4, <2>9 DEF Answer
  <2>10. CASE AnswerFails(m)
    BY <2>4, <2>10 DEF AnswerFails
  <2> QED
    BY <1>3, <2>5, <2>6, <2>7, <2>8, <2>9, <2>10 DEF Handle
<1>4. ASSUME NEW p \in Nodes, NEW q \in Proposers, NEW c \in Blocks, Ask(p, q, c)
      PROVE  Goal
  BY <1>1, <1>4 DEF Ask
<1>5. ASSUME NEW m \in net, Lose(m) PROVE Goal
  <2>1. temp'[n][b] = temp[n][b] /\ lost' # 0
    BY <1>5 DEF Lose, TypeOK
  <2> QED
    BY <1>1, <2>1 DEF Undisturbed
<1>6. ASSUME NEW p \in Nodes, Stop(p) PROVE Goal
  BY <1>1, <1>6 DEF Stop
<1>7. CASE UNCHANGED vars
  BY <1>1, <1>7 DEF vars
<1> QED
  BY <1>2, <1>3, <1>4, <1>5, <1>6, <1>7 DEF Next

\* As long as no message is lost and every manager runs, every node a block was
\* put to is on its way to voting or has voted, and enough votes seal at once
\* (node.py:353-376).
THEOREM NoneForgotten == Spec => []NoVoteForgotten
<1>1. Init => NoVoteForgotten
  BY DEF Init, NoVoteForgotten, NoEntry
<1> QED
  BY <1>1, NoVoteForgottenStep, TypeCorrect, PTL DEF Spec

\* When nothing of a ballot is on its way any more, the block is sealed: with no
\* message lost, every manager alive and threshold nodes to vote, no block is left
\* half-signed (node.py:303-382).
THEOREM QuietSealed == Spec => []QuietIsSealed
<1>1. TypeOK /\ VotesInv /\ NoVoteForgotten => QuietIsSealed
  <2> SUFFICES ASSUME TypeOK, VotesInv, NoVoteForgotten,
                      Undisturbed, Cardinality(Nodes) > threshold,
                      \A m \in net : m.method \notin {"05", "07"},
                      NEW n \in Nodes, NEW b \in Blocks,
                      temp[n][b].proposed, ~temp[n][b].agreed
               PROVE  FALSE
    BY DEF QuietIsSealed
  <2> DEFINE s == temp[n][b].voters
  <2>1. \A v \in Nodes \ {n} : ~OnItsWay(n, v, b)
    BY DEF OnItsWay, Msg
  <2>2. Nodes \ {n} \subseteq Range(s) /\ ~(Len(s) >= threshold)
    BY <2>1 DEF NoVoteForgotten, Enough
  <2>3. Cardinality(Range(s)) = Len(s) /\ Range(s) \subseteq Nodes
    BY DEF VotesInv, VotesCounted, Signers
  <2>4. IsFiniteSet(Range(s)) /\ IsFiniteSet(Nodes \ {n})
    BY <2>3, NodesAssumption, FS_Subset
  <2>5. Cardinality(Nodes \ {n}) <= Cardinality(Range(s))
    BY <2>2, <2>4, FS_Subset
  <2>6. Cardinality(Nodes \ {n}) = Cardinality(Nodes) - 1
    BY NodesAssumption, FS_RemoveElement
  <2>7. Cardinality(Nodes) \in Nat /\ Cardinality(Range(s)) \in Nat
    BY <2>4, NodesAssumption, FS_CardinalityType
  <2> QED
    BY <2>2, <2>3, <2>5, <2>6, <2>7
<1> QED
  BY <1>1, NoneForgotten, VotesInvariant, PTL
=============================================================================
