---------------------------- MODULE UdpPeer_proofs ----------------------------
(***************************************************************************)
(* Proofs about UdpPeer, for every number of workers and every bound.      *)
(* TypeOK comes first; each further invariant is inductive relative to it. *)
(***************************************************************************)
EXTENDS UdpPeer, SequenceTheorems, TLAPS

------------------------------------------------------------------------------
(* Facts about the operators the actions are built from *)

\* Protocol.run leaves a list of workers (udpProtocol.py:41-46).
LEMMA HandlerRunType ==
    ASSUME NEW ws \in Seq(Worker)
    PROVE  HandlerRun(ws) \in Seq(Worker)
<1> DEFINE new == [i \in 1..(2 * NumWorkers) |->
                     <<IF i % 2 = 1 THEN "send" ELSE "recv", Len(ws) + i>>]
<1>1. 2 * NumWorkers \in Nat
  BY NumWorkersAssumption
<1>2. \A i \in 1..(2 * NumWorkers) :
         <<IF i % 2 = 1 THEN "send" ELSE "recv", Len(ws) + i>> \in Worker
  BY <1>1 DEF Worker
<1>3. new \in Seq(Worker)
  BY <1>1, <1>2
<1>4. HandlerRun(ws) = ws \o new
  BY DEF HandlerRun
<1> HIDE DEF new
<1> QED
  BY <1>3, <1>4, ConcatProperties

LEMMA PoolType == Pool \in Seq(Worker)
<1>1. <<>> \in Seq(Worker)
  BY EmptySeq
<1> QED
  BY <1>1, HandlerRunType DEF Pool

\* Everything stop kills is a greenlet of the peer.
LEMMA ToKillType == ToKill \in Seq(Greenlet)
<1>1. Pool \in Seq(Greenlet)
  BY PoolType, SeqMonotonic DEF Greenlet
<1>2. <<Sender, Receiver>> \in Seq(Greenlet)
  BY DEF Greenlet
<1> QED
  BY <1>1, <1>2 DEF ToKill

LEMMA OneElement ==
    ASSUME NEW S, NEW e \in S
    PROVE  <<e>> \in Seq(S) /\ <<>> \in Seq(S)
  OBVIOUS

LEMMA AnswerType == \A d : Answer(d) \in Seq(Ctrl)
<1> SUFFICES ASSUME NEW d PROVE Answer(d) \in Seq(Ctrl)
  OBVIOUS
<1>1. Answer(d) \in {<<>>, <<"confirm">>, <<"pong">>}
  BY DEF Answer
<1>2. {"confirm", "pong"} \subseteq Ctrl
  BY DEF Ctrl
<1> QED
  BY <1>1, <1>2, OneElement

\* What a receive worker reports of a datagram: nothing, or one thing.
LEMMA ReplyCases ==
    ASSUME NEW d
    PROVE  \/ Reply(d) \in {<<>>, <<Bad>>, <<Checked>>}
           \/ Reply(d) = <<d>> /\ d.kind \in DataKinds
<1>1. CASE d.kind \in DataKinds /\ hello_received
  BY <1>1 DEF Reply
<1>2. CASE ~(d.kind \in DataKinds /\ hello_received)
  BY <1>2 DEF Reply, Unexpected
<1> QED
  BY <1>1, <1>2

LEMMA ReplyType ==
    ASSUME NEW d \in Datagram
    PROVE  Reply(d) \in Seq(ReportType)
<1>1. {Bad, Checked} \subseteq ReportType
  BY DEF ReportType, Bad, Checked
<1>2. d.kind \in DataKinds => d \in ReportType
  BY DEF ReportType, Datagram, DataKinds
<1> QED
  BY <1>1, <1>2, ReplyCases, OneElement

------------------------------------------------------------------------------
(* Elements of a sequence *)

LEMMA ElementsAppend ==
    ASSUME NEW S, NEW s \in Seq(S), NEW e \in S
    PROVE  Elements(Append(s, e)) = Elements(s) \cup {e}
<1>1. Append(s, e) \in Seq(S) /\ Len(Append(s, e)) = Len(s) + 1
  OBVIOUS
<1>2. \A i \in 1..Len(s) : Append(s, e)[i] = s[i]
  OBVIOUS
<1>3. Append(s, e)[Len(s) + 1] = e
  OBVIOUS
<1>4. 1..(Len(s) + 1) = (1..Len(s)) \cup {Len(s) + 1}
  BY LenProperties
<1> QED
  BY <1>1, <1>2, <1>3, <1>4 DEF Elements

LEMMA ElementsTail ==
    ASSUME NEW S, NEW s \in Seq(S), s # <<>>
    PROVE  Elements(s) = {Head(s)} \cup Elements(Tail(s))
<1>1. Len(s) \in Nat \ {0} /\ Head(s) = s[1] /\ Len(Tail(s)) = Len(s) - 1
  OBVIOUS
<1>2. \A i \in 1..(Len(s) - 1) : Tail(s)[i] = s[i + 1]
  OBVIOUS
<1>3. \A i \in 2..Len(s) : i - 1 \in 1..(Len(s) - 1) /\ s[i] = Tail(s)[i - 1]
  BY <1>1, <1>2
<1>4. Elements(s) \subseteq {Head(s)} \cup Elements(Tail(s))
  BY <1>1, <1>3 DEF Elements
<1>5. {Head(s)} \cup Elements(Tail(s)) \subseteq Elements(s)
  BY <1>1, <1>2 DEF Elements
<1> QED
  BY <1>4, <1>5

LEMMA ElementsConcat ==
    ASSUME NEW S, NEW s \in Seq(S), NEW t \in Seq(S)
    PROVE  Elements(s \o t) \subseteq Elements(s) \cup Elements(t)
<1>1. Len(s \o t) = Len(s) + Len(t)
  BY ConcatProperties
<1>2. ASSUME NEW i \in 1..(Len(s) + Len(t))
      PROVE  (s \o t)[i] \in Elements(s) \cup Elements(t)
  <2>1. CASE i <= Len(s)
    <3>1. i \in 1..Len(s)
      BY <2>1, LenProperties
    <3>2. (s \o t)[i] = s[i]
      BY <2>1, ConcatProperties, LenProperties
    <3> QED
      BY <3>1, <3>2 DEF Elements
  <2>2. CASE i > Len(s)
    <3>1. i - Len(s) \in 1..Len(t)
      BY <2>2, LenProperties
    <3>2. (s \o t)[i] = t[i - Len(s)]
      BY <2>2, ConcatProperties, LenProperties
    <3> QED
      BY <3>1, <3>2 DEF Elements
  <2> QED
    BY <2>1, <2>2, LenProperties
<1> QED
  BY <1>1, <1>2 DEF Elements

\* What a turn takes from a box, and what is left of it.
LEMMA RestType ==
    ASSUME NEW S, NEW box \in Seq(S)
    PROVE  /\ Rest(box) \in Seq(S) /\ First(box) \in Seq(S)
           /\ Len(First(box)) \in {0, 1}
           /\ Elements(First(box)) \cup Elements(Rest(box)) \subseteq Elements(box)
<1>1. CASE box = <<>>
  BY <1>1 DEF First, Rest, Elements
<1>2. CASE box # <<>>
  <2>1. First(box) = <<Head(box)>> /\ Rest(box) = Tail(box) /\ Head(box) \in S
    BY <1>2 DEF First, Rest
  <2>2. Elements(<<Head(box)>>) = {Head(box)}
    BY DEF Elements
  <2> QED
    BY <1>2, <2>1, <2>2, ElementsTail
<1> QED
  BY <1>1, <1>2

\* What a receive worker asks for is never a disconnect, and a confirm only
\* because of a datagram.
LEMMA AnswerElements ==
    ASSUME NEW d
    PROVE  Elements(Answer(d)) \subseteq {"confirm", "pong"}
<1>1. Answer(d) \in {<<>>, <<"confirm">>, <<"pong">>}
  BY DEF Answer
<1> QED
  BY <1>1 DEF Elements

------------------------------------------------------------------------------
(* The turns of the send loop *)

LEMMA ReportDisconnectType ==
    ASSUME TypeOK, NEW g, ReportDisconnect(g)
    PROVE  /\ is_stopped' \in BOOLEAN
           /\ killq' \in Seq(Greenlet)
           /\ registered' \in BOOLEAN
           /\ stopper' \in {Main, Sender, Nobody}
           /\ status' = "disconnected"
           /\ live' \subseteq Greenlet
<1>1. <<>> \in Seq(Greenlet)
  BY EmptySeq
<1>2. CASE is_stopped
  BY <1>2 DEF ReportDisconnect, LogDisconnected, TypeOK, stopVars
<1>3. CASE ~is_stopped
  BY <1>1, <1>3, ToKillType DEF ReportDisconnect, LogDisconnected, Stop, TypeOK
<1> QED
  BY <1>2, <1>3 DEF TypeOK

\* Whoever reports a disconnect leaves the peer stopped, and itself without a turn.
LEMMA ReportStops ==
    ASSUME NEW g, ReportDisconnect(g)
    PROVE  /\ is_stopped' /\ live' = live \ {g}
           /\ is_stopped => UNCHANGED stopVars
<1>1. CASE is_stopped
  BY <1>1 DEF ReportDisconnect, stopVars
<1>2. CASE ~is_stopped
  BY <1>2 DEF ReportDisconnect, Stop
<1> QED
  BY <1>1, <1>2

\* What the rest of a turn may do.
LEMMA SendRestFacts ==
    ASSUME TypeOK, NEW ps \in Seq(Ctrl), NEW outcome \in Outcomes,
           SendRest(ps, outcome)
    PROVE  /\ outbox' \in Seq({"data"}) /\ lateSends' \in Nat /\ farewell' \in BOOLEAN
           /\ hand' \in {"none", "data"} /\ live' \subseteq live
           /\ outcome = "fails" => status' = "disconnected"
           /\ \/ UNCHANGED stopVars /\ (is_stopped \/ outcome # "fails")
              \/ ~is_stopped /\ ReportDisconnect(Sender)
           /\ ~is_stopped' => live' = live
           /\ farewell' => farewell \/ "disconnect" \in Elements(ps)
           /\ hand = "data" => hand' = "none"
           /\ is_stopped /\ outcome # "waits" => hand' = "none"
           /\ ~is_stopped => lateSends' = lateSends
           /\ lateSends' <= lateSends + Len(ps)
                              + (IF hand = "data" \/ hand' = "data" THEN 0 ELSE 1)
<1> DEFINE out == IF outcome = "sent" THEN ps \o First(Left) ELSE ps
<1>1. Left \in Seq({"data"}) /\ (hand = "data" => Left = <<>>)
  BY EmptySeq DEF Left, TypeOK
<1>2. First(Left) \in Seq({"data"}) /\ Len(First(Left)) \in {0, 1}
      /\ (hand = "data" => Len(First(Left)) = 0)
  BY <1>1, RestType DEF First
<1>3. First(Left) \in Seq(Ctrl) /\ "disconnect" \notin Elements(First(Left))
  <2>1. \A i \in 1..Len(First(Left)) : First(Left)[i] = "data"
    BY <1>2
  <2>2. {"data"} \subseteq Ctrl
    BY DEF Ctrl
  <2> QED
    BY <1>2, <2>1, <2>2, SeqMonotonic DEF Elements
<1>4. /\ out \in Seq(Ctrl)
      /\ Elements(out) \subseteq Elements(ps) \cup Elements(First(Left))
      /\ Len(out) <= Len(ps) + (IF hand = "data" \/ outcome # "sent" THEN 0 ELSE 1)
  <2>1. CASE outcome = "sent"
    <3>1. Len(ps \o First(Left)) = Len(ps) + Len(First(Left)) /\ Len(ps) \in Nat
      BY <1>3, ConcatProperties, LenProperties
    <3> QED
      BY <1>2, <1>3, <2>1, <3>1, ConcatProperties, ElementsConcat
  <2>2. CASE outcome # "sent"
    BY <2>2, LenProperties
  <2> QED
    BY <2>1, <2>2
<1>5. /\ farewell' = (farewell \/ "disconnect" \in Elements(out))
      /\ lateSends' = lateSends + (IF is_stopped THEN Len(out) ELSE 0)
  BY DEF SendRest
<1>6. Len(out) \in Nat /\ Len(ps) \in Nat
  BY <1>4, LenProperties
<1>7. outbox' \in Seq({"data"})
  BY RestType DEF SendRest, TypeOK
<1>8. Sender \in Greenlet
  BY DEF Greenlet
<1>9. hand = "data" => outcome = "sent"
  BY DEF SendRest, Left
<1>10. CASE outcome = "sent"
  <2>1. hand' = "none" /\ live' = AfterTurn(Sender) /\ UNCHANGED stopVars
    BY <1>10 DEF SendRest
  <2> HIDE DEF out
  <2>2. lateSends' \in Nat
    BY <1>5, <1>6 DEF TypeOK
  <2>3. ~is_stopped' => live' = live
    BY <2>1 DEF AfterTurn, stopVars
  <2> QED
    BY <1>3, <1>4, <1>5, <1>6, <1>7, <1>10, <2>1, <2>2, <2>3 DEF AfterTurn, TypeOK
<1>11. CASE outcome = "waits"
  <2>1. hand' = "data" /\ UNCHANGED <<live, stopVars>>
    BY <1>11 DEF SendRest
  <2> HIDE DEF out
  <2> QED
    BY <1>3, <1>4, <1>5, <1>6, <1>7, <1>9, <1>11, <2>1 DEF TypeOK
<1>12. CASE outcome = "fails"
  <2>1. ReportDisconnect(Sender) /\ hand' = IF is_stopped THEN "none" ELSE "data"
    BY <1>12 DEF SendRest, SendFails
  <2>2. is_stopped' /\ live' = live \ {Sender} /\ (is_stopped => UNCHANGED stopVars)
        /\ status' = "disconnected"
    BY <2>1, ReportStops, ReportDisconnectType
  <2> HIDE DEF out
  <2> QED
    BY <1>3, <1>4, <1>5, <1>6, <1>7, <1>9, <1>12, <2>1, <2>2 DEF TypeOK
<1> QED
  BY <1>10, <1>11, <1>12 DEF Outcomes

\* Who has sent nothing has room for the two datagrams of a turn.
LEMMA RoomAtFirst == lateSends = 0 => RoomLeft
  BY DEF RoomLeft

LEMMA RoomKept ==
    ASSUME RoomLeft, UNCHANGED <<hand, lateSends>>, live' \subseteq live,
           stopper' = Sender => stopper = Sender
    PROVE  RoomLeft'
  BY DEF RoomLeft

\* What a step of the send loop that sends leaves alone, and what it may do.
LEMMA SenderFacts ==
    ASSUME TypeOK, SenderSends
    PROVE  /\ UNCHANGED <<started, hello_received, pulse, intake, sQ, inbox,
                          reports, app>>
           /\ held' \in BOOLEAN /\ vipbox' \in Seq(Ctrl) /\ outbox' \in Seq({"data"})
           /\ hand' \in Ctrl \cup {"none"} /\ farewell' \in BOOLEAN /\ lateSends' \in Nat
           /\ live' \subseteq live /\ status' \in {status, "disconnected"}
           /\ \/ UNCHANGED stopVars /\ (is_stopped \/ UNCHANGED status)
              \/ ~is_stopped /\ ReportDisconnect(Sender)
           /\ ~is_stopped' => live' = live
           /\ Elements(vipbox') \subseteq Elements(vipbox)
           /\ hand' \in {hand, "none", "data"}
                \/ (~is_stopped /\ hand' \in Elements(vipbox))
           /\ farewell' => \/ farewell \/ hand = "disconnect"
                           \/ ~is_stopped /\ "disconnect" \in Elements(vipbox)
           /\ ~is_stopped => lateSends' = lateSends
           /\ is_stopped /\ RoomLeft => RoomLeft'
           /\ Sender \in live \/ hand # "none"
<1> USE DEF control, stopVars, pulse, wire, intake, boxes, reports, app
<1> DEFINE Goal == /\ UNCHANGED <<started, hello_received, pulse, intake, sQ, inbox,
                          reports, app>>
                   /\ held' \in BOOLEAN /\ vipbox' \in Seq(Ctrl) /\ outbox' \in Seq({"data"})
                   /\ hand' \in Ctrl \cup {"none"} /\ farewell' \in BOOLEAN /\ lateSends' \in Nat
                   /\ live' \subseteq live /\ status' \in {status, "disconnected"}
                   /\ \/ UNCHANGED stopVars /\ (is_stopped \/ UNCHANGED status)
                      \/ ~is_stopped /\ ReportDisconnect(Sender)
                   /\ ~is_stopped' => live' = live
                   /\ Elements(vipbox') \subseteq Elements(vipbox)
                   /\ hand' \in {hand, "none", "data"}
                        \/ (~is_stopped /\ hand' \in Elements(vipbox))
                   /\ farewell' => \/ farewell \/ hand = "disconnect"
                                   \/ ~is_stopped /\ "disconnect" \in Elements(vipbox)
                   /\ ~is_stopped => lateSends' = lateSends
                   /\ is_stopped /\ RoomLeft => RoomLeft'
                   /\ Sender \in live \/ hand # "none"
<1>1. "data" \in Ctrl /\ <<>> \in Seq(Ctrl) /\ lateSends \in Nat
  BY EmptySeq DEF Ctrl, TypeOK
<1>2. ASSUME NEW outcome \in Outcomes, SenderSend(outcome) PROVE Goal
  <2>1. SenderIdle /\ vipbox' = Rest(vipbox) /\ SendRest(First(vipbox), outcome)
        /\ (outcome # "fails" => UNCHANGED status)
        /\ UNCHANGED <<started, hello_received, pulse, wire, sQ, inbox, reports, app>>
    BY <1>2 DEF SenderSend
  <2>2. Sender \in live /\ ~is_stopped
    BY <2>1 DEF SenderIdle, SenderTurn
  <2>3. First(vipbox) \in Seq(Ctrl) /\ Rest(vipbox) \in Seq(Ctrl)
        /\ Elements(First(vipbox)) \cup Elements(Rest(vipbox)) \subseteq Elements(vipbox)
    BY RestType DEF TypeOK
  <2>4. held' \in BOOLEAN
    BY <2>1 DEF TypeOK
  <2> QED
    BY <1>1, <2>1, <2>2, <2>3, <2>4, SendRestFacts
<1>3. CASE SenderVipWaits \/ SenderVipFails
  <2>1. /\ SenderIdle /\ vipbox # <<>> /\ vipbox' = Tail(vipbox)
        /\ UNCHANGED <<started, hello_received, pulse, wire, sQ, inbox, outbox,
                       farewell, lateSends, reports, app>>
    BY <1>3 DEF SenderVipWaits, SenderVipFails
  <2>2. Sender \in live /\ ~is_stopped
    BY <2>1 DEF SenderIdle, SenderTurn
  <2>3. /\ hand' = Head(vipbox)
        /\ status' \in {status, "disconnected"}
        /\ live' \subseteq live
        /\ UNCHANGED <<stopVars, status>> \/ ReportDisconnect(Sender)
        /\ ~is_stopped' => live' = live
    <3>1. CASE SenderVipWaits
      BY <3>1 DEF SenderVipWaits
    <3>2. CASE SenderVipFails
      BY <2>2, <3>2, ReportStops, ReportDisconnectType DEF SenderVipFails, SendFails
    <3> QED
      BY <1>3, <3>1, <3>2
  <2>4. Elements(vipbox) = {Head(vipbox)} \cup Elements(Tail(vipbox))
        /\ Head(vipbox) \in Ctrl /\ Tail(vipbox) \in Seq(Ctrl)
    BY <2>1, ElementsTail DEF TypeOK
  <2> QED
    BY <1>1, <2>1, <2>2, <2>3, <2>4 DEF TypeOK
<1>4. ASSUME NEW outcome \in Outcomes, SenderSent(outcome) PROVE Goal
  <2>1. Waiting /\ SendRest(<<hand>>, outcome) /\ held' \in {held, FALSE}
        /\ (outcome # "fails" => UNCHANGED status)
        /\ UNCHANGED <<started, hello_received, pulse, intake, sQ, inbox, vipbox,
                       reports, app>>
    BY <1>4 DEF SenderSent
  <2>2. <<hand>> \in Seq(Ctrl) /\ Len(<<hand>>) = 1 /\ Elements(<<hand>>) = {hand}
    <3>1. hand \in Ctrl
      BY <2>1 DEF Waiting, TypeOK
    <3> QED
      BY <3>1, OneElement DEF Elements
  <2>3. RoomLeft => RoomLeft'
    <3> SUFFICES ASSUME RoomLeft PROVE RoomLeft'
      OBVIOUS
    <3>1. lateSends <= (IF hand = "data" THEN 1 ELSE 0)
      BY <2>1 DEF Waiting, RoomLeft
    <3>2. /\ hand' \in {"none", "data"} /\ (hand = "data" => hand' = "none")
          /\ lateSends' \in Nat /\ lateSends' <= lateSends + Len(<<hand>>)
                              + (IF hand = "data" \/ hand' = "data" THEN 0 ELSE 1)
      BY <2>1, <2>2, SendRestFacts
    <3>3. lateSends' <= (IF hand' = "data" THEN 1 ELSE 2)
      BY <1>1, <2>2, <3>1, <3>2
    <3> QED
      BY <3>2, <3>3 DEF RoomLeft
  <2>4. held' \in BOOLEAN
    BY <2>1 DEF TypeOK
  <2> QED
    BY <1>1, <2>1, <2>2, <2>3, <2>4, SendRestFacts DEF Waiting, TypeOK
<1>5. ASSUME NEW outcome \in Outcomes, SenderRaises(outcome) PROVE Goal
  <2>1. Waiting /\ status' = "disconnected"
        /\ UNCHANGED <<started, hello_received, pulse, intake, sQ, inbox, vipbox,
                       reports, app>>
    BY <1>5 DEF SenderRaises, LogDisconnected
  <2>2. CASE is_stopped
    <3>1. SendRest(<<>>, outcome) /\ held' \in {held, FALSE}
      BY <1>5, <2>2 DEF SenderRaises
    <3>2. Len(<<>>) = 0 /\ Elements(<<>>) = {}
      BY DEF Elements
    <3>3. RoomLeft => RoomLeft'
      <4> SUFFICES ASSUME RoomLeft PROVE RoomLeft'
        OBVIOUS
      <4>1. lateSends <= (IF hand = "data" THEN 1 ELSE 0)
        BY <2>1 DEF Waiting, RoomLeft
      <4>2. /\ hand' \in {"none", "data"} /\ (hand = "data" => hand' = "none")
            /\ lateSends' \in Nat /\ lateSends' <= lateSends + Len(<<>>)
                                + (IF hand = "data" \/ hand' = "data" THEN 0 ELSE 1)
        BY <1>1, <3>1, SendRestFacts
      <4>3. lateSends' <= 1
        BY <1>1, <3>2, <4>1, <4>2
      <4> QED
        BY <4>2, <4>3 DEF RoomLeft
    <3>4. held' \in BOOLEAN
      BY <3>1 DEF TypeOK
    <3> QED
      BY <1>1, <2>1, <2>2, <3>1, <3>2, <3>3, <3>4, SendRestFacts DEF Waiting, TypeOK
  <2>3. CASE ~is_stopped
    <3>1. SendFails(hand) /\ UNCHANGED <<held, outbox, farewell, lateSends>>
      BY <1>5, <2>3 DEF SenderRaises
    <3>2. ReportDisconnect(Sender) /\ hand' = hand
      BY <2>3, <3>1 DEF SendFails
    <3>3. is_stopped' /\ live' \subseteq live
      BY <3>2, ReportStops
    <3> QED
      BY <1>1, <2>1, <2>3, <3>1, <3>2, <3>3 DEF Waiting, TypeOK
  <2> QED
    BY <2>2, <2>3
<1>6. ASSUME NEW outcome \in Outcomes, SenderResume(outcome) PROVE Goal
  <2>1. /\ stopper = Sender /\ hand # "none" /\ outcome # "waits"
        /\ SendRest(<<>>, outcome) /\ (outcome # "fails" => UNCHANGED status)
        /\ UNCHANGED <<started, hello_received, pulse, wire, sQ, inbox, vipbox,
                       reports, app>>
    BY <1>6 DEF SenderResume
  <2>2. Len(<<>>) = 0 /\ Elements(<<>>) = {}
    BY DEF Elements
  <2>3. is_stopped /\ RoomLeft => RoomLeft'
    <3> SUFFICES ASSUME is_stopped, RoomLeft PROVE RoomLeft'
      OBVIOUS
    <3>1. lateSends <= (IF hand = "data" THEN 2 ELSE 1)
      BY <2>1 DEF RoomLeft
    <3>2. /\ hand' = "none" /\ lateSends' \in Nat
          /\ lateSends' <= lateSends + Len(<<>>)
                              + (IF hand = "data" \/ hand' = "data" THEN 0 ELSE 1)
      BY <1>1, <2>1, SendRestFacts
    <3>3. lateSends' <= 2
      BY <1>1, <2>2, <3>1, <3>2
    <3> QED
      BY <3>2, <3>3 DEF RoomLeft
  <2>4. held' \in BOOLEAN
    BY <2>1 DEF TypeOK
  <2> QED
    BY <1>1, <2>1, <2>2, <2>3, <2>4, SendRestFacts DEF TypeOK
<1> QED
  BY <1>2, <1>3, <1>4, <1>5, <1>6 DEF SenderSends

------------------------------------------------------------------------------
(* Type correctness *)

LEMMA TypeInit == Init => TypeOK
<1> SUFFICES ASSUME Init PROVE TypeOK
  OBVIOUS
<1>1. sQ \in Seq(Ctrl)
  BY OneElement DEF Init, Ctrl
<1>2. /\ killq \in Seq(Greenlet)
      /\ rQ \in Seq(ReportType) /\ inbox \in Seq(Datagram)
      /\ vipbox \in Seq(Ctrl) /\ outbox \in Seq({"data"})
      /\ delivered \in Seq(Nat)
  BY EmptySeq DEF Init
<1>3. /\ live \subseteq Greenlet
      /\ spoilt \in [{"garbled", "nomethod"} -> Nat]
  BY DEF Init
<1> QED
  BY <1>1, <1>2, <1>3 DEF Init, TypeOK

LEMMA StaleType ==
    ASSUME TypeOK, HandleStale
    PROVE  /\ inbox' \in Seq(Datagram) /\ is_pinged' \in BOOLEAN
           /\ contact' \in {"recent", "quiet", "lost"}
<1>1. inbox \in Seq(Datagram)
  BY DEF TypeOK
<1>2. CASE message # NoMessage
  <2>1. message \in Datagram
    BY <1>2 DEF TypeOK
  <2>2. inbox' = Append(inbox, message) /\ is_pinged' = FALSE /\ contact' = "recent"
    BY <1>2 DEF HandleStale, Handle
  <2> QED
    BY <1>1, <2>1, <2>2, AppendProperties
<1>3. CASE message = NoMessage
  BY <1>3 DEF HandleStale, pulse, TypeOK
<1> QED
  BY <1>2, <1>3

LEMMA TypeStep == TypeOK /\ [Next]_vars => TypeOK'
<1> SUFFICES ASSUME TypeOK, [Next]_vars
             PROVE  TypeOK'
  OBVIOUS
<1> USE DEF control, stopVars, pulse, wire, intake, boxes, reports, app
<1>1. CASE PeerRun
  <2>1. {Pool[i] : i \in 1..Len(Pool)} \subseteq Greenlet
    BY PoolType DEF Greenlet
  <2>2. live' \subseteq Greenlet
    BY <1>1, <2>1 DEF PeerRun, Greenlet
  <2> QED
    BY <1>1, <2>2 DEF PeerRun, TypeOK
<1>2. CASE KillNext
  BY <1>2 DEF KillNext, TypeOK
<1>3. CASE Tick
  BY <1>3 DEF Tick, TypeOK
<1>4. CASE SendPacket
  BY <1>4 DEF SendPacket, TypeOK, Ctrl
<1>5. CASE ManagerDisconnect
  BY <1>5, ReportDisconnectType DEF ManagerDisconnect, SendDisconnect, TypeOK, Ctrl
<1>6. ASSUME NEW kind \in Arrivals, Receive(kind)
      PROVE  TypeOK'
  <2>1. dataIn' \in Nat /\ arrivals' \in Nat
    BY <1>6 DEF Receive, TypeOK
  <2>2. message' \in Datagram
    BY <1>6, <2>1, ArrivalsAssumption DEF Receive, Datagram
  <2>3. inbox' \in Seq(Datagram)
    BY <1>6, <2>2 DEF Receive, Handle, TypeOK
  <2>4. live' \subseteq Greenlet /\ peerAddr' = "socket" /\ held' \in BOOLEAN
    BY <1>6 DEF Receive, TypeOK, AfterTurn, TakeAddr, read_ready
  <2>5. spoilt' \in [{"garbled", "nomethod"} -> Nat]
    <3>1. spoilt' = [k \in DOMAIN spoilt |-> spoilt[k] + IF k = kind THEN 1 ELSE 0]
      BY <1>6 DEF Receive
    <3>2. spoilt \in [{"garbled", "nomethod"} -> Nat]
      BY DEF TypeOK
    <3> QED
      BY <3>1, <3>2
  <2> QED
    BY <1>6, <2>1, <2>2, <2>3, <2>4, <2>5 DEF Receive, Handle, TypeOK
<1>7. CASE MainError
  <2>1. inbox' \in Seq(Datagram) /\ is_pinged' \in BOOLEAN
        /\ contact' \in {"recent", "quiet", "lost"}
    BY <1>7, StaleType DEF MainError, TypeOK
  <2>2. /\ ReportDisconnect(Main)
        /\ UNCHANGED <<started, hello_received, wire, sQ, boxes, reports, app>>
    BY <1>7 DEF MainError
  <2> QED
    BY <2>1, <2>2, ReportDisconnectType DEF TypeOK
<1>8. CASE MainFails
  BY <1>8 DEF MainFails, TypeOK
<1>9. ASSUME NEW w \in live, SendWorker(w)
      PROVE  TypeOK'
  <2>1. Head(sQ) \in Ctrl /\ sQ' \in Seq(Ctrl)
    BY <1>9 DEF SendWorker, TypeOK
  <2>2. vipbox' \in Seq(Ctrl) /\ outbox' \in Seq({"data"})
    <3>1. Append(vipbox, Head(sQ)) \in Seq(Ctrl)
      BY <2>1 DEF TypeOK
    <3>2. Append(outbox, "data") \in Seq({"data"})
      BY DEF TypeOK
    <3> QED
      BY <1>9, <3>1, <3>2 DEF SendWorker, TypeOK
  <2> QED
    BY <1>9, <2>1, <2>2 DEF SendWorker, TypeOK, AfterTurn
<1>10. ASSUME NEW w \in live, RecvWorker(w)
       PROVE  TypeOK'
  <2>1. Head(inbox) \in Datagram /\ inbox' \in Seq(Datagram)
    BY <1>10 DEF RecvWorker, TypeOK
  <2>2. Reply(Head(inbox)) \in Seq(ReportType)
    BY <2>1, ReplyType
  <2>3. Answer(Head(inbox)) \in Seq(Ctrl)
    BY AnswerType
  <2>4. rQ' \in Seq(ReportType) /\ sQ' \in Seq(Ctrl)
    BY <1>10, <2>2, <2>3 DEF RecvWorker, Put, TypeOK
  <2> QED
    BY <1>10, <2>1, <2>4 DEF RecvWorker, TypeOK, AfterTurn
<1>11. ASSUME NEW w \in live, RecvWorkerDies(w)
       PROVE  TypeOK'
  BY <1>11 DEF RecvWorkerDies, TypeOK
<1>12. CASE SenderTimeout
  BY <1>12, ReportDisconnectType DEF SenderTimeout, SendDisconnect, TypeOK, Ctrl
<1>13. CASE SenderPing
  BY <1>13 DEF SenderPing, TypeOK, Ctrl
<1>14. CASE SenderSends
  <2> DEFINE Stopping == /\ is_stopped' \in BOOLEAN /\ killq' \in Seq(Greenlet)
                         /\ stopper' \in {Main, Sender, Nobody} /\ registered' \in BOOLEAN
  <2>1. Stopping
    <3>1. CASE UNCHANGED stopVars
      BY <3>1 DEF TypeOK
    <3>2. CASE ReportDisconnect(Sender)
      BY <3>2, ReportDisconnectType
    <3> QED
      BY <1>14, <3>1, <3>2, SenderFacts
  <2>2. /\ held' \in BOOLEAN /\ vipbox' \in Seq(Ctrl) /\ outbox' \in Seq({"data"})
        /\ hand' \in Ctrl \cup {"none"} /\ farewell' \in BOOLEAN /\ lateSends' \in Nat
        /\ live' \subseteq live /\ status' \in {status, "disconnected"}
    BY <1>14, SenderFacts
  <2>3. UNCHANGED <<started, hello_received, pulse, intake, sQ, inbox, reports, app>>
    BY <1>14, SenderFacts
  <2> QED
    BY <2>1, <2>2, <2>3 DEF TypeOK
<1>15. CASE MainReady
  <2>1. /\ held' = FALSE
        /\ UNCHANGED <<control, hello_received, pulse, intake, sQ, inbox, boxes, reports,
                       app>>
    BY <1>15 DEF MainReady
  <2>2. held' \in BOOLEAN
    BY <2>1
  <2> QED
    BY <2>1, <2>2 DEF TypeOK
<1>16. CASE MainResume
  <2>1. inbox' \in Seq(Datagram) /\ is_pinged' \in BOOLEAN
        /\ contact' \in {"recent", "quiet", "lost"}
    BY <1>16, StaleType DEF MainResume
  <2>2. /\ stopper' = Nobody
        /\ UNCHANGED <<started, live, is_stopped, killq, registered, status,
                       hello_received, wire, sQ, boxes, reports, app>>
    BY <1>16 DEF MainResume
  <2> QED
    BY <2>1, <2>2 DEF TypeOK
<1>17. CASE ReportNoQueue
  BY <1>17 DEF ReportNoQueue, TakeReport, LogWorking, TypeOK, AfterTurn
<1>18. CASE ReportChecked
  BY <1>18 DEF ReportChecked, TakeReport, TypeOK, AfterTurn
<1>19. CASE ReportBad
  BY <1>19, ReportDisconnectType DEF ReportBad, TakeReport, TypeOK
<1>20. CASE ReportData
  <2>1. Head(rQ) \in ReportType /\ rQ' \in Seq(ReportType)
    BY <1>20 DEF ReportData, TakeReport, TypeOK
  <2>2. Append(delivered, Head(rQ).n) \in Seq(Nat)
    BY <2>1 DEF TypeOK, ReportType
  <2> QED
    BY <1>20, <2>1, <2>2 DEF ReportData, TakeReport, LogWorking, TypeOK, AfterTurn
<1>21. CASE ReportNoMethod
  BY <1>21 DEF ReportNoMethod, TakeReport, LogWorking, TypeOK
<1>22. CASE UNCHANGED vars
  BY <1>22 DEF vars, TypeOK
<1> QED
  BY <1>1, <1>2, <1>3, <1>4, <1>5, <1>6, <1>7, <1>8, <1>9, <1>10, <1>11, <1>12,
     <1>13, <1>14, <1>15, <1>16, <1>17, <1>18, <1>19, <1>20, <1>21, <1>22
     DEF Next, Hub, Environment, Workers, Reports

\* The fields of Peer and Protocol keep their types in every run.
THEOREM TypeCorrect == Spec => []TypeOK
  BY TypeInit, TypeStep, PTL DEF Spec

------------------------------------------------------------------------------
(* What stop leaves possible *)

LEMMA StopInit == Init => StopInv
  BY DEF Init, StopInv, StoppedIsLogged

\* A disconnect report keeps the bookkeeping of stop, whoever makes it.
LEMMA StopByReport ==
    ASSUME TypeOK, StopInv, NEW g, ReportDisconnect(g), started' = started,
           hand' = hand \/ started, lateReports' = lateReports,
           ~is_stopped => lateSends' = lateSends,
           is_stopped => RoomLeft'
    PROVE  StopInv'
<1>1. CASE is_stopped
  <2>1. live' = live \ {g} /\ status' = "disconnected" /\ UNCHANGED stopVars
    BY <1>1 DEF ReportDisconnect, LogDisconnected
  <2> QED
    BY <1>1, <2>1 DEF StopInv, StoppedIsLogged, stopVars
<1>2. CASE ~is_stopped
  <2>1. lateSends = 0 /\ lateReports = 0 /\ stopper = Nobody
    BY <1>2 DEF StopInv, TypeOK
  <2>2. lateSends' = 0 /\ (lateSends' = 0 => RoomLeft')
    BY <1>2, <2>1 DEF RoomLeft
  <2>3. /\ is_stopped' /\ live' = live \ {g} /\ status' = "disconnected"
        /\ registered' = started
    BY <1>2 DEF ReportDisconnect, LogDisconnected, Stop
  <2> QED
    BY <1>2, <2>1, <2>2, <2>3 DEF StopInv, StoppedIsLogged
<1> QED
  BY <1>1, <1>2 DEF TypeOK

\* Nor does any step that takes no report and sends nothing disturb it.
LEMMA StopKept ==
    ASSUME TypeOK, StopInv, live' \subseteq live,
           UNCHANGED <<started, is_stopped, hand, status, lateSends, lateReports>>,
           registered' = registered \/ (~registered' /\ is_stopped /\ Receiver \notin live'),
           killq' = killq \/ is_stopped, stopper' = stopper \/ stopper' = Nobody
    PROVE  StopInv'
<1>1. stopper' = Sender => stopper = Sender
  BY DEF Sender, Nobody
<1>2. is_stopped' => RoomLeft'
  BY <1>1, RoomKept DEF StopInv
<1> QED
  BY <1>2 DEF StopInv, StoppedIsLogged

LEMMA StopStep == TypeOK /\ StopInv /\ [Next]_vars => StopInv'
<1> SUFFICES ASSUME TypeOK, StopInv, [Next]_vars
             PROVE  StopInv'
  OBVIOUS
<1> USE DEF control, stopVars, pulse, wire, intake, boxes, reports, app
<1>1. CASE PeerRun
  <2>1. ~is_stopped' /\ UNCHANGED <<stopVars, lateSends, lateReports>> /\ started'
    BY <1>1 DEF PeerRun
  <2> QED
    BY <2>1 DEF StopInv, StoppedIsLogged
<1>2. CASE KillNext
  <2>1. is_stopped
    BY <1>2 DEF KillNext, StopInv
  <2>2. registered' = registered \/ (~registered' /\ Receiver \notin live')
    BY <1>2 DEF KillNext, Unlists, TypeOK
  <2> QED
    BY <1>2, <2>1, <2>2, StopKept DEF KillNext
<1>3. CASE Tick \/ SendPacket \/ MainFails \/ MainReady \/ SenderPing \/ ReportChecked
            \/ UNCHANGED vars
  <2>1. /\ live' \subseteq live
        /\ UNCHANGED <<started, stopVars, hand, status, lateSends, lateReports>>
    BY <1>3 DEF Tick, SendPacket, MainFails, MainReady, SenderPing, ReportChecked,
       TakeReport, AfterTurn, vars
  <2> QED
    BY <2>1, StopKept
<1>4. CASE ManagerDisconnect \/ SenderTimeout \/ MainError \/ ReportBad
  <2>1. /\ \E g : ReportDisconnect(g)
        /\ UNCHANGED <<started, hand, lateReports, lateSends>>
    BY <1>4 DEF ManagerDisconnect, SenderTimeout, SendDisconnect, MainError, ReportBad,
       TakeReport
  <2>2. PICK g : ReportDisconnect(g)
    BY <2>1
  <2>3. is_stopped => RoomLeft'
    <3>1. is_stopped => live' \subseteq live /\ stopper' = stopper
      BY <2>2, ReportStops
    <3> QED
      BY <2>1, <3>1, RoomKept DEF StopInv
  <2> QED
    BY <2>1, <2>2, <2>3, StopByReport
<1>5. ASSUME NEW kind \in Arrivals, Receive(kind)
      PROVE  StopInv'
  <2>1. live' \subseteq live
        /\ UNCHANGED <<started, stopVars, hand, status, lateSends, lateReports>>
    BY <1>5 DEF Receive, AfterTurn
  <2> QED
    BY <2>1, StopKept
<1>6. CASE MainResume
  BY <1>6, StopKept DEF MainResume
<1>7. ASSUME NEW w \in live, SendWorker(w) \/ RecvWorker(w) \/ RecvWorkerDies(w)
      PROVE  StopInv'
  <2>1. live' \subseteq live
        /\ UNCHANGED <<started, stopVars, hand, status, lateSends, lateReports>>
    BY <1>7 DEF SendWorker, RecvWorker, RecvWorkerDies, AfterTurn
  <2> QED
    BY <2>1, StopKept
<1>8. CASE SenderSends
  <2>1. /\ started' = started /\ started /\ lateReports' = lateReports
        /\ live' \subseteq live /\ status' \in {status, "disconnected"}
        /\ ~is_stopped => lateSends' = lateSends
        /\ is_stopped /\ RoomLeft => RoomLeft'
    BY <1>8, SenderFacts DEF StopInv
  <2>2. is_stopped => RoomLeft'
    BY <2>1 DEF StopInv
  <2>3. CASE ReportDisconnect(Sender)
    BY <2>1, <2>2, <2>3, StopByReport
  <2>4. CASE UNCHANGED stopVars
    BY <2>1, <2>2, <2>4 DEF StopInv, StoppedIsLogged
  <2> QED
    BY <1>8, <2>3, <2>4, SenderFacts
<1>9. CASE ReportData \/ ReportNoQueue \/ ReportNoMethod
  \* a second late report would need the receiver, which left its loop
  <2>1. /\ lateReports = 0 /\ Receiver \in live /\ started /\ registered
    BY <1>9 DEF ReportData, ReportNoQueue, ReportNoMethod, TakeReport, StopInv, TypeOK
  <2>2. /\ live' \subseteq live /\ UNCHANGED <<started, stopVars, hand, lateSends>>
        /\ lateReports' = (IF is_stopped THEN lateReports + 1 ELSE lateReports)
        /\ is_stopped => Receiver \notin live'
    BY <1>9 DEF ReportData, ReportNoQueue, ReportNoMethod, TakeReport, LogWorking,
       AfterTurn
  <2>3. is_stopped => RoomLeft'
    BY <2>2, RoomKept DEF StopInv
  <2> QED
    BY <2>1, <2>2, <2>3 DEF StopInv, StoppedIsLogged
<1> QED
  BY <1>1, <1>2, <1>3, <1>4, <1>5, <1>6, <1>7, <1>8, <1>9
     DEF Next, Hub, Environment, Workers, Reports

LEMMA StopInvariant == Spec => [](TypeOK /\ StopInv)
  BY TypeInit, TypeStep, StopInit, StopStep, PTL DEF Spec

\* At most one report and two datagrams, those of one turn, escape a stopped peer
\* (udpPeer.py:43-59, 95-131).
THEOREM StopBounded == Spec => []StopIsBounded
<1>1. TypeOK /\ StopInv => StopIsBounded
  BY DEF TypeOK, StopInv, RoomLeft, StopIsBounded
<1> QED
  BY <1>1, StopInvariant, PTL

\* The status book of a stopped peer says so, but for the late report.
THEOREM StoppedLogged == Spec => []StoppedIsLogged
<1>1. StopInv => StoppedIsLogged
  BY DEF StopInv
<1> QED
  BY <1>1, StopInvariant, PTL

\* Once out of the peer list, a peer delivers nothing and stays out.
THEOREM RemovedSilent == Spec => RemovedIsSilent
<1> DEFINE Silent == ~registered => /\ delivered' = delivered
                                    /\ status' \in {status, "disconnected"}
                                    /\ ~registered'
<1>1. TypeOK /\ StopInv /\ [Next]_vars => [Silent]_vars
  <2> SUFFICES ASSUME TypeOK, StopInv, [Next]_vars, ~registered
               PROVE  Silent
    BY DEF vars
  <2> USE DEF control, stopVars, pulse, wire, intake, boxes, reports, app
  <2>1. is_stopped /\ Receiver \notin live
    BY DEF StopInv
  <2>2. CASE PeerRun \/ KillNext \/ SenderTimeout \/ SenderPing \/ MainReady
               \/ MainResume
    BY <2>1, <2>2 DEF PeerRun, KillNext, SenderTimeout, SenderPing, SenderTurn,
       MainReady, MainResume
  <2>3. CASE Environment
    BY <2>1, <2>3 DEF Environment, SendPacket, ManagerDisconnect, Receive, Tick,
       MainFails, MainError, ReportDisconnect, LogDisconnected
  <2>4. CASE Workers
    BY <2>4 DEF Workers, SendWorker, RecvWorker, RecvWorkerDies
  <2>5. CASE SenderSends
    BY <2>1, <2>5, SenderFacts
  <2>6. CASE Reports
    BY <2>1, <2>6 DEF Reports, ReportChecked, ReportBad, ReportData, ReportNoQueue,
       ReportNoMethod, TakeReport
  <2>7. CASE UNCHANGED vars
    BY <2>7 DEF vars
  <2> QED
    BY <2>2, <2>3, <2>4, <2>5, <2>6, <2>7 DEF Next, Hub
<1> QED
  BY <1>1, StopInvariant, PTL DEF Spec, RemovedIsSilent

------------------------------------------------------------------------------
(* The peer implements PeerLife *)

LEMMA LifeInit == Init => Life!Init
  BY DEF Init, Life!Init

\* A disconnect report is the Disconnect of PeerLife when the peer runs, and
\* its LateDisconnect afterwards.
LEMMA LifeByReport ==
    ASSUME TypeOK, StopInv, NEW g, ReportDisconnect(g), lateReports' = lateReports
    PROVE  Life!Next
<1>1. CASE is_stopped
  BY <1>1 DEF ReportDisconnect, LogDisconnected, stopVars, Life!Next,
     Life!LateDisconnect
<1>2. CASE ~is_stopped
  BY <1>2 DEF TypeOK, ReportDisconnect, LogDisconnected, Stop, Life!Next,
     Life!Disconnect
<1> QED
  BY <1>1, <1>2

LEMMA LifeStep == TypeOK /\ StopInv /\ [Next]_vars => [Life!Next]_(Life!vars)
<1> SUFFICES ASSUME TypeOK, StopInv, [Next]_vars
             PROVE  Life!Next \/ UNCHANGED Life!vars
  OBVIOUS
<1> USE DEF control, stopVars, pulse, wire, intake, boxes, reports, app
<1>1. CASE PeerRun \/ Tick \/ SendPacket \/ MainFails \/ MainReady \/ MainResume
            \/ SenderPing \/ Workers \/ ReportChecked \/ UNCHANGED vars
  BY <1>1 DEF PeerRun, Tick, SendPacket, MainFails, MainReady, MainResume, SenderPing,
     Workers, SendWorker, RecvWorker, RecvWorkerDies, ReportChecked, TakeReport,
     vars, Life!vars
<1>2. ASSUME NEW kind \in Arrivals, Receive(kind)
      PROVE  UNCHANGED Life!vars
  BY <1>2 DEF Receive, Life!vars
<1>3. CASE KillNext
  <2>1. is_stopped
    BY <1>3 DEF KillNext, StopInv
  <2>2. CASE registered /\ Unlists(Head(killq))
    BY <1>3, <2>1, <2>2 DEF KillNext, Life!Next, Life!Gone
  <2>3. CASE ~(registered /\ Unlists(Head(killq)))
    BY <1>3, <2>1, <2>3 DEF KillNext, TypeOK, Life!vars
  <2> QED
    BY <2>2, <2>3
<1>4. CASE ManagerDisconnect \/ MainError \/ SenderTimeout \/ ReportBad
  <2>1. lateReports' = lateReports /\ \E g \in Greenlet \cup {Manager} : ReportDisconnect(g)
    BY <1>4 DEF ManagerDisconnect, MainError, SenderTimeout, ReportBad, SendDisconnect,
       TakeReport, Greenlet
  <2> QED
    BY <2>1, LifeByReport
<1>5. CASE SenderSends
  <2>1. CASE UNCHANGED stopVars
    <3>1. /\ status' \in {status, "disconnected"} /\ (is_stopped \/ status' = status)
          /\ lateReports' = lateReports
      BY <1>5, <2>1, SenderFacts DEF ReportDisconnect, Stop
    <3>2. is_stopped' = is_stopped /\ registered' = registered
      BY <2>1
    <3>3. CASE status' = status
      BY <3>1, <3>2, <3>3 DEF Life!vars
    <3>4. CASE is_stopped /\ status' = "disconnected"
      BY <3>1, <3>2, <3>4 DEF Life!Next, Life!LateDisconnect
    <3> QED
      BY <3>1, <3>3, <3>4
  <2>2. CASE ReportDisconnect(Sender)
    BY <1>5, <2>2, SenderFacts, LifeByReport
  <2> QED
    BY <1>5, <2>1, <2>2, SenderFacts
<1>6. CASE ReportData \/ ReportNoQueue \/ ReportNoMethod
  \* the receiver reports, so that it has not been killed and not been late
  <2>1. registered /\ lateReports = 0
    BY <1>6 DEF ReportData, ReportNoQueue, ReportNoMethod, TakeReport, StopInv, TypeOK
  <2>2. LogWorking /\ UNCHANGED <<is_stopped, registered>>
    BY <1>6 DEF ReportData, ReportNoQueue, ReportNoMethod
  <2>3. CASE is_stopped
    BY <2>1, <2>2, <2>3 DEF LogWorking, Life!Next, Life!LateWork
  <2>4. CASE ~is_stopped
    BY <2>1, <2>2, <2>4 DEF LogWorking, TypeOK, Life!Next, Life!Work
  <2> QED
    BY <2>3, <2>4
<1> QED
  BY <1>1, <1>2, <1>3, <1>4, <1>5, <1>6
     DEF Next, Hub, Environment, Reports

\* The detailed peer implements the peer the manager relies on.
THEOREM PeerImplementsLife == Spec => ImplementsPeerLife
  BY LifeInit, LifeStep, StopInvariant, PTL DEF Spec, ImplementsPeerLife, Life!Spec

------------------------------------------------------------------------------
(* The disconnect packet *)

LEMMA FarewellInit == Init => FarewellInv
<1> SUFFICES ASSUME Init PROVE FarewellInv
  OBVIOUS
<1>1. Elements(sQ) \subseteq {"hello", "confirm"}
  BY DEF Init, Elements
<1>2. Elements(vipbox) = {} /\ ~farewell /\ hand # "disconnect"
  BY DEF Init, Elements
<1> QED
  BY <1>1, <1>2 DEF FarewellInv, FarewellNeverSent

LEMMA FarewellStep == TypeOK /\ FarewellInv /\ [Next]_vars => FarewellInv'
<1> SUFFICES ASSUME TypeOK, FarewellInv, [Next]_vars
             PROVE  FarewellInv'
  OBVIOUS
<1> USE DEF control, stopVars, pulse, wire, intake, boxes, reports, app
<1>1. CASE PeerRun \/ KillNext \/ Tick \/ MainFails \/ MainReady \/ MainResume
  BY <1>1 DEF PeerRun, KillNext, Tick, MainFails, MainReady, MainResume, FarewellInv,
     FarewellNeverSent, Elements
<1>2. CASE SendPacket
  <2>1. Elements(sQ') = Elements(sQ) \cup {"data"}
    <3>1. sQ' = Append(sQ, "data") /\ sQ \in Seq(Ctrl) /\ "data" \in Ctrl
      BY <1>2 DEF SendPacket, TypeOK, Ctrl
    <3> QED
      BY <3>1, ElementsAppend
  <2> QED
    BY <1>2, <2>1 DEF SendPacket, FarewellInv, FarewellNeverSent, Elements
<1>3. CASE ManagerDisconnect \/ SenderTimeout \/ MainError
  <2>1. is_stopped' /\ UNCHANGED <<farewell, hand>>
    BY <1>3, ReportStops DEF ManagerDisconnect, SenderTimeout, SendDisconnect,
       MainError
  <2> QED
    BY <2>1 DEF FarewellInv, FarewellNeverSent
<1>4. ASSUME NEW kind \in Arrivals, Receive(kind)
      PROVE  FarewellInv'
  BY <1>4 DEF Receive, Handle, FarewellInv, FarewellNeverSent, Elements
<1>5. ASSUME NEW w \in live, SendWorker(w)
      PROVE  FarewellInv'
  <2>1. Elements(sQ) = {Head(sQ)} \cup Elements(sQ')
    BY <1>5, ElementsTail DEF SendWorker, TypeOK
  <2>2. Elements(vipbox') \subseteq Elements(vipbox) \cup {Head(sQ)}
    <3>1. Head(sQ) \in Ctrl
      BY <1>5 DEF SendWorker, TypeOK
    <3>2. Elements(Append(vipbox, Head(sQ))) = Elements(vipbox) \cup {Head(sQ)}
      BY <3>1, ElementsAppend DEF TypeOK
    <3> QED
      BY <1>5, <3>2 DEF SendWorker, Elements
  <2> QED
    BY <1>5, <2>1, <2>2 DEF SendWorker, FarewellInv, FarewellNeverSent
<1>6. ASSUME NEW w \in live, RecvWorker(w)
      PROVE  FarewellInv'
  <2>1. Elements(sQ') \subseteq Elements(sQ) \cup {"confirm", "pong"}
    BY <1>6, AnswerType, AnswerElements, ElementsConcat DEF RecvWorker, Put, TypeOK
  <2>2. UNCHANGED <<vipbox, farewell, hand, is_stopped>>
    BY <1>6 DEF RecvWorker
  <2> QED
    BY <2>1, <2>2 DEF FarewellInv, FarewellNeverSent, Elements
<1>7. ASSUME NEW w \in live, RecvWorkerDies(w)
      PROVE  FarewellInv'
  BY <1>7 DEF RecvWorkerDies, FarewellInv, FarewellNeverSent, Elements
<1>8. CASE SenderPing
  <2>1. Elements(sQ') = Elements(sQ) \cup {"ping"}
    <3>1. sQ' = Append(sQ, "ping") /\ sQ \in Seq(Ctrl) /\ "ping" \in Ctrl
      BY <1>8 DEF SenderPing, TypeOK, Ctrl
    <3> QED
      BY <3>1, ElementsAppend
  <2> QED
    BY <1>8, <2>1 DEF SenderPing, FarewellInv, FarewellNeverSent, Elements
<1>9. CASE SenderSends
  \* a packet is taken from a box in a turn that began unstopped
  <2>1. ~is_stopped => "disconnect" \notin Elements(vipbox)
    BY DEF FarewellInv
  <2>2. ~farewell' /\ hand' # "disconnect"
    BY <1>9, <2>1, SenderFacts DEF FarewellInv, FarewellNeverSent
  <2>3. /\ Elements(vipbox') \subseteq Elements(vipbox) /\ sQ' = sQ
        /\ is_stopped => is_stopped'
    BY <1>9, SenderFacts
  <2>4. Elements(sQ') = Elements(sQ)
    BY <2>3
  <2> QED
    BY <2>2, <2>3, <2>4 DEF FarewellInv, FarewellNeverSent
<1>10. CASE ReportChecked \/ ReportData \/ ReportNoQueue \/ ReportNoMethod
  BY <1>10 DEF ReportChecked, ReportData, ReportNoQueue, ReportNoMethod, TakeReport,
     FarewellInv, FarewellNeverSent, Elements
<1>11. CASE ReportBad
  <2>1. is_stopped' /\ UNCHANGED <<farewell, hand>>
    BY <1>11, ReportStops DEF ReportBad, TakeReport
  <2> QED
    BY <2>1 DEF FarewellInv, FarewellNeverSent
<1>12. CASE UNCHANGED vars
  BY <1>12 DEF vars, FarewellInv, FarewellNeverSent, Elements
<1> QED
  BY <1>1, <1>2, <1>3, <1>4, <1>5, <1>6, <1>7, <1>8, <1>9, <1>10, <1>11, <1>12
     DEF Next, Hub, Environment, Workers, Reports

\* The packet send_disconnect queues is never handed to the socket.
THEOREM FarewellSafe == Spec => []FarewellNeverSent
<1>1. FarewellInv => FarewellNeverSent
  BY DEF FarewellInv
<1> QED
  BY <1>1, TypeInit, TypeStep, FarewellInit, FarewellStep, PTL DEF Spec

------------------------------------------------------------------------------
(* The address of a session *)

LEMMA AddressInit == Init => AddressInv
<1> SUFFICES ASSUME Init, peerAddr = "listener" PROVE AddressInv
  BY DEF AddressInv
<1>1. sQ = <<"hello">>
  BY DEF Init
<1>2. "confirm" \notin Elements(sQ)
  BY <1>1 DEF Elements
<1> QED
  BY <1>2 DEF Init, AddressInv

LEMMA AddressStep == TypeOK /\ AddressInv /\ [Next]_vars => AddressInv'
<1> SUFFICES ASSUME TypeOK, AddressInv, [Next]_vars, peerAddr' = "listener"
             PROVE  AddressInv'
  BY DEF AddressInv
<1> USE DEF control, stopVars, pulse, wire, intake, boxes, reports, app
<1>1. ASSUME peerAddr = "listener", inbox' = inbox, message' = message,
             hello_received' = hello_received,
             Elements(sQ') \subseteq Elements(sQ)
                                \cup {"data", "ping", "disconnect"}
      PROVE  AddressInv'
  BY <1>1 DEF AddressInv
<1>2. CASE PeerRun \/ KillNext \/ Tick \/ MainFails \/ MainReady \/ SenderSends
            \/ Reports \/ UNCHANGED vars
  <2>1. /\ peerAddr' = peerAddr /\ inbox' = inbox /\ message' = message
        /\ sQ' = sQ /\ hello_received' = hello_received
    BY <1>2, SenderFacts DEF PeerRun, KillNext, Tick, MainFails, MainReady, Reports,
       ReportChecked, ReportBad, ReportData, ReportNoQueue, ReportNoMethod,
       TakeReport, vars
  <2> QED
    BY <1>1, <2>1
<1>3. CASE SendPacket
  <2>1. sQ' = Append(sQ, "data") /\ "data" \in Ctrl
    BY <1>3 DEF SendPacket, Ctrl
  <2>2. Elements(sQ') = Elements(sQ) \cup {"data"}
    BY <2>1, ElementsAppend DEF TypeOK
  <2> QED
    BY <1>1, <1>3, <2>2 DEF SendPacket
<1>4. CASE SenderPing
  <2>1. sQ' = Append(sQ, "ping") /\ "ping" \in Ctrl
    BY <1>4 DEF SenderPing, Ctrl
  <2>2. Elements(sQ') = Elements(sQ) \cup {"ping"}
    BY <2>1, ElementsAppend DEF TypeOK
  <2> QED
    BY <1>1, <1>4, <2>2 DEF SenderPing
<1>5. CASE ManagerDisconnect \/ SenderTimeout
  <2>1. sQ' = Append(sQ, "disconnect") /\ "disconnect" \in Ctrl
    BY <1>5 DEF ManagerDisconnect, SenderTimeout, SendDisconnect, Ctrl
  <2>2. Elements(sQ') = Elements(sQ) \cup {"disconnect"}
    BY <2>1, ElementsAppend DEF TypeOK
  <2>3. /\ peerAddr' = peerAddr /\ inbox' = inbox /\ message' = message
        /\ hello_received' = hello_received
    BY <1>5 DEF ManagerDisconnect, SenderTimeout
  <2> QED
    BY <1>1, <2>2, <2>3
<1>6. ASSUME NEW kind \in Arrivals, Receive(kind)
      PROVE  FALSE
  BY <1>6 DEF Receive, TakeAddr
<1>7. ASSUME NEW w \in live, SendWorker(w)
      PROVE  AddressInv'
  <2>1. peerAddr' = peerAddr /\ inbox' = inbox /\ message' = message
    BY <1>7 DEF SendWorker
  <2>2. Elements(sQ) = {Head(sQ)} \cup Elements(sQ')
    BY <1>7, ElementsTail DEF SendWorker, TypeOK
  <2>3. hello_received' = hello_received
    BY <1>7, <2>1, <2>2 DEF SendWorker, AddressInv, TypeOK
  <2> QED
    BY <1>1, <2>1, <2>2, <2>3
<1>8. ASSUME NEW w \in live, RecvWorker(w) \/ RecvWorkerDies(w)
      PROVE  FALSE
  BY <1>8 DEF RecvWorker, RecvWorkerDies, AddressInv
<1>9. CASE MainError \/ MainResume
  \* no message yet, so that none is handled again
  <2>1. HandleStale => inbox' = inbox \/ message # NoMessage
    BY DEF HandleStale
  <2> QED
    BY <1>1, <1>9, <2>1 DEF MainError, MainResume, AddressInv
<1> QED
  BY <1>2, <1>3, <1>4, <1>5, <1>6, <1>7, <1>8, <1>9
     DEF Next, Hub, Environment, Workers

\* A confirmed session talks to the remote's peer socket.
THEOREM SessionAddressSafe == Spec => []SessionAddressed
<1>1. TypeOK /\ AddressInv => SessionAddressed
  BY DEF TypeOK, AddressInv, SessionAddressed
<1> QED
  BY <1>1, TypeInit, TypeStep, AddressInit, AddressStep, PTL DEF Spec

------------------------------------------------------------------------------
(* The order of data *)

\* Numbers and their order in a queue that grows at the end or shrinks at the
\* head.
LEMMA NumbersAppend ==
    ASSUME NEW S, NEW q \in Seq(S), NEW e \in S
    PROVE  Numbers(Append(q, e)) =
             Numbers(q) \cup (IF e.kind = "data" THEN {e.n} ELSE {})
<1> DEFINE s == Append(q, e)
<1>1. Len(q) \in Nat /\ Len(s) = Len(q) + 1 /\ s[Len(q) + 1] = e
  BY AppendProperties
<1>2. \A i \in 1..Len(q) : s[i] = q[i]
  BY AppendProperties
<1>3. 1..Len(s) = 1..Len(q) \cup {Len(q) + 1}
  BY <1>1
<1> HIDE DEF s
<1>4. Numbers(s) \subseteq Numbers(q) \cup (IF e.kind = "data" THEN {e.n} ELSE {})
  BY <1>1, <1>2, <1>3 DEF Numbers
<1>5. Numbers(q) \subseteq Numbers(s)
  BY <1>1, <1>2, <1>3 DEF Numbers
<1>6. e.kind = "data" => e.n \in Numbers(s)
  BY <1>1, <1>3 DEF Numbers
<1>7. Numbers(s) = Numbers(q) \cup (IF e.kind = "data" THEN {e.n} ELSE {})
  BY <1>4, <1>5, <1>6
<1> QED
  BY <1>7 DEF s

LEMMA NumbersTail ==
    ASSUME NEW S, NEW q \in Seq(S), q # <<>>
    PROVE  Numbers(q) =
             Numbers(Tail(q)) \cup (IF Head(q).kind = "data" THEN {Head(q).n} ELSE {})
<1> DEFINE t == Tail(q)
<1>1. Len(q) \in Nat \ {0} /\ Head(q) = q[1] /\ Len(t) = Len(q) - 1
  OBVIOUS
<1>2. \A i \in 1..Len(t) : t[i] = q[i + 1] /\ i + 1 \in 1..Len(q)
  OBVIOUS
<1>3. \A i \in 1..Len(q) : i = 1 \/ (i - 1 \in 1..Len(t) /\ q[i] = t[i - 1])
  BY <1>1, <1>2
<1>4. 1 \in 1..Len(q)
  BY <1>1
<1> HIDE DEF t
<1>5. Numbers(q) \subseteq Numbers(t) \cup (IF Head(q).kind = "data" THEN {Head(q).n} ELSE {})
  BY <1>1, <1>3 DEF Numbers
<1>6. Numbers(t) \subseteq Numbers(q)
  BY <1>2 DEF Numbers
<1>7. Head(q).kind = "data" => Head(q).n \in Numbers(q)
  BY <1>1, <1>4 DEF Numbers
<1>8. Numbers(q) = Numbers(t) \cup (IF Head(q).kind = "data" THEN {Head(q).n} ELSE {})
  BY <1>5, <1>6, <1>7
<1> QED
  BY <1>8 DEF t

LEMMA RisingAppend ==
    ASSUME NEW S, NEW q \in Seq(S), NEW e \in S, NEW stopped,
           RisingQueue(stopped, q),
           e.kind = "data" => \A a \in Numbers(q) : Rising(stopped, a, e.n)
    PROVE  RisingQueue(stopped, Append(q, e))
<1> DEFINE s == Append(q, e)
<1>1. Len(q) \in Nat /\ Len(s) = Len(q) + 1 /\ s[Len(q) + 1] = e
  BY AppendProperties
<1>2. \A i \in 1..Len(q) : s[i] = q[i]
  BY AppendProperties
<1> HIDE DEF s
<1>3. ASSUME NEW i \in 1..Len(s), NEW j \in 1..Len(s), i < j,
             s[i].kind = "data", s[j].kind = "data"
      PROVE  Rising(stopped, s[i].n, s[j].n)
  <2>1. i \in 1..Len(q) /\ s[i] = q[i]
    BY <1>1, <1>2, <1>3
  <2>2. CASE j = Len(q) + 1
    BY <1>1, <1>3, <2>1, <2>2 DEF Numbers
  <2>3. CASE j # Len(q) + 1
    <3>1. j \in 1..Len(q) /\ s[j] = q[j]
      BY <1>1, <1>2, <2>3
    <3> QED
      BY <1>3, <2>1, <3>1 DEF RisingQueue
  <2> QED
    BY <2>2, <2>3
<1>4. RisingQueue(stopped, s)
  BY <1>3 DEF RisingQueue
<1> QED
  BY <1>4 DEF s

LEMMA RisingTail ==
    ASSUME NEW S, NEW q \in Seq(S), q # <<>>, NEW stopped, RisingQueue(stopped, q)
    PROVE  /\ RisingQueue(stopped, Tail(q))
           /\ Head(q).kind = "data" =>
                 \A a \in Numbers(Tail(q)) : Rising(stopped, Head(q).n, a)
<1> DEFINE t == Tail(q)
<1>1. Len(q) \in Nat \ {0} /\ Head(q) = q[1] /\ Len(t) = Len(q) - 1
  OBVIOUS
<1>2. \A i \in 1..Len(t) : t[i] = q[i + 1] /\ i + 1 \in 1..Len(q)
  OBVIOUS
<1> HIDE DEF t
<1>3. RisingQueue(stopped, t)
  <2> SUFFICES ASSUME NEW i \in 1..Len(t), NEW j \in 1..Len(t), i < j,
                      t[i].kind = "data", t[j].kind = "data"
               PROVE  Rising(stopped, t[i].n, t[j].n)
    BY DEF RisingQueue
  <2>1. i + 1 < j + 1
    BY <1>1
  <2> QED
    BY <1>2, <2>1 DEF RisingQueue
<1>4. ASSUME Head(q).kind = "data", NEW a \in Numbers(t)
      PROVE  Rising(stopped, Head(q).n, a)
  <2>1. PICK i \in 1..Len(t) : t[i].kind = "data" /\ a = t[i].n
    BY DEF Numbers
  <2>2. 1 \in 1..Len(q) /\ 1 < i + 1
    BY <1>1
  <2> QED
    BY <1>1, <1>2, <1>4, <2>1, <2>2 DEF RisingQueue
<1> QED
  BY <1>3, <1>4 DEF t

\* A stop only weakens the order.
LEMMA RisingWeaker ==
    ASSUME NEW stopped, NEW later, stopped => later
    PROVE  /\ \A A, B : AllRising(stopped, A, B) => AllRising(later, A, B)
           /\ \A q : RisingQueue(stopped, q) => RisingQueue(later, q)
  BY DEF AllRising, RisingQueue, Rising

LEMMA NumbersType ==
    ASSUME NEW S, NEW q \in Seq(S), \A e \in S : e.n \in Nat
    PROVE  Numbers(q) \subseteq Nat
<1>1. \A i \in 1..Len(q) : q[i] \in S
  OBVIOUS
<1> QED
  BY <1>1 DEF Numbers

LEMMA OrderInit == Init => OrderInv
<1> SUFFICES ASSUME Init PROVE OrderInv
  OBVIOUS
<1>1. Elements(delivered) = {} /\ Numbers(rQ) = {} /\ Numbers(inbox) = {}
  BY DEF Init, Elements, Numbers
<1>2. RisingQueue(is_stopped, rQ) /\ RisingQueue(is_stopped, inbox)
  BY DEF Init, RisingQueue
<1>3. DeliveredInOrder
  BY DEF Init, DeliveredInOrder
<1>4. message.kind # "data"
  BY DEF Init, NoMessage
<1> QED
  BY <1>1, <1>2, <1>3, <1>4 DEF OrderInv, AllRising

\* A step that moves no data keeps the order, whether or not it stops the peer.
LEMMA OrderKept ==
    ASSUME OrderInv, is_stopped => is_stopped',
           UNCHANGED <<delivered, rQ, inbox, dataIn, message, lateReports>>
    PROVE  OrderInv'
<1>1. DeliveredInOrder'
  BY DEF OrderInv, DeliveredInOrder
<1> QED
  BY <1>1, RisingWeaker DEF OrderInv

\* Nor does a step that takes something that is no data from the reports, or
\* from the datagrams.
LEMMA OrderDropped ==
    ASSUME TypeOK, OrderInv, is_stopped => is_stopped',
           UNCHANGED <<delivered, dataIn, message>>, DeliveredInOrder',
           \/ inbox' = inbox /\ rQ # <<>> /\ rQ' = Tail(rQ)
           \/ rQ' = rQ /\ inbox # <<>> /\ inbox' = Tail(inbox)
    PROVE  OrderInv'
<1>1. CASE inbox' = inbox /\ rQ # <<>> /\ rQ' = Tail(rQ)
  <2>1. Numbers(rQ') \subseteq Numbers(rQ) /\ RisingQueue(is_stopped, rQ')
    BY <1>1, NumbersTail, RisingTail DEF TypeOK, OrderInv
  <2>2. /\ AllRising(is_stopped, Elements(delivered), Numbers(rQ') \cup Numbers(inbox))
        /\ AllRising(is_stopped, Numbers(rQ'), Numbers(inbox))
        /\ \A a \in Elements(delivered) \cup Numbers(rQ') \cup Numbers(inbox) : a <= dataIn
    BY <2>1 DEF OrderInv, AllRising
  <2> QED
    BY <1>1, <2>1, <2>2, RisingWeaker DEF OrderInv
<1>2. CASE rQ' = rQ /\ inbox # <<>> /\ inbox' = Tail(inbox)
  <2>1. Numbers(inbox') \subseteq Numbers(inbox) /\ RisingQueue(is_stopped, inbox')
    BY <1>2, NumbersTail, RisingTail DEF TypeOK, OrderInv
  <2>2. /\ AllRising(is_stopped, Elements(delivered), Numbers(rQ) \cup Numbers(inbox'))
        /\ AllRising(is_stopped, Numbers(rQ), Numbers(inbox'))
        /\ \A a \in Elements(delivered) \cup Numbers(rQ) \cup Numbers(inbox') : a <= dataIn
    BY <2>1 DEF OrderInv, AllRising
  <2> QED
    BY <1>2, <2>1, <2>2, RisingWeaker DEF OrderInv
<1> QED
  BY <1>1, <1>2

\* Whatever reports a disconnect, the peer stays stopped.
LEMMA StaysStopped ==
    ASSUME NEW g, ReportDisconnect(g)
    PROVE  is_stopped => is_stopped'
  BY DEF ReportDisconnect, stopVars

LEMMA OrderStep == TypeOK /\ StopInv /\ OrderInv /\ [Next]_vars => OrderInv'
<1> SUFFICES ASSUME TypeOK, StopInv, OrderInv, [Next]_vars
             PROVE  OrderInv'
  OBVIOUS
<1> USE DEF control, stopVars, pulse, wire, intake, boxes, reports, app
<1>1. CASE PeerRun \/ KillNext \/ SenderPing \/ SendPacket \/ MainFails \/ MainReady
            \/ Tick \/ (\E w \in live : SendWorker(w)) \/ UNCHANGED vars
  <2>1. UNCHANGED <<delivered, rQ, inbox, dataIn, message, lateReports, is_stopped>>
    BY <1>1 DEF PeerRun, KillNext, SenderPing, SendPacket, MainFails, MainReady,
       Tick, SendWorker, vars
  <2> QED
    BY <2>1, OrderKept
<1>2. CASE ManagerDisconnect \/ SenderTimeout \/ SenderSends
  <2>1. UNCHANGED <<delivered, rQ, inbox, dataIn, message, lateReports>>
    BY <1>2, SenderFacts DEF ManagerDisconnect, SenderTimeout
  <2>2. is_stopped => is_stopped'
    BY <1>2, StaysStopped, SenderFacts DEF ManagerDisconnect, SenderTimeout,
       SendDisconnect
  <2> QED
    BY <2>1, <2>2, OrderKept
<1>3. ASSUME NEW kind \in Arrivals, Receive(kind)
      PROVE  OrderInv'
  \* the new number is above all others
  <2> DEFINE new == Numbers(inbox) \cup (IF kind = "data" THEN {dataIn + 1} ELSE {})
  <2>1. /\ inbox' = Append(inbox, message') /\ message'.kind = kind
        /\ UNCHANGED <<rQ, delivered, is_stopped, lateReports>>
        /\ dataIn' = (IF kind = "data" THEN dataIn + 1 ELSE dataIn)
        /\ kind = "data" => message'.n = dataIn'
    BY <1>3 DEF Receive, Handle
  <2>2. message' \in Datagram
    BY <1>3, <2>1, ArrivalsAssumption DEF Receive, TypeOK, Datagram
  <2>3. Numbers(inbox') = new
    BY <2>1, <2>2, NumbersAppend DEF TypeOK
  <2>4. \A a \in Elements(delivered) \cup Numbers(rQ) \cup Numbers(inbox) :
            a \in Nat /\ a <= dataIn
    <3>1. Elements(delivered) \subseteq Nat
      BY DEF TypeOK, Elements
    <3>2. rQ \in Seq(ReportType) /\ inbox \in Seq(Datagram)
      BY DEF TypeOK
    <3>3. (\A e \in ReportType : e.n \in Nat) /\ (\A e \in Datagram : e.n \in Nat)
      BY DEF Datagram, ReportType
    <3>4. Numbers(rQ) \subseteq Nat
      BY <3>2, <3>3, NumbersType
    <3>5. Numbers(inbox) \subseteq Nat
      BY <3>2, <3>3, NumbersType
    <3> QED
      BY <3>1, <3>4, <3>5 DEF OrderInv
  <2>5. \A a \in Elements(delivered) \cup Numbers(rQ) \cup Numbers(inbox) :
            Rising(is_stopped, a, dataIn + 1)
    BY <2>4 DEF TypeOK, Rising
  <2>6. RisingQueue(is_stopped, inbox')
    BY <2>1, <2>2, <2>5, RisingAppend DEF TypeOK, OrderInv
  <2>7. DeliveredInOrder'
    BY <2>1 DEF OrderInv, DeliveredInOrder
  <2>8. \A a \in Elements(delivered) \cup Numbers(rQ) \cup new : a <= dataIn'
    BY <2>1, <2>4 DEF TypeOK
  <2>9. /\ AllRising(is_stopped, Elements(delivered), Numbers(rQ) \cup new)
        /\ AllRising(is_stopped, Numbers(rQ), new)
    BY <2>5 DEF OrderInv, AllRising
  <2> HIDE DEF new
  <2> QED
    BY <2>1, <2>3, <2>6, <2>7, <2>8, <2>9 DEF OrderInv
<1>4. CASE MainError \/ MainResume
  <2>1. is_stopped => is_stopped'
    BY <1>4, StaysStopped DEF MainError, MainResume
  <2>2. UNCHANGED <<delivered, rQ, dataIn, message, lateReports>>
    BY <1>4 DEF MainError, MainResume
  <2>3. inbox' = inbox \/ (is_stopped /\ HandleStale)
    <3>1. stopper = Main => is_stopped
      BY DEF StopInv, Main, Nobody
    <3> QED
      BY <1>4, <3>1 DEF MainError, MainResume
  <2>4. CASE inbox' = inbox
    BY <2>1, <2>2, <2>4, OrderKept
  <2>5. CASE is_stopped /\ HandleStale /\ message # NoMessage
    \* the stale message is the last one taken in, so that none is above it
    <3>1. message \in Datagram /\ inbox' = Append(inbox, message) /\ is_stopped'
      BY <2>1, <2>5 DEF HandleStale, Handle, TypeOK
    <3>2. Numbers(inbox') \subseteq Numbers(inbox)
                             \cup (IF message.kind = "data" THEN {dataIn} ELSE {})
      BY <3>1, NumbersAppend DEF TypeOK, OrderInv
    <3>3. \A a \in Elements(delivered) \cup Numbers(rQ) \cup Numbers(inbox) :
              Rising(is_stopped, a, dataIn)
      BY <2>5 DEF OrderInv, Rising
    <3>4. RisingQueue(is_stopped, inbox')
      BY <3>1, <3>3, RisingAppend DEF TypeOK, OrderInv
    <3>5. DeliveredInOrder'
      BY <2>2 DEF OrderInv, DeliveredInOrder
    <3>6. \A a \in Numbers(inbox') : a <= dataIn
      BY <3>2 DEF TypeOK, OrderInv
    <3>7. /\ AllRising(is_stopped, Elements(delivered), Numbers(rQ) \cup Numbers(inbox'))
          /\ AllRising(is_stopped, Numbers(rQ), Numbers(inbox'))
      BY <3>2, <3>3 DEF OrderInv, AllRising
    <3> QED
      BY <2>2, <2>5, <3>1, <3>4, <3>5, <3>6, <3>7 DEF OrderInv
  <2>6. HandleStale /\ message = NoMessage => inbox' = inbox
    BY DEF HandleStale
  <2> QED
    BY <2>3, <2>4, <2>5, <2>6
<1>5. ASSUME NEW w \in live, RecvWorkerDies(w)
      PROVE  OrderInv'
  <2>1. DeliveredInOrder'
    BY <1>5 DEF RecvWorkerDies, OrderInv, DeliveredInOrder
  <2> QED
    BY <1>5, <2>1, OrderDropped DEF RecvWorkerDies
<1>6. ASSUME NEW w \in live, RecvWorker(w)
      PROVE  OrderInv'
  <2> DEFINE d == Head(inbox)
             t == Tail(inbox)
             got == IF d.kind = "data" THEN {d.n} ELSE {}
  <2>1. /\ inbox # <<>> /\ inbox' = t /\ rQ' = rQ \o Reply(d)
        /\ UNCHANGED <<delivered, dataIn, message, lateReports, is_stopped>>
    BY <1>6 DEF RecvWorker, Put
  <2>2. /\ Numbers(inbox) = Numbers(t) \cup got
        /\ RisingQueue(is_stopped, t) /\ AllRising(is_stopped, got, Numbers(t))
    BY <2>1, NumbersTail, RisingTail DEF TypeOK, OrderInv, AllRising
  <2>3. Numbers(rQ') \subseteq Numbers(rQ) \cup got /\ RisingQueue(is_stopped, rQ')
    <3> rQ \in Seq(ReportType)
      BY DEF TypeOK
    <3>1. CASE Reply(d) = <<>>
      <4>1. rQ' = rQ
        BY <2>1, <3>1, ConcatEmptySeq
      <4> QED
        BY <4>1 DEF OrderInv
    <3>2. ASSUME NEW e \in ReportType, Reply(d) = <<e>>,
                 e.kind = "data" => e = d
          PROVE  Numbers(rQ') \subseteq Numbers(rQ) \cup got /\ RisingQueue(is_stopped, rQ')
      <4>1. rQ' = Append(rQ, e)
        BY <2>1, <3>2, AppendIsConcat
      <4>2. e.kind = "data" => \A a \in Numbers(rQ) : Rising(is_stopped, a, e.n)
        BY <2>2, <3>2 DEF OrderInv, AllRising
      <4> QED
        BY <3>2, <4>1, <4>2, NumbersAppend, RisingAppend DEF TypeOK, OrderInv
    <3>3. d \in Datagram
      BY <2>1 DEF TypeOK
    <3>4. {Bad, Checked} \subseteq ReportType /\ Bad.kind # "data" /\ Checked.kind # "data"
      BY DEF Bad, Checked, ReportType
    <3>5. d.kind \in DataKinds => d \in ReportType
      BY <3>3 DEF Datagram, ReportType, DataKinds
    <3> HIDE DEF d
    <3> QED
      BY <3>1, <3>2, <3>4, <3>5, ReplyCases
  <2>4. DeliveredInOrder'
    BY <2>1 DEF OrderInv, DeliveredInOrder
  <2> HIDE DEF d, t, got
  <2> QED
    BY <2>1, <2>2, <2>3, <2>4 DEF OrderInv, AllRising
<1>7. CASE ReportChecked \/ ReportBad \/ ReportNoQueue \/ ReportNoMethod
  <2>1. is_stopped => is_stopped'
    BY <1>7, StaysStopped DEF ReportChecked, ReportBad, ReportNoQueue, ReportNoMethod
  <2>2. UNCHANGED delivered /\ lateReports <= lateReports'
        /\ (lateReports = 1 => lateReports' = 1)
    BY <1>7 DEF ReportChecked, ReportBad, ReportNoQueue, ReportNoMethod, LogWorking,
       TakeReport, TypeOK, StopInv
  <2>3. DeliveredInOrder'
    BY <2>2 DEF OrderInv, DeliveredInOrder
  <2> QED
    BY <1>7, <2>1, <2>2, <2>3, OrderDropped
       DEF ReportChecked, ReportBad, ReportNoQueue, ReportNoMethod, TakeReport
<1>8. CASE ReportData
  <2> DEFINE n == Head(rQ).n
             t == Tail(rQ)
  <2>1. /\ rQ # <<>> /\ rQ' = t /\ Head(rQ).kind = "data"
        /\ delivered' = Append(delivered, n)
        /\ UNCHANGED <<inbox, dataIn, message, is_stopped>>
    BY <1>8 DEF ReportData, TakeReport
  <2>2. lateReports = 0 /\ lateReports' = IF is_stopped THEN 1 ELSE 0
    BY <1>8 DEF ReportData, TakeReport, LogWorking, StopInv, TypeOK
  <2> rQ \in Seq(ReportType)
    BY DEF TypeOK
  <2>3. /\ Numbers(rQ) = Numbers(t) \cup {n}
        /\ RisingQueue(is_stopped, t) /\ AllRising(is_stopped, {n}, Numbers(t))
    <3>1. Numbers(rQ) = Numbers(t) \cup {n}
      BY <2>1, NumbersTail
    <3>2. RisingQueue(is_stopped, t) /\ \A a \in Numbers(t) : Rising(is_stopped, n, a)
      BY <2>1, RisingTail DEF OrderInv
    <3> HIDE DEF n, t
    <3> QED
      BY <3>1, <3>2 DEF AllRising
  <2>4. n \in Nat
    <3>1. Head(rQ) \in ReportType
      BY <2>1
    <3> QED
      BY <3>1 DEF ReportType
  <2> delivered \in Seq(Nat)
    BY DEF TypeOK
  <2>5. Elements(delivered') = Elements(delivered) \cup {n}
    <3> HIDE DEF n, t
    <3> QED
      BY <2>1, <2>4, ElementsAppend
  <2>6. \A a \in Elements(delivered) : Rising(is_stopped, a, n)
    BY <2>3 DEF OrderInv, AllRising
  <2>7. DeliveredInOrder'
    <3>1. /\ Len(delivered) \in Nat /\ Len(delivered') = Len(delivered) + 1
          /\ delivered'[Len(delivered) + 1] = n
          /\ \A i \in 1..Len(delivered) : delivered'[i] = delivered[i]
      BY <2>1, <2>4, AppendProperties DEF TypeOK
    <3>2. ASSUME NEW i \in 1..Len(delivered'), NEW j \in 1..Len(delivered'), i < j
          PROVE  \/ delivered'[i] < delivered'[j]
                 \/ /\ lateReports' = 1 /\ j = Len(delivered')
                    /\ delivered'[i] = delivered'[j]
      <4>1. i \in 1..Len(delivered) /\ delivered'[i] = delivered[i]
        BY <3>1, <3>2
      <4>2. CASE j \in 1..Len(delivered)
        BY <2>2, <3>1, <3>2, <4>1, <4>2 DEF OrderInv, DeliveredInOrder
      <4>3. CASE j = Len(delivered) + 1
        <5>1. delivered[i] \in Elements(delivered) /\ delivered[i] \in Nat
          <6>1. i \in 1..Len(delivered)
            BY <4>1
          <6> QED
            BY <6>1 DEF Elements
        <5>2. delivered[i] <= n /\ (~is_stopped => delivered[i] < n)
          BY <2>6, <5>1 DEF Rising
        <5>3. is_stopped => lateReports' = 1
          BY <2>2
        <5> QED
          BY <2>4, <3>1, <4>1, <4>3, <5>1, <5>2, <5>3
      <4> QED
        BY <3>1, <4>2, <4>3
    <3> QED
      BY <3>2 DEF DeliveredInOrder
  <2> HIDE DEF n, t
  <2>8. AllRising(is_stopped, Elements(delivered'), Numbers(rQ') \cup Numbers(inbox'))
    BY <2>1, <2>3, <2>5 DEF OrderInv, AllRising
  <2> QED
    BY <2>1, <2>3, <2>5, <2>7, <2>8 DEF OrderInv, AllRising
<1> QED
  BY <1>1, <1>2, <1>3, <1>4, <1>5, <1>6, <1>7, <1>8
     DEF Next, Hub, Environment, Workers, Reports

LEMMA OrderInvariant == Spec => []OrderInv
  BY OrderInit, OrderStep, StopInvariant, PTL DEF Spec

\* Data is delivered in the order of arrival, and repeated only by the one late
\* report of a stopping peer.
THEOREM DataInOrder == Spec => []DeliveredInOrder
<1>1. OrderInv => DeliveredInOrder
  BY DEF OrderInv
<1> QED
  BY <1>1, OrderInvariant, PTL

------------------------------------------------------------------------------
(* Nothing is lost silently *)

EndQueued(q) == \E i \in 1..Len(q) : q[i].kind = "disconnect"

LEMMA EndQueuedTail ==
    ASSUME NEW S, NEW q \in Seq(S), q # <<>>, Head(q).kind # "disconnect",
           EndQueued(q)
    PROVE  EndQueued(Tail(q))
<1>1. PICK i \in 1..Len(q) : q[i].kind = "disconnect"
  BY DEF EndQueued
<1>2. i # 1
  BY <1>1
<1>3. Len(q) \in Nat /\ Len(Tail(q)) = Len(q) - 1
  OBVIOUS
<1>4. i - 1 \in 1..Len(Tail(q))
  BY <1>2, <1>3
<1>5. Tail(q)[i - 1] = q[i]
  BY <1>3, <1>4
<1> QED
  BY <1>1, <1>4, <1>5 DEF EndQueued

LEMMA EndQueuedAppend ==
    ASSUME NEW S, NEW q \in Seq(S), NEW e \in S
    PROVE  EndQueued(q) \/ e.kind = "disconnect" => EndQueued(Append(q, e))
<1>1. /\ Len(q) \in Nat /\ Len(Append(q, e)) = Len(q) + 1
      /\ Append(q, e)[Len(q) + 1] = e
      /\ \A i \in 1..Len(q) : Append(q, e)[i] = q[i]
  BY AppendProperties
<1>2. 1..Len(q) \subseteq 1..Len(Append(q, e)) /\ Len(q) + 1 \in 1..Len(Append(q, e))
  BY <1>1
<1> QED
  BY <1>1, <1>2 DEF EndQueued

LEMMA LossStep == TypeOK /\ StopInv /\ NoSilentLoss /\ [Next]_vars => NoSilentLoss'
<1> SUFFICES ASSUME TypeOK, StopInv, NoSilentLoss, [Next]_vars
             PROVE  NoSilentLoss'
  OBVIOUS
<1> USE DEF control, stopVars, pulse, wire, intake, boxes, reports, app
<1> DEFINE seen == Elements(delivered) \cup Numbers(rQ) \cup Numbers(inbox)
<1> inbox \in Seq(Datagram) /\ rQ \in Seq(ReportType) /\ delivered \in Seq(Nat)
    /\ dataIn \in Nat
  BY DEF TypeOK
<1>a. is_stopped \/ EndQueued(rQ) \/ 1..dataIn \subseteq seen
  BY DEF NoSilentLoss, SessionEnding, EndQueued
<1>b. ASSUME is_stopped' \/ EndQueued(rQ') \/ 1..dataIn' \subseteq seen'
      PROVE  NoSilentLoss'
  BY <1>b DEF NoSilentLoss, SessionEnding, EndQueued
<1>1. CASE PeerRun \/ KillNext \/ SenderPing \/ SendPacket \/ MainFails \/ MainReady
            \/ Tick \/ (\E w \in live : SendWorker(w)) \/ UNCHANGED vars
  <2>1. UNCHANGED <<delivered, rQ, inbox, dataIn, is_stopped>>
    BY <1>1 DEF PeerRun, KillNext, SenderPing, SendPacket, MainFails, MainReady,
       Tick, SendWorker, vars
  <2> QED
    BY <2>1, <1>a, <1>b
<1>2. CASE ManagerDisconnect \/ SenderTimeout \/ MainError \/ ReportBad
  <2>1. \E g : ReportDisconnect(g)
    BY <1>2 DEF ManagerDisconnect, SenderTimeout, SendDisconnect, MainError, ReportBad
  <2>2. is_stopped'
    BY <2>1, ReportStops
  <2> QED
    BY <2>2, <1>b
<1>8. CASE SenderSends
  <2>1. UNCHANGED <<delivered, rQ, inbox, dataIn>> /\ (is_stopped => is_stopped')
    BY <1>8, SenderFacts
  <2> QED
    BY <2>1, <1>a, <1>b
<1>9. CASE MainResume
  <2>1. is_stopped'
    BY <1>9 DEF MainResume, StopInv, Main, Nobody
  <2> QED
    BY <2>1, <1>b
<1>3. ASSUME NEW kind \in Arrivals, Receive(kind)
      PROVE  NoSilentLoss'
  <2>1. /\ inbox' = Append(inbox, message') /\ message'.kind = kind
        /\ UNCHANGED <<rQ, delivered, is_stopped>>
        /\ dataIn' = (IF kind = "data" THEN dataIn + 1 ELSE dataIn)
        /\ kind = "data" => message'.n = dataIn'
    BY <1>3 DEF Receive, Handle
  <2>2. message' \in Datagram
    BY <1>3, <2>1, ArrivalsAssumption DEF Receive, Datagram
  <2>3. Numbers(inbox') = Numbers(inbox) \cup (IF kind = "data" THEN {dataIn + 1} ELSE {})
    BY <2>1, <2>2, NumbersAppend
  <2>4. 1..dataIn' \subseteq 1..dataIn \cup (IF kind = "data" THEN {dataIn + 1} ELSE {})
    BY <2>1
  <2> QED
    BY <2>1, <2>3, <2>4, <1>a, <1>b
<1>4. ASSUME NEW w \in live, RecvWorkerDies(w)
      PROVE  NoSilentLoss'
  <2>1. /\ inbox # <<>> /\ inbox' = Tail(inbox) /\ Head(inbox).kind = "garbled"
        /\ UNCHANGED <<rQ, delivered, dataIn, is_stopped>>
    BY <1>4 DEF RecvWorkerDies
  <2>2. Numbers(inbox) = Numbers(inbox')
    BY <2>1, NumbersTail
  <2> QED
    BY <2>1, <2>2, <1>a, <1>b
<1>5. ASSUME NEW w \in live, RecvWorker(w)
      PROVE  NoSilentLoss'
  <2> DEFINE d == Head(inbox)
  <2>1. /\ inbox # <<>> /\ inbox' = Tail(inbox) /\ rQ' = rQ \o Reply(d)
        /\ UNCHANGED <<delivered, dataIn, is_stopped>>
    BY <1>5 DEF RecvWorker, Put
  <2>2. d \in Datagram
    BY <2>1
  <2>3. Numbers(inbox) = Numbers(inbox') \cup (IF d.kind = "data" THEN {d.n} ELSE {})
    BY <2>1, NumbersTail
  <2>4. {Bad, Checked} \subseteq ReportType
    BY DEF Bad, Checked, ReportType
  <2>5. d.kind \in DataKinds => d \in ReportType
    BY <2>2 DEF Datagram, ReportType, DataKinds
  <2> HIDE DEF d
  <2>6. CASE d.kind # "data" /\ Reply(d) = <<>>
    BY <2>1, <2>3, <2>6, <1>a, <1>b, ConcatEmptySeq
  <2>7. ASSUME NEW e \in ReportType, Reply(d) = <<e>>,
               d.kind = "data" => e \in {d, Bad}
        PROVE  NoSilentLoss'
    <3>1. rQ' = Append(rQ, e)
      BY <2>1, <2>7, AppendIsConcat
    <3>2. EndQueued(rQ) \/ e.kind = "disconnect" => EndQueued(rQ')
      BY <3>1, EndQueuedAppend
    <3>3. Numbers(rQ') = Numbers(rQ) \cup (IF e.kind = "data" THEN {e.n} ELSE {})
      BY <3>1, NumbersAppend
    <3>4. Bad.kind = "disconnect"
      BY DEF Bad
    <3> QED
      BY <2>1, <2>3, <2>7, <3>2, <3>3, <3>4, <1>a, <1>b
  <2>8. CASE d.kind \in DataKinds
    <3>1. Reply(d) \in {<<d>>, <<Bad>>}
      BY <2>8 DEF Reply, Unexpected, DataKinds
    <3> QED
      BY <2>4, <2>5, <2>7, <2>8, <3>1
  <2>9. CASE d.kind \notin DataKinds
    <3>1. Reply(d) \in {<<>>, <<Bad>>, <<Checked>>}
      BY <2>9, ReplyCases
    <3>2. d.kind # "data"
      BY <2>9 DEF DataKinds
    <3> QED
      BY <2>4, <2>6, <2>7, <3>1, <3>2
  <2> QED
    BY <2>8, <2>9
<1>6. CASE ReportChecked \/ ReportNoQueue \/ ReportNoMethod
  <2>1. /\ rQ # <<>> /\ rQ' = Tail(rQ) /\ Head(rQ).kind \in {"checked", "noqueue", "nomethod"}
        /\ UNCHANGED <<inbox, delivered, dataIn, is_stopped>>
    BY <1>6 DEF ReportChecked, ReportNoQueue, ReportNoMethod, TakeReport
  <2>2. Numbers(rQ) = Numbers(rQ') /\ (EndQueued(rQ) => EndQueued(rQ'))
    BY <2>1, NumbersTail, EndQueuedTail
  <2> QED
    BY <2>1, <2>2, <1>a, <1>b
<1>7. CASE ReportData
  <2> DEFINE n == Head(rQ).n
  <2>1. /\ rQ # <<>> /\ rQ' = Tail(rQ) /\ Head(rQ).kind = "data"
        /\ delivered' = Append(delivered, n)
        /\ UNCHANGED <<inbox, dataIn, is_stopped>>
    BY <1>7 DEF ReportData, TakeReport
  <2>2. Head(rQ) \in ReportType
    BY <2>1
  <2>3. n \in Nat
    BY <2>2 DEF ReportType
  <2>4. Numbers(rQ) = Numbers(rQ') \cup {n} /\ (EndQueued(rQ) => EndQueued(rQ'))
    BY <2>1, NumbersTail, EndQueuedTail
  <2> HIDE DEF n
  <2>5. Elements(delivered') = Elements(delivered) \cup {n}
    BY <2>1, <2>3, ElementsAppend
  <2> QED
    BY <2>1, <2>4, <2>5, <1>a, <1>b
<1> QED
  BY <1>1, <1>2, <1>3, <1>4, <1>5, <1>6, <1>7, <1>8, <1>9
     DEF Next, Hub, Environment, Workers, Reports

\* No data the main loop took in is dropped between the queues, for any number
\* of workers, while the session is not ending.
THEOREM NothingLost == Spec => []NoSilentLoss
<1>1. Init => NoSilentLoss
  BY DEF Init, NoSilentLoss
<1> QED
  BY <1>1, LossStep, StopInvariant, PTL DEF Spec

------------------------------------------------------------------------------
(* Whom stop reaches, and who stays until then *)

LEMMA ElementsBoth ==
    ASSUME NEW S, NEW s \in Seq(S), NEW t \in Seq(S)
    PROVE  Elements(s) \cup Elements(t) \subseteq Elements(s \o t)
<1>1. /\ Len(s) \in Nat /\ Len(t) \in Nat /\ Len(s \o t) = Len(s) + Len(t)
      /\ \A i \in 1..(Len(s) + Len(t)) :
           (s \o t)[i] = IF i <= Len(s) THEN s[i] ELSE t[i - Len(s)]
  BY ConcatProperties, LenProperties
<1>2. ASSUME NEW i \in 1..Len(s) PROVE s[i] \in Elements(s \o t)
  <2>1. i \in 1..(Len(s) + Len(t)) /\ (s \o t)[i] = s[i]
    BY <1>1
  <2> QED
    BY <1>1, <2>1 DEF Elements
<1>3. ASSUME NEW i \in 1..Len(t) PROVE t[i] \in Elements(s \o t)
  <2> DEFINE j == Len(s) + i
  <2>1. j \in 1..(Len(s) + Len(t)) /\ ~(j <= Len(s)) /\ j - Len(s) = i
    BY <1>1
  <2>2. (s \o t)[j] = t[i]
    BY <1>1, <2>1
  <2> HIDE DEF j
  <2> QED
    BY <1>1, <2>1, <2>2 DEF Elements
<1> QED
  BY <1>2, <1>3 DEF Elements

\* One of the workers that Protocol.run makes is a send worker.
LEMMA PoolSends == \E i \in 1..Len(Pool) : Pool[i][1] = "send"
<1> DEFINE ws == HandlerRun(<<>>)
           new(v) == [i \in 1..(2 * NumWorkers) |->
                        <<IF i % 2 = 1 THEN "send" ELSE "recv", Len(v) + i>>]
<1>1. 2 * NumWorkers \in Nat /\ 1 \in 1..(2 * NumWorkers)
  BY NumWorkersAssumption
<1>2. ws \in Seq(Worker)
  BY HandlerRunType, EmptySeq
<1>3. \A i \in 1..(2 * NumWorkers) : new(ws)[i] \in Worker
  BY <1>1, <1>2, LenProperties DEF Worker
<1>4. new(ws) \in Seq(Worker) /\ Len(new(ws)) = 2 * NumWorkers
  BY <1>1, <1>3
<1>5. new(ws)[1][1] = "send"
  BY <1>1
<1>6. Pool = ws \o new(ws)
  BY DEF Pool, HandlerRun
<1> HIDE DEF ws, new
<1>7. new(ws)[1] \in Elements(new(ws))
  BY <1>1, <1>4 DEF Elements
<1>8. new(ws)[1] \in Elements(Pool)
  BY <1>2, <1>4, <1>6, <1>7, ElementsBoth
<1> QED
  BY <1>5, <1>8 DEF Elements

\* Who is alive in a peer that has just started is on the list of stop.
LEMMA ToKillElements ==
    Elements(Pool) \cup {Sender, Receiver} \subseteq Elements(ToKill)
<1> DEFINE loops == <<Sender, Receiver>>
<1>1. Pool \in Seq(Greenlet)
  BY PoolType, SeqMonotonic DEF Greenlet
<1>2. loops \in Seq(Greenlet) /\ Elements(loops) = {Sender, Receiver}
  <2>1. loops \in Seq(Greenlet) /\ Len(loops) = 2
    BY DEF Greenlet
  <2>2. 1..2 = {1, 2}
    OBVIOUS
  <2> QED
    BY <2>1, <2>2 DEF Elements
<1>3. ToKill = Pool \o loops
  BY DEF ToKill
<1> HIDE DEF loops
<1> QED
  BY <1>1, <1>2, <1>3, ElementsBoth

LEMMA ReachInit == Init => ReachInv
  BY DEF Init, ReachInv

\* A step that ends greenlets and leaves the stop alone.
LEMMA ReachKept ==
    ASSUME ReachInv, live' \subseteq live, UNCHANGED stopVars
    PROVE  ReachInv'
  BY DEF ReachInv, stopVars

LEMMA ReachByReport ==
    ASSUME TypeOK, StopInv, ReachInv, NEW g, ReportDisconnect(g)
    PROVE  ReachInv'
<1>1. CASE is_stopped
  BY <1>1, ReachKept DEF ReportDisconnect
<1>2. CASE ~is_stopped /\ started
  BY <1>2, ToKillElements DEF ReportDisconnect, Stop, ReachInv
<1>3. CASE ~is_stopped /\ ~started
  BY <1>3 DEF ReportDisconnect, Stop, ReachInv, StopInv
<1> QED
  BY <1>1, <1>2, <1>3

LEMMA ReachStep == TypeOK /\ StopInv /\ ReachInv /\ [Next]_vars => ReachInv'
<1> SUFFICES ASSUME TypeOK, StopInv, ReachInv, [Next]_vars
             PROVE  ReachInv'
  OBVIOUS
<1>1. CASE PeerRun
  <2>1. live' = Elements(Pool) \cup {Sender, Receiver, Main} /\ UNCHANGED stopVars
    BY <1>1 DEF PeerRun, Elements
  <2>2. ~is_stopped
    BY <1>1 DEF PeerRun
  <2> QED
    BY <2>1, <2>2, ToKillElements DEF ReachInv, stopVars
<1>2. CASE KillNext
  <2>1. /\ killq # <<>> /\ killq' = Tail(killq) /\ live' = live \ {Head(killq)}
        /\ registered' = (registered /\ Head(killq) # Receiver)
        /\ is_stopped' = is_stopped /\ is_stopped
    BY <1>2 DEF KillNext, Unlists, StopInv
  <2>2. Elements(killq) = {Head(killq)} \cup Elements(killq')
    BY <2>1, ElementsTail DEF TypeOK
  <2> QED
    BY <2>1, <2>2 DEF ReachInv
<1>3. CASE Tick \/ SendPacket \/ SenderPing \/ MainFails \/ MainReady \/ UNCHANGED vars
  BY <1>3, ReachKept DEF Tick, SendPacket, SenderPing, MainFails, MainReady, control,
     stopVars, vars
<1>4. CASE ManagerDisconnect \/ SenderTimeout \/ MainError \/ ReportBad
  BY <1>4, ReachByReport DEF ManagerDisconnect, SenderTimeout, SendDisconnect,
     MainError, ReportBad
<1>5. ASSUME NEW kind \in Arrivals, Receive(kind) PROVE ReachInv'
  BY <1>5, ReachKept DEF Receive, AfterTurn, stopVars
<1>6. ASSUME NEW w \in live, SendWorker(w) \/ RecvWorker(w) \/ RecvWorkerDies(w)
      PROVE  ReachInv'
  BY <1>6, ReachKept DEF SendWorker, RecvWorker, RecvWorkerDies, AfterTurn, stopVars
<1>7. CASE SenderSends
  BY <1>7, SenderFacts, ReachKept, ReachByReport
<1>8. CASE ReportChecked \/ ReportData \/ ReportNoQueue \/ ReportNoMethod
  BY <1>8, ReachKept DEF ReportChecked, ReportData, ReportNoQueue, ReportNoMethod,
     AfterTurn, stopVars
<1>9. CASE MainResume
  BY <1>9 DEF MainResume, ReachInv
<1> QED
  BY <1>1, <1>2, <1>3, <1>4, <1>5, <1>6, <1>7, <1>8, <1>9
     DEF Next, Hub, Environment, Workers, Reports

\* A stop that has made its last kill has left at most the main loop alive and has
\* unlisted the peer, for every number of workers: the safety half of StopCompletes.
THEOREM LeavesNobody == Spec => []StopLeavesNobody
<1>1. ReachInv => StopLeavesNobody
  BY DEF ReachInv, StopLeavesNobody, Elements
<1> QED
  BY <1>1, StopInvariant, ReachInit, ReachStep, PTL DEF Spec

\* The send loop and a send worker live as long as the peer is not stopped: what
\* SilentPeerDropped and PacketsLeave need besides fairness.
THEOREM CarriersLive == Spec => []CarriersStay
<1>1. Init => CarriersStay
  BY DEF Init, CarriersStay
<1>2. TypeOK /\ StopInv /\ CarriersStay /\ [Next]_vars => CarriersStay'
  <2> SUFFICES ASSUME TypeOK, StopInv, CarriersStay, [Next]_vars, started', ~is_stopped'
               PROVE  Sender \in live' /\ \E w \in live' : w[1] = "send"
    BY DEF CarriersStay
  <2>1. ASSUME NEW g, ReportDisconnect(g) PROVE FALSE
    BY <2>1 DEF ReportDisconnect, Stop, stopVars
  <2>2. ASSUME started' = started, is_stopped' = is_stopped,
               \A w \in live : w[1] \in {"send", "sender"} => w \in live'
        PROVE  Sender \in live' /\ \E w \in live' : w[1] = "send"
    BY <2>2 DEF CarriersStay, Sender
  <2>3. CASE PeerRun
    BY <2>3, PoolSends DEF PeerRun
  <2>4. CASE Tick \/ SendPacket \/ SenderPing \/ MainReady \/ UNCHANGED vars
    BY <2>2, <2>4 DEF Tick, SendPacket, SenderPing, MainReady, control, stopVars, vars
  <2>5. ~ (KillNext \/ MainResume \/ ManagerDisconnect \/ SenderTimeout \/ MainError
             \/ ReportBad)
    <3>1. ~KillNext /\ ~MainResume
      <4>1. KillNext => is_stopped /\ is_stopped' = is_stopped
        BY DEF KillNext, StopInv
      <4>2. MainResume => stopper # Nobody
        BY DEF MainResume, Main, Nobody
      <4>3. MainResume => is_stopped' = is_stopped
        BY DEF MainResume
      <4> QED
        BY <4>1, <4>2, <4>3 DEF StopInv
    <3>2. ~ManagerDisconnect /\ ~SenderTimeout
      BY <2>1 DEF ManagerDisconnect, SenderTimeout, SendDisconnect
    <3>3. ~MainError /\ ~ReportBad
      BY <2>1 DEF MainError, ReportBad
    <3> QED
      BY <3>1, <3>2, <3>3
  <2>6. ASSUME NEW kind \in Arrivals, Receive(kind)
        PROVE  Sender \in live' /\ \E w \in live' : w[1] = "send"
    BY <2>2, <2>6 DEF Receive, AfterTurn, stopVars
  <2>7. ASSUME NEW w \in live, SendWorker(w) \/ RecvWorker(w) \/ RecvWorkerDies(w)
        PROVE  Sender \in live' /\ \E v \in live' : v[1] = "send"
    <3>1. CASE SendWorker(w)
      BY <2>2, <3>1 DEF SendWorker, AfterTurn, stopVars
    <3>2. CASE RecvWorker(w)
      BY <2>2, <3>2 DEF RecvWorker, AfterTurn, stopVars
    <3>3. CASE RecvWorkerDies(w)
      BY <2>2, <3>3 DEF RecvWorkerDies, stopVars
    <3> QED
      BY <2>7, <3>1, <3>2, <3>3
  <2>8. CASE SenderSends
    <3>1. started' = started /\ live' = live /\ is_stopped' = is_stopped
      BY <2>8, <2>1, SenderFacts DEF stopVars
    <3> QED
      BY <2>2, <3>1
  <2>9. CASE ReportChecked \/ ReportData \/ ReportNoQueue \/ ReportNoMethod \/ MainFails
    <3>1. Receiver[1] = "receiver" /\ Main[1] = "main"
      BY DEF Receiver, Main
    <3>2. /\ started' = started /\ is_stopped' = is_stopped
          /\ live' \in {live, live \ {Receiver}, live \ {Main}}
      BY <2>9 DEF ReportChecked, ReportData, ReportNoQueue, ReportNoMethod, TakeReport,
         MainFails, AfterTurn, stopVars
    <3> HIDE DEF Receiver, Main
    <3> QED
      BY <2>2, <3>1, <3>2
  <2> QED
    BY <2>3, <2>4, <2>5, <2>6, <2>7, <2>8, <2>9
       DEF Next, Hub, Environment, Workers, Reports
<1> QED
  BY <1>1, <1>2, StopInvariant, PTL DEF Spec
==============================================================================
