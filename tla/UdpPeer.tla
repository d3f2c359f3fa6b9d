------------------------------- MODULE UdpPeer -------------------------------
(***************************************************************************)
(* One UDP peer (udpPeer.Peer) with its packet handler                     *)
(* (udpProtocol.Protocol), at the granularity of gevent greenlets.         *)
(*                                                                         *)
(* Greenlets are cooperative: one runs until it blocks (Queue.get on an    *)
(* empty queue, sleep, wait_read, or the kill of another greenlet).        *)
(* Queue.put and spawn do not yield.  One action is what a greenlet does   *)
(* for one item or one turn of its loop; the two methods that yield in the *)
(* middle are split there: stop at every kill, and send where sendto has to*)
(* wait for room in the socket's buffer.                                   *)
(*                                                                         *)
(* Payloads, signatures and pickling are abstracted to the control code of *)
(* a packet.  Data datagrams carry the number of their arrival, so that    *)
(* order and loss can be seen.  Packet.verify catches its own failures     *)
(* and never raises, so the except branch of recv_worker (lines 81-84 of   *)
(* udpProtocol.py) is dead code and has no action.                         *)
(***************************************************************************)
EXTENDS Naturals, Sequences

CONSTANTS
    NumWorkers,     \* configs['p2p']['num_workers']
    Arrivals,       \* the kinds of datagram the remote side may send
    MaxArrivals,    \* bound: datagrams that arrive at the socket
    MaxPackets,     \* bound: packets the application hands to send_packet
    Silence         \* bound: whether time may pass without a datagram

\* What a datagram may hold: a control code, "data" having a method the manager
\* keeps a queue for; "noqueue", data whose method has none; "nomethod", data
\* without a usable method; "other", a code recv_worker does not know; "garbled",
\* bytes that do not unpickle to a Packet.
DataKinds == {"data", "noqueue", "nomethod"}
Kinds == DataKinds \cup
         {"hello", "confirm", "disconnect", "ping", "pong", "other", "garbled"}

ASSUME NumWorkersAssumption == NumWorkers \in Nat \ {0}
ASSUME ArrivalsAssumption == Arrivals \subseteq Kinds
ASSUME BoundsAssumption == 
    MaxArrivals \in Nat /\ MaxPackets \in Nat /\ Silence \in BOOLEAN

\* The packets Protocol.send_worker can build.
Ctrl == {"hello", "confirm", "disconnect", "ping", "pong", "data"}

\* Greenlets: the workers of the handler, the two loops and the main loop.
Main     == <<"main", 0>>
Sender   == <<"sender", 0>>
Receiver == <<"receiver", 0>>
Manager  == <<"manager", 0>>
Worker   == {"send", "recv"} \X Nat
Greenlet == Worker \cup {Main, Sender, Receiver}
Nobody   == <<"nobody", 0>>

VARIABLES
    started,        \* handler.run and Peer.run have been called
    live,           \* greenlets that can still take a turn of their loop
    is_stopped,     \* Peer.is_stopped and Protocol.is_stopped, set together
    killq,          \* what Peer.stop has still to kill
    registered,     \* the peer is in peermanager.peers
    stopper,        \* the loop that called Peer.stop from a turn it has to finish
    status,         \* peermanager.status_book[peerID]
    hello_received, \* Protocol.hello_received
    is_pinged,      \* Peer.is_pinged
    contact,        \* now - last_contact, against ping_interval and timeout
    peerAddr,       \* Peer.peerAddr: the remote's "listener" or its "socket"
    message,        \* the local of Peer.run: the last datagram it took in
    held,           \* main waits for read_ready
    hand,           \* the packet whose send has cleared read_ready and not set it
    sQ, rQ,         \* Protocol queues
    vipbox, outbox, inbox,  \* Peer queues
    farewell,       \* history: a disconnect packet has left
    delivered,      \* history: data put into peermanager.recv_queue
    dataIn,         \* history: how many datagrams of kind "data" main took in
    spoilt,         \* history: and how many of the kinds that end a greenlet
    lateReports,    \* history: data reports made after is_stopped
    lateSends,      \* history: datagrams sent after is_stopped
    arrivals, packets,      \* counters for the bounds
    visited         \* peermanager.stop has disconnected this peer

stopVars == <<is_stopped, killq, registered, stopper>>
control  == <<started, live, stopVars, status>>
pulse    == <<is_pinged, contact>>
intake   == <<peerAddr, message, dataIn, spoilt, arrivals>>
wire     == <<intake, held>>                            \* the main loop's
boxes    == <<vipbox, outbox, hand, farewell, lateSends>>   \* the sender's
reports  == <<rQ, delivered, lateReports>>              \* the receiver's
app      == <<packets, visited>>
vars == <<control, hello_received, pulse, wire, sQ, inbox, boxes, reports, app>>

NoMessage == [kind |-> "none", n |-> 0]

Elements(s) == {s[i] : i \in 1..Len(s)}

\* read_ready is clear from the beginning of a send to its end.  A sender that is
\* killed inside sendto leaves it clear for ever.
read_ready == hand = "none"

------------------------------------------------------------------------------
(* Construction *)

\* Protocol.run appends num_workers pairs of workers to the list ws.
HandlerRun(ws) ==
    ws \o [i \in 1..(2 * NumWorkers) |->
             <<IF i % 2 = 1 THEN "send" ELSE "recv", Len(ws) + i>>]

\* Protocol.workers of a running peer.  The hub calls handler.run (queued by
\* handler.start in __init__) and, next to it, Peer.run, which calls it again.
Pool == HandlerRun(HandlerRun(<<>>))

\* A peer made by make_connection (it says hello to the remote's listening
\* address) or by _new_conn (it answers a hello from the remote's socket).
Init ==
    /\ \/ sQ = <<"hello">> /\ peerAddr = "listener"
       \/ sQ = <<"confirm">> /\ peerAddr = "socket"
    /\ started = FALSE /\ live = {}
    /\ is_stopped = FALSE /\ killq = <<>> /\ registered = TRUE
    /\ stopper = Nobody /\ status = "starting"
    /\ hello_received = FALSE /\ is_pinged = FALSE /\ contact = "recent"
    /\ message = NoMessage /\ held = FALSE /\ hand = "none"
    /\ rQ = <<>> /\ vipbox = <<>> /\ outbox = <<>> /\ inbox = <<>>
    /\ farewell = FALSE /\ delivered = <<>>
    /\ dataIn = 0 /\ spoilt = [garbled |-> 0, nomethod |-> 0]
    /\ lateReports = 0 /\ lateSends = 0
    /\ arrivals = 0 /\ packets = 0 /\ visited = FALSE

\* The hub calls both runs; Peer.run spawns the two loops and becomes the third.
PeerRun ==
    /\ ~started /\ ~is_stopped
    /\ started' = TRUE
    /\ live' = {Pool[i] : i \in 1..Len(Pool)} \cup {Sender, Receiver, Main}
    /\ UNCHANGED <<stopVars, status, hello_received, pulse, wire, sQ,
                   inbox, boxes, reports, app>>

------------------------------------------------------------------------------
(* Stopping *)

\* Mutant of AfterTurn: loops that never look at is_stopped.
LoopForever(g) == live

\* while not self.is_stopped: a greenlet that finishes a turn after is_stopped
\* leaves its loop.
AfterTurn(g) == IF is_stopped THEN live \ {g} ELSE live

\* Mutant of ToKill: only the handler's workers are killed.
PoolOnly == Pool

\* What Peer.stop kills, in order.  self.kill, the last, ends nothing: Peer
\* overrides Greenlet.run, so that gevent takes a peer that has started for dead
\* and throws nothing into its main loop.
ToKill == Pool \o <<Sender, Receiver>>

\* Peer.stop up to its first kill.  A peer whose greenlets never ran has
\* nothing to kill: stop runs through to peers.remove, and self.kill cancels the
\* start of the main loop.  The greenlet that calls stop is inside it from now on
\* and takes no further turn.
Stop(g) ==
    /\ is_stopped' = TRUE
    /\ stopper' = IF g \in {Main, Sender} THEN g ELSE Nobody
    /\ live' = live \ {g}
    /\ killq' = IF started THEN ToKill ELSE <<>>
    /\ registered' = started

\* Mutant of LogDisconnected: nothing is logged.
LogNothing == UNCHANGED status

LogDisconnected == status' = "disconnected"

\* report(("disconnect", ..)) made by greenlet g: log, then stop, which returns
\* at once when the peer is already stopped.
ReportDisconnect(g) ==
    /\ LogDisconnected
    /\ IF is_stopped
       THEN live' = live \ {g} /\ UNCHANGED stopVars
       ELSE Stop(g)

\* send_disconnect: queue the packet, then report (the stop after it is the
\* second call and returns at once).
SendDisconnect(g) ==
    /\ sQ' = Append(sQ, "disconnect")
    /\ ReportDisconnect(g)

\* peermanager.stop visits this peer.
ManagerDisconnect ==
    /\ registered /\ ~visited
    /\ visited' = TRUE
    /\ SendDisconnect(Manager)
    /\ UNCHANGED <<started, hello_received, pulse, wire, inbox, boxes,
                   reports, packets>>

\* Mutant of Unlists: peers.remove comes before the kills.
UnlistsFirst(g) == TRUE

\* peers.remove follows the kill of the receiver, the last of self.greenlets.
Unlists(g) == g = Receiver

\* One blocking kill of Peer.stop.
KillNext ==
    /\ killq # <<>>
    /\ killq' = Tail(killq)
    /\ live' = live \ {Head(killq)}
    /\ registered' = (registered /\ ~Unlists(Head(killq)))
    /\ UNCHANGED <<started, is_stopped, stopper, status, hello_received, pulse,
                   wire, sQ, inbox, boxes, reports, app>>

------------------------------------------------------------------------------
(* Outgoing packets: application -> sQ -> send_worker -> boxes -> send_loop *)

\* peermanager.send and broadcast look the peer up in peermanager.peers.
SendPacket ==
    /\ registered /\ packets < MaxPackets
    /\ packets' = packets + 1
    /\ sQ' = Append(sQ, "data")
    /\ UNCHANGED <<control, hello_received, pulse, wire, inbox, boxes, reports,
                   visited>>

\* One turn of a send worker.  signsend puts data into the outbox and
\* everything else into the vipbox.
SendWorker(w) ==
    /\ w \in live /\ w[1] = "send" /\ sQ # <<>>
    /\ sQ' = Tail(sQ)
    /\ IF Head(sQ) = "data"
       THEN outbox' = Append(outbox, "data") /\ UNCHANGED vipbox
       ELSE vipbox' = Append(vipbox, Head(sQ)) /\ UNCHANGED outbox
    /\ hello_received' = (hello_received \/ Head(sQ) = "confirm")
    /\ live' = AfterTurn(w)
    /\ UNCHANGED <<started, stopVars, status, pulse, wire, inbox, hand,
                   farewell, lateSends, reports, app>>

\* Mutant of SenderTurn: the sender goes on while it is being stopped.
SenderTurnAnyway == Sender \in live /\ hand = "none"

\* The sender is at the top of its loop and finds the peer running.
SenderTurn == Sender \in live /\ hand = "none" /\ ~is_stopped

\* Mutant of TimedOut: a peer that was pinged is given more time.
TimedOutUnlessPinged == contact = "lost" /\ ~is_pinged

TimedOut == contact = "lost"

SenderTimeout ==
    /\ SenderTurn /\ TimedOut
    /\ SendDisconnect(Sender)
    /\ UNCHANGED <<started, hello_received, pulse, wire, inbox, boxes,
                   reports, app>>

SenderPing ==
    /\ SenderTurn /\ contact = "quiet" /\ ~is_pinged
    /\ is_pinged' = TRUE
    /\ sQ' = Append(sQ, "ping")
    /\ UNCHANGED <<control, hello_received, contact, wire, inbox, boxes,
                   reports, app>>

\* Mutant of SenderIdle: the boxes wait for the pong.
IdleUnlessQuiet == SenderTurn /\ contact = "recent"

SenderIdle ==
    SenderTurn /\ (contact = "recent" \/ (contact = "quiet" /\ is_pinged))

\* One turn of the sender takes the head of each box that has any.
First(box) == IF box = <<>> THEN <<>> ELSE <<Head(box)>>
Rest(box) == IF box = <<>> THEN box ELSE Tail(box)

\* sendto succeeds, does so only after waiting, or raises.
Outcomes == {"sent", "waits", "fails"}

\* sendto raises: send reports and stops.  read_ready is set when that returns,
\* which is at once in a peer that is stopped already.
SendFails(packet) ==
    /\ ReportDisconnect(Sender)
    /\ hand' = IF is_stopped THEN "none" ELSE packet

\* What is left of a turn of the sender once the datagrams ps have left: to send
\* the head of the outbox, unless it was that packet the turn was busy with.
Left == IF hand = "data" THEN <<>> ELSE outbox
SendRest(ps, outcome) ==
    /\ Left = <<>> => outcome = "sent"
    /\ outbox' = IF hand = "data" THEN outbox ELSE Rest(outbox)
    /\ LET out == IF outcome = "sent" THEN ps \o First(Left) ELSE ps
       IN /\ farewell' = (farewell \/ "disconnect" \in Elements(out))
          /\ lateSends' = lateSends + (IF is_stopped THEN Len(out) ELSE 0)
    /\ \/ /\ outcome = "sent"
          /\ hand' = "none" /\ live' = AfterTurn(Sender) /\ UNCHANGED stopVars
       \/ outcome = "waits" /\ hand' = "data" /\ UNCHANGED <<live, stopVars>>
       \/ outcome = "fails" /\ SendFails("data")

\* A turn in which the vip packet, if any, is sent at once.
SenderSend(outcome) ==
    /\ SenderIdle /\ (vipbox # <<>> \/ outbox # <<>>)
    /\ vipbox' = Rest(vipbox)
    /\ SendRest(First(vipbox), outcome)
    /\ outcome # "fails" => UNCHANGED status
    /\ UNCHANGED <<started, hello_received, pulse, wire, sQ, inbox, reports, app>>

\* A turn that comes no further, for now, than the vip packet.
SenderVipWaits ==
    /\ SenderIdle /\ vipbox # <<>>
    /\ vipbox' = Tail(vipbox) /\ hand' = Head(vipbox)
    /\ UNCHANGED <<control, hello_received, pulse, wire, sQ, inbox, outbox,
                   farewell, lateSends, reports, app>>

SenderVipFails ==
    /\ SenderIdle /\ vipbox # <<>>
    /\ vipbox' = Tail(vipbox)
    /\ SendFails(Head(vipbox))
    /\ UNCHANGED <<started, hello_received, pulse, wire, sQ, inbox, outbox,
                   farewell, lateSends, reports, app>>

\* The sender is inside sendto, where other greenlets may stop the peer and kill
\* it.  The wait ends, and the turn goes on, stopped or not.  As send sets
\* read_ready and clears it again for the next packet, main may or may not wake.
Waiting == hand # "none" /\ Sender \in live

SenderSent(outcome) ==
    /\ Waiting
    /\ SendRest(<<hand>>, outcome)
    /\ held' \in {held, FALSE}
    /\ outcome # "fails" => UNCHANGED status
    /\ UNCHANGED <<started, hello_received, pulse, intake, sQ, inbox, vipbox,
                   reports, app>>

\* The buffer stays full for the timeout of the socket, or sendto fails otherwise.
SenderRaises(outcome) ==
    /\ Waiting
    /\ LogDisconnected
    /\ IF is_stopped
       THEN SendRest(<<>>, outcome) /\ held' \in {held, FALSE}
       ELSE /\ outcome = "fails" /\ SendFails(hand)
            /\ UNCHANGED <<held, outbox, farewell, lateSends>>
    /\ UNCHANGED <<started, hello_received, pulse, intake, sQ, inbox, vipbox,
                   reports, app>>

\* stop has returned to the turn of the sender it was called from, after a packet
\* that failed.  A wait of the next sendto only delays this step.
SenderResume(outcome) ==
    /\ stopper = Sender /\ hand # "none" /\ killq = <<>>
    /\ outcome # "waits" /\ SendRest(<<>>, outcome)
    /\ outcome # "fails" => UNCHANGED status
    /\ UNCHANGED <<started, hello_received, pulse, wire, sQ, inbox, vipbox,
                   reports, app>>

------------------------------------------------------------------------------
(* Incoming datagrams: socket -> inbox -> recv_worker -> rQ -> recv_loop *)

\* Mutant of TakeAddr: peerAddr stays what it was.
KeepAddr == UNCHANGED peerAddr

\* Every datagram comes from the remote's peer socket, which peerAddr becomes.
TakeAddr == peerAddr' = "socket"

\* What the main loop does with its message.
Handle(m) ==
    /\ inbox' = Append(inbox, m)
    /\ contact' = "recent" /\ is_pinged' = FALSE

\* Main is in wait_read or in recvfrom.
MainReads == Main \in live /\ ~held

\* send has set read_ready.
MainReady ==
    /\ Main \in live /\ held /\ read_ready
    /\ held' = FALSE
    /\ UNCHANGED <<control, hello_received, pulse, intake, sQ, inbox, boxes,
                   reports, app>>

\* One turn of the main loop.
Receive(kind) ==
    /\ MainReads /\ arrivals < MaxArrivals
    /\ arrivals' = arrivals + 1
    /\ dataIn' = IF kind = "data" THEN dataIn + 1 ELSE dataIn
    /\ spoilt' = [k \in DOMAIN spoilt |-> spoilt[k] + IF k = kind THEN 1 ELSE 0]
    /\ message' = [kind |-> kind, n |-> IF kind = "data" THEN dataIn' ELSE 0]
    /\ TakeAddr
    /\ Handle(message')
    /\ live' = AfterTurn(Main)
    /\ held' = ~read_ready
    /\ UNCHANGED <<started, stopVars, status, hello_received, sQ, boxes, reports,
                   app>>

\* What main does after a report: the message of its last turn is handled again.
\* Without one the name is unbound and raises.
HandleStale ==
    IF message # NoMessage THEN Handle(message) ELSE UNCHANGED <<inbox, pulse>>

\* recvfrom fails with one of the listed errors.  The turn goes on when stop has
\* returned, which is at once if another greenlet has begun to stop the peer.
MainError ==
    /\ MainReads
    /\ ReportDisconnect(Main)
    /\ IF is_stopped THEN HandleStale ELSE UNCHANGED <<inbox, pulse>>
    /\ UNCHANGED <<started, hello_received, wire, sQ, boxes, reports, app>>

MainResume ==
    /\ stopper = Main /\ killq = <<>>
    /\ stopper' = Nobody
    /\ HandleStale
    /\ UNCHANGED <<started, live, is_stopped, killq, registered, status,
                   hello_received, wire, sQ, boxes, reports, app>>

\* Any other error, a timeout of recvfrom, and every error of wait_read (its list
\* is no tuple, so that the test raises): the main loop ends, nothing is reported.
MainFails ==
    /\ MainReads
    /\ live' = live \ {Main}
    /\ UNCHANGED <<started, stopVars, status, hello_received, pulse, wire,
                   sQ, inbox, boxes, reports, app>>

\* Mutant of Put: the report overtakes those in the queue.
PutFirst(q, items) == items \o q

\* Queue.put.
Put(q, items) == q \o items

Bad == [kind |-> "disconnect", n |-> 0]
Checked == [kind |-> "checked", n |-> 0]

\* Mutant of Unexpected: a packet out of turn is dropped.
Dropped == <<>>

\* The peer is reported: a hello or confirm too many, a ping or data before
\* the handshake, a disconnect, a code recv_worker does not know.
Unexpected == <<Bad>>

\* What recv_worker puts into rQ for a datagram.
Reply(d) ==
    CASE d.kind = "pong" -> <<Checked>>
      [] d.kind = "hello" /\ ~hello_received -> <<>>
      [] d.kind = "confirm" /\ ~hello_received -> <<Checked>>
      [] d.kind = "ping" /\ hello_received -> <<Checked>>
      [] d.kind \in DataKinds /\ hello_received -> <<d>>
      [] OTHER -> Unexpected

\* Mutant of Answer: the "checked" of a ping goes to the send workers.
AnswerChecked(d) == IF d.kind = "ping" THEN <<"checked">> ELSE <<>>

\* What recv_worker asks the send workers for.
Answer(d) ==
    CASE d.kind = "hello" /\ ~hello_received -> <<"confirm">>
      [] d.kind = "ping" /\ hello_received -> <<"pong">>
      [] OTHER -> <<>>

\* One turn of a receive worker.
RecvWorker(w) ==
    /\ w \in live /\ w[1] = "recv" /\ inbox # <<>>
    /\ Head(inbox).kind # "garbled"
    /\ inbox' = Tail(inbox)
    /\ rQ' = Put(rQ, Reply(Head(inbox)))
    /\ sQ' = Put(sQ, Answer(Head(inbox)))
    /\ hello_received' = (hello_received \/ Head(inbox).kind = "confirm")
    /\ live' = AfterTurn(w)
    /\ UNCHANGED <<started, stopVars, status, pulse, wire, boxes,
                   delivered, lateReports, app>>

\* pickle.loads or the assertion after it raises: nothing catches it and the
\* worker's greenlet ends.
RecvWorkerDies(w) ==
    /\ w \in live /\ w[1] = "recv" /\ inbox # <<>>
    /\ Head(inbox).kind = "garbled"
    /\ inbox' = Tail(inbox)
    /\ live' = live \ {w}
    /\ UNCHANGED <<started, stopVars, status, hello_received, pulse, wire,
                   sQ, boxes, reports, app>>

\* One turn of recv_loop.
TakeReport(kind) ==
    /\ Receiver \in live /\ rQ # <<>> /\ Head(rQ).kind = kind
    /\ rQ' = Tail(rQ)
    /\ UNCHANGED <<started, hello_received, pulse, wire, sQ, inbox, boxes,
                   app>>

\* ("checked") is a plain string, whose first character is not "checked":
\* report does nothing with it.
ReportChecked ==
    /\ TakeReport("checked")
    /\ live' = AfterTurn(Receiver)
    /\ UNCHANGED <<stopVars, status, delivered, lateReports>>

ReportBad ==
    /\ TakeReport("disconnect")
    /\ ReportDisconnect(Receiver)
    /\ UNCHANGED <<delivered, lateReports>>

LogWorking ==
    /\ status' = "working"
    /\ lateReports' = IF is_stopped THEN lateReports + 1 ELSE lateReports

\* Log "working" and hand the data on (parse_data).
ReportData ==
    /\ TakeReport("data")
    /\ LogWorking
    /\ delivered' = Append(delivered, Head(rQ).n)
    /\ live' = AfterTurn(Receiver)
    /\ UNCHANGED stopVars

\* Mutant of ReportNoQueue: nothing catches the IndexError.
ReportNoQueueRaises ==
    /\ TakeReport("noqueue")
    /\ LogWorking
    /\ live' = live \ {Receiver}
    /\ UNCHANGED <<stopVars, delivered>>

\* A method without a queue: the IndexError is caught and the data dropped.
ReportNoQueue ==
    /\ TakeReport("noqueue")
    /\ LogWorking
    /\ live' = AfterTurn(Receiver)
    /\ UNCHANGED <<stopVars, delivered>>

\* Data without a method raises out of parse_data, which catches IndexError
\* alone: the receiver ends.
ReportNoMethod ==
    /\ TakeReport("nomethod")
    /\ LogWorking
    /\ live' = live \ {Receiver}
    /\ UNCHANGED <<stopVars, delivered>>

------------------------------------------------------------------------------
\* Time passes without a datagram.  "recent": within ping_interval; "quiet":
\* within timeout; "lost": beyond it (the configurations have pingtime below
\* timeout).  A hub that is late may miss the whole "quiet" band.
Tick ==
    /\ Silence /\ ~is_stopped /\ contact # "lost"
    /\ contact' \in (IF contact = "recent" THEN {"quiet", "lost"} ELSE {"lost"})
    /\ UNCHANGED <<control, hello_received, is_pinged, wire, sQ, inbox, boxes,
                   reports, app>>

Environment ==
    \/ SendPacket
    \/ ManagerDisconnect
    \/ \E kind \in Arrivals : Receive(kind)
    \/ MainError \/ MainFails
    \/ Tick

Workers == \E w \in live : SendWorker(w) \/ RecvWorker(w) \/ RecvWorkerDies(w)

SenderSends ==
    \/ SenderVipWaits \/ SenderVipFails
    \/ \E outcome \in Outcomes : \/ SenderSend(outcome) \/ SenderSent(outcome)
                                 \/ SenderRaises(outcome) \/ SenderResume(outcome)

Reports == ReportChecked \/ ReportBad \/ ReportData \/ ReportNoQueue \/ ReportNoMethod

Hub ==
    \/ PeerRun \/ KillNext \/ MainReady \/ MainResume
    \/ Workers
    \/ SenderTimeout \/ SenderPing \/ SenderSends
    \/ Reports

Next == Environment \/ Hub

Spec == Init /\ [][Next]_vars

\* The hub runs some greenlet as long as one is ready; a sendto that waits ends
\* by the timeout of the socket (udpPeer.py:25).  Nothing obliges the remote, the
\* application, the manager or the clock to do anything, nor the network to bring
\* main a datagram or an error.
Fairness == WF_vars(Hub)

FairSpec == Spec /\ Fairness

------------------------------------------------------------------------------
(* Properties *)

Datagram == [kind : Kinds, n : Nat]
ReportType == [kind : {"disconnect", "checked"} \cup DataKinds, n : Nat]

\* The one type invariant of the module: what Peer.__init__, Protocol.__init__
\* and every handler leave in the fields.
TypeOK ==
    /\ started \in BOOLEAN /\ live \subseteq Greenlet
    /\ is_stopped \in BOOLEAN /\ killq \in Seq(Greenlet)
    /\ stopper \in {Main, Sender, Nobody}
    /\ registered \in BOOLEAN /\ visited \in BOOLEAN
    /\ status \in {"starting", "working", "disconnected"}
    /\ hello_received \in BOOLEAN /\ is_pinged \in BOOLEAN
    /\ contact \in {"recent", "quiet", "lost"}
    /\ peerAddr \in {"listener", "socket"} /\ message \in Datagram \cup {NoMessage}
    /\ sQ \in Seq(Ctrl) /\ vipbox \in Seq(Ctrl) /\ outbox \in Seq({"data"})
    /\ rQ \in Seq(ReportType) /\ inbox \in Seq(Datagram)
    /\ held \in BOOLEAN /\ hand \in Ctrl \cup {"none"} /\ farewell \in BOOLEAN
    /\ delivered \in Seq(Nat)
    /\ dataIn \in Nat /\ spoilt \in [{"garbled", "nomethod"} -> Nat]
    /\ lateReports \in Nat /\ lateSends \in Nat
    /\ arrivals \in Nat /\ packets \in Nat

\* The peer as the manager sees it.
Life == INSTANCE PeerLife WITH
    phase <- IF ~is_stopped THEN "running"
             ELSE IF registered THEN "stopping" ELSE "gone",
    book  <- status,
    late  <- lateReports = 0

\* However the greenlets of the peer interleave with its stop, with socket
\* errors and with each other, the manager sees no more than PeerLife: a peer
\* that is off the list never again claims to work, and a stopping one claims
\* it once at most (udpPeer.py:43-59, 111-161).
ImplementsPeerLife == Life!Spec

\* send_disconnect queues a disconnect packet and stops the peer before it
\* yields (udpPeer.py:139-142): whatever the workers still do with the packet,
\* the send loop never puts it on the wire.  The remote learns of the end of
\* the session only from its own ping timeout.
FarewellNeverSent == ~farewell

\* A session is confirmed only after a datagram of the remote's peer socket has
\* moved peerAddr there (udpPeer.py:80-81): no packet of an established session
\* goes to the remote's listening port, which takes nothing but a hello.
SessionAddressed == hello_received => peerAddr = "socket"

\* However many receive workers there are, application data is delivered in the
\* order of arrival and at most once; only the one late report of a stopping
\* peer may repeat what was delivered last (the stale message of MainError).
DeliveredInOrder ==
    \A i, j \in 1..Len(delivered) : i < j =>
        \/ delivered[i] < delivered[j]
        \/ lateReports = 1 /\ j = Len(delivered) /\ delivered[i] = delivered[j]

\* The numbers of the data in a queue of datagrams or of reports.
Numbers(q) == {q[i].n : i \in {k \in 1..Len(q) : q[k].kind = "data"}}
SessionEnding ==
    is_stopped \/ \E i \in 1..Len(rQ) : rQ[i].kind = "disconnect"

\* Data for one of the manager's queues that the main loop took in is queued or
\* delivered, unless the session is ending: none is dropped silently between the
\* two worker pools and the two queues, whatever datagrams end a worker or the
\* receiver, or name a queue that does not exist (data that arrives before the
\* handshake ends the session).
NoSilentLoss ==
    SessionEnding
    \/ 1..dataIn \subseteq Elements(delivered) \cup Numbers(rQ) \cup Numbers(inbox)

\* Peer.stop yields at every kill, and each loop it has not reached may finish
\* one turn: at most one report is made after is_stopped is set, and at most two
\* datagrams leave, those of a turn that was waiting in its first sendto.
StopIsBounded == lateReports <= 1 /\ lateSends <= 2

\* The status book says "disconnected" of a stopped peer, unless the one late
\* report said "working" after that.
StoppedIsLogged == (is_stopped /\ lateReports = 0) => status = "disconnected"

\* peers.remove comes after the kill of the receiver: a peer that is out of
\* peermanager.peers never delivers again and never turns to "working".
RemovedIsSilent ==
    [][~registered => /\ delivered' = delivered
                      /\ status' \in {status, "disconnected"}
                      /\ ~registered']_vars

\* The inductive strengthenings of the properties above.

\* A disconnect packet exists only in a stopped peer, and in no turn of the sender.
FarewellInv ==
    /\ ("disconnect" \in Elements(sQ) \cup Elements(vipbox)) => is_stopped
    /\ hand # "disconnect" /\ FarewellNeverSent

\* A dialer that has heard nothing has nothing to handle and no confirm to make.
AddressInv ==
    peerAddr = "listener" =>
        /\ inbox = <<>> /\ message = NoMessage
        /\ ~hello_received /\ "confirm" \notin Elements(sQ)

\* What has left after is_stopped leaves room for what the turn of the sender that
\* is under way may still send.
RoomLeft ==
    /\ lateSends <= 2
    /\ Sender \in live /\ hand # "none" => lateSends <= IF hand = "data" THEN 1 ELSE 0
    /\ stopper = Sender /\ hand \notin {"none", "data"} => lateSends <= 1

\* What has happened after is_stopped, and what can no longer happen.
StopInv ==
    /\ ~started => live = {} /\ hand = "none"
    /\ killq # <<>> => is_stopped
    /\ ~registered => is_stopped /\ Receiver \notin live
    /\ stopper # Nobody => is_stopped
    /\ ~is_stopped => lateSends = 0
    /\ is_stopped => RoomLeft
    /\ lateReports > 0 => is_stopped /\ lateReports = 1 /\ Receiver \notin live
    /\ StoppedIsLogged

\* When a stop has made its last kill no greenlet of the peer is left but the main
\* loop, neither a worker of the second pool nor a loop, nor a sender that was
\* waiting in sendto; and the peer is out of the list, whoever called stop and
\* however far the peer had started (udpPeer.py:43-59; Protocol.run is called
\* twice, udpProtocol.py:41-46).  Main stays until a datagram or an error comes.
StopLeavesNobody == is_stopped /\ killq = <<>> => live \subseteq {Main} /\ ~registered

\* ... because stop has everything else on its list that is still alive, and the
\* receiver, after whose kill it unlists the peer.
ReachInv ==
    /\ live \subseteq Elements(ToKill) \cup {Main}
    /\ is_stopped => /\ live \subseteq Elements(killq) \cup {Main}
                     /\ registered => Receiver \in Elements(killq)

\* As long as a peer is not stopped, no datagram and no error takes from it what
\* carries its packets and watches its timeout: the send loop and a send worker
\* (only receive workers, the receiver and the main loop die of errors).
CarriersStay ==
    started /\ ~is_stopped => Sender \in live /\ \E w \in live : w[1] = "send"

\* Data numbers do not fall on the way from the main loop to the application,
\* and rise while no stop lets the stale message in.
Rising(stopped, a, b) == a <= b /\ (~stopped => a < b)
AllRising(stopped, A, B) == \A a \in A, b \in B : Rising(stopped, a, b)
RisingQueue(stopped, q) ==
    \A i, j \in 1..Len(q) : i < j /\ q[i].kind = "data" /\ q[j].kind = "data"
                              => Rising(stopped, q[i].n, q[j].n)
OrderInv ==
    /\ DeliveredInOrder
    /\ AllRising(is_stopped, Elements(delivered), Numbers(rQ) \cup Numbers(inbox))
    /\ AllRising(is_stopped, Numbers(rQ), Numbers(inbox))
    /\ RisingQueue(is_stopped, rQ) /\ RisingQueue(is_stopped, inbox)
    /\ \A a \in Elements(delivered) \cup Numbers(rQ) \cup Numbers(inbox) : a <= dataIn
    /\ message.kind = "data" => message.n = dataIn

\* Whatever calls Peer.stop, and whatever the other greenlets are doing, stop
\* returns, also to a turn it was called from, with the peer out of the list and
\* none of its greenlets left that does anything by itself.
Unfinished == stopper = Main \/ (stopper = Sender /\ hand # "none")
StopCompletes == is_stopped ~> (live \subseteq {Main} /\ ~registered /\ ~Unfinished)

\* A peer that has heard nothing for longer than the timeout is dropped, unless
\* a datagram comes in before the sender's next turn (udpPeer.py:95-109).
SilentPeerDropped == contact = "lost" ~> (~registered \/ contact = "recent")

\* Every packet queued leaves through its box, or the session ends: no box is
\* left waiting while the session is merely quiet.
Unsent == sQ # <<>> \/ vipbox # <<>> \/ outbox # <<>> \/ hand # "none"
PacketsLeave == Unsent ~> (is_stopped \/ ~Unsent)

\* Data the main loop has taken in reaches the application, unless the session
\* ends first or one of the two failures nothing repairs has happened: a datagram
\* that does not unpickle for every receive worker (udpProtocol.py:77; num_workers
\* of them and as many again), or data without a method (udpPeer.py:164).
Deaf == spoilt["garbled"] >= 2 * NumWorkers \/ spoilt["nomethod"] > 0
DataDelivered ==
    \A k \in 1..MaxArrivals :
        (started /\ dataIn >= k) ~> (k \in Elements(delivered) \/ SessionEnding \/ Deaf)
==============================================================================
