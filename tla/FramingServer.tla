--------------------------- MODULE FramingServer ---------------------------
(***************************************************************************)
(* Protocols/Framing/Server: one accept thread; per session a receiving    *)
(* thread (RecvLoop, which broadcasts) and a sending thread (SendLoop)     *)
(* with a queue between them that is bounded in bytes: a broadcast waits   *)
(* in SendMsg until the receiver's queue has room.                         *)
(*                                                                         *)
(* A critical section is one step.  Testing the predicate of a wait and    *)
(* falling asleep are two ("block" is in between, with the mutex held), so *)
(* that a notification sent without the mutex can fall between them.       *)
(* m_clientsMutex is held over several steps by Stop alone.                *)
(*                                                                         *)
(* Frame k of peer s is <<s, k>>; all frames of s have FrameSize[s] bytes. *)
(* They may be empty or too long: the clients are not bound to be ours.    *)
(***************************************************************************)
EXTENDS Integers, Sequences

CONSTANTS
    Peer,           \* the clients
    FrameSize,      \* the size of the frames of each client
    TX_HWM_BYTES,   \* the limit of m_txQueue
    MAX_PAYLOAD,    \* the longest frame that recv_frame takes
    Talker,         \* bound: the clients that send frames
    Leaver,         \* bound: the clients that hang up
    MaxFrames,      \* bound: frames one client sends
    WireCap,        \* bound: frames a TCP connection buffers
    OwnerStops      \* does the owner of the server call Stop?

ASSUME FramingServerAssumption ==
    /\ FrameSize \in [Peer -> Nat]
    /\ TX_HWM_BYTES \in Nat \ {0} /\ MAX_PAYLOAD \in Nat
    /\ Talker \subseteq Peer /\ Leaver \subseteq Peer
    /\ MaxFrames \in Nat
    /\ WireCap \in Nat \ {0}
    /\ OwnerStops \in BOOLEAN

VARIABLES
    (* the sessions *)
    m_active, m_socket,         \* m_socket: none, open, shut (SD_SEND), closed
    m_txQueue, m_txBytesQueued,
    rx, tx,                     \* where the threads of a session are
    frame, snapshot,            \* the frame rx broadcasts; to whom it has yet to
    msg,                        \* the frame tx is sending, as a sequence
    (* the server *)
    m_running, m_clients,       \* m_clients is a sequence, as the vector is
    accepter, accepted,         \* the accept thread, and the session it starts
    owner, stopping,            \* the thread in Stop, and m_clients from its c on
    (* the clients *)
    peer,                       \* idle, open, closed, reset
    sent, rcvd,                 \* frames of a client: sent, got from recv_frame
    wire, got                   \* frames on their way to a client, and there

sessVars == <<m_active, m_socket, m_txQueue, m_txBytesQueued>>
threadVars == <<rx, tx, frame, snapshot, msg>>
srvVars == <<m_running, m_clients, accepter, accepted, owner, stopping>>
netVars == <<peer, sent, rcvd, wire, got>>
vars == <<sessVars, threadVars, srvVars, netVars>>

Frame == Peer \X (1..MaxFrames)
Size(f) == FrameSize[f[1]]

Bytes(queue) ==
    LET sum[i \in 0..Len(queue)] == IF i = 0 THEN 0 ELSE sum[i - 1] + Size(queue[i])
    IN  sum[Len(queue)]

\* The counter that SendMsg compares with the limit is the size of the queue.
TxAccounting == \A q \in Peer : m_txBytesQueued[q] = Bytes(m_txQueue[q])

TypeOK ==
    /\ m_active \in [Peer -> BOOLEAN]
    /\ m_socket \in [Peer -> {"none", "open", "shut", "closed"}]
    /\ m_txQueue \in [Peer -> Seq(Frame)]
    /\ m_txBytesQueued \in [Peer -> 0..TX_HWM_BYTES]
    /\ TxAccounting
    /\ rx \in [Peer -> {"none", "check", "recv", "broadcast", "send", "block", "asleep",
                        "notify", "inactive", "wake", "done"}]
    /\ tx \in [Peer -> {"none", "lock", "block", "asleep", "send", "inactive", "wake", "done"}]
    /\ frame \in [Peer -> 0..MaxFrames] /\ snapshot \in [Peer -> Seq(Peer)]
    /\ msg \in [Peer -> {<<>>} \union {<<f>> : f \in Frame}]
    /\ m_running \in BOOLEAN
    /\ m_clients \in Seq(Peer)
    /\ accepter \in {"accept", "push", "done"}
    /\ accepted \in {<<>>} \union {<<p>> : p \in Peer}
    /\ owner \in {"idle", "join", "next", "wake", "shut", "recv", "joinRx", "joinTx", "stopped"}
    /\ stopping \in Seq(Peer)
    /\ peer \in [Peer -> {"idle", "open", "closed", "reset"}]
    /\ sent \in [Peer -> 0..MaxFrames] /\ rcvd \in [Peer -> 0..MaxFrames]
    /\ wire \in [Peer -> Seq(Frame)] /\ got \in [Peer -> Seq(Frame)]
    /\ \A p \in Peer : rcvd[p] <= sent[p] /\ Len(wire[p]) <= WireCap

Init ==
    /\ m_active = [p \in Peer |-> FALSE]
    /\ m_socket = [p \in Peer |-> "none"]
    /\ m_txQueue = [p \in Peer |-> <<>>]
    /\ m_txBytesQueued = [p \in Peer |-> 0]
    /\ rx = [p \in Peer |-> "none"] /\ tx = [p \in Peer |-> "none"]
    /\ frame = [p \in Peer |-> 0] /\ snapshot = [p \in Peer |-> <<>>]
    /\ msg = [p \in Peer |-> <<>>]
    /\ m_running = TRUE /\ m_clients = <<>>
    /\ accepter = "accept" /\ accepted = <<>>
    /\ owner = "idle" /\ stopping = <<>>
    /\ peer = [p \in Peer |-> "idle"]
    /\ sent = [p \in Peer |-> 0] /\ rcvd = [p \in Peer |-> 0]
    /\ wire = [p \in Peer |-> <<>>] /\ got = [p \in Peer |-> <<>>]

-----------------------------------------------------------------------------
(* Mutexes and condition variables of session q.  Only its sending thread
   waits for m_txNotEmpty, only broadcasting threads for m_txNotFull. *)

\* rx of p is in SendMsg of session q.
At(p, q, label) == rx[p] = label /\ Head(snapshot[p]) = q

TxFree(q) == tx[q] # "block" /\ \A p \in Peer : ~At(p, q, "block")
ClientsFree == owner \in {"idle", "join", "stopped"}

\* tx and rx after a notification of m_txNotEmpty, and of m_txNotFull, of q.
TxWoken(q) == [tx EXCEPT ![q] = IF @ = "asleep" THEN "lock" ELSE @]
RxWoken(q) == [p \in Peer |-> IF At(p, q, "asleep") THEN "send" ELSE rx[p]]

-----------------------------------------------------------------------------
(* AcceptClients. *)

\* accept returns; session->Start() starts the two threads.
Accept(p) ==
    /\ accepter = "accept" /\ m_running
    /\ peer[p] # "idle" /\ rx[p] = "none"
    /\ m_active' = [m_active EXCEPT ![p] = TRUE]
    /\ m_socket' = [m_socket EXCEPT ![p] = "open"]
    /\ rx' = [rx EXCEPT ![p] = "check"]
    /\ tx' = [tx EXCEPT ![p] = "lock"]
    /\ accepter' = "push" /\ accepted' = <<p>>
    /\ UNCHANGED <<m_txQueue, m_txBytesQueued, frame, snapshot, msg, m_running, m_clients, owner, stopping, netVars>>

PushBack ==
    /\ accepter = "push" /\ ClientsFree
    /\ m_clients' = m_clients \o accepted
    /\ accepter' = "accept" /\ accepted' = <<>>
    /\ UNCHANGED <<sessVars, threadVars, m_running, owner, stopping, netVars>>

\* The listener is closed, and m_running is cleared.
AcceptEnds ==
    /\ accepter = "accept" /\ ~m_running
    /\ accepter' = "done"
    /\ UNCHANGED <<sessVars, threadVars, m_running, m_clients, accepted, owner, stopping, netVars>>

-----------------------------------------------------------------------------
(* RecvLoop of p, BroadcastMsg, and SendMsg of the sessions it sends to. *)

RecvCheck(p) ==
    /\ rx[p] = "check"
    /\ rx' = [rx EXCEPT ![p] = IF m_active[p] THEN "recv" ELSE "inactive"]
    /\ UNCHANGED <<sessVars, tx, frame, snapshot, msg, srvVars, netVars>>

FrameWaits(p) ==
    /\ m_socket[p] \in {"open", "shut"} /\ peer[p] # "reset"
    /\ rcvd[p] < sent[p] /\ FrameSize[p] <= MAX_PAYLOAD

\* The end of the connection, the timeout set by GracefulShutdown, or a frame that
\* is too long, of which nothing but the size is read.
RecvFails(p) ==
    \/ m_socket[p] = "closed" \/ peer[p] = "reset"
    \/ rcvd[p] = sent[p] /\ (peer[p] = "closed" \/ m_socket[p] = "shut")
    \/ rcvd[p] < sent[p] /\ FrameSize[p] > MAX_PAYLOAD

RecvFrame(p) ==
    /\ rx[p] = "recv" /\ FrameWaits(p)
    /\ rcvd' = [rcvd EXCEPT ![p] = @ + 1]
    /\ frame' = [frame EXCEPT ![p] = rcvd[p] + 1]
    /\ rx' = [rx EXCEPT ![p] = "broadcast"]
    /\ UNCHANGED <<sessVars, tx, snapshot, msg, srvVars, peer, sent, wire, got>>

RecvEnds(p) ==
    /\ rx[p] = "recv" /\ RecvFails(p)
    /\ rx' = [rx EXCEPT ![p] = "inactive"]
    /\ UNCHANGED <<sessVars, tx, frame, snapshot, msg, srvVars, netVars>>

\* The sessions but p's.
Others(p) ==
    LET among[i \in 0..Len(m_clients)] ==
            IF i = 0 THEN <<>>
            ELSE IF m_clients[i] = p THEN among[i - 1]
            ELSE Append(among[i - 1], m_clients[i])
    IN  among[Len(m_clients)]

Broadcast(p) ==
    /\ rx[p] = "broadcast" /\ ClientsFree
    /\ snapshot' = [snapshot EXCEPT ![p] = Others(p)]
    /\ rx' = [rx EXCEPT ![p] = IF Others(p) = <<>> THEN "check" ELSE "send"]
    /\ UNCHANGED <<sessVars, tx, frame, msg, srvVars, netVars>>

\* Mutated form of HasRoom: the last byte is not used.
HasRoomBelow(p, q) == m_txBytesQueued[q] + FrameSize[p] < TX_HWM_BYTES

HasRoom(p, q) == m_txBytesQueued[q] + FrameSize[p] <= TX_HWM_BYTES

\* rx of p has done with the head of its snapshot.
NextTarget(p) ==
    /\ snapshot' = [snapshot EXCEPT ![p] = Tail(@)]
    /\ rx' = [rx EXCEPT ![p] = IF Tail(snapshot[p]) = <<>> THEN "check" ELSE "send"]

SendMsg(p, q) ==
    /\ At(p, q, "send") /\ TxFree(q)
    /\ m_active[q] /\ HasRoom(p, q)
    /\ m_txQueue' = [m_txQueue EXCEPT ![q] = Append(@, <<p, frame[p]>>)]
    /\ m_txBytesQueued' = [m_txBytesQueued EXCEPT ![q] = @ + FrameSize[p]]
    /\ rx' = [rx EXCEPT ![p] = "notify"]
    /\ UNCHANGED <<m_active, m_socket, tx, frame, snapshot, msg, srvVars, netVars>>

SendMsgWaits(p, q) ==
    /\ At(p, q, "send") /\ TxFree(q)
    /\ m_active[q] /\ ~HasRoom(p, q)
    /\ rx' = [rx EXCEPT ![p] = "block"]
    /\ UNCHANGED <<sessVars, tx, frame, snapshot, msg, srvVars, netVars>>

SendMsgSleeps(p) ==
    /\ rx[p] = "block"
    /\ rx' = [rx EXCEPT ![p] = "asleep"]
    /\ UNCHANGED <<sessVars, tx, frame, snapshot, msg, srvVars, netVars>>

\* Mutated form of SendMsgDrops: a message that does not fit is dropped too.
SendMsgDropsFull(p, q) ==
    /\ At(p, q, "send")
    /\ ~m_active[q] \/ ~HasRoom(p, q)
    /\ NextTarget(p)
    /\ UNCHANGED <<sessVars, tx, frame, msg, srvVars, netVars>>

\* The session is not active: the message is dropped.
SendMsgDrops(p, q) ==
    /\ At(p, q, "send")
    /\ ~m_active[q]
    /\ NextTarget(p)
    /\ UNCHANGED <<sessVars, tx, frame, msg, srvVars, netVars>>

\* Mutated form of SendMsgNotify: no notification.
SendMsgSilent(p, q) ==
    /\ At(p, q, "notify")
    /\ NextTarget(p)
    /\ UNCHANGED <<sessVars, tx, frame, msg, srvVars, netVars>>

SendMsgNotify(p, q) ==
    /\ At(p, q, "notify")
    /\ tx' = TxWoken(q)
    /\ NextTarget(p)
    /\ UNCHANGED <<sessVars, frame, msg, srvVars, netVars>>

RecvInactive(p) ==
    /\ rx[p] = "inactive"
    /\ m_active' = [m_active EXCEPT ![p] = FALSE]
    /\ rx' = [rx EXCEPT ![p] = "wake"]
    /\ UNCHANGED <<m_socket, m_txQueue, m_txBytesQueued, tx, frame, snapshot, msg, srvVars, netVars>>

\* Mutated form of RecvWakes: without the mutex.
RecvWakesUnlocked(p) ==
    /\ rx[p] = "wake"
    /\ tx' = TxWoken(p)
    /\ rx' = [RxWoken(p) EXCEPT ![p] = "done"]
    /\ UNCHANGED <<sessVars, frame, snapshot, msg, srvVars, netVars>>

\* Under the mutex of the session.
RecvWakes(p) ==
    /\ rx[p] = "wake" /\ TxFree(p)
    /\ tx' = TxWoken(p)
    /\ rx' = [RxWoken(p) EXCEPT ![p] = "done"]
    /\ UNCHANGED <<sessVars, frame, snapshot, msg, srvVars, netVars>>

-----------------------------------------------------------------------------
(* SendLoop of q. *)

PopWakes(q) == RxWoken(q)

SendPop(q) ==
    /\ tx[q] = "lock" /\ TxFree(q)
    /\ m_txQueue[q] # <<>>
    /\ LET f == Head(m_txQueue[q])
       IN  /\ msg' = [msg EXCEPT ![q] = <<f>>]
           /\ m_txBytesQueued' = [m_txBytesQueued EXCEPT ![q] = IF @ >= Size(f) THEN @ - Size(f) ELSE 0]
    /\ m_txQueue' = [m_txQueue EXCEPT ![q] = Tail(@)]
    /\ rx' = PopWakes(q)
    /\ tx' = [tx EXCEPT ![q] = "send"]
    /\ UNCHANGED <<m_active, m_socket, frame, snapshot, srvVars, netVars>>

SendWaits(q) ==
    /\ tx[q] = "lock" /\ TxFree(q)
    /\ m_txQueue[q] = <<>>
    /\ tx' = [tx EXCEPT ![q] = IF m_active[q] THEN "block" ELSE "done"]
    /\ UNCHANGED <<sessVars, rx, frame, snapshot, msg, srvVars, netVars>>

SendSleeps(q) ==
    /\ tx[q] = "block"
    /\ tx' = [tx EXCEPT ![q] = "asleep"]
    /\ UNCHANGED <<sessVars, rx, frame, snapshot, msg, srvVars, netVars>>

Empty(q) == Size(Head(msg[q])) = 0

\* To a client that has closed, the frame is lost.
SendFrame(q) ==
    /\ tx[q] = "send" /\ m_socket[q] = "open" /\ ~Empty(q)
    /\ \/ peer[q] = "open" /\ Len(wire[q]) < WireCap /\ wire' = [wire EXCEPT ![q] = @ \o msg[q]]
       \/ peer[q] = "closed" /\ UNCHANGED wire
    /\ msg' = [msg EXCEPT ![q] = <<>>]
    /\ tx' = [tx EXCEPT ![q] = "lock"]
    /\ UNCHANGED <<sessVars, rx, frame, snapshot, srvVars, peer, sent, rcvd, got>>

\* send_frame refuses an empty payload, and the session ends as if the connection
\* had failed.
SendFails(q) ==
    /\ tx[q] = "send"
    /\ m_socket[q] # "open" \/ peer[q] # "open" \/ Empty(q)
    /\ msg' = [msg EXCEPT ![q] = <<>>]
    /\ tx' = [tx EXCEPT ![q] = "inactive"]
    /\ UNCHANGED <<sessVars, rx, frame, snapshot, srvVars, netVars>>

SendInactive(q) ==
    /\ tx[q] = "inactive"
    /\ m_active' = [m_active EXCEPT ![q] = FALSE]
    /\ tx' = [tx EXCEPT ![q] = "wake"]
    /\ UNCHANGED <<m_socket, m_txQueue, m_txBytesQueued, rx, frame, snapshot, msg, srvVars, netVars>>

\* Without the mutex.
SendWakes(q) ==
    /\ tx[q] = "wake"
    /\ rx' = RxWoken(q)
    /\ tx' = [tx EXCEPT ![q] = "done"]
    /\ UNCHANGED <<sessVars, frame, snapshot, msg, srvVars, netVars>>

-----------------------------------------------------------------------------
(* ChatServer::Stop.  From "next" on it holds m_clientsMutex. *)

\* m_running is cleared, the listeners are closed.
StopCalled ==
    /\ OwnerStops /\ owner = "idle"
    /\ m_running' = FALSE
    /\ owner' = "join"
    /\ UNCHANGED <<sessVars, threadVars, m_clients, accepter, accepted, stopping, netVars>>

\* Mutated form of JoinAccept: the accept thread is not joined.
NoJoinAccept ==
    /\ owner = "join"
    /\ stopping' = m_clients
    /\ owner' = "next"
    /\ UNCHANGED <<sessVars, threadVars, m_running, m_clients, accepter, accepted, netVars>>

JoinAccept ==
    /\ owner = "join" /\ accepter = "done"
    /\ stopping' = m_clients
    /\ owner' = "next"
    /\ UNCHANGED <<sessVars, threadVars, m_running, m_clients, accepter, accepted, netVars>>

\* ClientSession::Stop of the next session begins; or all are stopped.
StopNext ==
    /\ owner = "next"
    /\ IF stopping = <<>>
       THEN m_clients' = <<>> /\ owner' = "stopped" /\ UNCHANGED m_active
       ELSE /\ m_active' = [m_active EXCEPT ![Head(stopping)] = FALSE]
            /\ owner' = "wake"
            /\ UNCHANGED m_clients
    /\ UNCHANGED <<m_socket, m_txQueue, m_txBytesQueued, threadVars, m_running, accepter, accepted, stopping, netVars>>

StopWakes ==
    /\ owner = "wake"
    /\ LET p == Head(stopping)
       IN  TxFree(p) /\ tx' = TxWoken(p) /\ rx' = RxWoken(p)
    /\ owner' = "shut"
    /\ UNCHANGED <<sessVars, frame, snapshot, msg, m_running, m_clients, accepter, accepted, stopping, netVars>>

\* Mutated form of StopShuts: no timeout is set.
StopWaits ==
    /\ owner = "shut"
    /\ owner' = "recv"
    /\ UNCHANGED <<sessVars, threadVars, m_running, m_clients, accepter, accepted, stopping, netVars>>

StopShuts ==
    /\ owner = "shut"
    /\ m_socket' = [m_socket EXCEPT ![Head(stopping)] = "shut"]
    /\ owner' = "recv"
    /\ UNCHANGED <<m_active, m_txQueue, m_txBytesQueued, threadVars, m_running, m_clients, accepter, accepted, stopping, netVars>>

\* recv_frame takes one frame more, or fails; the socket is closed.
StopCloses ==
    /\ owner = "recv"
    /\ LET p == Head(stopping)
       IN  /\ \/ FrameWaits(p) /\ rcvd' = [rcvd EXCEPT ![p] = @ + 1]
              \/ RecvFails(p) /\ UNCHANGED rcvd
           /\ m_socket' = [m_socket EXCEPT ![p] = "closed"]
    /\ owner' = "joinRx"
    /\ UNCHANGED <<m_active, m_txQueue, m_txBytesQueued, threadVars, m_running, m_clients, accepter, accepted, stopping>>
    /\ UNCHANGED <<peer, sent, wire, got>>

JoinRx ==
    /\ owner = "joinRx" /\ rx[Head(stopping)] = "done"
    /\ owner' = "joinTx"
    /\ UNCHANGED <<sessVars, threadVars, m_running, m_clients, accepter, accepted, stopping, netVars>>

\* The queue is cleared; the next session.
JoinTx ==
    /\ owner = "joinTx"
    /\ LET p == Head(stopping)
       IN  /\ tx[p] = "done" /\ TxFree(p)
           /\ m_txQueue' = [m_txQueue EXCEPT ![p] = <<>>]
           /\ m_txBytesQueued' = [m_txBytesQueued EXCEPT ![p] = 0]
    /\ stopping' = Tail(stopping)
    /\ owner' = "next"
    /\ UNCHANGED <<m_active, m_socket, threadVars, m_running, m_clients, accepter, accepted, netVars>>

-----------------------------------------------------------------------------
(* The clients. *)

Connect(p) ==
    /\ peer[p] = "idle" /\ m_running
    /\ peer' = [peer EXCEPT ![p] = "open"]
    /\ UNCHANGED <<sessVars, threadVars, srvVars, sent, rcvd, wire, got>>

Talk(p) ==
    /\ p \in Talker
    /\ peer[p] = "open" /\ sent[p] < MaxFrames
    /\ sent' = [sent EXCEPT ![p] = @ + 1]
    /\ UNCHANGED <<sessVars, threadVars, srvVars, peer, rcvd, wire, got>>

HangUp(p) ==
    /\ p \in Leaver
    /\ peer[p] \in {"open", "closed"} /\ m_socket[p] # "closed"
    /\ peer' \in {[peer EXCEPT ![p] = s] : s \in {"closed", "reset"} \ {peer[p]}}
    /\ UNCHANGED <<sessVars, threadVars, srvVars, sent, rcvd, wire, got>>

Listen(p) ==
    /\ peer[p] = "open" /\ wire[p] # <<>>
    /\ got' = [got EXCEPT ![p] = Append(@, Head(wire[p]))]
    /\ wire' = [wire EXCEPT ![p] = Tail(@)]
    /\ UNCHANGED <<sessVars, threadVars, srvVars, peer, sent, rcvd>>

-----------------------------------------------------------------------------

Accepter == (\E p \in Peer : Accept(p)) \/ PushBack \/ AcceptEnds

RecvLoop(p) ==
    \/ RecvCheck(p) \/ RecvFrame(p) \/ RecvEnds(p) \/ Broadcast(p)
    \/ \E q \in Peer : SendMsg(p, q) \/ SendMsgWaits(p, q) \/ SendMsgDrops(p, q) \/ SendMsgNotify(p, q)
    \/ SendMsgSleeps(p) \/ RecvInactive(p) \/ RecvWakes(p)

SendLoop(q) ==
    \/ SendPop(q) \/ SendWaits(q) \/ SendSleeps(q)
    \/ SendFrame(q) \/ SendFails(q) \/ SendInactive(q) \/ SendWakes(q)

Stop == JoinAccept \/ StopNext \/ StopWakes \/ StopShuts \/ StopCloses \/ JoinRx \/ JoinTx

Clients == \E p \in Peer : Connect(p) \/ Talk(p) \/ HangUp(p) \/ Listen(p)

Next ==
    \/ Accepter
    \/ \E p \in Peer : RecvLoop(p) \/ SendLoop(p)
    \/ StopCalled \/ Stop
    \/ Clients

Spec == Init /\ [][Next]_vars

\* The threads run, and a connected client reads.
Fairness ==
    /\ WF_vars(Accepter) /\ WF_vars(Stop)
    /\ \A p \in Peer : WF_vars(RecvLoop(p)) /\ WF_vars(SendLoop(p)) /\ WF_vars(Listen(p))

FairSpec == Spec /\ Fairness

-----------------------------------------------------------------------------

Elements(s) == {s[i] : i \in DOMAIN s}

\* What q has been sent and what is on its way through its session.
Stream(q) == got[q] \o wire[q] \o msg[q] \o m_txQueue[q]

(* With as many broadcasting threads as there are clients, the frames of one
   client reach another in order, none twice, and never itself. *)
InOrder ==
    \A q \in Peer :
        LET stream == Stream(q)
        IN  \A i, j \in DOMAIN stream :
              /\ stream[i][1] # q
              /\ i < j /\ stream[i][1] = stream[j][1] => stream[i][2] < stream[j][2]

\* The frames of s that have been handed to all sessions of their snapshot.
Relayed(s) == IF rx[s] \in {"broadcast", "send", "block", "asleep", "notify"}
              THEN frame[s] - 1 ELSE frame[s]

(* Nothing is left out: a client that got one frame of s got the next one too,
   as long as both connections stand. *)
NoGap ==
    \A q, s \in Peer :
        peer[q] = "open" /\ m_socket[q] = "open" /\ m_socket[s] = "open" =>
            \A k, m \in 1..MaxFrames :
                /\ k < m
                /\ <<s, k>> \in Elements(Stream(q))
                /\ <<s, m>> \in Elements(Stream(q)) \/ (m_active[q] /\ m <= Relayed(s))
                => <<s, k + 1>> \in Elements(Stream(q))

(* Both, and the counter that bounds each queue. *)
Inv == TypeOK /\ InOrder /\ NoGap

(* When the receiving thread of a session has ended, nobody sleeps on the
   session, although SendLoop notifies without the mutex. *)
DeadWakeAll ==
    \A q \in Peer :
        rx[q] = "done" => /\ tx[q] \notin {"block", "asleep"}
                          /\ \A p \in Peer : ~At(p, q, "block") /\ ~At(p, q, "asleep")

Sending == {"broadcast", "send", "block", "asleep", "notify"}

\* Stop joins a receiving thread that waits for m_clientsMutex, which Stop holds, or
\* for room in the queue of a later session for a frame that never fits into it.
StopHangs ==
    /\ owner = "joinRx"
    /\ LET p == Head(stopping)
       IN  \/ rx[p] = "broadcast"
           \/ rx[p] \in {"send", "block", "asleep"} /\ FrameSize[p] > TX_HWM_BYTES

(* A broadcast ends, however slow or broken the receivers are, unless Stop hangs
   for ever, and provided that its frame fits into an empty queue: SendMsg waits
   for ever for one that does not, and frames of up to MAX_PAYLOAD are received. *)
BroadcastEnds ==
    \A p \in Talker :
        FrameSize[p] <= TX_HWM_BYTES => (rx[p] \in Sending ~> rx[p] \notin Sending \/ []StopHangs)

\* Somebody else has sent an empty frame, which ends the session of q.
EmptyReceived(q) == \E p \in Peer \ {q} : FrameSize[p] = 0 /\ rcvd[p] > 0

(* The queued frames reach a client that stays, unless an empty frame ended its
   session. *)
Delivered ==
    \A q \in Peer :
        m_txQueue[q] # <<>>
            ~> \/ m_txQueue[q] \o msg[q] \o wire[q] = <<>>
               \/ peer[q] # "open" \/ m_socket[q] # "open" \/ EmptyReceived(q)

(* Stop comes to its end, whatever the clients do, or hangs for ever in one of two
   places: on a thread that waits for the mutex it holds itself, or on one that
   waits for room for a frame above TX_HWM_BYTES in the queue of a session that is
   still active.  Frames that fit do not delay it for ever. *)
StopEnds == owner = "join" ~> owner = "stopped" \/ []StopHangs

(* After Stop no session is alive: no thread runs, nothing is queued. *)
StoppedIsQuiet ==
    owner = "stopped" =>
        \A p \in Peer : /\ rx[p] \in {"none", "done"} /\ tx[p] \in {"none", "done"}
                        /\ m_socket[p] \in {"none", "closed"}
                        /\ m_txQueue[p] = <<>>
=============================================================================
