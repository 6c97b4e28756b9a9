---------------------------- MODULE DirectServer ----------------------------
(***************************************************************************)
(* The two servers that send at once instead of queueing.                  *)
(*   select    NetworkBasics/select/Server: one thread, sockets that do    *)
(*             not block, so a full socket costs its peer the rest of the  *)
(*             message                                                     *)
(*   blocking  NetworkBasics/blocking-multithreaded/Server: a receiving    *)
(*             thread per session, an accept thread and the thread that    *)
(*             calls Stop; a broadcast holds m_clientsMutex while its      *)
(*             sends block                                                 *)
(* Both have one broadcast going on at a time, by the mutex or for want of *)
(* a second thread: `talker` is whose message it is, and in the blocking   *)
(* server the holder of the mutex.  Each send and each recv is a step.     *)
(***************************************************************************)
EXTENDS ChatNet, FiniteSets, SequencesExt

CONSTANTS
    Kinds,          \* the servers to check
    FdCap,          \* FD_SETSIZE, less the listeners
    KernelErrors,   \* may select fail?
    OwnerStops      \* may the owner of the blocking server call Stop?

ASSUME DirectAssumption ==
    /\ Kinds \subseteq {"select", "blocking"}
    /\ FdCap \in Nat
    /\ {KernelErrors, OwnerStops} \subseteq BOOLEAN

VARIABLES
    kind,
    m_clients,      \* the sessions, in the order of iteration
    said,           \* said[p]: how many bytes of p have been passed to BroadcastMsg
    talker,         \* whose message is being broadcast, or NoPeer
    msg,            \* the message
    todo,           \* the sessions it has yet to be sent to; SendMsg is at the first
    rest,           \* what SendMsg has yet to send there
    lost,           \* history: the peers that a full socket cost bytes
    loop,           \* where the thread of the select server is
    readSet,        \* the sessions select reported, not handled yet
    m_toClose,
    accepter,       \* where the accept thread is
    newcomer,       \* its session that is started and not in m_clients yet
    rx,             \* where the receiving threads are
    m_active,       \* the sessions that are active,
    m_socket,       \* and those whose socket is open
    m_running,
    owner,          \* where the thread that calls Stop is
    stopping        \* the sessions it has yet to stop

castVars == <<talker, msg, todo, rest, lost>>
selectVars == <<loop, readSet, m_toClose>>
threadVars == <<accepter, newcomer, rx, m_active, m_socket, m_running, owner, stopping>>
srvVars == <<kind, m_clients, said, castVars, selectVars, threadVars>>
vars == <<netVars, srvVars>>

Sessions == ToSet(m_clients)

\* Stop holds m_clientsMutex from StopLocks to its end.
OwnerLocked == owner \in {"next", "drain", "joinRx"}
MutexFree == talker = NoPeer /\ ~OwnerLocked

TypeOK ==
    /\ NetTypeOK
    /\ kind \in Kinds
    /\ Sessions \subseteq Peer /\ Len(m_clients) = Cardinality(Sessions)
    /\ said \in [Peer -> 0..MaxBytes] /\ \A p \in Peer : said[p] <= rcvd[p]
    /\ talker \in Peer \union {NoPeer}
    /\ {msg, rest} \subseteq Seq(Token)
    /\ ToSet(todo) \subseteq Sessions \ {talker}
    /\ todo # <<>> => talker # NoPeer /\ rest # <<>>
    /\ lost \subseteq Peer
    /\ loop \in {"none", "select", "accept", "clients", "exited"}
    /\ readSet \union m_toClose \subseteq Sessions
    /\ accepter \in {"none", "accept", "push", "done"}
    /\ newcomer \in Peer \union {NoPeer}
    /\ rx \in [Peer -> {"none", "check", "recv", "lock", "send", "ended"}]
    /\ m_active \subseteq m_socket /\ m_socket \subseteq Peer
    /\ m_running \in BOOLEAN
    /\ owner \in {"run", "close", "join", "lock", "next", "drain", "joinRx", "stopped"}
    /\ ToSet(stopping) \subseteq Sessions
    \* One thread at a time is in what m_clientsMutex protects.
    /\ kind = "blocking" => {p \in Peer : rx[p] = "send"} = {talker} \ {NoPeer}
    /\ OwnerLocked => talker = NoPeer

Init ==
    /\ NetInit
    /\ kind \in Kinds
    /\ m_clients = <<>>
    /\ said = [p \in Peer |-> 0]
    /\ talker = NoPeer /\ msg = <<>> /\ todo = <<>> /\ rest = <<>> /\ lost = {}
    /\ loop = IF kind = "select" THEN "select" ELSE "none"
    /\ readSet = {} /\ m_toClose = {}
    /\ accepter = IF kind = "blocking" THEN "accept" ELSE "none"
    /\ newcomer = NoPeer
    /\ rx = [p \in Peer |-> "none"] /\ m_active = {} /\ m_socket = {}
    /\ m_running = TRUE /\ owner = "run" /\ stopping = <<>>

\* The sequence s without the elements of S.
Without(s, S) ==
    LET among[i \in 0..Len(s)] ==
            IF i = 0 THEN <<>>
            ELSE IF s[i] \in S THEN among[i - 1]
            ELSE Append(among[i - 1], s[i])
    IN  among[Len(s)]

-----------------------------------------------------------------------------
(* BroadcastMsg and SendMsg. *)

\* BroadcastMsg of the bytes of p that have been read and not been broadcast.
BroadcastMsg(p, upto) ==
    LET bytes == Chunk(p, said[p], upto - said[p])
    IN  /\ talker' = p
        /\ msg' = bytes
        /\ todo' = Without(m_clients, {p})
        /\ rest' = IF todo' = <<>> THEN <<>> ELSE bytes
        /\ said' = [said EXCEPT ![p] = upto]
        /\ UNCHANGED lost

\* SendMsg is done with the first session of todo.
NextSession ==
    /\ todo' = Tail(todo)
    /\ rest' = IF todo' = <<>> THEN <<>> ELSE msg

\* One send takes what fits.
SendSome ==
    /\ todo # <<>>
    /\ LET q == Head(todo)
           n == SendCount(q, Len(rest))
       IN  /\ ~Failed(q) /\ Space(q) > 0
           /\ down' = [down EXCEPT ![q] = @ \o SubSeq(rest, 1, n)]
           /\ IF n < Len(rest)
              THEN rest' = SubSeq(rest, n + 1, Len(rest)) /\ UNCHANGED todo
              ELSE NextSession
    /\ UNCHANGED <<peer, sent, rcvd, got, backlog>>
    /\ UNCHANGED <<kind, m_clients, said, talker, msg, lost, selectVars, threadVars>>

\* Mutated form of SendGivesUp: the broadcast ends there.
SendGivesUpAll ==
    /\ todo # <<>>
    /\ LET q == Head(todo)
       IN  /\ Failed(q) \/ (kind = "select" /\ Space(q) = 0)
           /\ lost' = IF Failed(q) THEN lost ELSE lost \union {q}
    /\ todo' = <<>> /\ rest' = <<>>
    /\ UNCHANGED <<netVars, kind, m_clients, said, talker, msg, selectVars, threadVars>>

\* The send fails, or would block: the rest of the message is dropped.
SendGivesUp ==
    /\ todo # <<>>
    /\ LET q == Head(todo)
       IN  /\ Failed(q) \/ (kind = "select" /\ Space(q) = 0)
           /\ lost' = IF Failed(q) THEN lost ELSE lost \union {q}
    /\ NextSession
    /\ UNCHANGED <<netVars, kind, m_clients, said, talker, msg, selectVars, threadVars>>

BroadcastDone ==
    /\ talker # NoPeer /\ todo = <<>>
    /\ talker' = NoPeer /\ msg' = <<>>
    /\ rx' = IF kind = "blocking" THEN [rx EXCEPT ![talker] = "check"] ELSE rx
    /\ UNCHANGED <<netVars, kind, m_clients, said, todo, rest, lost, selectVars>>
    /\ UNCHANGED <<accepter, newcomer, m_active, m_socket, m_running, owner, stopping>>

-----------------------------------------------------------------------------
(* The select server: RunEventLoop. *)

\* BuildReadSet: FD_SET ignores what exceeds the set.
Watched == SubSeq(m_clients, 1, IF Len(m_clients) < FdCap THEN Len(m_clients) ELSE FdCap)
Reported == {p \in ToSet(Watched) : Readable(p) \/ Eof(p) \/ Failed(p)}

\* HandleReadyClients goes through m_clients.
NextReady(p) ==
    /\ loop = "clients" /\ talker = NoPeer /\ p \in readSet
    /\ \E i \in DOMAIN m_clients : m_clients[i] = p /\ \A j \in 1..(i - 1) : m_clients[j] \notin readSet
    /\ readSet' = readSet \ {p}

Select ==
    /\ loop = "select"
    /\ backlog # {} \/ Reported # {}
    /\ readSet' = Reported
    /\ loop' = IF backlog # {} THEN "accept" ELSE "clients"
    /\ UNCHANGED <<netVars, kind, m_clients, said, castVars, m_toClose, threadVars>>

\* select fails: the loop ends, and Start calls Stop.
SelectFails ==
    /\ KernelErrors /\ loop = "select"
    /\ m_clients' = <<>> /\ backlog' = {}
    /\ loop' = "exited"
    /\ UNCHANGED <<peer, sent, rcvd, down, got>>
    /\ UNCHANGED <<kind, said, castVars, readSet, m_toClose, threadVars>>

\* AddClient; the greeting's fate is not looked at.  An insertion may change the
\* order in which the unordered_map is iterated.
AddClient(p) ==
    /\ loop = "accept" /\ p \in backlog
    /\ backlog' = backlog \ {p}
    /\ down' = [down EXCEPT ![p] = IF Failed(p) THEN @ ELSE Append(@, Hello)]
    /\ m_clients' \in SetToSeqs(Sessions \union {p})
    /\ UNCHANGED <<peer, sent, rcvd, got>>
    /\ UNCHANGED <<kind, said, castVars, selectVars, threadVars>>

\* accept fails, for want of connections or of anything else.
AcceptDone ==
    /\ loop = "accept"
    /\ backlog = {} \/ KernelErrors
    /\ loop' = "clients"
    /\ UNCHANGED <<netVars, kind, m_clients, said, castVars, readSet, m_toClose, threadVars>>

\* ReceiveMsg of the next session of the round: one recv, and the broadcast.
ReceiveMsg(p) ==
    /\ NextReady(p)
    /\ Readable(p)
    /\ rcvd' = [rcvd EXCEPT ![p] = @ + RecvCount(p)]
    /\ BroadcastMsg(p, rcvd'[p])
    /\ UNCHANGED <<peer, sent, down, got, backlog>>
    /\ UNCHANGED <<kind, m_clients, loop, m_toClose, threadVars>>

\* Mutated form of ReceiveMsgEnds: 0 is taken for "no data right now".
ReceiveMsgIgnoresEnd(p) ==
    /\ NextReady(p)
    /\ Failed(p) \/ (Eof(p) /\ ~Readable(p))
    /\ m_toClose' = IF Failed(p) THEN m_toClose \union {p} ELSE m_toClose
    /\ UNCHANGED <<netVars, kind, m_clients, said, castVars, loop, threadVars>>

\* 0 or -1.
ReceiveMsgEnds(p) ==
    /\ NextReady(p)
    /\ Failed(p) \/ (Eof(p) /\ ~Readable(p))
    /\ m_toClose' = m_toClose \union {p}
    /\ UNCHANGED <<netVars, kind, m_clients, said, castVars, loop, threadVars>>

\* Each is stopped (shut down, drained, closed) and erased.
RemoveClosedClients ==
    /\ loop = "clients" /\ talker = NoPeer /\ readSet = {}
    /\ m_clients' = Without(m_clients, m_toClose)
    /\ m_toClose' = {}
    /\ loop' = "select"
    /\ UNCHANGED <<netVars, kind, said, castVars, readSet, threadVars>>

-----------------------------------------------------------------------------
(* The blocking server: AcceptClients and ReceiveMsg. *)

\* accept, and session->Start(): the thread runs before push_back.
Accept(p) ==
    /\ accepter = "accept" /\ owner \in {"run", "close"}
    /\ p \in backlog
    /\ backlog' = backlog \ {p}
    /\ newcomer' = p
    /\ rx' = [rx EXCEPT ![p] = "check"]
    /\ m_active' = m_active \union {p} /\ m_socket' = m_socket \union {p}
    /\ accepter' = "push"
    /\ UNCHANGED <<peer, sent, rcvd, down, got>>
    /\ UNCHANGED <<kind, m_clients, said, castVars, selectVars, m_running, owner, stopping>>

PushBack ==
    /\ accepter = "push" /\ MutexFree
    /\ m_clients' = Append(m_clients, newcomer)
    /\ newcomer' = NoPeer
    /\ accepter' = IF m_running THEN "accept" ELSE "done"
    /\ UNCHANGED <<netVars, kind, said, castVars, selectVars, rx, m_active, m_socket, m_running, owner, stopping>>

\* The listener is closed; until then accept does not return.
AcceptEnds ==
    /\ accepter = "accept" /\ owner \notin {"run", "close"}
    /\ accepter' = "done"
    /\ UNCHANGED <<netVars, kind, m_clients, said, castVars, selectVars, newcomer, rx, m_active, m_socket, m_running, owner, stopping>>

Goto(p, l) ==
    /\ rx' = [rx EXCEPT ![p] = l]
    /\ UNCHANGED <<accepter, newcomer, m_active, m_socket, m_running, owner, stopping>>

RecvCheck(p) ==
    /\ rx[p] = "check"
    /\ Goto(p, IF p \in m_active THEN "recv" ELSE "ended")
    /\ UNCHANGED <<netVars, kind, m_clients, said, castVars, selectVars>>

Recv(p) ==
    /\ rx[p] = "recv" /\ p \in m_socket
    /\ Readable(p)
    /\ rcvd' = [rcvd EXCEPT ![p] = @ + RecvCount(p)]
    /\ Goto(p, "lock")
    /\ UNCHANGED <<peer, sent, down, got, backlog>>
    /\ UNCHANGED <<kind, m_clients, said, castVars, selectVars>>

\* Mutated form of RecvEnds: a FIN ends the loop ahead of the data before it.
RecvEndsOnFin(p) ==
    /\ rx[p] = "recv"
    /\ Failed(p) \/ Eof(p) \/ p \notin m_socket
    /\ Goto(p, "ended")
    /\ UNCHANGED <<netVars, kind, m_clients, said, castVars, selectVars>>

\* The session stays in m_clients.
RecvEnds(p) ==
    /\ rx[p] = "recv"
    /\ Failed(p) \/ (Eof(p) /\ ~Readable(p)) \/ p \notin m_socket
    /\ Goto(p, "ended")
    /\ UNCHANGED <<netVars, kind, m_clients, said, castVars, selectVars>>

\* Mutated form of Broadcast: the mutex is free for a second one while the first
\* one sends.
BroadcastUnlocked(p) ==
    /\ rx[p] = "lock" /\ ~OwnerLocked
    /\ BroadcastMsg(p, rcvd[p])
    /\ Goto(p, "send")
    /\ UNCHANGED <<netVars, kind, m_clients, selectVars>>

Broadcast(p) ==
    /\ rx[p] = "lock" /\ MutexFree
    /\ BroadcastMsg(p, rcvd[p])
    /\ Goto(p, "send")
    /\ UNCHANGED <<netVars, kind, m_clients, selectVars>>

-----------------------------------------------------------------------------
(* ChatServer::Stop of the blocking server. *)

ownerElse == <<accepter, newcomer, rx>>

StopCalled ==
    /\ OwnerStops /\ kind = "blocking" /\ owner = "run"
    /\ m_running' = FALSE
    /\ owner' = "close"
    /\ UNCHANGED <<netVars, kind, m_clients, said, castVars, selectVars, ownerElse, m_active, m_socket, stopping>>

CloseListeners ==
    /\ owner = "close"
    /\ backlog' = {}
    /\ owner' = "join"
    /\ UNCHANGED <<peer, sent, rcvd, down, got>>
    /\ UNCHANGED <<kind, m_clients, said, castVars, selectVars, ownerElse, m_active, m_socket, m_running, stopping>>

JoinAccept ==
    /\ owner = "join" /\ accepter = "done"
    /\ owner' = "lock"
    /\ UNCHANGED <<netVars, kind, m_clients, said, castVars, selectVars, ownerElse, m_active, m_socket, m_running, stopping>>

StopLocks ==
    /\ owner = "lock" /\ MutexFree
    /\ stopping' = m_clients
    /\ owner' = "next"
    /\ UNCHANGED <<netVars, kind, m_clients, said, castVars, selectVars, ownerElse, m_active, m_socket, m_running>>

\* ClientSession::Stop of the next session; or m_clients.clear() and the end.
StopNext ==
    /\ owner = "next"
    /\ IF stopping = <<>>
       THEN m_clients' = <<>> /\ owner' = "stopped" /\ UNCHANGED m_active
       ELSE m_active' = m_active \ {Head(stopping)} /\ owner' = "drain" /\ UNCHANGED m_clients
    /\ UNCHANGED <<netVars, kind, said, castVars, selectVars, ownerElse, m_socket, m_running, stopping>>

\* Mutated form of DrainEnds: SO_RCVTIMEO is not set.
DrainEndsWithData(p) == Failed(p) \/ (Eof(p) /\ ~Readable(p))

\* The last recv: the end of the data, an error or the timeout.
DrainEnds(p) == Failed(p) \/ ~Readable(p)

\* GracefulShutdown reads on, in competition with the receiving thread; then the
\* socket is closed.
StopDrains ==
    /\ owner = "drain"
    /\ LET p == Head(stopping)
       IN  \/ /\ Readable(p)
              /\ rcvd' = [rcvd EXCEPT ![p] = @ + RecvCount(p)]
              /\ UNCHANGED <<m_socket, owner>>
           \/ /\ DrainEnds(p)
              /\ m_socket' = m_socket \ {p}
              /\ owner' = "joinRx"
              /\ UNCHANGED rcvd
    /\ UNCHANGED <<peer, sent, down, got, backlog>>
    /\ UNCHANGED <<kind, m_clients, said, castVars, selectVars, ownerElse, m_active, m_running, stopping>>

JoinRx ==
    /\ owner = "joinRx" /\ rx[Head(stopping)] = "ended"
    /\ stopping' = Tail(stopping)
    /\ owner' = "next"
    /\ UNCHANGED <<netVars, kind, m_clients, said, castVars, selectVars, ownerElse, m_active, m_socket, m_running>>

-----------------------------------------------------------------------------

Sender == SendSome \/ SendGivesUp \/ BroadcastDone

\* The threads of the servers.  A receiving thread that broadcasts is in Sender.
Loop ==
    \/ Select \/ AcceptDone \/ RemoveClosedClients
    \/ \E p \in Peer : AddClient(p) \/ ReceiveMsg(p) \/ ReceiveMsgEnds(p)
Accepter == (\E p \in Peer : Accept(p)) \/ PushBack \/ AcceptEnds
Receiver(p) == RecvCheck(p) \/ Recv(p) \/ RecvEnds(p) \/ Broadcast(p)
Stop == CloseListeners \/ JoinAccept \/ StopLocks \/ StopNext \/ StopDrains \/ JoinRx

Alive == loop # "exited" /\ owner = "run"
Held(p) == p \in Sessions \union backlog \union {newcomer}

Connect(p) == Alive /\ PeerConnect(p) /\ UNCHANGED srvVars
Talk(p) == Held(p) /\ PeerSend(p) /\ UNCHANGED srvVars
HangUp(p) == Held(p) /\ (PeerFinish(p) \/ PeerReset(p)) /\ UNCHANGED srvVars
Listen(p) == PeerRead(p) /\ UNCHANGED srvVars

Peers == \E p \in Peer : Connect(p) \/ Talk(p) \/ HangUp(p) \/ Listen(p)

Next ==
    \/ Sender \/ Loop \/ SelectFails
    \/ Accepter \/ (\E p \in Peer : Receiver(p))
    \/ StopCalled \/ Stop
    \/ Peers

Spec == Init /\ [][Next]_vars

\* The threads run and accept does not fail for ever; connected peers read, and the
\* host of one that has closed its socket answers data with RST.  Only the loop of
\* the select server can step for ever, so that the others need no condition each.
Threads == Accepter \/ (\E p \in Peer : Receiver(p)) \/ Stop
Wire == \E p \in Peer : Listen(p) \/ (peer[p] = "gone" /\ HangUp(p))

Fairness ==
    /\ WF_vars(Sender) /\ WF_vars(Loop) /\ SF_vars(\E p \in Peer : AddClient(p))
    /\ WF_vars(Threads) /\ WF_vars(Wire)

FairSpec == Spec /\ Fairness

-----------------------------------------------------------------------------
(* The relay. *)

\* What the broadcast that is going on has yet to send to p.
Coming(p) ==
    IF todo = <<>> THEN <<>>
    ELSE IF p = Head(todo) THEN rest
    ELSE IF p \in ToSet(todo) THEN msg ELSE <<>>

\* A broken connection is the end of the membership, although the session stays.
Member == [p \in Peer |->
    IF peer[p] = "idle" THEN "out"
    ELSE IF Failed(p) THEN "gone"
    ELSE IF p \in Sessions THEN "in"
    ELSE IF p \in backlog \union {newcomer} THEN "out"
    ELSE "gone"]

Owed == [p \in Peer |-> IF Failed(p) THEN got[p] ELSE got[p] \o down[p] \o Coming(p)]
Taken == [p \in Peer |-> Len(got[p])]

Relay == INSTANCE ChatRelay WITH MaxSaid <- MaxBytes, state <- Member, owed <- Owed, taken <- Taken

(* The blocking server is a relay, though its sends block in the middle of a
   broadcast, sessions start before they are listed, and broken ones stay
   listed; and the select server is one until a send finds a full socket. *)
ImplementsRelay == [][lost' = {} => Relay!Next]_<<Member, said, Owed, Taken>>

(* Also when bytes are lost, what arrives is in the order of its sender and in one
   order for all, and comes from somebody else (one broadcast at a time, by
   m_clientsMutex or the one thread). *)
OneOrder == Relay!InOrder /\ Relay!SameOrder /\ Relay!NoEcho

(* With the shape of the state: what is sent to are sessions, and one thread at a
   time is in what m_clientsMutex protects. *)
Inv == TypeOK /\ OneOrder

\* p's socket exceeded the set and was ignored.
LeftOut(p) == kind = "select" /\ p \in Sessions \ ToSet(Watched)

(* What a connected client sends is broadcast, however slow the others are, as
   long as they read: no session starves but one that FD_SET left out. *)
Heard ==
    \A p \in Talker :
        said[p] < sent[p] ~> said[p] = sent[p] \/ Failed(p) \/ ~Alive \/ LeftOut(p)

(* A session of the select server whose client hung up or broke off is closed,
   with the same exception. *)
Reaped ==
    \A p \in Peer : kind = "select" /\ p \in Sessions /\ peer[p] # "open"
                        ~> p \notin Sessions \/ LeftOut(p)

\* Stop joins a receiving thread that waits for m_clientsMutex, which Stop holds.
StopHangs == owner = "joinRx" /\ rx[Head(stopping)] = "lock"

(* Stop ends, or hangs on the mutex it holds: on no accept thread, no client that
   does not answer, and no broadcast. *)
StopEnds == owner = "close" ~> owner = "stopped" \/ StopHangs
=============================================================================
