---------------------------- MODULE EpollServer ----------------------------
(***************************************************************************)
(* NetworkBasics/epoll/Server (Design/event_loop/Server is the same code): *)
(* one thread, epoll with a level-triggered listener and clients that are  *)
(* EPOLLET | EPOLLONESHOT.                                                 *)
(*                                                                         *)
(* A reported ONESHOT descriptor is disarmed until EPOLL_CTL_MOD names a   *)
(* mask again, and MOD looks at the socket's readiness at once: so an      *)
(* armed descriptor fires exactly when it is, or becomes, ready.           *)
(*                                                                         *)
(* As in PollServer, every system call is a step, and the events of a      *)
(* batch may be stale when they are handled.                               *)
(***************************************************************************)
EXTENDS ChatSession, FiniteSets

CONSTANTS
    MaxEvents,      \* MAX_EVENTS: the size of a batch
    KernelErrors    \* may epoll_wait, epoll_ctl, accept4 and the listener fail?

ASSUME EpollAssumption == MaxEvents \in Nat \ {0} /\ KernelErrors \in BOOLEAN

VARIABLES
    m_running,
    registered, \* the client descriptors in the epoll set
    armed,      \* armed[fd]: the events fd is armed for; {} once it has fired
    pc,         \* where the thread is
    batch,      \* batch[fd]: the event of fd not handled yet, or {}
    listener,   \* the listener's event of the batch: "none", "IN" or "ERR"
    cur         \* the fd whose event is being handled, or NoFd

loopVars == <<m_running, registered, armed, pc, batch, listener, cur>>
srvVars == <<sessVars, loopVars>>
vars == <<netVars, srvVars>>

Label == {"wait", "batch", "accept", "read", "write", "exited"}

Alive == pc # "exited"

TypeOK ==
    /\ NetTypeOK
    /\ SessTypeOK
    /\ m_running \in BOOLEAN
    /\ registered \in SUBSET Fds
    /\ armed \in [Fds -> SUBSET {"IN", "OUT"}]
    /\ pc \in Label
    /\ batch \in [Fds -> SUBSET {"IN", "OUT", "HUP"}]
    /\ listener \in {"none", "IN", "ERR"}
    /\ cur \in Fds \union {NoFd}
    /\ pc \in {"read", "write"} => cur \in Fds

Init ==
    /\ NetInit
    /\ SessInit
    /\ m_running = TRUE
    /\ registered = {}
    /\ armed = [fd \in Fds |-> {}]
    /\ pc = "wait"
    /\ batch = [fd \in Fds |-> {}]
    /\ listener = "none"
    /\ cur = NoFd

\* Stop: clients, listeners, the epoll instance.
StopServer ==
    /\ DropSessions
    /\ registered' = {}
    /\ armed' = [fd \in Fds |-> {}]
    /\ batch' = [fd \in Fds |-> {}]
    /\ listener' = "none"
    /\ m_running' = FALSE
    /\ pc' = "exited"

-----------------------------------------------------------------------------
(* RunLoop: epoll_wait. *)

\* The mask ModClientWritable builds for a session; RDHUP is always in it.
Mask(wantSend) == IF wantSend THEN {"IN", "OUT"} ELSE {"IN"}

\* What epoll reports for fd.  ERR, HUP and RDHUP are handled alike and before
\* anything else, so they are one event.
Event(fd) ==
    LET p == m_clients[fd]
    IN  IF fd \notin registered \/ armed[fd] = {} THEN {}
        ELSE IF Failed(p) \/ Eof(p) THEN {"HUP"}
        ELSE {e \in armed[fd] : \/ e = "IN" /\ Readable(p)
                                \/ e = "OUT" /\ Space(p) > 0}

ReadyFds == {fd \in Fds : Event(fd) # {}}

ListenerReady == backlog # {}

\* A batch: as many ready descriptors as it holds.  Each client reported is
\* disarmed (ONESHOT); the listener is not.
Wait ==
    /\ pc = "wait"
    /\ \E S \in SUBSET ReadyFds :
        \E l \in IF ListenerReady THEN {"none", "IN"} ELSE {"none"} :
         LET size  == Cardinality(S) + (IF l = "IN" THEN 1 ELSE 0)
             ready == Cardinality(ReadyFds) + (IF ListenerReady THEN 1 ELSE 0)
         IN  /\ size > 0
             /\ size = IF ready < MaxEvents THEN ready ELSE MaxEvents
             /\ batch' = [fd \in Fds |-> IF fd \in S THEN Event(fd) ELSE {}]
             /\ armed' = [fd \in Fds |-> IF fd \in S THEN {} ELSE armed[fd]]
             /\ listener' = l
    /\ pc' = "batch"
    /\ UNCHANGED <<netVars, sessVars, m_running, registered, cur>>

\* epoll_wait has no timeout: without an event the thread sleeps.
Asleep ==
    /\ pc = "wait"
    /\ ReadyFds = {} /\ ~ListenerReady
    /\ UNCHANGED vars

\* epoll_wait fails: the loop breaks and Start calls Stop.
WaitError ==
    /\ KernelErrors
    /\ pc = "wait"
    /\ StopServer
    /\ UNCHANGED <<peer, sent, rcvd, down, got, cur>>

\* The listener reports an error, in a batch of its own.
ListenerError ==
    /\ KernelErrors
    /\ pc = "wait"
    /\ listener' = "ERR"
    /\ pc' = "batch"
    /\ UNCHANGED <<netVars, sessVars, m_running, registered, armed, batch, cur>>

\* The batch is done: another round, or Stop.
BatchDone ==
    /\ pc = "batch"
    /\ listener = "none" /\ \A fd \in Fds : batch[fd] = {}
    /\ IF m_running
       THEN /\ pc' = "wait"
            /\ UNCHANGED <<backlog, sessVars, m_running, registered, armed, batch, listener>>
       ELSE StopServer
    /\ UNCHANGED <<peer, sent, rcvd, down, got, cur>>

-----------------------------------------------------------------------------
(* HandleListeners, AcceptAll.  The batch has no order the code could rely
   on, so the listener comes before, between or after the clients. *)

HandleListeners ==
    /\ pc = "batch"
    /\ listener # "none"
    /\ listener' = "none"
    /\ IF listener = "ERR" THEN m_running' = FALSE /\ UNCHANGED pc
                           ELSE pc' = "accept" /\ UNCHANGED m_running
    /\ UNCHANGED <<netVars, sessVars, registered, armed, batch, cur>>

\* accept4, greeting, emplace and AddClientToEpoll, whose EPOLL_CTL_ADD may
\* fail: the session then stays without events.
Accept(p, fd) ==
    /\ pc = "accept"
    /\ AcceptClient(p, fd)
    /\ \/ /\ registered' = registered \union {fd}
          /\ armed' = [armed EXCEPT ![fd] = Mask(IsWantSend(p))]
       \/ KernelErrors /\ UNCHANGED <<registered, armed>>
    /\ UNCHANGED <<m_running, pc, batch, listener, cur>>

\* EAGAIN; EMFILE when no descriptor is left; any other error.
AcceptDone ==
    /\ pc = "accept"
    /\ \/ backlog = {}
       \/ \A fd \in Fds : m_clients[fd] # NoPeer
       \/ KernelErrors
    /\ pc' = "batch"
    /\ UNCHANGED <<netVars, sessVars, m_running, registered, armed, batch, listener, cur>>

-----------------------------------------------------------------------------
(* HandleClients. *)

\* Session Stop, erase, EPOLL_CTL_DEL; the event of fd is done.
Close(fd) ==
    /\ CloseClient(fd)
    /\ registered' = registered \ {fd}
    /\ armed' = [armed EXCEPT ![fd] = {}]
    /\ batch' = [batch EXCEPT ![fd] = {}]
    /\ pc' = "batch"
    /\ cur' = NoFd

DispatchHup(fd) ==
    /\ pc = "batch"
    /\ "HUP" \in batch[fd]
    /\ Close(fd)
    /\ UNCHANGED <<netVars, m_running, listener>>

Dispatch(fd) ==
    /\ pc = "batch"
    /\ batch[fd] # {} /\ "HUP" \notin batch[fd]
    /\ IF m_clients[fd] = NoPeer                    \* it == end()
       THEN batch' = [batch EXCEPT ![fd] = {}] /\ UNCHANGED <<pc, cur>>
       ELSE /\ cur' = fd
            /\ pc' = IF "IN" \in batch[fd] THEN "read" ELSE "write"
            /\ UNCHANGED batch
    /\ UNCHANGED <<netVars, sessVars, m_running, registered, armed, listener>>

\* The event of cur is done.
NextEvent ==
    /\ pc' = "batch"
    /\ batch' = [batch EXCEPT ![cur] = {}]
    /\ cur' = NoFd

-----------------------------------------------------------------------------
(* ClientSession::Read, one recv at a time. *)

\* Every other session gets the message and is armed for EPOLLOUT.
ReadData ==
    LET p == m_clients[cur]
        n == RecvCount(p)
    IN  /\ pc = "read"
        /\ Readable(p)
        /\ rcvd' = [rcvd EXCEPT ![p] = @ + n]
        /\ BroadcastMsg(Chunk(p, rcvd[p], n), p)
        /\ armed' = [fd \in Fds |-> IF fd \in registered /\ m_clients[fd] # p
                                    THEN Mask(TRUE) ELSE armed[fd]]
        /\ UNCHANGED <<peer, sent, down, got, backlog, m_clients>>
        /\ UNCHANGED <<m_running, registered, pc, batch, listener, cur>>

\* recv returns 0 or fails: Read returns false.
ReadEnd ==
    LET p == m_clients[cur]
    IN  /\ pc = "read"
        /\ ~Readable(p) /\ (Eof(p) \/ Failed(p))
        /\ Close(cur)
        /\ UNCHANGED <<netVars, m_running, listener>>

\* EAGAIN: Read returns true.  Without EPOLLOUT in the event the handler ends
\* here, and does not arm the descriptor again.
ReadAgain ==
    LET p == m_clients[cur]
    IN  /\ pc = "read"
        /\ ~Readable(p) /\ peer[p] = "open"
        /\ IF "OUT" \in batch[cur] THEN pc' = "write" /\ UNCHANGED <<batch, cur>> ELSE NextEvent
        /\ UNCHANGED <<netVars, sessVars, m_running, registered, armed, listener>>

-----------------------------------------------------------------------------
(* ClientSession::Write, one send at a time, and ModClientWritable. *)

\* Mutated form of ModClientWritable: EPOLLOUT is never dropped.
ModAlwaysWritable(fd, wantSend) ==
    armed' = IF fd \in registered THEN [armed EXCEPT ![fd] = Mask(TRUE)] ELSE armed

\* EPOLL_CTL_MOD with the mask for a queue that is empty or not; ENOENT for a
\* descriptor that was never added is only logged.
ModClientWritable(fd, wantSend) ==
    armed' = IF fd \in registered THEN [armed EXCEPT ![fd] = Mask(wantSend)] ELSE armed

\* A send that takes bytes; after a partial one Write returns.
WriteData ==
    LET p == m_clients[cur]
        n == SendCount(p, FrontLen(p))
    IN  /\ pc = "write"
        /\ IsWantSend(p) /\ ~Failed(p) /\ Space(p) > 0
        /\ down' = [down EXCEPT ![p] = @ \o SubSeq(pending[p], 1, n)]
        /\ Consume(p, n)
        /\ IF n < FrontLen(p)
           THEN NextEvent /\ ModClientWritable(cur, TRUE)
           ELSE UNCHANGED <<pc, batch, cur, armed>>
        /\ UNCHANGED <<peer, sent, rcvd, got, backlog, m_clients>>
        /\ UNCHANGED <<m_running, registered, listener>>

\* The queue is empty, or EAGAIN: Write returns true.
WriteReturn ==
    LET p == m_clients[cur]
    IN  /\ pc = "write"
        /\ ~IsWantSend(p) \/ (~Failed(p) /\ Space(p) = 0)
        /\ NextEvent
        /\ ModClientWritable(cur, IsWantSend(p))
        /\ UNCHANGED <<netVars, sessVars, m_running, registered, listener>>

\* ECONNRESET, or EPIPE (send is called with MSG_NOSIGNAL): Write returns false.
WriteError ==
    LET p == m_clients[cur]
    IN  /\ pc = "write"
        /\ IsWantSend(p) /\ Failed(p)
        /\ Close(cur)
        /\ UNCHANGED <<netVars, m_running, listener>>

-----------------------------------------------------------------------------

Terminated ==
    /\ ~Alive
    /\ UNCHANGED vars

Server ==
    \/ Wait \/ WaitError \/ ListenerError \/ BatchDone
    \/ HandleListeners
    \/ \E p \in Peer, fd \in Fds : Accept(p, fd)
    \/ AcceptDone
    \/ \E fd \in Fds : DispatchHup(fd) \/ Dispatch(fd)
    \/ ReadData \/ ReadEnd \/ ReadAgain
    \/ WriteData \/ WriteReturn \/ WriteError

Connect(p) == Alive /\ PeerConnect(p) /\ UNCHANGED srvVars
Talk(p) == Held(p) /\ PeerSend(p) /\ UNCHANGED srvVars
HangUp(p) == Held(p) /\ (PeerFinish(p) \/ PeerReset(p)) /\ UNCHANGED srvVars
Listen(p) == PeerRead(p) /\ UNCHANGED srvVars

Peers == \E p \in Peer : Connect(p) \/ Talk(p) \/ HangUp(p) \/ Listen(p)

Next == Server \/ Peers \/ Asleep \/ Terminated

Spec == Init /\ [][Next]_vars

-----------------------------------------------------------------------------

(* What reaches a peer is the relay's stream, through partial sends, full
   buffers, stale events and hang-ups (BroadcastMsg, Write, CloseClient). *)
ImplementsRelay == Relay!Spec

(* While an event of a descriptor waits in the batch, the descriptor is not
   closed or given to another client, although the listener of the same batch
   may accept in between: a session is closed by its own event only, and a
   descriptor has one event in a batch. *)
EventOwner ==
    [][\A fd \in Fds : batch[fd] # {} /\ batch'[fd] # {}
                         => m_clients'[fd] = m_clients[fd]]_vars

(* "If queue is empty now - drop EPOLLOUT to avoid busy wakeups": whenever the
   thread goes to sleep, an armed session asks for EPOLLOUT exactly if it has
   something to send. *)
MaskMatchesQueue ==
    pc = "wait" =>
        \A fd \in registered : armed[fd] # {} => armed[fd] = Mask(IsWantSend(m_clients[fd]))

(* With the shape of the state: no queue has an empty message (ClientSession::Write
   would take its send for an error). *)
Inv == TypeOK /\ MaskMatchesQueue

(* "Ensure we get notified to flush": whenever the thread goes to sleep, a
   session with a non-empty queue is armed for EPOLLOUT. *)
FlushNotified ==
    pc = "wait" => \A fd \in registered : IsWantSend(m_clients[fd]) => "OUT" \in armed[fd]
=============================================================================
