----------------------------- MODULE PollServer -----------------------------
(***************************************************************************)
(* NetworkBasics/poll/Server: one thread that polls the listener and the   *)
(* clients, accepts, reads and broadcasts, and flushes the send queues.    *)
(*                                                                         *)
(* Every system call is one step, so the peers act between any two of      *)
(* them.  The readiness flags a round works on are the ones poll reported  *)
(* at its start: they may be stale by the time they are used.              *)
(***************************************************************************)
EXTENDS ChatSession

CONSTANT
    KernelErrors    \* may poll, accept and the listener fail?

ASSUME PollAssumption == KernelErrors \in BOOLEAN

VARIABLES
    m_running,
    pc,         \* where the thread is
    pfds,       \* pfds[fd]: the revents of fd not handled yet in this round
    cur         \* the fd whose revents are being handled, or NoFd

loopVars == <<m_running, pc, pfds, cur>>
srvVars == <<sessVars, loopVars>>
vars == <<netVars, srvVars>>

Label == {"poll", "accept", "clients", "read", "write", "exited", "killed"}

Alive == pc \notin {"exited", "killed"}

TypeOK ==
    /\ NetTypeOK
    /\ SessTypeOK
    /\ m_running \in BOOLEAN
    /\ pc \in Label
    /\ pfds \in [Fds -> SUBSET {"IN", "OUT", "ERR"}]
    /\ cur \in Fds \union {NoFd}
    /\ pc \in {"read", "write"} => cur \in Fds

Init ==
    /\ NetInit
    /\ SessInit
    /\ m_running = TRUE
    /\ pc = "poll"
    /\ pfds = [fd \in Fds |-> {}]
    /\ cur = NoFd

\* Stop, or death by a signal.
DropAll ==
    /\ DropSessions
    /\ pfds' = [fd \in Fds |-> {}]
    /\ m_running' = FALSE

-----------------------------------------------------------------------------
(* RunLoop: RebuildPollSet and poll. *)

\* Mutated forms of Revents: POLLOUT is never asked for; a FIN is taken for a
\* hang-up although there may be bytes before it.
ReventsNoOut(p) ==
    IF Failed(p) THEN {"ERR"} ELSE {e \in {"IN"} : Readable(p) \/ Eof(p)}
ReventsFinIsHup(p) ==
    IF Failed(p) \/ Eof(p) THEN {"ERR"}
    ELSE {e \in {"IN", "OUT"} : \/ e = "IN" /\ Readable(p)
                                \/ e = "OUT" /\ IsWantSend(p) /\ Space(p) > 0}

\* The revents poll reports for the session of p; POLLOUT only if asked for.
Revents(p) ==
    IF Failed(p) THEN {"ERR"}
    ELSE {e \in {"IN", "OUT"} : \/ e = "IN" /\ (Readable(p) \/ Eof(p))
                                \/ e = "OUT" /\ IsWantSend(p) /\ Space(p) > 0}

Reported == [fd \in Fds |-> IF m_clients[fd] = NoPeer THEN {} ELSE Revents(m_clients[fd])]

Ready == backlog # {} \/ \E fd \in Fds : Reported[fd] # {}

Poll ==
    /\ pc = "poll"
    /\ Ready
    /\ pfds' = Reported
    /\ pc' = IF backlog # {} THEN "accept" ELSE "clients"
    /\ UNCHANGED <<netVars, m_running, sessVars, cur>>

\* TIMEOUT_MS without an event, or EINTR: the loop goes round.
PollTimeout ==
    /\ pc = "poll"
    /\ ~Ready
    /\ UNCHANGED vars

\* poll reports an error on the listener: m_running is cleared, but the
\* clients of this round are still handled.
ListenerError ==
    /\ KernelErrors
    /\ pc = "poll"
    /\ pfds' = Reported
    /\ m_running' = FALSE
    /\ pc' = "clients"
    /\ UNCHANGED <<netVars, sessVars, cur>>

\* poll itself fails: the loop breaks and Start calls Stop.
PollError ==
    /\ KernelErrors
    /\ pc = "poll"
    /\ DropAll
    /\ pc' = "exited"
    /\ UNCHANGED <<peer, sent, rcvd, down, got, cur>>

-----------------------------------------------------------------------------
(* HandleListeners, AcceptAll. *)

Accept(p, fd) ==
    /\ pc = "accept"
    /\ AcceptClient(p, fd)
    /\ UNCHANGED loopVars

\* EAGAIN; EMFILE when no descriptor is left; any other error.
AcceptDone ==
    /\ pc = "accept"
    /\ \/ backlog = {}
       \/ \A fd \in Fds : m_clients[fd] # NoPeer
       \/ KernelErrors
    /\ pc' = "clients"
    /\ UNCHANGED <<netVars, m_running, sessVars, pfds, cur>>

-----------------------------------------------------------------------------
(* HandleClients.  m_clients is an unordered_map, so the entries are handled
   in any order. *)

DispatchError(fd) ==
    /\ pc = "clients"
    /\ "ERR" \in pfds[fd]
    /\ CloseClient(fd)
    /\ pfds' = [pfds EXCEPT ![fd] = {}]
    /\ UNCHANGED <<netVars, m_running, pc, cur>>

Dispatch(fd) ==
    /\ pc = "clients"
    /\ pfds[fd] # {} /\ "ERR" \notin pfds[fd]
    /\ IF m_clients[fd] = NoPeer                    \* it == end()
       THEN pfds' = [pfds EXCEPT ![fd] = {}] /\ UNCHANGED <<pc, cur>>
       ELSE /\ cur' = fd
            /\ pc' = IF "IN" \in pfds[fd] THEN "read" ELSE "write"
            /\ UNCHANGED pfds
    /\ UNCHANGED <<netVars, m_running, sessVars>>

\* The entry of cur is done.
NextEntry ==
    /\ pc' = "clients"
    /\ pfds' = [pfds EXCEPT ![cur] = {}]
    /\ cur' = NoFd

\* All entries are done: another round, or Stop.
RoundDone ==
    /\ pc = "clients"
    /\ \A fd \in Fds : pfds[fd] = {}
    /\ IF m_running
       THEN pc' = "poll" /\ UNCHANGED <<backlog, m_running, sessVars, pfds>>
       ELSE pc' = "exited" /\ DropAll
    /\ UNCHANGED <<peer, sent, rcvd, down, got, cur>>

-----------------------------------------------------------------------------
(* ClientSession::Read, one recv at a time. *)

ReadData ==
    LET p == m_clients[cur]
        n == RecvCount(p)
    IN  /\ pc = "read"
        /\ Readable(p)
        /\ rcvd' = [rcvd EXCEPT ![p] = @ + n]
        /\ BroadcastMsg(Chunk(p, rcvd[p], n), p)
        /\ UNCHANGED <<peer, sent, down, got, backlog>>
        /\ UNCHANGED <<m_running, m_clients, pc, pfds, cur>>

\* Mutated form of ReadEnd: 0 from recv is taken for "no more data".
ReadEndIgnored ==
    LET p == m_clients[cur]
    IN  /\ pc = "read"
        /\ ~Readable(p) /\ (Eof(p) \/ Failed(p))
        /\ NextEntry
        /\ UNCHANGED <<netVars, m_running, sessVars>>

\* recv returns 0 or fails: Read returns false.
ReadEnd ==
    LET p == m_clients[cur]
    IN  /\ pc = "read"
        /\ ~Readable(p) /\ (Eof(p) \/ Failed(p))
        /\ CloseClient(cur)
        /\ NextEntry
        /\ UNCHANGED <<netVars, m_running>>

\* EAGAIN: Read returns true.
ReadAgain ==
    LET p == m_clients[cur]
    IN  /\ pc = "read"
        /\ ~Readable(p) /\ peer[p] = "open"
        /\ IF "OUT" \in pfds[cur] THEN pc' = "write" /\ UNCHANGED <<pfds, cur>> ELSE NextEntry
        /\ UNCHANGED <<netVars, m_running, sessVars>>

-----------------------------------------------------------------------------
(* ClientSession::Write, one send at a time. *)

WriteData ==
    LET p == m_clients[cur]
        n == SendCount(p, FrontLen(p))
    IN  /\ pc = "write"
        /\ IsWantSend(p) /\ ~Failed(p) /\ Space(p) > 0
        /\ down' = [down EXCEPT ![p] = @ \o SubSeq(pending[p], 1, n)]
        /\ Consume(p, n)
        /\ IF n < FrontLen(p) THEN NextEntry ELSE UNCHANGED <<pc, pfds, cur>>
        /\ UNCHANGED <<peer, sent, rcvd, got, backlog, m_running, m_clients>>

\* The queue is empty, or EAGAIN: Write returns true.
WriteReturn ==
    LET p == m_clients[cur]
    IN  /\ pc = "write"
        /\ ~IsWantSend(p) \/ (~Failed(p) /\ Space(p) = 0)
        /\ NextEntry
        /\ UNCHANGED <<netVars, m_running, sessVars>>

\* ECONNRESET: Write returns false.
WriteError ==
    LET p == m_clients[cur]
    IN  /\ pc = "write"
        /\ IsWantSend(p) /\ peer[p] = "reset"
        /\ CloseClient(cur)
        /\ NextEntry
        /\ UNCHANGED <<netVars, m_running>>

\* EPIPE: send is called without MSG_NOSIGNAL and SIGPIPE is not handled, so
\* the process dies.
WriteSigpipe ==
    LET p == m_clients[cur]
    IN  /\ pc = "write"
        /\ IsWantSend(p) /\ peer[p] = "broken"
        /\ DropAll
        /\ pc' = "killed"
        /\ cur' = NoFd
        /\ UNCHANGED <<peer, sent, rcvd, down, got>>

-----------------------------------------------------------------------------

Terminated ==
    /\ ~Alive
    /\ UNCHANGED vars

Server ==
    \/ Poll
    \/ ListenerError
    \/ PollError
    \/ \E p \in Peer, fd \in Fds : Accept(p, fd)
    \/ AcceptDone
    \/ \E fd \in Fds : DispatchError(fd) \/ Dispatch(fd)
    \/ RoundDone
    \/ ReadData \/ ReadEnd \/ ReadAgain
    \/ WriteData \/ WriteReturn \/ WriteError \/ WriteSigpipe

Connect(p) == Alive /\ PeerConnect(p) /\ UNCHANGED srvVars
Talk(p) == Held(p) /\ PeerSend(p) /\ UNCHANGED srvVars
HangUp(p) == Held(p) /\ (PeerFinish(p) \/ PeerReset(p)) /\ UNCHANGED srvVars
Listen(p) == PeerRead(p) /\ UNCHANGED srvVars

Peers == \E p \in Peer : Connect(p) \/ Talk(p) \/ HangUp(p) \/ Listen(p)

Next == Server \/ Peers \/ PollTimeout \/ Terminated

Spec == Init /\ [][Next]_vars

\* The thread runs, and a connected peer reads what arrives.
Fairness == WF_vars(Server) /\ \A p \in Peer : WF_vars(Listen(p))

FairSpec == Spec /\ Fairness

-----------------------------------------------------------------------------

(* Through partial sends, full buffers, stale readiness and hang-ups, what a
   peer has read, what is on its way and what its queue holds is the relay's
   stream: no byte lost, doubled, reordered or echoed while it is a member. *)
ImplementsRelay == Relay!Spec

(* While the revents of a descriptor wait to be handled, the descriptor is
   not closed or given to another client: a stale event never reaches a
   stranger (accept runs before the clients of a round, and a session is
   closed by its own entry only). *)
EventOwner ==
    [][\A fd \in Fds : pfds[fd] # {} /\ pfds'[fd] # {}
                         => m_clients'[fd] = m_clients[fd]]_vars

(* A client that hung up is let go, whatever was queued for it. *)
Reaped == \A p \in Peer : (p \in Clients /\ peer[p] # "open") ~> p \notin Clients

(* A queue does not stay non-empty for ever: POLLOUT is asked for as long as
   there is something to flush, and the peer reads. *)
Flushed == \A p \in Peer : IsWantSend(p) ~> ~IsWantSend(p)

(* Every byte a member has sent is relayed, its last words before the FIN
   included, unless its connection breaks or the process dies. *)
Heard ==
    \A p \in Talker : \A k \in 1..MaxBytes :
        (p \in Clients /\ sent[p] >= k) ~> (rcvd[p] >= k \/ Failed(p) \/ ~Alive)
=============================================================================
