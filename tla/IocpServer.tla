----------------------------- MODULE IocpServer -----------------------------
(***************************************************************************)
(* NetworkBasics/iocp/Server: one thread takes the completions of accepts, *)
(* receives and sends from a port.  A completion names its session by      *)
(* address (the completion key), a session is freed as soon as one of its  *)
(* operations fails, and its other operation completes after that.         *)
(*                                                                         *)
(* A message is what one WSARecv returns: <<p, k>> is the k-th of peer p.  *)
(* The kernel and the peers do nothing in the middle of a handler that     *)
(* they could not do before or after it, so a handler is a step.           *)
(***************************************************************************)
EXTENDS Naturals, Sequences, SequencesExt, FiniteSets

CONSTANTS
    Peer,       \* the clients
    Talker,     \* bound: those that send
    Leaver,     \* bound: those that hang up
    NoPeer,     \* no client
    MaxMsgs,    \* bound: messages one of them sends
    Depth,      \* ACCEPT_DEPTH: AcceptEx calls posted
    SndBuf      \* messages a socket's send buffer takes

ASSUME IocpAssumption ==
    /\ IsFiniteSet(Peer) /\ NoPeer \notin Peer /\ Talker \union Leaver \subseteq Peer
    /\ {MaxMsgs, Depth} \subseteq Nat
    /\ SndBuf \in Nat \ {0}

VARIABLES
    peer,       \* the client's end: "idle", "open", "shut" (FIN) or "reset"
    backlog,    \* connections that no AcceptEx has taken
    said,       \* said[p]: messages p has sent
    rcvd,       \* and those a WSARecv has taken
    toPeer,       \* toPeer[p]: messages in p's send buffer or on the way to p
    first,      \* first[p]: what p has got, without the repetitions
    accepts,    \* AcceptEx calls pending
    recvOps,    \* recvOps[p]: WSARecv calls pending on p's socket
    sendOps,    \* sendOps[p]: the messages of the WSASend calls pending on it
    port,       \* the completions not taken yet
    session,    \* session[a]: whose session is at address a (m_clients)
    m_sendQueue, m_sendInFlight,    \* of the session at a
    posted,     \* posted[p]: what BroadcastMsg has given to p's session
    astray,     \* a completion has reached a session that was not its own
    crashed     \* or freed memory, and the process has ended

peerVars == <<peer, backlog, said, first>>
opVars == <<accepts, recvOps, sendOps, port>>
sessVars == <<session, m_sendQueue, m_sendInFlight, posted>>
iocpVars == <<peerVars, rcvd, toPeer, opVars, sessVars, astray, crashed>>

\* As many addresses as sessions can exist at once.
Addr == 1..Cardinality(Peer)

Message == Talker \X (1..MaxMsgs)

Completion == [kind : {"Accept"}, of : Peer, ok : BOOLEAN]
    \union [kind : {"Recv"}, key : Addr, of : Peer, ok : BOOLEAN, count : 0..MaxMsgs]
    \union [kind : {"Send"}, key : Addr, of : Peer, ok : BOOLEAN]

IocpTypeOK ==
    /\ peer \in [Peer -> {"idle", "open", "shut", "reset"}]
    /\ backlog \subseteq Peer
    /\ said \in [Peer -> 0..MaxMsgs]
    /\ rcvd \in [Peer -> Nat] /\ \A p \in Peer : rcvd[p] <= said[p]
    /\ toPeer \in [Peer -> Seq(Message)] /\ \A p \in Peer : Len(toPeer[p]) <= SndBuf
    /\ first \in [Peer -> Seq(Message)]
    /\ accepts \in Nat
    /\ accepts + Cardinality({i \in DOMAIN port : port[i].kind = "Accept"}) <= Depth
    /\ recvOps \in [Peer -> Nat]
    /\ sendOps \in [Peer -> Seq(Message)]
    /\ port \in Seq(Completion)
    /\ session \in [Addr -> Peer \union {NoPeer}]
    /\ m_sendQueue \in [Addr -> Seq(Message)]
    /\ m_sendInFlight \in [Addr -> BOOLEAN]
    /\ posted \in [Peer -> Seq(Message)]
    /\ {astray, crashed} \subseteq BOOLEAN

\* Start: the accepts are posted.
IocpInit ==
    /\ peer = [p \in Peer |-> "idle"]
    /\ backlog = {}
    /\ said = [p \in Peer |-> 0] /\ rcvd = [p \in Peer |-> 0]
    /\ toPeer = [p \in Peer |-> <<>>] /\ first = [p \in Peer |-> <<>>]
    /\ accepts = Depth
    /\ recvOps = [p \in Peer |-> 0] /\ sendOps = [p \in Peer |-> <<>>]
    /\ port = <<>>
    /\ session = [a \in Addr |-> NoPeer]
    /\ m_sendQueue = [a \in Addr |-> <<>>]
    /\ m_sendInFlight = [a \in Addr |-> FALSE]
    /\ posted = [p \in Peer |-> <<>>]
    /\ astray = FALSE /\ crashed = FALSE

HasSession(p) == \E a \in Addr : session[a] = p
AddressOf(p) == CHOOSE a \in Addr : session[a] = p

-----------------------------------------------------------------------------
(* The clients. *)

Connect(p) ==
    /\ peer[p] = "idle"
    /\ peer' = [peer EXCEPT ![p] = "open"]
    /\ backlog' = backlog \union {p}
    /\ UNCHANGED <<said, first, rcvd, toPeer, opVars, sessVars, astray, crashed>>

Talk(p) ==
    /\ peer[p] = "open" /\ p \in Talker /\ said[p] < MaxMsgs
    /\ said' = [said EXCEPT ![p] = @ + 1]
    /\ UNCHANGED <<peer, backlog, first, rcvd, toPeer, opVars, sessVars, astray, crashed>>

HangUp(p) ==
    /\ peer[p] = "open" /\ p \in Leaver
    /\ \E s \in {"shut", "reset"} : peer' = [peer EXCEPT ![p] = s]
    /\ UNCHANGED <<backlog, said, first, rcvd, toPeer, opVars, sessVars, astray, crashed>>

Listen(p) ==
    /\ peer[p] # "reset" /\ toPeer[p] # <<>>
    /\ toPeer' = [toPeer EXCEPT ![p] = Tail(@)]
    /\ first' = [first EXCEPT ![p] = IF Contains(@, Head(toPeer[p])) THEN @
                                     ELSE Append(@, Head(toPeer[p]))]
    /\ UNCHANGED <<peer, backlog, said, rcvd, opVars, sessVars, astray, crashed>>

-----------------------------------------------------------------------------
(* The kernel completes the operations. *)

\* AcceptEx takes a connection; it fails if there is none left to take.
AcceptDone(p) ==
    /\ p \in backlog /\ accepts > 0
    /\ backlog' = backlog \ {p}
    /\ accepts' = accepts - 1
    /\ port' = Append(port, [kind |-> "Accept", of |-> p, ok |-> peer[p] # "reset"])
    /\ UNCHANGED <<peer, said, first, rcvd, toPeer, recvOps, sendOps, sessVars, astray, crashed>>

\* WSARecv: a message, or nothing any more (0 bytes, an error).
RecvDone(p) ==
    /\ HasSession(p) /\ recvOps[p] > 0
    /\ rcvd[p] < said[p] \/ peer[p] # "open"
    /\ LET ok == rcvd[p] < said[p] /\ peer[p] # "reset"
           n == IF ok THEN rcvd[p] + 1 ELSE 0
       IN  /\ rcvd' = [rcvd EXCEPT ![p] = IF ok THEN n ELSE @]
           /\ port' = Append(port, [kind |-> "Recv", key |-> AddressOf(p), of |-> p,
                                    ok |-> ok, count |-> n])
    /\ recvOps' = [recvOps EXCEPT ![p] = @ - 1]
    /\ UNCHANGED <<peerVars, toPeer, accepts, sendOps, sessVars, astray, crashed>>

\* WSASend, overlapped: the message as a whole, or an error.
SendDone(p) ==
    /\ HasSession(p) /\ sendOps[p] # <<>>
    /\ peer[p] = "reset" \/ Len(toPeer[p]) < SndBuf
    /\ toPeer' = [toPeer EXCEPT ![p] = IF peer[p] = "reset" THEN @
                                   ELSE Append(@, Head(sendOps[p]))]
    /\ sendOps' = [sendOps EXCEPT ![p] = Tail(@)]
    /\ port' = Append(port, [kind |-> "Send", key |-> AddressOf(p), of |-> p,
                             ok |-> peer[p] # "reset"])
    /\ UNCHANGED <<peerVars, rcvd, accepts, recvOps, sessVars, astray, crashed>>

-----------------------------------------------------------------------------
(* ClientSession. *)

\* Mutated form of Push: no second message for a client that is slow.
PushUnlessBusy(q, m) == IF q = <<>> THEN <<m>> ELSE q

\* m_sendQueue.push_back.
Push(q, m) == Append(q, m)

\* Mutated form of Busy: a send is started whatever is in flight.
NeverBusy(inFlight) == FALSE

\* if (m_sendInFlight) return true.
Busy(inFlight) == inFlight

\* The rest of PostSend, for the sessions at S, whose queues are now q, where
\* busy tells of a send in flight: WSASend of the front message.  It may fail at
\* once (Failed) on a connection that is reset, and drops the front message.
StartSends(S, q, busy) ==
    LET idle == {a \in S : ~Busy(busy[a])}
    IN  \E Failed \in SUBSET {a \in idle : peer[session[a]] = "reset"} :
            /\ m_sendQueue' = [a \in Addr |-> IF a \in Failed THEN Tail(q[a]) ELSE q[a]]
            /\ m_sendInFlight' = [a \in Addr |-> a \notin Failed /\ (busy[a] \/ a \in idle)]
            /\ sendOps' = [p \in Peer |->
                   IF \E a \in idle \ Failed : session[a] = p
                   THEN Append(sendOps[p], Head(q[AddressOf(p)])) ELSE sendOps[p]]

\* ClientSession::Stop and erase: the pending operations of the session at a
\* complete with an error, behind the completions in rest.
CloseSession(a, rest) ==
    LET p == session[a]
        aborted(kind) == IF kind = "Recv"
                         THEN [kind |-> "Recv", key |-> a, of |-> p, ok |-> FALSE, count |-> 0]
                         ELSE [kind |-> "Send", key |-> a, of |-> p, ok |-> FALSE]
    IN  /\ port' = rest \o [i \in 1..recvOps[p] |-> aborted("Recv")]
                        \o [i \in 1..Len(sendOps[p]) |-> aborted("Send")]
        /\ recvOps' = [recvOps EXCEPT ![p] = 0]
        /\ sendOps' = [sendOps EXCEPT ![p] = <<>>]
        /\ session' = [session EXCEPT ![a] = NoPeer]

-----------------------------------------------------------------------------
(* RunLoop takes the first completion. *)

Taken(kind) ==
    /\ ~crashed
    /\ port # <<>>
    /\ Head(port).kind = kind

\* The session a completion reaches may be another one, at the same address.
Reaches(c) ==
    /\ session[c.key] # NoPeer
    /\ astray' = (astray \/ session[c.key] # c.of)

\* An accept that fails is not posted again, nor is one whose session fails at
\* once (association with the port, or WSARecv).
AcceptFails ==
    /\ Taken("Accept")
    /\ port' = Tail(port)
    /\ UNCHANGED <<peerVars, rcvd, toPeer, accepts, recvOps, sendOps, sessVars, astray, crashed>>

\* CreateAcceptSocket may fail.
Reposted == {accepts, accepts + 1}

\* A session, its first WSARecv, and AcceptEx again, if another socket is to be
\* had.  The allocator takes the first free address.
OnAcceptComplete ==
    /\ Taken("Accept")
    /\ Head(port).ok
    /\ LET p == Head(port).of
           free == {b \in Addr : session[b] = NoPeer}
           a == CHOOSE b \in free : \A c \in free : b <= c
       IN  /\ session' = [session EXCEPT ![a] = p]
           /\ m_sendQueue' = [m_sendQueue EXCEPT ![a] = <<>>]
           /\ m_sendInFlight' = [m_sendInFlight EXCEPT ![a] = FALSE]
           /\ recvOps' = [recvOps EXCEPT ![p] = 1]
    /\ accepts' \in Reposted
    /\ port' = Tail(port)
    /\ UNCHANGED <<peerVars, rcvd, toPeer, sendOps, posted, astray, crashed>>

\* BroadcastMsg: a message goes to every session but the one at its key.
BroadcastMsg(c) ==
    LET m == <<c.of, c.count>>
        S == {a \in Addr : session[a] # NoPeer /\ a # c.key}
    IN  /\ StartSends(S, [a \in Addr |-> IF a \in S THEN Push(m_sendQueue[a], m)
                                                    ELSE m_sendQueue[a]],
                      m_sendInFlight)
        /\ posted' = [p \in Peer |-> IF \E a \in S : session[a] = p
                                     THEN Append(posted[p], m) ELSE posted[p]]

\* A message, and WSARecv again, whose failure is not looked at.
OnRecvComplete ==
    /\ Taken("Recv")
    /\ Head(port).ok
    /\ Reaches(Head(port))
    /\ BroadcastMsg(Head(port))
    /\ LET p == session[Head(port).key]
       IN  \/ recvOps' = [recvOps EXCEPT ![p] = @ + 1]
           \/ peer[p] = "reset" /\ UNCHANGED recvOps
    /\ port' = Tail(port)
    /\ UNCHANGED <<peerVars, rcvd, toPeer, accepts, session, crashed>>

\* Mutated form of HasNext: the next message waits for another broadcast.
NeverNext(q) == FALSE

\* if (!m_sendQueue.empty()).
HasNext(q) == q # <<>>

\* Pop, and PostSend(front), which queues the front message once more.
OnSendComplete ==
    /\ Taken("Send")
    /\ Head(port).ok
    /\ Reaches(Head(port))
    /\ LET a == Head(port).key
           q == IF m_sendQueue[a] = <<>> THEN <<>> ELSE Tail(m_sendQueue[a])
           busy == [m_sendInFlight EXCEPT ![a] = FALSE]
       IN  IF HasNext(q)
           THEN StartSends({a}, [m_sendQueue EXCEPT ![a] = Push(q, Head(q))], busy)
           ELSE /\ m_sendQueue' = [m_sendQueue EXCEPT ![a] = q]
                /\ m_sendInFlight' = busy
                /\ UNCHANGED sendOps
    /\ port' = Tail(port)
    /\ UNCHANGED <<peerVars, rcvd, toPeer, accepts, recvOps, session, posted, crashed>>

\* The end of a session, by either of its operations.
OnFailedComplete ==
    /\ Taken("Recv") \/ Taken("Send")
    /\ ~Head(port).ok
    /\ Reaches(Head(port))
    /\ CloseSession(Head(port).key, Tail(port))
    /\ UNCHANGED <<peerVars, rcvd, toPeer, accepts, m_sendQueue, m_sendInFlight, posted, crashed>>

\* The memory of the session is free: the process crashes, or the handler finds
\* what the session left there.  It can broadcast the last message; all else
\* comes to nothing, because the socket is INVALID_SOCKET.
OnFreedSession ==
    /\ Taken("Recv") \/ Taken("Send")
    /\ session[Head(port).key] = NoPeer
    /\ crashed' \in BOOLEAN
    /\ IF ~crashed' /\ Head(port).kind = "Recv" /\ Head(port).ok
       THEN BroadcastMsg(Head(port))
       ELSE UNCHANGED <<m_sendQueue, m_sendInFlight, sendOps, posted>>
    /\ port' = Tail(port)
    /\ UNCHANGED <<peerVars, rcvd, toPeer, accepts, recvOps, session, astray>>

-----------------------------------------------------------------------------

RunLoop ==
    \/ AcceptFails \/ OnAcceptComplete
    \/ OnRecvComplete \/ OnSendComplete
    \/ OnFailedComplete \/ OnFreedSession

IocpNext ==
    \/ RunLoop
    \/ \E p \in Peer : \/ Connect(p) \/ Talk(p) \/ HangUp(p) \/ Listen(p)
                       \/ AcceptDone(p) \/ RecvDone(p) \/ SendDone(p)

\* The thread runs, the kernel completes what it can, and clients read.
IocpFairness ==
    /\ WF_iocpVars(RunLoop)
    /\ \A p \in Peer : WF_iocpVars(RecvDone(p)) /\ WF_iocpVars(SendDone(p)) /\ WF_iocpVars(Listen(p))

IocpSpec == IocpInit /\ [][IocpNext]_iocpVars /\ IocpFairness

-----------------------------------------------------------------------------

\* Bound of the run: nothing after a completion that reached a stranger; several
\* messages only of a client that stays, if nobody else talks or hangs up.
Bound ==
    /\ ~astray /\ ~crashed
    /\ \A p \in Peer : said[p] > 1 =>
           p \notin Leaver /\ \A q \in Peer : peer[q] \in {"idle", "open"} /\ (q # p => said[q] = 0)

(* The messages a client gets, repetitions aside, are those broadcast to it, in
   that order and without a hole: however often OnSendComplete posts a message
   again, none overtakes another, and no queued one is lost (PostSend). *)
InOrder == ~astray => \A p \in Peer : IsPrefix(first[p], posted[p])

(* m_sendInFlight tells exactly whether a WSASend of the session is pending or its
   completion not yet handled; there is one at most; and the message whose
   buffer it was given stays at the front of the queue. *)
OneInFlight ==
    ~astray =>
        \A a \in Addr : session[a] # NoPeer =>
            LET p == session[a]
                done == Cardinality({i \in DOMAIN port :
                            port[i].kind = "Send" /\ port[i].key = a /\ port[i].of = p})
            IN  /\ Len(sendOps[p]) + done = (IF m_sendInFlight[a] THEN 1 ELSE 0)
                /\ m_sendInFlight[a] => m_sendQueue[a] # <<>>
                /\ sendOps[p] # <<>> => Head(sendOps[p]) = Head(m_sendQueue[a])

(* With the shape of the state: Depth accepts and their completions at most. *)
IocpInv == IocpTypeOK /\ OneInFlight

(* All that was broadcast to a client gets there, behind what is sent again and
   again, while the client is connected. *)
Sent ==
    \A p \in Peer :
        first[p] # posted[p]
            ~> first[p] = posted[p] \/ peer[p] # "open" \/ ~HasSession(p) \/ astray \/ crashed
=============================================================================
