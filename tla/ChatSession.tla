---------------------------- MODULE ChatSession ----------------------------
(***************************************************************************)
(* The sessions of the poll and epoll servers: the map from descriptors to *)
(* ClientSession objects and their send queues.  The two servers have the  *)
(* same ClientSession class (its Read and Write loops are steps of the     *)
(* server modules, which extend this one) and promise the same relay.      *)
(*                                                                         *)
(* A session's m_sendQueue, a deque of strings, is represented by its      *)
(* bytes (pending) and the offsets at which its messages end (ends).       *)
(***************************************************************************)
EXTENDS ChatNet

CONSTANTS
    Fds,        \* bound: descriptors for clients (RLIMIT_NOFILE)
    NoFd        \* no descriptor

ASSUME SessionAssumption == NoFd \notin Fds

VARIABLES
    m_clients,  \* m_clients[fd]: the peer of the session under key fd, or NoPeer
    pending,    \* pending[p]: the bytes in the send queue of p's session
    ends        \* ends[p]: where in pending[p] the queued messages end

sessVars == <<m_clients, pending, ends>>

(* No queued message is empty, and the last one ends where the bytes end: Write
   never faces an empty front message (send would return 0, and Write would take
   that for a hang-up). *)
QueueShape ==
    \A p \in Peer : /\ ends[p] \subseteq 1..Len(pending[p])
                    /\ pending[p] # <<>> => Len(pending[p]) \in ends[p]

SessTypeOK ==
    /\ m_clients \in [Fds -> Peer \union {NoPeer}]
    /\ pending \in [Peer -> Seq(Token)]
    /\ ends \in [Peer -> SUBSET Nat]
    /\ QueueShape

SessInit ==
    /\ m_clients = [fd \in Fds |-> NoPeer]
    /\ pending = [p \in Peer |-> <<>>]
    /\ ends = [p \in Peer |-> {}]

Clients == {m_clients[fd] : fd \in Fds} \ {NoPeer}
Held(p) == p \in Clients \/ p \in backlog

-----------------------------------------------------------------------------
(* The send queue of a session. *)

IsWantSend(p) == pending[p] # <<>>

\* The length of the front message.
FrontLen(p) == CHOOSE e \in ends[p] : \A f \in ends[p] : e <= f

\* PostSend of the bytes msg to every session of S.
PostSend(S, msg) ==
    /\ pending' = [p \in Peer |-> IF p \in S THEN pending[p] \o msg ELSE pending[p]]
    /\ ends' = [p \in Peer |-> IF p \in S THEN ends[p] \union {Len(pending[p]) + Len(msg)}
                               ELSE ends[p]]

\* Mutated forms of Consume: the message stays, empty, once all of it is sent;
\* the message is popped although only part of it was sent.
ConsumeKeepsEmpty(p, n) ==
    /\ pending' = [pending EXCEPT ![p] = SubSeq(@, n + 1, Len(@))]
    /\ ends' = [ends EXCEPT ![p] = {e - n : e \in @}]
ConsumeLosesRest(p, n) ==
    /\ pending' = [pending EXCEPT ![p] = SubSeq(@, FrontLen(p) + 1, Len(@))]
    /\ ends' = [ends EXCEPT ![p] = {e - FrontLen(p) : e \in @ \ {FrontLen(p)}}]

\* The front n bytes leave the queue: msg.erase(0, n), or pop_front when they
\* are the whole front message.
Consume(p, n) ==
    /\ pending' = [pending EXCEPT ![p] = SubSeq(@, n + 1, Len(@))]
    /\ ends' = [ends EXCEPT ![p] = {e - n : e \in @ \ {n}}]

BroadcastMsg(msg, sender) == PostSend(Clients \ {sender}, msg)

\* Mutated form of CloseClient: the sessions of all failed peers go with it.
CloseClientAndFailed(fd) ==
    LET Goes(p) == p = m_clients[fd] \/ Failed(p)
    IN  /\ m_clients' = [f \in Fds |-> IF m_clients[f] \in Peer /\ Goes(m_clients[f])
                                      THEN NoPeer ELSE m_clients[f]]
        /\ pending' = [p \in Peer |-> IF Goes(p) THEN <<>> ELSE pending[p]]
        /\ ends' = [p \in Peer |-> IF Goes(p) THEN {} ELSE ends[p]]

\* Session Stop (shutdown, drain what the peer still sent, close), erase.
CloseClient(fd) ==
    /\ m_clients' = [m_clients EXCEPT ![fd] = NoPeer]
    /\ pending' = [p \in Peer |-> IF p = m_clients[fd] THEN <<>> ELSE pending[p]]
    /\ ends' = [p \in Peer |-> IF p = m_clients[fd] THEN {} ELSE ends[p]]

\* The process lets go of every socket: Stop, or death by a signal.
DropSessions ==
    /\ m_clients' = [fd \in Fds |-> NoPeer]
    /\ pending' = [p \in Peer |-> <<>>]
    /\ ends' = [p \in Peer |-> {}]
    /\ backlog' = {}

\* accept4 or accept, the greeting (its result is ignored), emplace.
AcceptClient(p, fd) ==
    /\ p \in backlog
    /\ m_clients[fd] = NoPeer
    /\ backlog' = backlog \ {p}
    /\ m_clients' = [m_clients EXCEPT ![fd] = p]
    /\ down' = [down EXCEPT ![p] = IF Failed(p) THEN @ ELSE Append(@, Hello)]
    /\ UNCHANGED <<peer, sent, rcvd, got, pending, ends>>

-----------------------------------------------------------------------------
(* The relay the servers implement. *)

Member == [p \in Peer |-> IF p \in Clients THEN "in"
                          ELSE IF peer[p] = "idle" \/ p \in backlog THEN "out"
                          ELSE "gone"]

Owed == [p \in Peer |-> got[p] \o down[p] \o pending[p]]
Taken == [p \in Peer |-> Len(got[p])]

Relay == INSTANCE ChatRelay WITH
    MaxSaid <- MaxBytes, state <- Member, said <- rcvd, owed <- Owed, taken <- Taken
=============================================================================
