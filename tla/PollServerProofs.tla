-------------------------- MODULE PollServerProofs --------------------------
(***************************************************************************)
(* The poll server implements the relay, for every set of clients, every   *)
(* number of descriptors and all sizes of buffers; and no event of a round *)
(* reaches a client it is not about.                                       *)
(***************************************************************************)
EXTENDS PollServer, ChatSessionProofs

\* The revents of a round belong to sessions, also while they are handled.
Bound ==
    /\ \A fd \in Fds : pfds[fd] # {} => m_clients[fd] # NoPeer
    /\ pc \in {"read", "write"} => m_clients[cur] # NoPeer /\ pfds[cur] # {}

IInv == SessInv /\ TypeOK /\ Bound

LEMMA Initially == Init => IInv /\ Relay!Init
<1> SUFFICES ASSUME Init PROVE IInv /\ Relay!Init
  OBVIOUS
<1>1. SessInv /\ Relay!Init
  BY Begins DEF Init
<1>2. TypeOK /\ Bound
  BY <1>1 DEF Init, SessInv, TypeOK, Label, Bound
<1> QED
  BY <1>1, <1>2 DEF IInv

-----------------------------------------------------------------------------
(* What the thread does with the loop's own variables. *)

\* The revents that are left are old ones of sessions that are left, or new.
LoopStep ==
    /\ m_running' \in BOOLEAN /\ pc' \in Label /\ cur' \in Fds \union {NoFd}
    /\ pfds' \in [Fds -> SUBSET {"IN", "OUT", "ERR"}]
    /\ \A fd \in Fds : pfds'[fd] # {} => /\ m_clients'[fd] # NoPeer
                                         /\ pfds[fd] # {} => m_clients'[fd] = m_clients[fd]
    /\ pc' \in {"read", "write"} => cur' \in Fds /\ pfds'[cur'] # {}

LEMMA LoopKeeps == ASSUME SessInv', LoopStep PROVE IInv'
BY DEF IInv, SessInv, TypeOK, Bound, LoopStep

LEMMA QuietSteps ==
    ASSUME IInv,
           \/ Poll \/ PollTimeout \/ ListenerError \/ AcceptDone
           \/ (\E fd \in Fds : Dispatch(fd)) \/ ReadAgain \/ WriteReturn \/ Terminated
           \/ (RoundDone /\ m_running)
    PROVE  LoopStep /\ UNCHANGED <<netVars, sessVars>>
<1>1. Reported \in [Fds -> SUBSET {"IN", "OUT", "ERR"}]
      /\ \A fd \in Fds : Reported[fd] # {} => m_clients[fd] # NoPeer
  BY DEF Reported, Revents
<1> USE DEF IInv, TypeOK, Bound, LoopStep, Label, netVars, sessVars, loopVars, srvVars, vars
<1>2. CASE Poll \/ ListenerError
  BY <1>1, <1>2 DEF Poll, ListenerError
<1>3. CASE PollTimeout \/ Terminated
  BY <1>3 DEF PollTimeout, Terminated
<1>4. CASE AcceptDone \/ (RoundDone /\ m_running)
  BY <1>4 DEF AcceptDone, RoundDone
<1>5. CASE \E fd \in Fds : Dispatch(fd)
  BY <1>5 DEF Dispatch
<1>6. CASE ReadAgain \/ WriteReturn
  BY <1>6 DEF ReadAgain, WriteReturn, NextEntry
<1> QED
  BY <1>2, <1>3, <1>4, <1>5, <1>6

LEMMA DropSteps ==
    ASSUME IInv, PollError \/ WriteSigpipe \/ (RoundDone /\ ~m_running)
    PROVE  LoopStep /\ DropSessions /\ UNCHANGED <<peer, sent, rcvd, down, got>>
BY DEF PollError, WriteSigpipe, RoundDone, DropAll, IInv, TypeOK, Bound, LoopStep, Label

LEMMA CloseSteps ==
    ASSUME IInv, ReadEnd \/ WriteError \/ (\E fd \in Fds : DispatchError(fd))
    PROVE  /\ LoopStep /\ UNCHANGED netVars
           /\ \E fd \in Fds : m_clients[fd] # NoPeer /\ CloseClient(fd)
<1> USE DEF IInv, SessInv, SessTypeOK, TypeOK, Bound, LoopStep, Label
<1>1. CASE ReadEnd \/ WriteError
  <2>1. CloseClient(cur) /\ NextEntry /\ UNCHANGED <<netVars, m_running>> /\ cur \in Fds
    BY <1>1 DEF ReadEnd, WriteError
  <2>2. LoopStep
    BY <2>1 DEF NextEntry, CloseClient
  <2> QED
    BY <1>1, <2>1, <2>2 DEF ReadEnd, WriteError
<1>2. CASE \E fd \in Fds : DispatchError(fd)
  <2>1. PICK fd \in Fds : DispatchError(fd)
    BY <1>2
  <2>2. LoopStep
    BY <2>1 DEF DispatchError, CloseClient
  <2>3. m_clients[fd] # NoPeer /\ CloseClient(fd) /\ UNCHANGED netVars
    BY <2>1 DEF DispatchError
  <2> QED
    BY <2>2, <2>3
<1> QED
  BY <1>1, <1>2

-----------------------------------------------------------------------------
(* Every step keeps the invariant, is a step of the relay or none, and leaves
   no event with a stranger. *)

Kept == \A fd \in Fds : pfds[fd] # {} /\ pfds'[fd] # {} => m_clients'[fd] = m_clients[fd]

LEMMA LoopFacts == ASSUME LoopStep PROVE Kept
BY DEF LoopStep, Kept

LEMMA ServerSteps == ASSUME IInv, Server PROVE IInv' /\ RelayStep /\ Kept
<1>1. ASSUME UNCHANGED <<netVars, sessVars>>
      PROVE  SessInv' /\ RelayStep
  <2>1. Clients' = Clients
    BY <1>1 DEF sessVars, Clients
  <2>2. SessInv'
    BY <1>1, <2>1 DEF IInv, SessInv, NetTypeOK, SessTypeOK, QueueShape, OneSession, Places, Owners,
                Talkers, netVars, sessVars
  <2>3. UNCHANGED <<rcvd, down, got, sessVars, peer, backlog>>
    BY <1>1 DEF netVars
  <2> QED
    BY <2>2, <2>3, Still DEF IInv, RelayStep
<1>2. CASE \/ Poll \/ ListenerError \/ AcceptDone
           \/ (\E fd \in Fds : Dispatch(fd)) \/ ReadAgain \/ WriteReturn \/ (RoundDone /\ m_running)
  BY <1>1, <1>2, QuietSteps, LoopKeeps, LoopFacts
<1>3. CASE PollError \/ WriteSigpipe \/ (RoundDone /\ ~m_running)
  BY <1>3, DropSteps, Drops, LoopKeeps, LoopFacts DEF IInv
<1>4. CASE ReadEnd \/ WriteError \/ (\E fd \in Fds : DispatchError(fd))
  BY <1>4, CloseSteps, Closes, LoopKeeps, LoopFacts DEF IInv, RelayStep
<1>5. ASSUME NEW p \in Peer, NEW fd \in Fds, Accept(p, fd)
      PROVE  IInv' /\ RelayStep /\ Kept
  <2>1. SessInv' /\ Relay!Next
    BY <1>5, Accepts DEF IInv, Accept
  <2>2. LoopStep
    BY <1>5, NetAssumption DEF Accept, AcceptClient, IInv, SessInv, SessTypeOK, TypeOK, Bound, LoopStep, loopVars
  <2> QED
    BY <2>1, <2>2, LoopKeeps, LoopFacts DEF RelayStep
<1>6. CASE ReadData
  <2> DEFINE p == m_clients[cur]
  <2>1. p \in Clients
    BY <1>6 DEF ReadData, IInv, TypeOK, Bound, Clients
  <2>2. SessInv' /\ Relay!Next
    BY <1>6, <2>1, Broadcasts DEF ReadData, IInv
  <2>3. LoopStep
    BY <1>6 DEF ReadData, IInv, TypeOK, Bound, LoopStep
  <2> QED
    BY <2>2, <2>3, LoopKeeps, LoopFacts DEF RelayStep
<1>7. CASE WriteData
  <2> DEFINE p == m_clients[cur]
  <2>1. p \in Clients
    BY <1>7 DEF WriteData, IInv, TypeOK, Bound, Clients
  <2>2. SessInv' /\ UNCHANGED Relay!vars
    BY <1>7, <2>1, Sends DEF WriteData, IInv
  <2>3. LoopStep
    BY <1>7 DEF WriteData, NextEntry, IInv, TypeOK, Bound, LoopStep, Label
  <2> QED
    BY <2>2, <2>3, LoopKeeps, LoopFacts DEF RelayStep
<1> QED
  BY <1>2, <1>3, <1>4, <1>5, <1>6, <1>7 DEF Server

LEMMA PeerSteps == ASSUME IInv, Peers PROVE IInv' /\ RelayStep /\ Kept
<1>1. PICK p \in Peer : Connect(p) \/ Talk(p) \/ HangUp(p) \/ Listen(p)
  BY DEF Peers
<1>2. UNCHANGED srvVars /\ UNCHANGED sessVars /\ UNCHANGED loopVars
  BY <1>1 DEF Connect, Talk, HangUp, Listen, srvVars
<1>3. LoopStep
  BY <1>2 DEF IInv, TypeOK, Bound, LoopStep, sessVars, loopVars
<1>4. ASSUME Connect(p) PROVE SessInv' /\ RelayStep
  BY <1>2, <1>4, Connects DEF IInv, Connect, RelayStep
<1>5. ASSUME Talk(p) PROVE SessInv' /\ RelayStep
  BY <1>2, <1>5, Talks DEF IInv, Talk, RelayStep
<1>6. ASSUME HangUp(p) PROVE SessInv' /\ RelayStep
  BY <1>2, <1>6, HangsUp DEF IInv, HangUp, RelayStep
<1>7. ASSUME Listen(p) PROVE SessInv' /\ RelayStep
  BY <1>2, <1>7, Reads DEF IInv, Listen, RelayStep
<1> QED
  BY <1>1, <1>3, <1>4, <1>5, <1>6, <1>7, LoopKeeps, LoopFacts

LEMMA Steps == ASSUME IInv, [Next]_vars PROVE IInv' /\ RelayStep /\ Kept
<1>1. CASE Server
  BY <1>1, ServerSteps
<1>2. CASE Peers
  BY <1>2, PeerSteps
<1>3. CASE PollTimeout \/ Terminated \/ UNCHANGED vars
  <2>1. UNCHANGED vars
    BY <1>3 DEF PollTimeout, Terminated
  <2>2. UNCHANGED <<sessVars, netVars, loopVars>>
    BY <2>1 DEF vars, srvVars
  <2>3. IInv' /\ Kept
    BY <2>2 DEF IInv, SessInv, NetTypeOK, SessTypeOK, QueueShape, OneSession, Places, Owners,
                Talkers, Clients, TypeOK, Bound, netVars, sessVars, loopVars, Kept
  <2>4. RelayStep
    BY <2>2, Still DEF IInv, RelayStep, netVars
  <2> QED
    BY <2>3, <2>4
<1> QED
  BY <1>1, <1>2, <1>3 DEF Next

(* The loop, its system calls and the clients keep the invariant: among others, a
   client has one session at most, only a session has something to send, and no
   message in a queue is empty. *)
THEOREM Inductive == Spec => []IInv
<1>1. Init => IInv
  BY Initially
<1>2. IInv /\ [Next]_vars => IInv'
  BY Steps
<1> QED
  BY <1>1, <1>2, PTL DEF Spec

(* The types, and the shape of the send queues. *)
THEOREM TypeCorrect == Spec => []TypeOK
<1>1. IInv => TypeOK
  BY DEF IInv
<1> QED
  BY <1>1, Inductive, PTL

(* An event that waits in a round is never left to another owner of its descriptor:
   only its own session's end closes the descriptor, and accept takes free ones. *)
THEOREM NoStrangers == Spec => EventOwner
<1>1. IInv /\ [Next]_vars => [Kept]_vars
  BY Steps
<1> QED
  BY <1>1, Inductive, PTL DEF Spec, EventOwner, Kept

(* BroadcastMsg, Write, CloseClient and Stop, with the kernel and the clients around
   them, make the relay: each of their steps is one of its steps, or changes nothing
   of it. *)
THEOREM Relays == Spec => ImplementsRelay
<1>1. Init => Relay!Init
  BY Initially
<1>2. IInv /\ [Next]_vars => [Relay!Next]_Relay!vars
  BY Steps DEF RelayStep
<1> QED
  BY <1>1, <1>2, Inductive, PTL DEF Spec, ImplementsRelay, Relay!Spec

(* So the promises of the relay hold of what reaches the clients of this server:
   streams in order, without holes, in one order for all, and never rewritten. *)
THEOREM KeepsPromises == Spec => []Promised /\ Relay!Final
BY Relays, RelayPromises, PTL DEF ImplementsRelay
=============================================================================
