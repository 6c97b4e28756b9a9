------------------------- MODULE EpollServerProofs -------------------------
(***************************************************************************)
(* The epoll server implements the relay, for every set of clients, every  *)
(* number of descriptors and all sizes of buffers and batches; its masks   *)
(* agree with the queues; no event of a batch reaches a stranger.          *)
(***************************************************************************)
EXTENDS EpollServer, ChatSessionProofs

\* The events of a batch, and the interest list, are of sessions.
Bound ==
    /\ \A fd \in Fds : batch[fd] # {} \/ fd \in registered => m_clients[fd] # NoPeer
    /\ pc \in {"read", "write"} => m_clients[cur] # NoPeer /\ batch[cur] # {}

\* The mask of an armed descriptor agrees with the queue, but while Write is at it.
Masks ==
    \A fd \in registered :
        armed[fd] # {} => \/ armed[fd] = Mask(IsWantSend(m_clients[fd]))
                          \/ pc = "write" /\ fd = cur

IInv == SessInv /\ TypeOK /\ Bound /\ Masks

LEMMA Initially == Init => IInv /\ Relay!Init
<1> SUFFICES ASSUME Init PROVE IInv /\ Relay!Init
  OBVIOUS
<1>1. SessInv /\ Relay!Init
  BY Begins DEF Init
<1>2. TypeOK /\ Bound /\ Masks
  BY <1>1 DEF Init, SessInv, TypeOK, Label, Bound, Masks
<1> QED
  BY <1>1, <1>2 DEF IInv

-----------------------------------------------------------------------------
(* What the thread does with the loop's own variables. *)

\* The events that are left are old ones of sessions that are left, or new.
LoopStep ==
    /\ m_running' \in BOOLEAN /\ pc' \in Label /\ cur' \in Fds \union {NoFd}
    /\ registered' \in SUBSET Fds /\ armed' \in [Fds -> SUBSET {"IN", "OUT"}]
    /\ batch' \in [Fds -> SUBSET {"IN", "OUT", "HUP"}]
    /\ listener' \in {"none", "IN", "ERR"}
    /\ \A fd \in Fds : /\ batch'[fd] # {} \/ fd \in registered' => m_clients'[fd] # NoPeer
                       /\ batch'[fd] # {} /\ batch[fd] # {} => m_clients'[fd] = m_clients[fd]
    /\ pc' \in {"read", "write"} => cur' \in Fds /\ batch'[cur'] # {}
    /\ Masks'

LEMMA LoopKeeps == ASSUME SessInv', LoopStep PROVE IInv'
BY DEF IInv, SessInv, TypeOK, Bound, LoopStep

LEMMA MaskType == ASSUME NEW w \in BOOLEAN PROVE Mask(w) \in SUBSET {"IN", "OUT"} /\ Mask(w) # {}
BY DEF Mask

LEMMA WaitStep == ASSUME IInv, Wait PROVE LoopStep
<1>1. PICK S \in SUBSET ReadyFds, l \in {"none", "IN"} :
         /\ batch' = [fd \in Fds |-> IF fd \in S THEN Event(fd) ELSE {}]
         /\ armed' = [fd \in Fds |-> IF fd \in S THEN {} ELSE armed[fd]]
         /\ listener' = l
  BY DEF Wait
<1>2. ASSUME NEW fd \in Fds
      PROVE  /\ Event(fd) \in SUBSET {"IN", "OUT", "HUP"}
             /\ Event(fd) # {} => fd \in registered
  BY DEF Event, IInv, TypeOK
<1>3. /\ pc = "wait" /\ pc' = "batch"
      /\ UNCHANGED <<m_clients, pending, m_running, registered, cur>>
  BY DEF Wait, sessVars
<1>4. Masks'
  BY <1>1, <1>3 DEF Masks, IInv, TypeOK, IsWantSend
<1>5. /\ batch' \in [Fds -> SUBSET {"IN", "OUT", "HUP"}]
      /\ armed' \in [Fds -> SUBSET {"IN", "OUT"}]
  BY <1>1, <1>2 DEF IInv, TypeOK
<1>6. \A fd \in Fds : batch'[fd] # {} \/ fd \in registered' => m_clients'[fd] # NoPeer
  BY <1>1, <1>2, <1>3 DEF IInv, Bound
<1> QED
  BY <1>1, <1>3, <1>4, <1>5, <1>6 DEF IInv, TypeOK, LoopStep, Label

LEMMA QuietSteps ==
    ASSUME IInv,
           \/ Wait \/ ListenerError \/ HandleListeners \/ AcceptDone
           \/ (\E fd \in Fds : Dispatch(fd)) \/ ReadAgain \/ WriteReturn
           \/ (BatchDone /\ m_running)
    PROVE  LoopStep /\ UNCHANGED <<netVars, sessVars>>
<1>1. CASE Wait
  BY <1>1, WaitStep DEF Wait
<1> USE DEF IInv, TypeOK, Bound, LoopStep, Label, netVars, sessVars
<1>2. CASE ListenerError \/ HandleListeners
  BY <1>2 DEF ListenerError, HandleListeners, Masks, IsWantSend
<1>3. CASE AcceptDone \/ (BatchDone /\ m_running)
  BY <1>3 DEF AcceptDone, BatchDone, Masks, IsWantSend
<1>4. CASE \E fd \in Fds : Dispatch(fd)
  BY <1>4 DEF Dispatch, Masks, IsWantSend
<1>5. CASE ReadAgain
  BY <1>5 DEF ReadAgain, NextEvent, Masks, IsWantSend
<1>6. CASE WriteReturn
  <2>1. IsWantSend(m_clients[cur]) \in BOOLEAN
    BY DEF IsWantSend
  <2>2. Mask(IsWantSend(m_clients[cur])) \in SUBSET {"IN", "OUT"}
    BY <2>1, MaskType
  <2> QED
    BY <1>6, <2>2 DEF WriteReturn, NextEvent, ModClientWritable, Masks, IsWantSend
<1> QED
  BY <1>1, <1>2, <1>3, <1>4, <1>5, <1>6

LEMMA DropSteps ==
    ASSUME IInv, WaitError \/ (BatchDone /\ ~m_running)
    PROVE  LoopStep /\ DropSessions /\ UNCHANGED <<peer, sent, rcvd, down, got>>
BY DEF WaitError, BatchDone, StopServer, IInv, TypeOK, Bound, LoopStep, Label, Masks

LEMMA CloseStep ==
    ASSUME IInv, NEW fd \in Fds, m_clients[fd] # NoPeer, pc # "write" \/ fd = cur, Close(fd),
           UNCHANGED <<m_running, listener>>
    PROVE  LoopStep
<1>1. /\ registered' = registered \ {fd} /\ armed' = [armed EXCEPT ![fd] = {}]
      /\ batch' = [batch EXCEPT ![fd] = {}] /\ pc' = "batch" /\ cur' = NoFd
      /\ m_clients' = [m_clients EXCEPT ![fd] = NoPeer]
      /\ pending' = [p \in Peer |-> IF p = m_clients[fd] THEN <<>> ELSE pending[p]]
  BY DEF Close, CloseClient
<1>2. ASSUME NEW g \in Fds, g # fd, m_clients[g] # NoPeer
      PROVE  /\ m_clients'[g] = m_clients[g]
             /\ m_clients[g] \in Peer /\ pending'[m_clients[g]] = pending[m_clients[g]]
  BY <1>1, <1>2 DEF IInv, SessInv, SessTypeOK, OneSession
<1>3. Masks'
  <2> SUFFICES ASSUME NEW g \in registered', armed'[g] # {}
               PROVE  armed'[g] = Mask(IsWantSend(m_clients[g]))'
    BY DEF Masks
  <2>1. g \in registered /\ g \in Fds /\ g # fd /\ armed'[g] = armed[g] /\ m_clients[g] # NoPeer
    BY <1>1 DEF IInv, TypeOK, Bound
  <2>2. armed[g] = Mask(IsWantSend(m_clients[g]))
    BY <2>1 DEF IInv, Masks
  <2>3. m_clients'[g] = m_clients[g] /\ pending'[m_clients[g]] = pending[m_clients[g]]
    BY <2>1, <1>2
  <2>4. (m_clients[g])' = m_clients'[g] /\ pending'[m_clients'[g]] = pending[m_clients[g]]
    BY <2>3
  <2> QED
    BY <2>1, <2>2, <2>4 DEF Mask, IsWantSend
<1> QED
  BY <1>1, <1>3 DEF IInv, SessInv, SessTypeOK, TypeOK, Bound, LoopStep, Label

LEMMA CloseSteps ==
    ASSUME IInv, ReadEnd \/ WriteError \/ (\E fd \in Fds : DispatchHup(fd))
    PROVE  /\ LoopStep /\ UNCHANGED netVars
           /\ \E fd \in Fds : m_clients[fd] # NoPeer /\ CloseClient(fd)
<1>1. PICK fd \in Fds : /\ m_clients[fd] # NoPeer /\ Close(fd)
                        /\ pc # "write" \/ fd = cur
                        /\ UNCHANGED <<netVars, m_running, listener>>
  BY DEF ReadEnd, WriteError, DispatchHup, IInv, TypeOK, Bound
<1> QED
  BY <1>1, CloseStep DEF Close

LEMMA AcceptStep ==
    ASSUME IInv, NEW p \in Peer, NEW fd \in Fds, Accept(p, fd)
    PROVE  LoopStep
<1>1. IsWantSend(p) \in BOOLEAN
  BY DEF IsWantSend
<1>2. Mask(IsWantSend(p)) \in SUBSET {"IN", "OUT"}
  BY <1>1, MaskType
<1>3. /\ m_clients' = [m_clients EXCEPT ![fd] = p] /\ m_clients[fd] = NoPeer /\ pending' = pending
      /\ p # NoPeer /\ pc = "accept" /\ UNCHANGED <<m_running, pc, batch, listener, cur>>
  BY NetAssumption DEF Accept, AcceptClient
<1>4. \/ /\ registered' = registered \union {fd}
         /\ armed' = [armed EXCEPT ![fd] = Mask(IsWantSend(p))]
      \/ UNCHANGED <<registered, armed>>
  BY DEF Accept
<1>5. Masks'
  BY <1>3, <1>4 DEF IInv, SessInv, SessTypeOK, TypeOK, Bound, Masks, IsWantSend
<1> QED
  BY <1>2, <1>3, <1>4, <1>5 DEF IInv, SessInv, SessTypeOK, TypeOK, Bound, LoopStep

\* After a broadcast: the sessions it goes to are all armed for EPOLLOUT.
LEMMA ReadStep == ASSUME IInv, ReadData PROVE LoopStep
<1> DEFINE p == m_clients[cur]
           n == RecvCount(p)
           msg == Chunk(p, rcvd[p], n)
<1>1. /\ pc = "read" /\ cur \in Fds /\ p \in Peer /\ Readable(p)
      /\ UNCHANGED <<m_clients, m_running, registered, pc, batch, listener, cur>>
      /\ armed' = [fd \in Fds |-> IF fd \in registered /\ m_clients[fd] # p
                                  THEN Mask(TRUE) ELSE armed[fd]]
      /\ pending' = [q \in Peer |-> IF q \in Clients \ {p} THEN pending[q] \o msg ELSE pending[q]]
  BY DEF ReadData, BroadcastMsg, PostSend, IInv, SessInv, SessTypeOK, TypeOK, Bound
<1>2. msg \in Seq(Token) /\ Len(msg) > 0
  <2>1. rcvd[p] \in Nat /\ n \in Nat /\ n > 0
    BY <1>1, NetAssumption DEF IInv, SessInv, NetTypeOK, RecvCount, Readable
  <2> QED
    BY <1>1, <2>1, ChunkFacts
<1>3. armed' \in [Fds -> SUBSET {"IN", "OUT"}]
  BY <1>1, MaskType DEF IInv, TypeOK
<1>4. Masks'
  <2> SUFFICES ASSUME NEW g \in registered, armed'[g] # {}
               PROVE  armed'[g] = Mask(pending'[m_clients[g]] # <<>>)
    BY <1>1 DEF Masks, IsWantSend
  <2>1. g \in Fds /\ m_clients[g] \in Peer /\ m_clients[g] # NoPeer
    BY DEF IInv, SessInv, SessTypeOK, TypeOK, Bound
  <2>2. CASE m_clients[g] # p
    <3>1. armed'[g] = Mask(TRUE)
      BY <1>1, <2>1, <2>2
    <3>2. pending'[m_clients[g]] = pending[m_clients[g]] \o msg
      BY <1>1, <2>1, <2>2 DEF Clients
    <3>3. pending[m_clients[g]] \in Seq(Token)
      BY <2>1 DEF IInv, SessInv, SessTypeOK
    <3> HIDE DEF msg
    <3>4. pending'[m_clients[g]] # <<>>
      <4>1. Len(pending[m_clients[g]] \o msg) = Len(pending[m_clients[g]]) + Len(msg)
            /\ Len(pending[m_clients[g]]) \in Nat /\ Len(msg) \in Nat
        BY <1>2, <3>3, Concat, LenProperties
      <4>2. Len(pending[m_clients[g]] \o msg) # 0
        BY <4>1, <1>2
      <4> QED
        BY <3>2, <4>2, EmptySeq
    <3> QED
      BY <3>1, <3>4 DEF Mask
  <2>3. CASE m_clients[g] = p
    <3>1. armed'[g] = armed[g] /\ pending'[m_clients[g]] = pending[m_clients[g]]
      BY <1>1, <2>1, <2>3
    <3> QED
      BY <1>1, <3>1 DEF IInv, Masks, IsWantSend
  <2> QED
    BY <2>2, <2>3
<1> QED
  BY <1>1, <1>3, <1>4 DEF IInv, TypeOK, Bound, LoopStep

\* A partial send arms the session for the rest.
LEMMA WriteStep == ASSUME IInv, WriteData PROVE LoopStep
<1> DEFINE p == m_clients[cur]
           n == SendCount(p, FrontLen(p))
<1>1. /\ pc = "write" /\ cur \in Fds /\ p \in Peer /\ IsWantSend(p) /\ Space(p) > 0
      /\ UNCHANGED <<m_clients, m_running, registered, listener>>
      /\ pending' = [pending EXCEPT ![p] = SubSeq(pending[p], n + 1, Len(pending[p]))]
  BY DEF WriteData, Consume, IInv, SessInv, SessTypeOK, TypeOK, Bound
<1>2. ASSUME NEW g \in registered, g # cur
      PROVE  g \in Fds /\ pending'[m_clients[g]] = pending[m_clients[g]]
  BY <1>1, <1>2 DEF IInv, SessInv, SessTypeOK, OneSession, TypeOK, Bound
<1>3. ASSUME NEW g \in registered, g # cur, armed[g] # {}
      PROVE  armed[g] = Mask(pending'[m_clients[g]] # <<>>)
  <2>1. armed[g] = Mask(IsWantSend(m_clients[g]))
    BY <1>3 DEF IInv, Masks
  <2> QED
    BY <2>1, <1>2, <1>3 DEF IsWantSend
<1>4. CASE n < FrontLen(p)
  <2>1. /\ pc' = "batch" /\ cur' = NoFd /\ batch' = [batch EXCEPT ![cur] = {}]
        /\ armed' = IF cur \in registered THEN [armed EXCEPT ![cur] = Mask(TRUE)] ELSE armed
    BY <1>4 DEF WriteData, NextEvent, ModClientWritable
  <2>2. pending'[p] # <<>>
    <3> DEFINE k == Len(pending[p])
    <3>1. pending[p] \in Seq(Token) /\ n \in 1..k /\ k \in Nat
      BY <1>1, SendCounts, LenProperties DEF IInv, SessInv, SessTypeOK
    <3>2. FrontLen(p) \in 1..k
      <4>1. ends[p] \subseteq 1..k /\ k \in ends[p] /\ ends[p] \in SUBSET Nat
        BY <1>1 DEF IInv, SessInv, SessTypeOK, QueueShape, IsWantSend
      <4> QED
        BY <1>1, <4>1, FrontIsLeast
    <3>3. n < k
      BY <3>1, <3>2, <1>4
    <3>4. Len(SubSeq(pending[p], n + 1, k)) = k - n
      <4> HIDE DEF n, k, p
      <4>1. n \in 0..k
        BY <3>1
      <4> QED
        BY <3>1, <4>1, Moved DEF k
    <3>5. pending'[p] = SubSeq(pending[p], n + 1, k)
      BY <1>1 DEF IInv, SessInv, SessTypeOK
    <3>6. k - n # 0
      BY <3>1, <3>3
    <3> QED
      BY <3>4, <3>5, <3>6, EmptySeq
  <2>3. Masks'
    <3> SUFFICES ASSUME NEW g \in registered, armed'[g] # {}
                 PROVE  armed'[g] = Mask(pending'[m_clients[g]] # <<>>)
      BY <1>1 DEF Masks, IsWantSend
    <3>1. CASE g = cur
      <4>1. armed'[g] = Mask(TRUE)
        BY <2>1, <3>1, <1>1 DEF IInv, TypeOK
      <4> QED
        BY <2>2, <3>1, <4>1
    <3>2. CASE g # cur
      <4>1. armed'[g] = armed[g]
        BY <2>1, <3>2 DEF IInv, TypeOK
      <4> QED
        BY <4>1, <3>2, <1>3
    <3> QED
      BY <3>1, <3>2
  <2>4. armed' \in [Fds -> SUBSET {"IN", "OUT"}]
    BY <2>1, MaskType DEF IInv, TypeOK
  <2> QED
    BY <1>1, <2>1, <2>3, <2>4 DEF IInv, TypeOK, Bound, LoopStep, Label
<1>5. CASE ~(n < FrontLen(p))
  <2>1. UNCHANGED <<pc, batch, cur, armed>>
    BY <1>5 DEF WriteData
  <2>2. Masks'
    <3> SUFFICES ASSUME NEW g \in registered, armed[g] # {}, g # cur
                 PROVE  armed[g] = Mask(pending'[m_clients[g]] # <<>>)
      BY <1>1, <2>1 DEF Masks, IsWantSend
    <3> QED
      BY <1>3
  <2> QED
    BY <1>1, <2>1, <2>2 DEF IInv, TypeOK, Bound, LoopStep
<1> QED
  BY <1>4, <1>5

-----------------------------------------------------------------------------
(* Every step keeps the invariant, is a step of the relay or none, and leaves
   no event with a stranger. *)

Kept == \A fd \in Fds : batch[fd] # {} /\ batch'[fd] # {} => m_clients'[fd] = m_clients[fd]

LEMMA LoopFacts == ASSUME LoopStep PROVE Kept
BY DEF LoopStep, Kept

LEMMA ServerSteps == ASSUME IInv, Server PROVE IInv' /\ RelayStep /\ Kept
<1>1. ASSUME UNCHANGED <<netVars, sessVars>>
      PROVE  SessInv' /\ RelayStep
  <2>1. Clients' = Clients
    BY <1>1 DEF sessVars, Clients
  <2>2. SessInv'
    BY <1>1, <2>1 DEF IInv, SessInv, NetTypeOK, SessTypeOK, QueueShape, OneSession, Places, Owners,
                Talkers, netVars, sessVars
  <2>3. UNCHANGED <<rcvd, down, got, sessVars, peer, backlog>>
    BY <1>1 DEF netVars
  <2> QED
    BY <2>2, <2>3, Still DEF IInv, RelayStep
<1>2. CASE \/ Wait \/ ListenerError \/ HandleListeners \/ AcceptDone
           \/ (\E fd \in Fds : Dispatch(fd)) \/ ReadAgain \/ WriteReturn \/ (BatchDone /\ m_running)
  BY <1>1, <1>2, QuietSteps, LoopKeeps, LoopFacts
<1>3. CASE WaitError \/ (BatchDone /\ ~m_running)
  BY <1>3, DropSteps, Drops, LoopKeeps, LoopFacts DEF IInv
<1>4. CASE ReadEnd \/ WriteError \/ (\E fd \in Fds : DispatchHup(fd))
  BY <1>4, CloseSteps, Closes, LoopKeeps, LoopFacts DEF IInv, RelayStep
<1>5. ASSUME NEW p \in Peer, NEW fd \in Fds, Accept(p, fd)
      PROVE  IInv' /\ RelayStep /\ Kept
  <2>1. SessInv' /\ Relay!Next
    BY <1>5, Accepts DEF IInv, Accept
  <2> QED
    BY <1>5, <2>1, AcceptStep, LoopKeeps, LoopFacts DEF RelayStep
<1>6. CASE ReadData
  <2> DEFINE p == m_clients[cur]
  <2>1. p \in Clients
    BY <1>6 DEF ReadData, IInv, TypeOK, Bound, Clients
  <2>2. SessInv' /\ Relay!Next
    BY <1>6, <2>1, Broadcasts DEF ReadData, IInv
  <2> QED
    BY <1>6, <2>2, ReadStep, LoopKeeps, LoopFacts DEF RelayStep
<1>7. CASE WriteData
  <2> DEFINE p == m_clients[cur]
  <2>1. p \in Clients
    BY <1>7 DEF WriteData, IInv, TypeOK, Bound, Clients
  <2>2. SessInv' /\ UNCHANGED Relay!vars
    BY <1>7, <2>1, Sends DEF WriteData, IInv
  <2> QED
    BY <1>7, <2>2, WriteStep, LoopKeeps, LoopFacts DEF RelayStep
<1> QED
  BY <1>2, <1>3, <1>4, <1>5, <1>6, <1>7 DEF Server

LEMMA PeerSteps == ASSUME IInv, Peers PROVE IInv' /\ RelayStep /\ Kept
<1>1. PICK p \in Peer : Connect(p) \/ Talk(p) \/ HangUp(p) \/ Listen(p)
  BY DEF Peers
<1>2. UNCHANGED srvVars /\ UNCHANGED sessVars /\ UNCHANGED loopVars
  BY <1>1 DEF Connect, Talk, HangUp, Listen, srvVars
<1>3. LoopStep
  BY <1>2 DEF IInv, TypeOK, Bound, LoopStep, Masks, IsWantSend, sessVars, loopVars
<1>4. ASSUME Connect(p) PROVE SessInv' /\ RelayStep
  BY <1>2, <1>4, Connects DEF IInv, Connect, RelayStep
<1>5. ASSUME Talk(p) PROVE SessInv' /\ RelayStep
  BY <1>2, <1>5, Talks DEF IInv, Talk, RelayStep
<1>6. ASSUME HangUp(p) PROVE SessInv' /\ RelayStep
  BY <1>2, <1>6, HangsUp DEF IInv, HangUp, RelayStep
<1>7. ASSUME Listen(p) PROVE SessInv' /\ RelayStep
  BY <1>2, <1>7, Reads DEF IInv, Listen, RelayStep
<1> QED
  BY <1>1, <1>3, <1>4, <1>5, <1>6, <1>7, LoopKeeps, LoopFacts

LEMMA Steps == ASSUME IInv, [Next]_vars PROVE IInv' /\ RelayStep /\ Kept
<1>1. CASE Server
  BY <1>1, ServerSteps
<1>2. CASE Peers
  BY <1>2, PeerSteps
<1>3. CASE Asleep \/ Terminated \/ UNCHANGED vars
  <2>1. UNCHANGED vars
    BY <1>3 DEF Asleep, Terminated
  <2>2. UNCHANGED <<sessVars, netVars, loopVars>>
    BY <2>1 DEF vars, srvVars
  <2>3. IInv' /\ Kept
    BY <2>2 DEF IInv, SessInv, NetTypeOK, SessTypeOK, QueueShape, OneSession, Places, Owners,
                Talkers, Clients, TypeOK, Bound, Masks, IsWantSend, netVars, sessVars, loopVars,
                Kept
  <2>4. RelayStep
    BY <2>2, Still DEF IInv, RelayStep, netVars
  <2> QED
    BY <2>3, <2>4
<1> QED
  BY <1>1, <1>2, <1>3 DEF Next

(* The loop, its system calls and the clients keep the invariant. *)
THEOREM Inductive == Spec => []IInv
<1>1. Init => IInv
  BY Initially
<1>2. IInv /\ [Next]_vars => IInv'
  BY Steps
<1> QED
  BY <1>1, <1>2, PTL DEF Spec

(* The types and the shape of the send queues; and whenever the thread goes to sleep,
   each armed descriptor asks for EPOLLOUT exactly if its session has something to
   send: BroadcastMsg, Write and ModClientWritable leave no session that waits for a
   flush it is not armed for, and none that wakes the thread for nothing. *)
THEOREM Invariant == Spec => []Inv
<1>1. IInv => Inv
  BY DEF IInv, Inv, Masks, MaskMatchesQueue
<1> QED
  BY <1>1, Inductive, PTL

(* An event that waits in a batch is never left to another owner of its descriptor:
   only its own session's end closes the descriptor, and accept takes free ones. *)
THEOREM NoStrangers == Spec => EventOwner
<1>1. IInv /\ [Next]_vars => [Kept]_vars
  BY Steps
<1> QED
  BY <1>1, Inductive, PTL DEF Spec, EventOwner, Kept

(* BroadcastMsg, Write, CloseClient and Stop, with the kernel and the clients around
   them, make the relay: each of their steps is one of its steps, or changes nothing
   of it. *)
THEOREM Relays == Spec => ImplementsRelay
<1>1. Init => Relay!Init
  BY Initially
<1>2. IInv /\ [Next]_vars => [Relay!Next]_Relay!vars
  BY Steps DEF RelayStep
<1> QED
  BY <1>1, <1>2, Inductive, PTL DEF Spec, ImplementsRelay, Relay!Spec

(* So the promises of the relay hold of what reaches the clients of this server:
   streams in order, without holes, in one order for all, and never rewritten. *)
THEOREM KeepsPromises == Spec => []Promised /\ Relay!Final
BY Relays, RelayPromises, PTL DEF ImplementsRelay
=============================================================================
