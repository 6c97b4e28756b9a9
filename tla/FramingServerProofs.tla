------------------------ MODULE FramingServerProofs ------------------------
(***************************************************************************)
(* Theorems about FramingServer, for every set of clients, all frame sizes *)
(* and every bound: nobody is left asleep on a session that has ended,     *)
(* nothing of a session is left when ChatServer::Stop has returned, and    *)
(* frames reach each client in order, none twice and none left out.        *)
(***************************************************************************)
EXTENDS FramingServer, SequenceTheorems, WellFoundedInduction, TLAPS

-----------------------------------------------------------------------------
(* The inductive invariant. *)

Shape ==
    /\ DOMAIN m_active = Peer /\ DOMAIN m_socket = Peer /\ DOMAIN m_txQueue = Peer
    /\ DOMAIN rx = Peer /\ DOMAIN tx = Peer
    /\ m_clients \in Seq(Peer) /\ stopping \in Seq(Peer)
    /\ accepted \in {<<>>} \union {<<p>> : p \in Peer}

\* A client without a session has no thread, no socket and no message.
Fresh ==
    \A p \in Peer : rx[p] = "none" => /\ tx[p] = "none" /\ m_socket[p] = "none"
                                      /\ m_active[p] = FALSE /\ m_txQueue[p] = <<>>

\* Once its receiving thread is past the store of false, a session is inactive.
Inactive == \A p \in Peer : rx[p] \in {"wake", "done"} => m_active[p] = FALSE

\* The phases of the accept thread and of Stop follow each other.
Phases ==
    /\ accepter # "push" => accepted = <<>>
    /\ owner \in {"idle", "join", "next", "wake", "shut", "recv", "joinRx", "joinTx", "stopped"}
    /\ accepter = "done" \/ owner \in {"idle", "join"}

\* The sessions that the server knows of: Stop finds them.
Known == Elements(IF owner \in {"idle", "join"} THEN m_clients \o accepted ELSE stopping)

\* The session that Stop is at.
AtHead ==
    owner \in {"wake", "shut", "recv", "joinRx", "joinTx"} =>
        /\ stopping # <<>>
        /\ m_active[Head(stopping)] = FALSE
        /\ owner \in {"joinRx", "joinTx"} => m_socket[Head(stopping)] = "closed"
        /\ owner = "joinTx" => rx[Head(stopping)] = "done"

Quiet(p) ==
    /\ rx[p] = "done" /\ tx[p] = "done" /\ m_active[p] = FALSE
    /\ m_socket[p] = "closed" /\ m_txQueue[p] = <<>>

\* Each session is yet to be stopped, or quiet.
Accounted ==
    /\ owner = "stopped" => stopping = <<>>
    /\ \A p \in Peer : p \in Known => rx[p] # "none"
    /\ \A p \in Peer : rx[p] = "none" \/ p \in Known
                         \/ (owner \notin {"idle", "join"} /\ Quiet(p))

IInv == Shape /\ Fresh /\ Inactive /\ DeadWakeAll /\ Phases /\ AtHead /\ Accounted

-----------------------------------------------------------------------------
(* The elements of a sequence. *)

LEMMA ElementsOfNone == Elements(<<>>) = {}
BY DEF Elements

LEMMA ElementsOfOne == ASSUME NEW p PROVE Elements(<<p>>) = {p}
BY DEF Elements

LEMMA ElementsOfBoth ==
    ASSUME NEW s \in Seq(Peer), NEW t \in Seq(Peer)
    PROVE  Elements(s \o t) = Elements(s) \union Elements(t)
<1>1. ASSUME NEW x \in Elements(s \o t) PROVE x \in Elements(s) \union Elements(t)
  <2>1. PICK i \in 1..Len(s \o t) : (s \o t)[i] = x
    BY <1>1 DEF Elements
  <2> QED
    BY <2>1, ConcatProperties DEF Elements
<1>2. ASSUME NEW x \in Elements(s) PROVE x \in Elements(s \o t)
  <2>1. PICK i \in 1..Len(s) : s[i] = x
    BY <1>2 DEF Elements
  <2>2. i \in 1..Len(s \o t) /\ (s \o t)[i] = x
    BY <2>1
  <2> QED
    BY <2>2 DEF Elements
<1>3. ASSUME NEW x \in Elements(t) PROVE x \in Elements(s \o t)
  <2>1. PICK i \in 1..Len(t) : t[i] = x
    BY <1>3 DEF Elements
  <2>2. Len(s) + i \in 1..Len(s \o t) /\ (s \o t)[Len(s) + i] = x
    BY <2>1
  <2> QED
    BY <2>2 DEF Elements
<1> QED
  BY <1>1, <1>2, <1>3

LEMMA ElementsOfTail ==
    ASSUME NEW s \in Seq(Peer), s # <<>>
    PROVE  /\ Head(s) \in Peer /\ Head(s) \in Elements(s)
           /\ Tail(s) \in Seq(Peer)
           /\ Elements(s) = {Head(s)} \union Elements(Tail(s))
<1>1. /\ Head(s) \in Peer /\ Tail(s) \in Seq(Peer) /\ Len(s) \in Nat /\ Len(s) > 0
      /\ Head(s) = s[1] /\ Len(Tail(s)) = Len(s) - 1
      /\ \A i \in 1..Len(Tail(s)) : Tail(s)[i] = s[i + 1]
  BY HeadTailProperties, LenProperties, EmptySeq
<1>2. Head(s) \in Elements(s)
  BY <1>1 DEF Elements
<1>3. ASSUME NEW x \in Elements(s) PROVE x = Head(s) \/ x \in Elements(Tail(s))
  <2>1. PICK i \in 1..Len(s) : s[i] = x
    BY <1>3 DEF Elements
  <2>2. CASE i = 1
    BY <2>1, <2>2, <1>1
  <2>3. CASE i # 1
    <3>1. i - 1 \in 1..Len(Tail(s)) /\ Tail(s)[i - 1] = x
      BY <2>1, <2>3, <1>1
    <3>2. DOMAIN Tail(s) = 1..Len(Tail(s))
      BY <1>1
    <3> QED
      BY <3>1, <3>2 DEF Elements
  <2> QED
    BY <2>2, <2>3
<1>4. ASSUME NEW x \in Elements(Tail(s)) PROVE x \in Elements(s)
  <2>1. PICK i \in 1..Len(Tail(s)) : Tail(s)[i] = x
    BY <1>4, <1>1 DEF Elements
  <2>2. i + 1 \in 1..Len(s) /\ s[i + 1] = x
    BY <2>1, <1>1
  <2> QED
    BY <2>2 DEF Elements
<1> QED
  BY <1>1, <1>2, <1>3, <1>4

-----------------------------------------------------------------------------

LEMMA Initially == Init => IInv
<1> SUFFICES ASSUME Init PROVE IInv
  OBVIOUS
<1>1. Known = {}
  BY ElementsOfNone DEF Init, Known
<1> QED
  BY <1>1 DEF Init, IInv, Shape, Fresh, Inactive, DeadWakeAll, Phases, AtHead, Accounted

-----------------------------------------------------------------------------
(* Steps of the threads of the sessions and of the clients: the server's
   list, the accept thread and Stop stay where they are. *)

\* What such a step may do to the sessions.
Calm ==
    /\ UNCHANGED srvVars
    /\ Shape'
    /\ \A p \in Peer :
         /\ m_socket'[p] = m_socket[p]
         /\ m_active'[p] = m_active[p] \/ m_active'[p] = FALSE
         /\ rx'[p] = "none" <=> rx[p] = "none"
         /\ tx'[p] = "none" <=> tx[p] = "none"
         /\ rx[p] = "done" => rx'[p] = "done"
         /\ tx[p] = "done" => tx'[p] = "done"
         /\ m_active[p] = FALSE /\ m_txQueue[p] = <<>> => m_txQueue'[p] = <<>>

LEMMA CalmKeeps == ASSUME IInv, Calm PROVE Fresh' /\ Phases' /\ AtHead' /\ Accounted'
<1> USE DEF srvVars
<1>1. Known' = Known
  BY DEF Calm, Known
<1>2. Fresh'
  BY DEF IInv, Calm, Fresh
<1>3. Phases'
  BY DEF IInv, Calm, Phases
<1>4. AtHead'
  BY ElementsOfTail DEF IInv, Calm, AtHead, Shape
<1>5. Accounted'
  BY <1>1 DEF IInv, Calm, Accounted, Quiet
<1> QED
  BY <1>2, <1>3, <1>4, <1>5

LEMMA RecvKeeps == ASSUME IInv, NEW p \in Peer, RecvLoop(p) PROVE IInv'
<1> USE DEF IInv, Shape, sessVars, srvVars, netVars, Calm, DeadWakeAll, At, Inactive
<1>1. ASSUME RecvCheck(p) PROVE Calm /\ Inactive' /\ DeadWakeAll'
  BY <1>1 DEF RecvCheck
<1>2. ASSUME RecvFrame(p) PROVE Calm /\ Inactive' /\ DeadWakeAll'
  BY <1>2 DEF RecvFrame
<1>3. ASSUME RecvEnds(p) PROVE Calm /\ Inactive' /\ DeadWakeAll'
  BY <1>3 DEF RecvEnds
<1>4. ASSUME Broadcast(p) PROVE Calm /\ Inactive' /\ DeadWakeAll'
  BY <1>4 DEF Broadcast
<1>5. ASSUME NEW q \in Peer, SendMsg(p, q) PROVE Calm /\ Inactive' /\ DeadWakeAll'
  BY <1>5 DEF SendMsg, TxFree
<1>6. ASSUME NEW q \in Peer, SendMsgWaits(p, q) PROVE Calm /\ Inactive' /\ DeadWakeAll'
  BY <1>6 DEF SendMsgWaits
<1>7. ASSUME NEW q \in Peer, SendMsgDrops(p, q) PROVE Calm /\ Inactive' /\ DeadWakeAll'
  BY <1>7 DEF SendMsgDrops, NextTarget
<1>8. ASSUME NEW q \in Peer, SendMsgNotify(p, q) PROVE Calm /\ Inactive' /\ DeadWakeAll'
  BY <1>8 DEF SendMsgNotify, NextTarget, TxWoken
<1>9. ASSUME SendMsgSleeps(p) PROVE Calm /\ Inactive' /\ DeadWakeAll'
  BY <1>9 DEF SendMsgSleeps
<1>10. ASSUME RecvInactive(p) PROVE Calm /\ Inactive' /\ DeadWakeAll'
  BY <1>10 DEF RecvInactive
<1>11. ASSUME RecvWakes(p) PROVE Calm /\ Inactive' /\ DeadWakeAll'
  BY <1>11 DEF RecvWakes, TxWoken, RxWoken, TxFree, Fresh
<1> QED
  BY <1>1, <1>2, <1>3, <1>4, <1>5, <1>6, <1>7, <1>8, <1>9, <1>10, <1>11, CalmKeeps DEF RecvLoop

LEMMA SendKeeps == ASSUME IInv, NEW p \in Peer, SendLoop(p) PROVE IInv'
<1> USE DEF IInv, Shape, sessVars, srvVars, netVars, Calm, DeadWakeAll, At, Inactive
<1>1. ASSUME SendPop(p) PROVE Calm /\ Inactive' /\ DeadWakeAll'
  BY <1>1 DEF SendPop, PopWakes, RxWoken
<1>2. ASSUME SendWaits(p) PROVE Calm /\ Inactive' /\ DeadWakeAll'
  BY <1>2 DEF SendWaits
<1>3. ASSUME SendSleeps(p) PROVE Calm /\ Inactive' /\ DeadWakeAll'
  BY <1>3 DEF SendSleeps
<1>4. ASSUME SendFrame(p) PROVE Calm /\ Inactive' /\ DeadWakeAll'
  BY <1>4 DEF SendFrame
<1>5. ASSUME SendFails(p) PROVE Calm /\ Inactive' /\ DeadWakeAll'
  BY <1>5 DEF SendFails
<1>6. ASSUME SendInactive(p) PROVE Calm /\ Inactive' /\ DeadWakeAll'
  BY <1>6 DEF SendInactive
<1>7. ASSUME SendWakes(p) PROVE Calm /\ Inactive' /\ DeadWakeAll'
  BY <1>7 DEF SendWakes, RxWoken
<1> QED
  BY <1>1, <1>2, <1>3, <1>4, <1>5, <1>6, <1>7, CalmKeeps DEF SendLoop

-----------------------------------------------------------------------------
(* Steps of the accept thread. *)

LEMMA AcceptKeeps == ASSUME IInv, NEW p \in Peer, Accept(p) PROVE IInv'
<1> USE DEF IInv, Shape, Accept, netVars
<1>1. /\ m_clients \o accepted = m_clients
      /\ Elements(m_clients \o accepted') = Elements(m_clients) \union {p}
  <2>1. accepted = <<>> /\ accepted' = <<p>> /\ <<p>> \in Seq(Peer)
    BY DEF Phases
  <2>2. Elements(m_clients \o <<p>>) = Elements(m_clients) \union Elements(<<p>>)
    BY <2>1, ElementsOfBoth
  <2> QED
    BY <2>1, <2>2, ElementsOfOne, ConcatEmptySeq
<1>2. owner \in {"idle", "join"} /\ Known' = Known \union {p}
  BY <1>1 DEF Phases, Known
<1>3. Shape' /\ Fresh' /\ Inactive' /\ DeadWakeAll'
  BY DEF Fresh, Inactive, DeadWakeAll, At
<1>4. Phases' /\ AtHead'
  BY DEF Phases, AtHead
<1>5. Accounted'
  BY <1>2 DEF Accounted
<1> QED
  BY <1>3, <1>4, <1>5

LEMMA ListKeeps == ASSUME IInv, PushBack \/ AcceptEnds PROVE IInv'
<1> USE DEF IInv, Shape, PushBack, AcceptEnds, ClientsFree, sessVars, threadVars, netVars
<1>1. /\ accepted \in Seq(Peer)
      /\ m_clients \o accepted \in Seq(Peer)
      /\ (m_clients \o accepted) \o <<>> = m_clients \o accepted
  <2>1. accepted \in Seq(Peer)
    <3>1. ASSUME NEW p \in Peer PROVE <<p>> \in Seq(Peer)
      OBVIOUS
    <3> QED
      BY ONLY <3>1, EmptySeq, accepted \in {<<>>} \union {<<p>> : p \in Peer}
  <2>2. m_clients \o accepted \in Seq(Peer)
    BY <2>1, ConcatProperties
  <2> QED
    BY <2>1, <2>2, ConcatEmptySeq
<1>2. Shape'
  BY <1>1
<1>3. Fresh' /\ Inactive' /\ DeadWakeAll' /\ AtHead'
  BY DEF Fresh, Inactive, DeadWakeAll, At, AtHead
<1>4. Phases'
  BY DEF Phases
<1>5. Known' = Known
  BY <1>1, ElementsOfNone DEF Phases, Known, Accounted
<1>6. Accounted'
  BY <1>5 DEF Accounted, Quiet, Phases
<1> QED
  BY <1>2, <1>3, <1>4, <1>6

-----------------------------------------------------------------------------
(* Steps of ChatServer::Stop. *)

LEMMA StopBegins == ASSUME IInv, StopCalled \/ JoinAccept PROVE IInv'
<1> USE DEF IInv, Shape, StopCalled, JoinAccept, sessVars, threadVars, netVars
<1>1. m_clients \o <<>> = m_clients
  BY ConcatEmptySeq
<1>2. Known' = Known
  BY <1>1 DEF Phases, Known
<1>3. Shape' /\ Fresh' /\ Inactive' /\ DeadWakeAll'
  BY DEF Fresh, Inactive, DeadWakeAll, At
<1>4. Phases' /\ AtHead'
  BY DEF Phases, AtHead
<1>5. Accounted'
  BY <1>2 DEF Accounted, Quiet
<1> QED
  BY <1>3, <1>4, <1>5

LEMMA StopNextKeeps == ASSUME IInv, StopNext PROVE IInv'
<1> USE DEF IInv, Shape, StopNext, threadVars, netVars
<1>1. Known' = Known
  BY DEF Known
<1>2. m_clients' \in Seq(Peer)
  BY EmptySeq
<1>3. Shape' /\ Fresh' /\ Inactive' /\ DeadWakeAll'
  BY <1>2 DEF Fresh, Inactive, DeadWakeAll, At
<1>4. Phases' /\ AtHead'
  BY ElementsOfTail DEF Phases, AtHead
<1>5. Accounted'
  BY <1>1, ElementsOfTail DEF Accounted, Quiet
<1> QED
  BY <1>3, <1>4, <1>5

\* The session at the head is known, and not fresh.
LEMMA HeadIsKnown ==
    ASSUME IInv, owner \in {"wake", "shut", "recv", "joinRx", "joinTx"}
    PROVE  /\ stopping # <<>> /\ Head(stopping) \in Peer /\ rx[Head(stopping)] # "none"
           /\ m_active[Head(stopping)] = FALSE
           /\ Known = {Head(stopping)} \union Elements(Tail(stopping))
           /\ Tail(stopping) \in Seq(Peer)
BY ElementsOfTail DEF IInv, Shape, AtHead, Accounted, Known

LEMMA StopWakesKeeps == ASSUME IInv, StopWakes PROVE IInv'
<1> USE DEF IInv, Shape, StopWakes, sessVars, netVars, TxWoken, RxWoken
<1>1. Known' = Known
  BY DEF Known
<1>2. Shape' /\ Fresh' /\ Inactive'
  BY HeadIsKnown DEF Fresh, Inactive
<1>3. DeadWakeAll'
  BY HeadIsKnown DEF DeadWakeAll, At
<1>4. Phases' /\ AtHead'
  BY HeadIsKnown DEF Phases, AtHead
<1>5. Accounted'
  BY <1>1, HeadIsKnown DEF Accounted, Quiet, At
<1> QED
  BY <1>2, <1>3, <1>4, <1>5

LEMMA StopClosesKeeps == ASSUME IInv, StopShuts \/ StopCloses \/ JoinRx PROVE IInv'
<1> USE DEF IInv, Shape, StopShuts, StopCloses, JoinRx, sessVars, threadVars, netVars
<1>1. Known' = Known
  BY DEF Known
<1>2. Shape' /\ Fresh' /\ Inactive' /\ DeadWakeAll'
  BY HeadIsKnown DEF Fresh, Inactive, DeadWakeAll, At
<1>3. Phases' /\ AtHead'
  BY HeadIsKnown DEF Phases, AtHead
<1>4. Accounted'
  BY <1>1, HeadIsKnown DEF Accounted, Quiet, Known
<1> QED
  BY <1>2, <1>3, <1>4

LEMMA JoinTxKeeps == ASSUME IInv, JoinTx PROVE IInv'
<1> USE DEF IInv, Shape, JoinTx, threadVars, netVars
<1>1. Known' = Elements(Tail(stopping)) /\ Known = {Head(stopping)} \union Known'
  BY HeadIsKnown DEF Known
<1>2. Shape' /\ Fresh' /\ Inactive' /\ DeadWakeAll'
  BY HeadIsKnown DEF Fresh, Inactive, DeadWakeAll, At
<1>3. Phases' /\ AtHead'
  BY DEF Phases, AtHead
<1>4. ASSUME NEW p \in Peer, p = Head(stopping) PROVE Quiet(p)'
  BY <1>4, HeadIsKnown DEF AtHead, Quiet
<1>5. ASSUME NEW p \in Peer, Quiet(p) PROVE Quiet(p)'
  BY <1>5, HeadIsKnown DEF Quiet
<1>6. Accounted'
  BY <1>1, <1>4, <1>5, HeadIsKnown DEF Accounted
<1> QED
  BY <1>2, <1>3, <1>6

-----------------------------------------------------------------------------

LEMMA ClientKeeps == ASSUME IInv, Clients PROVE IInv'
<1>1. UNCHANGED <<sessVars, threadVars, srvVars>>
  BY DEF Clients, Connect, Talk, HangUp, Listen
<1> QED
  BY <1>1 DEF sessVars, threadVars, srvVars, IInv, Shape, Fresh, Inactive, DeadWakeAll, At,
              Phases, AtHead, Accounted, Quiet, Known

LEMMA StepKeeps == ASSUME IInv, [Next]_vars PROVE IInv'
<1>1. CASE Accepter
  BY <1>1, AcceptKeeps, ListKeeps DEF Accepter
<1>2. CASE \E p \in Peer : RecvLoop(p) \/ SendLoop(p)
  BY <1>2, RecvKeeps, SendKeeps
<1>3. CASE StopCalled \/ Stop
  BY <1>3, StopBegins, StopNextKeeps, StopWakesKeeps, StopClosesKeeps, JoinTxKeeps DEF Stop
<1>4. CASE Clients
  BY <1>4, ClientKeeps
<1>5. CASE UNCHANGED vars
  BY <1>5 DEF vars, sessVars, threadVars, srvVars, IInv, Shape, Fresh, Inactive, DeadWakeAll, At,
              Phases, AtHead, Accounted, Quiet, Known
<1> QED
  BY <1>1, <1>2, <1>3, <1>4, <1>5 DEF Next

(* The accept thread, the two threads of every session and the thread in Stop keep
   the invariant. *)
THEOREM Inductive == Spec => []IInv
BY Initially, StepKeeps, PTL DEF Spec

(* Whoever waits on the condition variables of a session is awake when its
   receiving thread has ended: RecvLoop notifies under the mutex, after m_active is
   cleared, so that no waiter can be between its test and its sleep. *)
THEOREM NobodyLeftAsleep == Spec => []DeadWakeAll
<1>1. IInv => DeadWakeAll
  BY DEF IInv
<1> QED
  BY <1>1, Inductive, PTL

(* When ChatServer::Stop has returned, each session there ever was has been stopped:
   also one that was accepted while Stop began, since Stop joins the accept thread
   before it looks at m_clients. *)
THEOREM StopLeavesNothing == Spec => []StoppedIsQuiet
<1>1. ASSUME IInv PROVE StoppedIsQuiet
  <2> SUFFICES ASSUME owner = "stopped", NEW p \in Peer
               PROVE  rx[p] = "none" \/ Quiet(p)
    BY <1>1 DEF StoppedIsQuiet, Quiet, IInv, Fresh
  <2>1. Known = {}
    BY <1>1, ElementsOfNone DEF IInv, Accounted, Known
  <2> QED
    BY <1>1, <2>1 DEF IInv, Accounted
<1> QED
  BY <1>1, Inductive, PTL

-----------------------------------------------------------------------------
(* Induction over the numbers, from the order of the numbers being well-founded,
   and the functions that recursion over a sequence defines. *)

LEMMA Least ==
    ASSUME NEW S, S \subseteq Nat, S # {}
    PROVE  \E n \in S : \A m \in S : n <= m
<1> DEFINE R == {pair \in Nat \X Nat : pair[1] < pair[2]}
<1>1. IsWellFoundedOn(R, Nat)
  BY NatLessThanWellFounded DEF OpToRel
<1>2. \A m, n \in Nat : <<m, n>> \in R <=> m < n
  OBVIOUS
<1> HIDE DEF R
<1>3. PICK n \in S : \A m \in S : ~(<<m, n>> \in R)
  BY <1>1, WFMin
<1>4. ASSUME NEW m \in S PROVE n <= m
  <2>1. m \in Nat /\ n \in Nat
    OBVIOUS
  <2>2. ~(m < n)
    BY <2>1, <1>2, <1>3, Zenon
  <2> QED
    BY ONLY <2>1, <2>2
<1> QED
  BY <1>4

LEMMA Induct ==
    ASSUME NEW S, 0 \in S, \A n \in Nat : n \in S => n + 1 \in S
    PROVE  Nat \subseteq S
<1> SUFFICES ASSUME Nat \ S # {} PROVE FALSE
  OBVIOUS
<1>1. PICK n \in Nat \ S : \A m \in Nat \ S : n <= m
  BY Least
<1>2. n # 0 /\ n - 1 \in Nat
  BY <1>1
<1>3. n - 1 \in S
  BY <1>1, <1>2
<1> QED
  BY <1>1, <1>2, <1>3

IsStep(step, n, V) == step \in [(1..n) \X V -> V]

Repeats(f, n, V, e, step) ==
    f \in [0..n -> V] /\ f[0] = e /\ \A i \in 1..n : f[i] = step[<<i, f[i - 1]>>]

LEMMA Recursion ==
    ASSUME NEW V, NEW e \in V, NEW n \in Nat, NEW step, IsStep(step, n, V)
    PROVE  \E f : Repeats(f, n, V, e, step)
<1> USE DEF IsStep, Repeats
<1> DEFINE Good(k, f) == f[0] = e /\ \A i \in 1..k : f[i] = step[<<i, f[i - 1]>>]
           S == {k \in Nat : k <= n => \E f \in [0..k -> V] : Good(k, f)}
<1>1. 0 \in S
  <2> DEFINE g == [i \in 0..0 |-> e]
  <2>1. g \in [0..0 -> V] /\ Good(0, g)
    OBVIOUS
  <2> QED
    BY <2>1
<1>2. ASSUME NEW k \in Nat, k \in S, k + 1 <= n PROVE k + 1 \in S
  <2>1. PICK f \in [0..k -> V] : Good(k, f)
    BY <1>2
  <2> DEFINE g == [i \in 0..k + 1 |-> IF i <= k THEN f[i] ELSE step[<<k + 1, f[k]>>]]
  <2>2. g \in [0..k + 1 -> V]
    <3>1. <<k + 1, f[k]>> \in (1..n) \X V
      BY <1>2
    <3> QED
      BY <3>1
  <2>3. g[0] = e
    BY <2>1
  <2>4. ASSUME NEW i \in 1..k + 1 PROVE g[i] = step[<<i, g[i - 1]>>]
    <3>1. CASE i <= k
      <4>1. i \in 1..k /\ g[i] = f[i] /\ g[i - 1] = f[i - 1]
        BY <3>1
      <4> QED
        BY <4>1, <2>1
    <3>2. CASE i = k + 1
      <4>1. g[i] = step[<<k + 1, f[k]>>] /\ g[i - 1] = f[k]
        BY <3>2
      <4> QED
        BY <4>1, <3>2
    <3> QED
      BY <3>1, <3>2
  <2>5. Good(k + 1, g)
    BY <2>3, <2>4
  <2> HIDE DEF g, Good
  <2> QED
    BY <2>2, <2>5
<1>3. \A k \in Nat : k \in S => k + 1 \in S
  BY <1>2
<1> HIDE DEF S
<1>4. n \in S
  BY <1>1, <1>3, Induct
<1> QED
  BY <1>4 DEF S

-----------------------------------------------------------------------------
(* The size of a queue. *)

\* f[i] is the size of the first i frames of q.
Sums(f, q) ==
    /\ f \in [0..Len(q) -> Nat]
    /\ f[0] = 0
    /\ \A i \in 1..Len(q) : f[i] = f[i - 1] + Size(q[i])

LEMMA FrameSized == ASSUME NEW x \in Frame PROVE Size(x) \in Nat
BY FramingServerAssumption DEF Frame, Size

LEMMA SumsAgree ==
    ASSUME NEW q \in Seq(Frame), NEW f, NEW g, Sums(f, q), Sums(g, q)
    PROVE  f[Len(q)] = g[Len(q)]
<1> DEFINE S == {i \in Nat : i <= Len(q) => f[i] = g[i]}
<1>1. Len(q) \in Nat
  BY LenProperties
<1>2. 0 \in S
  BY DEF Sums
<1>3. ASSUME NEW i \in Nat, i \in S PROVE i + 1 \in S
  BY <1>1, <1>3 DEF Sums
<1> HIDE DEF S
<1>4. Len(q) \in S
  BY <1>1, <1>2, <1>3, Induct
<1> QED
  BY <1>1, <1>4 DEF S

LEMMA BytesSum == ASSUME NEW q \in Seq(Frame) PROVE \E f : Sums(f, q) /\ f[Len(q)] = Bytes(q)
<1> DEFINE n == Len(q)
           IsSum(f) == f = [i \in 0..n |-> IF i = 0 THEN 0 ELSE f[i - 1] + Size(q[i])]
           c == CHOOSE f : IsSum(f)
           step == [pair \in (1..n) \X Nat |-> pair[2] + Size(q[pair[1]])]
<1>1. n \in Nat /\ \A i \in 1..n : q[i] \in Frame /\ Size(q[i]) \in Nat
  BY LenProperties, ElementOfSeq, FrameSized
<1>2. IsStep(step, n, Nat)
  BY <1>1 DEF IsStep
<1>3. \A i \in 1..n, v \in Nat : step[<<i, v>>] = v + Size(q[i])
  OBVIOUS
<1> HIDE DEF step, n
<1>4. PICK f : Repeats(f, n, Nat, 0, step)
  <2>1. n \in Nat /\ 0 \in Nat
    BY <1>1
  <2> QED
    BY ONLY <2>1, <1>2, Recursion
<1>5. /\ f \in [0..n -> Nat] /\ f[0] = 0
      /\ \A i \in 1..n : f[i] = f[i - 1] + Size(q[i])
  <2>1. f \in [0..n -> Nat] /\ f[0] = 0 /\ \A i \in 1..n : f[i] = step[<<i, f[i - 1]>>]
    BY <1>4 DEF Repeats
  <2>2. \A i \in 1..n : f[i - 1] \in Nat
    BY <2>1, <1>1
  <2> QED
    BY <2>1, <2>2, <1>3
<1>6. IsSum(f)
  BY <1>1, <1>5
<1>7. IsSum(c)
  BY <1>6
<1>8. Bytes(q) = c[n]
  BY DEF Bytes, n
<1> HIDE DEF c
<1>9. c[0] = 0 /\ \A i \in 1..n : c[i] = c[i - 1] + Size(q[i])
  BY <1>1, <1>7
<1>10. c = f
  <2> DEFINE S == {i \in Nat : i <= n => c[i] = f[i]}
  <2>1. 0 \in S
    BY <1>5, <1>9
  <2>2. ASSUME NEW i \in Nat, i \in S PROVE i + 1 \in S
    BY <1>1, <2>2, <1>5, <1>9
  <2> HIDE DEF S
  <2>3. \A i \in 0..n : i \in S
    BY <2>1, <2>2, Induct
  <2>4. \A i \in 0..n : c[i] = f[i]
    BY <2>3, <1>1 DEF S
  <2>5. c = [i \in 0..n |-> c[i]]
    BY <1>7
  <2>6. f = [i \in 0..n |-> f[i]]
    BY <1>5
  <2> QED
    BY <2>4, <2>5, <2>6
<1> QED
  BY <1>5, <1>8, <1>10 DEF Sums, n

\* Whatever sums the sizes up gives the size of the queue.
LEMMA SumIsBytes ==
    ASSUME NEW q \in Seq(Frame), NEW f, Sums(f, q)
    PROVE  Bytes(q) = f[Len(q)]
BY BytesSum, SumsAgree

LEMMA BytesOfNone == Bytes(<<>>) = 0
<1> DEFINE f == [i \in 0..0 |-> 0]
<1>1. Len(<<>>) = 0 /\ <<>> \in Seq(Frame)
  BY EmptySeq
<1>2. Sums(f, <<>>)
  BY <1>1 DEF Sums
<1>3. f[0] = 0
  OBVIOUS
<1> HIDE DEF f
<1> QED
  BY <1>1, <1>2, <1>3, SumIsBytes

LEMMA BytesOfAppend ==
    ASSUME NEW q \in Seq(Frame), NEW x \in Frame
    PROVE  Bytes(Append(q, x)) = Bytes(q) + Size(x)
<1> DEFINE s == Append(q, x)
<1>1. /\ s \in Seq(Frame) /\ Len(s) = Len(q) + 1 /\ Len(q) \in Nat
      /\ s[Len(q) + 1] = x /\ \A i \in 1..Len(q) : s[i] = q[i]
  BY AppendProperties, LenProperties
<1>2. PICK f : Sums(f, q) /\ f[Len(q)] = Bytes(q)
  BY BytesSum
<1> DEFINE n == Len(q)
           g == [i \in 0..n + 1 |-> IF i <= n THEN f[i] ELSE f[n] + Size(x)]
<1> HIDE DEF s
<1>3. Size(x) \in Nat
  BY FrameSized
<1>4. Sums(g, s)
  <2>1. g \in [0..Len(s) -> Nat] /\ g[0] = 0
    BY <1>1, <1>2, <1>3 DEF Sums
  <2>2. ASSUME NEW i \in 1..Len(s) PROVE g[i] = g[i - 1] + Size(s[i])
    <3>1. CASE i <= n
      <4>1. g[i] = f[i] /\ g[i - 1] = f[i - 1] /\ s[i] = q[i]
        BY <3>1, <1>1
      <4> QED
        BY <4>1, <3>1, <1>1, <1>2 DEF Sums
    <3>2. CASE i = n + 1
      <4>1. g[i] = f[n] + Size(x) /\ g[i - 1] = f[n] /\ s[i] = x
        BY <3>2, <1>1
      <4> QED
        BY <4>1
    <3> QED
      BY <3>1, <3>2, <1>1
  <2> QED
    BY <2>1, <2>2 DEF Sums
<1>5. g[Len(s)] = Bytes(q) + Size(x)
  BY <1>1, <1>2
<1> HIDE DEF g
<1>6. Bytes(s) = g[Len(s)]
  BY <1>1, <1>4, SumIsBytes
<1> QED
  BY <1>5, <1>6 DEF s

LEMMA BytesOfTail ==
    ASSUME NEW q \in Seq(Frame), q # <<>>
    PROVE  /\ Bytes(q) = Size(Head(q)) + Bytes(Tail(q))
           /\ Head(q) \in Frame /\ Tail(q) \in Seq(Frame)
<1> DEFINE t == Tail(q)
           h == Head(q)
<1>1. /\ t \in Seq(Frame) /\ h \in Frame /\ Len(q) \in Nat \ {0} /\ Len(t) = Len(q) - 1
      /\ h = q[1] /\ \A i \in 1..Len(t) : t[i] = q[i + 1]
  BY HeadTailProperties, LenProperties, EmptySeq
<1> HIDE DEF t, h
<1>2. PICK f : Sums(f, t) /\ f[Len(t)] = Bytes(t)
  BY <1>1, BytesSum
<1>3. Size(h) \in Nat
  BY <1>1, FrameSized
<1> DEFINE n == Len(q)
           g == [i \in 0..n |-> IF i = 0 THEN 0 ELSE Size(h) + f[i - 1]]
<1>4. Sums(g, q)
  <2>1. g \in [0..n -> Nat] /\ g[0] = 0
    BY <1>1, <1>2, <1>3 DEF Sums
  <2>2. ASSUME NEW i \in 1..n PROVE g[i] = g[i - 1] + Size(q[i])
    <3>1. CASE i = 1
      BY <3>1, <1>1, <1>2, <1>3 DEF Sums
    <3>2. CASE i # 1
      <4>1. /\ i - 1 \in 1..Len(t) /\ g[i] = Size(h) + f[i - 1] /\ g[i - 1] = Size(h) + f[(i - 1) - 1]
            /\ t[i - 1] = q[i]
        BY <3>2, <1>1
      <4>2. f[i - 1] = f[(i - 1) - 1] + Size(q[i])
        BY <4>1, <1>2 DEF Sums
      <4>3. f[(i - 1) - 1] \in Nat /\ Size(q[i]) \in Nat
        <5>1. (i - 1) - 1 \in 0..Len(t)
          BY <4>1, <1>1
        <5>2. q[i] \in Frame
          BY ElementOfSeq
        <5> QED
          BY <5>1, <5>2, <1>2, FrameSized DEF Sums
      <4> QED
        BY <4>1, <4>2, <4>3, <1>3
    <3> QED
      BY <3>1, <3>2
  <2> QED
    BY <2>1, <2>2 DEF Sums
<1>5. g[n] = Size(h) + Bytes(t)
  BY <1>1, <1>2
<1> HIDE DEF g
<1>6. Bytes(q) = g[n]
  BY <1>4, SumIsBytes
<1> QED
  BY <1>1, <1>5, <1>6 DEF h, t

LEMMA BytesType == ASSUME NEW q \in Seq(Frame) PROVE Bytes(q) \in Nat
<1>1. PICK f : Sums(f, q) /\ f[Len(q)] = Bytes(q)
  BY BytesSum
<1> QED
  BY <1>1, LenProperties DEF Sums

-----------------------------------------------------------------------------
(* To whom a frame is broadcast. *)

NoDup(s) == \A i, j \in 1..Len(s) : s[i] = s[j] => i = j

LEMMA ElementsOfAppend ==
    ASSUME NEW S, NEW s \in Seq(S), NEW x \in S
    PROVE  Elements(Append(s, x)) = Elements(s) \union {x}
<1>1. /\ Append(s, x) \in Seq(S) /\ Len(Append(s, x)) = Len(s) + 1 /\ Len(s) \in Nat
      /\ Append(s, x)[Len(s) + 1] = x /\ \A i \in 1..Len(s) : Append(s, x)[i] = s[i]
      /\ DOMAIN s = 1..Len(s) /\ DOMAIN Append(s, x) = 1..Len(s) + 1
  BY AppendProperties, LenProperties
<1> QED
  BY <1>1 DEF Elements

LEMMA NoDupAppend ==
    ASSUME NEW S, NEW s \in Seq(S), NEW x \in S, NoDup(s), x \notin Elements(s)
    PROVE  NoDup(Append(s, x))
<1>1. /\ Len(Append(s, x)) = Len(s) + 1 /\ Len(s) \in Nat
      /\ Append(s, x)[Len(s) + 1] = x /\ \A i \in 1..Len(s) : Append(s, x)[i] = s[i]
      /\ DOMAIN s = 1..Len(s)
  BY AppendProperties, LenProperties
<1>2. \A i \in 1..Len(s) : s[i] # x
  BY <1>1 DEF Elements
<1> QED
  BY <1>1, <1>2 DEF NoDup

LEMMA OthersFacts ==
    ASSUME m_clients \in Seq(Peer), NoDup(m_clients), NEW p \in Peer
    PROVE  /\ Others(p) \in Seq(Peer) /\ NoDup(Others(p))
           /\ Elements(Others(p)) = Elements(m_clients) \ {p}
<1> DEFINE n == Len(m_clients)
           Entry(f, i) == IF i = 0 THEN <<>>
                          ELSE IF m_clients[i] = p THEN f[i - 1]
                          ELSE Append(f[i - 1], m_clients[i])
           IsAmong(f) == f = [i \in 0..n |-> Entry(f, i)]
           c == CHOOSE f : IsAmong(f)
           step == [pair \in (1..n) \X Seq(Peer) |->
                       IF m_clients[pair[1]] = p THEN pair[2]
                       ELSE Append(pair[2], m_clients[pair[1]])]
<1>1. n \in Nat /\ \A i \in 1..n : m_clients[i] \in Peer
  BY LenProperties, ElementOfSeq
<1>2. IsStep(step, n, Seq(Peer))
  BY <1>1, AppendProperties DEF IsStep
<1>3. \A i \in 1..n, v \in Seq(Peer) :
          step[<<i, v>>] = IF m_clients[i] = p THEN v ELSE Append(v, m_clients[i])
  OBVIOUS
<1> HIDE DEF step, n
<1>4. PICK f : Repeats(f, n, Seq(Peer), <<>>, step)
  <2>1. n \in Nat /\ <<>> \in Seq(Peer)
    BY <1>1, EmptySeq
  <2> QED
    BY ONLY <2>1, <1>2, Recursion
<1>5. /\ f \in [0..n -> Seq(Peer)] /\ f[0] = <<>>
      /\ \A i \in 1..n : f[i] = IF m_clients[i] = p THEN f[i - 1] ELSE Append(f[i - 1], m_clients[i])
  <2>1. f \in [0..n -> Seq(Peer)] /\ f[0] = <<>> /\ \A i \in 1..n : f[i] = step[<<i, f[i - 1]>>]
    BY <1>4 DEF Repeats
  <2>2. \A i \in 1..n : f[i - 1] \in Seq(Peer)
    BY <2>1, <1>1
  <2> QED
    BY <2>1, <2>2, <1>3
<1>6. IsAmong(f)
  <2>1. ASSUME NEW i \in 0..n PROVE f[i] = Entry(f, i)
    <3>1. i = 0 \/ i \in 1..n
      BY <1>1
    <3> QED
      BY <3>1, <1>1, <1>5
  <2> HIDE DEF Entry
  <2> QED
    BY <2>1, <1>5
<1>7. IsAmong(c)
  BY <1>6
<1>8. Others(p) = c[n]
  BY DEF Others, n
<1> HIDE DEF c
<1>9. /\ c[0] = <<>>
      /\ \A i \in 1..n : c[i] = IF m_clients[i] = p THEN c[i - 1] ELSE Append(c[i - 1], m_clients[i])
  <2>1. ASSUME NEW i \in 0..n PROVE c[i] = Entry(c, i)
    <3> HIDE DEF Entry
    <3> QED
      BY <1>7
  <2>2. \A i \in 1..n : i \in 0..n /\ i # 0
    BY <1>1
  <2> QED
    BY <1>1, <2>1, <2>2
<1> DEFINE Upto(i) == {m_clients[j] : j \in 1..i}
           Good(s, i) == s \in Seq(Peer) /\ NoDup(s) /\ Elements(s) = Upto(i) \ {p}
           S == {i \in Nat : i <= n => Good(c[i], i)}
<1>10. 0 \in S
  <2>1. <<>> \in Seq(Peer) /\ NoDup(<<>>)
    BY EmptySeq DEF NoDup
  <2>2. Upto(0) = {}
    OBVIOUS
  <2>3. Elements(<<>>) = {}
    BY ElementsOfNone
  <2> HIDE DEF Upto
  <2> QED
    BY <2>1, <2>2, <2>3, <1>9
<1>11. ASSUME NEW i \in Nat, i \in S, i + 1 <= n PROVE Good(c[i + 1], i + 1)
  <2> DEFINE x == m_clients[i + 1]
  <2>1. i + 1 \in 1..n /\ x \in Peer /\ Good(c[i], i)
    BY <1>1, <1>11
  <2>2. c[i + 1] = IF x = p THEN c[i] ELSE Append(c[i], x)
    <3>1. i + 1 \in 1..n /\ (i + 1) - 1 = i
      BY <2>1
    <3> QED
      BY <3>1, <1>9
  <2>3. Upto(i + 1) = Upto(i) \union {x}
    OBVIOUS
  <2>4. x \notin Upto(i)
    <3>1. ASSUME NEW j \in 1..i, m_clients[j] = x PROVE FALSE
      <4>1. j \in 1..n /\ i + 1 \in 1..n /\ j # i + 1
        BY <1>1, <1>11
      <4> QED
        BY <4>1, <3>1 DEF NoDup, n
    <3> QED
      BY <3>1
  <2> HIDE DEF x, Upto
  <2>5. CASE x = p
    BY <2>1, <2>2, <2>3, <2>5
  <2>6. CASE x # p
    <3>1. c[i + 1] = Append(c[i], x)
      BY <2>2, <2>6
    <3>2. Append(c[i], x) \in Seq(Peer) /\ NoDup(Append(c[i], x))
      BY <2>1, <2>4, AppendProperties, NoDupAppend
    <3>3. Elements(Append(c[i], x)) = Elements(c[i]) \union {x}
      BY <2>1, ElementsOfAppend
    <3> QED
      BY <3>1, <3>2, <3>3, <2>1, <2>3, <2>6
  <2> QED
    BY <2>5, <2>6
<1>12. \A i \in Nat : i \in S => i + 1 \in S
  <2> HIDE DEF Good
  <2> QED
    BY <1>11
<1> HIDE DEF S
<1>13. n \in S
  BY <1>1, <1>10, <1>12, Induct
<1>14. Good(c[n], n)
  BY <1>1, <1>13 DEF S
<1>15. Upto(n) = Elements(m_clients)
  BY LenProperties DEF Elements, n
<1> QED
  BY <1>8, <1>14, <1>15

-----------------------------------------------------------------------------
(* The frames on their way: what Inv needs to be kept by every step. *)

Handing == {"send", "block", "asleep", "notify"}

\* The sessions that the server sends to are listed, each once.
Lists ==
    /\ NoDup(m_clients)
    /\ Elements(m_clients) \intersect Elements(accepted) = {}
    /\ \A p \in Peer :
         /\ NoDup(snapshot[p])
         /\ rx[p] \in Handing => snapshot[p] # <<>>
         /\ \A q \in Elements(snapshot[p]) : q # p /\ q \notin Elements(accepted) /\ rx[q] # "none"

\* A thread has a message in hand exactly while it sends it; a client without a
\* session, or with one that is not listed yet, has nothing on the way.
Hands ==
    /\ \A q \in Peer : msg[q] = <<>> <=> tx[q] # "send"
    /\ \A q \in Peer : peer[q] = "idle" => rx[q] = "none"
    /\ \A q \in Peer : rx[q] = "none" \/ q \in Elements(accepted) => Stream(q) = <<>>

\* Frames are numbered as they are received, up to the last one that Stop takes.
Counts ==
    \A s \in Peer :
        /\ frame[s] <= rcvd[s]
        /\ m_socket[s] # "closed" => frame[s] = rcvd[s]
        /\ rx[s] = "none" => frame[s] = 0
        /\ rx[s] \in Sending => frame[s] >= 1

\* A socket is closed by Stop alone, which is done with that session then.
Stops ==
    /\ NoDup(stopping)
    /\ \A p \in Peer :
         m_socket[p] = "closed" =>
             /\ owner \notin {"idle", "join"}
             /\ p \in Elements(stopping) => p = Head(stopping) /\ owner \in {"joinRx", "joinTx"}

\* q may yet get the frame that s is broadcasting.
Coming(s, q) ==
    \/ rx[s] = "broadcast"
    \/ rx[s] \in {"send", "block", "asleep"} /\ q \in Elements(snapshot[s])
    \/ rx[s] = "notify" /\ q \in Elements(Tail(snapshot[s]))

Has(q, s, k) == <<s, k>> \in Elements(Stream(q))

\* Nobody has got a frame that is yet to come, or one of its own.
Below ==
    \A q, s \in Peer : \A k \in 1..MaxFrames :
        Has(q, s, k) => /\ s # q /\ k <= frame[s]
                        /\ Coming(s, q) => k < frame[s]

Ascending(s) == \A i, j \in 1..Len(s) : i < j /\ s[i][1] = s[j][1] => s[i][2] < s[j][2]

Rising == \A q \in Peer : Ascending(Stream(q))

Stands(q) == peer[q] = "open" /\ m_socket[q] = "open"

\* Who got an earlier frame of s gets, or has got, the one being broadcast.
Served ==
    \A q, s \in Peer :
        m_active[q] /\ Stands(q) /\ rx[s] \in Sending /\ (\E k \in 1..MaxFrames : Has(q, s, k))
            => Coming(s, q) \/ Has(q, s, frame[s])

Flow == TypeOK /\ Lists /\ Hands /\ Counts /\ Stops /\ Below /\ Rising /\ Served /\ NoGap

-----------------------------------------------------------------------------
(* The types. *)

LEMMA OneFrame ==
    ASSUME NEW m \in {<<>>} \union {<<f>> : f \in Frame}
    PROVE  m \in Seq(Frame) /\ Len(m) <= 1
<1>1. ASSUME NEW f \in Frame PROVE <<f>> \in Seq(Frame) /\ Len(<<f>>) <= 1
  OBVIOUS
<1>2. <<>> \in Seq(Frame) /\ Len(<<>>) <= 1
  BY EmptySeq
<1> QED
  BY <1>1, <1>2

LEMMA TypesRecv == ASSUME TypeOK, Lists, Counts, NEW p \in Peer, RecvLoop(p) PROVE TypeOK'
<1> USE DEF TypeOK, sessVars, srvVars, netVars, TxAccounting
<1>1. CASE RecvCheck(p)
  BY <1>1 DEF RecvCheck
<1>2. CASE RecvFrame(p)
  <2>1. rcvd[p] + 1 <= sent[p] /\ rcvd[p] + 1 \in 0..MaxFrames
    <3>1. rcvd[p] < sent[p]
      BY ONLY <1>2 DEF RecvFrame, FrameWaits
    <3>2. rcvd[p] \in 0..MaxFrames /\ sent[p] \in 0..MaxFrames
      BY ONLY TypeOK, p \in Peer DEF TypeOK
    <3>3. MaxFrames \in Nat
      BY FramingServerAssumption
    <3> QED
      BY ONLY <3>1, <3>2, <3>3
  <2> QED
    BY <1>2, <2>1 DEF RecvFrame
<1>3. CASE RecvEnds(p)
  BY <1>3 DEF RecvEnds
<1>4. CASE Broadcast(p)
  <2>1. Others(p) \in Seq(Peer)
    BY OthersFacts DEF Lists
  <2> QED
    BY <1>4, <2>1 DEF Broadcast
<1>5. ASSUME NEW q \in Peer, SendMsg(p, q) PROVE TypeOK'
  <2> DEFINE x == <<p, frame[p]>>
  <2>1. x \in Frame /\ Size(x) = FrameSize[p] /\ FrameSize[p] \in Nat
    <3>1. frame[p] \in 0..MaxFrames /\ frame[p] >= 1 /\ MaxFrames \in Nat
      BY <1>5, FramingServerAssumption DEF SendMsg, At, Counts, Sending
    <3>2. frame[p] \in 1..MaxFrames
      BY ONLY <3>1
    <3>3. FrameSize[p] \in Nat
      BY FramingServerAssumption
    <3> QED
      BY ONLY <3>2, <3>3, p \in Peer DEF Frame, Size
  <2> HIDE DEF x
  <2>2. Append(m_txQueue[q], x) \in Seq(Frame)
    BY <2>1, AppendProperties
  <2>3. Bytes(Append(m_txQueue[q], x)) = m_txBytesQueued[q] + FrameSize[p]
    BY <2>1, BytesOfAppend
  <2>4. m_txBytesQueued[q] + FrameSize[p] \in 0..TX_HWM_BYTES
    <3>1. /\ m_txBytesQueued[q] \in 0..TX_HWM_BYTES /\ TX_HWM_BYTES \in Nat
          /\ m_txBytesQueued[q] + FrameSize[p] <= TX_HWM_BYTES
      BY <1>5, FramingServerAssumption DEF SendMsg, HasRoom
    <3> QED
      BY ONLY <3>1, <2>1
  <2>5. /\ m_txQueue' = [m_txQueue EXCEPT ![q] = Append(m_txQueue[q], x)]
        /\ m_txBytesQueued' = [m_txBytesQueued EXCEPT ![q] = m_txBytesQueued[q] + FrameSize[p]]
        /\ rx' = [rx EXCEPT ![p] = "notify"]
        /\ UNCHANGED <<m_active, m_socket, tx, frame, snapshot, msg, srvVars, netVars>>
    BY <1>5 DEF SendMsg, x
  <2>6. TxAccounting'
    BY <2>3, <2>5
  <2> QED
    BY <2>2, <2>4, <2>5, <2>6
<1>6. ASSUME NEW q \in Peer, SendMsgWaits(p, q) PROVE TypeOK'
  BY <1>6 DEF SendMsgWaits
<1>7. ASSUME NEW q \in Peer, SendMsgDrops(p, q) PROVE TypeOK'
  <2>1. Tail(snapshot[p]) \in Seq(Peer)
    BY <1>7, ElementsOfTail DEF SendMsgDrops, At, Lists, Handing
  <2> QED
    BY <1>7, <2>1 DEF SendMsgDrops, NextTarget
<1>8. ASSUME NEW q \in Peer, SendMsgNotify(p, q) PROVE TypeOK'
  <2>1. Tail(snapshot[p]) \in Seq(Peer)
    BY <1>8, ElementsOfTail DEF SendMsgNotify, At, Lists, Handing
  <2> QED
    BY <1>8, <2>1 DEF SendMsgNotify, NextTarget, TxWoken
<1>9. CASE SendMsgSleeps(p)
  BY <1>9 DEF SendMsgSleeps
<1>10. CASE RecvInactive(p)
  BY <1>10 DEF RecvInactive
<1>11. CASE RecvWakes(p)
  BY <1>11 DEF RecvWakes, TxWoken, RxWoken
<1> QED
  BY <1>1, <1>2, <1>3, <1>4, <1>5, <1>6, <1>7, <1>8, <1>9, <1>10, <1>11 DEF RecvLoop

LEMMA TypesSend == ASSUME TypeOK, NEW q \in Peer, SendLoop(q) PROVE TypeOK'
<1> USE DEF TypeOK, sessVars, srvVars, netVars, TxAccounting, RxWoken
<1>1. CASE SendPop(q)
  <2> DEFINE f == Head(m_txQueue[q])
             t == Tail(m_txQueue[q])
             n == IF m_txBytesQueued[q] >= Size(f) THEN m_txBytesQueued[q] - Size(f) ELSE 0
  <2>1. /\ m_txBytesQueued[q] = Size(f) + Bytes(t)
        /\ f \in Frame /\ t \in Seq(Frame) /\ Bytes(t) \in Nat /\ Size(f) \in Nat
    BY <1>1, BytesOfTail, BytesType, FrameSized DEF SendPop
  <2>2. n = Bytes(t) /\ n \in 0..TX_HWM_BYTES
    <3>1. m_txBytesQueued[q] \in 0..TX_HWM_BYTES /\ TX_HWM_BYTES \in Nat
      BY FramingServerAssumption
    <3> HIDE DEF f, t
    <3> QED
      BY ONLY <2>1, <3>1 DEF n
  <2>3. /\ msg' = [msg EXCEPT ![q] = <<f>>]
        /\ m_txQueue' = [m_txQueue EXCEPT ![q] = t]
        /\ m_txBytesQueued' = [m_txBytesQueued EXCEPT ![q] = n]
        /\ rx' = RxWoken(q)
        /\ tx' = [tx EXCEPT ![q] = "send"]
        /\ UNCHANGED <<m_active, m_socket, frame, snapshot, srvVars, netVars>>
    BY <1>1 DEF SendPop, PopWakes
  <2> HIDE DEF f, t, n
  <2>4. TxAccounting'
    BY <2>2, <2>3
  <2>5. m_txQueue' \in [Peer -> Seq(Frame)] /\ m_txBytesQueued' \in [Peer -> 0..TX_HWM_BYTES]
    BY <2>1, <2>2, <2>3
  <2>6. msg' \in [Peer -> {<<>>} \union {<<g>> : g \in Frame}]
    BY <2>1, <2>3
  <2> QED
    BY <2>3, <2>4, <2>5, <2>6
<1>2. CASE SendWaits(q)
  BY <1>2 DEF SendWaits
<1>3. CASE SendSleeps(q)
  BY <1>3 DEF SendSleeps
<1>4. CASE SendFrame(q)
  <2>1. msg[q] \in Seq(Frame) /\ Len(msg[q]) <= 1
    BY OneFrame
  <2>2. /\ wire[q] \o msg[q] \in Seq(Frame)
        /\ Len(wire[q]) \in Nat /\ Len(wire[q] \o msg[q]) = Len(wire[q]) + Len(msg[q])
        /\ Len(msg[q]) \in Nat
    BY <2>1, ConcatProperties, LenProperties
  <2>3. /\ wire' \in [Peer -> Seq(Frame)]
        /\ \A p \in Peer : Len(wire'[p]) <= WireCap
    <3>1. \/ wire' = wire
          \/ Len(wire[q]) < WireCap /\ wire' = [wire EXCEPT ![q] = wire[q] \o msg[q]]
      BY <1>4 DEF SendFrame
    <3>2. /\ wire \in [Peer -> Seq(Frame)] /\ \A p \in Peer : Len(wire[p]) <= WireCap
          /\ WireCap \in Nat
      BY FramingServerAssumption
    <3>3. Len(wire[q]) < WireCap => Len(wire[q] \o msg[q]) <= WireCap
      BY ONLY <2>1, <2>2, <3>2
    <3> DEFINE w == wire[q] \o msg[q]
    <3>4. w \in Seq(Frame) /\ (wire' = wire \/ (Len(w) <= WireCap /\ wire' = [wire EXCEPT ![q] = w]))
      BY ONLY <2>2, <3>1, <3>3
    <3> HIDE DEF w
    <3> QED
      BY ONLY <3>2, <3>4, q \in Peer
  <2> QED
    BY <1>4, <2>3 DEF SendFrame
<1>5. CASE SendFails(q)
  BY <1>5 DEF SendFails
<1>6. CASE SendInactive(q)
  BY <1>6 DEF SendInactive
<1>7. CASE SendWakes(q)
  BY <1>7 DEF SendWakes
<1> QED
  BY <1>1, <1>2, <1>3, <1>4, <1>5, <1>6, <1>7 DEF SendLoop

LEMMA OneSession == ASSUME NEW a \in {<<>>} \union {<<p>> : p \in Peer} PROVE a \in Seq(Peer)
<1>1. ASSUME NEW p \in Peer PROVE <<p>> \in Seq(Peer)
  OBVIOUS
<1> QED
  BY <1>1, EmptySeq

LEMMA TypesAccept == ASSUME TypeOK, Accepter PROVE TypeOK'
<1> USE DEF TypeOK, sessVars, threadVars, netVars, TxAccounting
<1>1. ASSUME NEW p \in Peer, Accept(p) PROVE TypeOK'
  BY <1>1 DEF Accept
<1>2. CASE PushBack
  <2>1. m_clients \o accepted \in Seq(Peer)
    BY OneSession, ConcatProperties
  <2> QED
    BY <1>2, <2>1 DEF PushBack
<1>3. CASE AcceptEnds
  BY <1>3 DEF AcceptEnds
<1> QED
  BY <1>1, <1>2, <1>3 DEF Accepter

LEMMA TypesStop == ASSUME TypeOK, IInv, StopCalled \/ Stop PROVE TypeOK'
<1> USE DEF TypeOK, sessVars, threadVars, srvVars, netVars, TxAccounting
<1>1. CASE StopCalled
  BY <1>1 DEF StopCalled
<1>2. CASE JoinAccept
  BY <1>2 DEF JoinAccept
<1>3. CASE StopNext
  BY <1>3, EmptySeq DEF StopNext
<1>4. CASE StopWakes
  BY <1>4 DEF StopWakes, TxWoken, RxWoken
<1>5. CASE StopShuts
  BY <1>5 DEF StopShuts
<1>6. CASE StopCloses
  <2>1. Head(stopping) \in Peer
    BY <1>6, HeadIsKnown DEF StopCloses
  <2>2. \/ rcvd' = rcvd
        \/ rcvd[Head(stopping)] < sent[Head(stopping)]
           /\ rcvd' = [rcvd EXCEPT ![Head(stopping)] = @ + 1]
    BY <1>6 DEF StopCloses, FrameWaits
  <2>3. rcvd' \in [Peer -> 0..MaxFrames] /\ \A p \in Peer : rcvd'[p] <= sent[p]
    <3>1. /\ rcvd \in [Peer -> 0..MaxFrames] /\ sent \in [Peer -> 0..MaxFrames]
          /\ \A p \in Peer : rcvd[p] <= sent[p]
          /\ MaxFrames \in Nat
      BY FramingServerAssumption
    <3> QED
      BY ONLY <2>1, <2>2, <3>1
  <2> QED
    BY <1>6, <2>3 DEF StopCloses
<1>7. CASE JoinRx
  BY <1>7 DEF JoinRx
<1>8. CASE JoinTx
  <2>1. Head(stopping) \in Peer /\ Tail(stopping) \in Seq(Peer)
    BY <1>8, HeadIsKnown DEF JoinTx
  <2>2. /\ m_txQueue' \in [Peer -> Seq(Frame)]
        /\ m_txBytesQueued' \in [Peer -> 0..TX_HWM_BYTES]
        /\ TxAccounting'
    <3>1. /\ m_txQueue' = [m_txQueue EXCEPT ![Head(stopping)] = <<>>]
          /\ m_txBytesQueued' = [m_txBytesQueued EXCEPT ![Head(stopping)] = 0]
      BY <1>8 DEF JoinTx
    <3>2. /\ m_txQueue \in [Peer -> Seq(Frame)] /\ m_txBytesQueued \in [Peer -> 0..TX_HWM_BYTES]
          /\ \A q \in Peer : m_txBytesQueued[q] = Bytes(m_txQueue[q])
          /\ <<>> \in Seq(Frame) /\ 0 \in 0..TX_HWM_BYTES
      BY FramingServerAssumption, EmptySeq
    <3> QED
      BY ONLY <2>1, <3>1, <3>2, BytesOfNone DEF TxAccounting
  <2> QED
    BY <1>8, <2>1, <2>2 DEF JoinTx
<1> QED
  BY <1>1, <1>2, <1>3, <1>4, <1>5, <1>6, <1>7, <1>8 DEF Stop

LEMMA TypesClients == ASSUME TypeOK, Clients PROVE TypeOK'
<1> USE DEF TypeOK, sessVars, threadVars, srvVars, TxAccounting
<1>1. ASSUME NEW p \in Peer, Connect(p) PROVE TypeOK'
  BY <1>1 DEF Connect
<1>2. ASSUME NEW p \in Peer, Talk(p) PROVE TypeOK'
  <2>1. /\ sent[p] < MaxFrames /\ sent' = [sent EXCEPT ![p] = sent[p] + 1]
        /\ UNCHANGED <<sessVars, threadVars, srvVars, peer, rcvd, wire, got>>
    BY <1>2 DEF Talk
  <2>2. MaxFrames \in Nat
    BY FramingServerAssumption
  <2>3. sent' \in [Peer -> 0..MaxFrames] /\ \A q \in Peer : rcvd[q] <= sent'[q]
    BY <2>1, <2>2
  <2> QED
    BY <2>1, <2>3
<1>3. ASSUME NEW p \in Peer, HangUp(p) PROVE TypeOK'
  <2>1. PICK s \in {"closed", "reset"} : peer' = [peer EXCEPT ![p] = s]
    BY <1>3 DEF HangUp
  <2>2. peer' \in [Peer -> {"idle", "open", "closed", "reset"}]
    BY <2>1
  <2> QED
    BY <1>3, <2>2 DEF HangUp
<1>4. ASSUME NEW p \in Peer, Listen(p) PROVE TypeOK'
  <2>1. /\ Head(wire[p]) \in Frame /\ Tail(wire[p]) \in Seq(Frame)
        /\ Len(wire[p]) \in Nat \ {0} /\ Len(Tail(wire[p])) = Len(wire[p]) - 1
    BY <1>4, HeadTailProperties, LenProperties, EmptySeq DEF Listen
  <2>2. Append(got[p], Head(wire[p])) \in Seq(Frame)
    BY <2>1, AppendProperties
  <2>3. wire' \in [Peer -> Seq(Frame)] /\ \A q \in Peer : Len(wire'[q]) <= WireCap
    <3>1. wire' = [wire EXCEPT ![p] = Tail(wire[p])]
      BY <1>4 DEF Listen
    <3>2. /\ wire \in [Peer -> Seq(Frame)] /\ \A q \in Peer : Len(wire[q]) <= WireCap
          /\ WireCap \in Nat
      BY FramingServerAssumption
    <3> QED
      BY ONLY <2>1, <3>1, <3>2
  <2>4. got' \in [Peer -> Seq(Frame)]
    BY <1>4, <2>2 DEF Listen
  <2> QED
    BY <1>4, <2>3, <2>4 DEF Listen
<1> QED
  BY <1>1, <1>2, <1>3, <1>4 DEF Clients

LEMMA TypesKept == ASSUME IInv, Flow, [Next]_vars PROVE TypeOK'
<1>1. CASE UNCHANGED vars
  BY <1>1 DEF Flow, TypeOK, TxAccounting, vars, sessVars, threadVars, srvVars, netVars
<1> QED
  BY <1>1, TypesRecv, TypesSend, TypesAccept, TypesStop, TypesClients DEF Next, Flow

-----------------------------------------------------------------------------
(* Streams: sequences of frames, and what is left of them. *)

LEMMA ConcatFacts ==
    ASSUME NEW S, NEW q \in Seq(S), NEW c \in Seq(S)
    PROVE  /\ q \o c \in Seq(S)
           /\ Len(q) \in Nat /\ Len(c) \in Nat /\ Len(q \o c) = Len(q) + Len(c)
           /\ \A i \in 1..Len(q) : (q \o c)[i] = q[i]
           /\ \A i \in 1..Len(c) : (q \o c)[Len(q) + i] = c[i]
BY ConcatProperties, LenProperties

LEMMA Assoc ==
    ASSUME NEW a \in Seq(Frame), NEW b \in Seq(Frame), NEW c \in Seq(Frame)
    PROVE  (a \o b) \o c = a \o (b \o c)
BY ConcatAssociative

LEMMA NoneMore == ASSUME NEW S, NEW a \in Seq(S) PROVE a \o <<>> = a
BY ConcatEmptySeq

LEMMA OneMore ==
    ASSUME NEW S, NEW a \in Seq(S), NEW x \in S
    PROVE  <<x>> \in Seq(S) /\ Append(a, x) \in Seq(S) /\ Append(a, x) = a \o <<x>>
<1>1. <<x>> \in Seq(S) /\ Len(<<x>>) = 1 /\ <<x>>[1] = x
  OBVIOUS
<1>2. /\ Append(a, x) \in Seq(S) /\ Len(Append(a, x)) = Len(a) + 1 /\ Len(a) \in Nat
      /\ Append(a, x)[Len(a) + 1] = x /\ \A i \in 1..Len(a) : Append(a, x)[i] = a[i]
  BY AppendProperties, LenProperties
<1>3. /\ a \o <<x>> \in Seq(S) /\ Len(a \o <<x>>) = Len(a) + 1
      /\ \A i \in 1..Len(a) : (a \o <<x>>)[i] = a[i]
      /\ (a \o <<x>>)[Len(a) + 1] = x
  BY <1>1, ConcatFacts
<1>4. Append(a, x) = a \o <<x>>
  <2> DEFINE s == Append(a, x)
             u == a \o <<x>>
  <2>1. /\ s \in Seq(S) /\ u \in Seq(S) /\ Len(s) = Len(u)
        /\ \A i \in 1..Len(s) : s[i] = u[i]
    BY <1>2, <1>3
  <2> HIDE DEF s, u
  <2>2. s = u
    BY ONLY <2>1, SeqEqual
  <2> QED
    BY <2>2 DEF s, u
<1> QED
  BY <1>1, <1>2, <1>4

\* The head moves from the front of one sequence to the end of another.
LEMMA HeadMoves ==
    ASSUME NEW S, NEW q \in Seq(S), q # <<>>
    PROVE  /\ Head(q) \in S /\ Tail(q) \in Seq(S) /\ <<Head(q)>> \in Seq(S)
           /\ <<Head(q)>> \o Tail(q) = q
<1>1. /\ Head(q) \in S /\ Tail(q) \in Seq(S) /\ <<Head(q)>> \in Seq(S)
      /\ Len(q) \in Nat \ {0} /\ Len(Tail(q)) = Len(q) - 1
      /\ Head(q) = q[1] /\ \A i \in 1..Len(q) - 1 : Tail(q)[i] = q[i + 1]
  BY HeadTailProperties, LenProperties, EmptySeq
<1>2. <<Head(q)>> \o Tail(q) = q
  <2> DEFINE c == <<Head(q)>> \o Tail(q)
  <2>1. c \in Seq(S) /\ Len(c) = Len(q)
    BY <1>1, ConcatFacts
  <2>2. ASSUME NEW i \in 1..Len(q) PROVE c[i] = q[i]
    <3>1. CASE i = 1
      BY <3>1, <1>1, ConcatFacts
    <3>2. CASE i # 1
      <4>1. i - 1 \in 1..Len(Tail(q)) /\ i = Len(<<Head(q)>>) + (i - 1)
        BY <1>1, <3>2
      <4>2. c[i] = Tail(q)[i - 1]
        BY <1>1, <4>1, ConcatFacts
      <4> QED
        BY <1>1, <4>1, <4>2
    <3> QED
      BY <3>1, <3>2
  <2> QED
    BY <2>1, <2>2, SeqEqual
<1> QED
  BY <1>1, <1>2

\* t is what is left of s: its frames are at the places f[1] < f[2] < ... of s.
Part(t, s) ==
    \E f : /\ \A i \in 1..Len(t) : f[i] \in 1..Len(s) /\ t[i] = s[f[i]]
           /\ \A i, j \in 1..Len(t) : i < j => f[i] < f[j]

LEMMA PartSame == ASSUME NEW s \in Seq(Frame) PROVE Part(s, s)
<1> DEFINE f == [i \in 1..Len(s) |-> i]
<1>1. /\ \A i \in 1..Len(s) : f[i] \in 1..Len(s) /\ s[i] = s[f[i]]
      /\ \A i, j \in 1..Len(s) : i < j => f[i] < f[j]
  OBVIOUS
<1> HIDE DEF f
<1> QED
  BY <1>1 DEF Part

LEMMA PartGap ==
    ASSUME NEW a \in Seq(Frame), NEW m \in Seq(Frame), NEW b \in Seq(Frame)
    PROVE  Part(a \o b, (a \o m) \o b)
<1> DEFINE s == (a \o m) \o b
           u == a \o b
           f == [i \in 1..Len(u) |-> IF i <= Len(a) THEN i ELSE i + Len(m)]
<1>1. /\ Len(a) \in Nat /\ Len(m) \in Nat /\ Len(b) \in Nat
      /\ Len(u) = Len(a) + Len(b) /\ Len(s) = Len(a) + Len(m) + Len(b)
  BY ConcatFacts
<1>2. ASSUME NEW i \in 1..Len(u) PROVE f[i] \in 1..Len(s) /\ u[i] = s[f[i]]
  <2>1. CASE i <= Len(a)
    <3>1. u[i] = a[i] /\ (a \o m)[i] = a[i]
      BY <1>1, <2>1, ConcatFacts
    <3>2. s[i] = (a \o m)[i]
      BY <1>1, <2>1, ConcatFacts
    <3> QED
      BY <1>1, <2>1, <3>1, <3>2
  <2>2. CASE i > Len(a)
    <3> DEFINE k == i - Len(a)
    <3>1. k \in 1..Len(b) /\ i = Len(a) + k /\ f[i] = Len(a \o m) + k
      BY <1>1, <2>2, ConcatFacts
    <3>2. u[i] = b[k] /\ s[f[i]] = b[k]
      BY <3>1, ConcatFacts
    <3> QED
      BY <1>1, <3>1, <3>2, ConcatFacts
  <2> QED
    BY <1>1, <2>1, <2>2
<1>3. \A i, j \in 1..Len(u) : i < j => f[i] < f[j]
  BY <1>1
<1> HIDE DEF s, u, f
<1>4. Part(u, s)
  BY <1>2, <1>3 DEF Part
<1> QED
  BY <1>4 DEF s, u

LEMMA PartFacts ==
    ASSUME NEW t \in Seq(Frame), NEW s \in Seq(Frame), Part(t, s)
    PROVE  /\ Elements(t) \subseteq Elements(s)
           /\ Ascending(s) => Ascending(t)
           /\ s = <<>> => t = <<>>
<1>1. PICK f : /\ \A i \in 1..Len(t) : f[i] \in 1..Len(s) /\ t[i] = s[f[i]]
               /\ \A i, j \in 1..Len(t) : i < j => f[i] < f[j]
  BY DEF Part
<1>2. DOMAIN s = 1..Len(s) /\ DOMAIN t = 1..Len(t) /\ Len(t) \in Nat /\ Len(s) \in Nat
  BY LenProperties
<1>3. Elements(t) \subseteq Elements(s)
  <2>1. ASSUME NEW x \in Elements(t) PROVE x \in Elements(s)
    <3>1. PICK i \in 1..Len(t) : t[i] = x
      BY <1>2, <2>1 DEF Elements
    <3>2. f[i] \in DOMAIN s /\ s[f[i]] = x
      BY <1>1, <1>2, <3>1
    <3> QED
      BY <3>2 DEF Elements
  <2> QED
    BY <2>1
<1>4. Ascending(s) => Ascending(t)
  <2>1. ASSUME Ascending(s), NEW i \in 1..Len(t), NEW j \in 1..Len(t), i < j, t[i][1] = t[j][1]
        PROVE  t[i][2] < t[j][2]
    <3>1. /\ f[i] \in 1..Len(s) /\ f[j] \in 1..Len(s) /\ f[i] < f[j]
          /\ t[i] = s[f[i]] /\ t[j] = s[f[j]]
      BY <1>1, <2>1
    <3> QED
      BY <2>1, <3>1 DEF Ascending
  <2> QED
    BY <2>1 DEF Ascending
<1>5. s = <<>> => t = <<>>
  <2> SUFFICES ASSUME s = <<>> PROVE t = <<>>
    OBVIOUS
  <2>1. ~ (1 \in 1..Len(t))
    BY <1>1, EmptySeq
  <2>2. Len(t) = 0
    BY <1>2, <2>1
  <2> QED
    BY <2>2, EmptySeq
<1> QED
  BY <1>3, <1>4, <1>5

LEMMA StreamType ==
    ASSUME TypeOK, NEW q \in Peer
    PROVE  /\ got[q] \in Seq(Frame) /\ wire[q] \in Seq(Frame)
           /\ msg[q] \in Seq(Frame) /\ m_txQueue[q] \in Seq(Frame)
           /\ got[q] \o wire[q] \in Seq(Frame)
           /\ (got[q] \o wire[q]) \o msg[q] \in Seq(Frame)
           /\ Stream(q) \in Seq(Frame)
<1>1. /\ got[q] \in Seq(Frame) /\ wire[q] \in Seq(Frame)
      /\ msg[q] \in Seq(Frame) /\ m_txQueue[q] \in Seq(Frame)
  BY OneFrame DEF TypeOK
<1>2. got[q] \o wire[q] \in Seq(Frame)
  BY <1>1, ConcatFacts
<1>3. (got[q] \o wire[q]) \o msg[q] \in Seq(Frame)
  BY <1>1, <1>2, ConcatFacts
<1>4. Stream(q) \in Seq(Frame)
  BY <1>1, <1>3, ConcatFacts DEF Stream
<1> QED
  BY <1>1, <1>2, <1>3, <1>4

\* A step that leaves the four parts of the stream of q alone.
Still(q) == UNCHANGED <<got[q], wire[q], msg[q], m_txQueue[q]>>

LEMMA StillKeeps == ASSUME NEW q \in Peer, Still(q) PROVE Stream(q)' = Stream(q)
BY DEF Still, Stream

LEMMA PopKeeps ==
    ASSUME TypeOK, NEW q \in Peer, msg[q] = <<>>, m_txQueue[q] # <<>>,
           got'[q] = got[q], wire'[q] = wire[q],
           msg'[q] = <<Head(m_txQueue[q])>>, m_txQueue'[q] = Tail(m_txQueue[q])
    PROVE  Stream(q)' = Stream(q)
<1> DEFINE a == got[q] \o wire[q]
           h == <<Head(m_txQueue[q])>>
           t == Tail(m_txQueue[q])
<1>1. a \in Seq(Frame)
  BY StreamType
<1>2. h \in Seq(Frame) /\ t \in Seq(Frame) /\ h \o t = m_txQueue[q]
  BY StreamType, HeadMoves
<1>3. Stream(q)' = (a \o h) \o t /\ Stream(q) = (a \o <<>>) \o m_txQueue[q]
  BY DEF Stream
<1> HIDE DEF a, h, t
<1>4. a \o <<>> = a
  BY <1>1, NoneMore
<1>5. (a \o h) \o t = a \o (h \o t)
  BY ONLY <1>1, <1>2, Assoc
<1> QED
  BY <1>2, <1>3, <1>4, <1>5

LEMMA SentKeeps ==
    ASSUME TypeOK, NEW q \in Peer,
           got'[q] = got[q], wire'[q] = wire[q] \o msg[q],
           msg'[q] = <<>>, m_txQueue'[q] = m_txQueue[q]
    PROVE  Stream(q)' = Stream(q)
<1>1. Stream(q)' = ((got[q] \o (wire[q] \o msg[q])) \o <<>>) \o m_txQueue[q]
  BY DEF Stream
<1>2. (got[q] \o wire[q]) \o msg[q] = got[q] \o (wire[q] \o msg[q])
  <2>1. got[q] \in Seq(Frame) /\ wire[q] \in Seq(Frame) /\ msg[q] \in Seq(Frame)
    BY StreamType
  <2> QED
    BY ONLY <2>1, Assoc
<1>3. (got[q] \o (wire[q] \o msg[q])) \o <<>> = got[q] \o (wire[q] \o msg[q])
  BY <1>2, StreamType, NoneMore
<1> QED
  BY <1>1, <1>2, <1>3 DEF Stream

LEMMA ReadKeeps ==
    ASSUME TypeOK, NEW q \in Peer, wire[q] # <<>>,
           got'[q] = Append(got[q], Head(wire[q])), wire'[q] = Tail(wire[q]),
           msg'[q] = msg[q], m_txQueue'[q] = m_txQueue[q]
    PROVE  Stream(q)' = Stream(q)
<1> DEFINE h == <<Head(wire[q])>>
           t == Tail(wire[q])
<1>1. h \in Seq(Frame) /\ t \in Seq(Frame) /\ h \o t = wire[q] /\ Head(wire[q]) \in Frame
  BY StreamType, HeadMoves
<1>2. got'[q] = got[q] \o h
  BY <1>1, StreamType, OneMore
<1>3. Stream(q)' = ((got'[q] \o t) \o msg[q]) \o m_txQueue[q]
  BY DEF Stream
<1> HIDE DEF h, t
<1>4. (got[q] \o h) \o t = got[q] \o wire[q]
  <2>1. got[q] \in Seq(Frame)
    BY StreamType
  <2>2. (got[q] \o h) \o t = got[q] \o (h \o t)
    BY ONLY <1>1, <2>1, Assoc
  <2> QED
    BY <1>1, <2>2
<1> QED
  BY <1>2, <1>3, <1>4 DEF Stream

LEMMA QueueGrows ==
    ASSUME TypeOK, NEW q \in Peer, NEW x \in Frame,
           got'[q] = got[q], wire'[q] = wire[q], msg'[q] = msg[q],
           m_txQueue'[q] = Append(m_txQueue[q], x)
    PROVE  Stream(q)' = Append(Stream(q), x)
<1> DEFINE a == (got[q] \o wire[q]) \o msg[q]
<1>1. a \in Seq(Frame) /\ m_txQueue[q] \in Seq(Frame) /\ Stream(q) \in Seq(Frame)
  BY StreamType
<1>2. Stream(q)' = a \o Append(m_txQueue[q], x) /\ Stream(q) = a \o m_txQueue[q]
  BY DEF Stream
<1> HIDE DEF a
<1>3. Append(m_txQueue[q], x) = m_txQueue[q] \o <<x>> /\ <<x>> \in Seq(Frame)
  BY <1>1, OneMore
<1>4. Append(Stream(q), x) = Stream(q) \o <<x>>
  BY <1>1, OneMore
<1>5. (a \o m_txQueue[q]) \o <<x>> = a \o (m_txQueue[q] \o <<x>>)
  BY ONLY <1>1, <1>3, Assoc
<1> QED
  BY <1>2, <1>3, <1>4, <1>5

LEMMA LossLeaves ==
    ASSUME TypeOK, NEW q \in Peer, got'[q] = got[q], wire'[q] = wire[q],
           \/ msg'[q] = <<>> /\ m_txQueue'[q] = m_txQueue[q]
           \/ msg'[q] = msg[q] /\ m_txQueue'[q] = <<>>
    PROVE  Part(Stream(q)', Stream(q))
<1> DEFINE a == got[q] \o wire[q]
           m == msg[q]
           b == m_txQueue[q]
<1>1. a \in Seq(Frame) /\ m \in Seq(Frame) /\ b \in Seq(Frame) /\ a \o m \in Seq(Frame)
  BY StreamType
<1>2. Stream(q) = (a \o m) \o b /\ Stream(q)' = (a \o msg'[q]) \o m_txQueue'[q]
  BY DEF Stream
<1>3. \/ msg'[q] = <<>> /\ m_txQueue'[q] = b
      \/ msg'[q] = m /\ m_txQueue'[q] = <<>>
  OBVIOUS
<1> HIDE DEF a, m, b
<1>4. a \o <<>> = a /\ (a \o m) \o <<>> = a \o m
  BY <1>1, NoneMore
<1>5. CASE msg'[q] = <<>> /\ m_txQueue'[q] = b
  <2>1. Part(a \o b, (a \o m) \o b)
    BY <1>1, PartGap
  <2> QED
    BY <1>2, <1>4, <1>5, <2>1
<1>6. CASE msg'[q] = m /\ m_txQueue'[q] = <<>>
  <2>1. <<>> \in Seq(Frame)
    BY EmptySeq
  <2>2. Part((a \o m) \o <<>>, ((a \o m) \o b) \o <<>>)
    BY <1>1, <2>1, PartGap
  <2>3. (a \o m) \o b \in Seq(Frame)
    BY <1>1, ConcatFacts
  <2>4. ((a \o m) \o b) \o <<>> = (a \o m) \o b
    BY <2>3, NoneMore
  <2> QED
    BY <1>2, <1>6, <2>2, <2>4
<1> QED
  BY <1>3, <1>5, <1>6

-----------------------------------------------------------------------------
(* Most steps put no frame into a stream: all but five. *)

Waiting == {"send", "block", "asleep"}

\* What such a step may do to the sessions and to the clients.
Mild ==
    /\ UNCHANGED <<snapshot, frame>>
    /\ \A p \in Peer :
         /\ rx'[p] = "none" <=> rx[p] = "none"
         /\ \/ rx'[p] = rx[p]
            \/ rx[p] \in Waiting /\ rx'[p] \in Waiting
            \/ rx[p] \notin Sending /\ rx'[p] \notin Sending
         /\ m_active'[p] = m_active[p] \/ m_active'[p] = FALSE
         /\ Stands(p)' => Stands(p)
         /\ m_socket'[p] = "open" => m_socket[p] = "open"
         /\ peer'[p] = "idle" => peer[p] = "idle"
         /\ rcvd'[p] >= rcvd[p]
         /\ m_socket'[p] # "closed" => m_socket[p] # "closed" /\ rcvd'[p] = rcvd[p]
         /\ msg'[p] = <<>> <=> tx'[p] # "send"

\* To the server's list.
Listed ==
    /\ Elements(accepted') \subseteq Elements(accepted)
    /\ NoDup(m_clients')
    /\ Elements(m_clients') \intersect Elements(accepted') = {}

\* No frame is lost behind another one of the same client.
Follows(q) ==
    \A s \in Peer : \A j, k \in 1..MaxFrames :
        j < k /\ Has(q, s, j)' /\ Has(q, s, k) => Has(q, s, k)'

\* To the streams: frames are lost on connections that do not stand, or are empty
\* and refused.
Drains ==
    \A p \in Peer : Part(Stream(p)', Stream(p)) /\ (Stands(p)' => Follows(p))

LEMMA StreamTypeNext == ASSUME TypeOK', NEW q \in Peer PROVE Stream(q)' \in Seq(Frame)
<1>1. /\ got'[q] \in Seq(Frame) /\ wire'[q] \in Seq(Frame)
      /\ msg'[q] \in Seq(Frame) /\ m_txQueue'[q] \in Seq(Frame)
  BY OneFrame DEF TypeOK
<1>2. got'[q] \o wire'[q] \in Seq(Frame)
  BY <1>1, ConcatFacts
<1>3. (got'[q] \o wire'[q]) \o msg'[q] \in Seq(Frame)
  BY <1>1, <1>2, ConcatFacts
<1> QED
  BY <1>1, <1>3, ConcatFacts DEF Stream

LEMMA Drained ==
    ASSUME TypeOK, TypeOK', Drains, NEW q \in Peer
    PROVE  /\ Elements(Stream(q)') \subseteq Elements(Stream(q))
           /\ Ascending(Stream(q)) => Ascending(Stream(q)')
           /\ Stream(q) = <<>> => Stream(q)' = <<>>
<1>1. Stream(q) \in Seq(Frame)
  BY StreamType
<1>2. Stream(q)' \in Seq(Frame)
  BY StreamTypeNext
<1> QED
  BY <1>1, <1>2, PartFacts DEF Drains

LEMMA SnapshotPeers == ASSUME TypeOK, NEW p \in Peer, NEW q \in Elements(snapshot[p]) PROVE q \in Peer
<1>1. snapshot[p] \in Seq(Peer)
  BY DEF TypeOK
<1> QED
  BY <1>1, ElementOfSeq, LenProperties DEF Elements

LEMMA MildKeeps == ASSUME Flow, TypeOK', Mild, Listed, Drains, Stops' PROVE Flow'
<1> DEFINE E(q) == Elements(Stream(q))
<1>1. ASSUME NEW q \in Peer
      PROVE  /\ E(q)' \subseteq E(q) /\ (Stands(q)' => Follows(q))
             /\ Ascending(Stream(q)')
             /\ Stream(q) = <<>> => Stream(q)' = <<>>
  <2>1. Ascending(Stream(q)) /\ TypeOK
    BY DEF Flow, Rising
  <2> QED
    BY <2>1, Drained DEF Drains
<1>2. ASSUME NEW s \in Peer
      PROVE  /\ rx'[s] \in Sending <=> rx[s] \in Sending
             /\ rx'[s] \in Handing => rx[s] \in Handing
             /\ Relayed(s)' = Relayed(s)
             /\ \A q \in Peer : Coming(s, q)' <=> Coming(s, q)
  <2>1. \/ rx'[s] = rx[s]
        \/ rx[s] \in Waiting /\ rx'[s] \in Waiting
        \/ rx[s] \notin Sending /\ rx'[s] \notin Sending
    BY DEF Mild
  <2>2. UNCHANGED <<snapshot, frame>>
    BY DEF Mild
  <2> QED
    BY <2>1, <2>2 DEF Waiting, Sending, Handing, Relayed, Coming
<1>3. Lists'
  <2>1. Lists /\ TypeOK
    BY DEF Flow
  <2>2. \A p \in Peer : \A q \in Elements(snapshot[p]) : q \in Peer
    BY <2>1, SnapshotPeers
  <2> QED
    BY <1>2, <2>1, <2>2 DEF Lists, Listed, Mild
<1>4. Hands'
  BY <1>1 DEF Flow, Hands, Mild, Listed
<1>5. Counts'
  <2>1. ASSUME NEW s \in Peer
        PROVE  /\ frame'[s] <= rcvd'[s]
               /\ m_socket'[s] # "closed" => frame'[s] = rcvd'[s]
    <3>1. /\ frame[s] \in Int /\ rcvd[s] \in Int /\ rcvd'[s] \in Int /\ frame'[s] = frame[s]
          /\ frame[s] <= rcvd[s] /\ rcvd'[s] >= rcvd[s]
      BY DEF Flow, Counts, Mild, TypeOK
    <3>2. m_socket'[s] # "closed" => frame[s] = rcvd[s] /\ rcvd'[s] = rcvd[s]
      BY DEF Flow, Counts, Mild
    <3> QED
      BY ONLY <3>1, <3>2
  <2> QED
    BY <1>2, <2>1 DEF Flow, Counts, Mild
<1>6. Below'
  BY <1>1, <1>2 DEF Flow, Below, Has, Mild
<1>7. Rising'
  BY <1>1 DEF Rising
<1>8. Served'
  <2> SUFFICES ASSUME NEW q \in Peer, NEW s \in Peer, m_active'[q], Stands(q)', rx'[s] \in Sending,
                      NEW k \in 1..MaxFrames, Has(q, s, k)'
               PROVE  Coming(s, q)' \/ Has(q, s, frame[s])'
    BY DEF Served, Mild
  <2>1. m_active[q] /\ Stands(q) /\ rx[s] \in Sending /\ Has(q, s, k)
    BY <1>1, <1>2 DEF Mild, Has
  <2>2. Coming(s, q) \/ Has(q, s, frame[s])
    BY <2>1 DEF Flow, Served
  <2>3. CASE Has(q, s, frame[s])
    <3>1. k <= frame[s] /\ frame[s] \in 0..MaxFrames /\ MaxFrames \in Nat
      BY <2>1, FramingServerAssumption DEF Flow, Below, TypeOK
    <3>2. k = frame[s] \/ (k < frame[s] /\ frame[s] \in 1..MaxFrames)
      BY ONLY <3>1, k \in 1..MaxFrames
    <3>3. CASE k = frame[s]
      BY <1>2, <3>3 DEF Mild
    <3>4. CASE k < frame[s] /\ frame[s] \in 1..MaxFrames
      <4>1. Follows(q)
        BY <1>1
      <4>2. Has(q, s, frame[s])'
        BY <2>3, <3>4, <4>1 DEF Follows, Mild
      <4> QED
        BY <4>2
    <3> QED
      BY <3>2, <3>3, <3>4
  <2> QED
    BY <1>2, <2>2, <2>3
<1>9. NoGap'
  <2> SUFFICES ASSUME NEW q \in Peer, NEW s \in Peer, Stands(q)', m_socket'[s] = "open",
                      NEW k \in 1..MaxFrames, NEW m \in 1..MaxFrames, k < m, Has(q, s, k)',
                      Has(q, s, m)' \/ (m_active'[q] /\ m <= Relayed(s)')
               PROVE  Has(q, s, k + 1)'
    BY DEF NoGap, Stands, Has
  <2>1. /\ Stands(q) /\ m_socket[s] = "open" /\ Has(q, s, k)
        /\ Has(q, s, m) \/ (m_active[q] /\ m <= Relayed(s))
    BY <1>1, <1>2 DEF Mild, Has
  <2>2. Has(q, s, k + 1)
    BY <2>1 DEF Flow, NoGap, Has, Stands
  <2>3. k + 1 \in 1..MaxFrames /\ k < k + 1
    BY FramingServerAssumption
  <2> QED
    BY <1>1, <2>2, <2>3 DEF Follows
<1> QED
  BY <1>3, <1>4, <1>5, <1>6, <1>7, <1>8, <1>9 DEF Flow

LEMMA SameFollows == ASSUME NEW q \in Peer, Stream(q)' = Stream(q) PROVE Follows(q)
BY DEF Follows, Has

LEMMA OneDrains ==
    ASSUME TypeOK, NEW q \in Peer, \A p \in Peer : p # q => Still(p),
           Part(Stream(q)', Stream(q)), Stands(q)' => Follows(q)
    PROVE  Drains
<1>1. ASSUME NEW p \in Peer, p # q PROVE Part(Stream(p)', Stream(p)) /\ Follows(p)
  <2>1. Stream(p)' = Stream(p)
    BY <1>1, StillKeeps
  <2> QED
    BY <2>1, StreamType, PartSame, SameFollows
<1> QED
  BY <1>1 DEF Drains

LEMMA StillDrains ==
    ASSUME TypeOK, NEW q \in Peer, \A p \in Peer : p # q => Still(p),
           Part(Stream(q)', Stream(q)), Stands(q)' => Stream(q)' = Stream(q)
    PROVE  Drains
BY OneDrains, SameFollows

LEMMA AllStill ==
    ASSUME TypeOK, UNCHANGED <<got, wire, msg, m_txQueue>>
    PROVE  Drains
<1>1. ASSUME NEW p \in Peer PROVE Part(Stream(p)', Stream(p)) /\ Follows(p)
  <2>1. Stream(p)' = Stream(p)
    BY StillKeeps DEF Still
  <2> QED
    BY <2>1, StreamType, PartSame, SameFollows
<1> QED
  BY <1>1 DEF Drains

\* Nothing is listed or unlisted.
\* No socket is closed, and Stop does not go on.
LEMMA SameStops == ASSUME Flow, UNCHANGED <<m_socket, owner, stopping>> PROVE Stops'
BY DEF Flow, Stops

LEMMA SameList == ASSUME Flow, UNCHANGED <<m_clients, accepted>> PROVE Listed
BY DEF Flow, Lists, Listed

LEMMA NoDupTail ==
    ASSUME NEW s \in Seq(Peer), s # <<>>, NoDup(s)
    PROVE  /\ NoDup(Tail(s))
           /\ Elements(Tail(s)) = Elements(s) \ {Head(s)}
<1>1. /\ Tail(s) \in Seq(Peer) /\ Len(s) \in Nat \ {0} /\ Head(s) = s[1]
      /\ Len(Tail(s)) = Len(s) - 1
      /\ \A i \in 1..Len(Tail(s)) : Tail(s)[i] = s[i + 1]
  BY HeadTailProperties, LenProperties, EmptySeq
<1>2. ASSUME NEW i \in 1..Len(Tail(s)), NEW j \in 1..Len(Tail(s)), Tail(s)[i] = Tail(s)[j] PROVE i = j
  <2>1. i + 1 \in 1..Len(s) /\ j + 1 \in 1..Len(s) /\ s[i + 1] = s[j + 1]
    BY <1>1, <1>2
  <2> QED
    BY <2>1 DEF NoDup
<1>3. Head(s) \notin Elements(Tail(s))
  <2>1. ASSUME NEW i \in DOMAIN Tail(s), Tail(s)[i] = Head(s) PROVE FALSE
    <3>1. i \in 1..Len(Tail(s))
      BY <1>1, LenProperties
    <3>2. i + 1 \in 1..Len(s) /\ 1 \in 1..Len(s) /\ s[i + 1] = s[1] /\ i + 1 # 1
      BY <1>1, <2>1, <3>1
    <3> QED
      BY <3>2 DEF NoDup
  <2> QED
    BY <2>1 DEF Elements
<1>4. Elements(s) = {Head(s)} \union Elements(Tail(s))
  BY ElementsOfTail
<1> QED
  BY <1>2, <1>3, <1>4 DEF NoDup

-----------------------------------------------------------------------------
(* The threads of a session. *)

\* A step that moves the threads between labels, and may clear m_active.
LEMMA MildMessage ==
    ASSUME Flow, UNCHANGED <<snapshot, frame, m_socket, peer, rcvd>>,
           NEW c, m_active' = m_active \/ m_active' = [m_active EXCEPT ![c] = FALSE],
           \A p \in Peer :
             /\ \/ rx'[p] = rx[p]
                \/ rx[p] \in Waiting /\ rx'[p] \in Waiting
                \/ /\ rx[p] \in {"check", "recv", "inactive", "wake"}
                   /\ rx'[p] \in {"recv", "inactive", "wake", "done"}
             /\ msg'[p] = <<>> <=> tx'[p] # "send"
    PROVE  Mild
<1>1. \A p \in Peer : rx'[p] = "none" <=> rx[p] = "none"
  BY DEF Waiting
<1>2. \A p \in Peer : \/ rx'[p] = rx[p]
                      \/ rx[p] \in Waiting /\ rx'[p] \in Waiting
                      \/ rx[p] \notin Sending /\ rx'[p] \notin Sending
  BY DEF Sending
<1>3. \A p \in Peer : m_active'[p] = m_active[p] \/ m_active'[p] = FALSE
  BY DEF Flow, TypeOK
<1>4. \A p \in Peer : (Stands(p)' => Stands(p)) /\ rcvd'[p] >= rcvd[p]
  <2>1. \A p \in Peer : rcvd[p] \in Int
    BY DEF Flow, TypeOK
  <2> QED
    BY <2>1 DEF Stands
<1> QED
  BY <1>1, <1>2, <1>3, <1>4 DEF Mild

LEMMA MildThreads ==
    ASSUME Flow, UNCHANGED <<snapshot, frame, m_socket, peer, rcvd, msg>>,
           NEW c, m_active' = m_active \/ m_active' = [m_active EXCEPT ![c] = FALSE],
           \A p \in Peer :
             /\ \/ rx'[p] = rx[p]
                \/ rx[p] \in Waiting /\ rx'[p] \in Waiting
                \/ /\ rx[p] \in {"check", "recv", "inactive", "wake"}
                   /\ rx'[p] \in {"recv", "inactive", "wake", "done"}
             /\ tx'[p] = "send" <=> tx[p] = "send"
    PROVE  Mild
<1>1. \A p \in Peer : msg'[p] = <<>> <=> tx'[p] # "send"
  BY DEF Flow, Hands
<1> QED
  BY <1>1, MildMessage

\* A step that leaves the threads alone.
LEMMA MildNet ==
    ASSUME Flow, UNCHANGED <<threadVars, m_active>>,
           \A p \in Peer :
             /\ Stands(p)' => Stands(p)
             /\ m_socket'[p] = "open" => m_socket[p] = "open"
             /\ peer'[p] = "idle" => peer[p] = "idle"
             /\ rcvd'[p] >= rcvd[p]
             /\ m_socket'[p] # "closed" => m_socket[p] # "closed" /\ rcvd'[p] = rcvd[p]
    PROVE  Mild
BY DEF threadVars, Mild, Flow, Hands

LEMMA NetType ==
    ASSUME Flow
    PROVE  /\ DOMAIN m_socket = Peer /\ DOMAIN peer = Peer /\ rcvd \in [Peer -> Int]
           /\ \A p \in Peer : rcvd[p] >= rcvd[p] /\ rcvd[p] + 1 >= rcvd[p]
<1>1. DOMAIN m_socket = Peer /\ DOMAIN peer = Peer /\ rcvd \in [Peer -> Int]
  BY DEF Flow, TypeOK
<1> QED
  BY <1>1

LEMMA ThreadType == ASSUME Flow PROVE DOMAIN rx = Peer /\ DOMAIN tx = Peer /\ DOMAIN msg = Peer
BY DEF Flow, TypeOK

LEMMA MildRecv ==
    ASSUME Flow, TypeOK', NEW p \in Peer,
           \/ RecvCheck(p) \/ RecvEnds(p) \/ SendMsgSleeps(p) \/ RecvInactive(p) \/ RecvWakes(p)
           \/ \E q \in Peer : SendMsgWaits(p, q)
    PROVE  Flow'
<1>0. Flow
  OBVIOUS
<1> USE DEF sessVars, srvVars, netVars
<1>1. UNCHANGED <<m_clients, accepted, got, wire, msg, m_txQueue>>
  BY DEF RecvCheck, RecvEnds, SendMsgSleeps, RecvInactive, RecvWakes, SendMsgWaits
<1>2. Mild
  <2>1. /\ UNCHANGED <<snapshot, frame, m_socket, peer, rcvd, msg>>
        /\ m_active' = m_active \/ m_active' = [m_active EXCEPT ![p] = FALSE]
    BY DEF RecvCheck, RecvEnds, SendMsgSleeps, RecvInactive, RecvWakes, SendMsgWaits
  <2>2. CASE RecvWakes(p)
    <3>1. /\ rx[p] = "wake"
          /\ \A x \in Peer : /\ rx'[x] = IF x = p THEN "done" ELSE IF At(x, p, "asleep") THEN "send" ELSE rx[x]
                             /\ tx'[x] = IF x = p /\ tx[p] = "asleep" THEN "lock" ELSE tx[x]
      BY <2>2, ThreadType DEF RecvWakes, TxWoken, RxWoken
    <3> QED
      BY ONLY <1>0, <2>1, <3>1, MildThreads DEF At, Waiting
  <2>3. CASE ~RecvWakes(p)
    <3>1. /\ tx' = tx
          /\ \/ rx[p] = "check" /\ rx' = [rx EXCEPT ![p] = "recv"]
             \/ rx[p] \in {"check", "recv"} /\ rx' = [rx EXCEPT ![p] = "inactive"]
             \/ rx[p] = "block" /\ rx' = [rx EXCEPT ![p] = "asleep"]
             \/ rx[p] = "send" /\ rx' = [rx EXCEPT ![p] = "block"]
             \/ rx[p] = "inactive" /\ rx' = [rx EXCEPT ![p] = "wake"]
      BY <2>3 DEF RecvCheck, RecvEnds, SendMsgSleeps, RecvInactive, SendMsgWaits, At
    <3>2. \A x \in Peer : /\ x # p => rx'[x] = rx[x]
                          /\ \/ rx[p] \in Waiting /\ rx'[p] \in Waiting
                             \/ /\ rx[p] \in {"check", "recv", "inactive", "wake"}
                                /\ rx'[p] \in {"recv", "inactive", "wake", "done"}
      BY <3>1, ThreadType DEF Waiting
    <3> QED
      BY ONLY <1>0, <2>1, <3>1, <3>2, MildThreads
  <2> QED
    BY <2>2, <2>3
<1>3. Drains /\ Listed
  BY <1>1, AllStill, SameList DEF Flow
<1>4. Stops'
  BY SameStops DEF RecvCheck, RecvEnds, SendMsgSleeps, RecvInactive, RecvWakes, SendMsgWaits
<1> QED
  BY <1>2, <1>3, <1>4, MildKeeps

\* What has been sent is not empty.
Full(s) == \A i \in 1..Len(s) : Size(s[i]) # 0

Solid == \A q \in Peer : Full(got[q]) /\ Full(wire[q])

LEMMA FullBoth ==
    ASSUME NEW s \in Seq(Frame), NEW t \in Seq(Frame), Full(s), Full(t)
    PROVE  Full(s \o t)
<1>1. Len(s) \in Nat /\ Len(t) \in Nat /\ Len(s \o t) = Len(s) + Len(t)
  BY ConcatFacts
<1> SUFFICES ASSUME NEW i \in 1..Len(s \o t) PROVE Size((s \o t)[i]) # 0
  BY DEF Full
<1>2. CASE i \in 1..Len(s)
  BY <1>2, ConcatFacts DEF Full
<1>3. CASE i \notin 1..Len(s)
  <2>1. i - Len(s) \in 1..Len(t) /\ i = Len(s) + (i - Len(s))
    BY <1>1, <1>3
  <2>2. (s \o t)[i] = t[i - Len(s)]
    BY <2>1, ConcatFacts
  <2> QED
    BY <2>1, <2>2 DEF Full
<1> QED
  BY <1>2, <1>3

LEMMA FullEnds ==
    ASSUME NEW s \in Seq(Frame), s # <<>>, Full(s)
    PROVE  Full(Tail(s)) /\ Full(<<Head(s)>>)
<1>1. /\ Len(s) \in Nat \ {0} /\ Head(s) = s[1] /\ Len(Tail(s)) = Len(s) - 1
      /\ \A i \in 1..Len(Tail(s)) : Tail(s)[i] = s[i + 1]
  BY HeadTailProperties, LenProperties, EmptySeq
<1>2. \A i \in 1..Len(Tail(s)) : i + 1 \in 1..Len(s)
  BY <1>1
<1> QED
  BY <1>1, <1>2 DEF Full

LEMMA SolidKept == ASSUME TypeOK, Solid, [Next]_vars PROVE Solid'
<1>1. ASSUME NEW q \in Peer, SendFrame(q) PROVE Solid'
  <2>1. /\ got' = got /\ Size(Head(msg[q])) # 0
        /\ wire' = wire \/ wire' = [wire EXCEPT ![q] = wire[q] \o msg[q]]
    BY <1>1 DEF SendFrame, Empty
  <2>2. wire \in [Peer -> Seq(Frame)] /\ msg[q] \in Seq(Frame) /\ (msg[q] = <<>> \/ \E f \in Frame : msg[q] = <<f>>)
    BY OneFrame DEF TypeOK
  <2>3. Full(msg[q])
    BY <2>1, <2>2 DEF Full
  <2>4. Full(wire[q] \o msg[q])
    BY <2>2, <2>3, FullBoth DEF Solid
  <2> QED
    BY <2>1, <2>2, <2>4 DEF Solid
<1>2. ASSUME NEW q \in Peer, Listen(q) PROVE Solid'
  <2>1. /\ wire[q] # <<>>
        /\ got' = [got EXCEPT ![q] = Append(got[q], Head(wire[q]))]
        /\ wire' = [wire EXCEPT ![q] = Tail(wire[q])]
    BY <1>2 DEF Listen
  <2>2. /\ wire \in [Peer -> Seq(Frame)] /\ got \in [Peer -> Seq(Frame)]
        /\ wire[q] \in Seq(Frame) /\ got[q] \in Seq(Frame) /\ Full(wire[q]) /\ Full(got[q])
    BY DEF TypeOK, Solid
  <2>3. Full(Tail(wire[q])) /\ Full(<<Head(wire[q])>>) /\ Head(wire[q]) \in Frame
    BY <2>1, <2>2, FullEnds, HeadTailProperties
  <2>4. <<Head(wire[q])>> \in Seq(Frame) /\ Append(got[q], Head(wire[q])) = got[q] \o <<Head(wire[q])>>
    BY <2>2, <2>3
  <2>5. Full(Append(got[q], Head(wire[q])))
    BY <2>2, <2>3, <2>4, FullBoth
  <2> QED
    BY <2>1, <2>2, <2>3, <2>5 DEF Solid
<1>3. CASE UNCHANGED <<got, wire>>
  BY <1>3 DEF Solid
<1>4. \/ \E q \in Peer : SendFrame(q) \/ Listen(q)
      \/ UNCHANGED <<got, wire>>
  BY DEF Next, vars, netVars, Accepter, Accept, PushBack, AcceptEnds,
         RecvLoop, RecvCheck, RecvFrame, RecvEnds, Broadcast, SendMsg, SendMsgWaits, SendMsgDrops,
         SendMsgNotify, SendMsgSleeps, RecvInactive, RecvWakes,
         SendLoop, SendPop, SendWaits, SendSleeps, SendFails, SendInactive, SendWakes,
         StopCalled, Stop, JoinAccept, StopNext, StopWakes, StopShuts, StopCloses, JoinRx, JoinTx,
         Clients, Connect, Talk, HangUp
<1> QED
  BY <1>1, <1>2, <1>3, <1>4

\* One element between two sequences, and the two without it.
LEMMA Between ==
    ASSUME NEW S, NEW a \in Seq(S), NEW b \in Seq(S), NEW x \in S
    PROVE  /\ Len(a) \in Nat /\ Len(b) \in Nat
           /\ a \o b \in Seq(S) /\ Len(a \o b) = Len(a) + Len(b)
           /\ (a \o <<x>>) \o b \in Seq(S) /\ Len((a \o <<x>>) \o b) = Len(a) + 1 + Len(b)
           /\ ((a \o <<x>>) \o b)[Len(a) + 1] = x
           /\ \A i \in 1..Len(a) : (a \o b)[i] = a[i] /\ ((a \o <<x>>) \o b)[i] = a[i]
           /\ \A i \in 1..Len(b) : /\ (a \o b)[Len(a) + i] = b[i]
                                   /\ ((a \o <<x>>) \o b)[Len(a) + 1 + i] = b[i]
<1>1. <<x>> \in Seq(S) /\ Len(<<x>>) = 1 /\ <<x>>[1] = x
  OBVIOUS
<1>2. /\ Len(a) \in Nat /\ Len(b) \in Nat
      /\ a \o b \in Seq(S) /\ Len(a \o b) = Len(a) + Len(b)
      /\ \A i \in 1..Len(a) : (a \o b)[i] = a[i]
      /\ \A i \in 1..Len(b) : (a \o b)[Len(a) + i] = b[i]
  BY ConcatFacts
<1> DEFINE c == a \o <<x>>
<1>3. /\ c \in Seq(S) /\ Len(c) = Len(a) + 1
      /\ \A i \in 1..Len(a) : c[i] = a[i]
      /\ c[Len(a) + 1] = x
  <2>1. /\ c \in Seq(S) /\ Len(c) = Len(a) + Len(<<x>>)
        /\ \A i \in 1..Len(a) : c[i] = a[i]
        /\ \A i \in 1..Len(<<x>>) : c[Len(a) + i] = <<x>>[i]
    BY <1>1, ConcatFacts
  <2> HIDE DEF c
  <2>2. 1 \in 1..Len(<<x>>)
    BY <1>1
  <2>3. c[Len(a) + 1] = x
    BY ONLY <1>1, <2>1, <2>2
  <2> QED
    BY <1>1, <2>1, <2>3
<1> HIDE DEF c
<1>4. /\ c \o b \in Seq(S) /\ Len(c \o b) = Len(c) + Len(b)
      /\ \A i \in 1..Len(c) : (c \o b)[i] = c[i]
      /\ \A i \in 1..Len(b) : (c \o b)[Len(c) + i] = b[i]
  <2>1. c \in Seq(S) /\ b \in Seq(S)
    BY <1>3
  <2> QED
    BY ONLY <2>1, ConcatFacts
<1>5. /\ c \o b \in Seq(S) /\ Len(c \o b) = Len(a) + 1 + Len(b)
      /\ (c \o b)[Len(a) + 1] = x
      /\ \A i \in 1..Len(a) : (c \o b)[i] = a[i]
      /\ \A i \in 1..Len(b) : (c \o b)[Len(a) + 1 + i] = b[i]
  <2>1. Len(a) + 1 \in 1..Len(c) /\ (\A i \in 1..Len(a) : i \in 1..Len(c))
    BY <1>2, <1>3
  <2>2. (c \o b)[Len(a) + 1] = x /\ (\A i \in 1..Len(a) : (c \o b)[i] = a[i])
    BY ONLY <1>3, <1>4, <2>1
  <2> QED
    BY <1>2, <1>3, <1>4, <2>2
<1> QED
  BY <1>2, <1>5 DEF c

\* What stands where in a client's stream.
LEMMA Places ==
    ASSUME NEW u \in Seq(Frame), NEW f
    PROVE  f \in Elements(u) <=> \E i \in 1..Len(u) : u[i] = f
BY LenProperties DEF Elements

\* An empty frame is at the front of all that is left of its client's.
LEMMA RefusalFollows ==
    ASSUME TypeOK, TypeOK', Solid, Rising, NEW q \in Peer, NEW x \in Frame, Size(x) = 0,
           got'[q] = got[q], wire'[q] = wire[q], m_txQueue'[q] = m_txQueue[q],
           msg[q] = <<x>>, msg'[q] = <<>>
    PROVE  Follows(q)
<1> DEFINE a == got[q] \o wire[q]
           b == m_txQueue[q]
           n == Len(a)
           u == (a \o <<x>>) \o b
           v == a \o b
<1>1. a \in Seq(Frame) /\ b \in Seq(Frame) /\ Full(a)
  BY FullBoth, ConcatFacts DEF TypeOK, Solid
<1>2. Stream(q) = u /\ Stream(q)' = (a \o <<>>) \o b /\ Ascending(Stream(q))
  BY DEF Stream, Rising
<1>3. a \o <<>> = a
  BY <1>1, NoneMore
<1>4. Stream(q) = u /\ Stream(q)' = v /\ Ascending(u)
  BY <1>2, <1>3
<1> HIDE DEF a, b
<1>5. /\ n \in Nat /\ Len(b) \in Nat
      /\ v \in Seq(Frame) /\ Len(v) = n + Len(b)
      /\ u \in Seq(Frame) /\ Len(u) = n + 1 + Len(b)
      /\ u[n + 1] = x
      /\ \A i \in 1..n : v[i] = a[i] /\ u[i] = a[i]
      /\ \A i \in 1..Len(b) : v[n + i] = b[i] /\ u[n + 1 + i] = b[i]
  BY <1>1, Between
<1>6. \A i \in 1..n : Size(a[i]) # 0
  BY <1>1 DEF Full
<1> HIDE DEF n, u, v
<1> SUFFICES ASSUME NEW s \in Peer, NEW j \in 1..MaxFrames, NEW k \in 1..MaxFrames, j < k,
                    Has(q, s, j)', Has(q, s, k)
             PROVE  Has(q, s, k)'
  BY DEF Follows
<1>7. PICK i \in 1..Len(u) : u[i] = <<s, k>>
  BY <1>4, <1>5, Places DEF Has
<1>8. PICK h \in 1..Len(v) : v[h] = <<s, j>>
  <2>1. <<s, j>> \in Elements(v)
    BY <1>4 DEF Has
  <2> QED
    BY <1>5, <2>1, Places
<1>9. i \in 1..(n + 1 + Len(b)) /\ h \in 1..(n + Len(b)) /\ i \in Int /\ h \in Int
  BY <1>5
<1>10. CASE i # n + 1
  <2>1. \E g \in 1..Len(v) : v[g] = <<s, k>>
    <3>1. CASE i \in 1..n
      <4>1. i \in 1..Len(v) /\ v[i] = u[i]
        BY <1>5, <3>1
      <4> QED
        BY <1>7, <4>1
    <3>2. CASE i \notin 1..n
      <4>1. PICK g \in 1..Len(b) : i = n + 1 + g
        <5>1. i - n - 1 \in 1..Len(b) /\ i = n + 1 + (i - n - 1)
          BY <1>5, <1>9, <1>10, <3>2
        <5> QED
          BY <5>1
      <4>2. n + g \in 1..Len(v) /\ v[n + g] = b[g] /\ u[n + 1 + g] = b[g]
        BY <1>5
      <4> QED
        BY <1>7, <4>1, <4>2
    <3> QED
      BY <3>1, <3>2
  <2>2. <<s, k>> \in Elements(v)
    BY <1>5, <2>1, Places
  <2> QED
    BY <1>4, <2>2 DEF Has
<1>11. CASE i = n + 1
  <2>1. x = <<s, k>> /\ FrameSize[s] = 0
    <3>1. x = <<s, k>>
      BY <1>5, <1>7, <1>11
    <3> QED
      BY <3>1 DEF Size
  <2>2. CASE h \in 1..n
    <3>1. a[h] = <<s, j>> /\ Size(a[h]) # 0
      BY <1>5, <1>6, <1>8, <2>2
    <3> QED
      BY <2>1, <3>1 DEF Size
  <2>3. CASE h \notin 1..n
    <3>1. PICK g \in 1..Len(b) : h = n + g
      <4>1. h - n \in 1..Len(b) /\ h = n + (h - n)
        BY <1>5, <1>9, <2>3
      <4> QED
        BY <4>1
    <3>2. u[n + 1 + g] = <<s, j>>
      BY <1>5, <1>8, <3>1
    <3>3. /\ n + 1 \in 1..Len(u) /\ n + 1 + g \in 1..Len(u)
          /\ n + 1 < n + 1 + g
      BY <1>5
    <3>4. k < j
      BY <1>4, <1>7, <1>11, <3>2, <3>3 DEF Ascending
    <3> QED
      BY <3>4
  <2> QED
    BY <2>2, <2>3
<1> QED
  BY <1>10, <1>11

LEMMA MildSend == ASSUME Flow, Solid, TypeOK', NEW q \in Peer, SendLoop(q) PROVE Flow'
<1>0. Flow
  OBVIOUS
<1> USE DEF sessVars, srvVars, netVars
<1>1. Listed
  <2>1. UNCHANGED <<m_clients, accepted>>
    BY DEF SendLoop, SendPop, SendWaits, SendSleeps, SendFrame, SendFails, SendInactive, SendWakes
  <2> QED
    BY <2>1, SameList
<1>2. Mild
  <2>1. /\ UNCHANGED <<snapshot, frame, m_socket, peer, rcvd>>
        /\ m_active' = m_active \/ m_active' = [m_active EXCEPT ![q] = FALSE]
    BY DEF SendLoop, SendPop, SendWaits, SendSleeps, SendFrame, SendFails, SendInactive, SendWakes
  <2>2. rx' = rx \/ rx' = RxWoken(q)
    BY DEF SendLoop, SendPop, PopWakes, SendWaits, SendSleeps, SendFrame, SendFails, SendInactive, SendWakes
  <2>3. \A x \in Peer : rx'[x] = rx[x] \/ (rx[x] = "asleep" /\ rx'[x] = "send")
    BY <2>2 DEF RxWoken, At
  <2>4. \/ \E f : msg' = [msg EXCEPT ![q] = <<f>>] /\ tx' = [tx EXCEPT ![q] = "send"]
        \/ msg' = [msg EXCEPT ![q] = <<>>] /\ tx' = [tx EXCEPT ![q] = IF tx'[q] = "lock" THEN "lock" ELSE "inactive"]
        \/ /\ msg' = msg /\ tx[q] # "send"
           /\ \E l \in {"block", "done", "asleep", "wake"} : tx' = [tx EXCEPT ![q] = l]
    <3>1. CASE SendPop(q)
      BY <3>1 DEF SendPop
    <3>2. CASE SendFrame(q) \/ SendFails(q)
      BY <3>2, ThreadType DEF SendFrame, SendFails
    <3>3. CASE SendWaits(q) \/ SendSleeps(q) \/ SendInactive(q) \/ SendWakes(q)
      BY <3>3 DEF SendWaits, SendSleeps, SendInactive, SendWakes
    <3> QED
      BY <3>1, <3>2, <3>3 DEF SendLoop
  <2>5. \A x \in Peer : msg'[x] = <<>> <=> tx'[x] # "send"
    BY <2>4, ThreadType DEF Flow, Hands
  <2> QED
    BY ONLY <1>0, <2>1, <2>3, <2>5, MildMessage DEF Waiting
<1>3. Drains
  <2>1. TypeOK
    BY DEF Flow
  <2>2. CASE SendPop(q)
    <3>1. /\ msg[q] = <<>> /\ m_txQueue[q] # <<>>
          /\ got'[q] = got[q] /\ wire'[q] = wire[q]
          /\ msg'[q] = <<Head(m_txQueue[q])>> /\ m_txQueue'[q] = Tail(m_txQueue[q])
          /\ \A p \in Peer : p # q => Still(p)
      BY <2>2 DEF SendPop, Flow, Hands, TypeOK, Still
    <3>2. Stream(q)' = Stream(q)
      BY <2>1, <3>1, PopKeeps
    <3> QED
      BY <2>1, <3>1, <3>2, StreamType, PartSame, StillDrains
  <2>3. CASE SendFrame(q) /\ peer[q] # "closed"
    <3>1. /\ got'[q] = got[q] /\ wire'[q] = wire[q] \o msg[q]
          /\ msg'[q] = <<>> /\ m_txQueue'[q] = m_txQueue[q]
          /\ \A p \in Peer : p # q => Still(p)
      BY <2>3 DEF SendFrame, Flow, TypeOK, Still
    <3>2. Stream(q)' = Stream(q)
      BY <2>1, <3>1, SentKeeps
    <3> QED
      BY <2>1, <3>1, <3>2, StreamType, PartSame, StillDrains
  <2>4. CASE SendFails(q) \/ (SendFrame(q) /\ peer[q] = "closed")
    <3>1. /\ got'[q] = got[q] /\ wire'[q] = wire[q]
          /\ msg'[q] = <<>> /\ m_txQueue'[q] = m_txQueue[q]
          /\ \A p \in Peer : p # q => Still(p)
          /\ ~Stands(q)' \/ (Empty(q) /\ tx[q] = "send")
      <4>1. /\ msg' = [msg EXCEPT ![q] = <<>>]
            /\ UNCHANGED <<got, wire, m_txQueue, m_socket, peer>>
            /\ m_socket[q] # "open" \/ peer[q] # "open" \/ (Empty(q) /\ tx[q] = "send")
        BY <2>4 DEF SendFails, SendFrame
      <4> QED
        BY <4>1, ThreadType DEF Still, Stands
    <3>2. Part(Stream(q)', Stream(q))
      BY <2>1, <3>1, LossLeaves
    <3>3. ASSUME Empty(q), tx[q] = "send" PROVE Follows(q)
      <4>1. PICK x \in Frame : msg[q] = <<x>>
        BY <3>3 DEF Flow, Hands, TypeOK
      <4>2. Size(x) = 0
        BY <3>3, <4>1 DEF Empty
      <4>3. Rising
        BY DEF Flow
      <4> QED
        BY <2>1, <3>1, <4>1, <4>2, <4>3, RefusalFollows
    <3> QED
      BY <2>1, <3>1, <3>2, <3>3, OneDrains
  <2>5. CASE SendWaits(q) \/ SendSleeps(q) \/ SendInactive(q) \/ SendWakes(q)
    <3>1. UNCHANGED <<got, wire, msg, m_txQueue>>
      BY <2>5 DEF SendWaits, SendSleeps, SendInactive, SendWakes
    <3> QED
      BY <2>1, <3>1, AllStill
  <2> QED
    BY <2>2, <2>3, <2>4, <2>5 DEF SendLoop
<1>4. Stops'
  BY SameStops DEF SendLoop, SendPop, SendWaits, SendSleeps, SendFrame, SendFails, SendInactive, SendWakes
<1> QED
  BY <1>1, <1>2, <1>3, <1>4, MildKeeps

-----------------------------------------------------------------------------
(* The accept thread, Stop and the clients. *)

LEMMA MildAccept == ASSUME Flow, TypeOK', PushBack \/ AcceptEnds PROVE Flow'
<1> USE DEF sessVars, threadVars, srvVars, netVars
<1>1. Mild
  BY DEF Flow, TypeOK, Hands, Mild, Stands, PushBack, AcceptEnds
<1>2. Drains
  BY AllStill DEF Flow, PushBack, AcceptEnds
<1>5. Stops'
  BY SameStops DEF PushBack, AcceptEnds
<1>3. CASE PushBack
  <2>1. /\ m_clients \in Seq(Peer) /\ NoDup(m_clients)
        /\ Elements(m_clients) \intersect Elements(accepted) = {}
        /\ accepted \in {<<>>} \union {<<p>> : p \in Peer}
        /\ m_clients' = m_clients \o accepted /\ accepted' = <<>>
    BY <1>3 DEF Flow, Lists, TypeOK, PushBack
  <2>2. NoDup(m_clients')
    <3>1. CASE accepted = <<>>
      BY <2>1, <3>1, NoneMore
    <3>2. ASSUME NEW p \in Peer, accepted = <<p>> PROVE NoDup(m_clients')
      <4>1. p \notin Elements(m_clients)
        BY <2>1, <3>2, ElementsOfOne
      <4>2. m_clients' = Append(m_clients, p)
        BY <2>1, <3>2, OneMore
      <4> QED
        BY <2>1, <4>1, <4>2, NoDupAppend
    <3> QED
      BY <2>1, <3>1, <3>2
  <2>3. Listed
    BY <2>1, <2>2, ElementsOfNone DEF Listed
  <2> QED
    BY <1>1, <1>2, <1>5, <2>3, MildKeeps
<1>4. CASE AcceptEnds
  BY <1>1, <1>2, <1>4, <1>5, SameList, MildKeeps DEF AcceptEnds
<1> QED
  BY <1>3, <1>4

LEMMA MildStop == ASSUME Flow, IInv, TypeOK', StopCalled \/ Stop PROVE Flow'
<1>0. Flow
  OBVIOUS
<1> USE DEF sessVars, threadVars, srvVars, netVars
<1> DEFINE h == Head(stopping)
<1>1. Mild
  <2> USE DEF Flow, TypeOK, Stops
  <2>1. CASE StopCalled
    <3>1. UNCHANGED <<threadVars, m_active, m_socket, peer, rcvd>>
      BY <2>1 DEF StopCalled
    <3> QED
      BY ONLY <1>0, <3>1, MildNet, NetType DEF Stands
  <2>2. CASE JoinAccept
    <3>1. UNCHANGED <<threadVars, m_active, m_socket, peer, rcvd>>
      BY <2>2 DEF JoinAccept
    <3> QED
      BY ONLY <1>0, <3>1, MildNet, NetType DEF Stands
  <2>3. CASE StopNext
    <3>1. /\ UNCHANGED <<snapshot, frame, m_socket, peer, rcvd, msg, rx, tx>>
          /\ m_active' = m_active \/ m_active' = [m_active EXCEPT ![h] = FALSE]
      BY <2>3 DEF StopNext
    <3> HIDE DEF h
    <3> QED
      BY ONLY <1>0, <3>1, MildThreads
  <2>4. CASE StopWakes
    <3>1. /\ UNCHANGED <<snapshot, frame, m_socket, peer, rcvd, msg, m_active>>
          /\ \A x \in Peer : /\ rx'[x] = IF At(x, h, "asleep") THEN "send" ELSE rx[x]
                             /\ tx'[x] = IF x = h /\ tx[h] = "asleep" THEN "lock" ELSE tx[x]
      <4>1. /\ UNCHANGED <<snapshot, frame, m_socket, peer, rcvd, msg, m_active>>
            /\ tx' = TxWoken(h) /\ rx' = RxWoken(h)
        BY <2>4 DEF StopWakes
      <4>2. DOMAIN tx = Peer
        OBVIOUS
      <4> HIDE DEF h
      <4> QED
        BY ONLY <4>1, <4>2 DEF TxWoken, RxWoken
    <3> HIDE DEF h
    <3> QED
      BY ONLY <1>0, <3>1, MildThreads DEF At, Waiting
  <2>5. CASE StopShuts
    <3>1. h \in Peer /\ m_socket' = [m_socket EXCEPT ![h] = "shut"]
      BY <2>5, HeadIsKnown DEF StopShuts
    <3>2. UNCHANGED <<threadVars, m_active, peer, rcvd>>
      BY <2>5 DEF StopShuts
    <3>3. m_socket[h] # "closed"
      <4>1. owner = "shut" /\ stopping # <<>>
        BY <2>5, HeadIsKnown DEF StopShuts
      <4>2. h \in Elements(stopping)
        BY <4>1, ElementsOfTail
      <4> QED
        BY <3>1, <4>1, <4>2 DEF Stops
    <3> HIDE DEF h
    <3> QED
      BY ONLY <1>0, <3>1, <3>2, <3>3, MildNet, NetType DEF Stands
  <2>6. CASE StopCloses
    <3>1. h \in Peer
      BY <2>6, HeadIsKnown DEF StopCloses
    <3>2. m_socket' = [m_socket EXCEPT ![h] = "closed"] /\ (rcvd' = rcvd \/ rcvd' = [rcvd EXCEPT ![h] = @ + 1])
      BY <2>6 DEF StopCloses
    <3>3. UNCHANGED <<threadVars, m_active, peer>>
      BY <2>6 DEF StopCloses
    <3> HIDE DEF h
    <3> QED
      BY ONLY <1>0, <3>1, <3>2, <3>3, MildNet, NetType DEF Stands
  <2>7. CASE JoinRx
    <3>1. UNCHANGED <<threadVars, m_active, m_socket, peer, rcvd>>
      BY <2>7 DEF JoinRx
    <3> QED
      BY ONLY <1>0, <3>1, MildNet, NetType DEF Stands
  <2>8. CASE JoinTx
    <3>1. UNCHANGED <<threadVars, m_active, m_socket, peer, rcvd>>
      BY <2>8 DEF JoinTx
    <3> QED
      BY ONLY <1>0, <3>1, MildNet, NetType DEF Stands
  <2> QED
    BY <2>1, <2>2, <2>3, <2>4, <2>5, <2>6, <2>7, <2>8 DEF Stop
<1>2. Listed
  <2>1. CASE StopNext
    <3>1. accepted' = accepted /\ (m_clients' = m_clients \/ m_clients' = <<>>)
      BY <2>1 DEF StopNext
    <3>2. NoDup(<<>>) /\ Elements(<<>>) = {}
      BY ElementsOfNone, EmptySeq DEF NoDup
    <3> QED
      BY <3>1, <3>2 DEF Flow, Lists, Listed
  <2>2. CASE ~StopNext
    <3>1. UNCHANGED <<m_clients, accepted>>
      BY <2>2 DEF StopCalled, Stop, JoinAccept, StopWakes, StopShuts, StopCloses, JoinRx, JoinTx
    <3> QED
      BY <3>1, SameList
  <2> QED
    BY <2>1, <2>2
<1>3. Drains
  <2>1. CASE JoinTx
    <3>1. PICK x \in Peer : x = Head(stopping) /\ m_socket[x] = "closed"
      BY <2>1, HeadIsKnown DEF JoinTx, IInv, AtHead
    <3>2. /\ m_txQueue' = [m_txQueue EXCEPT ![x] = <<>>]
          /\ UNCHANGED <<got, wire, msg, m_socket, peer>>
      BY <2>1, <3>1 DEF JoinTx
    <3>3. m_txQueue \in [Peer -> Seq(Frame)] /\ TypeOK
      BY DEF Flow, TypeOK
    <3>4. /\ got'[x] = got[x] /\ wire'[x] = wire[x]
          /\ msg'[x] = msg[x] /\ m_txQueue'[x] = <<>>
          /\ \A p \in Peer : p # x => Still(p)
          /\ ~Stands(x)'
      BY ONLY <3>1, <3>2, <3>3 DEF Still, Stands
    <3>5. Part(Stream(x)', Stream(x))
      BY <3>3, <3>4, LossLeaves
    <3> QED
      BY <3>3, <3>4, <3>5, StillDrains
  <2>2. CASE ~JoinTx
    <3>1. UNCHANGED <<got, wire, msg, m_txQueue>>
      BY <2>2 DEF StopCalled, Stop, JoinAccept, StopNext, StopWakes, StopShuts, StopCloses, JoinRx
    <3> QED
      BY <3>1, AllStill DEF Flow
  <2> QED
    BY <2>1, <2>2
<1>4. Stops'
  <2> USE DEF Flow, Stops, TypeOK
  <2>1. CASE StopCalled
    BY <2>1 DEF StopCalled
  <2>2. CASE JoinAccept
    BY <2>2 DEF JoinAccept, Lists
  <2>3. CASE StopNext
    BY <2>3 DEF StopNext
  <2>4. CASE StopWakes
    BY <2>4 DEF StopWakes
  <2>5. CASE StopShuts
    <3>1. h \in Peer /\ m_socket' = [m_socket EXCEPT ![h] = "shut"]
      BY <2>5, HeadIsKnown DEF StopShuts
    <3> QED
      BY <2>5, <3>1 DEF StopShuts
  <2>6. CASE StopCloses
    <3>1. h \in Peer /\ m_socket' = [m_socket EXCEPT ![h] = "closed"]
      BY <2>6, HeadIsKnown DEF StopCloses
    <3> QED
      BY <2>6, <3>1 DEF StopCloses
  <2>7. CASE JoinRx
    BY <2>7 DEF JoinRx
  <2>8. CASE JoinTx
    <3>1. stopping # <<>> /\ stopping' = Tail(stopping) /\ owner' = "next" /\ m_socket' = m_socket
      BY <2>8, HeadIsKnown DEF JoinTx
    <3>2. NoDup(stopping') /\ Elements(stopping') \subseteq Elements(stopping) \ {h}
      BY <3>1, NoDupTail
    <3> QED
      BY <3>1, <3>2
  <2> QED
    BY <2>1, <2>2, <2>3, <2>4, <2>5, <2>6, <2>7, <2>8 DEF Stop
<1> QED
  BY <1>1, <1>2, <1>3, <1>4, MildKeeps

LEMMA MildClients == ASSUME Flow, IInv, TypeOK', Clients PROVE Flow'
<1>0. Flow
  OBVIOUS
<1> USE DEF sessVars, threadVars, srvVars, netVars
<1>1. Listed
  BY SameList DEF Clients, Connect, Talk, HangUp, Listen
<1>2. Mild
  <2>1. ASSUME NEW p \in Peer, Connect(p) PROVE Mild
    <3>1. m_socket[p] = "none"
      <4>1. peer[p] = "idle"
        BY ONLY <2>1 DEF Connect
      <4>2. rx[p] = "none"
        BY ONLY <1>0, <4>1, p \in Peer DEF Flow, Hands
      <4> QED
        BY ONLY IInv, <4>2, p \in Peer DEF IInv, Fresh
    <3>2. UNCHANGED <<threadVars, m_active, m_socket, rcvd>> /\ peer' = [peer EXCEPT ![p] = "open"]
      BY <2>1 DEF Connect
    <3> QED
      BY ONLY <1>0, <3>1, <3>2, p \in Peer, MildNet, NetType DEF Stands
  <2>2. ASSUME NEW p \in Peer, HangUp(p) PROVE Mild
    <3>1. \E s \in {"closed", "reset"} : peer' = [peer EXCEPT ![p] = s]
      BY <2>2 DEF HangUp
    <3>2. UNCHANGED <<threadVars, m_active, m_socket, rcvd>>
      BY <2>2 DEF HangUp
    <3> QED
      BY ONLY <1>0, <3>1, <3>2, MildNet, NetType DEF Stands
  <2>3. ASSUME NEW p \in Peer, Talk(p) \/ Listen(p) PROVE Mild
    <3>1. UNCHANGED <<threadVars, m_active, m_socket, peer, rcvd>>
      BY <2>3 DEF Talk, Listen
    <3> QED
      BY ONLY <1>0, <3>1, MildNet, NetType DEF Stands
  <2> QED
    BY <2>1, <2>2, <2>3 DEF Clients
<1>3. Drains
  <2>1. ASSUME NEW p \in Peer, Listen(p) PROVE Drains
    <3>1. /\ wire[p] # <<>>
          /\ got'[p] = Append(got[p], Head(wire[p])) /\ wire'[p] = Tail(wire[p])
          /\ msg'[p] = msg[p] /\ m_txQueue'[p] = m_txQueue[p]
          /\ \A q \in Peer : q # p => Still(q)
      BY <2>1 DEF Listen, Flow, TypeOK, Still
    <3>2. Stream(p)' = Stream(p)
      BY <3>1, ReadKeeps DEF Flow
    <3> QED
      BY <3>1, <3>2, StreamType, PartSame, StillDrains DEF Flow
  <2>2. ASSUME NEW p \in Peer, Connect(p) \/ Talk(p) \/ HangUp(p) PROVE Drains
    BY <2>2, AllStill DEF Flow, Connect, Talk, HangUp
  <2> QED
    BY <2>1, <2>2 DEF Clients
<1>4. Stops'
  BY SameStops DEF Clients, Connect, Talk, HangUp, Listen
<1> QED
  BY <1>1, <1>2, <1>3, <1>4, MildKeeps

-----------------------------------------------------------------------------
(* The steps that say what comes next in a stream. *)

\* No stream changes.
LEMMA Unmoved ==
    ASSUME UNCHANGED <<got, wire, msg, m_txQueue>>, NEW q \in Peer
    PROVE  Stream(q)' = Stream(q)
BY StillKeeps DEF Still

\* A frame is taken from the connection: it is the one after those broadcast.
LEMMA FlowReceives == ASSUME Flow, TypeOK', NEW p \in Peer, RecvFrame(p) PROVE Flow'
<1>1. /\ UNCHANGED <<got, wire, msg, m_txQueue, m_clients, accepted, snapshot, tx, peer, m_socket, m_active, owner, stopping>>
      /\ rx[p] = "recv" /\ m_socket[p] \in {"open", "shut"}
      /\ rx' = [rx EXCEPT ![p] = "broadcast"]
      /\ frame' = [frame EXCEPT ![p] = rcvd[p] + 1]
      /\ rcvd' = [rcvd EXCEPT ![p] = rcvd[p] + 1]
  BY DEF RecvFrame, FrameWaits, sessVars, srvVars
<1>2. /\ rx \in [Peer -> {"none", "check", "recv", "broadcast", "send", "block", "asleep",
                          "notify", "inactive", "wake", "done"}]
      /\ frame \in [Peer -> Int] /\ rcvd \in [Peer -> Int]
      /\ frame \in [Peer -> 0..MaxFrames]
  <2>1. rx \in [Peer -> {"none", "check", "recv", "broadcast", "send", "block", "asleep",
                        "notify", "inactive", "wake", "done"}]
    BY ONLY Flow DEF Flow, TypeOK
  <2>2. frame \in [Peer -> 0..MaxFrames] /\ rcvd \in [Peer -> 0..MaxFrames]
    BY ONLY Flow DEF Flow, TypeOK
  <2>3. 0..MaxFrames \subseteq Int
    BY FramingServerAssumption
  <2> QED
    BY ONLY <2>1, <2>2, <2>3
<1>3. /\ \A s \in Peer : rx'[s] = IF s = p THEN "broadcast" ELSE rx[s]
      /\ \A s \in Peer : frame'[s] = IF s = p THEN frame[s] + 1 ELSE frame[s]
      /\ \A s \in Peer : rcvd'[s] = IF s = p THEN rcvd[s] + 1 ELSE rcvd[s]
  BY <1>1, <1>2 DEF Flow, Counts
<1>4. \A q, s \in Peer : s # p => (Coming(s, q)' <=> Coming(s, q))
  BY <1>1, <1>3 DEF Coming
<1>5. \A s \in Peer : Relayed(s)' = Relayed(s)
  BY <1>1, <1>2, <1>3 DEF Relayed
<1>6. \A q \in Peer : Stream(q)' = Stream(q)
  BY <1>1, Unmoved
<1>7. Lists'
  BY <1>1, <1>3, SnapshotPeers DEF Flow, Lists, Handing
<1>8. Hands'
  BY <1>1, <1>3, <1>6 DEF Flow, Hands
<1>9. Counts'
  BY <1>1, <1>2, <1>3 DEF Flow, Counts, Sending
<1>10. Stops'
  BY <1>1, SameStops
<1>11. Below'
  BY <1>1, <1>2, <1>3, <1>4, <1>6 DEF Flow, Below, Has
<1>12. Rising'
  BY <1>6 DEF Flow, Rising
<1>13. Served'
  BY <1>1, <1>3, <1>4, <1>6 DEF Flow, Served, Stands, Has, Coming, Sending
<1>14. NoGap'
  BY <1>1, <1>5, <1>6 DEF Flow, NoGap
<1> QED
  BY <1>7, <1>8, <1>9, <1>10, <1>11, <1>12, <1>13, <1>14 DEF Flow

\* Who has frames of p already is among the sessions that this one is for.
LEMMA FlowBroadcasts == ASSUME Flow, IInv, TypeOK', NEW p \in Peer, Broadcast(p) PROVE Flow'
<1>1. /\ UNCHANGED <<got, wire, msg, m_txQueue, m_clients, accepted, tx, peer, m_socket, m_active, owner, stopping, frame, rcvd>>
      /\ rx[p] = "broadcast" /\ owner \in {"idle", "join", "stopped"}
      /\ rx' = [rx EXCEPT ![p] = IF Others(p) = <<>> THEN "check" ELSE "send"]
      /\ snapshot' = [snapshot EXCEPT ![p] = Others(p)]
  BY DEF Broadcast, ClientsFree, sessVars, srvVars, netVars
<1>2. /\ DOMAIN rx = Peer /\ DOMAIN snapshot = Peer
      /\ Others(p) \in Seq(Peer) /\ NoDup(Others(p))
      /\ Elements(Others(p)) = Elements(m_clients) \ {p}
  BY OthersFacts DEF Flow, TypeOK, Lists
<1>3. /\ \A s \in Peer : s # p => rx'[s] = rx[s] /\ snapshot'[s] = snapshot[s]
      /\ snapshot'[p] = Others(p)
      /\ rx'[p] = IF Others(p) = <<>> THEN "check" ELSE "send"
  BY <1>1, <1>2
<1>4. \A s \in Peer : rx[s] # "none" <=> s \in Elements(m_clients) \union Elements(accepted)
  <2>1. owner \in {"idle", "join"}
    <3>1. owner = "stopped" => Known = {}
      BY ElementsOfNone DEF IInv, Accounted, Known
    <3> QED
      BY <1>1, <3>1 DEF IInv, Accounted, Quiet
  <2>2. Known = Elements(m_clients) \union Elements(accepted)
    BY <2>1, OneSession, ElementsOfBoth DEF Known, Flow, TypeOK
  <2> QED
    BY <2>1, <2>2 DEF IInv, Accounted
<1>5. \A s \in Peer : s # p => Relayed(s)' = Relayed(s) /\ \A q \in Peer : Coming(s, q)' <=> Coming(s, q)
  BY <1>1, <1>3 DEF Relayed, Coming
<1>6. \A q \in Peer : Stream(q)' = Stream(q)
  BY <1>1, Unmoved
<1>8. ASSUME NEW q \in Peer, NEW k \in 1..MaxFrames, Has(q, p, k) PROVE q \in Elements(Others(p))
  <2>1. p # q
    BY <1>8 DEF Flow, Below
  <2>2. Stream(q) # <<>>
    BY <1>8, ElementsOfNone DEF Has
  <2>3. rx[q] # "none" /\ q \notin Elements(accepted)
    BY <2>2 DEF Flow, Hands
  <2> QED
    BY <1>2, <1>4, <2>1, <2>3
<1>9. \A q \in Peer, k \in 1..MaxFrames : Has(q, p, k) => Coming(p, q)' /\ rx'[p] = "send"
  <2>1. \A q \in Elements(Others(p)) : Others(p) # <<>>
    BY ElementsOfNone
  <2> QED
    BY <1>3, <1>8, <2>1 DEF Coming
<1>10. Lists'
  <2>1. Lists /\ Elements(m_clients) \subseteq Peer
    <3>1. m_clients \in Seq(Peer) /\ Lists
      BY DEF Flow, TypeOK
    <3> QED
      BY <3>1, ElementOfSeq, LenProperties DEF Elements
  <2>2. \A s \in Peer : rx'[s] # "none" <=> rx[s] # "none"
    BY <1>1, <1>3
  <2>3. /\ NoDup(snapshot'[p])
        /\ rx'[p] \in Handing => snapshot'[p] # <<>>
        /\ \A q \in Elements(snapshot'[p]) : q # p /\ q \notin Elements(accepted) /\ rx'[q] # "none"
    BY <1>1, <1>2, <1>3, <1>4, <2>1, <2>2 DEF Lists, Handing
  <2> QED
    BY <1>1, <1>3, <2>1, <2>2, <2>3, SnapshotPeers DEF Flow, Lists
<1>11. Hands'
  BY <1>1, <1>3, <1>6 DEF Flow, Hands
<1>12. Counts'
  BY <1>1, <1>3 DEF Flow, Counts, Sending
<1>13. Stops'
  BY <1>1, SameStops
<1>14. Below'
  BY <1>1, <1>5, <1>6 DEF Flow, Below, Has, Coming
<1>15. Rising'
  BY <1>6 DEF Flow, Rising
<1>16. Served'
  BY <1>1, <1>3, <1>5, <1>6, <1>9 DEF Flow, Served, Stands, Has
<1>17. NoGap'
  <2>1. \A q \in Peer, k \in 1..MaxFrames : Has(q, p, k) => Relayed(p)' = Relayed(p)
    BY <1>1, <1>9 DEF Relayed
  <2> QED
    BY <1>1, <1>5, <1>6, <2>1 DEF Flow, NoGap, Has
<1> QED
  BY <1>10, <1>11, <1>12, <1>13, <1>14, <1>15, <1>16, <1>17 DEF Flow

\* The frame of p goes to the end of the stream of q, which has earlier ones only.
LEMMA FlowQueues == ASSUME Flow, TypeOK', NEW p \in Peer, NEW q \in Peer, SendMsg(p, q) PROVE Flow'
<1> DEFINE x == <<p, frame[p]>>
<1>1. /\ UNCHANGED <<got, wire, msg, m_clients, accepted, snapshot, tx, peer, m_socket, m_active, owner, stopping, frame, rcvd>>
      /\ rx[p] = "send" /\ q = Head(snapshot[p]) /\ m_active[q]
      /\ rx' = [rx EXCEPT ![p] = "notify"]
      /\ m_txQueue' = [m_txQueue EXCEPT ![q] = Append(m_txQueue[q], x)]
  BY DEF SendMsg, At, srvVars, netVars
<1>2. /\ DOMAIN rx = Peer /\ DOMAIN m_txQueue = Peer /\ snapshot[p] \in Seq(Peer) /\ TypeOK
      /\ MaxFrames \in Nat
  BY FramingServerAssumption DEF Flow, TypeOK
<1>3. \A s \in Peer : rx'[s] = IF s = p THEN "notify" ELSE rx[s]
  BY <1>1, <1>2
<1>4. /\ snapshot[p] # <<>> /\ NoDup(snapshot[p])
      /\ q \in Elements(snapshot[p]) /\ q # p /\ q \notin Elements(accepted) /\ rx[q] # "none"
      /\ Elements(Tail(snapshot[p])) = Elements(snapshot[p]) \ {q}
  <2>1. snapshot[p] # <<>> /\ NoDup(snapshot[p])
    BY <1>1 DEF Flow, Lists, Handing
  <2>2. q \in Elements(snapshot[p])
    BY <1>1, <1>2, <2>1, ElementsOfTail
  <2> QED
    BY <1>1, <1>2, <2>1, <2>2, NoDupTail DEF Flow, Lists
<1>5. frame[p] \in 1..MaxFrames /\ x \in Frame
  <2>1. frame[p] \in 0..MaxFrames /\ frame[p] >= 1
    BY <1>1 DEF Flow, TypeOK, Counts, Sending
  <2>2. frame[p] \in 1..MaxFrames
    BY ONLY <1>2, <2>1
  <2> QED
    BY ONLY <2>2, p \in Peer DEF Frame
<1>6. /\ \A s, r \in Peer : Coming(s, r)' => Coming(s, r)
      /\ \A s, r \in Peer : s # p \/ r # q => (Coming(s, r)' <=> Coming(s, r))
      /\ Coming(p, q) /\ ~Coming(p, q)'
      /\ \A s \in Peer : Relayed(s)' = Relayed(s) /\ (rx'[s] \in Sending <=> rx[s] \in Sending)
      /\ Relayed(p) = frame[p] - 1
  BY <1>1, <1>3, <1>4 DEF Coming, Relayed, Sending
<1>7. /\ \A r \in Peer : r # q => Stream(r)' = Stream(r)
      /\ Stream(q)' = Append(Stream(q), x)
      /\ Stream(q) \in Seq(Frame)
  <2>1. /\ got'[q] = got[q] /\ wire'[q] = wire[q] /\ msg'[q] = msg[q]
        /\ m_txQueue'[q] = Append(m_txQueue[q], x)
    BY <1>1, <1>2
  <2>2. \A r \in Peer : r # q => Still(r)
    BY <1>1, <1>2 DEF Still
  <2> HIDE DEF x
  <2> QED
    BY <1>2, <1>5, <2>1, <2>2, QueueGrows, StillKeeps, StreamType
<1>8. \A r, s \in Peer, k \in 1..MaxFrames : Has(r, s, k)' <=> Has(r, s, k) \/ (r = q /\ s = p /\ k = frame[p])
  <2>1. Elements(Append(Stream(q), x)) = Elements(Stream(q)) \union {x}
    <3> HIDE DEF x
    <3> QED
      BY <1>5, <1>7, ElementsOfAppend
  <2>2. \A s \in Peer, k \in 1..MaxFrames : <<s, k>> = x <=> s = p /\ k = frame[p]
    OBVIOUS
  <2> HIDE DEF x
  <2> QED
    BY <1>7, <2>1, <2>2 DEF Has
<1>9. \A k \in 1..MaxFrames : Has(q, p, k) => k < frame[p]
  BY <1>6 DEF Flow, Below
<1>10. Lists'
  BY <1>1, <1>3, <1>4, SnapshotPeers DEF Flow, Lists, Handing
<1>11. Hands'
  BY <1>1, <1>3, <1>4, <1>7 DEF Flow, Hands
<1>12. Counts'
  BY <1>1, <1>3, <1>6 DEF Flow, Counts
<1>13. Stops'
  BY <1>1, SameStops
<1>14. Below'
  BY <1>1, <1>4, <1>5, <1>6, <1>8 DEF Flow, Below
<1>15. Rising'
  <2>1. Ascending(Append(Stream(q), x))
    <3> DEFINE st == Stream(q)
    <3>1. /\ Len(Append(st, x)) = Len(st) + 1 /\ Len(st) \in Nat
          /\ Append(st, x)[Len(st) + 1] = x /\ \A i \in 1..Len(st) : Append(st, x)[i] = st[i]
      <4> HIDE DEF x, st
      <4>1. st \in Seq(Frame)
        BY <1>7 DEF st
      <4> QED
        BY <1>5, <4>1, AppendProperties, LenProperties
    <3>2. ASSUME NEW i \in 1..Len(st), st[i][1] = p PROVE st[i][2] < frame[p]
      <4>1. st[i] \in Frame
        BY <1>7, ElementOfSeq
      <4>2. st[i] = <<p, st[i][2]>> /\ st[i][2] \in 1..MaxFrames
        BY <3>2, <4>1 DEF Frame
      <4>3. st[i] \in Elements(st)
        BY <1>7, LenProperties DEF Elements
      <4> QED
        BY <1>9, <4>2, <4>3 DEF Has
    <3>3. Ascending(st)
      BY DEF Flow, Rising
    <3> HIDE DEF st
    <3>4. ASSUME NEW i \in 1..Len(st) + 1, NEW j \in 1..Len(st) + 1, i < j,
                 Append(st, x)[i][1] = Append(st, x)[j][1]
          PROVE  Append(st, x)[i][2] < Append(st, x)[j][2]
      <4>1. i \in 1..Len(st) /\ Append(st, x)[i] = st[i]
        BY <3>1, <3>4
      <4>2. CASE j = Len(st) + 1
        BY <3>1, <3>2, <3>4, <4>1, <4>2
      <4>3. CASE j # Len(st) + 1
        <5>1. j \in 1..Len(st) /\ Append(st, x)[j] = st[j]
          BY <3>1, <4>3
        <5> QED
          BY <3>3, <3>4, <4>1, <5>1 DEF Ascending
      <4> QED
        BY <4>2, <4>3
    <3> QED
      BY <3>1, <3>4 DEF Ascending, st
  <2> HIDE DEF x
  <2> QED
    BY <1>7, <2>1 DEF Flow, Rising
<1>16. Served'
  <2> SUFFICES ASSUME NEW r \in Peer, NEW s \in Peer, m_active[r], Stands(r), rx[s] \in Sending,
                      NEW k \in 1..MaxFrames, Has(r, s, k)'
               PROVE  Coming(s, r)' \/ <<s, frame[s]>> \in Elements(Stream(r)')
    BY <1>1, <1>6 DEF Served, Stands, Has
  <2>1. frame[s] \in 1..MaxFrames
    BY <1>2 DEF Flow, TypeOK, Counts
  <2>2. <<s, frame[s]>> \in Elements(Stream(r)') <=> Has(r, s, frame[s]) \/ (r = q /\ s = p)
    BY <1>8, <2>1 DEF Has
  <2>3. CASE r = q /\ s = p
    BY <2>2, <2>3
  <2>4. CASE r # q \/ s # p
    <3>1. Has(r, s, k)
      BY <1>8, <2>4
    <3> QED
      BY <1>6, <2>2, <2>4, <3>1 DEF Flow, Served
  <2> QED
    BY <2>3, <2>4
<1>17. NoGap'
  <2> SUFFICES ASSUME NEW r \in Peer, NEW s \in Peer,
                      peer[r] = "open", m_socket[r] = "open", m_socket[s] = "open",
                      NEW k \in 1..MaxFrames, NEW m \in 1..MaxFrames, k < m,
                      Has(r, s, k)', Has(r, s, m)' \/ (m_active[r] /\ m <= Relayed(s))
               PROVE  Has(r, s, k + 1)'
    BY <1>1, <1>6 DEF NoGap, Has
  <2>1. ASSUME Has(r, s, k), Has(r, s, m) \/ (m_active[r] /\ m <= Relayed(s))
        PROVE  Has(r, s, k + 1)
    BY <2>1 DEF Flow, NoGap, Has
  <2>2. k + 1 \in 1..MaxFrames
    BY <1>2
  <2>3. CASE r # q \/ s # p
    BY <1>8, <2>1, <2>2, <2>3
  <2>4. CASE r = q /\ s = p
    <3>1. Has(q, p, k) /\ k < frame[p]
      BY <1>5, <1>6, <1>8, <1>9, <2>4
    <3>2. CASE k + 1 = frame[p]
      BY <1>8, <2>2, <2>4, <3>2
    <3>3. CASE k + 1 # frame[p]
      <4>1. frame[p] - 1 \in 1..MaxFrames /\ k < frame[p] - 1
        BY <1>2, <1>5, <3>1, <3>3
      <4>2. Has(q, p, k + 1)
        <5>1. peer[q] = "open" /\ m_socket[q] = "open" /\ m_socket[p] = "open"
          BY <2>4
        <5>2. m_active[q] /\ frame[p] - 1 <= Relayed(p) /\ k < frame[p] - 1
          BY <1>1, <1>5, <1>6, <4>1
        <5> QED
          BY <3>1, <4>1, <5>1, <5>2 DEF Flow, NoGap, Has
      <4> QED
        BY <1>8, <2>2, <2>4, <4>2
    <3> QED
      BY <3>2, <3>3
  <2> QED
    BY <2>3, <2>4
<1> QED
  BY <1>10, <1>11, <1>12, <1>13, <1>14, <1>15, <1>16, <1>17 DEF Flow

\* p has done with the head of its snapshot: q has got its frame, or is not active.
LEMMA FlowGoesOn ==
    ASSUME Flow, TypeOK', NEW p \in Peer, NEW q \in Peer, SendMsgDrops(p, q) \/ SendMsgNotify(p, q)
    PROVE  Flow'
<1>1. /\ UNCHANGED <<got, wire, msg, m_txQueue, m_clients, accepted, peer, m_socket, m_active, owner, stopping, frame, rcvd>>
      /\ q = Head(snapshot[p])
      /\ rx[p] = "notify" \/ (rx[p] = "send" /\ ~m_active[q])
      /\ rx' = [rx EXCEPT ![p] = IF Tail(snapshot[p]) = <<>> THEN "check" ELSE "send"]
      /\ snapshot' = [snapshot EXCEPT ![p] = Tail(snapshot[p])]
      /\ tx' = tx \/ tx' = TxWoken(q)
  BY DEF SendMsgDrops, SendMsgNotify, NextTarget, At, sessVars, srvVars, netVars
<1>2. /\ DOMAIN rx = Peer /\ DOMAIN snapshot = Peer /\ DOMAIN tx = Peer /\ snapshot[p] \in Seq(Peer) /\ TypeOK
  BY DEF Flow, TypeOK
<1> DEFINE t == Tail(snapshot[p])
<1>3. /\ \A s \in Peer : s # p => rx'[s] = rx[s] /\ snapshot'[s] = snapshot[s]
      /\ snapshot'[p] = t
      /\ rx'[p] = IF t = <<>> THEN "check" ELSE "send"
      /\ \A s \in Peer : tx'[s] = "send" <=> tx[s] = "send"
  BY <1>1, <1>2 DEF TxWoken
<1>4. /\ NoDup(t) /\ Elements(t) = Elements(snapshot[p]) \ {q}
      /\ t = <<>> => Elements(t) = {}
  BY <1>1, <1>2, NoDupTail, ElementsOfNone DEF Flow, Lists, Handing
<1>5. /\ \A s, r \in Peer : Coming(s, r)' => Coming(s, r)
      /\ \A s, r \in Peer : m_active[r] => (Coming(s, r)' <=> Coming(s, r))
      /\ \A r \in Peer : Coming(p, r)' => rx'[p] = "send"
  BY <1>1, <1>3, <1>4 DEF Coming
<1>6. \A r \in Peer : Stream(r)' = Stream(r)
  BY <1>1, Unmoved
<1>7. Lists'
  BY <1>1, <1>3, <1>4, SnapshotPeers DEF Flow, Lists, Handing
<1>8. Hands'
  BY <1>1, <1>3, <1>6 DEF Flow, Hands
<1>9. Counts'
  BY <1>1, <1>3 DEF Flow, Counts, Sending
<1>10. Stops'
  BY <1>1, SameStops
<1>11. Below'
  BY <1>1, <1>5, <1>6 DEF Flow, Below, Has
<1>12. Rising'
  BY <1>6 DEF Flow, Rising
<1>13. Served'
  <2>1. \A s \in Peer : rx'[s] \in Sending => rx[s] \in Sending
    BY <1>1, <1>3 DEF Sending
  <2> QED
    BY <1>1, <1>5, <1>6, <2>1 DEF Flow, Served, Stands, Has
<1>14. NoGap'
  <2> SUFFICES ASSUME NEW r \in Peer, NEW s \in Peer,
                      peer[r] = "open", m_socket[r] = "open", m_socket[s] = "open",
                      NEW k \in 1..MaxFrames, NEW m \in 1..MaxFrames, k < m,
                      Has(r, s, k), Has(r, s, m) \/ (m_active[r] /\ m <= Relayed(s)')
               PROVE  Has(r, s, k + 1)
    BY <1>1, <1>6 DEF NoGap, Has
  <2>1. ASSUME Has(r, s, m) \/ (m_active[r] /\ m <= Relayed(s))
        PROVE  Has(r, s, k + 1)
    BY <2>1 DEF Flow, NoGap, Has
  <2>2. CASE s # p \/ t # <<>>
    <3>1. Relayed(s)' = Relayed(s)
      BY <1>1, <1>3, <2>2 DEF Relayed
    <3> QED
      BY <2>1, <3>1
  <2>3. CASE s = p /\ t = <<>>
    <3>1. Relayed(p)' = frame[p] /\ Relayed(p) = frame[p] - 1 /\ rx[p] \in Sending /\ frame[p] \in Int
      BY <1>1, <1>3, <2>3 DEF Relayed, Sending, Flow, TypeOK
    <3>2. m_active[r] => Has(r, p, frame[p])
      <4>1. m_active[r] => ~Coming(p, r)
        BY <1>3, <1>5, <2>3
      <4> QED
        BY <2>3, <3>1, <4>1 DEF Flow, Served, Stands
    <3>3. m <= frame[p] => m = frame[p] \/ m <= frame[p] - 1
      BY <3>1
    <3> QED
      BY <2>1, <2>3, <3>1, <3>2, <3>3
  <2> QED
    BY <2>2, <2>3
<1> QED
  BY <1>7, <1>8, <1>9, <1>10, <1>11, <1>12, <1>13, <1>14 DEF Flow

\* A session begins: it has sent nothing, and nothing is on its way to it.
LEMMA FlowAccepts == ASSUME Flow, IInv, TypeOK', NEW p \in Peer, Accept(p) PROVE Flow'
<1>1. /\ UNCHANGED <<got, wire, msg, m_txQueue, m_clients, snapshot, peer, owner, stopping, frame, rcvd>>
      /\ accepter = "accept" /\ rx[p] = "none" /\ peer[p] # "idle"
      /\ m_active' = [m_active EXCEPT ![p] = TRUE]
      /\ m_socket' = [m_socket EXCEPT ![p] = "open"]
      /\ rx' = [rx EXCEPT ![p] = "check"]
      /\ tx' = [tx EXCEPT ![p] = "lock"]
      /\ accepted' = <<p>>
  BY DEF Accept, netVars
<1>2. /\ DOMAIN rx = Peer /\ DOMAIN tx = Peer /\ DOMAIN m_active = Peer /\ DOMAIN m_socket = Peer
      /\ m_clients \in Seq(Peer)
      /\ \A s \in Peer : frame[s] \in Nat
  BY DEF Flow, TypeOK
<1>3. /\ \A s \in Peer : rx'[s] = IF s = p THEN "check" ELSE rx[s]
      /\ \A s \in Peer : tx'[s] = IF s = p THEN "lock" ELSE tx[s]
      /\ \A s \in Peer : s # p => m_active'[s] = m_active[s]
      /\ \A s \in Peer : m_socket'[s] = IF s = p THEN "open" ELSE m_socket[s]
      /\ Elements(accepted') = {p}
  BY <1>1, <1>2, ElementsOfOne
<1>4. /\ accepted = <<>> /\ Elements(accepted) = {}
      /\ m_socket[p] = "none" /\ tx[p] = "none"
      /\ \A s \in Elements(m_clients) : rx[s] # "none"
      /\ owner \in {"idle", "join"}
  <2>1. accepted = <<>> /\ owner \in {"idle", "join"}
    BY <1>1 DEF IInv, Phases
  <2>2. Known = Elements(m_clients)
    BY <1>2, <2>1, NoneMore DEF Known
  <2>3. Elements(m_clients) \subseteq Peer
    BY <1>2, ElementOfSeq DEF Elements
  <2> QED
    BY <1>1, <2>1, <2>2, <2>3, ElementsOfNone DEF IInv, Accounted, Fresh
<1>5. Stream(p) = <<>> /\ frame[p] = 0 /\ rcvd[p] = 0
  BY <1>1, <1>4 DEF Flow, Hands, Counts
<1>6. \A q \in Peer : Stream(q)' = Stream(q)
  BY <1>1, Unmoved
<1>7. \A q \in Peer, k \in 1..MaxFrames : ~Has(p, q, k) /\ ~Has(q, p, k)
  <2>1. \A q \in Peer, k \in 1..MaxFrames : ~Has(p, q, k)
    BY <1>5, ElementsOfNone DEF Has
  <2>2. \A q \in Peer, k \in 1..MaxFrames : ~Has(q, p, k)
    BY <1>5 DEF Flow, Below
  <2> QED
    BY <2>1, <2>2
<1>8. /\ \A s, q \in Peer : Coming(s, q)' => Coming(s, q)
      /\ \A s, q \in Peer : s # p => (Coming(s, q)' <=> Coming(s, q)) /\ Relayed(s)' = Relayed(s)
  BY <1>1, <1>3 DEF Coming, Relayed
<1>9. Lists'
  <2>1. ASSUME NEW s \in Peer, NEW q \in Elements(snapshot[s])
        PROVE  q # s /\ q # p /\ rx'[q] # "none"
    <3>1. q \in Peer
      BY SnapshotPeers DEF Flow
    <3> QED
      BY <1>1, <1>3, <3>1 DEF Flow, Lists
  <2>2. Elements(m_clients) \intersect {p} = {}
    BY <1>1, <1>4
  <2> QED
    BY <1>1, <1>3, <2>1, <2>2 DEF Flow, Lists, Handing
<1>10. Hands'
  BY <1>1, <1>3, <1>4, <1>5, <1>6 DEF Flow, Hands
<1>11. Counts'
  BY <1>1, <1>3, <1>5 DEF Flow, Counts, Sending
<1>12. Stops'
  BY <1>1, <1>3 DEF Flow, Stops
<1>13. Below'
  BY <1>1, <1>6, <1>8 DEF Flow, Below, Has
<1>14. Rising'
  BY <1>6 DEF Flow, Rising
<1>15. Served'
  <2> SUFFICES ASSUME NEW q \in Peer, NEW s \in Peer, m_active'[q], Stands(q)', rx'[s] \in Sending,
                      NEW k \in 1..MaxFrames, Has(q, s, k)'
               PROVE  Coming(s, q)' \/ <<s, frame'[s]>> \in Elements(Stream(q)')
    BY DEF Served, Has
  <2>1. Has(q, s, k) /\ q # p /\ s # p
    BY <1>6, <1>7 DEF Has
  <2>2. m_active[q] /\ Stands(q) /\ rx[s] \in Sending
    BY <1>1, <1>3, <2>1 DEF Stands
  <2>3. Coming(s, q) \/ Has(q, s, frame[s])
    BY <2>1, <2>2 DEF Flow, Served
  <2> QED
    BY <1>1, <1>6, <1>8, <2>1, <2>3 DEF Has
<1>16. NoGap'
  <2> SUFFICES ASSUME NEW q \in Peer, NEW s \in Peer,
                      peer'[q] = "open", m_socket'[q] = "open", m_socket'[s] = "open",
                      NEW k \in 1..MaxFrames, NEW m \in 1..MaxFrames, k < m,
                      <<s, k>> \in Elements(Stream(q)'),
                      <<s, m>> \in Elements(Stream(q)') \/ (m_active'[q] /\ m <= Relayed(s)')
               PROVE  <<s, k + 1>> \in Elements(Stream(q)')
    BY DEF NoGap
  <2>1. Has(q, s, k) /\ q # p /\ s # p
    BY <1>6, <1>7 DEF Has
  <2>2. peer[q] = "open" /\ m_socket[q] = "open" /\ m_socket[s] = "open"
    BY <1>1, <1>3, <2>1
  <2>3. <<s, m>> \in Elements(Stream(q)) \/ (m_active[q] /\ m <= Relayed(s))
    BY <1>3, <1>6, <1>8, <2>1
  <2> QED
    BY <1>6, <2>1, <2>2, <2>3 DEF Flow, NoGap, Has
<1> QED
  BY <1>9, <1>10, <1>11, <1>12, <1>13, <1>14, <1>15, <1>16 DEF Flow

-----------------------------------------------------------------------------

LEMMA FlowInitially == Init => Flow
<1> SUFFICES ASSUME Init PROVE Flow
  OBVIOUS
<1> USE DEF Init
<1>1. <<>> \in Seq(Peer) /\ <<>> \in Seq(Frame) /\ Len(<<>>) = 0 /\ NoDup(<<>>) /\ Elements(<<>>) = {}
  BY EmptySeq, ElementsOfNone DEF NoDup
<1>2. TypeOK
  <2>1. /\ MaxFrames \in Nat /\ TX_HWM_BYTES \in Nat /\ WireCap \in Nat
        /\ 0 \in 0..MaxFrames /\ 0 \in 0..TX_HWM_BYTES
    BY FramingServerAssumption
  <2> QED
    BY <1>1, <2>1, BytesOfNone DEF TypeOK, TxAccounting
<1>3. \A q \in Peer : Stream(q) = <<>>
  BY ConcatEmptySeq, <1>1 DEF Stream
<1>4. Lists /\ Stops
  BY <1>1 DEF Lists, Stops, Handing
<1>5. Hands
  BY <1>3 DEF Hands
<1>6. Counts
  BY DEF Counts, Sending
<1>7. \A q, s \in Peer, k \in Int : ~Has(q, s, k)
  BY <1>1, <1>3 DEF Has
<1>8. Below
  BY <1>7 DEF Below
<1>9. Rising
  BY <1>1, <1>3 DEF Rising, Ascending
<1>10. Served
  BY <1>7 DEF Served
<1>11. NoGap
  BY <1>7 DEF NoGap, Has
<1> QED
  BY <1>2, <1>4, <1>5, <1>6, <1>8, <1>9, <1>10, <1>11 DEF Flow

LEMMA FlowKept == ASSUME IInv, Flow, Solid, [Next]_vars PROVE Flow'
<1>1. TypeOK'
  BY TypesKept
<1>2. CASE Accepter
  BY <1>1, <1>2, FlowAccepts, MildAccept DEF Accepter
<1>3. ASSUME NEW p \in Peer, RecvLoop(p) PROVE Flow'
  BY <1>1, <1>3, MildRecv, FlowReceives, FlowBroadcasts, FlowQueues, FlowGoesOn DEF RecvLoop
<1>4. ASSUME NEW q \in Peer, SendLoop(q) PROVE Flow'
  BY <1>1, <1>4, MildSend
<1>5. CASE StopCalled \/ Stop
  BY <1>1, <1>5, MildStop
<1>6. CASE Clients
  BY <1>1, <1>6, MildClients
<1>7. CASE UNCHANGED vars
  <2>1. Drains
    BY <1>7, AllStill DEF Flow, vars, sessVars, threadVars, netVars
  <2>2. Listed /\ Stops'
    BY <1>7, SameList, SameStops DEF vars, sessVars, srvVars
  <2>3. Mild
    BY <1>7 DEF Flow, Hands, TypeOK, Mild, Stands, Sending, vars, sessVars, threadVars, netVars
  <2> QED
    BY <1>1, <2>1, <2>2, <2>3, MildKeeps
<1> QED
  BY <1>2, <1>3, <1>4, <1>5, <1>6, <1>7 DEF Next

(* Every step of the threads, of Stop and of the clients keeps the lists of sessions
   free of doubles, the counters of frames, and what is where in the streams. *)
THEOREM FlowInductive == Spec => []Flow
<1>1. Init => Solid
  BY DEF Init, Solid, Full
<1>2. Flow /\ Solid /\ [Next]_vars => Solid'
  BY SolidKept DEF Flow
<1> QED
  BY <1>1, <1>2, FlowInitially, FlowKept, Inductive, PTL DEF Spec

(* Whoever runs when, the frames of one client reach each other client in the order
   they were sent, none twice and none left out while the connections stand, never its
   sender, and m_txBytesQueued is what the queue holds, within TX_HWM_BYTES. *)
THEOREM Invariant == Spec => []Inv
<1>1. ASSUME Flow PROVE Inv
  <2>1. InOrder
    <3> SUFFICES ASSUME NEW q \in Peer,
                        NEW i \in DOMAIN Stream(q), NEW j \in DOMAIN Stream(q)
                 PROVE  /\ Stream(q)[i][1] # q
                        /\ i < j /\ Stream(q)[i][1] = Stream(q)[j][1] =>
                             Stream(q)[i][2] < Stream(q)[j][2]
      BY DEF InOrder
    <3>1. Stream(q) \in Seq(Frame) /\ DOMAIN Stream(q) = 1..Len(Stream(q))
      BY <1>1, StreamType, LenProperties DEF Flow
    <3>2. Stream(q)[i] \in Frame
      BY <3>1, ElementOfSeq
    <3>3. PICK s \in Peer, k \in 1..MaxFrames : Stream(q)[i] = <<s, k>>
      BY <3>2 DEF Frame
    <3>4. Has(q, s, k)
      BY <3>1, <3>3 DEF Has, Elements
    <3>5. s # q
      BY <1>1, <3>4 DEF Flow, Below
    <3>6. Ascending(Stream(q))
      BY <1>1 DEF Flow, Rising
    <3> QED
      BY <3>1, <3>3, <3>5, <3>6 DEF Ascending
  <2> QED
    BY <1>1, <2>1 DEF Inv, Flow
<1> QED
  BY <1>1, FlowInductive, PTL
=============================================================================
