------------------------- MODULE ThreadClientProofs -------------------------
(***************************************************************************)
(* The five clients send their lines in order and the iocp client has one  *)
(* send in flight, for any number of lines, any size of a line and of the  *)
(* send buffer, and any set of kinds.                                      *)
(***************************************************************************)
EXTENDS ThreadClient, Integers, SequenceTheorems, TLAPS

Completion == {"recv", "send", "null"} \X Int

(* What the proof needs of the types. *)
Types ==
    /\ m_sendQueue \in Seq(Nat)
    /\ ofs \in Nat /\ typed \in Nat /\ sending \in Nat /\ unread \in Int
    /\ up \in Seq(Nat \X Nat) /\ Len(up) <= SndBuf
    /\ heard \in Seq(Nat \X Nat)
    /\ DOMAIN pc = {"console", "net"}
    /\ port \in Seq(Completion)

\* The net thread has not tried to connect yet.
Early == {"none", "startup", "open", "connect"}

\* Nothing more can be sent: the connection was shut down, reset or closed, or
\* there is none.
Dead == shut \/ server = "reset" \/ (~m_socket /\ pc["net"] \notin Early)

\* Labels of one client alone.
IocpLabel == {"associate", "activate", "post", "runsend", "spawn", "repost", "kick"}
SelectLabel == {"readers", "receive", "writers", "sendmsg"}

(* The worker and the operations of the iocp client are its own, and begin after it
   has connected. *)
IocpPlaces ==
    /\ kind # "iocp" => pc["net"] \notin IocpLabel
    /\ kind # "iocp" \/ pc["net"] \in Early =>
         worker = "none" /\ sending = 0 /\ port = <<>> /\ ~receiving

(* The blocking client has no line but the one it sends. *)
BlockingPlaces ==
    /\ pc["console"] = "dial" => pc["net"] = "none" /\ server = "open" /\ ~m_socket
    /\ pc["console"] = "send" => kind = "blocking"
    /\ kind = "blocking" =>
         /\ IF pc["console"] = "send" THEN Len(m_sendQueue) = 1 ELSE m_sendQueue = <<>>
         /\ pc["console"] # "dial" => pc["net"] \notin Early

(* The select client asks for writability, and sends, with a line in hand. *)
SelectPlaces ==
    /\ pc["net"] \in SelectLabel => kind = "select"
    /\ kind = "select" =>
         /\ ~m_epoll
         /\ pc["net"] = "asleep" /\ wantOut => m_sendQueue # <<>>
         /\ pc["net"] \in SelectLabel /\ "OUT" \in event => m_sendQueue # <<>>
         /\ pc["net"] = "sendmsg" => m_sendQueue # <<>>

Places == IocpPlaces /\ BlockingPlaces /\ SelectPlaces

\* How many completions of sends there are: none, at most one.
NoneIn(p) == \A i \in 1..Len(p) : p[i][1] # "send"
OneIn(p) == \A i, j \in 1..Len(p) : p[i][1] = "send" /\ p[j][1] = "send" => i = j

\* Somebody has the send of the iocp client.
Busy == worker = "kick" \/ pc["net"] = "kick" \/ sending > 0 \/ ~NoneIn(port)

(* One at a time has it. *)
Exclusive ==
    /\ Busy => m_sendInFlight /\ m_sendQueue # <<>>
    /\ worker = "kick" => pc["net"] # "kick" /\ sending = 0 /\ NoneIn(port)
    /\ pc["net"] = "kick" => sending = 0 /\ NoneIn(port)
    /\ sending > 0 => NoneIn(port)
    /\ OneIn(port)

Wire == heard \o up

Follows(w) == \A i \in 1..Len(w) : w[i] = IF i = 1 THEN <<1, 1>> ELSE ByteAfter(w[i - 1])

\* The byte that may come next.
Expected(w) == IF w = <<>> THEN <<1, 1>> ELSE ByteAfter(w[Len(w)])

\* The byte at which the queue begins.
Front(q, n, t) == IF q = <<>> THEN <<t + 1, 1>> ELSE <<Head(q), n + 1>>

(* The queue holds consecutive lines up to the last one typed. *)
Consecutive(q, t) == \A i \in 1..Len(q) : q[i] + Len(q) = t + i

(* The wire and the queue: where the one ends the other begins, until nothing can be
   sent; in between a completion tells how much of the front line is on the wire. *)
InStep ==
    /\ ofs < LineSize
    /\ m_sendQueue = <<>> => ofs = 0
    /\ sending > 0 => sending = LineSize - ofs
    /\ Follows(Wire)
    /\ ~Dead => Consecutive(m_sendQueue, typed)
    /\ (~Dead \/ (sending > 0 /\ server # "reset")) /\ NoneIn(port) =>
         Expected(Wire) = Front(m_sendQueue, ofs, typed)
    /\ ~Dead => \A i \in 1..Len(port) : port[i][1] = "send" =>
         /\ port[i][2] \in 1..(LineSize - ofs)
         /\ Expected(Wire) = ByteAfter(<<Head(m_sendQueue), ofs + port[i][2]>>)

(* The inductive invariant. *)
IInv == Types /\ Places /\ Exclusive /\ InStep

-----------------------------------------------------------------------------

(* The elements of a concatenation. *)
LEMMA ConcatFacts ==
    ASSUME NEW S, NEW q \in Seq(S), NEW c \in Seq(S)
    PROVE  /\ q \o c \in Seq(S)
           /\ Len(q \o c) = Len(q) + Len(c)
           /\ \A i \in 1..Len(q) : (q \o c)[i] = q[i]
           /\ \A i \in (Len(q) + 1)..(Len(q) + Len(c)) : (q \o c)[i] = c[i - Len(q)]
  OBVIOUS

(* What is left of a sequence without its first element. *)
LEMMA TailFacts ==
    ASSUME NEW S, NEW q \in Seq(S), q # <<>>
    PROVE  /\ Tail(q) \in Seq(S) /\ Len(Tail(q)) = Len(q) - 1
           /\ Head(q) = q[1] /\ Head(q) \in S
           /\ Len(q) \in Nat /\ Len(q) > 0
           /\ \A i \in 1..Len(Tail(q)) : Tail(q)[i] = q[i + 1]
  OBVIOUS

(* The head of a sequence with one element more. *)
LEMMA AppendHead ==
    ASSUME NEW S, NEW q \in Seq(S), NEW e \in S
    PROVE  Head(Append(q, e)) = IF q = <<>> THEN e ELSE Head(q)
<1>1. CASE q = <<>>
  BY <1>1
<1>2. CASE q # <<>>
  BY <1>2, AppendProperties
<1> QED  BY <1>1, <1>2

(* Some bytes of a line. *)
LEMMA BytesFacts ==
    ASSUME NEW n \in Nat, NEW a \in Nat, NEW b \in Nat, a <= b + 1
    PROVE  /\ Bytes(n, a, b) \in Seq(Nat \X Nat)
           /\ Len(Bytes(n, a, b)) = b - a + 1
           /\ \A i \in 1..(b - a + 1) : Bytes(n, a, b)[i] = <<n, a + i - 1>>
<1>1. b - a + 1 \in Nat
  OBVIOUS
<1>2. \A i \in 1..(b - a + 1) : <<n, a + i - 1>> \in Nat \X Nat
  OBVIOUS
<1> QED  BY <1>1, <1>2 DEF Bytes

(* If the wire can go on with byte a of line n, it can go on with a..b, and then
   with the byte after b. *)
LEMMA SendFacts ==
    ASSUME NEW w \in Seq(Nat \X Nat), Follows(w),
           NEW n \in Nat, NEW a \in Nat, NEW b \in Nat, a <= b, b <= LineSize,
           Expected(w) = <<n, a>>
    PROVE  LET v == w \o Bytes(n, a, b)
           IN  /\ v \in Seq(Nat \X Nat)
               /\ Follows(v)
               /\ Expected(v) = ByteAfter(<<n, b>>)
<1> DEFINE c == Bytes(n, a, b)
           v == w \o c
<1>0. LineSize \in Nat
  BY LoopAssumption
<1>1. /\ c \in Seq(Nat \X Nat) /\ Len(c) = b - a + 1
      /\ \A i \in 1..(b - a + 1) : c[i] = <<n, a + i - 1>>
  <2>1. a <= b + 1
    OBVIOUS
  <2> QED  BY <2>1, BytesFacts
<1> HIDE DEF c
<1>2. /\ v \in Seq(Nat \X Nat)
      /\ Len(v) = Len(w) + Len(c)
      /\ \A i \in 1..Len(w) : v[i] = w[i]
      /\ \A i \in (Len(w) + 1)..(Len(w) + Len(c)) : v[i] = c[i - Len(w)]
  BY <1>1, ConcatFacts
<1>3. Len(w) \in Nat
  OBVIOUS
<1> HIDE DEF v
<1>4. \A i \in (Len(w) + 1)..Len(v) : v[i] = <<n, a + (i - Len(w)) - 1>>
  <2> SUFFICES ASSUME NEW i \in (Len(w) + 1)..Len(v) PROVE v[i] = <<n, a + (i - Len(w)) - 1>>
    OBVIOUS
  <2>1. i - Len(w) \in 1..(b - a + 1)
    BY <1>1, <1>2, <1>3
  <2> QED  BY <1>1, <1>2, <2>1
<1>5. Follows(v)
  <2> SUFFICES ASSUME NEW i \in 1..Len(v)
               PROVE  v[i] = IF i = 1 THEN <<1, 1>> ELSE ByteAfter(v[i - 1])
    BY DEF Follows
  <2>1. CASE i \in 1..Len(w)
    <3>1. i # 1 => i - 1 \in 1..Len(w)
      BY <2>1, <1>3
    <3> QED  BY <2>1, <3>1, <1>2 DEF Follows
  <2>2. CASE i = Len(w) + 1
    <3>1. v[i] = <<n, a>>
      <4>1. v[i] = <<n, a + (i - Len(w)) - 1>>
        <5>1. Len(v) \in Int
          BY <1>1, <1>2, <1>3
        <5>2. i \in (Len(w) + 1)..Len(v)
          BY <2>2, <1>3, <5>1
        <5> QED  BY <5>2, <1>4
      <4>2. a + (i - Len(w)) - 1 = a
        BY <2>2, <1>3
      <4> QED  BY <4>1, <4>2
    <3>2. CASE w = <<>>
      BY <3>1, <3>2, <2>2 DEF Expected
    <3>3. CASE w # <<>>
      <4>1. i # 1 /\ i - 1 = Len(w) /\ Len(w) \in 1..Len(w)
        BY <2>2, <3>3, <1>3
      <4>2. v[i - 1] = w[Len(w)]
        BY <4>1, <1>2
      <4> QED  BY <3>1, <3>3, <4>1, <4>2 DEF Expected
    <3> QED  BY <3>2, <3>3
  <2>3. CASE i > Len(w) + 1
    <3>1. i # 1 /\ i \in (Len(w) + 1)..Len(v) /\ i - 1 \in (Len(w) + 1)..Len(v)
      <4>1. Len(v) \in Int
        BY <1>1, <1>2, <1>3
      <4> QED  BY <2>3, <1>3, <4>1
    <3>2. v[i] = <<n, a + (i - Len(w)) - 1>> /\ v[i - 1] = <<n, a + (i - 1 - Len(w)) - 1>>
      BY <3>1, <1>4
    <3>3. i - Len(w) <= b - a + 1
      BY <1>1, <1>2, <1>3
    <3>4. a + (i - 1 - Len(w)) - 1 # LineSize
      BY <3>3, <1>0, <1>3
    <3>5. a + (i - 1 - Len(w)) - 1 + 1 = a + (i - Len(w)) - 1
      BY <1>3
    <3> QED  BY <3>1, <3>2, <3>4, <3>5 DEF ByteAfter
  <2> QED  BY <2>1, <2>2, <2>3, <1>2, <1>3
<1>6. Expected(v) = ByteAfter(<<n, b>>)
  <2>1. Len(v) \in (Len(w) + 1)..Len(v) /\ v # <<>>
    <3>1. Len(v) \in Nat /\ Len(v) > Len(w)
      <4>1. Len(v) = Len(w) + (b - a + 1)
        BY <1>1, <1>2
      <4> QED  BY ONLY <4>1, <1>3, a \in Nat, b \in Nat, a <= b
    <3>2. Len(v) # 0
      BY <3>1, <1>3
    <3> QED  BY <3>1, <3>2, <1>3, EmptySeq
  <2>2. v[Len(v)] = <<n, a + (Len(v) - Len(w)) - 1>>
    BY <2>1, <1>4
  <2>3. a + (Len(v) - Len(w)) - 1 = b
    BY <1>1, <1>2, <1>3
  <2> QED  BY <2>1, <2>2, <2>3 DEF Expected
<1> QED  BY <1>2, <1>5, <1>6 DEF v, c

-----------------------------------------------------------------------------
(* Steps that neither send nor queue nor complete. *)

Quiet ==
    /\ UNCHANGED <<kind, m_sendQueue, ofs, typed, up, heard, sending, port>>
    /\ m_sendInFlight => m_sendInFlight'
    /\ DOMAIN pc' = {"console", "net"} /\ unread' \in Int
    /\ Dead => Dead'
    /\ server = "reset" => server' = "reset"
    /\ worker' = "kick" => worker = "kick"
    /\ pc'["net"] = "kick" => pc["net"] = "kick"

(* They preserve the invariant, if everybody is in place after them. *)
LEMMA QuietStep ==
    ASSUME IInv, Quiet, Places'
    PROVE  IInv'
<1> USE DEF Quiet
<1>1. Types'
  BY DEF IInv, Types
<1>2. Busy' => Busy
  BY DEF Busy
<1>3. Exclusive'
  BY <1>2 DEF IInv, Exclusive, Busy
<1>4. Wire' = Wire
  BY DEF Wire
<1>5. InStep'
  <2> HIDE DEF Dead, Wire
  <2> QED  BY <1>4 DEF IInv, InStep
<1> QED  BY <1>1, <1>3, <1>5 DEF IInv

(* Stop, but for what the iocp and the blocking client do otherwise. *)
LEMMA StopQuiet ==
    ASSUME Types, Places, NEW t \in {"console", "net"}, UNCHANGED threadVars, Stop(t)
    PROVE  Quiet /\ Places'
<1> USE DEF Types, Places, IocpPlaces, BlockingPlaces, SelectPlaces, Quiet, Dead, Early, IocpLabel,
            SelectLabel, LoopKinds, At, Go, AfterStop, AfterSocket, handleVars, queueVars, kernelVars,
            netVars, threadVars, workerVars, ioVars
<1>1. CASE StopBegin(t)
  BY <1>1 DEF StopBegin
<1>2. CASE StopTest(t)
  BY <1>2 DEF StopTest
<1>3. CASE StopShutdown(t)
  BY <1>3 DEF StopShutdown
<1>4. CASE StopClose(t)
  BY <1>4 DEF StopClose
<1>5. CASE StopEpoll(t)
  BY <1>5 DEF StopEpoll
<1>6. CASE StopWinsock(t)
  BY <1>6 DEF StopWinsock
<1> QED  BY <1>1, <1>2, <1>3, <1>4, <1>5, <1>6 DEF Stop

(* The console, but for Send. *)
LEMMA ConsoleQuiet ==
    ASSUME Types, Places, UNCHANGED threadVars,
           \/ Type \/ ModWritable \/ \E out \in BOOLEAN : EpollMod(out) \/ Join
    PROVE  Quiet /\ Places'
<1> USE DEF Types, Places, IocpPlaces, BlockingPlaces, SelectPlaces, Quiet, Dead, Early, IocpLabel,
            SelectLabel, LoopKinds, At, Go, AfterStop, AfterSocket, handleVars, queueVars, kernelVars,
            netVars, threadVars, workerVars, ioVars
<1>1. CASE Type
  BY <1>1 DEF Type
<1>2. CASE ModWritable
  BY <1>2 DEF ModWritable
<1>3. CASE \E out \in BOOLEAN : EpollMod(out)
  BY <1>3 DEF EpollMod
<1>4. CASE Join
  BY <1>4 DEF Join
<1> QED  BY <1>1, <1>2, <1>3, <1>4

(* Start and the loop of the poll and epoll clients, but for what is sent. *)
LEMMA NetQuiet ==
    ASSUME Types, Places, kind \in LoopKinds, UNCHANGED threadVars,
           \/ CreateConnection \/ SetNonBlocking \/ SetRunning \/ CreatePoll \/ CreateEpoll
           \/ AddSockToEpoll \/ LoopTest \/ LoopWaits \/ PollReturns \/ PollTimeout
           \/ EpollReturns \/ HandleConnection \/ RecvData \/ RecvAgain \/ RecvEnd
           \/ Write \/ SendReturns \/ SendFails \/ DropWritable
    PROVE  Quiet /\ Places'
<1> USE DEF Types, Places, IocpPlaces, BlockingPlaces, SelectPlaces, Quiet, Dead, Early, IocpLabel,
            SelectLabel, LoopKinds, At, Go, AfterStop, AfterSocket, handleVars, queueVars, kernelVars,
            netVars, threadVars, workerVars, ioVars
<1>1. CASE CreateConnection
  BY <1>1 DEF CreateConnection
<1>2. CASE SetNonBlocking
  BY <1>2 DEF SetNonBlocking
<1>3. CASE SetRunning
  BY <1>3 DEF SetRunning
<1>4. CASE CreatePoll
  BY <1>4 DEF CreatePoll
<1>5. CASE CreateEpoll
  BY <1>5 DEF CreateEpoll
<1>6. CASE AddSockToEpoll
  BY <1>6 DEF AddSockToEpoll
<1>7. CASE LoopTest
  BY <1>7 DEF LoopTest
<1>8. CASE LoopWaits
  BY <1>8 DEF LoopWaits
<1>9. CASE PollReturns
  BY <1>9 DEF PollReturns, Events
<1>10. CASE PollTimeout
  BY <1>10 DEF PollTimeout
<1>11. CASE EpollReturns
  BY <1>11 DEF EpollReturns
<1>12. CASE HandleConnection
  BY <1>12 DEF HandleConnection
<1>13. CASE RecvData
  BY <1>13 DEF RecvData
<1>14. CASE RecvAgain
  BY <1>14 DEF RecvAgain, AfterRead
<1>15. CASE RecvEnd
  BY <1>15 DEF RecvEnd
<1>16. CASE Write
  BY <1>16 DEF Write
<1>17. CASE SendReturns
  BY <1>17 DEF SendReturns, WriteReturns
<1>18. CASE SendFails
  BY <1>18 DEF SendFails
<1>19. CASE DropWritable
  BY <1>19 DEF DropWritable
<1> QED  BY <1>1, <1>2, <1>3, <1>4, <1>5, <1>6, <1>7, <1>8, <1>9, <1>10, <1>11, <1>12, <1>13, <1>14, <1>15, <1>16, <1>17, <1>18, <1>19

(* The loop of the select client, but for SendMsg. *)
LEMMA SelectQuiet ==
    ASSUME Types, Places, kind \in LoopKinds, UNCHANGED threadVars,
           \/ SelectStart \/ SelectConnect \/ BuildFdSets \/ SelectReturns \/ SelectTimeout
           \/ HandleReadyReceivers \/ ReceiveMsg \/ ReceiveMsgEnds \/ HandleReadyWriters \/ SendMsgFails
    PROVE  Quiet /\ Places'
<1> USE DEF Types, Places, IocpPlaces, BlockingPlaces, SelectPlaces, Quiet, Dead, Early, IocpLabel,
            SelectLabel, LoopKinds, At, Go, AfterStop, AfterSocket, handleVars, queueVars, kernelVars,
            netVars, threadVars, workerVars, ioVars
<1>1. CASE SelectStart
  BY <1>1 DEF SelectStart
<1>2. CASE SelectConnect
  BY <1>2 DEF SelectConnect
<1>3. CASE BuildFdSets
  BY <1>3 DEF BuildFdSets
<1>4. CASE SelectReturns
  BY <1>4 DEF SelectReturns, Events
<1>5. CASE SelectTimeout
  BY <1>5 DEF SelectTimeout
<1>6. CASE HandleReadyReceivers
  BY <1>6 DEF HandleReadyReceivers
<1>7. CASE ReceiveMsg
  BY <1>7 DEF ReceiveMsg
<1>8. CASE ReceiveMsgEnds
  BY <1>8 DEF ReceiveMsgEnds
<1>9. CASE HandleReadyWriters
  BY <1>9 DEF HandleReadyWriters
<1>10. CASE SendMsgFails
  BY <1>10 DEF SendMsgFails
<1> QED  BY <1>1, <1>2, <1>3, <1>4, <1>5, <1>6, <1>7, <1>8, <1>9, <1>10

(* What else happens to the clients. *)
LEMMA EventQuiet ==
    ASSUME Types, Places, UNCHANGED threadVars,
           \/ WaitFails \/ QueueRace \/ ServerSends \/ ServerCloses
    PROVE  Quiet /\ Places'
<1> USE DEF Types, Places, IocpPlaces, BlockingPlaces, SelectPlaces, Quiet, Dead, Early, IocpLabel,
            SelectLabel, LoopKinds, At, Go, AfterStop, AfterSocket, handleVars, queueVars, kernelVars,
            netVars, threadVars, workerVars, ioVars
<1>1. CASE WaitFails
  BY <1>1 DEF WaitFails
<1>2. CASE QueueRace
  BY <1>2 DEF QueueRace
<1>3. CASE ServerSends
  BY <1>3 DEF ServerSends
<1>4. CASE ServerCloses
  BY <1>4 DEF ServerCloses
<1> QED  BY <1>1, <1>2, <1>3, <1>4

(* The net thread of the iocp client, but for what it completes. *)
LEMMA IocpQuiet ==
    ASSUME Types, Places, \/ IocpConnect \/ AssociateHandle \/ Activate \/ FirstPost \/ RunSend
           \/ Spawn \/ ActiveTest \/ NextPost
    PROVE  Quiet /\ Places'
<1> USE DEF Types, Places, IocpPlaces, BlockingPlaces, SelectPlaces, Quiet, Dead, Early, IocpLabel,
            SelectLabel, LoopKinds, At, Go, AfterStop, AfterSocket, handleVars, queueVars, kernelVars,
            netVars, threadVars, workerVars, ioVars, butPc, Here, ThreadAt
<1>1. CASE IocpConnect
  BY <1>1 DEF IocpConnect
<1>2. CASE AssociateHandle
  BY <1>2 DEF AssociateHandle
<1>3. CASE Activate
  BY <1>3 DEF Activate
<1>4. CASE FirstPost
  BY <1>4 DEF FirstPost, PostRecv
<1>5. CASE RunSend
  BY <1>5 DEF RunSend
<1>6. CASE Spawn
  BY <1>6 DEF Spawn
<1>7. CASE ActiveTest
  BY <1>7 DEF ActiveTest
<1>8. CASE NextPost
  BY <1>8 DEF NextPost, PostRecv
<1> QED  BY <1>1, <1>2, <1>3, <1>4, <1>5, <1>6, <1>7, <1>8

(* The worker, but for its claim and KickSend; who notifies it, and who joins it. *)
LEMMA WorkerQuiet ==
    ASSUME Types, Places, \/ WorkerTest \/ (WorkerCheck /\ worker' # "kick") \/ WorkerSleeps
           \/ SendNotify \/ JoinRace
    PROVE  Quiet /\ Places'
<1> USE DEF Types, Places, IocpPlaces, BlockingPlaces, SelectPlaces, Quiet, Dead, Early, IocpLabel,
            SelectLabel, LoopKinds, At, Go, AfterStop, AfterSocket, handleVars, queueVars, kernelVars,
            netVars, threadVars, workerVars, ioVars, butPc, Here, ThreadAt
<1>1. CASE WorkerTest
  BY <1>1 DEF WorkerTest, vars
<1>2. CASE WorkerCheck /\ worker' # "kick"
  BY <1>2 DEF WorkerCheck, Claim
<1>3. CASE WorkerSleeps
  BY <1>3 DEF WorkerSleeps
<1>4. CASE SendNotify
  BY <1>4 DEF SendNotify, Notify
<1>5. CASE JoinRace
  BY <1>5 DEF JoinRace
<1> QED  BY <1>1, <1>2, <1>3, <1>4, <1>5

(* What the blocking client receives, and what is its own of Stop, or the iocp client's. *)
LEMMA ThreadQuiet ==
    ASSUME Types, Places, NEW t \in {"console", "net"},
           \/ ReceiveTest \/ BlockingRecv(t) \/ BlockingRecvEnds \/ ThreadStopBegin(t)
           \/ StopNotify(t) \/ StopCleanup(t) \/ JoinWorker(t)
    PROVE  Quiet /\ Places'
<1> USE DEF Types, Places, IocpPlaces, BlockingPlaces, SelectPlaces, Quiet, Dead, Early, IocpLabel,
            SelectLabel, LoopKinds, At, Go, AfterStop, AfterSocket, handleVars, queueVars, kernelVars,
            netVars, threadVars, workerVars, ioVars, butPc, Here, ThreadAt
<1>1. CASE ReceiveTest
  BY <1>1 DEF ReceiveTest
<1>2. CASE BlockingRecv(t)
  BY <1>2 DEF BlockingRecv
<1>3. CASE BlockingRecvEnds
  BY <1>3 DEF BlockingRecvEnds
<1>4. CASE ThreadStopBegin(t)
  BY <1>4 DEF ThreadStopBegin
<1>5. CASE StopNotify(t)
  BY <1>5 DEF StopNotify, Notify
<1>6. CASE StopCleanup(t)
  BY <1>6 DEF StopCleanup
<1>7. CASE JoinWorker(t)
  BY <1>7 DEF JoinWorker
<1> QED  BY <1>1, <1>2, <1>3, <1>4, <1>5, <1>6, <1>7

-----------------------------------------------------------------------------
(* Steps that send. *)

(* When the front line is sent, the next byte is the first one of the line behind it, or
   of the next one to be typed. *)
LEMMA PopFacts ==
    ASSUME NEW q \in Seq(Nat), q # <<>>, NEW t \in Nat, Consecutive(q, t)
    PROVE  /\ Consecutive(Tail(q), t)
           /\ ByteAfter(<<Head(q), LineSize>>) = Front(Tail(q), 0, t)
<1>1. /\ Tail(q) \in Seq(Nat) /\ Len(Tail(q)) = Len(q) - 1
      /\ Head(q) = q[1] /\ Head(q) \in Nat
      /\ Len(q) \in Nat /\ Len(q) > 0
      /\ \A i \in 1..Len(Tail(q)) : Tail(q)[i] = q[i + 1]
  BY TailFacts
<1>2. Consecutive(Tail(q), t)
  <2> SUFFICES ASSUME NEW i \in 1..Len(Tail(q)) PROVE Tail(q)[i] + Len(Tail(q)) = t + i
    BY DEF Consecutive
  <2>1. i \in Nat /\ i + 1 \in 1..Len(q)
    BY <1>1
  <2>2. q[i + 1] \in Nat /\ q[i + 1] + Len(q) = t + (i + 1)
    BY <2>1 DEF Consecutive
  <2>3. Tail(q)[i] = q[i + 1]
    BY <1>1
  <2>4. Len(Tail(q)) = Len(q) - 1 /\ Len(q) \in Nat
    BY <1>1
  <2>5. q[i + 1] + (Len(q) - 1) = t + i
    <3>1. i \in Nat /\ q[i + 1] \in Nat /\ Len(q) \in Nat /\ q[i + 1] + Len(q) = t + (i + 1)
      BY <2>1, <2>2, <2>4
    <3> QED  BY ONLY <3>1, t \in Nat
  <2> QED  BY <2>3, <2>4, <2>5
<1>3. ByteAfter(<<Head(q), LineSize>>) = <<Head(q) + 1, 1>>
  BY DEF ByteAfter
<1>4. Head(q) + Len(q) = t + 1
  BY <1>1 DEF Consecutive
<1>5. CASE Tail(q) = <<>>
  <2>1. Len(q) = 1
    <3>1. Len(Tail(q)) = Len(<<>>)
      BY <1>5, Zenon
    <3> QED  BY <3>1, <1>1, EmptySeq
  <2>2. Head(q) = t
    BY <2>1, <1>4, <1>1
  <2> QED  BY <1>2, <1>3, <1>5, <2>2 DEF Front
<1>6. CASE Tail(q) # <<>>
  <2>1. Len(Tail(q)) \in Nat /\ Len(Tail(q)) > 0 /\ Head(Tail(q)) = Tail(q)[1] /\ Head(Tail(q)) \in Nat
    BY <1>1, <1>6, TailFacts
  <2>2. Tail(q)[1] + Len(Tail(q)) = t + 1
    BY <1>2, <2>1 DEF Consecutive
  <2>3. Head(Tail(q)) = Head(q) + 1
    BY <2>1, <2>2, <1>1, <1>4
  <2>4. Front(Tail(q), 0, t) = <<Head(Tail(q)), 1>>
    BY <1>6 DEF Front
  <2> QED  BY <1>2, <1>3, <2>3, <2>4
<1> QED  BY <1>5, <1>6

(* Some bytes of the front line are put on the wire. *)
LEMMA PutFacts ==
    ASSUME Types, Follows(Wire), m_sendQueue # <<>>, NEW n \in 1..(LineSize - ofs),
           Expected(Wire) = <<Head(m_sendQueue), ofs + 1>>,
           heard' = heard, up' = up \o Bytes(Head(m_sendQueue), ofs + 1, ofs + n)
    PROVE  /\ up' \in Seq(Nat \X Nat) /\ Len(up') = Len(up) + n
           /\ Follows(Wire')
           /\ Expected(Wire') = ByteAfter(<<Head(m_sendQueue), ofs + n>>)
<1> DEFINE h == Head(m_sendQueue)
           c == Bytes(h, ofs + 1, ofs + n)
<1>1. h \in Nat /\ ofs \in Nat /\ LineSize \in Nat
  BY TailFacts, LoopAssumption DEF Types
<1> HIDE DEF h
<1>2. /\ n \in Nat /\ ofs + 1 \in Nat /\ ofs + n \in Nat
      /\ ofs + 1 <= (ofs + n) + 1 /\ ofs + 1 <= ofs + n /\ ofs + n <= LineSize /\ (ofs + n) - (ofs + 1) + 1 = n
  BY <1>1
<1>3. c \in Seq(Nat \X Nat) /\ Len(c) = n
  BY <1>1, <1>2, BytesFacts
<1>4. heard \in Seq(Nat \X Nat) /\ up \in Seq(Nat \X Nat) /\ up' = up \o c
  BY DEF Types, h
<1>5. up' \in Seq(Nat \X Nat) /\ Len(up') = Len(up) + n
  <2> HIDE DEF c
  <2> QED  BY <1>3, <1>4, ConcatFacts
<1>6. Wire \in Seq(Nat \X Nat) /\ Wire' = Wire \o c
  <2> HIDE DEF c
  <2>1. heard \o (up \o c) = (heard \o up) \o c
    <3> DEFINE S == Nat \X Nat
    <3>1. heard \in Seq(S) /\ up \in Seq(S) /\ c \in Seq(S)
      BY <1>3, <1>4
    <3> HIDE DEF S
    <3> QED  BY ONLY <3>1
  <2> QED  BY <2>1, <1>4, ConcatFacts DEF Wire
<1>7. Expected(Wire) = <<h, ofs + 1>>
  BY DEF h
<1>8. Follows(Wire \o c) /\ Expected(Wire \o c) = ByteAfter(<<h, ofs + n>>)
  <2> HIDE DEF Follows, Expected, Wire
  <2> QED  BY <1>1, <1>2, <1>6, <1>7, SendFacts
<1> QED  BY <1>5, <1>6, <1>8 DEF h

(* A client that sends in one thread sends some bytes. *)
LEMMA PutStep ==
    ASSUME IInv, ~Dead, kind # "iocp", m_sendQueue # <<>>, NEW n \in 1..(LineSize - ofs), n <= Space,
           heard' = heard, up' = up \o Bytes(Head(m_sendQueue), ofs + 1, ofs + n),
           IF ofs + n = LineSize THEN Pop ELSE Rest(n) /\ UNCHANGED m_sendQueue,
           UNCHANGED <<kind, typed, sending, port, unread, worker, m_sendInFlight>>,
           DOMAIN pc' = {"console", "net"}, Places'
    PROVE  IInv'
<1>1. Types /\ InStep /\ LineSize \in Nat /\ SndBuf \in Nat /\ ofs \in Nat /\ typed \in Nat
  BY LoopAssumption DEF IInv, Types
<1>2. worker = "none" /\ sending = 0 /\ port = <<>> /\ NoneIn(port) /\ pc'["net"] # "kick"
  BY DEF IInv, Places, IocpPlaces, IocpLabel, NoneIn
<1>3. Expected(Wire) = <<Head(m_sendQueue), ofs + 1>>
  BY <1>1, <1>2 DEF InStep, Front
<1>4. /\ up' \in Seq(Nat \X Nat) /\ Len(up') = Len(up) + n
      /\ Follows(Wire')
      /\ Expected(Wire') = ByteAfter(<<Head(m_sendQueue), ofs + n>>)
  BY <1>1, <1>3, PutFacts DEF InStep
<1>5. /\ Tail(m_sendQueue) \in Seq(Nat) /\ Head(m_sendQueue) \in Nat
      /\ Consecutive(Tail(m_sendQueue), typed)
      /\ ByteAfter(<<Head(m_sendQueue), LineSize>>) = Front(Tail(m_sendQueue), 0, typed)
  BY <1>1, PopFacts, TailFacts DEF InStep, Types
<1>6. m_sendQueue' \in Seq(Nat) /\ ofs' \in Nat /\ ofs' < LineSize /\ (m_sendQueue' = <<>> => ofs' = 0)
  <2>1. LineSize > 0
    BY LoopAssumption
  <2>2. CASE ofs + n = LineSize
    <3>1. m_sendQueue' = Tail(m_sendQueue) /\ ofs' = 0
      BY <2>2 DEF Pop
    <3>2. 0 \in Nat /\ 0 < LineSize
      BY <2>1
    <3> QED  BY <3>1, <3>2, <1>5
  <2>3. CASE ofs + n # LineSize
    <3>1. m_sendQueue' = m_sendQueue /\ ofs' = ofs + n
      BY <2>3 DEF Rest
    <3>2. m_sendQueue \in Seq(Nat)
      BY <1>1 DEF Types
    <3> QED  BY <2>3, <3>1, <3>2, <1>1
  <2> QED  BY <2>2, <2>3
<1>7. Consecutive(m_sendQueue', typed)
  BY <1>1, <1>5 DEF InStep, Pop, Rest
<1>8. Expected(Wire') = Front(m_sendQueue', ofs', typed)
  <2>1. CASE ofs + n = LineSize
    BY <2>1, <1>4, <1>5 DEF Pop
  <2>2. CASE ofs + n # LineSize
    <3>1. ByteAfter(<<Head(m_sendQueue), ofs + n>>) = <<Head(m_sendQueue), ofs + n + 1>>
      BY <2>2 DEF ByteAfter
    <3> QED  BY <2>2, <3>1, <1>4 DEF Rest, Front
  <2> QED  BY <2>1, <2>2
<1>9. Types'
  <2>1. Len(up') <= SndBuf
    BY <1>1, <1>4, LenProperties DEF Types, Space
  <2> QED  BY <2>1, <1>1, <1>4, <1>6 DEF Types
<1>10. Exclusive'
  BY <1>2 DEF Exclusive, Busy, NoneIn, OneIn
<1>11. InStep'
  BY <1>2, <1>4, <1>6, <1>7, <1>8 DEF InStep
<1> QED  BY <1>9, <1>10, <1>11 DEF IInv

(* A line is queued. *)
LEMMA QueueStep ==
    ASSUME IInv, m_sendQueue' = Append(m_sendQueue, typed + 1), typed' = typed + 1,
           UNCHANGED <<kind, ofs, sending, port, unread, worker, m_sendInFlight, up, heard, server>>,
           Dead => Dead', DOMAIN pc' = {"console", "net"}, pc'["net"] = pc["net"], Places'
    PROVE  IInv'
<1>1. Types /\ m_sendQueue \in Seq(Nat) /\ typed \in Nat /\ typed + 1 \in Nat /\ Len(m_sendQueue) \in Nat
  BY LenProperties DEF IInv, Types
<1>2. /\ m_sendQueue' \in Seq(Nat) /\ m_sendQueue' # <<>>
      /\ Len(m_sendQueue') = Len(m_sendQueue) + 1
      /\ \A i \in 1..Len(m_sendQueue) : m_sendQueue'[i] = m_sendQueue[i]
      /\ m_sendQueue'[Len(m_sendQueue) + 1] = typed + 1
  BY <1>1, AppendProperties
<1>3. Head(m_sendQueue') = IF m_sendQueue = <<>> THEN typed + 1 ELSE Head(m_sendQueue)
  BY <1>1, AppendHead
<1>4. Types'
  BY <1>1, <1>2 DEF Types
<1>5. Exclusive'
  BY <1>2 DEF IInv, Exclusive, Busy
<1>6. m_sendQueue = <<>> => ofs = 0
  BY DEF IInv, InStep
<1>7. Front(m_sendQueue', ofs', typed') = Front(m_sendQueue, ofs, typed)
  <2>1. Front(m_sendQueue', ofs', typed') = <<Head(m_sendQueue'), ofs + 1>>
    BY <1>2 DEF Front
  <2>2. CASE m_sendQueue = <<>>
    <3>1. Front(m_sendQueue, ofs, typed) = <<typed + 1, 1>>
      BY <2>2 DEF Front
    <3> QED  BY <2>1, <2>2, <3>1, <1>3, <1>6
  <2>3. CASE m_sendQueue # <<>>
    BY <2>1, <2>3, <1>3 DEF Front
  <2> QED  BY <2>2, <2>3
<1>8. Consecutive(m_sendQueue, typed) => Consecutive(m_sendQueue', typed')
  <2> SUFFICES ASSUME Consecutive(m_sendQueue, typed), NEW i \in 1..(Len(m_sendQueue) + 1)
               PROVE  m_sendQueue'[i] + (Len(m_sendQueue) + 1) = typed + 1 + i
    BY <1>2 DEF Consecutive
  <2>1. CASE i = Len(m_sendQueue) + 1
    BY <2>1, <1>1, <1>2
  <2>2. CASE i # Len(m_sendQueue) + 1
    <3>1. i \in 1..Len(m_sendQueue) /\ i \in Nat
      BY <2>2, <1>1
    <3>2. m_sendQueue'[i] = m_sendQueue[i] /\ m_sendQueue[i] \in Nat /\ m_sendQueue[i] + Len(m_sendQueue) = typed + i
      BY <3>1, <1>1, <1>2 DEF Consecutive
    <3>3. Len(m_sendQueue) \in Nat /\ typed \in Nat
      BY <1>1
    <3> QED  BY <3>1, <3>2, <3>3
  <2> QED  BY <2>1, <2>2
<1>9. Wire' = Wire
  BY DEF Wire
<1>10. (\E i \in 1..Len(port) : port[i][1] = "send") => m_sendQueue # <<>>
  BY DEF IInv, Exclusive, Busy, NoneIn
<1>11. InStep'
  <2> HIDE DEF Dead, Wire
  <2> QED  BY <1>2, <1>3, <1>6, <1>7, <1>8, <1>9, <1>10 DEF IInv, InStep
<1> QED  BY <1>4, <1>5, <1>11 DEF IInv

(* Where nothing can be sent any more, the wire only has to be in order. *)
LEMMA DeadStep ==
    ASSUME IInv, Types', Places', Exclusive', Dead', Wire' = Wire, sending' = 0,
           ofs' < LineSize, m_sendQueue' = <<>> => ofs' = 0
    PROVE  IInv'
<1>1. InStep'
  <2> HIDE DEF Dead, Wire
  <2> QED  BY DEF IInv, InStep
<1> QED  BY <1>1 DEF IInv

(* The server reads: the bytes stay on the wire. *)
LEMMA ServerReadsStep ==
    ASSUME IInv, ServerReads, UNCHANGED threadVars
    PROVE  IInv'
<1> USE DEF handleVars, queueVars, kernelVars, netVars, threadVars, workerVars, ioVars
<1>1. Types /\ heard \in Seq(Nat \X Nat) /\ up \in Seq(Nat \X Nat) /\ SndBuf \in Nat
  BY LoopAssumption DEF IInv, Types
<1>2. heard' \in Seq(Nat \X Nat) /\ up' \in Seq(Nat \X Nat) /\ Len(up') = 0
  BY <1>1, ConcatFacts, EmptySeq DEF ServerReads
<1>3. Types'
  BY <1>1, <1>2 DEF ServerReads, Types
<1>4. Places'
  BY DEF IInv, ServerReads, Places, IocpPlaces, BlockingPlaces, SelectPlaces
<1>5. Exclusive'
  BY DEF IInv, ServerReads, Exclusive, Busy
<1>6. Wire' = Wire
  <2> DEFINE S == Nat \X Nat
  <2>1. heard \in Seq(S) /\ up \in Seq(S) /\ heard' = heard \o up /\ up' = <<>>
    BY <1>1 DEF ServerReads
  <2> HIDE DEF S
  <2>2. heard \o up \in Seq(S)
    BY <2>1, ConcatFacts
  <2>3. (heard \o up) \o <<>> = heard \o up
    BY <2>2, ConcatEmptySeq
  <2> QED  BY <2>1, <2>3 DEF Wire
<1>7. Dead' <=> Dead
  BY DEF ServerReads, Dead
<1>8. InStep'
  <2> HIDE DEF Dead, Wire
  <2> QED  BY <1>6, <1>7 DEF IInv, ServerReads, InStep
<1> QED  BY <1>3, <1>4, <1>5, <1>8 DEF IInv

(* The sends of the loop clients. *)
LEMMA LoopSends ==
    ASSUME IInv, kind \in LoopKinds, UNCHANGED threadVars, SendWhole \/ SendPart \/ SendMsg
    PROVE  IInv'
<1> USE DEF Places, IocpPlaces, BlockingPlaces, SelectPlaces, Early, IocpLabel, SelectLabel, LoopKinds,
            At, Go, handleVars, queueVars, kernelVars, netVars, threadVars, workerVars, ioVars
<1>1. Types /\ Places /\ LineSize \in Nat /\ SndBuf \in Nat /\ ofs < LineSize
  BY LoopAssumption DEF IInv, InStep
<1>2. Space \in Nat /\ ofs \in Nat
  BY <1>1, LenProperties DEF Types, Space
<1>3. CASE SendWhole
  <2> DEFINE n == LineSize - ofs
  <2>1. n \in 1..(LineSize - ofs) /\ ofs + n = LineSize
    BY <1>1, <1>2
  <2>2. ~Dead /\ m_sendQueue # <<>> /\ n <= Space
    BY <1>3, <1>1, <1>2 DEF SendWhole, Dead, CanSend
  <2>3. Places' /\ DOMAIN pc' = {"console", "net"}
    BY <1>3, <1>1 DEF SendWhole, Types
  <2> HIDE DEF n
  <2>4. up' = up \o Bytes(Head(m_sendQueue), ofs + 1, ofs + n) /\ Pop
    BY <1>3, <2>1 DEF SendWhole
  <2>5. UNCHANGED <<kind, typed, sending, port, unread, worker, m_sendInFlight, heard>>
    BY <1>3 DEF SendWhole
  <2> HIDE DEF Places
  <2> QED  BY <2>1, <2>2, <2>3, <2>4, <2>5, PutStep
<1>4. CASE SendPart
  <2>1. Space \in 1..(LineSize - ofs) /\ ofs + Space # LineSize /\ Space <= Space
    BY <1>4, <1>1, <1>2 DEF SendPart
  <2>2. ~Dead /\ m_sendQueue # <<>>
    BY <1>4 DEF SendPart, Dead, CanSend
  <2>3. Places' /\ DOMAIN pc' = {"console", "net"}
    BY <1>4, <1>1 DEF SendPart, Types, WriteReturns
  <2>4. up' = up \o Bytes(Head(m_sendQueue), ofs + 1, ofs + Space) /\ Rest(Space)
    BY <1>4 DEF SendPart
  <2>5. UNCHANGED <<kind, typed, sending, port, unread, worker, m_sendInFlight, heard, m_sendQueue>>
    BY <1>4 DEF SendPart
  <2> HIDE DEF Places
  <2> QED  BY <2>1, <2>2, <2>3, <2>4, <2>5, PutStep
<1>5. CASE SendMsg
  <2> DEFINE n == IF Space < LineSize - ofs THEN Space ELSE LineSize - ofs
  <2>1. n \in Nat /\ n <= LineSize - ofs /\ n <= Space
    BY <1>1, <1>2
  <2>2. ~Dead
    BY <1>5 DEF SendMsg, Dead, CanSend
  <2>3. m_sendQueue # <<>>
    BY <1>5, <1>1 DEF SendMsg
  <2>4. DOMAIN pc' = {"console", "net"} /\ pc'["net"] = "loop" /\ pc'["console"] = pc["console"]
    BY <1>5, <1>1 DEF SendMsg, Types
  <2>5. Places'
    BY <1>5, <1>1, <2>4 DEF SendMsg
  <2>6. /\ up' = up \o Bytes(Head(m_sendQueue), ofs + 1, ofs + n)
        /\ IF ofs + n = LineSize THEN Pop ELSE Rest(n) /\ UNCHANGED m_sendQueue
    BY <1>5 DEF SendMsg
  <2>7. UNCHANGED <<kind, typed, sending, port, unread, worker, m_sendInFlight, heard, server, shut, m_socket>>
    BY <1>5 DEF SendMsg
  <2> HIDE DEF n, Places
  <2>8. CASE n = 0
    <3>1. Bytes(Head(m_sendQueue), ofs + 1, ofs + n) = <<>>
      <4>1. ofs + 1 <= (ofs + n) + 1 /\ (ofs + n) - (ofs + 1) + 1 = 0 /\ ofs + 1 \in Nat /\ ofs + n \in Nat
        BY <2>8, <1>2
      <4>2. Head(m_sendQueue) \in Nat
        BY <1>1, <2>3, TailFacts DEF Types
      <4>3. /\ Bytes(Head(m_sendQueue), ofs + 1, ofs + n) \in Seq(Nat \X Nat)
            /\ Len(Bytes(Head(m_sendQueue), ofs + 1, ofs + n)) = 0
        BY <4>1, <4>2, BytesFacts
      <4> QED  BY <4>3, EmptySeq
    <3>2. up' = up
      BY <2>6, <3>1, <1>1, ConcatEmptySeq DEF Types
    <3>3. m_sendQueue' = m_sendQueue /\ ofs' = ofs
      BY <2>6, <2>8, <1>1, <1>2 DEF Rest
    <3>4. Quiet
      BY <2>2, <2>4, <2>7, <3>2, <3>3, <1>1 DEF Quiet, Types
    <3> QED  BY <3>4, <2>5, QuietStep
  <2>9. CASE n # 0
    <3>1. n \in 1..(LineSize - ofs)
      BY <2>1, <2>9, <1>1, <1>2
    <3> QED  BY <3>1, <2>1, <2>2, <2>3, <2>4, <2>5, <2>6, <2>7, PutStep
  <2> QED  BY <2>8, <2>9
<1> QED  BY <1>3, <1>4, <1>5

(* A line is typed. *)
LEMMA SendStep ==
    ASSUME IInv, Send, UNCHANGED threadVars, kind # "blocking"
    PROVE  IInv'
<1> USE DEF At, Go, handleVars, queueVars, kernelVars, netVars, threadVars, workerVars, ioVars
<1>1. Types /\ Places
  BY DEF IInv
<1>2. /\ DOMAIN pc' = {"console", "net"} /\ pc'["net"] = pc["net"]
      /\ pc'["console"] \notin {"dial", "send"}
  BY <1>1 DEF Send, Types
<1>3. m_sendQueue' # <<>>
  BY <1>1, AppendProperties DEF Send, Types
<1>4. Places'
  BY <1>1, <1>2, <1>3 DEF Send, Places, IocpPlaces, BlockingPlaces, SelectPlaces, Early, IocpLabel, SelectLabel
<1>5. Dead => Dead'
  BY <1>2 DEF Send, Dead, Early
<1>6. /\ m_sendQueue' = Append(m_sendQueue, typed + 1) /\ typed' = typed + 1
      /\ UNCHANGED <<kind, ofs, sending, port, unread, worker, m_sendInFlight, up, heard, server>>
  BY DEF Send
<1> QED  BY <1>2, <1>4, <1>5, <1>6, QueueStep

(* The console of the blocking client: it connects, reads a line, and sends it. *)
LEMMA BlockingStep ==
    ASSUME IInv, BlockingConnect \/ BlockingType \/ BlockingSend \/ BlockingSendFails
    PROVE  IInv'
<1> USE DEF Here, At, Go, handleVars, queueVars, kernelVars, netVars, threadVars, workerVars, ioVars
<1>1. Types /\ Places /\ LineSize \in Nat /\ LineSize > 0 /\ SndBuf \in Nat /\ ofs < LineSize
  BY LoopAssumption DEF IInv, InStep
<1>2. Space \in Nat /\ ofs \in Nat
  BY <1>1, LenProperties DEF Types, Space
<1>3. CASE BlockingConnect
  <2>1. DOMAIN pc' = {"console", "net"} /\ pc'["net"] \in {"again", "end"} /\ pc'["console"] \in {"read", "end"}
    BY <1>3 DEF BlockingConnect
  <2>2. Places'
    BY <1>1, <1>3, <2>1 DEF BlockingConnect, Places, IocpPlaces, BlockingPlaces, SelectPlaces, Early, IocpLabel, SelectLabel
  <2>3. Quiet
    BY <1>1, <1>3, <2>1 DEF BlockingConnect, Quiet, Types, Dead, Early, Places, BlockingPlaces
  <2> QED  BY <2>2, <2>3, QuietStep
<1>4. CASE BlockingType
  <2>1. m_sendQueue = <<>>
    BY <1>1, <1>4 DEF BlockingType, Places, BlockingPlaces
  <2>2. /\ DOMAIN pc' = {"console", "net"} /\ pc'["net"] = pc["net"]
        /\ Dead => Dead'
    BY <1>1, <1>4 DEF BlockingType, Types, Dead
  <2>3. CASE pc'["console"] = "send"
    <3>1. m_sendQueue' = <<typed + 1>> /\ typed' = typed + 1
      BY <1>1, <1>4, <2>3 DEF BlockingType, Types
    <3>2. m_sendQueue' = Append(m_sendQueue, typed + 1) /\ Len(m_sendQueue') = 1
      BY <2>1, <3>1
    <3>3. Places'
      BY <1>1, <1>4, <2>2, <2>3, <3>2 DEF BlockingType, Places, IocpPlaces, BlockingPlaces, SelectPlaces, Early, IocpLabel, SelectLabel
    <3>4. UNCHANGED <<kind, ofs, sending, port, unread, worker, m_sendInFlight, up, heard, server>>
      BY <1>4 DEF BlockingType
    <3> QED  BY <2>2, <3>1, <3>2, <3>3, <3>4, QueueStep
  <2>4. CASE pc'["console"] # "send"
    <3>1. m_sendQueue' = m_sendQueue /\ typed' = typed /\ pc'["console"] = "stop"
      BY <1>1, <1>4, <2>4 DEF BlockingType, Types
    <3>2. Places'
      BY <1>1, <1>4, <2>1, <2>2, <3>1 DEF BlockingType, Places, IocpPlaces, BlockingPlaces, SelectPlaces, Early, IocpLabel, SelectLabel
    <3>3. Quiet
      BY <1>1, <1>4, <2>2, <3>1 DEF BlockingType, Quiet, Types
    <3> QED  BY <3>2, <3>3, QuietStep
  <2> QED  BY <2>3, <2>4
<1>5. CASE BlockingSend \/ BlockingSendFails
  <2>1. kind = "blocking" /\ Len(m_sendQueue) = 1 /\ pc["net"] \notin Early
    BY <1>1, <1>5 DEF BlockingSend, BlockingSendFails, Places, BlockingPlaces
  <2>2. m_sendQueue # <<>>
    BY <2>1, EmptySeq
  <2>3. Tail(m_sendQueue) = <<>>
    <3>1. m_sendQueue \in Seq(Nat)
      BY <1>1 DEF Types
    <3>2. Tail(m_sendQueue) \in Seq(Nat) /\ Len(Tail(m_sendQueue)) = 0
      BY <2>1, <2>2, <3>1, HeadTailProperties
    <3> QED  BY <3>2, EmptySeq
  <2>4. DOMAIN pc' = {"console", "net"} /\ pc'["net"] = pc["net"] /\ pc'["console"] \in {"send", "read"}
    BY <1>1, <1>5 DEF BlockingSend, BlockingSendFails, Types
  <2>5. UNCHANGED <<kind, typed, sending, port, unread, worker, m_sendInFlight, heard, receiving, m_epoll, server, m_socket, shut>>
    BY <1>5 DEF BlockingSend, BlockingSendFails
  <2>6. CASE BlockingSend
    <3>1. ~Dead
      BY <2>6 DEF BlockingSend, Dead, CanSend
    <3>2. PICK n \in 1..(LineSize - ofs) :
            /\ n <= Space
            /\ up' = up \o Bytes(Head(m_sendQueue), ofs + 1, ofs + n)
            /\ IF ofs + n = LineSize THEN Pop /\ pc' = [pc EXCEPT !["console"] = "read"]
               ELSE Rest(n) /\ UNCHANGED <<m_sendQueue, pc>>
      BY <2>6 DEF BlockingSend
    <3>3. IF pc'["console"] = "send" THEN m_sendQueue' = m_sendQueue ELSE m_sendQueue' = <<>>
      BY <1>1, <2>3, <2>6, <3>2 DEF BlockingSend, Pop, Types
    <3>4. Places'
      BY <1>1, <2>1, <2>4, <2>5, <3>3 DEF Places, IocpPlaces, BlockingPlaces, SelectPlaces, Early, IocpLabel, SelectLabel
    <3>5. IF ofs + n = LineSize THEN Pop ELSE Rest(n) /\ UNCHANGED m_sendQueue
      BY <3>2
    <3> QED  BY <2>1, <2>2, <2>4, <2>5, <3>1, <3>2, <3>4, <3>5, PutStep
  <2>7. CASE BlockingSendFails
    <3>1. m_sendQueue' = <<>> /\ ofs' = 0 /\ pc'["console"] = "read" /\ up' = up
      BY <1>1, <2>3, <2>7 DEF BlockingSendFails, Pop, Types
    <3>2. Types'
      BY <1>1, <2>4, <2>5, <3>1, EmptySeq DEF Types
    <3>3. Places'
      BY <1>1, <2>1, <2>4, <2>5, <3>1 DEF Places, IocpPlaces, BlockingPlaces, SelectPlaces, Early, IocpLabel, SelectLabel
    <3>4. worker' = "none" /\ sending' = 0 /\ port' = <<>> /\ pc'["net"] # "kick"
      BY <1>1, <2>1, <2>4, <2>5 DEF Places, IocpPlaces, IocpLabel
    <3>5. Exclusive'
      BY <3>4 DEF Exclusive, Busy, NoneIn, OneIn
    <3>6. Dead'
      BY <2>1, <2>4, <2>5, <2>7 DEF BlockingSendFails, Dead, CanSend
    <3>7. Wire' = Wire
      BY <2>5, <3>1 DEF Wire
    <3> QED  BY <1>1, <3>1, <3>2, <3>3, <3>4, <3>5, <3>6, <3>7, DeadStep
  <2> QED  BY <1>5, <2>6, <2>7
<1> QED  BY <1>3, <1>4, <1>5

-----------------------------------------------------------------------------
(* The iocp client: completions. *)

(* A completion is appended. *)
LEMMA PortAppend ==
    ASSUME NEW p \in Seq(Completion), NEW e \in Completion
    PROVE  /\ Append(p, e) \in Seq(Completion)
           /\ NoneIn(p) => OneIn(Append(p, e))
           /\ e[1] # "send" => /\ NoneIn(Append(p, e)) <=> NoneIn(p)
                               /\ OneIn(p) => OneIn(Append(p, e))
<1> DEFINE a == Append(p, e)
<1>1. /\ a \in Seq(Completion) /\ Len(a) = Len(p) + 1 /\ Len(p) \in Nat
      /\ \A i \in 1..Len(p) : a[i] = p[i]
      /\ a[Len(p) + 1] = e
  BY AppendProperties, LenProperties
<1> HIDE DEF a
<1>2. \A i \in 1..Len(a) : i \in 1..Len(p) \/ i = Len(p) + 1
  BY <1>1
<1>3. \A i \in 1..Len(p) : i \in 1..Len(a)
  BY <1>1
<1>4. NoneIn(p) => OneIn(a)
  BY <1>1, <1>2 DEF NoneIn, OneIn
<1>5. ASSUME e[1] # "send" PROVE NoneIn(a) <=> NoneIn(p)
  BY <1>1, <1>2, <1>3, <1>5 DEF NoneIn
<1>6. ASSUME e[1] # "send", OneIn(p) PROVE OneIn(a)
  BY <1>1, <1>2, <1>6 DEF OneIn
<1> QED  BY <1>1, <1>4, <1>5, <1>6 DEF a

(* The first completion is taken. *)
LEMMA PortTail ==
    ASSUME NEW p \in Seq(Completion), p # <<>>, OneIn(p)
    PROVE  /\ Tail(p) \in Seq(Completion) /\ Head(p) \in Completion
           /\ OneIn(Tail(p))
           /\ NoneIn(p) => NoneIn(Tail(p))
           /\ Head(p)[1] = "send" => NoneIn(Tail(p)) /\ ~NoneIn(p)
           /\ Head(p)[1] # "send" /\ NoneIn(Tail(p)) => NoneIn(p)
           /\ \A i \in 1..Len(Tail(p)) : i + 1 \in 1..Len(p) /\ Tail(p)[i] = p[i + 1]
<1> DEFINE r == Tail(p)
<1>1. /\ r \in Seq(Completion) /\ Len(r) = Len(p) - 1
      /\ Head(p) = p[1] /\ Head(p) \in Completion
      /\ Len(p) \in Nat /\ Len(p) > 0
      /\ \A i \in 1..Len(r) : r[i] = p[i + 1]
  BY TailFacts
<1> HIDE DEF r
<1>2. \A i \in 1..Len(r) : i + 1 \in 1..Len(p) /\ i + 1 # 1
  BY <1>1
<1>3. 1 \in 1..Len(p)
  BY <1>1
<1>4. \A i \in 1..Len(p) : i = 1 \/ (i - 1 \in 1..Len(r) /\ (i - 1) + 1 = i)
  BY <1>1
<1>5. OneIn(r)
  <2> SUFFICES ASSUME NEW i \in 1..Len(r), NEW j \in 1..Len(r), r[i][1] = "send", r[j][1] = "send"
               PROVE  i = j
    BY DEF OneIn
  <2>1. p[i + 1][1] = "send" /\ p[j + 1][1] = "send"
    BY <1>1
  <2>2. i + 1 = j + 1
    BY <2>1, <1>2 DEF OneIn
  <2> QED  BY <2>2, <1>1
<1>6. NoneIn(p) => NoneIn(r)
  BY <1>1, <1>2 DEF NoneIn
<1>7. ASSUME Head(p)[1] = "send" PROVE NoneIn(r) /\ ~NoneIn(p)
  <2>1. ~NoneIn(p)
    BY <1>1, <1>3, <1>7 DEF NoneIn
  <2>2. NoneIn(r)
    BY <1>1, <1>2, <1>3, <1>7 DEF NoneIn, OneIn
  <2> QED  BY <2>1, <2>2
<1>8. ASSUME Head(p)[1] # "send", NoneIn(r) PROVE NoneIn(p)
  <2> SUFFICES ASSUME NEW i \in 1..Len(p), i # 1 PROVE p[i][1] # "send"
    BY <1>1, <1>8 DEF NoneIn
  <2>1. i - 1 \in 1..Len(r) /\ p[i] = r[i - 1]
    BY <1>1, <1>4
  <2> QED  BY <2>1, <1>8 DEF NoneIn
<1> QED  BY <1>1, <1>2, <1>5, <1>6, <1>7, <1>8 DEF r

(* Two parts of the port, of which one holds no completion of a send. *)
LEMMA PortConcat ==
    ASSUME NEW p \in Seq(Completion), NEW q \in Seq(Completion)
    PROVE  /\ p \o q \in Seq(Completion)
           /\ NoneIn(p) /\ NoneIn(q) => NoneIn(p \o q)
           /\ NoneIn(p) /\ OneIn(q) => OneIn(p \o q)
           /\ OneIn(p) /\ NoneIn(q) => OneIn(p \o q)
<1> DEFINE c == p \o q
<1>1. /\ c \in Seq(Completion) /\ Len(c) = Len(p) + Len(q)
      /\ \A i \in 1..Len(p) : c[i] = p[i]
      /\ \A i \in (Len(p) + 1)..(Len(p) + Len(q)) : c[i] = q[i - Len(p)]
  BY ConcatFacts
<1>2. Len(p) \in Nat /\ Len(q) \in Nat
  BY LenProperties
<1> HIDE DEF c
<1>3. \A i \in 1..Len(c) :
        \/ i \in 1..Len(p) /\ c[i] = p[i]
        \/ i \notin 1..Len(p) /\ i - Len(p) \in 1..Len(q) /\ c[i] = q[i - Len(p)]
  <2> TAKE i \in 1..Len(c)
  <2>1. CASE i \in 1..Len(p)
    <3>1. c[i] = p[i]
      BY <2>1, <1>1
    <3> QED  BY <2>1, <3>1
  <2>2. CASE i \notin 1..Len(p)
    <3>1. i \in (Len(p) + 1)..(Len(p) + Len(q)) /\ i - Len(p) \in 1..Len(q)
      BY <2>2, <1>1, <1>2
    <3>2. c[i] = q[i - Len(p)]
      BY <3>1, <1>1
    <3> QED  BY <2>2, <3>1, <3>2
  <2> QED  BY <2>1, <2>2
<1>4. NoneIn(p) /\ NoneIn(q) => NoneIn(c)
  BY <1>3 DEF NoneIn
<1>5. NoneIn(p) /\ OneIn(q) => OneIn(c)
  <2> SUFFICES ASSUME NoneIn(p), OneIn(q), NEW i \in 1..Len(c), NEW j \in 1..Len(c),
                      c[i][1] = "send", c[j][1] = "send"
               PROVE  i = j
    BY DEF OneIn
  <2>1. /\ i - Len(p) \in 1..Len(q) /\ c[i] = q[i - Len(p)]
        /\ j - Len(p) \in 1..Len(q) /\ c[j] = q[j - Len(p)]
    BY <1>3 DEF NoneIn
  <2>2. i - Len(p) = j - Len(p)
    BY <2>1 DEF OneIn
  <2> QED  BY <2>2, <1>2, <1>1
<1>6. OneIn(p) /\ NoneIn(q) => OneIn(c)
  BY <1>3 DEF NoneIn, OneIn
<1> QED  BY <1>1, <1>4, <1>5, <1>6 DEF c

(* A closed socket leaves one completion of a send, at most. *)
LEMMA AbortFacts ==
    ASSUME Exclusive, NEW rest \in Seq(Completion), NEW last \in Seq(Completion), Aborted(rest, last),
           NoneIn(last), OneIn(rest), NoneIn(port) => NoneIn(rest)
    PROVE  /\ sending' = 0
           /\ port' \in Seq(Completion) /\ OneIn(port')
           /\ sending = 0 /\ NoneIn(rest) => NoneIn(port')
<1> DEFINE s == IF sending > 0 THEN <<<<"send", 0>>>> ELSE <<>>
           r == IF receiving THEN <<<<"recv", 0>>>> ELSE <<>>
<1>1. <<"send", 0>> \in Completion /\ <<"recv", 0>> \in Completion
  BY DEF Completion
<1>2. /\ s \in Seq(Completion) /\ OneIn(s)
      /\ sending = 0 => NoneIn(s)
      /\ ~(sending > 0) => NoneIn(s)
  BY <1>1 DEF OneIn, NoneIn
<1>3. r \in Seq(Completion) /\ NoneIn(r)
  BY <1>1 DEF NoneIn
<1>4. sending > 0 => NoneIn(rest)
  BY DEF Exclusive
<1>5. sending' = 0 /\ port' = ((rest \o s) \o r) \o last
  BY DEF Aborted
<1> HIDE DEF s, r
<1>6. /\ rest \o s \in Seq(Completion) /\ OneIn(rest \o s)
      /\ sending = 0 /\ NoneIn(rest) => NoneIn(rest \o s)
  BY <1>2, <1>4, PortConcat
<1>7. /\ (rest \o s) \o r \in Seq(Completion) /\ OneIn((rest \o s) \o r)
      /\ NoneIn(rest \o s) => NoneIn((rest \o s) \o r)
  BY <1>3, <1>6, PortConcat
<1>8. /\ port' \in Seq(Completion) /\ OneIn(port')
      /\ NoneIn((rest \o s) \o r) => NoneIn(port')
  BY <1>5, <1>7, PortConcat
<1> QED  BY <1>5, <1>6, <1>7, <1>8

(* A completion that is not one of a send comes or goes. *)
LEMMA PortStep ==
    ASSUME IInv, UNCHANGED <<kind, m_sendQueue, ofs, typed, up, heard, sending, worker, m_sendInFlight, server>>,
           Dead => Dead', DOMAIN pc' = {"console", "net"}, pc'["net"] = "kick" => pc["net"] = "kick",
           unread' \in Int, Places',
           port' \in Seq(Completion), OneIn(port'), NoneIn(port') <=> NoneIn(port),
           \A i \in 1..Len(port') : port'[i][1] = "send" => \E j \in 1..Len(port) : port[j] = port'[i]
    PROVE  IInv'
<1>1. Types'
  BY DEF IInv, Types
<1>2. Exclusive'
  BY DEF IInv, Exclusive, Busy
<1>3. Wire' = Wire
  BY DEF Wire
<1>4. InStep'
  <2> HIDE DEF Dead, Wire, NoneIn
  <2> QED  BY <1>3 DEF IInv, InStep
<1> QED  BY <1>1, <1>2, <1>4 DEF IInv

(* WSARecv completes; what it received, and nullptr, are taken. *)
LEMMA RecvStep ==
    ASSUME IInv, RecvDone \/ OnNull \/ OnRecvComplete
    PROVE  IInv'
<1> USE DEF At, Go, handleVars, queueVars, kernelVars, netVars, threadVars, workerVars, ioVars, butPc, vars
<1>1. Types /\ Places /\ OneIn(port) /\ port \in Seq(Completion) /\ unread \in Int
  BY DEF IInv, Exclusive, Types
<1>2. CASE RecvDone
  <2> DEFINE e == <<"recv", IF server = "reset" THEN 0 ELSE unread>>
  <2>1. e \in Completion /\ e[1] # "send" /\ port' = Append(port, e)
    BY <1>1, <1>2 DEF RecvDone, Completion
  <2> HIDE DEF e
  <2>2. port' \in Seq(Completion) /\ OneIn(port') /\ (NoneIn(port') <=> NoneIn(port))
    BY <1>1, <2>1, PortAppend
  <2>3. \A i \in 1..Len(port') : port'[i][1] = "send" => \E j \in 1..Len(port) : port[j] = port'[i]
    <3>1. /\ Len(port') = Len(port) + 1 /\ Len(port) \in Nat
          /\ \A i \in 1..Len(port) : port'[i] = port[i]
          /\ port'[Len(port) + 1] = e
      BY <1>1, <2>1, AppendProperties, LenProperties
    <3>2. \A i \in 1..Len(port') : i \in 1..Len(port) \/ i = Len(port) + 1
      BY <3>1
    <3> QED  BY <2>1, <3>1, <3>2
  <2>4. UNCHANGED <<kind, m_sendQueue, ofs, typed, up, heard, sending, worker, m_sendInFlight, server, pc, unread>>
    BY <1>2 DEF RecvDone
  <2>5. Places'
    BY <1>1, <1>2 DEF RecvDone, Places, IocpPlaces, BlockingPlaces, SelectPlaces
  <2>6. Dead => Dead'
    BY <1>2 DEF RecvDone, Dead
  <2>7. DOMAIN pc' = {"console", "net"}
    BY <1>1, <2>4 DEF Types
  <2> QED  BY <1>1, <2>2, <2>3, <2>4, <2>5, <2>6, <2>7, PortStep
<1>3. CASE OnNull \/ OnRecvComplete
  <2>1. port # <<>> /\ Head(port)[1] # "send" /\ port' = Tail(port) /\ pc["net"] = "dequeue"
    BY <1>3 DEF OnNull, OnRecvComplete, Dequeues
  <2>2. /\ port' \in Seq(Completion) /\ OneIn(port') /\ (NoneIn(port') <=> NoneIn(port))
        /\ \A i \in 1..Len(port') : i + 1 \in 1..Len(port) /\ port'[i] = port[i + 1]
    BY <1>1, <2>1, PortTail
  <2>3. \A i \in 1..Len(port') : port'[i][1] = "send" => \E j \in 1..Len(port) : port[j] = port'[i]
    BY <2>2
  <2>4. /\ UNCHANGED <<kind, m_sendQueue, ofs, typed, up, heard, sending, worker, m_sendInFlight, server>>
        /\ UNCHANGED <<m_epoll, m_socket, shut, wantOut, event, receiving>>
    BY <1>3 DEF OnNull, OnRecvComplete
  <2>5. kind = "iocp"
    BY <1>1, <2>1 DEF Places, IocpPlaces
  <2>6. /\ DOMAIN pc' = {"console", "net"} /\ pc'["net"] \in {"stop", "repost"}
        /\ pc'["console"] = pc["console"]
    BY <1>1, <1>3 DEF OnNull, OnRecvComplete, Types
  <2>7. Places'
    BY <1>1, <2>1, <2>4, <2>5, <2>6 DEF Places, IocpPlaces, BlockingPlaces, SelectPlaces, Early, IocpLabel, SelectLabel
  <2>8. Dead => Dead'
    BY <2>1, <2>4, <2>6 DEF Dead, Early
  <2>9. unread' \in Int
    <3>1. Head(port) \in Completion
      BY <1>1, <2>1, PortTail
    <3>2. Head(port)[2] \in Int
      BY <3>1 DEF Completion
    <3> QED  BY <1>1, <1>3, <3>2 DEF OnNull, OnRecvComplete
  <2>10. pc'["net"] = "kick" => pc["net"] = "kick"
    BY <2>6
  <2> QED  BY <2>2, <2>3, <2>4, <2>6, <2>7, <2>8, <2>9, <2>10, PortStep
<1> QED  BY <1>2, <1>3

(* A failed completion closes the socket. *)
LEMMA FailureStep ==
    ASSUME IInv, OnFailure
    PROVE  IInv'
<1> USE DEF At, Go, handleVars, queueVars, kernelVars, netVars, threadVars, workerVars, ioVars
<1>1. Types /\ Places /\ Exclusive /\ OneIn(port) /\ port \in Seq(Completion)
  BY DEF IInv, Exclusive, Types
<1>2. port # <<>> /\ pc["net"] = "dequeue" /\ Aborted(Tail(port), Farewell)
  BY DEF OnFailure, Dequeues
<1>3. Farewell \in Seq(Completion) /\ NoneIn(Farewell)
  BY DEF Farewell, Completion, NoneIn
<1>4. Tail(port) \in Seq(Completion) /\ OneIn(Tail(port)) /\ (NoneIn(port) => NoneIn(Tail(port)))
  BY <1>1, <1>2, PortTail
<1>5. /\ sending' = 0 /\ port' \in Seq(Completion) /\ OneIn(port')
      /\ sending = 0 /\ NoneIn(Tail(port)) => NoneIn(port')
  BY <1>1, <1>2, <1>3, <1>4, AbortFacts
<1>6. /\ UNCHANGED <<kind, m_sendQueue, ofs, typed, up, heard, worker, m_sendInFlight, server, unread>>
      /\ UNCHANGED <<m_epoll, shut, wantOut, event>>
      /\ ~m_socket'
  BY DEF OnFailure
<1>7. /\ DOMAIN pc' = {"console", "net"} /\ pc'["net"] = "active" /\ pc'["console"] = pc["console"]
  BY <1>1 DEF OnFailure, Types
<1>8. kind = "iocp"
  BY <1>1, <1>2 DEF Places, IocpPlaces
<1>9. Types'
  BY <1>1, <1>5, <1>6, <1>7 DEF Types
<1>10. Places'
  BY <1>1, <1>2, <1>6, <1>7, <1>8 DEF Places, IocpPlaces, BlockingPlaces, SelectPlaces, Early, IocpLabel, SelectLabel
<1>11. Exclusive'
  <2>1. sending \in Nat
    BY <1>1 DEF Types
  <2>2. Busy' => Busy
    BY <2>1, <1>4, <1>5, <1>6, <1>7 DEF Busy
  <2> QED  BY <2>2, <1>1, <1>4, <1>5, <1>6, <1>7 DEF Exclusive
<1>12. Dead'
  BY <1>6, <1>7 DEF Dead, Early
<1>13. Wire' = Wire
  BY <1>6 DEF Wire
<1>14. ofs' < LineSize /\ (m_sendQueue' = <<>> => ofs' = 0)
  BY <1>6 DEF IInv, InStep
<1> QED  BY <1>5, <1>9, <1>10, <1>11, <1>12, <1>13, <1>14, DeadStep

(* Stop closes the socket. *)
LEMMA CloseStep ==
    ASSUME IInv, NEW t \in {"console", "net"}, ThreadStopClose(t)
    PROVE  IInv'
<1> USE DEF At, Go, handleVars, queueVars, kernelVars, netVars, threadVars, workerVars, ioVars, ThreadAt
<1>1. Types /\ Places /\ Exclusive /\ OneIn(port) /\ port \in Seq(Completion)
  BY DEF IInv, Exclusive, Types
<1>2. Aborted(port, <<>>) /\ kind \notin LoopKinds /\ pc[t] = "close"
  BY DEF ThreadStopClose
<1>3. <<>> \in Seq(Completion) /\ NoneIn(<<>>)
  BY DEF NoneIn
<1>4. /\ sending' = 0 /\ port' \in Seq(Completion) /\ OneIn(port')
      /\ sending = 0 /\ NoneIn(port) => NoneIn(port')
  BY <1>1, <1>2, <1>3, AbortFacts
<1>5. ~receiving' /\ (sending = 0 /\ ~receiving /\ port = <<>> => port' = <<>>)
  BY <1>2 DEF Aborted
<1>6. /\ UNCHANGED <<kind, m_sendQueue, ofs, typed, up, heard, worker, m_sendInFlight, server, unread>>
      /\ UNCHANGED <<m_epoll, shut, wantOut, event>>
      /\ ~m_socket'
  BY DEF ThreadStopClose, StopClose
<1>7. /\ DOMAIN pc' = {"console", "net"} /\ pc'[t] = "rest"
      /\ t = "net" => pc'["console"] = pc["console"]
      /\ t = "console" => pc'["net"] = pc["net"]
  BY <1>1, <1>2 DEF ThreadStopClose, StopClose, Types, AfterSocket, LoopKinds
<1>8. Places'
  BY <1>1, <1>2, <1>4, <1>5, <1>6, <1>7 DEF Places, IocpPlaces, BlockingPlaces, SelectPlaces, Early, IocpLabel, SelectLabel
<1>9. CASE pc["net"] \in Early
  <2>1. sending = 0 /\ port = <<>> /\ ~receiving
    BY <1>1, <1>9 DEF Places, IocpPlaces
  <2>2. Dead => Dead'
    BY <1>6, <1>9 DEF Dead
  <2>3. Quiet
    BY <1>1, <1>4, <1>5, <1>6, <1>7, <2>1, <2>2 DEF Quiet, Types
  <2> QED  BY <1>8, <2>3, QuietStep
<1>10. CASE pc["net"] \notin Early
  <2>1. Types'
    BY <1>1, <1>4, <1>6, <1>7 DEF Types
  <2>2. Exclusive'
    <3>1. sending \in Nat
      BY <1>1 DEF Types
    <3>2. pc'["net"] = "kick" => pc["net"] = "kick"
      BY <1>7
    <3>3. Busy' => Busy
      BY <3>1, <3>2, <1>4, <1>6 DEF Busy
    <3>4. worker' = "kick" => worker = "kick" /\ pc'["net"] # "kick"
      BY <3>2, <1>1, <1>6 DEF Exclusive
    <3> QED  BY <3>2, <3>3, <3>4, <1>1, <1>4, <1>6 DEF Exclusive
  <2>3. Dead'
    BY <1>6, <1>7, <1>10 DEF Dead, Early
  <2>4. Wire' = Wire
    BY <1>6 DEF Wire
  <2>5. ofs' < LineSize /\ (m_sendQueue' = <<>> => ofs' = 0)
    BY <1>6 DEF IInv, InStep
  <2> QED  BY <1>4, <1>8, <2>1, <2>2, <2>3, <2>4, <2>5, DeadStep
<1> QED  BY <1>9, <1>10

-----------------------------------------------------------------------------
(* The iocp client: sends. *)

(* WSASend completes. *)
LEMMA SendDoneStep ==
    ASSUME IInv, SendDone
    PROVE  IInv'
<1> USE DEF handleVars, queueVars, kernelVars, netVars, threadVars, workerVars, ioVars
<1>1. Types /\ Places /\ Exclusive /\ InStep /\ port \in Seq(Completion) /\ sending \in Nat
  BY DEF IInv, Types
<1>2. /\ sending > 0 /\ sending' = 0 /\ sending = LineSize - ofs
      /\ NoneIn(port) /\ worker # "kick" /\ pc["net"] # "kick"
      /\ m_sendInFlight /\ m_sendQueue # <<>>
  BY <1>1 DEF SendDone, Exclusive, Busy, InStep
<1>3. /\ UNCHANGED <<kind, m_sendQueue, ofs, typed, heard, worker, m_sendInFlight, server, unread>>
      /\ UNCHANGED <<m_epoll, m_socket, shut, wantOut, event, receiving, pc>>
  BY DEF SendDone
<1>4. kind = "iocp" /\ pc["net"] \notin Early
  BY <1>1, <1>2 DEF Places, IocpPlaces
<1>5. Places'
  BY <1>1, <1>3, <1>4 DEF Places, IocpPlaces, BlockingPlaces, SelectPlaces
<1>6. ASSUME NEW e \in Completion, port' = Append(port, e)
      PROVE  port' \in Seq(Completion) /\ Exclusive'
  <2>1. port' \in Seq(Completion) /\ OneIn(port')
    BY <1>1, <1>2, <1>6, PortAppend
  <2> QED  BY <1>2, <1>3, <2>1 DEF Exclusive, Busy
<1>7. CASE server = "reset"
  <2>1. port' = Append(port, <<"send", 0>>) /\ <<"send", 0>> \in Completion /\ up' = up
    BY <1>7 DEF SendDone, Completion
  <2>2. port' \in Seq(Completion) /\ Exclusive'
    BY <2>1, <1>6
  <2>3. Types'
    BY <1>1, <1>2, <1>3, <2>1, <2>2 DEF Types
  <2>4. Dead'
    BY <1>3, <1>7 DEF Dead
  <2>5. Wire' = Wire
    BY <1>3, <2>1 DEF Wire
  <2>6. ofs' < LineSize /\ (m_sendQueue' = <<>> => ofs' = 0)
    BY <1>1, <1>3 DEF InStep
  <2> QED  BY <1>2, <1>5, <2>2, <2>3, <2>4, <2>5, <2>6, DeadStep
<1>8. CASE server # "reset"
  <2>1. PICK n \in 1..sending :
          /\ n <= Space
          /\ up' = up \o Bytes(Head(m_sendQueue), ofs + 1, ofs + n)
          /\ port' = Append(port, <<"send", n>>)
    BY <1>8 DEF SendDone
  <2>2. n \in 1..(LineSize - ofs) /\ n \in Nat
    BY <1>1, <1>2
  <2>3. Expected(Wire) = <<Head(m_sendQueue), ofs + 1>>
    BY <1>1, <1>2, <1>8 DEF InStep, Front
  <2>4. /\ up' \in Seq(Nat \X Nat) /\ Len(up') = Len(up) + n
        /\ Follows(Wire')
        /\ Expected(Wire') = ByteAfter(<<Head(m_sendQueue), ofs + n>>)
    BY <1>1, <1>2, <1>3, <2>1, <2>2, <2>3, PutFacts DEF InStep
  <2>5. <<"send", n>> \in Completion
    BY <2>2 DEF Completion
  <2>6. port' \in Seq(Completion) /\ Exclusive'
    BY <2>1, <2>5, <1>6
  <2>7. Len(up') <= SndBuf
    <3>1. SndBuf \in Nat /\ Len(up) \in Nat
      BY <1>1, LoopAssumption, LenProperties DEF Types
    <3> QED  BY <3>1, <2>1, <2>2, <2>4 DEF Space
  <2>8. Types'
    BY <1>1, <1>2, <1>3, <2>4, <2>6, <2>7 DEF Types
  <2>9. /\ Len(port') = Len(port) + 1 /\ Len(port) \in Nat
        /\ \A i \in 1..Len(port) : port'[i] = port[i]
        /\ port'[Len(port) + 1] = <<"send", n>>
    BY <1>1, <2>1, <2>5, AppendProperties, LenProperties
  <2>10. \A i \in 1..Len(port') : port'[i][1] = "send" => port'[i] = <<"send", n>>
    <3>1. \A i \in 1..Len(port') : i \in 1..Len(port) \/ i = Len(port) + 1
      BY <2>9
    <3> QED  BY <3>1, <2>9, <1>2 DEF NoneIn
  <2>11. ~NoneIn(port')
    <3>1. Len(port) + 1 \in 1..Len(port')
      BY <2>9
    <3> QED  BY <3>1, <2>9 DEF NoneIn
  <2>12. Dead' <=> Dead
    BY <1>3 DEF Dead
  <2>13. InStep'
    <3> HIDE DEF Dead, Wire, NoneIn, Follows
    <3>1. ofs' < LineSize /\ m_sendQueue' # <<>> /\ sending' = 0 /\ ~(sending' > 0)
      BY <1>1, <1>2, <1>3 DEF InStep
    <3>2. ~Dead' => Consecutive(m_sendQueue', typed')
      BY <1>1, <1>3, <2>12 DEF InStep
    <3>3. \A i \in 1..Len(port') : port'[i][1] = "send" =>
            /\ port'[i][2] \in 1..(LineSize - ofs')
            /\ Expected(Wire') = ByteAfter(<<Head(m_sendQueue'), ofs' + port'[i][2]>>)
      <4> SUFFICES ASSUME NEW i \in 1..Len(port'), port'[i][1] = "send"
                   PROVE  /\ port'[i][2] \in 1..(LineSize - ofs')
                          /\ Expected(Wire') = ByteAfter(<<Head(m_sendQueue'), ofs' + port'[i][2]>>)
        OBVIOUS
      <4>1. port'[i] = <<"send", n>>
        BY <2>10
      <4>2. port'[i][2] = n
        BY <4>1
      <4> QED  BY <4>2, <1>3, <2>2, <2>4
    <3> QED  BY <3>1, <3>2, <3>3, <2>4, <2>11 DEF InStep
  <2> QED  BY <1>5, <2>6, <2>8, <2>13 DEF IInv
<1> QED  BY <1>7, <1>8

(* The worker claims the send. *)
LEMMA ClaimStep ==
    ASSUME IInv, WorkerCheck, worker' = "kick"
    PROVE  IInv'
<1> USE DEF handleVars, queueVars, kernelVars, netVars, threadVars, workerVars, ioVars
<1>1. Types /\ Places /\ Exclusive /\ InStep /\ sending \in Nat
  BY DEF IInv, Types
<1>2. /\ UNCHANGED <<kind, m_sendQueue, ofs, typed, heard, up, sending, port, server, unread>>
      /\ UNCHANGED <<m_epoll, m_socket, shut, wantOut, event, receiving, pc>>
      /\ worker = "check"
  BY DEF WorkerCheck
<1>3. m_sendQueue # <<>> /\ m_sendInFlight' /\ ~m_sendInFlight
  BY DEF WorkerCheck, Claim
<1>4. ~Busy
  BY <1>1, <1>3 DEF Exclusive
<1>5. kind = "iocp" /\ pc["net"] \notin Early
  BY <1>1, <1>2 DEF Places, IocpPlaces
<1>6. Types'
  BY <1>1, <1>2 DEF Types
<1>7. Places'
  BY <1>1, <1>2, <1>5 DEF Places, IocpPlaces, BlockingPlaces, SelectPlaces
<1>8. Exclusive'
  BY <1>1, <1>2, <1>3, <1>4 DEF Exclusive, Busy
<1>9. Wire' = Wire
  BY <1>2 DEF Wire
<1>10. Dead' <=> Dead
  BY <1>2 DEF Dead
<1>11. InStep'
  <2> HIDE DEF Dead, Wire
  <2> QED  BY <1>1, <1>2, <1>9, <1>10 DEF InStep
<1> QED  BY <1>6, <1>7, <1>8, <1>11 DEF IInv

(* WSASend is called, or the line is dropped. *)
LEMMA KickStep ==
    ASSUME IInv,
           \/ worker = "kick" /\ KickSend("worker", "test")
           \/ pc["net"] = "kick" /\ KickSend("net", "active")
    PROVE  IInv'
<1> USE DEF handleVars, queueVars, kernelVars, netVars, threadVars, workerVars, ioVars
<1>1. Types /\ Places /\ Exclusive /\ InStep /\ sending \in Nat /\ LineSize \in Nat /\ LineSize > 0
  BY LoopAssumption DEF IInv, Types
<1>2. m_sendQueue # <<>> /\ sending = 0 /\ NoneIn(port) /\ m_sendInFlight
  BY <1>1 DEF Exclusive, Busy
<1>3. kind = "iocp" /\ pc["net"] \notin Early
  BY <1>1 DEF Places, IocpPlaces, Early, IocpLabel
<1>4. /\ UNCHANGED <<kind, typed, heard, up, port, server, unread, m_epoll, m_socket, shut, wantOut, event, receiving>>
      /\ DOMAIN pc' = {"console", "net"} /\ pc'["console"] = pc["console"]
      /\ pc'["net"] = pc["net"] \/ pc'["net"] = "active"
      /\ pc'["net"] # "kick" /\ worker' # "kick"
  BY <1>1 DEF KickSend, Moves, Go, Types, Exclusive
<1>5. Places'
  BY <1>1, <1>3, <1>4 DEF Places, IocpPlaces, BlockingPlaces, SelectPlaces, Early, IocpLabel, SelectLabel
<1>6. Wire' = Wire
  BY <1>4 DEF Wire
<1>7. Dead' <=> Dead
  BY <1>3, <1>4 DEF Dead, Early
<1>8. CASE /\ m_socket /\ ~shut
           /\ sending' = LineSize - ofs
           /\ UNCHANGED <<m_sendQueue, ofs, m_sendInFlight>>
  <2>1. sending' \in Nat /\ sending' > 0
    BY <1>1, <1>8 DEF InStep, Types
  <2>2. Types'
    BY <1>1, <1>4, <1>8, <2>1 DEF Types
  <2>3. Exclusive'
    BY <1>1, <1>2, <1>4, <1>8 DEF Exclusive, Busy
  <2>4. server # "reset" => ~Dead
    BY <1>8 DEF Dead
  <2>5. InStep'
    <3> HIDE DEF Dead, Wire, NoneIn
    <3> QED  BY <1>1, <1>2, <1>4, <1>6, <1>7, <1>8, <2>4 DEF InStep
  <2> QED  BY <1>5, <2>2, <2>3, <2>5 DEF IInv
<1>9. CASE /\ ~m_socket \/ ~CanSend
           /\ m_sendQueue' = Tail(m_sendQueue) \/ m_sendQueue' = <<>>
           /\ ofs' = 0 /\ sending' = 0
  <2>1. Dead'
    BY <1>3, <1>7, <1>9 DEF Dead, CanSend
  <2>2. m_sendQueue' \in Seq(Nat)
    <3>1. Tail(m_sendQueue) \in Seq(Nat) /\ <<>> \in Seq(Nat)
      BY <1>1, <1>2, TailFacts, EmptySeq DEF Types
    <3> QED  BY <3>1, <1>9
  <2>3. Types'
    BY <1>1, <1>4, <1>9, <2>2 DEF Types
  <2>4. Exclusive'
    BY <1>1, <1>2, <1>4, <1>9 DEF Exclusive, Busy
  <2> QED  BY <1>1, <1>5, <1>6, <1>9, <2>1, <2>3, <2>4, DeadStep
<1> QED  BY <1>2, <1>8, <1>9 DEF KickSend, Pop

(* The net thread takes the completion of a send. *)
LEMMA SendCompleteStep ==
    ASSUME IInv, OnSendComplete
    PROVE  IInv'
<1> USE DEF handleVars, queueVars, kernelVars, netVars, threadVars, workerVars, ioVars
<1> DEFINE n == Head(port)[2]
           h == Head(m_sendQueue)
<1>1. /\ Types /\ Places /\ Exclusive /\ InStep /\ OneIn(port) /\ port \in Seq(Completion)
      /\ sending \in Nat /\ LineSize \in Nat /\ LineSize > 0
  BY LoopAssumption DEF IInv, Exclusive, Types
<1>2. port # <<>> /\ Head(port)[1] = "send" /\ n > 0 /\ pc["net"] = "dequeue"
  BY DEF OnSendComplete, Dequeues, At
<1>3. /\ Head(port) \in Completion /\ ~NoneIn(port)
      /\ Tail(port) \in Seq(Completion) /\ OneIn(Tail(port)) /\ NoneIn(Tail(port))
  BY <1>1, <1>2, PortTail
<1>4. n \in Nat
  <2>1. n \in Int
    BY <1>3 DEF Completion
  <2> QED  BY <2>1, <1>2
<1>5. m_sendQueue # <<>> /\ sending = 0 /\ worker # "kick"
  BY <1>1, <1>3 DEF Exclusive, Busy
<1>6. kind = "iocp"
  BY <1>1, <1>2 DEF Places, IocpPlaces
<1>7. /\ UNCHANGED <<kind, typed, heard, up, sending, server, unread, m_epoll, m_socket, shut, wantOut, event, receiving, worker>>
      /\ port' = Tail(port)
  BY DEF OnSendComplete
<1>8. /\ DOMAIN pc' = {"console", "net"} /\ pc'["console"] = pc["console"]
      /\ pc'["net"] \in {"kick", "active"}
      /\ pc'["net"] = "kick" => m_sendQueue' # <<>>
      /\ m_sendInFlight' <=> m_sendQueue' # <<>>
  BY <1>1 DEF OnSendComplete, Go, Types, InFlight
<1>9. Places'
  BY <1>1, <1>2, <1>6, <1>7, <1>8 DEF Places, IocpPlaces, BlockingPlaces, SelectPlaces, Early, IocpLabel, SelectLabel
<1>10. Exclusive'
  BY <1>3, <1>5, <1>7, <1>8 DEF Exclusive, Busy
<1>11. Wire' = Wire
  BY <1>7 DEF Wire
<1>12. Dead' <=> Dead
  BY <1>2, <1>7, <1>8 DEF Dead, Early
<1>13. ~Dead => n \in 1..(LineSize - ofs) /\ Expected(Wire) = ByteAfter(<<h, ofs + n>>)
  <2>1. 1 \in 1..Len(port) /\ Head(port) = port[1]
    BY <1>1, <1>2, TailFacts
  <2> HIDE DEF Dead, Wire
  <2> QED  BY <2>1, <1>1, <1>2 DEF InStep
<1>14. /\ h \in Nat /\ Tail(m_sendQueue) \in Seq(Nat) /\ m_sendQueue \in Seq(Nat) /\ ofs \in Nat /\ typed \in Nat
       /\ ~Dead => /\ Consecutive(m_sendQueue, typed) /\ Consecutive(Tail(m_sendQueue), typed)
                   /\ ByteAfter(<<h, LineSize>>) = Front(Tail(m_sendQueue), 0, typed)
  <2>1. h \in Nat /\ Tail(m_sendQueue) \in Seq(Nat) /\ m_sendQueue \in Seq(Nat) /\ ofs \in Nat /\ typed \in Nat
    BY <1>1, <1>5, TailFacts DEF Types
  <2>2. ~Dead => Consecutive(m_sendQueue, typed)
    BY <1>1 DEF InStep
  <2> HIDE DEF Dead
  <2> QED  BY <2>1, <2>2, <1>5, PopFacts
<1> HIDE DEF n, h
<1>15. CASE ofs + n < LineSize /\ ofs' = ofs + n /\ m_sendQueue' = m_sendQueue
  <2>1. ofs' \in Nat /\ ofs' < LineSize
    BY <1>4, <1>14, <1>15
  <2>2. Types'
    BY <1>1, <1>3, <1>7, <1>8, <1>14, <1>15, <2>1 DEF Types
  <2>3. ByteAfter(<<h, ofs + n>>) = Front(m_sendQueue', ofs', typed')
    <3>1. ofs + n # LineSize
      BY <1>4, <1>14, <1>15, <1>1
    <3> QED  BY <3>1, <1>5, <1>7, <1>15 DEF ByteAfter, Front, h
  <2>4. InStep'
    <3> HIDE DEF Dead, Wire
    <3>1. m_sendQueue' # <<>> /\ ~(sending' > 0) /\ \A i \in 1..Len(port') : port'[i][1] # "send"
      BY <1>1, <1>3, <1>5, <1>7, <1>15 DEF NoneIn
    <3>2. Follows(Wire')
      BY <1>1, <1>11 DEF InStep
    <3>3. ~Dead' => Consecutive(m_sendQueue', typed')
      BY <1>7, <1>12, <1>14, <1>15
    <3>4. ~Dead' => Expected(Wire') = Front(m_sendQueue', ofs', typed')
      BY <1>11, <1>12, <1>13, <2>3
    <3> QED  BY <2>1, <3>1, <3>2, <3>3, <3>4 DEF InStep
  <2> QED  BY <1>9, <1>10, <2>2, <2>4 DEF IInv
<1>16. CASE ~(ofs + n < LineSize) /\ ofs' = 0 /\ m_sendQueue' = Tail(m_sendQueue)
  <2>1. Types'
    BY <1>1, <1>3, <1>7, <1>8, <1>14, <1>16 DEF Types
  <2>2. ~Dead => Expected(Wire) = Front(m_sendQueue', ofs', typed')
    <3>1. ~Dead => ofs + n = LineSize
      BY <1>4, <1>13, <1>14, <1>16, <1>1
    <3> HIDE DEF Dead, Wire
    <3> QED  BY <3>1, <1>7, <1>13, <1>14, <1>16
  <2>3. InStep'
    <3> HIDE DEF Dead, Wire
    <3>1. ~(sending' > 0) /\ \A i \in 1..Len(port') : port'[i][1] # "send"
      BY <1>1, <1>3, <1>5, <1>7 DEF NoneIn
    <3>2. Follows(Wire') /\ ofs' < LineSize /\ ofs' = 0
      BY <1>1, <1>11, <1>16 DEF InStep
    <3>3. ~Dead' => Consecutive(m_sendQueue', typed')
      BY <1>7, <1>12, <1>14, <1>16
    <3>4. ~Dead' => Expected(Wire') = Front(m_sendQueue', ofs', typed')
      BY <1>11, <1>12, <2>2
    <3> QED  BY <3>1, <3>2, <3>3, <3>4 DEF InStep
  <2> QED  BY <1>9, <1>10, <2>1, <2>3 DEF IInv
<1> QED  BY <1>15, <1>16 DEF OnSendComplete, Rest, Pop, n

-----------------------------------------------------------------------------

LEMMA InitIInv == AllInit => IInv
<1> SUFFICES ASSUME AllInit PROVE IInv
  OBVIOUS
<1> USE DEF AllInit, Init
<1>1. LineSize \in Nat /\ LineSize > 0 /\ SndBuf \in Nat
  BY LoopAssumption
<1>2. m_sendQueue = <<>> /\ port = <<>> /\ heard = <<>> /\ up = <<>> /\ ofs = 0 /\ typed = 0
  OBVIOUS
<1>3. Types
  BY <1>1, <1>2, EmptySeq DEF Types
<1>4. Places
  BY EmptySeq DEF Places, IocpPlaces, BlockingPlaces, SelectPlaces, Early, IocpLabel, SelectLabel
<1>5. Exclusive
  BY EmptySeq DEF Exclusive, Busy, NoneIn, OneIn
<1>6. Wire = <<>>
  BY <1>2 DEF Wire
<1>7. InStep
  <2>1. Follows(Wire) /\ Expected(Wire) = <<1, 1>>
    BY <1>6, EmptySeq DEF Follows, Expected
  <2>2. Front(m_sendQueue, ofs, typed) = <<1, 1>>
    BY <1>2 DEF Front
  <2>3. Consecutive(m_sendQueue, typed)
    BY <1>2, EmptySeq DEF Consecutive
  <2>4. ~(sending > 0) /\ \A i \in 1..Len(port) : FALSE
    BY <1>2, EmptySeq
  <2> QED  BY <1>1, <1>2, <2>1, <2>2, <2>3, <2>4 DEF InStep
<1> QED  BY <1>3, <1>4, <1>5, <1>7 DEF IInv

(* The loop clients. *)
LEMMA LoopKeeps == IInv /\ LoopStep => IInv'
<1> SUFFICES ASSUME IInv, kind \in LoopKinds, Next, UNCHANGED threadVars PROVE IInv'
  BY DEF LoopStep
<1>1. Types /\ Places /\ kind # "blocking"
  BY DEF IInv, LoopKinds
<1>2. CASE Console
  <2>1. CASE Type \/ ModWritable \/ (\E out \in BOOLEAN : EpollMod(out)) \/ Join
    BY <2>1, <1>1, ConsoleQuiet, QuietStep
  <2>2. CASE Send
    BY <2>2, <1>1, SendStep
  <2>3. CASE Stop("console")
    BY <2>3, <1>1, StopQuiet, QuietStep
  <2> QED  BY <1>2, <2>1, <2>2, <2>3 DEF Console
<1>3. CASE Net
  <2>1. CASE SendWhole \/ SendPart \/ SendMsg
    BY <2>1, LoopSends
  <2>2. CASE Stop("net")
    BY <2>2, <1>1, StopQuiet, QuietStep
  <2>3. CASE \/ CreateConnection \/ SetNonBlocking \/ SetRunning \/ CreatePoll \/ CreateEpoll
             \/ AddSockToEpoll \/ LoopTest \/ LoopWaits \/ PollReturns \/ PollTimeout
             \/ EpollReturns \/ HandleConnection \/ RecvData \/ RecvAgain \/ RecvEnd
             \/ Write \/ SendReturns \/ SendFails \/ DropWritable
    BY <2>3, <1>1, NetQuiet, QuietStep
  <2>4. CASE \/ SelectStart \/ SelectConnect \/ BuildFdSets \/ SelectReturns \/ SelectTimeout
             \/ HandleReadyReceivers \/ ReceiveMsg \/ ReceiveMsgEnds \/ HandleReadyWriters \/ SendMsgFails
    BY <2>4, <1>1, SelectQuiet, QuietStep
  <2> QED  BY <1>3, <2>1, <2>2, <2>3, <2>4 DEF Net
<1>4. CASE WaitFails \/ QueueRace \/ ServerSends \/ ServerCloses
  BY <1>4, <1>1, EventQuiet, QuietStep
<1>5. CASE ServerReads
  BY <1>5, ServerReadsStep
<1> QED  BY <1>2, <1>3, <1>4, <1>5 DEF Next, Server

(* The iocp and the blocking client. *)
LEMMA ThreadKeeps ==
    IInv /\ (ThreadConsole \/ ThreadNet \/ Worker \/ JoinRace \/ Kernel \/ ServerStep) => IInv'
<1> SUFFICES ASSUME IInv, ThreadConsole \/ ThreadNet \/ Worker \/ JoinRace \/ Kernel \/ ServerStep PROVE IInv'
  OBVIOUS
<1>1. Types /\ Places
  BY DEF IInv
<1>2. ASSUME NEW t \in {"console", "net"}, ThreadStop(t) PROVE IInv'
  <2>1. CASE ThreadStopBegin(t) \/ StopNotify(t) \/ StopCleanup(t) \/ JoinWorker(t)
    BY <2>1, <1>1, ThreadQuiet, QuietStep
  <2>2. CASE (StopTest(t) \/ StopShutdown(t)) /\ UNCHANGED threadVars
    BY <2>2, <1>1, StopQuiet, QuietStep DEF Stop
  <2>3. CASE ThreadStopClose(t)
    BY <2>3, CloseStep
  <2> QED  BY <1>2, <2>1, <2>2, <2>3 DEF ThreadStop
<1>3. CASE ThreadConsole
  <2>1. CASE kind = "iocp" /\ Type /\ UNCHANGED threadVars
    BY <2>1, <1>1, ConsoleQuiet, QuietStep
  <2>2. CASE kind = "iocp" /\ Send /\ UNCHANGED threadVars
    BY <2>2, SendStep
  <2>3. CASE Join /\ UNCHANGED threadVars
    BY <2>3, <1>1, ConsoleQuiet, QuietStep
  <2>4. CASE SendNotify
    BY <2>4, <1>1, WorkerQuiet, QuietStep
  <2>5. CASE BlockingConnect \/ BlockingType \/ BlockingSend \/ BlockingSendFails
    BY <2>5, BlockingStep
  <2>6. CASE BlockingRecv("console")
    BY <2>6, <1>1, ThreadQuiet, QuietStep
  <2>7. CASE ThreadStop("console")
    BY <2>7, <1>2
  <2> QED  BY <1>3, <2>1, <2>2, <2>3, <2>4, <2>5, <2>6, <2>7 DEF ThreadConsole
<1>4. CASE ThreadNet
  <2>1. CASE IocpConnect \/ AssociateHandle \/ Activate \/ FirstPost \/ RunSend \/ Spawn \/ ActiveTest \/ NextPost
    BY <2>1, <1>1, IocpQuiet, QuietStep
  <2>2. CASE OnNull \/ OnRecvComplete
    BY <2>2, RecvStep
  <2>3. CASE OnFailure
    BY <2>3, FailureStep
  <2>4. CASE OnSendComplete
    BY <2>4, SendCompleteStep
  <2>5. CASE At("net", "kick") /\ KickSend("net", "active")
    BY <2>5, KickStep DEF At
  <2>6. CASE ReceiveTest \/ BlockingRecv("net") \/ BlockingRecvEnds
    BY <2>6, <1>1, ThreadQuiet, QuietStep
  <2>7. CASE ThreadStop("net")
    BY <2>7, <1>2
  <2> QED  BY <1>4, <2>1, <2>2, <2>3, <2>4, <2>5, <2>6, <2>7 DEF ThreadNet, IocpNet
<1>5. CASE Worker
  <2>1. CASE WorkerTest \/ (WorkerCheck /\ worker' # "kick") \/ WorkerSleeps
    BY <2>1, <1>1, WorkerQuiet, QuietStep
  <2>2. CASE WorkerCheck /\ worker' = "kick"
    BY <2>2, ClaimStep
  <2>3. CASE worker = "kick" /\ KickSend("worker", "test")
    BY <2>3, KickStep
  <2> QED  BY <1>5, <2>1, <2>2, <2>3 DEF Worker
<1>6. CASE JoinRace
  BY <1>6, <1>1, WorkerQuiet, QuietStep
<1>7. CASE Kernel
  BY <1>7, RecvStep, SendDoneStep DEF Kernel
<1>8. CASE ServerStep
  BY <1>8, <1>1, EventQuiet, QuietStep, ServerReadsStep DEF ServerStep, Server
<1> QED  BY <1>3, <1>4, <1>5, <1>6, <1>7, <1>8

LEMMA StutterKeeps == IInv /\ UNCHANGED allVars => IInv'
<1> SUFFICES ASSUME IInv, UNCHANGED allVars PROVE IInv'
  OBVIOUS
<1> USE DEF allVars, vars, handleVars, queueVars, kernelVars, netVars, threadVars, workerVars, ioVars
<1>1. Places'
  BY DEF IInv, Places, IocpPlaces, BlockingPlaces, SelectPlaces
<1>2. Quiet
  BY DEF IInv, Types, Quiet, Dead
<1> QED  BY <1>1, <1>2, QuietStep

(* The inductive invariant holds of the clients. *)
THEOREM Inductive == AllSpec => []IInv
<1>1. IInv /\ [AllNext]_allVars => IInv'
  BY LoopKeeps, ThreadKeeps, StutterKeeps DEF AllNext
<1> QED  BY InitIInv, <1>1, PTL DEF AllSpec

(* The server reads the lines that were queued, each once, whole and in order, whatever
   is sent in parts, closed or dropped meanwhile (Write, SendMsg, KickSend and
   OnSendComplete, SendMessages). *)
THEOREM InOrder == AllSpec => []LinesInOrder
<1>1. IInv => LinesInOrder
  BY DEF IInv, InStep, Follows, Wire, LinesInOrder
<1> QED  BY <1>1, Inductive, PTL

(* The iocp client has one WSASend in flight, and keeps the line it sends at the front
   of the queue (SendWorker, KickSend and OnSendComplete). *)
THEOREM SendsOne == AllSpec => []OneSend
<1>1. IInv => OneSend
  <2> SUFFICES ASSUME IInv PROVE OneSend
    OBVIOUS
  <2>1. Exclusive /\ DOMAIN port = 1..Len(port) /\ sending \in Nat
    BY LenProperties DEF IInv, Types
  <2>2. ASSUME NEW s \in Senders
        PROVE  /\ Busy
               /\ \/ s = <<"worker", 0>> /\ worker = "kick"
                  \/ s = <<"net", 0>> /\ pc["net"] = "kick"
                  \/ s = <<"kernel", 0>> /\ sending > 0
                  \/ \E i \in 1..Len(port) : s = <<"port", i>> /\ port[i][1] = "send"
    BY <2>1, <2>2 DEF Senders, Busy, NoneIn, At
  <2>3. \A s, u \in Senders : s = u
    BY <2>1, <2>2 DEF Exclusive, NoneIn, OneIn
  <2>4. Senders # {} => m_sendInFlight /\ m_sendQueue # <<>>
    BY <2>1, <2>2 DEF Exclusive
  <2> QED  BY <2>3, <2>4 DEF OneSend
<1> QED  BY <1>1, Inductive, PTL
=============================================================================
