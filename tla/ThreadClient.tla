---------------------------- MODULE ThreadClient ----------------------------
(***************************************************************************)
(* The two other clients of NetworkBasics, on the console, the socket and  *)
(* the server of LoopClient.                                               *)
(*   iocp      the console queues lines, a worker thread starts a send     *)
(*             when none is in flight, the net thread takes completions    *)
(*             from the port; the console and the net thread both may be   *)
(*             in Stop, which joins the worker                             *)
(*   blocking  blocking-multithreaded/Client: the console thread connects, *)
(*             sends and disconnects, the net thread (m_recv) receives     *)
(* A step of LoopClient here moves only the clients that LoopClient models.*)
(***************************************************************************)
EXTENDS LoopClient

VARIABLES
    worker,         \* where SendWorker is; "none" if there is nothing to join
    m_runSend,
    m_sendInFlight,
    sending,        \* the bytes of the WSASend that is pending, or 0
    receiving,      \* is a WSARecv pending?
    port,           \* the completions not taken yet, <<operation, bytes>>;
                    \* 0 bytes is an error, or the end of what is received
    deaf,           \* history: a WSARecv failed, and nobody looked at it
    missed          \* history: the last notify_all of Stop found the worker between
                    \* its test and its sleep

ioVars == <<sending, receiving, port, deaf, missed>>
workerVars == <<worker, m_runSend, m_sendInFlight>>
threadVars == <<workerVars, ioVars>>
allVars == <<vars, threadVars>>

AllInit ==
    /\ Init
    /\ worker = "none" /\ m_runSend = FALSE /\ m_sendInFlight = FALSE
    /\ sending = 0 /\ receiving = FALSE /\ port = <<>>
    /\ deaf = FALSE /\ missed = FALSE

Here(k, t, label) == kind = k /\ At(t, label)
ThreadAt(t, label) == kind \notin LoopKinds /\ At(t, label)

\* A recv can succeed; SD_BOTH of the iocp client forbids it.
CanRecv == m_socket /\ server # "reset" /\ (kind = "iocp" => ~shut)

-----------------------------------------------------------------------------
(* The kernel completes the operations of the iocp client. *)

\* A closed socket aborts what is pending, behind the completions in rest;
\* last comes after that.
Aborted(rest, last) ==
    /\ sending' = 0 /\ receiving' = FALSE
    /\ port' = rest \o (IF sending > 0 THEN <<<<"send", 0>>>> ELSE <<>>)
                    \o (IF receiving THEN <<<<"recv", 0>>>> ELSE <<>>) \o last

RecvDone ==
    /\ receiving
    /\ unread > 0 \/ server # "open"
    /\ receiving' = FALSE
    /\ port' = Append(port, <<"recv", IF server = "reset" THEN 0 ELSE unread>>)
    /\ UNCHANGED <<vars, workerVars, sending, deaf, missed>>

SendDone ==
    /\ sending > 0
    /\ IF server = "reset"
       THEN port' = Append(port, <<"send", 0>>) /\ UNCHANGED up
       ELSE \E n \in 1..sending :
              /\ n <= Space
              /\ up' = up \o Bytes(Head(m_sendQueue), ofs + 1, ofs + n)
              /\ port' = Append(port, <<"send", n>>)
    /\ sending' = 0
    /\ UNCHANGED <<kind, handleVars, queueVars, pc, event, kernelVars, heard, said, unread, server>>
    /\ UNCHANGED <<workerVars, receiving, deaf, missed>>

-----------------------------------------------------------------------------
(* Sending: KickSend, by the worker or the net thread. *)

\* Where t goes.
Moves(t, label) ==
    IF t = "worker" THEN worker' = label /\ UNCHANGED pc ELSE Go(t, label) /\ UNCHANGED worker

\* WSASend of what is left of the front line; on a connection that is reset it may
\* fail now or later.  A failure drops the line, a closed socket all of them.
KickSend(t, next) ==
    /\ m_sendMutex = "none"
    /\ \/ /\ m_sendQueue # <<>> /\ m_socket /\ ~shut
          /\ sending' = LineSize - ofs
          /\ UNCHANGED <<m_sendQueue, ofs, m_sendInFlight>>
       \/ /\ m_sendQueue # <<>> /\ m_socket /\ ~CanSend
          /\ Pop /\ m_sendInFlight' = FALSE /\ UNCHANGED sending
       \/ /\ m_sendQueue = <<>> \/ ~m_socket
          /\ m_sendQueue' = <<>> /\ ofs' = 0 /\ m_sendInFlight' = FALSE /\ UNCHANGED sending
    /\ Moves(t, next)
    /\ UNCHANGED <<kind, handleVars, m_sendMutex, typed, event, kernelVars, netVars>>
    /\ UNCHANGED <<m_runSend, receiving, port, deaf, missed>>

WorkerTest ==
    /\ worker = "test"
    /\ worker' = IF m_runSend THEN "check" ELSE "ended"
    /\ UNCHANGED <<vars, m_runSend, m_sendInFlight, ioVars>>

\* Mutated form of Claim: whatever is in flight.
ClaimAlways == worker' = "kick" /\ m_sendInFlight' = TRUE

\* If a send is in flight, the loop spins.
Claim ==
    /\ worker' = IF m_sendInFlight THEN "test" ELSE "kick"
    /\ m_sendInFlight' = TRUE

\* The predicate of the wait: false, and the worker is about to sleep with the
\* mutex; or it returns, and m_runSend is looked at once more.
WorkerCheck ==
    /\ worker = "check" /\ m_sendMutex = "none"
    /\ \/ /\ m_sendQueue = <<>> /\ m_runSend
          /\ worker' = "falling" /\ m_sendMutex' = "worker" /\ UNCHANGED m_sendInFlight
       \/ /\ ~m_runSend
          /\ worker' = "ended" /\ UNCHANGED <<m_sendMutex, m_sendInFlight>>
       \/ /\ m_sendQueue # <<>> /\ m_runSend
          /\ Claim /\ UNCHANGED m_sendMutex
    /\ UNCHANGED <<kind, handleVars, m_sendQueue, ofs, typed, pc, event, kernelVars, netVars>>
    /\ UNCHANGED <<m_runSend, ioVars>>

WorkerSleeps ==
    /\ worker = "falling"
    /\ worker' = "asleep" /\ m_sendMutex' = "none"
    /\ UNCHANGED <<kind, handleVars, m_sendQueue, ofs, typed, pc, event, kernelVars, netVars>>
    /\ UNCHANGED <<m_runSend, m_sendInFlight, ioVars>>

Worker == WorkerTest \/ WorkerCheck \/ WorkerSleeps \/ (worker = "kick" /\ KickSend("worker", "test"))

\* notify_one, notify_all: who is not asleep yet misses it.
Notify == worker' = IF worker = "asleep" THEN "check" ELSE worker

-----------------------------------------------------------------------------
(* The net thread of the iocp client: Start and RunEventLoop. *)

\* All of LoopClient but pc.
butPc == <<kind, handleVars, queueVars, event, kernelVars, netVars>>

\* InitIocp and CreateConnection; a failing WSAStartup does not call Stop.
IocpConnect ==
    /\ Here("iocp", "net", "startup")
    /\ \/ m_socket' = TRUE /\ Go("net", "associate")
       \/ Go("net", "stop") /\ UNCHANGED m_socket
       \/ Go("net", "end") /\ UNCHANGED m_socket
    /\ UNCHANGED <<kind, m_running, m_epoll, queueVars, event, kernelVars, netVars, threadVars>>

AssociateHandle ==
    /\ At("net", "associate")
    /\ Go("net", IF m_socket THEN "activate" ELSE "stop")
    /\ UNCHANGED <<butPc, threadVars>>

Activate ==
    /\ At("net", "activate")
    /\ m_running' = TRUE
    /\ Go("net", "post")
    /\ UNCHANGED <<kind, m_socket, m_epoll, queueVars, event, kernelVars, netVars, threadVars>>

\* WSARecv; on a connection that is reset it may fail now or later.
PostRecv(posted, failed) ==
    /\ \/ m_socket /\ ~shut /\ receiving' = TRUE /\ Go("net", posted)
       \/ ~CanRecv /\ Go("net", failed) /\ UNCHANGED receiving
    /\ UNCHANGED <<butPc, workerVars, sending, port>>

FirstPost == At("net", "post") /\ PostRecv("runsend", "stop") /\ UNCHANGED <<deaf, missed>>

RunSend ==
    /\ At("net", "runsend")
    /\ m_runSend' = TRUE
    /\ Go("net", "spawn")
    /\ UNCHANGED <<butPc, worker, m_sendInFlight, ioVars>>

Spawn ==
    /\ At("net", "spawn")
    /\ worker' = "test"
    /\ Go("net", "active")
    /\ UNCHANGED <<butPc, m_runSend, m_sendInFlight, ioVars>>

ActiveTest ==
    /\ At("net", "active")
    /\ Go("net", IF m_running THEN "dequeue" ELSE "stop")
    /\ UNCHANGED <<butPc, threadVars>>

\* GetQueuedCompletionStatus, without a timeout.
Dequeues(op) ==
    /\ At("net", "dequeue")
    /\ port # <<>> /\ Head(port)[1] = op

OnNull ==
    /\ Dequeues("null")
    /\ port' = Tail(port)
    /\ Go("net", "stop")
    /\ UNCHANGED <<butPc, workerVars, sending, receiving, deaf, missed>>

\* Mutated form of Farewell: nothing is posted.
NoFarewell == <<>>

\* nullptr is posted, to end the loop.
Farewell == <<<<"null", 0>>>>

\* OnRecvComplete and OnSendComplete, failed.
OnFailure ==
    /\ Dequeues("recv") \/ Dequeues("send")
    /\ Head(port)[2] = 0
    /\ m_socket' = FALSE
    /\ Aborted(Tail(port), Farewell)
    /\ Go("net", "active")
    /\ UNCHANGED <<kind, m_running, m_epoll, queueVars, event, kernelVars, netVars, workerVars, deaf, missed>>

OnRecvComplete ==
    /\ Dequeues("recv") /\ Head(port)[2] > 0
    /\ unread' = unread - Head(port)[2]
    /\ port' = Tail(port)
    /\ Go("net", "repost")
    /\ UNCHANGED <<kind, handleVars, queueVars, event, kernelVars, up, heard, said, server>>
    /\ UNCHANGED <<workerVars, sending, receiving, deaf, missed>>

\* The result is not looked at.
NextPost ==
    /\ At("net", "repost")
    /\ PostRecv("active", "active")
    /\ deaf' = (deaf \/ ~receiving')
    /\ UNCHANGED missed

\* Mutated form of InFlight: m_sendInFlight is not reset.
StaysInFlight(q) == TRUE

\* m_sendInFlight stays set for the KickSend that follows, if any.
InFlight(q) == q # <<>>

OnSendComplete ==
    /\ Dequeues("send") /\ Head(port)[2] > 0
    /\ m_sendMutex = "none"
    /\ IF ofs + Head(port)[2] < LineSize
       THEN Rest(Head(port)[2]) /\ UNCHANGED m_sendQueue ELSE Pop
    /\ m_sendInFlight' = InFlight(m_sendQueue')
    /\ Go("net", IF m_sendQueue' # <<>> THEN "kick" ELSE "active")
    /\ port' = Tail(port)
    /\ UNCHANGED <<kind, handleVars, m_sendMutex, typed, event, kernelVars, netVars>>
    /\ UNCHANGED <<worker, m_runSend, sending, receiving, deaf, missed>>

IocpNet ==
    \/ IocpConnect \/ AssociateHandle \/ Activate \/ FirstPost \/ RunSend \/ Spawn
    \/ ActiveTest \/ OnNull \/ OnFailure \/ OnRecvComplete \/ NextPost
    \/ OnSendComplete \/ (At("net", "kick") /\ KickSend("net", "active"))

-----------------------------------------------------------------------------
(* The blocking client. *)

\* Run up to the threads.  If no address answers, m_socket is INVALID_SOCKET or
\* the number of a closed socket, whose calls fail like those on a reset one.
BlockingConnect ==
    /\ At("console", "dial")
    /\ \/ /\ pc' = [console |-> "read", net |-> "again"]
          /\ m_socket' = TRUE /\ m_running' = TRUE
          /\ server' \in {"open", "reset"}
       \/ /\ pc' = [console |-> "end", net |-> "end"]
          /\ UNCHANGED <<m_socket, m_running, server>>
    /\ UNCHANGED <<kind, m_epoll, queueVars, event, kernelVars, up, heard, said, unread, threadVars>>

\* getline: the end of the input, or a line, and m_isActive is looked at.
BlockingType ==
    /\ Here("blocking", "console", "read")
    /\ \/ /\ typed < MaxLines /\ m_running
          /\ typed' = typed + 1
          /\ m_sendQueue' = <<typed + 1>>
          /\ Go("console", "send")
       \/ Go("console", "stop") /\ UNCHANGED <<typed, m_sendQueue>>
    /\ UNCHANGED <<kind, handleVars, m_sendMutex, ofs, event, kernelVars, netVars, threadVars>>

\* send, which blocks while there is no room.
BlockingSend ==
    /\ At("console", "send")
    /\ CanSend
    /\ \E n \in 1..(LineSize - ofs) :
         /\ n <= Space
         /\ up' = up \o Bytes(Head(m_sendQueue), ofs + 1, ofs + n)
         /\ IF ofs + n = LineSize THEN Pop /\ Go("console", "read")
            ELSE Rest(n) /\ UNCHANGED <<m_sendQueue, pc>>
    /\ UNCHANGED <<kind, handleVars, m_sendMutex, typed, event, kernelVars, heard, said, unread, server>>
    /\ UNCHANGED threadVars

\* The rest of the line is dropped, and the next line is read.
BlockingSendFails ==
    /\ At("console", "send")
    /\ ~CanSend
    /\ Pop /\ Go("console", "read")
    /\ UNCHANGED <<kind, handleVars, m_sendMutex, typed, event, kernelVars, netVars, threadVars>>

ReceiveTest ==
    /\ Here("blocking", "net", "again")
    /\ Go("net", IF m_running THEN "recv" ELSE "end")
    /\ UNCHANGED <<butPc, threadVars>>

\* One recv of ReceiveMessages, or of GracefulShutDown in the console thread.
BlockingRecv(t) ==
    /\ \/ t = "net" /\ Here("blocking", t, "recv") /\ Go("net", "again")
       \/ t = "console" /\ Here("blocking", t, "close") /\ UNCHANGED pc
    /\ CanRecv /\ unread > 0
    /\ \E n \in 0..(unread - 1) : unread' = n
    /\ UNCHANGED <<kind, handleVars, queueVars, event, kernelVars, up, heard, said, server, threadVars>>

\* 0, an error, or the timeout that GracefulShutDown has set.
BlockingRecvEnds ==
    /\ Here("blocking", "net", "recv")
    /\ ~CanRecv \/ (unread = 0 /\ (server # "open" \/ shut))
    /\ m_running' = FALSE
    /\ Go("net", "end")
    /\ UNCHANGED <<kind, m_socket, m_epoll, queueVars, event, kernelVars, netVars, threadVars>>

-----------------------------------------------------------------------------
(* Stop of the iocp client, and Disconnect. *)

ThreadStopBegin(t) ==
    /\ ThreadAt(t, "stop")
    /\ IF kind = "iocp"
       THEN m_runSend' = FALSE /\ Go(t, "notify") /\ UNCHANGED m_running
       ELSE m_running' = FALSE /\ Go(t, "test") /\ UNCHANGED m_runSend
    /\ UNCHANGED <<kind, m_socket, m_epoll, queueVars, event, kernelVars, netVars>>
    /\ UNCHANGED <<worker, m_sendInFlight, ioVars>>

\* Mutated form of StopNotify: nobody is notified.
StopNotifySilent(t) ==
    /\ At(t, "notify")
    /\ Go(t, "test")
    /\ UNCHANGED <<butPc, threadVars>>

\* notify_all, without the mutex.
StopNotify(t) ==
    /\ At(t, "notify")
    /\ Notify
    /\ missed' = (worker = "falling")
    /\ Go(t, "test")
    /\ UNCHANGED <<butPc, m_runSend, m_sendInFlight, sending, receiving, port, deaf>>

\* Disconnect drains the socket first, until nothing comes for RECV_TIMEOUT.
ThreadStopClose(t) ==
    /\ ThreadAt(t, "close")
    /\ kind = "blocking" => ~CanRecv \/ unread = 0
    /\ StopClose(t)
    /\ Aborted(port, <<>>)
    /\ UNCHANGED <<workerVars, deaf, missed>>

StopCleanup(t) ==
    /\ ThreadAt(t, "rest")
    /\ m_running' = FALSE
    /\ Go(t, IF kind = "iocp" THEN "joinable" ELSE "join")
    /\ UNCHANGED <<kind, m_socket, m_epoll, queueVars, event, kernelVars, netVars, threadVars>>

JoinWorker(t) ==
    /\ At(t, "joinable")
    /\ worker \in {"none", "ended"}
    /\ worker' = "none"
    /\ Go(t, AfterStop(t))
    /\ UNCHANGED <<butPc, m_runSend, m_sendInFlight, ioVars>>

\* Both threads find the worker joinable and join it: undefined.
JoinRace ==
    /\ At("console", "joinable") /\ At("net", "joinable") /\ worker # "none"
    /\ pc' = [console |-> "raced", net |-> "raced"]
    /\ UNCHANGED <<butPc, threadVars>>

ThreadStop(t) ==
    \/ ThreadStopBegin(t) \/ StopNotify(t)
    \/ kind \notin LoopKinds /\ (StopTest(t) \/ StopShutdown(t)) /\ UNCHANGED threadVars
    \/ ThreadStopClose(t) \/ StopCleanup(t) \/ JoinWorker(t)

-----------------------------------------------------------------------------

\* notify_one, after the line is queued.
SendNotify ==
    /\ At("console", "wake")
    /\ Notify
    /\ Go("console", "read")
    /\ UNCHANGED <<butPc, m_runSend, m_sendInFlight, ioVars>>

ThreadConsole ==
    \/ kind = "iocp" /\ (Type \/ Send) /\ UNCHANGED threadVars
    \/ kind \notin LoopKinds /\ Join /\ UNCHANGED threadVars
    \/ SendNotify
    \/ BlockingConnect \/ BlockingType \/ BlockingSend \/ BlockingSendFails
    \/ BlockingRecv("console")
    \/ ThreadStop("console")

ThreadNet ==
    \/ IocpNet
    \/ ReceiveTest \/ BlockingRecv("net") \/ BlockingRecvEnds
    \/ ThreadStop("net")

Kernel == RecvDone \/ SendDone
ServerStep == kind \notin LoopKinds /\ Server /\ UNCHANGED threadVars

LoopStep == kind \in LoopKinds /\ Next /\ UNCHANGED threadVars

AllNext ==
    \/ LoopStep
    \/ ThreadConsole \/ ThreadNet \/ Worker \/ JoinRace \/ Kernel \/ ServerStep

\* As in LoopClient; the worker runs, and the kernel completes what it can.
AllFairness ==
    /\ WF_allVars(IF kind \in LoopKinds THEN Net /\ UNCHANGED threadVars ELSE ThreadNet)
    /\ WF_allVars(/\ ~At("console", "read")
                  /\ IF kind \in LoopKinds THEN Console /\ UNCHANGED threadVars ELSE ThreadConsole)
    /\ WF_allVars(Worker) /\ WF_allVars(Kernel)
    /\ WF_allVars(ServerReads /\ UNCHANGED threadVars)

AllSpec == AllInit /\ [][AllNext]_allVars /\ AllFairness

-----------------------------------------------------------------------------

\* Who is sending, or about to: threads, the kernel, completions.
Senders ==
    {<<t, 0>> : t \in {u \in {"worker", "net", "kernel"} :
                          \/ u = "worker" /\ worker = "kick"
                          \/ u = "net" /\ At("net", "kick")
                          \/ u = "kernel" /\ sending > 0}}
    \union {<<"port", i>> : i \in {j \in DOMAIN port : port[j][1] = "send"}}

(* The iocp client has one WSASend in flight, from the claim of m_sendInFlight to
   the end of OnSendComplete, and the line it sends stays at the front of the
   queue, whoever calls KickSend and whatever is closed meanwhile. *)
OneSend ==
    /\ \A s, u \in Senders : s = u
    /\ Senders # {} => m_sendInFlight /\ m_sendQueue # <<>>

Raced == At("net", "raced")

\* The worker sleeps, and the notification came before it did.
Missed == worker = "asleep" /\ missed

(* And what is typed into the iocp client is handed to the kernel, by the worker or
   by the completion before it, unless Stop comes first. *)
Sent ==
    /\ Flushed
    /\ kind = "iocp" /\ m_sendQueue # <<>> ~> m_sendQueue = <<>> \/ Ended \/ ~m_socket \/ Raced

(* As the others do (LoopEnds), both clients end: after the end of the input or a
   /quit, if the iocp client was active by then (Start overwrites an earlier one);
   and when the server hangs up.  Nobody waits for a server that does not answer.
   What the iocp client may wait for is a worker that sleeps for ever because it was
   between its test and its sleep at the last notify_all of Stop, or a completion
   that cannot come because the WSARecv that would bring it failed unnoticed; a
   worker that slept when Stop came is woken and joined. *)
Ends ==
    LET threaded == kind \notin LoopKinds
        excused == deaf \/ Raced
    IN  /\ LoopEnds
        /\ threaded /\ (m_running \/ kind = "blocking") /\ At("console", "stop")
                ~> At("console", "end") \/ excused \/ []Missed
        /\ threaded /\ m_running /\ m_socket /\ server # "open" ~> Ended \/ excused \/ []Missed
=============================================================================
