----------------------------- MODULE LoopClient -----------------------------
(***************************************************************************)
(* The poll, epoll and select clients of NetworkBasics.  The console       *)
(* thread queues the lines that are typed, the net thread connects and     *)
(* runs one loop over the socket; both may be in Stop.  The clients differ *)
(* in how the net thread waits: poll and select build their masks from the *)
(* queue and wake every second; epoll (edge-triggered) sleeps until an     *)
(* event and relies on Send to change the mask.  The select client has no  *)
(* mutex.                                                                  *)
(*                                                                         *)
(* A line is its number, and LineSize bytes; byte k of line n is <<n, k>>. *)
(* What the server says is only counted.                                   *)
(***************************************************************************)
EXTENDS Naturals, Sequences

CONSTANTS
    Kinds,      \* the clients to check: of "poll", "epoll", "select", and of
                \* "iocp" and "blocking", whose steps are in ThreadClient
    MaxLines,   \* bound: lines typed
    LineSize,   \* bytes of a line, its '\n' included
    SndBuf,     \* room in the socket's send buffer
    MaxIn       \* bound: what the server says

ASSUME LoopAssumption ==
    /\ Kinds \subseteq {"poll", "epoll", "select", "iocp", "blocking"}
    /\ {MaxLines, MaxIn} \subseteq Nat
    /\ {LineSize, SndBuf} \subseteq Nat \ {0}

VARIABLES
    kind,
    m_running,      \* m_isActive of the select client
    m_socket,       \* is m_socket a descriptor?
    m_epoll,        \* is m_epoll a descriptor?
    m_sendMutex,    \* who holds it: "none" or "net" (the console never holds
                    \* it longer than a step)
    m_sendQueue,    \* the lines
    ofs,            \* how much of the front one is sent (and erased)
    pc,             \* where the threads are
    watched,        \* m_poll.fd is a descriptor; the socket is in the epoll set
                    \* or in readSet
    wantOut,        \* EPOLLOUT or POLLOUT is asked for
    event,          \* what poll or epoll_wait reported, not handled yet
    typed,          \* lines queued so far
    shut,           \* shutdown(SHUT_WR) was called
    wakeup,         \* the socket is on epoll's ready list
    up,             \* the send buffer and the wire to the server
    heard,          \* what the server has read
    said,           \* what the server has said
    unread,         \* and how much of it has not been read
    server          \* the server's end: "open", "closed" (FIN) or "reset"

queueVars == <<m_sendMutex, m_sendQueue, ofs, typed>>
handleVars == <<m_running, m_socket, m_epoll>>
kernelVars == <<watched, wantOut, shut, wakeup>>
netVars == <<up, heard, said, unread, server>>
vars == <<kind, handleVars, queueVars, pc, event, kernelVars, netVars>>

StopLabel == {"stop", "test", "shutdown", "close", "rest", "end"}
ConsoleLabel == StopLabel \union {"read", "push", "mod", "ctlIn", "ctlOut", "join", "raced"}
NetLabel == StopLabel \union {"connect", "nonblock", "start", "create", "add", "loop", "wait",
                              "asleep", "handle", "recv", "write", "send", "check", "relock",
                              "startup", "open", "build", "readers", "receive", "writers",
                              "sendmsg", "raced"}

TypeOK ==
    /\ kind \in Kinds
    /\ {m_running, m_socket, m_epoll, watched, wantOut, shut, wakeup} \subseteq BOOLEAN
    /\ m_sendMutex \in {"none", "net"}
    /\ m_sendQueue \in Seq(1..MaxLines)
    /\ m_sendQueue = <<>> => ofs = 0
    /\ ofs \in 0..(LineSize - 1)
    /\ pc \in [console : ConsoleLabel, net : NetLabel]
    /\ event \subseteq {"HUP", "IN", "OUT"}
    /\ typed \in 0..MaxLines
    /\ up \in Seq((1..MaxLines) \X (1..LineSize)) /\ Len(up) <= SndBuf
    /\ heard \in Seq((1..MaxLines) \X (1..LineSize))
    /\ said \in 0..MaxIn /\ unread \in 0..said
    /\ server \in {"open", "closed", "reset"}

Init ==
    /\ kind \in Kinds
    /\ m_running = FALSE /\ m_socket = FALSE /\ m_epoll = FALSE
    /\ m_sendMutex = "none" /\ m_sendQueue = <<>> /\ ofs = 0 /\ typed = 0
    /\ pc = [console |-> IF kind = "blocking" THEN "dial" ELSE "read",
             net |-> IF kind \in {"poll", "epoll"} THEN "connect"
                     ELSE IF kind = "blocking" THEN "none" ELSE "startup"]
    /\ event = {}
    /\ watched = FALSE /\ wantOut = FALSE /\ shut = FALSE /\ wakeup = FALSE
    /\ up = <<>> /\ heard = <<>> /\ said = 0 /\ unread = 0 /\ server = "open"

LoopKinds == {"poll", "epoll", "select"}

At(t, label) == pc[t] = label
Go(t, label) == pc' = [pc EXCEPT ![t] = label]

-----------------------------------------------------------------------------
(* The socket.  epoll puts it on its ready list when something happens to it
   and when ADD or MOD finds it ready; what is reported is looked up when
   epoll_wait returns. *)

Space == SndBuf - Len(up)

\* The select client shuts down both directions.
Readable == unread > 0 \/ server # "open" \/ (shut /\ kind = "select")
Writable == Space > 0 \/ shut \/ server = "reset"

\* EPOLLRDHUP is asked for, POLLRDHUP is not, and select has no set of
\* exceptions.  HUP stands for ERR too.
HungUp ==
    /\ kind # "select"
    /\ server = "reset" \/ (server = "closed" /\ (shut \/ kind = "epoll"))

InEpoll == watched /\ kind = "epoll"

Events(out) ==
    {e \in {"HUP", "IN", "OUT"} :
        \/ e = "HUP" /\ HungUp
        \/ e = "IN" /\ Readable
        \/ e = "OUT" /\ out /\ Writable}

\* The server: it speaks, hangs up, and reads.
ServerSends ==
    /\ server = "open" /\ m_socket
    /\ said < MaxIn
    /\ said' = said + 1 /\ unread' = unread + 1
    /\ wakeup' = InEpoll
    /\ UNCHANGED <<kind, handleVars, queueVars, pc, event, watched, wantOut, shut, up, heard, server>>

ServerCloses ==
    /\ server = "open" /\ m_socket
    /\ server' \in {"closed", "reset"}
    /\ wakeup' = InEpoll
    /\ UNCHANGED <<kind, handleVars, queueVars, pc, event, watched, wantOut, shut, up, heard, said, unread>>

ServerReads ==
    /\ server = "open"
    /\ up # <<>>
    /\ heard' = heard \o up /\ up' = <<>>
    /\ wakeup' = (wakeup \/ (InEpoll /\ Space = 0))
    /\ UNCHANGED <<kind, handleVars, queueVars, pc, event, watched, wantOut, shut, said, unread, server>>

-----------------------------------------------------------------------------
(* ChatClient::Stop, by the console after /quit and by the net thread after
   its loop.  Poll and epoll clear m_running first, select m_isActive last. *)

StopBegin(t) ==
    /\ At(t, "stop")
    /\ m_running' = (m_running /\ kind = "select")
    /\ Go(t, "test")
    /\ UNCHANGED <<kind, m_socket, m_epoll, queueVars, event, kernelVars, netVars>>

\* Where t goes when the socket is dealt with.
AfterStop(t) == IF t = "net" THEN "end" ELSE "join"
AfterSocket(t) == IF kind = "poll" THEN AfterStop(t) ELSE "rest"

StopTest(t) ==
    /\ At(t, "test")
    /\ Go(t, IF m_socket THEN "shutdown" ELSE AfterSocket(t))
    /\ UNCHANGED <<kind, handleVars, queueVars, event, kernelVars, netVars>>

StopShutdown(t) ==
    /\ At(t, "shutdown")
    /\ shut' = (shut \/ m_socket)
    /\ Go(t, "close")
    /\ UNCHANGED <<kind, handleVars, queueVars, event, watched, wantOut, wakeup, netVars>>

\* SafeCloseSocket; a closed socket leaves the epoll set, and m_poll.fd and
\* readSet keep it.
StopClose(t) ==
    /\ At(t, "close")
    /\ m_socket' = FALSE
    /\ watched' = (watched /\ kind # "epoll")
    /\ wakeup' = FALSE
    /\ Go(t, AfterSocket(t))
    /\ UNCHANGED <<kind, m_running, m_epoll, queueVars, event, wantOut, shut, netVars>>

StopEpoll(t) ==
    /\ At(t, "rest") /\ kind = "epoll"
    /\ m_epoll' = FALSE
    /\ Go(t, AfterStop(t))
    /\ UNCHANGED <<kind, m_running, m_socket, queueVars, event, kernelVars, netVars>>

\* WSACleanup, if m_isActive.
StopWinsock(t) ==
    /\ At(t, "rest") /\ kind = "select"
    /\ m_running' = FALSE
    /\ Go(t, AfterStop(t))
    /\ UNCHANGED <<kind, m_socket, m_epoll, queueVars, event, kernelVars, netVars>>

Stop(t) ==
    \/ StopBegin(t) \/ StopTest(t) \/ StopShutdown(t) \/ StopClose(t)
    \/ StopEpoll(t) \/ StopWinsock(t)

-----------------------------------------------------------------------------
(* The console: main, or the input thread of the select client. *)

\* getline: a line, /quit, or the end of the input.
\* (Once Start has returned, a line goes into a queue that nobody reads.)
Type ==
    /\ At("console", "read")
    /\ \/ typed < MaxLines /\ Go("console", "push")
       \/ Go("console", "stop")
       \/ Go("console", "join")
    /\ UNCHANGED <<kind, handleVars, queueVars, event, kernelVars, netVars>>

\* Send: push_back under the mutex.  EnqueueSend has none.
Send ==
    /\ At("console", "push")
    /\ m_sendMutex = "none"
    /\ typed' = typed + 1
    /\ m_sendQueue' = Append(m_sendQueue, typed + 1)
    /\ Go("console", IF kind = "epoll" THEN "mod" ELSE IF kind = "iocp" THEN "wake" ELSE "read")
    /\ UNCHANGED <<kind, handleVars, m_sendMutex, ofs, event, kernelVars, netVars>>

\* ModWritable(true), if there is a socket: the mask is made under the mutex ...
ModWritable ==
    /\ At("console", "mod")
    /\ IF m_epoll /\ m_socket
       THEN /\ m_sendMutex = "none"
            /\ Go("console", IF m_sendQueue = <<>> THEN "ctlIn" ELSE "ctlOut")
       ELSE Go("console", "read")
    /\ UNCHANGED <<kind, handleVars, queueVars, event, kernelVars, netVars>>

\* ... and given to epoll without it.  A socket that is not in the set is
\* an error that is only printed.
EpollMod(out) ==
    /\ At("console", IF out THEN "ctlOut" ELSE "ctlIn")
    /\ IF watched /\ m_epoll
       THEN wantOut' = out /\ wakeup' = (wakeup \/ Events(out) # {})
       ELSE UNCHANGED <<wantOut, wakeup>>
    /\ Go("console", "read")
    /\ UNCHANGED <<kind, handleVars, queueVars, event, watched, shut, netVars>>

Join ==
    /\ At("console", "join") /\ At("net", "end")
    /\ Go("console", "end")
    /\ UNCHANGED <<kind, handleVars, queueVars, event, kernelVars, netVars>>

-----------------------------------------------------------------------------
(* Start. *)

CreateConnection ==
    /\ At("net", "connect")
    /\ \/ m_socket' = TRUE /\ Go("net", "nonblock")
       \/ Go("net", "stop") /\ UNCHANGED m_socket
    /\ UNCHANGED <<kind, m_running, m_epoll, queueVars, event, kernelVars, netVars>>

\* SetNonBlocking fails on -1.
SetNonBlocking ==
    /\ At("net", "nonblock")
    /\ Go("net", IF m_socket THEN "start" ELSE "stop")
    /\ UNCHANGED <<kind, handleVars, queueVars, event, kernelVars, netVars>>

SetRunning ==
    /\ At("net", "start")
    /\ m_running' = TRUE
    /\ Go("net", "create")
    /\ UNCHANGED <<kind, m_socket, m_epoll, queueVars, event, kernelVars, netVars>>

CreatePoll ==
    /\ At("net", "create") /\ kind = "poll"
    /\ watched' = m_socket
    /\ Go("net", "loop")
    /\ UNCHANGED <<kind, handleVars, queueVars, event, wantOut, shut, wakeup, netVars>>

CreateEpoll ==
    /\ At("net", "create") /\ kind = "epoll"
    /\ m_epoll' = TRUE
    /\ Go("net", "add")
    /\ UNCHANGED <<kind, m_running, m_socket, queueVars, event, kernelVars, netVars>>

AddSockToEpoll ==
    /\ At("net", "add")
    /\ watched' = (m_socket /\ m_epoll)
    /\ wakeup' = (watched' /\ Events(FALSE) # {})
    /\ Go("net", "loop")
    /\ UNCHANGED <<kind, handleVars, queueVars, event, wantOut, shut, netVars>>

-----------------------------------------------------------------------------
(* RunLoop.  Where it ends, Stop follows: the stores of m_running before it
   are the one of Stop. *)

LoopTest ==
    /\ At("net", "loop")
    /\ Go("net", IF ~m_running THEN "stop" ELSE IF kind = "select" THEN "build" ELSE "wait")
    /\ UNCHANGED <<kind, handleVars, queueVars, event, kernelVars, netVars>>

\* SetPollEvents; epoll_wait begins, on an epoll that may be closed.
LoopWaits ==
    /\ At("net", "wait")
    /\ IF kind = "poll"
       THEN /\ m_sendMutex = "none"
            /\ wantOut' = (m_sendQueue # <<>>)
            /\ Go("net", "asleep")
       ELSE /\ Go("net", IF m_epoll THEN "asleep" ELSE "stop")
            /\ UNCHANGED wantOut
    /\ UNCHANGED <<kind, handleVars, queueVars, event, watched, shut, wakeup, netVars>>

\* A closed descriptor is POLLNVAL.  One that is closed while poll waits
\* leaves the loop too, if not at once: after a timeout, or by a failing recv.
PollReturns ==
    /\ At("net", "asleep") /\ kind = "poll"
    /\ watched
    /\ IF m_socket
       THEN /\ Events(wantOut) # {}
            /\ event' = Events(wantOut)
            /\ Go("net", "handle")
       ELSE Go("net", "stop") /\ UNCHANGED event
    /\ UNCHANGED <<kind, handleVars, queueVars, kernelVars, netVars>>

\* TIMEOUT_MS; poll ignores the descriptor -1.
PollTimeout ==
    /\ At("net", "asleep") /\ kind = "poll"
    /\ watched => m_socket /\ Events(wantOut) = {}
    /\ Go("net", "loop")
    /\ UNCHANGED <<kind, handleVars, queueVars, event, kernelVars, netVars>>

EpollReturns ==
    /\ At("net", "asleep") /\ kind = "epoll"
    /\ wakeup
    /\ wakeup' = FALSE
    /\ event' = Events(wantOut)
    /\ IF event' = {} THEN UNCHANGED pc ELSE Go("net", "handle")
    /\ UNCHANGED <<kind, handleVars, queueVars, watched, wantOut, shut, netVars>>

\* poll or epoll_wait fails, or a signal interrupts epoll_wait (EINTR; that of
\* poll is as a timeout).
WaitFails ==
    /\ At("net", "asleep")
    /\ \/ Go("net", "stop")
       \/ kind = "epoll" /\ ~wakeup /\ Go("net", "loop")
    /\ UNCHANGED <<kind, handleVars, queueVars, event, kernelVars, netVars>>

HandleConnection ==
    /\ At("net", "handle")
    /\ Go("net", IF "HUP" \in event THEN "stop"
                 ELSE IF "IN" \in event THEN "recv" ELSE "write")
    /\ UNCHANGED <<kind, handleVars, queueVars, event, kernelVars, netVars>>

-----------------------------------------------------------------------------
(* Read: one recv at a time, until EAGAIN. *)

AfterRead == IF "OUT" \in event THEN "write" ELSE "loop"

\* Mutated form of RecvData: one recv, as if the events were level-triggered.
RecvDataOnce ==
    /\ At("net", "recv")
    /\ m_socket /\ server # "reset" /\ unread > 0
    /\ unread' = unread - 1
    /\ Go("net", AfterRead)
    /\ UNCHANGED <<kind, handleVars, queueVars, event, kernelVars, up, heard, said, server>>

RecvData ==
    /\ At("net", "recv")
    /\ m_socket /\ server # "reset" /\ unread > 0
    /\ unread' = unread - 1
    /\ UNCHANGED <<kind, handleVars, queueVars, pc, event, kernelVars, up, heard, said, server>>

RecvAgain ==
    /\ At("net", "recv")
    /\ m_socket /\ server = "open" /\ unread = 0
    /\ Go("net", AfterRead)
    /\ UNCHANGED <<kind, handleVars, queueVars, event, kernelVars, netVars>>

\* 0, an error, or -1 for the socket.
RecvEnd ==
    /\ At("net", "recv")
    /\ ~m_socket \/ server = "reset" \/ (server = "closed" /\ unread = 0)
    /\ Go("net", "stop")
    /\ UNCHANGED <<kind, handleVars, queueVars, event, kernelVars, netVars>>

-----------------------------------------------------------------------------
(* Write, under m_sendMutex: one send at a time. *)

Write ==
    /\ At("net", "write")
    /\ m_sendMutex = "none"
    /\ m_sendMutex' = "net"
    /\ Go("net", "send")
    /\ UNCHANGED <<kind, handleVars, m_sendQueue, ofs, typed, event, kernelVars, netVars>>

CanSend == m_socket /\ ~shut /\ server # "reset"

\* Write returns true: HandleConnection of epoll looks at the queue again.
WriteReturns ==
    /\ m_sendMutex' = "none"
    /\ Go("net", IF kind = "epoll" THEN "check" ELSE "loop")

\* Bytes a..b of line n.
Bytes(n, a, b) == [k \in 1..(b - a + 1) |-> <<n, a + k - 1>>]

\* pop_front.
Pop == m_sendQueue' = Tail(m_sendQueue) /\ ofs' = 0

SendWhole ==
    /\ At("net", "send") /\ m_sendQueue # <<>>
    /\ CanSend /\ Space >= LineSize - ofs
    /\ up' = up \o Bytes(Head(m_sendQueue), ofs + 1, LineSize)
    /\ Pop
    /\ UNCHANGED <<kind, handleVars, m_sendMutex, typed, pc, event, kernelVars, heard, said, unread, server>>

\* Mutated form of Rest: the front line keeps what is sent of it.
RestIsWhole(n) == ofs' = 0

\* erase(0, bytes).
Rest(n) == ofs' = ofs + n

\* A partial send: Write returns; in epoll it calls ModWritable first, which
\* locks the mutex that Write holds.
SendPart ==
    /\ At("net", "send") /\ m_sendQueue # <<>>
    /\ CanSend /\ Space > 0 /\ Space < LineSize - ofs
    /\ up' = up \o Bytes(Head(m_sendQueue), ofs + 1, ofs + Space)
    /\ Rest(Space)
    /\ IF kind = "epoll" /\ m_epoll
       THEN Go("net", "relock") /\ UNCHANGED m_sendMutex
       ELSE WriteReturns
    /\ UNCHANGED <<kind, handleVars, m_sendQueue, typed, event, kernelVars, heard, said, unread, server>>

\* The queue is empty, or EAGAIN.
SendReturns ==
    /\ At("net", "send")
    /\ m_sendQueue = <<>> \/ (CanSend /\ Space = 0)
    /\ WriteReturns
    /\ UNCHANGED <<kind, handleVars, m_sendQueue, ofs, typed, event, kernelVars, netVars>>

SendFails ==
    /\ At("net", "send") /\ m_sendQueue # <<>>
    /\ ~CanSend
    /\ m_sendMutex' = "none"
    /\ Go("net", "stop")
    /\ UNCHANGED <<kind, handleVars, m_sendQueue, ofs, typed, event, kernelVars, netVars>>

\* HandleConnection of epoll, after Write: with the mutex locked, an empty
\* queue calls ModWritable, which locks it again and, m_sendMutex not being
\* recursive, never returns.
DropWritable ==
    /\ At("net", "check")
    /\ m_sendMutex = "none"
    /\ IF m_sendQueue = <<>> /\ m_epoll /\ m_socket
       THEN m_sendMutex' = "net" /\ Go("net", "relock")
       ELSE Go("net", "loop") /\ UNCHANGED m_sendMutex
    /\ UNCHANGED <<kind, handleVars, m_sendQueue, ofs, typed, event, kernelVars, netVars>>

-----------------------------------------------------------------------------
(* The loop of the select client. *)

SelectStart ==
    /\ At("net", "startup")
    /\ m_running' = TRUE
    /\ Go("net", "open")
    /\ UNCHANGED <<kind, m_socket, m_epoll, queueVars, event, kernelVars, netVars>>

\* Nothing is connected after WSACleanup.  A failing Start does not call Stop.
\* Up to here m_socket has no value, which counts as no descriptor: Stop gets
\* nothing but errors from it.
SelectConnect ==
    /\ At("net", "open")
    /\ \/ m_running /\ m_socket' = TRUE /\ Go("net", "loop")
       \/ Go("net", "end") /\ UNCHANGED m_socket
    /\ UNCHANGED <<kind, m_running, m_epoll, queueVars, event, kernelVars, netVars>>

BuildFdSets ==
    /\ At("net", "build")
    /\ watched' = m_socket
    /\ wantOut' = (m_socket /\ m_sendQueue # <<>>)
    /\ Go("net", "asleep")
    /\ UNCHANGED <<kind, handleVars, queueVars, event, shut, wakeup, netVars>>

\* select fails on empty sets and on a closed socket.
SelectReturns ==
    /\ At("net", "asleep") /\ kind = "select"
    /\ IF watched /\ m_socket
       THEN /\ Events(wantOut) # {}
            /\ event' = Events(wantOut)
            /\ Go("net", IF m_running THEN "readers" ELSE "stop")
       ELSE Go("net", "stop") /\ UNCHANGED event
    /\ UNCHANGED <<kind, handleVars, queueVars, kernelVars, netVars>>

SelectTimeout ==
    /\ At("net", "asleep") /\ kind = "select"
    /\ watched /\ m_socket /\ Events(wantOut) = {}
    /\ Go("net", "loop")
    /\ UNCHANGED <<kind, handleVars, queueVars, event, kernelVars, netVars>>

\* FD_ISSET looks for m_socket as it is now.
HandleReadyReceivers ==
    /\ At("net", "readers")
    /\ Go("net", IF "IN" \in event /\ m_socket THEN "receive" ELSE "writers")
    /\ UNCHANGED <<kind, handleVars, queueVars, event, kernelVars, netVars>>

\* One recv; there are at most MAX_READS_PER_TICK.
ReceiveMsg ==
    /\ At("net", "receive")
    /\ CanSend /\ unread > 0
    /\ unread' = unread - 1
    /\ pc' \in {pc, [pc EXCEPT !["net"] = "writers"]}
    /\ UNCHANGED <<kind, handleVars, queueVars, event, kernelVars, up, heard, said, server>>

\* 1 (nothing to read) and 0 (the server has closed) are not -1.
ReceiveMsgEnds ==
    /\ At("net", "receive")
    /\ CanSend => unread = 0
    /\ Go("net", IF CanSend THEN "writers" ELSE "stop")
    /\ UNCHANGED <<kind, handleVars, queueVars, event, kernelVars, netVars>>

HandleReadyWriters ==
    /\ At("net", "writers")
    /\ Go("net", IF "OUT" \in event /\ m_socket THEN "sendmsg" ELSE "loop")
    /\ UNCHANGED <<kind, handleVars, queueVars, event, kernelVars, netVars>>

\* One send of the front line.
SendMsg ==
    /\ At("net", "sendmsg")
    /\ CanSend
    /\ LET n == IF Space < LineSize - ofs THEN Space ELSE LineSize - ofs
       IN  /\ up' = up \o Bytes(Head(m_sendQueue), ofs + 1, ofs + n)
           /\ IF ofs + n = LineSize THEN Pop ELSE Rest(n) /\ UNCHANGED m_sendQueue
    /\ Go("net", "loop")
    /\ UNCHANGED <<kind, handleVars, m_sendMutex, typed, event, kernelVars, heard, said, unread, server>>

SendMsgFails ==
    /\ At("net", "sendmsg")
    /\ ~CanSend
    /\ Go("net", "stop")
    /\ UNCHANGED <<kind, handleVars, queueVars, event, kernelVars, netVars>>

\* The deque is used by both threads at once: nothing is known of the process
\* any more.
QueueRace ==
    /\ kind = "select" /\ m_socket
    /\ At("console", "push") /\ pc["net"] \in {"build", "sendmsg"}
    /\ pc' = [console |-> "raced", net |-> "raced"]
    /\ UNCHANGED <<kind, handleVars, queueVars, event, kernelVars, netVars>>

-----------------------------------------------------------------------------

Console ==
    \/ Type \/ Send \/ ModWritable \/ (\E out \in BOOLEAN : EpollMod(out))
    \/ Stop("console") \/ Join

Net ==
    \/ CreateConnection \/ SetNonBlocking \/ SetRunning
    \/ CreatePoll \/ CreateEpoll \/ AddSockToEpoll
    \/ LoopTest \/ LoopWaits \/ PollReturns \/ PollTimeout \/ EpollReturns
    \/ HandleConnection
    \/ RecvData \/ RecvAgain \/ RecvEnd
    \/ Write \/ SendWhole \/ SendPart \/ SendReturns \/ SendFails \/ DropWritable
    \/ SelectStart \/ SelectConnect \/ BuildFdSets \/ SelectReturns \/ SelectTimeout
    \/ HandleReadyReceivers \/ ReceiveMsg \/ ReceiveMsgEnds
    \/ HandleReadyWriters \/ SendMsg \/ SendMsgFails
    \/ Stop("net")

Server == ServerSends \/ ServerCloses \/ ServerReads

Next == Console \/ Net \/ WaitFails \/ QueueRace \/ Server

\* Both threads run (nobody has to type, no signal has to come), and the server
\* reads.
Fairness ==
    /\ WF_vars(Net)
    /\ WF_vars(Console /\ ~At("console", "read"))
    /\ WF_vars(ServerReads)

Spec == Init /\ [][Next]_vars /\ Fairness

-----------------------------------------------------------------------------

ByteAfter(b) == IF b[2] = LineSize THEN <<b[1] + 1, 1>> ELSE <<b[1], b[2] + 1>>

(* The server reads the lines that were queued, each once, whole and in order:
   partial sends, lines queued meanwhile, Stop, and the lines that a failing send
   drops change nothing of that (Write and Send, SendMsg and EnqueueSend unless
   they race; in ThreadClient KickSend and OnSendComplete, SendMessages). *)
LinesInOrder ==
    LET wire == heard \o up
    IN  \A i \in 1..Len(wire) : wire[i] = IF i = 1 THEN <<1, 1>> ELSE ByteAfter(wire[i - 1])

\* The net thread waits for its own mutex, or the threads have raced.
Stuck == pc["net"] \in {"relock", "raced"}
Ended == At("net", "end")

\* Stop was overtaken by Start: the loop goes on without a socket.
Overtaken == m_running /\ ~m_socket

\* ReceiveMsg returns 0 over and over.
Spins == kind = "select" /\ server = "closed"

(* The poll and select clients build their masks before they sleep and a line is
   queued without waking them: the line is sent all the same, unless the loop
   ends or a /quit took the socket away. *)
Flushed ==
    kind \in {"poll", "select"} /\ m_sendQueue # <<>>
        ~> m_sendQueue = <<>> \/ Ended \/ Overtaken \/ Stuck \/ Spins

(* What the server says is read to its end, edges or not, while the connection
   stands; the epoll client stops doing so once it waits for its own mutex. *)
Printed == unread > 0 ~> unread = 0 \/ server # "open" \/ ~m_socket \/ Stuck

(* The loop ends when the server hangs up, but for the epoll client that waits
   for its own mutex and the select client that takes a closed connection for
   an idle one; and Start returns after a /quit of the poll or select client, if
   the loop had begun.  (An earlier /quit is overwritten by Start, and one
   that finds the epoll client in epoll_wait closes what it waits for.) *)
LoopEnds ==
    /\ kind \in LoopKinds /\ m_socket /\ server # "open" ~> Ended \/ Stuck \/ ~m_socket \/ Spins
    /\ kind \in {"poll", "select"} /\ m_running /\ At("console", "stop") ~> Ended \/ Stuck
=============================================================================
