--------------------------- MODULE FramingClient ---------------------------
(***************************************************************************)
(* Protocols/Framing/Client: the client with bounded queues.  Four threads *)
(*   main   connects, reads the console into m_txQueue, disconnects        *)
(*   send   m_txQueue  -> frames to the server                             *)
(*   recv   frames from the server -> m_rxQueue                            *)
(*   print  m_rxQueue  -> the console                                      *)
(* share m_isActive and two queues, each with a mutex and condition        *)
(* variables.  A critical section is one step, except that testing the     *)
(* predicate of a wait and falling asleep are two ("block" is in between,  *)
(* with the mutex held): a notification sent without the mutex can fall    *)
(* between them.  Each condition variable has one thread that waits on it, *)
(* so "asleep" is a label of that thread.                                  *)
(*                                                                         *)
(* The overflow modes are the defaults of ChatClient.h, which nothing      *)
(* changes: BlockProducer for sending, DropNewest for receiving.  A frame  *)
(* is sent and received whole (FrameCodec is about its bytes).             *)
(***************************************************************************)
EXTENDS Integers, Sequences

CONSTANTS
    Sizes,              \* bound: the lengths of the lines typed
    TX_HWM, TX_LWM,     \* watermarks of m_txQueue, in bytes
    MAX_RX_QUEUE_SIZE,  \* messages in m_rxQueue
    MaxLines,           \* bound: lines typed
    MaxFrames,          \* bound: frames the server sends
    MaxEvents,          \* bound: lines typed and frames sent, together
    WireCap,            \* bound: frames the TCP connection buffers
    MaxAddrs            \* bound: addresses the name of the server resolves to

ASSUME FramingClientAssumption ==
    /\ Sizes \subseteq Nat
    /\ TX_HWM \in Nat /\ TX_LWM \in 0..TX_HWM
    /\ MAX_RX_QUEUE_SIZE \in Nat \ {0}
    /\ MaxLines \in Nat /\ MaxFrames \in Nat /\ MaxEvents \in Nat
    /\ MaxAddrs \in Nat
    /\ WireCap \in Nat \ {0}

VARIABLES
    pc,                 \* pc[t]: where thread t is
    line,               \* main's line, as a sequence of at most one
    frame,              \* recv's msg, likewise
    msg,                \* send's msg, likewise
    m_isActive,
    m_socket,           \* invalid, dead (closed, but not INVALID_SOCKET), open,
                        \* shut (SD_SEND done), closed
    m_rxQueue,          \* the numbers of the frames to be printed
    m_txQueue,          \* the lines to be sent, <<number, size>>
    m_txBytesQueued,
    printed,            \* the frames printed so far
    typed,              \* lines typed so far
    eof,                \* has the console been closed?
    tries,              \* addresses tried
    server,             \* the server's end: open, closed or reset
    offered, taken,     \* frames the server has sent; the client has received
    wire,               \* lines on their way to the server
    heard               \* lines the server has received

queueVars == <<m_rxQueue, m_txQueue, m_txBytesQueued>>
netVars == <<server, offered, wire, heard>>
conVars == <<printed, typed, eof>>
handVars == <<line, frame, msg>>
flagVars == <<m_isActive, m_socket>>
dataVars == <<handVars, flagVars, queueVars, conVars, tries, netVars, taken>>
vars == <<pc, dataVars>>

Line == (1..MaxLines) \X Sizes
Number(l) == l[1]
Size(l) == l[2]

MainLabel == {"connect", "getline", "enqueue", "block", "asleep", "inactive", "wakePrint",
              "wakeSend", "shutdown", "drain", "join", "returned", "failed"}
RecvLabel == {"none", "check", "recv", "push", "lost", "wakePrint", "hungup", "done"}
WaitLabel == {"none", "lock", "block", "asleep", "send", "inactive", "wakeMain", "done"}

AtMostOne(S) == {<<>>} \union {<<x>> : x \in S}

TypeOK ==
    /\ pc \in [main : MainLabel, recv : RecvLabel, print : WaitLabel, send : WaitLabel]
    /\ line \in AtMostOne(Line) /\ msg \in AtMostOne(Line)
    /\ frame \in AtMostOne(1..MaxFrames)
    /\ m_isActive \in BOOLEAN
    /\ m_socket \in {"invalid", "dead", "open", "shut", "closed"}
    /\ m_rxQueue \in Seq(1..MaxFrames) /\ Len(m_rxQueue) <= MAX_RX_QUEUE_SIZE
    /\ m_txQueue \in Seq(Line)
    /\ m_txBytesQueued \in 0..TX_HWM
    /\ printed \in Seq(1..MaxFrames)
    /\ typed \in 0..MaxLines /\ eof \in BOOLEAN /\ tries \in 0..MaxAddrs
    /\ server \in {"open", "closed", "reset"}
    /\ offered \in 0..MaxFrames /\ taken \in 0..offered
    /\ wire \in Seq(Line) /\ Len(wire) <= WireCap
    /\ heard \in Seq(Line)

Init ==
    /\ pc = [main |-> "connect", recv |-> "none", print |-> "none", send |-> "none"]
    /\ line = <<>> /\ frame = <<>> /\ msg = <<>>
    /\ m_isActive = FALSE
    /\ m_socket = "invalid"
    /\ m_rxQueue = <<>> /\ m_txQueue = <<>> /\ m_txBytesQueued = 0
    /\ printed = <<>> /\ typed = 0 /\ eof = FALSE /\ tries = 0
    /\ server = "open" /\ offered = 0 /\ taken = 0 /\ wire = <<>> /\ heard = <<>>

-----------------------------------------------------------------------------
(* Mutexes and condition variables. *)

RxFree == pc.print # "block"
TxFree == pc.send # "block" /\ pc.main # "block"

\* Thread t goes to label l.
Goto(t, l) == pc' = [pc EXCEPT ![t] = l]

\* The label of a waiting thread after a notification.
Woken(l, resume) == IF l = "asleep" THEN resume ELSE l

\* As Goto; and the one thread that waits on the condition variable is woken.
GotoWake(t, l, sleeper, resume) ==
    pc' = [pc EXCEPT ![t] = l, ![sleeper] = Woken(@, resume)]

\* The wait of thread t: the mutex is released, and the thread sleeps.
FallAsleep(t) ==
    /\ pc[t] = "block"
    /\ Goto(t, "asleep")
    /\ UNCHANGED dataVars

-----------------------------------------------------------------------------
(* Run: connecting. *)

\* One address: socket() fails, connect() fails, or the connection stands.
TryAddress ==
    /\ pc.main = "connect" /\ tries < MaxAddrs
    /\ m_socket # "open"
    /\ m_socket' \in {"invalid", "dead", "open"}
    /\ tries' = tries + 1
    /\ UNCHANGED <<pc, handVars, m_isActive, queueVars, conVars, netVars, taken>>

\* No address is left, or the connection stands: give up, or start the threads.
Start ==
    /\ pc.main = "connect"
    /\ IF m_socket = "invalid"
       THEN Goto("main", "failed") /\ UNCHANGED m_isActive
       ELSE /\ pc' = [main |-> "getline", recv |-> "check", print |-> "lock", send |-> "lock"]
            /\ m_isActive' = TRUE
    /\ UNCHANGED <<handVars, m_socket, queueVars, conVars, tries, netVars, taken>>

-----------------------------------------------------------------------------
(* CinMessages and TxEnqueueMessage. *)

\* getline returns a line of n bytes to an active client.  One that is too
\* heavy ends the loop.
Type(n) ==
    /\ pc.main = "getline" /\ m_isActive
    /\ ~eof /\ typed < MaxLines /\ typed + offered < MaxEvents
    /\ typed' = typed + 1
    /\ IF n > TX_HWM
       THEN Goto("main", "inactive") /\ UNCHANGED line
       ELSE Goto("main", "enqueue") /\ line' = <<<<typed + 1, n>>>>
    /\ UNCHANGED <<frame, msg, flagVars, queueVars, printed, eof, tries, netVars, taken>>

\* Enter, or the end of the console.
Leave ==
    /\ pc.main = "getline"
    /\ \/ ~m_isActive /\ UNCHANGED eof
       \/ eof' = TRUE
    /\ Goto("main", "inactive")
    /\ UNCHANGED <<handVars, flagVars, queueVars, printed, typed, tries, netVars, taken>>

\* Mutated form of HasRoom: the line has to fit below the low watermark.
HasRoomBelowLow(n) == m_txBytesQueued + n <= TX_LWM

\* BlockProducer's predicate for a line of n bytes.
HasRoom(n) == m_txBytesQueued <= TX_LWM /\ m_txBytesQueued + n <= TX_HWM

\* Mutated form of WasEmpty: looked at after the push.
EmptyAfterPush == m_txQueue \o line = <<>>

WasEmpty == m_txQueue = <<>>

\* The queue has room: push, and wake the sender if the queue was empty.
Enqueue ==
    /\ pc.main = "enqueue" /\ TxFree
    /\ m_isActive /\ HasRoom(Size(line[1]))
    /\ m_txQueue' = m_txQueue \o line
    /\ m_txBytesQueued' = m_txBytesQueued + Size(line[1])
    /\ IF WasEmpty THEN GotoWake("main", "getline", "send", "lock") ELSE Goto("main", "getline")
    /\ line' = <<>>
    /\ UNCHANGED <<frame, msg, flagVars, m_rxQueue, conVars, tries, netVars, taken>>

\* Mutated form of EnqueueWaits: a full queue drops the newest line.
EnqueueDrops ==
    /\ pc.main = "enqueue" /\ TxFree
    /\ m_isActive /\ ~HasRoom(Size(line[1]))
    /\ Goto("main", "getline")
    /\ line' = <<>>
    /\ UNCHANGED <<frame, msg, flagVars, queueVars, conVars, tries, netVars, taken>>

EnqueueWaits ==
    /\ pc.main = "enqueue" /\ TxFree
    /\ m_isActive /\ ~HasRoom(Size(line[1]))
    /\ Goto("main", "block")
    /\ UNCHANGED dataVars

\* The client is not active any more: TxEnqueueMessage returns false.
EnqueueFails ==
    /\ pc.main = "enqueue" /\ TxFree
    /\ ~m_isActive
    /\ Goto("main", "inactive")
    /\ line' = <<>>
    /\ UNCHANGED <<frame, msg, flagVars, queueVars, conVars, tries, netVars, taken>>

-----------------------------------------------------------------------------
(* Disconnect and the end of Run.  The notifications are sent without the
   mutexes. *)

StoreInactive ==
    /\ pc.main = "inactive"
    /\ m_isActive' = FALSE
    /\ Goto("main", "wakePrint")
    /\ UNCHANGED <<handVars, m_socket, queueVars, conVars, tries, netVars, taken>>

NotifyPrint ==
    /\ pc.main = "wakePrint"
    /\ GotoWake("main", "wakeSend", "print", "lock")
    /\ UNCHANGED dataVars

\* Mutated form of NotifySend: only the printer is told.
NotifyNobody ==
    /\ pc.main = "wakeSend"
    /\ Goto("main", "shutdown")
    /\ UNCHANGED dataVars

NotifySend ==
    /\ pc.main = "wakeSend"
    /\ GotoWake("main", "shutdown", "send", "lock")
    /\ UNCHANGED dataVars

Shutdown ==
    /\ pc.main = "shutdown"
    /\ m_socket' = IF m_socket = "open" THEN "shut" ELSE m_socket
    /\ Goto("main", "drain")
    /\ UNCHANGED <<handVars, m_isActive, queueVars, conVars, tries, netVars, taken>>

\* What recv_frame meets: a frame; or the end, an error, or the timeout that
\* GracefulShutDown sets.
FrameWaits == m_socket \in {"open", "shut"} /\ server # "reset" /\ taken < offered
RecvFails ==
    \/ m_socket \in {"dead", "closed"}
    \/ server = "reset"
    \/ taken = offered /\ (server = "closed" \/ m_socket = "shut")

Drain ==
    /\ pc.main = "drain" /\ FrameWaits
    /\ taken' = taken + 1
    /\ UNCHANGED <<pc, handVars, flagVars, queueVars, conVars, tries, netVars>>

Close ==
    /\ pc.main = "drain" /\ RecvFails
    /\ m_socket' = "closed"
    /\ Goto("main", "join")
    /\ UNCHANGED <<handVars, m_isActive, queueVars, conVars, tries, netVars, taken>>

Join ==
    /\ pc.main = "join"
    /\ pc.recv \in {"hungup", "done"} /\ pc.send = "done" /\ pc.print = "done"
    /\ Goto("main", "returned")
    /\ UNCHANGED dataVars

-----------------------------------------------------------------------------
(* ReceiveMessages. *)

RecvCheck ==
    /\ pc.recv = "check"
    /\ Goto("recv", IF m_isActive THEN "recv" ELSE "done")
    /\ UNCHANGED dataVars

RecvFrame ==
    /\ pc.recv = "recv" /\ FrameWaits
    /\ taken' = taken + 1
    /\ frame' = <<taken + 1>>
    /\ Goto("recv", "push")
    /\ UNCHANGED <<line, msg, flagVars, queueVars, conVars, tries, netVars>>

\* "Server disconnected. Press Enter to exit."
RecvLost ==
    /\ pc.recv = "recv" /\ RecvFails
    /\ Goto("recv", "lost")
    /\ UNCHANGED dataVars

RecvInactive ==
    /\ pc.recv = "lost"
    /\ m_isActive' = FALSE
    /\ Goto("recv", "wakePrint")
    /\ UNCHANGED <<handVars, m_socket, queueVars, conVars, tries, netVars, taken>>

\* "unsleep printer", without the mutex.
RecvNotify ==
    /\ pc.recv = "wakePrint"
    /\ GotoWake("recv", "hungup", "print", "lock")
    /\ UNCHANGED dataVars

RxFull == Len(m_rxQueue) >= MAX_RX_QUEUE_SIZE

\* A full queue drops the newest message.
RecvPush ==
    /\ pc.recv = "push" /\ RxFree
    /\ IF RxFull
       THEN Goto("recv", "check") /\ UNCHANGED m_rxQueue
       ELSE /\ m_rxQueue' = m_rxQueue \o frame
            /\ GotoWake("recv", "check", "print", "lock")
    /\ frame' = <<>>
    /\ UNCHANGED <<line, msg, flagVars, m_txQueue, m_txBytesQueued, conVars, tries, netVars, taken>>

-----------------------------------------------------------------------------
(* PrintMessages. *)

PrintFrame ==
    /\ pc.print = "lock" /\ RxFree
    /\ m_rxQueue # <<>>
    /\ printed' = Append(printed, Head(m_rxQueue))
    /\ m_rxQueue' = Tail(m_rxQueue)
    /\ UNCHANGED <<pc, handVars, flagVars, m_txQueue, m_txBytesQueued, typed, eof, tries, netVars, taken>>

\* Mutated form of PrintWaits: an inactive client does not print what is left.
PrintEndsEarly ==
    /\ pc.print = "lock" /\ RxFree
    /\ m_rxQueue = <<>> \/ ~m_isActive
    /\ Goto("print", IF m_isActive THEN "block" ELSE "done")
    /\ UNCHANGED dataVars

\* Nothing to print: wait, or end with the client.
PrintWaits ==
    /\ pc.print = "lock" /\ RxFree
    /\ m_rxQueue = <<>>
    /\ Goto("print", IF m_isActive THEN "block" ELSE "done")
    /\ UNCHANGED dataVars

-----------------------------------------------------------------------------
(* SendMessages. *)

AfterPop == m_txBytesQueued - Size(Head(m_txQueue))

IsLow(n) == n <= TX_LWM

SendPop ==
    /\ pc.send = "lock" /\ TxFree
    /\ m_txQueue # <<>>
    /\ msg' = <<Head(m_txQueue)>>
    /\ m_txQueue' = Tail(m_txQueue)
    /\ m_txBytesQueued' = AfterPop
    /\ IF IsLow(AfterPop) THEN GotoWake("send", "send", "main", "enqueue")
       ELSE Goto("send", "send")
    /\ UNCHANGED <<line, frame, flagVars, m_rxQueue, conVars, tries, netVars, taken>>

SendWaits ==
    /\ pc.send = "lock" /\ TxFree
    /\ m_txQueue = <<>>
    /\ Goto("send", IF m_isActive THEN "block" ELSE "done")
    /\ UNCHANGED dataVars

\* send_frame succeeds; to a server that has closed, only the kernel knows.
SendFrame ==
    /\ pc.send = "send"
    /\ Size(msg[1]) > 0 /\ m_socket = "open"
    /\ \/ server = "open" /\ Len(wire) < WireCap /\ wire' = wire \o msg
       \/ server = "closed" /\ UNCHANGED wire
    /\ msg' = <<>>
    /\ Goto("send", "lock")
    /\ UNCHANGED <<line, frame, flagVars, queueVars, conVars, tries, server, offered, heard, taken>>

\* send_frame refuses an empty payload, and fails on a broken connection.
SendFails ==
    /\ pc.send = "send"
    /\ Size(msg[1]) = 0 \/ m_socket # "open" \/ server # "open"
    /\ msg' = <<>>
    /\ Goto("send", "inactive")
    /\ UNCHANGED <<line, frame, flagVars, queueVars, conVars, tries, netVars, taken>>

SendInactive ==
    /\ pc.send = "inactive"
    /\ m_isActive' = FALSE
    /\ Goto("send", "wakeMain")
    /\ UNCHANGED <<handVars, m_socket, queueVars, conVars, tries, netVars, taken>>

\* Without the mutex.
SendNotify ==
    /\ pc.send = "wakeMain"
    /\ GotoWake("send", "done", "main", "enqueue")
    /\ UNCHANGED dataVars

-----------------------------------------------------------------------------
(* The server, as far as the client sees it. *)

Connected == m_socket \in {"open", "shut"} /\ server = "open"

ServerSends ==
    /\ Connected /\ offered < MaxFrames /\ typed + offered < MaxEvents
    /\ offered' = offered + 1
    /\ UNCHANGED <<pc, handVars, flagVars, queueVars, conVars, tries, server, wire, heard, taken>>

ServerReads ==
    /\ server = "open" /\ wire # <<>>
    /\ heard' = Append(heard, Head(wire))
    /\ wire' = Tail(wire)
    /\ UNCHANGED <<pc, handVars, flagVars, queueVars, conVars, tries, server, offered, taken>>

ServerCloses ==
    /\ Connected
    /\ server' \in {"closed", "reset"}
    /\ UNCHANGED <<pc, handVars, flagVars, queueVars, conVars, tries, offered, wire, heard, taken>>

-----------------------------------------------------------------------------

Console == (\E n \in Sizes : Type(n)) \/ Leave

Main ==
    \/ TryAddress \/ Start
    \/ Enqueue \/ EnqueueWaits \/ FallAsleep("main") \/ EnqueueFails
    \/ StoreInactive \/ NotifyPrint \/ NotifySend \/ Shutdown \/ Drain \/ Close \/ Join

Recv == RecvCheck \/ RecvFrame \/ RecvLost \/ RecvInactive \/ RecvNotify \/ RecvPush
Printer == PrintFrame \/ PrintWaits \/ FallAsleep("print")
Sender == SendPop \/ SendWaits \/ FallAsleep("send") \/ SendFrame \/ SendFails \/ SendInactive \/ SendNotify
Server == ServerSends \/ ServerReads \/ ServerCloses

Next == Console \/ Main \/ Recv \/ Printer \/ Sender \/ Server

Spec == Init /\ [][Next]_vars

\* The threads run, and an open server reads what it is sent.
Fairness ==
    /\ WF_vars(Main) /\ WF_vars(Recv) /\ WF_vars(Printer) /\ WF_vars(Sender)
    /\ WF_vars(ServerReads)

FairSpec == Spec /\ Fairness

-----------------------------------------------------------------------------

Elements(s) == {s[i] : i \in DOMAIN s}

\* SendMessages has given up.
SendFailed == pc.send \in {"inactive", "wakeMain", "done"}

(* Lines reach the server in the order they were typed, none twice; and none is
   missing while the connection and the sender are up (TxEnqueueMessage,
   SendMessages). *)
LinesInOrder ==
    LET all == heard \o wire \o msg \o m_txQueue \o line
    IN  /\ \A i, j \in DOMAIN all : i < j => Number(all[i]) < Number(all[j])
        /\ server = "open" /\ ~SendFailed => \A i \in DOMAIN all : Number(all[i]) = i

(* Frames are printed in the order they came, none twice; and the first
   MAX_RX_QUEUE_SIZE of them are never dropped, since the queue can only be full
   of earlier ones (a disconnecting client reads the rest and drops it). *)
FramesInOrder ==
    LET all == printed \o m_rxQueue \o frame
    IN  /\ \A i, j \in DOMAIN all : i < j => all[i] < all[j]
        /\ pc.main \notin {"drain", "join", "returned"} =>
             \A k \in 1..taken : k \in Elements(all) \/ k > MAX_RX_QUEUE_SIZE

(* Both, and the counter of what is queued. *)
Inv == TypeOK /\ LinesInOrder /\ FramesInOrder

(* A line that waits for room gets into the queue, if the server reads and the
   client stays active: the low watermark does not strand the producer. *)
ProducerResumes ==
    pc.main \in {"enqueue", "block", "asleep"}
        ~> (pc.main \notin {"enqueue", "block", "asleep"} \/ ~m_isActive)

(* What is in the receive queue is printed, also after the server disconnected;
   only a client that leaves, or whose sender failed, may forget the last one. *)
Printed ==
    m_rxQueue # <<>>
        ~> m_rxQueue = <<>> \/ SendFailed \/ pc.main \notin {"getline", "enqueue", "block", "asleep"}

(* The queued lines reach the server, unless the connection or the sender fails. *)
Delivered ==
    m_txQueue # <<>> ~> m_txQueue \o msg \o wire = <<>> \/ server # "open" \/ SendFailed

\* Disconnect notifies a thread that has tested its predicate and does not sleep
\* yet: the notification is lost, and Run joins a thread that sleeps for ever.
NotifiesTooEarly ==
    \/ pc.main = "wakePrint" /\ pc.print = "block"
    \/ pc.main = "wakeSend" /\ pc.send = "block"

(* "Server disconnected. Press Enter to exit.": once SendMessages is left, by Enter
   or otherwise, Run returns, whatever the other threads and the server are
   doing; a notification made too early is the only thing that can prevent it. *)
Exits == pc.main = "inactive" ~> pc.main = "returned" \/ NotifiesTooEarly
=============================================================================
