# tcp-simple-chat: models and proofs

The repository holds one small chat program written several times: a server
that relays what each client says to all other clients, and a client that
connects the console to it. Each variant uses another way to wait for sockets
(blocking threads, `select`, `poll`, `epoll`, I/O completion ports), and one
variant adds framing and bounded queues. This directory holds TLA+ modules of
those programs, the TLC configurations that check them, and theorems about them
that TLAPS proves.

## Inventory

| component | state it keeps | operations | what is hard | what makes it correct |
|---|---|---|---|---|
| poll server (`NetworkBasics/poll/Server`) | `m_clients` (fd -> session), each session's `m_sendQueue`, `m_running` | `RunLoop`, `HandleListeners`/`AcceptAll`, `HandleClients`, `Read`, `Write`, `BroadcastMsg`, `CloseClient`, `Stop` | stale `revents`, reused descriptors, partial sends, hang-ups with data before them, SIGPIPE, descriptors running out | it is a relay (below); no stale event hits a stranger; queues drain; hung-up clients are let go; `Start` returns only with its cleanup done |
| epoll server (`NetworkBasics/epoll/Server`; `Design/event_loop/Server` is the same text) | the same, and the kernel's interest list with ET and ONESHOT masks | the same, `ModClientWritable`, `AddClientToEpoll` | batches of events, disarmed descriptors, masks that must follow the queues | the relay; masks agree with queues; an armed client is served |
| framing codec (`Protocols/Framing/Shared`) | none (a loop over recv/send) | `recv_all`, `send_all`, `send_frame`, `recv_frame` | partial reads, end in mid-frame, two readers of one socket, size limits | what was framed is what is unframed |
| framing server (`Protocols/Framing/Server`) | `m_clients` under `m_clientsMutex`; per session two threads, `m_txQueue`, `m_txBytesQueued`, two condition variables, `m_active` | `AcceptClients`, `RecvLoop`, `SendLoop`, `SendMsg`, `BroadcastMsg`, `Session::Stop`, `Stop` | blocking producers, lost wakeups, `Stop` against running threads, snapshots of the client list | queue bounded, nothing lost while a session is active, no thread waits for ever, `Stop` ends |
| framing client (`Protocols/Framing/Client`) | `m_rxQueue`, `m_txQueue`, `m_txBytesQueued`, `m_isActive`, three condition variables | `ReceiveMessages`, `PrintMessages`, `SendMessages`, `CinMessages`/`TxEnqueueMessage`, `Disconnect`, `Run` | four threads, watermarks, stores that are not under the mutex | bounded queues, order kept, `Run` ends after a disconnect |
| iocp server (`NetworkBasics/iocp/Server`) | sessions with `m_sendQueue`, `m_sendInFlight`; pending overlapped operations | completions of accept, recv, send | completions out of order, sessions erased with operations pending, accepts not posted again | each message sent once, no completion for a dead session, a listener keeps accepting |
| iocp client | `m_sendQueue`, `m_sendInFlight`, `m_runSend` | `SendWorker`, `KickSend`, completions, `Stop` | the worker and the net thread on one flag, `Stop` from a third | one send in flight, lines in order, `Stop` ends |
| select server | `m_clients`, `m_toClose` | one loop; `BroadcastMsg` sends at once, on non-blocking sockets | full buffers, FD_SETSIZE, partial sends | one conversation; a relay while no buffer is full; everybody is heard |
| select client | `m_sendQ`, `m_socket` | one loop; the console thread queues | unlocked queue, end of the connection | lines sent once and in order; ends when the server does |
| blocking server | `m_clients` under `m_clientsMutex`, a thread per client | `AcceptClients`, `ReceiveMsg`, `SendMsg`, `BroadcastMsg`, `Stop` | mutex held through blocking sends and joins | it is a relay; no deadlock but the one below; `Stop` ends |
| blocking client | `m_isActive`, `m_socket` | `ReceiveMessages`, `SendMessages`, `Disconnect` | end of connection while the console blocks | lines sent whole and in order; ends after a disconnect |
| poll client, epoll client | `m_sendQueue` under `m_sendMutex` | one loop; the console thread queues | the loop asleep with an old mask; a mutex locked twice | lines are sent whole and once, the loop ends, and does not block itself |
| programs, build files, address printing | | | | none: not modelled |

The servers and clients interact only through TCP. Inside a program, threads
interact through mutexes and queues, and the servers of poll, epoll, select and
I/O completion ports do everything in one thread.

## The modules

```
ChatRelay            what every server promises        ChatRelayProofs  (TLAPS)
   ^ implemented by                                    MCChatRelay
ChatNet              TCP as the servers' system calls see it     (external)
  ChatSession        sessions, send queues, broadcast; the mapping to ChatRelay
    |                                                  ChatSessionProofs  (TLAPS)
    PollServer       the poll loop                     MCPollServer, PollServerProofs  (TLAPS)
    EpollServer      the epoll loop                    MCEpollServer, EpollServerProofs  (TLAPS)
  DirectServer       the select and the blocking server, with a mapping of
                     their own to ChatRelay            MCDirectServer, DirectServerProofs  (TLAPS)
IocpServer           completions of accept, recv, send           StreamProofs  (TLAPS)
LoopClient           the poll, epoll and select clients
  ThreadClient       and the iocp and blocking clients MCThreadClient, ThreadClientProofs  (TLAPS)
FrameChannel         what Framing.h promises
   ^ implemented by
FrameCodec           send_frame, recv_frame byte by byte    MCFrameCodec, StreamProofs  (TLAPS)
FramingServer        threads of the framing server          MCFramingServer, FramingServerProofs  (TLAPS)
FramingClient        threads of the framing client          StreamProofs  (TLAPS)
```

StreamProofs holds the proofs of three components through which messages go in a
stream, IocpServer, FrameCodec and FramingClient. So that it can extend them all, what
each module has for itself (`Init`, `Next`, `Spec`, `TypeOK`, `Inv`, `vars`, `wire`,
`sent`) begins with `Codec` or `Iocp`, or has another name, in the first two.

An MC module only defines the values that a `.cfg` file gives to constants.
"Mutated forms" of a definition, next to it, are what the definition would be
after a plausible mistake; nothing uses them except the mutation checks listed in
`PROJECT.json`, each of which shows that a property notices the mistake. Where a
module has an `Inv`, it is the conjunction of the type invariant and of the safety
invariants that are checked in every run of the module.

### ChatRelay

The abstract specification. `Join`, `Broadcast`, `Deliver`, `Leave` change who is
a member, what the server has read of each peer (`said`), the stream of tokens
each peer is owed (`owed`) and how much of it the peer has taken. A token is one
byte, named by its sender and its position in what the sender said, because the
servers of `NetworkBasics` relay a byte stream and a single `recv` may split or
join what clients wrote. `Leave(S)` ends several sessions at once: the `Stop` of
a server drops them all. It may cut off what is still owed, as closing a socket
with a queue does. A speaker need not be a member: a server broadcasts what it has
read although the connection has broken meanwhile.

### PollServer, EpollServer

One thread each. Every system call is a step; clients connect, talk, hang up
(FIN), reset and read between any two steps.

| code | model |
|---|---|
| `m_clients` | `m_clients[fd]`, the peer whose session is under the key `fd` |
| `ClientSession::m_sendQueue` | `pending[p]` (bytes) and `ends[p]` (where the queued strings end): the deque of strings without its nesting |
| `m_running` | `m_running` |
| `pollfd::revents` / the array of `epoll_event` | `pfds[fd]` / the batch of events not handled yet |
| the armed ET+ONESHOT mask | the mask of a descriptor in EpollServer; a descriptor that is not armed is not reported. Armed anew, it is reported if it is ready, which makes ET with ONESHOT a level while it is armed |
| where the thread is in `RunLoop`, `AcceptAll`, `HandleClients`, `Read`, `Write` | `pc`, `cur` |
| socket buffers, FIN, RST, EPIPE, ECONNRESET | ChatNet |

Choices worth knowing. One listener stands for the several that `getaddrinfo`
may give: they share `AcceptAll`. The entries of a poll round are handled in any
order, which covers every order `unordered_map` may iterate in. What
`GracefulShutdown` drains before a socket is closed goes to nobody, so
closing is one step. `m_running` is cleared by errors; a `Stop` from another
thread is not modelled, `Server.cpp` makes none. When `epoll_wait` or `poll`
fails, the loop ends and `Start` calls `Stop`. In the epoll server the address
printing of lines 393-400 uses names that are not declared; it is logging, and
left out.

That a queued string is never empty (its `send` would return 0, which closes the
session) is part of `SessTypeOK`, and with it of `TypeOK` of both servers.

### DirectServer

The select and the blocking server, chosen by `kind`, send a message to one
session after the other instead of queueing it. `talker` is whose message is being
broadcast: in the blocking server that thread holds `m_clientsMutex`, in the select
server there is one thread. `todo` are the sessions that `BroadcastMsg` has yet to
reach, `rest` what `SendMsg` has yet to send to the first of them; each `send` and
each `recv` is a step.

| code | model |
|---|---|
| `m_clients` | a sequence in the order of iteration; an insertion into the `unordered_map` of the select server may change the order |
| `BroadcastMsg`, `SendMsg` | `BroadcastMsg`, `SendSome`, `SendGivesUp`, `BroadcastDone` |
| a full socket in the select server | `SendGivesUp`: the rest of the message is lost to that client, which the history variable `lost` records |
| `BuildReadSet`, FD_SETSIZE | `Watched`: what exceeds `FdCap` is ignored, as `FD_SET` of winsock does |
| `ReceiveMsg` of the blocking server | `rx[p]`: `check` (m_isActive), `recv`, `lock` (BroadcastMsg at the mutex), `send` |
| `AcceptClients` | `accepter`: the session's thread runs before `push_back` takes the mutex, so it may read and broadcast before it is listed |
| `ChatServer::Stop` | `owner`: listeners, join of the accept threads, then the mutex, held while each session is stopped, drained and joined |

A session of the blocking server whose thread has ended stays in `m_clients`; in
the mapping to the relay its membership ends when the connection breaks.

### IocpServer

One thread takes completions from a port. The kernel completes an operation when
it can (`AcceptDone`, `RecvDone`, `SendDone`), and a handler is one step: during
it the kernel and the clients do nothing that they could not do before or after.
A completion carries the address of its session (the completion key), and the
model keeps addresses: a session is erased at the first failing completion, its
other operation completes later and finds freed memory (`OnFreedSession`) or the
session that has taken the address meanwhile. The allocator gives the first free
address, so reuse happens as early as it can. `astray` and `crashed` record such
an event; the run goes no further after it, and the properties say what holds
until then. `first` is what a client has received without repetitions, because
`OnSendComplete` sends the front message again (see the findings). `Stop` and the
exit of the accept loop are left out. `said` is how many messages a client has sent,
`toPeer` what is in its socket or on the way to it.

### LoopClient, ThreadClient

`kind` chooses the client at the start. LoopClient has two threads: the console
(`Send`, `Stop` after `/quit`, the join), and the net thread (`Start`, the loop,
`Stop`). The poll and epoll clients are nearly the same text and share their
actions; the select client shares `Stop` and the console and has a loop of its own
(labels `startup` to `sendmsg`), where `main` is the net thread and the console a
thread it starts. ThreadClient extends it by the iocp client, with the send worker
as a third thread and the kernel's completions in `port`, and by the blocking
client; both use the console, the socket and the server of LoopClient.

| code | model |
|---|---|
| `m_running`, in the select client `m_isActive` | `m_running`; plain or atomic, a load sees the last store |
| `m_socket`, `m_epoll` | are they descriptors? A close by the console sets them to -1 under the feet of the net thread |
| `m_sendQueue`, `m_sendQ` | `m_sendQueue` (lines) and `ofs`, the part of the front line that is sent and erased. The blocking client has no queue: its line is the only element while `send` runs |
| `m_sendMutex` | who holds it. `ModWritable` called with the mutex held, in `Write` and in `HandleConnection` of the epoll client, is the label `relock`, which has no next step |
| `m_poll.events`, the epoll mask, `writeSet` | `wantOut` |
| `m_sendQ` used by both threads at once | `QueueRace`: the label `raced` of both threads, after which nothing is known of the process and nothing more is claimed |
| epoll's ready list (edges) | `wakeup`: set by what happens to the socket and by ADD or MOD of a ready one |
| `POLLNVAL`, `WSAENOTSOCK`, empty sets | a socket closed by the console ends the poll and select loops |
| EINTR, a failing wait | `WaitFails` |
| `SendWorker`, `m_sendInFlight`, `m_runSend` | `worker` (its label), and the flags by name; `KickSend` is the label `kick`, of the worker or of the net thread |
| a pending WSASend, WSARecv | `sending` (its bytes), `receiving`; a closed socket aborts them (`Aborted`) |
| the completion port | `port`, a sequence of operations and their bytes; `PostQueuedCompletionStatus` is an entry of its own |
| `std::thread::join` of the worker by two threads | `JoinRace`, like `QueueRace` |

### FrameChannel, FrameCodec

`FrameChannel` is the promise of `Framing.h`: `recv_frame` returns what was given
to `send_frame`, whole and in order. `FrameCodec` is the code: `Header` is
`htonl`, `Length` is `ntohl`, both computed digit by digit (`Limit` is 2^32); `SendBytes(n)` and
`RecvBytes(n)` are one `send` or `recv` that takes or gives n bytes; the
connection may end or break after any byte; `onWire` are those between the two. The base of a byte (256), the length
of the header (4) and MAX_PAYLOAD are constants.

### FramingServer

The accept thread (`accepter`), per session the receiving (`rx`) and sending
(`tx`) threads, and a thread in `ChatServer::Stop` (`owner`). A critical section
is one step, with one exception that matters: testing the predicate of a wait
and falling asleep are two, and the mutex is held in between (label `block`). A
notification made without the mutex can fall there and be lost. `m_active` is
stored and the notification is made in separate steps, as in the code. A frame
is received and sent whole. Each client has a size for its frames, which may be
nothing or too much, since a client need not be the one of this repository:
`recv_frame` refuses what exceeds `MAX_PAYLOAD` (`RecvFails`) and takes an empty frame,
which `send_frame` then refuses (`Empty`, in `SendFails`). `m_clientsMutex` is visible
only as `ClientsFree`: `Stop` alone holds it over several steps. `Server.cpp` never calls
`Stop`; the constant `OwnerStops` says whether an owner does. That
`m_txBytesQueued` is the size of what is queued is part of `TypeOK`.

### FramingClient

`main` (connecting, the console, `Disconnect`, the joins), `recv`, `print`,
`send`, with the same treatment of waits. Sizes of lines matter only to the
watermarks, so a line is its number and its size. The overflow modes are the
private defaults of `ChatClient.h`, which nothing changes.

Spurious wakeups are not modelled in either framing module: each wait has a
predicate, so a woken thread tests it again and sleeps on, in the same state.

## The runs

| run | bounds | what it shows |
|---|---|---|
| `relay` | 4 peers, 2 talk, few tokens in all | every stream in order, without a hole and never rewritten; members hear two talkers in one order |
| `poll_relay` | 3 peers, 2 talk, few bytes in all, 3 descriptors, buffers of 2, kernel errors | the server implements ChatRelay; no entry of `m_clients` a round has in hand belongs to a stranger; queue and sessions keep their shape |
| `poll_live` | 2 peers, one talks | what is sent is relayed, queues drain, hung-up clients are let go |
| `epoll_relay` | as `poll_relay`, batches of 2 | the same, and armed masks agree with queues when the thread sleeps |
| `epoll_flush` (violation) | 2 peers, send buffer of 1 | a queue that nothing will flush |
| `direct` | the select and the blocking server; 3 peers, 2 talk, send buffer of 1, an fd_set of 2, `Stop` at any time | one conversation in one order, whatever full sockets lose; the relay, while they lose nothing; everybody is heard and the dead are let go; `Stop` ends, but for one hang |
| `iocp` | 3 clients, a and b talk, b hangs up; three messages of one client or one each of two; 2 accepts pending, room for 1 message in a socket | one send in flight per session, no message lost or overtaken, each broadcast reaches a connected client |
| `clients` | the five clients; 3 lines of 2 bytes, send buffer of 3, 2 messages from the server, which may close or reset; `/quit` or end of input at any time | lines arrive once, whole, in order; one overlapped send at a time; queued lines are sent; the server is heard; the threads end, the worker of the iocp client too (but for a notification that comes too early) |
| `codec` | bytes of 2 values, headers of 2, payloads 0..3 with limit 2, 2 frames, 3 bytes in transit | every cut of two frames; a frame at, below and above the limit; an end in every place |
| `fserver` | 4 clients: two with frames of 1 and 2 bytes, which may leave, one with empty frames, one with frames above MAX_PAYLOAD (3); queue of 2 bytes; 3 frames in all; `Stop` at any time | accounting, order, no hole, nobody asleep on a dead session, nothing left behind by `Stop` |
| `fserver_live` | the queue of one client, which may leave, and one of two that talk, with 2 frames that fit into it or one that does not; `Stop` | broadcasts of frames that fit end, frames are delivered, `Stop` ends (but for two places) |
| `fclient` | 3 lines of 0, 2, 3 or 5 bytes (limit 4, low mark 2), 2 frames, queue of 1 | order both ways, accounting, first frames kept, the producer resumes, queues drain, the client exits (but for one lost notification) |

Why the bounds are enough for the questions: a partial send needs a message
longer than the room (2 bytes with room 1, a line of 2 with a buffer of 3); a
stale event needs a descriptor closed and opened again within a round or a batch
of two, by a client that was not there (3 peers); an order between two streams
needs two talkers and two listeners (4 peers, in the relay; the servers inherit
it by implementing the relay); a hole needs something before and after it (3
messages in IOCP, where one is in flight, one is queued behind it, and one comes
while the first is posted again); two producers that compete for one queue need
three clients; a lost wakeup needs one wait and one notification; a session that
an fd_set leaves out needs one session more than the set takes. Sizes are compared
with a limit on both sides of it: those of `codec` and `fclient` in the run, and those of
the framing server in the two runs together, where `fserver` has empty frames, frames
below and at TX_HWM_BYTES and frames above MAX_PAYLOAD, and `fserver_live` frames at
TX_HWM_BYTES and between the two limits. The predicates `FewTokens`,
`FewBytes`, `FewEvents`, `Few` and `Bound` cut combinations: in `poll_relay` and
`epoll_relay` either two clients talk at length, or a third is there, which
stays, and one byte is said; in `direct` there are two clients, of which the second
talks only among threads, or three, of which one has sent a byte; in `clients` the
sum of what is typed and said is bounded for each kind; in `iocp` either one client
that stays sends three messages and nobody leaves, or each talker sends one and
clients come and go; in `fserver` two clients send three frames and hang up, or three stay, of
which b and one other send a frame each, which may be empty, or a client sends two
others a frame that is too long, or `Stop` meets one that talks and one that hangs up;
in `fserver_live` (`OneTalker`) one client besides a is connected, and of c only one
frame comes. The comments at the definitions say the same.

`CHECK_DEADLOCK` is off in `relay`, `direct`, `iocp`, `clients`, `codec` and the
framing runs, since there the system really stops: bounded clients have nothing
more to say, the program returns, or threads hang (the findings). The runs of the
poll and epoll servers check for deadlock.

## Fairness

Weak fairness of each thread as a whole: the operating system schedules runnable
threads, and a thread has one next step. In IocpServer and ThreadClient the kernel
also completes an operation it can complete. Connected clients read what arrives
(weak fairness of `Listen`, and of `ServerReads` in the clients): without it no
server can drain a queue, and the properties are about the server's part. In
DirectServer two more conditions are needed: the host of a client that has closed
its socket answers data with RST (`Wire`), or a blocking send to it would wait for
ever; and `accept` does not fail every time (strong fairness of `AddClient`, since
the loop that finds a connection waiting comes round again and again). Nobody is
forced to connect, talk, type, hang up or send a signal; `WaitFails` is outside
every fairness condition. Mutexes are acquired fairly enough in the bounded models:
a thread that waits for one is enabled whenever it is free, and the others cannot
take it for ever.

## What is proved

Each theorem holds for every value of the constants, from the assumptions named
in the modules, which say that talkers are peers, that `NoPeer` and `NoFd` are
neither, and that buffers, limits and bounds are numbers of the expected kind.

**ChatRelayProofs**, from `RelayAssumption`:

| theorem | property |
|---|---|
| `TypeCorrect` | `TypeOK` |
| `NeverEchoes` | `NoEcho`: nobody is sent its own bytes |
| `DeliversInOrder` | `InOrder` |
| `DeliversWithoutGap` | `NoGap` |
| `OneConversation` | `SameOrder` |
| `TakenIsFinal` | `Final` (an action property) |

The last four are also checked by the run `relay`; `TypeOK` and `NoEcho`, which
hold for every instance by proof, have no run of their own.

The inductive invariant is `TypeOK /\ FreshStart /\ NoEcho /\ InOrder /\ NoGap /\
SameOrder`. `FreshStart` (a peer that is not yet a member is owed nothing) is what
`Join` needs. The others lean on each other: that a chunk added by `Broadcast`
continues its sender's stream follows from `NoEcho` (no token is beyond `said`);
that cutting a stream in `Leave` leaves no hole needs `InOrder` (what comes before
a kept token is kept); `SameOrder` after a broadcast needs `NoEcho` again, since
the new tokens are in no stream yet.

**ChatSessionProofs, PollServerProofs, EpollServerProofs**: the two servers
implement the relay (`Relays`), so what is proved of the relay holds of them
(`KeepsPromises`); no event reaches a stranger (`NoStrangers`); the types, and for
epoll the masks (`TypeCorrect`, `Invariant`).

ChatSessionProofs has one lemma for each kind of step the servers share: a client
connects, talks, hangs up or reads; a session is accepted, reads, sends, is closed;
all are dropped. Each says that the step keeps `SessInv` and is a step of the relay
under the mapping, or changes nothing of it. `SessInv` adds to the types that a
client has one session at most (or closing one would leave the other without its
queue), that a client that has not been accepted has nothing on the way (`Join`
begins a stream), and that only a session has a queue. The lemma on `Sends` is where
bytes move from the queue to the socket: what a client has, what the socket holds
and what is queued is the same stream afterwards. The servers' own invariants add
that the events not handled yet are of sessions (`Bound`), and for epoll that the
mask of each armed descriptor agrees with its queue but while `Write` is at it
(`Masks`). `RelayPromises` instantiates ChatRelayProofs with the mapping: the
theorems on the relay become theorems on the servers, without a second proof.

**ThreadClientProofs**: all five clients send their lines in order (`InOrder`), and
the iocp client has one send in flight (`SendsOne`), for any number and size of
lines and any send buffer. `IInv` says where the threads of each client can be
(`Places`), that one of the worker, the net thread, the kernel and the port has the
send (`Exclusive`), and that the byte the server expects next is the one at which
the queue begins, moved on by a completion that nobody has taken yet (`InStep`).
The last is why `LinesInOrder` alone is not inductive: a line could be in the wrong
place in the queue, with nothing wrong on the wire so far. Once nothing can be sent
any more (`Dead`) the queue may lose lines, and nothing is said of it.

**FramingServerProofs**: nobody is left asleep on a session that has ended
(`NobodyLeftAsleep`), and when `Stop` has returned nothing of any session is left
(`StopLeavesNothing`). For the second the invariant follows each session from the
accept thread's hands to the list, the list `Stop` works through, and the end
(`Accounted`), and says how far `Stop` is with the one it is at (`AtHead`); the
phases of the accept thread and of `Stop` exclude that a session is added behind
its back (`Phases`).

`Invariant` (on `Inv`): for any number of clients, sizes of frames and limits, each
client gets the frames of each other client in order, none twice and, while both
connections stand, none left out; and `m_txBytesQueued` is the sum of what is queued
and never exceeds TX_HWM_BYTES. `Inv` alone is not inductive: it speaks of what is in a
client's stream and not of what the threads that broadcast are about to put there.
`Flow` adds that. What a receiving thread has in hand is numbered like what it has
received (`Counts`), and nobody has got it already (`Below`), so it is the next in each
stream it goes to (`Rising`). The thread works through a list of sessions without
doubles (`Lists`), or it could send a frame twice. And who has got an earlier frame of a
client is in the list of the frame in hand, or has got it (`Served`): sessions join
`m_clients` and leave it only in `Stop`, so a snapshot never skips one that an earlier
snapshot held. From `Served` it follows that the next snapshot leaves no hole
(`NoGap`). A stream is what a client has got, what is on the wire, what its sending
thread has in hand and what is queued, one behind the other; that the hands are empty
when they should be (`Hands`), and that `Stop` closes a socket only at its end
(`Stops`), is what makes the pieces join. An empty frame is lost on a connection that
stands, because `send_frame` refuses it; it leaves no hole, since nothing empty is ever
on the wire (`Solid`), so all that its client's stream still held began with it
(`RefusalFollows`). The size of a queue is defined by recursion;
`BytesOfAppend` and `BytesOfTail` say how it changes.

**DirectServerProofs**: the select and the blocking server implement the relay while no
full socket has cost a client bytes (`Relays`, on `ImplementsRelay`); and whatever is
lost, the bytes of each client arrive in order, and two clients that get the same bytes
get them in the same order (`Invariant`, on `Inv`). `Inv` says nothing of the broadcast
that goes on, and a step of it could break the order it speaks of. `IInv` adds: which
threads a server has and that one of them broadcasts at a time (`Roles`); that a
connection waits, is accepted, is on its way to the list or is in it, in one of these
places (`Places`); that only talkers are heard (`Talks`); that the list of sessions and
the rest of it that a broadcast has yet to reach have no doubles (`Once`); and that the
session `Stop` is at is not active any more (`AtHead`). `OneOrder` is stated
on what each client is owed in the sense of the relay, which includes what the broadcast
will still give to it: so the whole message is appended to all streams at once, where it
begins, and the sends in between change nothing of the order. The two servers share
these proofs, `Shape` being what is not about order.

**StreamProofs, of FrameCodec**: for every number of byte values, every length of the
header and every limit, so for 256, 4 and 2^20, `recv_frame` returns the payloads given to
`send_frame`, whole, in order and none twice, whatever pieces `send` and `recv` make of
the bytes and wherever the connection ends (`Refinement`, on `ImplementsChannel`); no
more is read than the header says, and no length above MAX_PAYLOAD is accepted (`Types`,
on `CodecTypeOK`). First `RoundTrip`: `ntohl` undoes `htonl` for each length below
`Limit`, by induction over the bytes of the header from both ends. Then `CodecIInv`: there
is a stream of bytes in which the frames sent stand one behind the other (`Laid`), and what
was read, what is in the connection and what is still to be sent are three pieces of it
that follow each other (`Placed`), of which the first begins where a header begins or
where the payload of the header last read does (`Measures`). The pieces are needed even
for the types: only because the receiver is in step is what it takes for a header the
header of a frame. FramingServer and FramingClient, where a frame is received and
sent whole, rest on this theorem, where one thread reads.

**StreamProofs, of FramingClient**: the lines of the framing client reach the server, and
its frames the console, in order and none twice, and nothing is missing but what a full
receive queue or a failed connection dropped (`Invariant`, on `Inv`), for any
watermarks and line sizes. `IInv` adds to `Inv` that a thread has something in hand
exactly at the labels where it uses it (`Places`); that `m_txBytesQueued` is the sum
of the queued sizes, stated by the sums of the queue's beginnings (`Weighs`), or
`SendPop` could make the counter negative; that the lines still on their way end with
the one typed last (`LinesKept`), or the next could repeat a number; and that the i-th
frame has at least the number i (`FramesKept`): so one that meets a full queue has a
number above `MAX_RX_QUEUE_SIZE`.

**StreamProofs, of IocpServer**: for any number of clients, messages, accepts and any
room in a socket, one WSASend of a session is in flight at most, of the message at the
front of its queue, exactly if `m_sendInFlight` says so (`IocpInvariant`, on `IocpInv`);
and what a client gets is what was broadcast to it, in order and without holes, if the
repetitions are left out (`DeliversInOrder`, on `InOrder`). Both are claimed, as in the
run, until a completion reaches a session that is not its own (`astray`); what does not
depend on that is `Shape`: one session for each client, and all that waits in the port
for it has its address (`Owners`); a client waits to be accepted in one place at most,
and before that nothing has been done for it (`OnePlace`); a message in the port has not
been broadcast, and none waits there twice (`Fresh`). `InOrder` alone is not inductive,
since it speaks of what has arrived, and the queue repeats messages for ever. `Streams`
says of everything that has left and everything queued, one behind the other, that each
element is broadcast already and that all that was broadcast before it occurs further in
front (`Ordered`), and that nothing broadcast is missing (`Spans`). That the front
message, when its send completes, is popped and the next is queued again changes nothing
of it, because the front has left already (`Flow`), and this is where `Flights`, one in
flight and at the front, is needed for the order (`Completed`, `Left`).

Three lemmas carry the inductions, in FramingServerProofs and StreamProofs: `Induct`
(a set of numbers with 0 and with n + 1 for each n holds them all), from the numbers
being well-founded; `Recursion`, that recursion over the elements of a sequence defines a
function; and that the function which a recursive definition chooses is that one. The
library's theorems on this take an operator as a parameter, which the installed provers
cannot instantiate; with sets and functions in its place they can. So the recursive
definitions of the models are recursive functions, not RECURSIVE operators: `Without`, the
sessions without those that are closed, of DirectServer is one too. How many completions
of a kind wait in the port is a cardinality, of which `NumberAppended` and
`NumberShortened` say how it changes.

Only model-checked: all liveness, for which the prover has no rule (ENABLED). Every
other property of a passing run, invariant, action property or refinement, is a theorem.

## Findings

One run finds a disagreement between a comment of the program and what it does:
`epoll_flush`, where after an `EPOLLIN`-only event nothing arms the descriptor,
against "Ensure we get notified to flush".

Others met while modelling show in the shape of actions and properties, which
except them by name and claim the rest:

- poll server: `send` with flags 0 (`ClientSession.cpp:92`) lets SIGPIPE end the
  process.
- epoll server: the same missing rearm stops reading from the client; bytes that
  arrive together with a FIN are dropped.
- select server: a send buffer that is full costs the client the rest of the
  message (`ClientSession.cpp:68`, `lost`); a session whose socket exceeds FD_SETSIZE
  is accepted and never heard (`LeftOut` in `Heard` and `Reaped`).
- blocking server: `Stop` joins the receiving threads with `m_clientsMutex` held,
  which a thread that is about to broadcast waits for (`ChatServer.cpp:77`,
  `StopHangs`); sessions whose client has left stay in the list.
- framing client: `Disconnect` and the receiving thread notify without the mutex
  (`ChatClient.cpp:58`): a thread between its test and its wait sleeps on, and `Run`
  joins it, against "Press Enter to exit." (`NotifiesTooEarly` in `Exits`). A line
  above the limit ends the sending loop (`ChatClient.cpp:200-201`) although it prints
  "Skipped"; after a failed connect `m_socket` keeps the closed handle, so the test at
  line 252 passes (lines 245, 252).
- framing server: `Stop` joins a receiving thread that waits for the mutex `Stop`
  holds (`ChatServer.cpp:78`). A frame above TX_HWM_BYTES, up to MAX_PAYLOAD, waits
  for room that never comes (`ClientSession.cpp:81`): its broadcast does not end (the
  proviso of `BroadcastEnds`), and a `Stop` that comes to its talker before the session
  it waits for joins it for ever, because it has notified the talker's conditions
  only (38-40). `StopEnds` allows these two (`StopHangs`). `recv_frame` takes an empty
  frame and `send_frame` refuses it (`Framing.cpp:69, 104`), which ends the sessions of
  all that it is broadcast to (`EmptyReceived` in `Delivered`).
- iocp server: `OnSendComplete` pops the queue and posts its front by `PostSend`,
  which queues a second copy (`ChatServer.cpp:410`), against "pop queue and post
  next if any" (395): a message that was queued while another was in flight is sent again and
  again, for ever; `InOrder` and `Sent` are about first deliveries.
  A session is erased with operations pending, whose completions carry its old
  address. A failing `WSARecv` after a message is not looked at (392). An accept
  that fails is not posted again (339), against "keep backlog full" (368).
- iocp client: `Stop` clears `m_runSend` and notifies without the mutex
  (`ChatClient.cpp:66`), so a worker between its test and its sleep misses it (the
  history `missed`), sleeps on and is joined (`Missed`);
  a `WSARecv` that fails at once is not looked at, and the client stays deaf (`deaf`,
  275); the console and the net thread may both join the worker (`JoinRace`).
  `Ends` excepts the three.
- epoll client: `ModWritable` locks a mutex its caller holds
  (`ChatClient.cpp:223, 283`; `Printed` and `Ends` allow for it), so the first
  partial send, or the first queue that is emptied, stops the net thread. A
  `/quit` that finds the thread in `epoll_wait` closes what it waits for and then
  joins it.
- select client: `ReceiveMsg` returns 0 for "peer closed connection"
  (`ChatClient.cpp:204`), and only -1 ends the loop (193): after the server's FIN
  it prints "Server closed the connection." for ever (`Spins` in `Ends` and
  `Sent`). Its queue has no mutex, though the input thread fills it (242).
- poll and epoll clients: a `/quit` before `Start` stores true in `m_running` (line 85
  of the poll client, 81 of the epoll client) is overwritten. `Ends` is about a `/quit`
  that comes when the loop has begun.

## Not modelled

Components with status `not_modelled` in `PROJECT.json`, for the reasons given
there; name resolution, socket options, logging; a second reader of a frame's
bytes (`GracefulShutdown` reads while the receiving thread does); a failing
`EPOLL_CTL_MOD` or `EPOLL_CTL_DEL`; creation of the listening sockets; `Stop` of the
iocp server and a `Stop` of the poll and epoll servers from another thread, which
no program calls; `PostSend` of the iocp client, which nothing calls; several
accept threads of the blocking server (one stands for them: they meet only at the
mutex).

## The plan

1. Done: every server and every client, ChatRelay and its proofs, the proofs that the
   poll, the epoll, the select and the blocking server implement it, the orders and
   exclusions of the five clients, the orders, the wakeups and the `Stop` of the framing
   server, the orders and bounds of the framing client, the codec, and the order and
   exclusion of the iocp server.
2. FrameCodec with two receivers, as in `GracefulShutdown`.
3. An abstract specification of the clients, a buffer between the console and the
   connection, for ThreadClient and FramingClient.
4. Proofs: of the specification of item 3; that the iocp server, repetitions aside, is a
   relay of messages.
