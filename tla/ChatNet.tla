------------------------------ MODULE ChatNet ------------------------------
(***************************************************************************)
(* The world around a non-blocking chat server: the peers and the kernel's *)
(* TCP sockets, as far as the system calls of the servers observe them.    *)
(* None of it is code of the repository; the server modules extend this    *)
(* one and add their own state and steps.                                  *)
(*                                                                         *)
(* A peer connects once.  Byte k of peer p is the token <<p, k>>, so the   *)
(* receive buffer of p's socket is just the bytes between rcvd and sent.   *)
(***************************************************************************)
EXTENDS Naturals, Sequences

CONSTANTS
    Peer,       \* the clients
    Talker,     \* bound: the clients that send anything
    NoPeer,     \* no client; also the sender of the greeting
    MaxBytes,   \* bound: bytes one client sends
    SndBuf,     \* room in a socket's send buffer
    RecvBuf     \* RECV_BUF: the buffer a session passes to recv

ASSUME NetAssumption ==
    /\ NoPeer \notin Peer
    /\ Talker \subseteq Peer
    /\ MaxBytes \in Nat
    /\ SndBuf \in Nat \ {0}
    /\ RecvBuf \in Nat \ {0}

VARIABLES
    peer,       \* peer[p]: the client's end, see PeerState
    sent,       \* sent[p]: bytes p has written
    rcvd,       \* rcvd[p]: bytes of p the server has got from recv
    down,       \* down[p]: the send buffer of p's socket and the wire to p
    got,        \* got[p]: what p has read, ever
    backlog     \* established connections the server has not accepted

netVars == <<peer, sent, rcvd, down, got, backlog>>

Hello == <<NoPeer, 0>>
Token == (Peer \union {NoPeer}) \X Nat

(* idle    not connected yet
   open    connected
   shut    has sent FIN and still reads
   gone    has closed its socket: it reads nothing more
   reset   RST on an established connection: the next call fails
   broken  RST after the FIN: the next send fails with EPIPE *)
PeerState == {"idle", "open", "shut", "gone", "reset", "broken"}

NetTypeOK ==
    /\ peer \in [Peer -> PeerState]
    /\ sent \in [Peer -> 0..MaxBytes]
    /\ rcvd \in [Peer -> 0..MaxBytes]
    /\ \A p \in Peer : rcvd[p] <= sent[p]
    /\ down \in [Peer -> Seq(Token)]
    /\ \A p \in Peer : Len(down[p]) <= SndBuf
    /\ got \in [Peer -> Seq(Token)]
    /\ backlog \in SUBSET Peer

NetInit ==
    /\ peer = [p \in Peer |-> "idle"]
    /\ sent = [p \in Peer |-> 0]
    /\ rcvd = [p \in Peer |-> 0]
    /\ down = [p \in Peer |-> <<>>]
    /\ got = [p \in Peer |-> <<>>]
    /\ backlog = {}

-----------------------------------------------------------------------------
(* What a system call on p's socket sees. *)

Readable(p) == rcvd[p] < sent[p]
Eof(p) == peer[p] \in {"shut", "gone"}
Failed(p) == peer[p] \in {"reset", "broken"}
Space(p) == SndBuf - Len(down[p])

\* What one recv returns, and one send of len bytes accepts.
RecvCount(p) == IF sent[p] - rcvd[p] < RecvBuf THEN sent[p] - rcvd[p] ELSE RecvBuf
SendCount(p, len) == IF Space(p) < len THEN Space(p) ELSE len

\* The n bytes of s that follow the first k.
Chunk(s, k, n) == [i \in 1..n |-> <<s, k + i>>]

-----------------------------------------------------------------------------
(* Steps of the peers.  Those of a connected peer carry the guard that the
   server still holds the connection (Held), which the server module defines:
   after that they cannot matter to it. *)

PeerConnect(p) ==
    /\ peer[p] = "idle"
    /\ peer' = [peer EXCEPT ![p] = "open"]
    /\ backlog' = backlog \union {p}
    /\ UNCHANGED <<sent, rcvd, down, got>>

PeerSend(p) ==
    /\ peer[p] = "open"
    /\ p \in Talker
    /\ sent[p] < MaxBytes
    /\ sent' = [sent EXCEPT ![p] = @ + 1]
    /\ UNCHANGED <<peer, rcvd, down, got, backlog>>

\* shutdown(SD_SEND), or close.
PeerFinish(p) ==
    /\ \/ peer[p] = "open" /\ \E s \in {"shut", "gone"} : peer' = [peer EXCEPT ![p] = s]
       \/ peer[p] = "shut" /\ peer' = [peer EXCEPT ![p] = "gone"]
    /\ UNCHANGED <<sent, rcvd, down, got, backlog>>

\* An abort; or the RST with which a closed socket answers data.
PeerReset(p) ==
    /\ \/ peer[p] = "open" /\ peer' = [peer EXCEPT ![p] = "reset"]
       \/ peer[p] = "shut" /\ peer' = [peer EXCEPT ![p] = "broken"]
       \/ /\ peer[p] = "gone" /\ down[p] # <<>>
          /\ peer' = [peer EXCEPT ![p] = "broken"]
    /\ UNCHANGED <<sent, rcvd, down, got, backlog>>

PeerRead(p) ==
    /\ peer[p] \in {"open", "shut"}
    /\ down[p] # <<>>
    /\ got' = [got EXCEPT ![p] = Append(@, Head(down[p]))]
    /\ down' = [down EXCEPT ![p] = Tail(@)]
    /\ UNCHANGED <<peer, sent, rcvd, backlog>>
=============================================================================
