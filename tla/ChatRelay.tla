----------------------------- MODULE ChatRelay -----------------------------
(***************************************************************************)
(* What every server of the repository promises: a chat relay.  A peer     *)
(* joins once, what the server reads from a member is owed to every other  *)
(* member, and what is owed reaches the peer in order.  Nothing here says  *)
(* how: sockets, queues, readiness masks and loops belong to the modules   *)
(* that implement this one (PollServer, EpollServer).                      *)
(*                                                                         *)
(* A token <<s, k>> is the k-th byte peer s sent.  The servers relay the   *)
(* raw byte stream, so the byte is the unit of delivery.                   *)
(***************************************************************************)
EXTENDS Naturals, Sequences

CONSTANTS
    Peer,      \* the clients that may ever connect, once each
    Talker,    \* bound: the peers that say something
    NoPeer,    \* the sender of the greeting
    MaxSaid    \* bound: bytes the server reads from one peer

ASSUME RelayAssumption == /\ NoPeer \notin Peer
                          /\ Talker \subseteq Peer
                          /\ MaxSaid \in Nat

VARIABLES
    state,     \* state[p]: "out" before, "in" while, "gone" after membership
    said,      \* said[s]: how many bytes of s the server has relayed
    owed,      \* owed[p]: the stream p is owed, as a sequence of tokens
    taken      \* taken[p]: how many tokens of owed[p] have reached p

vars == <<state, said, owed, taken>>

Hello == <<NoPeer, 0>>
Token == (Peer \union {NoPeer}) \X Nat

\* The n bytes of s that follow the first k.
Chunk(s, k, n) == [i \in 1..n |-> <<s, k + i>>]

TypeOK ==
    /\ state \in [Peer -> {"out", "in", "gone"}]
    /\ said \in [Peer -> 0..MaxSaid]
    /\ owed \in [Peer -> Seq(Token)]
    /\ taken \in [Peer -> Nat]
    /\ \A p \in Peer : taken[p] <= Len(owed[p])

Init ==
    /\ state = [p \in Peer |-> "out"]
    /\ said = [p \in Peer |-> 0]
    /\ owed = [p \in Peer |-> <<>>]
    /\ taken = [p \in Peer |-> 0]

-----------------------------------------------------------------------------

\* The server accepts p.  The greeting is sent without looking at the result,
\* so a connection that is already broken does not get it.
Join(p) ==
    /\ state[p] = "out"
    /\ state' = [state EXCEPT ![p] = "in"]
    /\ \E greeting \in {<<>>, <<Hello>>} : owed' = [owed EXCEPT ![p] = greeting]
    /\ UNCHANGED <<said, taken>>

\* Mutated forms of Broadcast: to the sender too; to sessions that ended; ahead
\* of what a peer has not taken yet; not to peers that lag behind.
BroadcastWhere(s, n, Gets(_), Place(_)) ==
    /\ said[s] + n <= MaxSaid
    /\ said' = [said EXCEPT ![s] = @ + n]
    /\ owed' = [p \in Peer |->
                  IF Gets(p)
                  THEN SubSeq(owed[p], 1, Place(p)) \o Chunk(s, said[s], n)
                         \o SubSeq(owed[p], Place(p) + 1, Len(owed[p]))
                  ELSE owed[p]]
    /\ UNCHANGED <<state, taken>>

AtEnd(p) == Len(owed[p])
AtFront(p) == taken[p]

BroadcastToEnded(s, n) ==
    LET Gets(p) == state[p] # "out" /\ p # s IN BroadcastWhere(s, n, Gets, AtEnd)
BroadcastPushFront(s, n) ==
    LET Gets(p) == state[p] = "in" /\ p # s IN BroadcastWhere(s, n, Gets, AtFront)
BroadcastDropsSlow(s, n) ==
    LET Gets(p) == state[p] = "in" /\ p # s /\ taken[p] = Len(owed[p])
    IN  BroadcastWhere(s, n, Gets, AtEnd)

\* One successful recv from s: its n bytes are owed to every other member.  s need
\* not be one: what has been read is passed on although the connection has broken,
\* and a thread may read before its session is listed.
Broadcast(s, n) ==
    /\ said[s] + n <= MaxSaid
    /\ said' = [said EXCEPT ![s] = @ + n]
    /\ owed' = [p \in Peer |-> IF state[p] = "in" /\ p # s
                               THEN owed[p] \o Chunk(s, said[s], n)
                               ELSE owed[p]]
    /\ UNCHANGED <<state, taken>>

\* Peer p takes the next tokens it is owed.
Deliver(p) ==
    /\ \E n \in (taken[p] + 1)..Len(owed[p]) : taken' = [taken EXCEPT ![p] = n]
    /\ UNCHANGED <<state, said, owed>>

\* What a closing session still delivers: what was taken, and some of the rest.
Cuts(S) == {cut \in [S -> UNION {0..Len(owed[p]) : p \in S}] :
                \A p \in S : taken[p] <= cut[p] /\ cut[p] <= Len(owed[p])}

\* The sessions of S end (one closed client, or all of them when the server
\* stops) and drop what they had queued; a connection nobody accepted ends too.
Leave(S) ==
    /\ S # {}
    /\ \A p \in S : state[p] # "gone"
    /\ state' = [p \in Peer |-> IF p \in S THEN "gone" ELSE state[p]]
    /\ \E cut \in Cuts(S) :
         owed' = [p \in Peer |-> IF p \in S THEN SubSeq(owed[p], 1, cut[p])
                                 ELSE owed[p]]
    /\ UNCHANGED <<said, taken>>

Next ==
    \/ \E p \in Peer : Join(p) \/ Deliver(p)
    \/ \E s \in Talker, n \in 1..MaxSaid : Broadcast(s, n)
    \/ \E S \in SUBSET Peer : Leave(S)

Spec == Init /\ [][Next]_vars

-----------------------------------------------------------------------------

\* The tokens p is or was owed.
Tokens(p) == {owed[p][i] : i \in 1..Len(owed[p])}

(* Nobody is sent its own bytes back, and nobody is sent a byte the server
   has not read (BroadcastMsg skips pSender). *)
NoEcho ==
    \A p \in Peer : \A i \in 1..Len(owed[p]) :
        \/ owed[p][i] = Hello
        \/ /\ owed[p][i][1] \in Peer \ {p}
           /\ owed[p][i][2] \in 1..said[owed[p][i][1]]

(* The bytes of one sender arrive in the order it sent them and none arrives
   twice; the greeting precedes everything. *)
InOrder ==
    \A p \in Peer : \A i, j \in 1..Len(owed[p]) :
        i < j => /\ owed[p][j] # Hello
                 /\ owed[p][i][1] = owed[p][j][1] => owed[p][i][2] < owed[p][j][2]

(* No hole in a stream: a peer that was owed byte k of a sender, and a later
   byte of it (or that is still a member when the server has read one), was
   owed byte k+1 as well. *)
NoGap ==
    \A p, s \in Peer : \A k, m \in 1..MaxSaid :
        /\ k < m
        /\ <<s, k>> \in Tokens(p)
        /\ <<s, m>> \in Tokens(p) \/ (state[p] = "in" /\ m <= said[s])
        => <<s, k + 1>> \in Tokens(p)

(* Two peers that are both owed two tokens are owed them in the same order:
   the members see one conversation. *)
SameOrder ==
    \A p, q \in Peer :
        \A i, j \in 1..Len(owed[p]) : \A k, l \in 1..Len(owed[q]) :
            (owed[p][i] = owed[q][k] /\ owed[p][j] = owed[q][l] /\ i < j) => k < l

(* What a peer has taken is final: no step rewrites it, and nothing is handed
   to a session after it ended. *)
Final ==
    [][\A p \in Peer :
         /\ SubSeq(owed'[p], 1, taken[p]) = SubSeq(owed[p], 1, taken[p])
         /\ state[p] = "gone" => owed'[p] = owed[p]]_vars
=============================================================================
