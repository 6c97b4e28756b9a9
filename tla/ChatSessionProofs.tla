------------------------- MODULE ChatSessionProofs -------------------------
(***************************************************************************)
(* What the poll and the epoll server have in common: every step of their  *)
(* sessions, and of the clients, is a step of the relay or none.  The      *)
(* proofs of the two servers cite one lemma for each kind of step.         *)
(***************************************************************************)
EXTENDS ChatSession, Integers, SequenceTheorems, WellFoundedInduction, TLAPS

RelayStep == Relay!Next \/ UNCHANGED Relay!vars

-----------------------------------------------------------------------------
(* The invariant of the sessions. *)

\* A client has one session at most.
OneSession ==
    \A f, g \in Fds : m_clients[f] # NoPeer /\ m_clients[f] = m_clients[g] => f = g

\* A client is away, waits to be accepted, or has been.
Places ==
    \A p \in Peer :
        /\ p \in backlog => p \notin Clients
        /\ peer[p] = "idle" => p \notin Clients /\ p \notin backlog
        /\ peer[p] = "idle" \/ p \in backlog => down[p] = <<>> /\ got[p] = <<>>

\* Only a session has something in its queue.
Owners == \A p \in Peer : p \notin Clients => pending[p] = <<>> /\ ends[p] = {}

Talkers == \A p \in Peer : sent[p] > 0 => p \in Talker

SessInv == NetTypeOK /\ SessTypeOK /\ OneSession /\ Places /\ Owners /\ Talkers

-----------------------------------------------------------------------------
(* Sequences of tokens. *)

LEMMA Concat ==
    ASSUME NEW s \in Seq(Token), NEW t \in Seq(Token)
    PROVE  s \o t \in Seq(Token) /\ Len(s \o t) = Len(s) + Len(t) /\ Len(s) \in Nat
BY ConcatProperties, LenProperties

LEMMA Assoc ==
    ASSUME NEW s \in Seq(Token), NEW t \in Seq(Token), NEW u \in Seq(Token)
    PROVE  (s \o t) \o u = s \o (t \o u)
BY ConcatAssociative

\* A stream that loses its first part of three to the second keeps its bytes.
LEMMA Moved ==
    ASSUME NEW s \in Seq(Token), NEW n \in 0..Len(s)
    PROVE  /\ SubSeq(s, 1, n) \in Seq(Token) /\ SubSeq(s, n + 1, Len(s)) \in Seq(Token)
           /\ Len(SubSeq(s, 1, n)) = n /\ Len(SubSeq(s, n + 1, Len(s))) = Len(s) - n
           /\ SubSeq(s, 1, n) \o SubSeq(s, n + 1, Len(s)) = s
<1> DEFINE a == SubSeq(s, 1, n)
           b == SubSeq(s, n + 1, Len(s))
<1>1. Len(s) \in Nat /\ n \in Nat /\ n <= Len(s)
  BY LenProperties
<1>2. a \in Seq(Token) /\ Len(a) = n /\ \A i \in 1..n : a[i] = s[i]
  OBVIOUS
<1>3. /\ b \in Seq(Token) /\ Len(b) = Len(s) - n
      /\ \A i \in 1..(Len(s) - n) : b[i] = s[n + i]
  OBVIOUS
<1> HIDE DEF a, b
<1>4. /\ a \o b \in Seq(Token) /\ Len(a \o b) = Len(s)
      /\ \A i \in 1..Len(s) : (a \o b)[i] = IF i <= n THEN a[i] ELSE b[i - n]
  BY <1>1, <1>2, <1>3, ConcatProperties
<1>5. ASSUME NEW i \in 1..Len(s) PROVE (a \o b)[i] = s[i]
  <2>1. i \in Int
    BY <1>1
  <2>2. CASE i <= n
    BY ONLY <2>1, <2>2, <1>1, <1>2, <1>4, i \in 1..Len(s)
  <2>3. CASE ~(i <= n)
    <3>1. i - n \in 1..(Len(s) - n) /\ n + (i - n) = i
      BY ONLY <2>1, <2>3, <1>1, i \in 1..Len(s)
    <3> QED
      BY ONLY <2>3, <3>1, <1>3, <1>4, i \in 1..Len(s)
  <2> QED
    BY <2>2, <2>3
<1>6. a \o b = s
  BY <1>4, <1>5, SeqEqual
<1> QED
  BY <1>2, <1>3, <1>6 DEF a, b

\* A set of numbers has a least element.
LEMMA Least ==
    ASSUME NEW E \in SUBSET Nat, E # {}
    PROVE  \E e \in E : \A f \in E : e <= f
<1>1. PICK e \in E : \A f \in E : ~(<<f, e>> \in OpToRel(<, Nat))
  BY NatLessThanWellFounded, WFMin
<1>2. \A f \in E : ~(f < e)
  BY <1>1 DEF OpToRel
<1> QED
  BY <1>2

LEMMA FrontIsLeast ==
    ASSUME NEW p \in Peer, ends[p] \in SUBSET Nat, ends[p] # {}
    PROVE  FrontLen(p) \in ends[p] /\ \A f \in ends[p] : FrontLen(p) <= f
BY Least DEF FrontLen

-----------------------------------------------------------------------------
(* The clients. *)

\* Nobody joins or leaves, and no byte moves.
LEMMA Still ==
    ASSUME SessInv, UNCHANGED <<rcvd, down, got, sessVars>>,
           \A p \in Peer : (peer'[p] = "idle" \/ p \in backlog') <=> (peer[p] = "idle" \/ p \in backlog)
    PROVE  UNCHANGED Relay!vars
<1>1. Clients' = Clients
  BY DEF sessVars, Clients
<1>2. Member' = Member
  BY <1>1 DEF Member
<1>3. Owed' = Owed /\ Taken' = Taken
  BY DEF Owed, Taken, sessVars
<1> QED
  BY <1>2, <1>3 DEF Relay!vars

LEMMA Connects ==
    ASSUME SessInv, NEW p \in Peer, PeerConnect(p), UNCHANGED sessVars
    PROVE  SessInv' /\ UNCHANGED Relay!vars
<1>1. Clients' = Clients
  BY DEF sessVars, Clients
<1>2. SessInv'
  BY <1>1 DEF SessInv, NetTypeOK, SessTypeOK, QueueShape, OneSession, Places, Owners, Talkers,
              sessVars, PeerConnect, PeerState
<1>3. UNCHANGED <<rcvd, down, got, sessVars>>
  BY DEF PeerConnect
<1>4. ASSUME NEW q \in Peer
      PROVE  (peer'[q] = "idle" \/ q \in backlog') <=> (peer[q] = "idle" \/ q \in backlog)
  BY DEF PeerConnect, SessInv, NetTypeOK
<1> QED
  BY <1>2, <1>3, <1>4, Still

LEMMA Talks ==
    ASSUME SessInv, NEW p \in Peer, PeerSend(p), UNCHANGED sessVars
    PROVE  SessInv' /\ UNCHANGED Relay!vars
<1>1. Clients' = Clients
  BY DEF sessVars, Clients
<1>2. SessInv'
  BY <1>1, NetAssumption
     DEF SessInv, NetTypeOK, SessTypeOK, QueueShape, OneSession, Places, Owners, Talkers,
         sessVars, PeerSend
<1>3. UNCHANGED <<rcvd, down, got, sessVars, peer, backlog>>
  BY DEF PeerSend
<1> QED
  BY <1>2, <1>3, Still

LEMMA HangsUp ==
    ASSUME SessInv, NEW p \in Peer, PeerFinish(p) \/ PeerReset(p), UNCHANGED sessVars
    PROVE  SessInv' /\ UNCHANGED Relay!vars
<1>1. Clients' = Clients
  BY DEF sessVars, Clients
<1>2. /\ UNCHANGED <<sent, rcvd, down, got, backlog>> /\ peer' \in [Peer -> PeerState]
      /\ \A q \in Peer : peer'[q] = "idle" <=> peer[q] = "idle"
  BY DEF SessInv, NetTypeOK, PeerFinish, PeerReset, PeerState
<1>3. SessInv'
  BY <1>1, <1>2 DEF SessInv, NetTypeOK, SessTypeOK, QueueShape, OneSession, Places, Owners,
                    Talkers, sessVars
<1> QED
  BY <1>2, <1>3, Still

\* The peer takes the next token it is owed.
LEMMA Reads ==
    ASSUME SessInv, NEW p \in Peer, PeerRead(p), UNCHANGED sessVars
    PROVE  SessInv' /\ Relay!Next
<1> DEFINE g == got[p]
           d == down[p]
           q == pending[p]
<1>1. /\ g \in Seq(Token) /\ d \in Seq(Token) /\ q \in Seq(Token) /\ d # <<>>
      /\ peer[p] # "idle" /\ p \notin backlog
  BY DEF SessInv, NetTypeOK, SessTypeOK, Places, PeerRead
<1>2. Clients' = Clients
  BY DEF sessVars, Clients
<1>3. /\ got'[p] = Append(g, Head(d)) /\ down'[p] = Tail(d)
      /\ \A r \in Peer \ {p} : got'[r] = got[r] /\ down'[r] = down[r]
      /\ UNCHANGED <<peer, sent, rcvd, backlog, m_clients, pending, ends>>
      /\ DOMAIN got' = Peer /\ DOMAIN down' = Peer
  BY DEF SessInv, NetTypeOK, PeerRead, sessVars
<1> HIDE DEF g, d, q
<1>4. /\ Append(g, Head(d)) \in Seq(Token) /\ Tail(d) \in Seq(Token)
      /\ Len(Append(g, Head(d))) = Len(g) + 1 /\ Len(Tail(d)) = Len(d) - 1
      /\ Len(g) \in Nat /\ Len(d) \in Nat /\ Len(d) > 0 /\ Len(q) \in Nat
  BY <1>1, HeadTailProperties, AppendProperties, LenProperties, EmptySeq
<1>5. Append(g, Head(d)) \o Tail(d) = g \o d
  <2>1. Head(d) \in Token
    BY <1>1, HeadTailProperties
  <2>2. <<Head(d)>> \o Tail(d) = d
    BY <1>1
  <2>3. Append(g, Head(d)) = g \o <<Head(d)>> /\ <<Head(d)>> \in Seq(Token)
    BY <1>1, <2>1
  <2>4. (g \o <<Head(d)>>) \o Tail(d) = g \o (<<Head(d)>> \o Tail(d))
    BY ONLY <1>1, <1>4, <2>3, ConcatAssociative
  <2> QED
    BY <2>2, <2>3, <2>4
<1>6. SessInv'
  <2>1. got' \in [Peer -> Seq(Token)] /\ down' \in [Peer -> Seq(Token)]
        /\ \A r \in Peer : Len(down'[r]) <= SndBuf
    BY <1>3, <1>4, NetAssumption DEF SessInv, NetTypeOK, PeerRead, d
  <2> QED
    BY <1>1, <1>2, <1>3, <2>1
       DEF SessInv, NetTypeOK, SessTypeOK, QueueShape, OneSession, Places, Owners, Talkers
<1>7. Owed' = Owed
  <2>1. got'[p] \o down'[p] = got[p] \o down[p]
    BY <1>3, <1>5 DEF g, d
  <2> QED
    BY <2>1, <1>3 DEF Owed
<1>8. Member' = Member
  BY <1>2, <1>3 DEF Member
<1>9. Taken' = [Taken EXCEPT ![p] = Len(g) + 1] /\ Taken[p] = Len(g)
  BY <1>3, <1>4 DEF Taken, g
<1>10. Len(g) + 1 \in (Taken[p] + 1)..Len(Owed[p])
  <2>1. Owed[p] = (g \o d) \o q
    BY DEF Owed, g, d, q
  <2>2. Len(Owed[p]) = Len(g) + Len(d) + Len(q)
    BY <2>1, <1>1, Concat
  <2> QED
    BY <1>4, <1>9, <2>2
<1>11. Relay!Deliver(p)
  BY <1>3, <1>7, <1>8, <1>9, <1>10 DEF Relay!Deliver
<1> QED
  BY <1>6, <1>11 DEF Relay!Next

-----------------------------------------------------------------------------
(* Sessions begin and end. *)

LEMMA Accepts ==
    ASSUME SessInv, NEW p \in Peer, NEW fd \in Fds, AcceptClient(p, fd)
    PROVE  SessInv' /\ Relay!Next
<1>1. /\ p \in backlog /\ p \notin Clients /\ peer[p] # "idle"
      /\ down[p] = <<>> /\ got[p] = <<>> /\ pending[p] = <<>> /\ ends[p] = {}
  BY DEF AcceptClient, SessInv, Places, Owners
<1>2. Clients' = Clients \union {p}
  BY NetAssumption DEF AcceptClient, SessInv, SessTypeOK, Clients
<1>3. PICK greeting \in {<<>>, <<Hello>>} : down' = [down EXCEPT ![p] = greeting]
  <2>1. Append(<<>>, Hello) = <<Hello>>
    OBVIOUS
  <2> QED
    BY <1>1, <2>1 DEF AcceptClient
<1>4. greeting \in Seq(Token) /\ Len(greeting) <= 1
  <2>1. Hello \in Token
    BY DEF Hello, Token
  <2>2. <<Hello>> \in Seq(Token) /\ Len(<<Hello>>) = 1
    BY <2>1
  <2>3. <<>> \in Seq(Token) /\ Len(<<>>) = 0
    BY EmptySeq
  <2>4. CASE greeting = <<>>
    BY <2>3, <2>4
  <2>5. CASE greeting = <<Hello>>
    BY <2>2, <2>5
  <2> QED
    BY <2>4, <2>5
<1>5. SessInv'
  <2>1. NetTypeOK'
    BY <1>3, <1>4, NetAssumption DEF SessInv, NetTypeOK, AcceptClient
  <2>2. SessTypeOK' /\ OneSession'
    BY <1>1 DEF SessInv, SessTypeOK, QueueShape, OneSession, AcceptClient, Clients
  <2>3. Places' /\ Owners' /\ Talkers'
    BY <1>1, <1>2, <1>3 DEF SessInv, NetTypeOK, Places, Owners, Talkers, AcceptClient
  <2> QED
    BY <2>1, <2>2, <2>3 DEF SessInv
<1>6. Owed' = [Owed EXCEPT ![p] = greeting]
  <2>1. got'[p] \o down'[p] \o pending'[p] = greeting
    <3>1. got'[p] = <<>> /\ down'[p] = greeting /\ pending'[p] = <<>>
      BY <1>1, <1>3 DEF AcceptClient, SessInv, NetTypeOK
    <3>2. <<>> \o greeting = greeting /\ greeting \o <<>> = greeting
      BY <1>4, ConcatEmptySeq
    <3> QED
      BY <3>1, <3>2
  <2>2. \A q \in Peer \ {p} : got'[q] \o down'[q] \o pending'[q] = got[q] \o down[q] \o pending[q]
    BY <1>3 DEF AcceptClient, SessInv, NetTypeOK
  <2> QED
    BY <2>1, <2>2 DEF Owed
<1>7. Taken' = Taken /\ rcvd' = rcvd
  BY DEF Taken, AcceptClient
<1>8. Member[p] = "out" /\ Member' = [Member EXCEPT ![p] = "in"]
  BY <1>1, <1>2 DEF Member, AcceptClient
<1>9. Relay!Join(p)
  BY <1>6, <1>7, <1>8 DEF Relay!Join, Relay!Hello, Hello
<1> QED
  BY <1>5, <1>9 DEF Relay!Next

\* What is left of a stream without its last part.
LEMMA Prefix ==
    ASSUME NEW s \in Seq(Token), NEW t \in Seq(Token)
    PROVE  SubSeq(s \o t, 1, Len(s)) = s
<1> DEFINE c == s \o t
           r == SubSeq(c, 1, Len(s))
<1>1. /\ c \in Seq(Token) /\ Len(s) \in 0..Len(c) /\ Len(s) \in Nat
      /\ \A i \in 1..Len(s) : c[i] = s[i]
  BY ConcatProperties, LenProperties
<1> HIDE DEF c
<1>2. r \in Seq(Token) /\ Len(r) = Len(s) /\ \A i \in 1..Len(s) : r[i] = c[i]
  BY <1>1
<1> HIDE DEF r
<1>3. r = s
  BY <1>1, <1>2, SeqEqual
<1> QED
  BY <1>3 DEF r, c

LEMMA Ends ==
    ASSUME SessInv, NEW S \in SUBSET Peer, S # {}, S \subseteq Clients \union backlog,
           Clients' = Clients \ S, backlog' = backlog \ S,
           UNCHANGED <<peer, sent, rcvd, down, got>>,
           \A q \in Peer : pending'[q] = IF q \in S THEN <<>> ELSE pending[q]
    PROVE  Relay!Next
<1>1. \A p \in S : Member[p] # "gone"
  BY DEF Member
<1>2. Member' = [p \in Peer |-> IF p \in S THEN "gone" ELSE Member[p]]
  BY DEF Member, SessInv, Places
<1> DEFINE cut == [p \in S |-> Len(got[p] \o down[p])]
<1>3. ASSUME NEW p \in S
      PROVE  /\ Owed'[p] = SubSeq(Owed[p], 1, cut[p])
             /\ Taken[p] <= cut[p] /\ cut[p] <= Len(Owed[p])
             /\ cut[p] \in 0..Len(Owed[p])
  <2> DEFINE a == got[p]
             b == down[p]
             c == pending[p]
  <2>1. a \in Seq(Token) /\ b \in Seq(Token) /\ c \in Seq(Token)
    BY DEF SessInv, NetTypeOK, SessTypeOK
  <2>2. /\ Owed[p] = (a \o b) \o c /\ Owed'[p] = (a \o b) \o <<>>
        /\ cut[p] = Len(a \o b) /\ Taken[p] = Len(a)
    BY DEF Owed, Taken
  <2> HIDE DEF a, b, c, cut
  <2>3. a \o b \in Seq(Token) /\ Len(a \o b) = Len(a) + Len(b)
        /\ Len((a \o b) \o c) = Len(a \o b) + Len(c)
        /\ Len(a) \in Nat /\ Len(b) \in Nat /\ Len(c) \in Nat
    BY <2>1, Concat
  <2>4. (a \o b) \o <<>> = a \o b /\ SubSeq((a \o b) \o c, 1, Len(a \o b)) = a \o b
    BY <2>1, <2>3, ConcatEmptySeq, Prefix
  <2> QED
    BY <2>2, <2>3, <2>4
<1>4. Owed' = [p \in Peer |-> IF p \in S THEN SubSeq(Owed[p], 1, cut[p]) ELSE Owed[p]]
  <2> HIDE DEF cut
  <2>1. \A p \in Peer \ S : Owed'[p] = Owed[p]
    BY DEF Owed
  <2>2. DOMAIN Owed' = Peer /\ Owed' = [p \in Peer |-> Owed'[p]]
    BY DEF Owed
  <2> QED
    BY <1>3, <2>1, <2>2
<1>5. cut \in Relay!Cuts(S)
  <2>1. cut = [p \in S |-> cut[p]]
    OBVIOUS
  <2> HIDE DEF cut
  <2>2. \A p \in S : cut[p] \in UNION {0..Len(Owed[q]) : q \in S}
    BY <1>3
  <2>3. cut \in [S -> UNION {0..Len(Owed[q]) : q \in S}]
    BY <2>1, <2>2
  <2> QED
    BY <1>3, <2>3 DEF Relay!Cuts
<1>6. Taken' = Taken
  BY DEF Taken
<1> HIDE DEF cut
<1>7. Relay!Leave(S)
  BY <1>1, <1>2, <1>4, <1>5, <1>6 DEF Relay!Leave
<1> QED
  BY <1>7 DEF Relay!Next

LEMMA Closes ==
    ASSUME SessInv, NEW fd \in Fds, m_clients[fd] # NoPeer, CloseClient(fd), UNCHANGED netVars
    PROVE  SessInv' /\ Relay!Next
<1> DEFINE p == m_clients[fd]
<1>1. p \in Peer /\ p \in Clients /\ p \notin backlog /\ peer[p] # "idle"
  BY DEF SessInv, SessTypeOK, Places, Clients
<1>2. Clients' = Clients \ {p}
  BY DEF CloseClient, SessInv, SessTypeOK, OneSession, Clients
<1>3. UNCHANGED <<peer, sent, rcvd, down, got, backlog>>
  BY DEF netVars
<1>4. SessInv'
  <2>1. NetTypeOK' /\ Talkers'
    BY <1>3 DEF SessInv, NetTypeOK, Talkers
  <2>2. SessTypeOK' /\ OneSession'
    BY DEF SessInv, SessTypeOK, QueueShape, OneSession, CloseClient
  <2>3. Places' /\ Owners'
    BY <1>2, <1>3 DEF SessInv, Places, Owners, CloseClient
  <2> QED
    BY <2>1, <2>2, <2>3 DEF SessInv
<1>5. \A q \in Peer : pending'[q] = IF q \in {p} THEN <<>> ELSE pending[q]
  BY DEF CloseClient
<1>6. backlog' = backlog \ {p}
  BY <1>1, <1>3
<1> HIDE DEF p
<1>7. Relay!Next
  BY <1>1, <1>2, <1>3, <1>5, <1>6, Ends
<1> QED
  BY <1>4, <1>7

LEMMA Drops ==
    ASSUME SessInv, DropSessions, UNCHANGED <<peer, sent, rcvd, down, got>>
    PROVE  SessInv' /\ RelayStep
<1> DEFINE S == Clients \union backlog
<1>1. Clients' = {}
  BY DEF DropSessions, Clients
<1>2. S \in SUBSET Peer
  BY DEF SessInv, SessTypeOK, NetTypeOK, Clients
<1>3. SessInv'
  BY <1>1 DEF SessInv, NetTypeOK, SessTypeOK, QueueShape, OneSession, Places, Owners, Talkers,
              DropSessions
<1>4. \A q \in Peer : pending'[q] = IF q \in S THEN <<>> ELSE pending[q]
  BY DEF DropSessions, SessInv, Owners
<1>5. Clients' = Clients \ S /\ backlog' = backlog \ S
  BY <1>1 DEF DropSessions
<1>6. CASE S # {}
  <2> HIDE DEF S
  <2>1. S \subseteq Clients \union backlog
    BY DEF S
  <2> QED
    BY <1>2, <1>3, <1>4, <1>5, <1>6, <2>1, Ends DEF RelayStep
<1>7. CASE S = {}
  <2>1. Clients' = Clients /\ backlog' = backlog /\ Member' = Member
    BY <1>7, <1>5 DEF Member
  <2>2. Owed' = Owed /\ Taken' = Taken
    BY <1>4, <1>7 DEF Owed, Taken
  <2> QED
    BY <1>3, <2>1, <2>2 DEF RelayStep, Relay!vars
<1> QED
  BY <1>6, <1>7

-----------------------------------------------------------------------------
(* What a client said is queued for the others, and sent. *)

LEMMA ChunkFacts ==
    ASSUME NEW s \in Peer, NEW k \in Nat, NEW n \in Nat
    PROVE  Chunk(s, k, n) \in Seq(Token) /\ Len(Chunk(s, k, n)) = n
<1>1. \A i \in 1..n : <<s, k + i>> \in Token
  BY DEF Token
<1> QED
  BY <1>1 DEF Chunk

LEMMA Broadcasts ==
    ASSUME SessInv, NEW p \in Clients, Readable(p),
           rcvd' = [rcvd EXCEPT ![p] = @ + RecvCount(p)],
           BroadcastMsg(Chunk(p, rcvd[p], RecvCount(p)), p),
           UNCHANGED <<peer, sent, down, got, backlog, m_clients>>
    PROVE  SessInv' /\ Relay!Next
<1> DEFINE n == RecvCount(p)
           c == Chunk(p, rcvd[p], n)
           S == Clients \ {p}
<1>1. p \in Peer /\ Clients \subseteq Peer /\ Clients' = Clients
  BY DEF Clients, SessInv, SessTypeOK
<1>2. /\ n \in 1..MaxBytes /\ n \in Nat /\ rcvd[p] \in Nat /\ rcvd[p] + n <= sent[p]
      /\ sent[p] <= MaxBytes /\ p \in Talker
  <2>1. sent[p] \in Nat /\ rcvd[p] \in Nat /\ rcvd[p] < sent[p] /\ sent[p] <= MaxBytes
    BY <1>1, NetAssumption DEF SessInv, NetTypeOK, Readable
  <2>2. p \in Talker
    BY <1>1, <2>1 DEF SessInv, Talkers
  <2> QED
    BY <2>1, <2>2, NetAssumption DEF RecvCount
<1> HIDE DEF n
<1>3. c \in Seq(Token) /\ Len(c) = n
  BY <1>1, <1>2, ChunkFacts
<1>4. /\ pending' = [q \in Peer |-> IF q \in S THEN pending[q] \o c ELSE pending[q]]
      /\ ends' = [q \in Peer |-> IF q \in S THEN ends[q] \union {Len(pending[q]) + Len(c)}
                                 ELSE ends[q]]
  BY DEF BroadcastMsg, PostSend, n
<1> HIDE DEF c, S
<1>5. ASSUME NEW q \in Peer
      PROVE  /\ pending[q] \in Seq(Token) /\ Len(pending[q]) \in Nat
             /\ pending[q] \o c \in Seq(Token)
             /\ Len(pending[q] \o c) = Len(pending[q]) + n
  BY <1>3, Concat DEF SessInv, SessTypeOK
<1>6. SessInv'
  <2>1. NetTypeOK' /\ Talkers' /\ OneSession'
    BY <1>1, <1>2, NetAssumption DEF SessInv, NetTypeOK, Talkers, OneSession, n
  <2>2. SessTypeOK'
    <3>1. pending' \in [Peer -> Seq(Token)] /\ ends' \in [Peer -> SUBSET Nat]
      BY <1>2, <1>3, <1>4, <1>5 DEF SessInv, SessTypeOK
    <3>2. ASSUME NEW q \in Peer
          PROVE  /\ ends'[q] \subseteq 1..Len(pending'[q])
                 /\ pending'[q] # <<>> => Len(pending'[q]) \in ends'[q]
      <4>1. CASE q \in S
        <5>1. /\ Len(pending'[q]) = Len(pending[q]) + n
              /\ ends'[q] = ends[q] \union {Len(pending[q]) + n}
          BY <4>1, <1>3, <1>4, <1>5
        <5>2. ends[q] \subseteq 1..Len(pending[q])
          BY DEF SessInv, SessTypeOK, QueueShape
        <5> QED
          BY <5>1, <5>2, <1>2, <1>5
      <4>2. CASE q \notin S
        BY <4>2, <1>4 DEF SessInv, SessTypeOK, QueueShape
      <4> QED
        BY <4>1, <4>2
    <3> QED
      BY <3>1, <3>2 DEF SessInv, SessTypeOK, QueueShape
  <2>3. Places' /\ Owners'
    BY <1>1, <1>4 DEF SessInv, Places, Owners, S
  <2> QED
    BY <2>1, <2>2, <2>3 DEF SessInv
<1>7. Member' = Member /\ \A q \in Peer : (Member[q] = "in" /\ q # p) <=> q \in S
  BY <1>1 DEF Member, S
<1>8. ASSUME NEW q \in Peer
      PROVE  Owed'[q] = IF q \in S THEN Owed[q] \o c ELSE Owed[q]
  <2> DEFINE a == got[q] \o down[q]
  <2>1. a \in Seq(Token) /\ pending[q] \in Seq(Token)
    BY <1>5, Concat DEF SessInv, NetTypeOK
  <2>2. Owed[q] = a \o pending[q] /\ Owed'[q] = a \o pending'[q]
    BY DEF Owed
  <2> HIDE DEF a
  <2>3. (a \o pending[q]) \o c = a \o (pending[q] \o c)
    BY ONLY <1>3, <2>1, Assoc
  <2> QED
    BY <1>4, <2>2, <2>3
<1>9. Owed' = [q \in Peer |-> IF Member[q] = "in" /\ q # p THEN Owed[q] \o c ELSE Owed[q]]
  <2>1. Owed' = [q \in Peer |-> Owed'[q]]
    BY DEF Owed
  <2> QED
    BY <2>1, <1>7, <1>8
<1>10. Taken' = Taken
  BY DEF Taken
<1>11. Relay!Broadcast(p, n)
  <2>1. Relay!Chunk(p, rcvd[p], n) = c
    BY DEF Relay!Chunk, Chunk, c
  <2>2. rcvd' = [rcvd EXCEPT ![p] = rcvd[p] + n]
    BY DEF n
  <2>3. rcvd[p] + n <= MaxBytes
    BY <1>1, <1>2, NetAssumption DEF SessInv, NetTypeOK
  <2> QED
    BY <1>7, <1>9, <1>10, <2>1, <2>2, <2>3 DEF Relay!Broadcast
<1> QED
  BY <1>2, <1>6, <1>11 DEF Relay!Next

\* What send may take of the front message.
LEMMA SendCounts ==
    ASSUME SessInv, NEW p \in Peer, IsWantSend(p), Space(p) > 0
    PROVE  LET n == SendCount(p, FrontLen(p))
           IN  /\ n \in 1..Len(pending[p]) /\ n <= Space(p) /\ n \in Nat
               /\ \A e \in ends[p] : n <= e /\ e \in Nat
<1>1. /\ ends[p] \subseteq 1..Len(pending[p]) /\ ends[p] # {} /\ ends[p] \in SUBSET Nat
      /\ Len(pending[p]) \in Nat /\ Len(down[p]) \in Nat
  BY LenProperties DEF SessInv, SessTypeOK, NetTypeOK, QueueShape, IsWantSend
<1>2. FrontLen(p) \in 1..Len(pending[p]) /\ \A e \in ends[p] : FrontLen(p) <= e
  BY <1>1, FrontIsLeast
<1> QED
  BY <1>1, <1>2, NetAssumption DEF SendCount, Space

LEMMA Sends ==
    ASSUME SessInv, NEW p \in Clients, IsWantSend(p), Space(p) > 0,
           NEW n, n = SendCount(p, FrontLen(p)),
           down' = [down EXCEPT ![p] = @ \o SubSeq(pending[p], 1, n)],
           Consume(p, n),
           UNCHANGED <<peer, sent, rcvd, got, backlog, m_clients>>
    PROVE  SessInv' /\ UNCHANGED Relay!vars
<1> DEFINE q == pending[p]
           d == down[p]
           g == got[p]
           a == SubSeq(q, 1, n)
           b == SubSeq(q, n + 1, Len(q))
<1>1. p \in Peer /\ Clients' = Clients
  BY DEF Clients, SessInv, SessTypeOK
<1>2. /\ n \in 1..Len(q) /\ n \in Nat /\ Len(d) + n <= SndBuf
      /\ \A e \in ends[p] : n <= e /\ e \in Nat
  <2>1. SndBuf \in Nat /\ Len(d) \in Nat
    BY <1>1, NetAssumption, LenProperties DEF SessInv, NetTypeOK
  <2> QED
    BY <1>1, <2>1, SendCounts DEF Space
<1>3. q \in Seq(Token) /\ d \in Seq(Token) /\ g \in Seq(Token) /\ Len(q) \in Nat /\ Len(d) \in Nat
  BY <1>1, LenProperties DEF SessInv, SessTypeOK, NetTypeOK
<1>4. /\ down' = [down EXCEPT ![p] = d \o a]
      /\ pending' = [pending EXCEPT ![p] = b]
      /\ ends' = [ends EXCEPT ![p] = {e - n : e \in ends[p] \ {n}}]
  BY DEF Consume
<1>5. /\ ends[p] \subseteq 1..Len(q)
      /\ q # <<>> => Len(q) \in ends[p]
  BY <1>1 DEF SessInv, SessTypeOK, QueueShape
<1>6. /\ a \in Seq(Token) /\ b \in Seq(Token) /\ Len(a) = n /\ Len(b) = Len(q) - n
      /\ a \o b = q
  <2> HIDE DEF q
  <2> QED
    <3>1. n \in 0..Len(q)
      BY <1>2
    <3> QED
      BY ONLY <3>1, <1>3, Moved
<1> HIDE DEF q, d, g, a, b
<1>7. d \o a \in Seq(Token) /\ Len(d \o a) = Len(d) + n
  <2>1. d \in Seq(Token) /\ a \in Seq(Token) /\ Len(a) = n
    BY <1>3, <1>6
  <2> QED
    BY ONLY <2>1, Concat
<1>8. SessInv'
  <2>1. NetTypeOK' /\ Talkers' /\ OneSession'
    BY <1>2, <1>4, <1>7 DEF SessInv, NetTypeOK, Talkers, OneSession
  <2>2. QueueShape'
    <3>1. ends'[p] = {e - n : e \in ends[p] \ {n}} /\ pending'[p] = b
      BY <1>1, <1>4 DEF SessInv, SessTypeOK
    <3>2. ends'[p] \subseteq 1..Len(b)
      <4> SUFFICES ASSUME NEW e \in ends[p] \ {n} PROVE e - n \in 1..Len(b)
        BY <3>1
      <4>1. e \in 1..Len(q) /\ n <= e /\ e # n
        BY <1>2, <1>5
      <4> QED
        BY ONLY <4>1, <1>2, <1>3, <1>6
    <3>3. b # <<>> => Len(b) \in ends'[p]
      <4> SUFFICES ASSUME b # <<>> PROVE Len(b) \in ends'[p]
        OBVIOUS
      <4>1. Len(b) # 0
        BY <1>6, EmptySeq
      <4>2. Len(q) \in ends[p] /\ Len(q) # n
        BY <4>1, <1>2, <1>3, <1>5, <1>6, EmptySeq
      <4> QED
        BY <3>1, <4>2, <1>6
    <3> QED
      BY <1>4, <3>1, <3>2, <3>3 DEF SessInv, SessTypeOK, QueueShape
  <2>3. ends' \in [Peer -> SUBSET Nat]
    <3>1. ASSUME NEW e \in ends[p] PROVE e - n \in Nat
      BY <1>2
    <3>2. {e - n : e \in ends[p] \ {n}} \in SUBSET Nat
      BY <3>1
    <3> QED
      BY <3>2, <1>4 DEF SessInv, SessTypeOK
  <2>4. SessTypeOK'
    BY <1>4, <1>6, <2>2, <2>3 DEF SessInv, SessTypeOK
  <2>5. Places' /\ Owners'
    BY <1>1, <1>4 DEF SessInv, Places, Owners
  <2> QED
    BY <2>1, <2>4, <2>5 DEF SessInv
<1>9. Owed' = Owed
  <2>1. Owed'[p] = Owed[p]
    <3>1. Owed[p] = (g \o d) \o q /\ Owed'[p] = (g \o (d \o a)) \o b
      BY <1>1, <1>4 DEF Owed, g, d, q, SessInv, NetTypeOK, SessTypeOK
    <3>2. g \in Seq(Token) /\ d \in Seq(Token) /\ a \in Seq(Token)
      BY <1>3, <1>6
    <3>3. (g \o d) \o a = g \o (d \o a)
      BY ONLY <3>2, Assoc
    <3>4. g \o d \in Seq(Token)
      BY ONLY <3>2, Concat
    <3>5. ((g \o d) \o a) \o b = (g \o d) \o (a \o b)
      BY ONLY <1>6, <3>2, <3>4, Assoc
    <3> QED
      BY <3>1, <3>3, <3>5, <1>6
  <2>2. \A r \in Peer \ {p} : Owed'[r] = Owed[r]
    BY <1>4 DEF Owed, SessInv, NetTypeOK, SessTypeOK
  <2>3. Owed = [r \in Peer |-> Owed[r]]
    BY DEF Owed
  <2>4. Owed' = [r \in Peer |-> Owed'[r]]
    BY ONLY TRUE DEF Owed
  <2> QED
    BY <2>1, <2>2, <2>3, <2>4
<1>10. Member' = Member /\ Taken' = Taken
  BY <1>1 DEF Member, Taken
<1> QED
  BY <1>8, <1>9, <1>10 DEF Relay!vars

-----------------------------------------------------------------------------

LEMMA Begins == ASSUME NetInit, SessInit PROVE SessInv /\ Relay!Init
<1>1. Clients = {}
  BY DEF SessInit, Clients
<1>2. <<>> \in Seq(Token) /\ Len(<<>>) = 0
  BY EmptySeq
<1>3. NetTypeOK
  BY <1>2, NetAssumption DEF NetInit, NetTypeOK, PeerState
<1>4. SessTypeOK
  BY <1>2 DEF SessInit, SessTypeOK, QueueShape
<1>5. OneSession /\ Places /\ Owners /\ Talkers
  BY <1>1 DEF NetInit, SessInit, OneSession, Places, Owners, Talkers
<1>6. Member = [p \in Peer |-> "out"]
  BY <1>1 DEF Member, NetInit
<1>7. Owed = [p \in Peer |-> <<>>] /\ Taken = [p \in Peer |-> 0]
  <2>1. (<<>> \o <<>>) \o <<>> = <<>>
    BY <1>2, ConcatEmptySeq
  <2> QED
    BY <1>2, <2>1 DEF Owed, Taken, NetInit, SessInit
<1> QED
  BY <1>3, <1>4, <1>5, <1>6, <1>7 DEF SessInv, Relay!Init, NetInit

-----------------------------------------------------------------------------
(* What is proved of the relay holds of the servers' streams. *)

Promises == INSTANCE ChatRelayProofs WITH
    MaxSaid <- MaxBytes, state <- Member, said <- rcvd, owed <- Owed, taken <- Taken

Promised == Relay!InOrder /\ Relay!NoGap /\ Relay!SameOrder /\ Relay!NoEcho

LEMMA RelayPromises == Relay!Spec => []Promised /\ Relay!Final
<1>1. Promises!RelayAssumption
  BY NetAssumption DEF Promises!RelayAssumption
<1>2. Relay!Init => Promises!Init
  BY DEF Relay!Init, Promises!Init
<1>3. [Relay!Next]_Relay!vars => [Promises!Next]_Promises!vars
  BY DEF Relay!Next, Relay!vars, Relay!Join, Relay!Deliver, Relay!Broadcast, Relay!Leave,
         Relay!Cuts, Relay!Chunk, Relay!Hello,
         Promises!Next, Promises!vars, Promises!Join, Promises!Deliver, Promises!Broadcast,
         Promises!Leave, Promises!Cuts, Promises!Chunk, Promises!Hello
<1>4. Relay!Spec => Promises!Spec
  BY <1>2, <1>3, PTL DEF Relay!Spec, Promises!Spec
<1>5. Promises!InOrder => Relay!InOrder
  BY DEF Promises!InOrder, Relay!InOrder, Promises!Hello, Relay!Hello
<1>6. Promises!NoGap => Relay!NoGap
  BY DEF Promises!NoGap, Relay!NoGap, Promises!Tokens, Relay!Tokens
<1>7. Promises!SameOrder => Relay!SameOrder
  BY DEF Promises!SameOrder, Relay!SameOrder
<1>8. Promises!NoEcho => Relay!NoEcho
  BY DEF Promises!NoEcho, Relay!NoEcho, Promises!Hello, Relay!Hello
<1>9. Promises!Spec => [](Promises!InOrder /\ Promises!NoGap /\ Promises!SameOrder /\ Promises!NoEcho)
  BY <1>1, Promises!DeliversInOrder, Promises!DeliversWithoutGap, Promises!OneConversation,
     Promises!NeverEchoes, PTL
     DEF Promises!DeliversInOrder, Promises!DeliversWithoutGap, Promises!OneConversation,
         Promises!NeverEchoes
<1>10. Promises!InOrder /\ Promises!NoGap /\ Promises!SameOrder /\ Promises!NoEcho => Promised
  BY <1>5, <1>6, <1>7, <1>8 DEF Promised
<1>11. Promises!Spec => Relay!Final
  BY <1>1, Promises!TakenIsFinal, PTL
     DEF Promises!TakenIsFinal, Promises!Final, Relay!Final, Promises!vars, Relay!vars
<1> QED
  BY <1>4, <1>9, <1>10, <1>11, PTL
=============================================================================
