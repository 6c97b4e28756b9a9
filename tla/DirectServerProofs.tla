------------------------- MODULE DirectServerProofs -------------------------
(***************************************************************************)
(* The select and the blocking server, for every set of clients and every  *)
(* bound: they implement the relay while no full socket costs a client     *)
(* bytes; and whatever is lost, what arrives is in one order for all.      *)
(***************************************************************************)
EXTENDS DirectServer, Integers, FiniteSetTheorems, SequenceTheorems, TLAPS

-----------------------------------------------------------------------------
(* The inductive invariant. *)

\* The type invariant in two parts: the broadcast, and the sessions and the threads.
CastTypes ==
    /\ said \in [Peer -> 0..MaxBytes] /\ \A p \in Peer : said[p] <= rcvd[p]
    /\ talker \in Peer \union {NoPeer}
    /\ {msg, rest} \subseteq Seq(Token)
    /\ ToSet(todo) \subseteq Sessions \ {talker}
    /\ todo # <<>> => talker # NoPeer /\ rest # <<>>
    /\ lost \subseteq Peer

ThreadTypes ==
    /\ kind \in Kinds
    /\ Sessions \subseteq Peer /\ Len(m_clients) = Cardinality(Sessions)
    /\ loop \in {"none", "select", "accept", "clients", "exited"}
    /\ readSet \union m_toClose \subseteq Sessions
    /\ accepter \in {"none", "accept", "push", "done"}
    /\ newcomer \in Peer \union {NoPeer}
    /\ rx \in [Peer -> {"none", "check", "recv", "lock", "send", "ended"}]
    /\ m_active \subseteq m_socket /\ m_socket \subseteq Peer
    /\ m_running \in BOOLEAN
    /\ owner \in {"run", "close", "join", "lock", "next", "drain", "joinRx", "stopped"}
    /\ ToSet(stopping) \subseteq Sessions
    /\ kind = "blocking" => {p \in Peer : rx[p] = "send"} = {talker} \ {NoPeer}
    /\ OwnerLocked => talker = NoPeer

\* Each server has threads of its own; the loop broadcasts when it is at clients.
Roles ==
    /\ kind = "select" => /\ accepter = "none" /\ newcomer = NoPeer
                          /\ owner = "run" /\ stopping = <<>>
                          /\ \A p \in Peer : rx[p] = "none"
                          /\ talker # NoPeer => loop = "clients"
    /\ kind = "blocking" <=> loop = "none"
    /\ loop \in {"none", "select"} => readSet = {} /\ m_toClose = {}

\* A connection is waited for, waits to be accepted, is on its way to m_clients, or
\* has been there.  Nothing is on its way to a client that is not listed yet.
Places ==
    /\ newcomer # NoPeer => newcomer \notin Sessions \union backlog
    /\ accepter = "push" <=> newcomer # NoPeer
    /\ \A p \in Peer :
        /\ p \in backlog => p \notin Sessions
        /\ peer[p] = "idle" => p \notin Sessions \union backlog \union {newcomer}
        /\ peer[p] = "idle" \/ p \in backlog => rx[p] = "none"
        /\ peer[p] = "idle" \/ p \in backlog \/ p = newcomer => down[p] = <<>> /\ got[p] = <<>>

\* What has been read and not been broadcast comes from a talker.
Talks ==
    \A p \in Peer : /\ sent[p] > 0 => p \in Talker
                    /\ rx[p] = "lock" => said[p] < rcvd[p]

NoDup(s) == \A i, j \in 1..Len(s) : s[i] = s[j] => i = j

\* A broadcast reaches each session once.
Once == /\ m_clients \in Seq(Peer) /\ todo \in Seq(Peer) /\ stopping \in Seq(Peer)
        /\ NoDup(m_clients) /\ NoDup(todo)
        /\ todo # <<>> => msg # <<>>

\* The session that Stop is at is not active any more.
AtHead == owner \in {"drain", "joinRx"} => stopping # <<>> /\ Head(stopping) \notin m_active

Shape == TypeOK /\ Roles /\ Places /\ Talks /\ Once /\ AtHead

IInv == Shape /\ OneOrder

-----------------------------------------------------------------------------
(* Sequences without doubles. *)

LEMMA ToSetOfNone == ToSet(<<>>) = {}
BY DEF ToSet

LEMMA ToSetOfAppend ==
    ASSUME NEW S, NEW s \in Seq(S), NEW x \in S
    PROVE  /\ ToSet(Append(s, x)) = ToSet(s) \union {x}
           /\ NoDup(s) /\ x \notin ToSet(s) => NoDup(Append(s, x))
<1>1. /\ Append(s, x) \in Seq(S) /\ Len(Append(s, x)) = Len(s) + 1 /\ Len(s) \in Nat
      /\ Append(s, x)[Len(s) + 1] = x /\ \A i \in 1..Len(s) : Append(s, x)[i] = s[i]
      /\ DOMAIN s = 1..Len(s) /\ DOMAIN Append(s, x) = 1..Len(s) + 1
  BY AppendProperties, LenProperties
<1>2. ToSet(Append(s, x)) = ToSet(s) \union {x}
  BY <1>1 DEF ToSet
<1>3. ASSUME NoDup(s), x \notin ToSet(s) PROVE NoDup(Append(s, x))
  <2>1. \A i \in 1..Len(s) : s[i] # x
    BY <1>1, <1>3 DEF ToSet
  <2> QED
    BY <1>1, <1>3, <2>1 DEF NoDup
<1> QED
  BY <1>2, <1>3

LEMMA ToSetOfTail ==
    ASSUME NEW S, NEW s \in Seq(S), s # <<>>
    PROVE  /\ Head(s) \in S /\ Tail(s) \in Seq(S)
           /\ ToSet(s) = {Head(s)} \union ToSet(Tail(s))
           /\ NoDup(s) => NoDup(Tail(s)) /\ Head(s) \notin ToSet(Tail(s))
<1>1. /\ Head(s) \in S /\ Tail(s) \in Seq(S) /\ Len(s) \in Nat /\ Len(s) > 0
      /\ Head(s) = s[1] /\ Len(Tail(s)) = Len(s) - 1
      /\ \A i \in 1..Len(Tail(s)) : Tail(s)[i] = s[i + 1]
      /\ DOMAIN s = 1..Len(s) /\ DOMAIN Tail(s) = 1..Len(s) - 1
  BY HeadTailProperties, LenProperties, EmptySeq
<1>2. ToSet(s) = {Head(s)} \union ToSet(Tail(s))
  <2>1. ASSUME NEW x \in ToSet(s) PROVE x \in {Head(s)} \union ToSet(Tail(s))
    <3>1. PICK i \in 1..Len(s) : s[i] = x
      BY <1>1 DEF ToSet
    <3>2. CASE i = 1
      BY <1>1, <3>1, <3>2
    <3>3. CASE i # 1
      <4>1. i - 1 \in 1..Len(Tail(s)) /\ Tail(s)[i - 1] = x
        BY <1>1, <3>1, <3>3
      <4> QED
        BY <1>1, <4>1 DEF ToSet
    <3> QED
      BY <3>2, <3>3
  <2>2. ASSUME NEW i \in 1..Len(Tail(s)) PROVE Tail(s)[i] \in ToSet(s)
    <3>1. i + 1 \in 1..Len(s) /\ Tail(s)[i] = s[i + 1]
      BY <1>1
    <3> QED
      BY <1>1, <3>1 DEF ToSet
  <2>3. Head(s) \in ToSet(s)
    BY <1>1 DEF ToSet
  <2> QED
    BY <1>1, <2>1, <2>2, <2>3 DEF ToSet
<1>3. ASSUME NoDup(s) PROVE NoDup(Tail(s)) /\ Head(s) \notin ToSet(Tail(s))
  <2>1. NoDup(Tail(s))
    <3> SUFFICES ASSUME NEW i \in 1..Len(Tail(s)), NEW j \in 1..Len(Tail(s)), Tail(s)[i] = Tail(s)[j]
                 PROVE  i = j
      BY DEF NoDup
    <3>1. i + 1 \in 1..Len(s) /\ j + 1 \in 1..Len(s) /\ s[i + 1] = s[j + 1]
      BY <1>1
    <3>2. i + 1 = j + 1
      BY <1>3, <3>1 DEF NoDup
    <3> QED
      BY <1>1, <3>2
  <2>2. ASSUME NEW i \in 1..Len(Tail(s)), Tail(s)[i] = s[1] PROVE FALSE
    <3>1. i + 1 \in 1..Len(s) /\ 1 \in 1..Len(s) /\ s[i + 1] = s[1]
      BY <1>1, <2>2
    <3>2. i + 1 = 1
      BY <1>3, <3>1 DEF NoDup
    <3> QED
      BY <1>1, <3>2
  <2> QED
    BY <1>1, <2>1, <2>2 DEF ToSet
<1> QED
  BY <1>1, <1>2, <1>3

\* The two ways to say that there are no doubles.
LEMMA Counted ==
    ASSUME NEW S, NEW s \in Seq(S)
    PROVE  /\ IsFiniteSet(ToSet(s))
           /\ NoDup(s) <=> Len(s) = Cardinality(ToSet(s))
<1> DEFINE D == 1..Len(s)
<1>1. Len(s) \in Nat /\ DOMAIN s = D /\ s \in [D -> S]
  BY LenProperties
<1>2. s \in Surjection(D, ToSet(s))
  BY <1>1 DEF Surjection, ToSet
<1>3. IsFiniteSet(D) /\ Cardinality(D) = Len(s)
  BY <1>1, FS_Interval
<1>4. /\ IsFiniteSet(ToSet(s))
      /\ Cardinality(ToSet(s)) = Cardinality(D) <=> s \in Injection(D, ToSet(s))
  BY <1>2, <1>3, FS_Surjection
<1>5. s \in [D -> ToSet(s)]
  BY <1>1 DEF ToSet
<1>6. s \in Injection(D, ToSet(s)) <=> NoDup(s)
  BY <1>1, <1>5 DEF Injection, IsInjective, NoDup
<1> QED
  BY <1>3, <1>4, <1>6

\* The orders in which a set may be gone through.
LEMMA OrderFacts ==
    ASSUME NEW S, NEW T, T \subseteq S, IsFiniteSet(T), NEW s \in SetToSeqs(T)
    PROVE  s \in Seq(S) /\ ToSet(s) = T /\ NoDup(s)
<1> DEFINE n == Cardinality(T)
           D == 1..n
<1>1. n \in Nat
  BY FS_CardinalityType
<1>2. s \in [D -> T] /\ \A i, j \in D : i # j => s[i] # s[j]
  BY DEF SetToSeqs
<1>3. s \in [1..n -> S]
  BY <1>2
<1> HIDE DEF n
<1>4. s \in Seq(S) /\ Len(s) = n
  BY <1>1, <1>3, SeqDef, LenProperties, IsASeq
<1>5. s \in Injection(D, T)
  BY <1>2 DEF Injection, IsInjective
<1>6. IsFiniteSet(D) /\ Cardinality(D) = n
  BY <1>1, FS_Interval
<1>7. s \in Surjection(D, T)
  BY <1>5, <1>6, FS_Injection DEF n
<1>8. ToSet(s) = T
  BY <1>2, <1>7 DEF ToSet, Surjection
<1> QED
  BY <1>2, <1>4, <1>8 DEF NoDup

-----------------------------------------------------------------------------
(* Induction over the numbers, from the order of the numbers being well-founded,
   and the functions that recursion over a sequence defines. *)

LEMMA Least ==
    ASSUME NEW S, S \subseteq Nat, S # {}
    PROVE  \E n \in S : \A m \in S : n <= m
<1> DEFINE R == {pair \in Nat \X Nat : pair[1] < pair[2]}
<1>1. IsWellFoundedOn(R, Nat)
  BY NatLessThanWellFounded DEF OpToRel
<1>2. \A m, n \in Nat : <<m, n>> \in R <=> m < n
  OBVIOUS
<1> HIDE DEF R
<1>3. PICK n \in S : \A m \in S : ~(<<m, n>> \in R)
  BY <1>1, WFMin
<1>4. ASSUME NEW m \in S PROVE n <= m
  <2>1. m \in Nat /\ n \in Nat
    OBVIOUS
  <2>2. ~(m < n)
    BY <2>1, <1>2, <1>3, Zenon
  <2> QED
    BY ONLY <2>1, <2>2
<1> QED
  BY <1>4

LEMMA Induct ==
    ASSUME NEW S, 0 \in S, \A n \in Nat : n \in S => n + 1 \in S
    PROVE  Nat \subseteq S
<1> SUFFICES ASSUME Nat \ S # {} PROVE FALSE
  OBVIOUS
<1>1. PICK n \in Nat \ S : \A m \in Nat \ S : n <= m
  BY Least
<1>2. n # 0 /\ n - 1 \in Nat
  BY <1>1
<1>3. n - 1 \in S
  BY <1>1, <1>2
<1> QED
  BY <1>1, <1>2, <1>3

IsStep(step, n, V) == step \in [(1..n) \X V -> V]

Repeats(f, n, V, e, step) ==
    f \in [0..n -> V] /\ f[0] = e /\ \A i \in 1..n : f[i] = step[<<i, f[i - 1]>>]

LEMMA Recursion ==
    ASSUME NEW V, NEW e \in V, NEW n \in Nat, NEW step, IsStep(step, n, V)
    PROVE  \E f : Repeats(f, n, V, e, step)
<1> USE DEF IsStep, Repeats
<1> DEFINE Good(k, f) == f[0] = e /\ \A i \in 1..k : f[i] = step[<<i, f[i - 1]>>]
           S == {k \in Nat : k <= n => \E f \in [0..k -> V] : Good(k, f)}
<1>1. 0 \in S
  <2> DEFINE g == [i \in 0..0 |-> e]
  <2>1. g \in [0..0 -> V] /\ Good(0, g)
    OBVIOUS
  <2> QED
    BY <2>1
<1>2. ASSUME NEW k \in Nat, k \in S, k + 1 <= n PROVE k + 1 \in S
  <2>1. PICK f \in [0..k -> V] : Good(k, f)
    BY <1>2
  <2> DEFINE g == [i \in 0..k + 1 |-> IF i <= k THEN f[i] ELSE step[<<k + 1, f[k]>>]]
  <2>2. g \in [0..k + 1 -> V]
    <3>1. <<k + 1, f[k]>> \in (1..n) \X V
      BY <1>2
    <3> QED
      BY <3>1
  <2>3. g[0] = e
    BY <2>1
  <2>4. ASSUME NEW i \in 1..k + 1 PROVE g[i] = step[<<i, g[i - 1]>>]
    <3>1. CASE i <= k
      <4>1. i \in 1..k /\ g[i] = f[i] /\ g[i - 1] = f[i - 1]
        BY <3>1
      <4> QED
        BY <4>1, <2>1
    <3>2. CASE i = k + 1
      <4>1. g[i] = step[<<k + 1, f[k]>>] /\ g[i - 1] = f[k]
        BY <3>2
      <4> QED
        BY <4>1, <3>2
    <3> QED
      BY <3>1, <3>2
  <2>5. Good(k + 1, g)
    BY <2>3, <2>4
  <2> HIDE DEF g, Good
  <2> QED
    BY <2>2, <2>5
<1>3. \A k \in Nat : k \in S => k + 1 \in S
  BY <1>2
<1> HIDE DEF S
<1>4. n \in S
  BY <1>1, <1>3, Induct
<1> QED
  BY <1>4 DEF S

LEMMA WithoutFacts ==
    ASSUME NEW s \in Seq(Peer), NoDup(s), NEW P
    PROVE  /\ Without(s, P) \in Seq(Peer) /\ NoDup(Without(s, P))
           /\ ToSet(Without(s, P)) = ToSet(s) \ P
<1> DEFINE n == Len(s)
           Entry(f, i) == IF i = 0 THEN <<>>
                          ELSE IF s[i] \in P THEN f[i - 1]
                          ELSE Append(f[i - 1], s[i])
           IsAmong(f) == f = [i \in 0..n |-> Entry(f, i)]
           c == CHOOSE f : IsAmong(f)
           step == [pair \in (1..n) \X Seq(Peer) |->
                       IF s[pair[1]] \in P THEN pair[2]
                       ELSE Append(pair[2], s[pair[1]])]
<1>1. n \in Nat /\ \A i \in 1..n : s[i] \in Peer
  BY LenProperties, ElementOfSeq
<1>2. IsStep(step, n, Seq(Peer))
  BY <1>1, AppendProperties DEF IsStep
<1>3. \A i \in 1..n, v \in Seq(Peer) :
          step[<<i, v>>] = IF s[i] \in P THEN v ELSE Append(v, s[i])
  OBVIOUS
<1> HIDE DEF step, n
<1>4. PICK f : Repeats(f, n, Seq(Peer), <<>>, step)
  <2>1. n \in Nat /\ <<>> \in Seq(Peer)
    BY <1>1, EmptySeq
  <2> QED
    BY ONLY <2>1, <1>2, Recursion
<1>5. /\ f \in [0..n -> Seq(Peer)] /\ f[0] = <<>>
      /\ \A i \in 1..n : f[i] = IF s[i] \in P THEN f[i - 1] ELSE Append(f[i - 1], s[i])
  <2>1. f \in [0..n -> Seq(Peer)] /\ f[0] = <<>> /\ \A i \in 1..n : f[i] = step[<<i, f[i - 1]>>]
    BY <1>4 DEF Repeats
  <2>2. \A i \in 1..n : f[i - 1] \in Seq(Peer)
    BY <2>1, <1>1
  <2> QED
    BY <2>1, <2>2, <1>3
<1>6. IsAmong(f)
  <2>1. ASSUME NEW i \in 0..n PROVE f[i] = Entry(f, i)
    <3>1. i = 0 \/ i \in 1..n
      BY <1>1
    <3> QED
      BY <3>1, <1>1, <1>5
  <2> HIDE DEF Entry
  <2> QED
    BY <2>1, <1>5
<1>7. IsAmong(c)
  BY <1>6
<1>8. Without(s, P) = c[n]
  BY DEF Without, n
<1> HIDE DEF c
<1>9. /\ c[0] = <<>>
      /\ \A i \in 1..n : c[i] = IF s[i] \in P THEN c[i - 1] ELSE Append(c[i - 1], s[i])
  <2>1. ASSUME NEW i \in 0..n PROVE c[i] = Entry(c, i)
    <3> HIDE DEF Entry
    <3> QED
      BY <1>7
  <2>2. \A i \in 1..n : i \in 0..n /\ i # 0
    BY <1>1
  <2> QED
    BY <1>1, <2>1, <2>2
<1> DEFINE Upto(i) == {s[j] : j \in 1..i}
           Good(t, i) == t \in Seq(Peer) /\ NoDup(t) /\ ToSet(t) = Upto(i) \ P
           S == {i \in Nat : i <= n => Good(c[i], i)}
<1>10. 0 \in S
  <2>1. <<>> \in Seq(Peer) /\ NoDup(<<>>)
    BY EmptySeq DEF NoDup
  <2>2. Upto(0) = {}
    OBVIOUS
  <2>3. ToSet(<<>>) = {}
    BY ToSetOfNone
  <2> HIDE DEF Upto
  <2> QED
    BY <2>1, <2>2, <2>3, <1>9
<1>11. ASSUME NEW i \in Nat, i \in S, i + 1 <= n PROVE Good(c[i + 1], i + 1)
  <2> DEFINE x == s[i + 1]
  <2>1. i + 1 \in 1..n /\ x \in Peer /\ Good(c[i], i)
    BY <1>1, <1>11
  <2>2. c[i + 1] = IF x \in P THEN c[i] ELSE Append(c[i], x)
    <3>1. i + 1 \in 1..n /\ (i + 1) - 1 = i
      BY <2>1
    <3> QED
      BY <3>1, <1>9
  <2>3. Upto(i + 1) = Upto(i) \union {x}
    OBVIOUS
  <2>4. x \notin Upto(i)
    <3>1. ASSUME NEW j \in 1..i, s[j] = x PROVE FALSE
      <4>1. j \in 1..n /\ i + 1 \in 1..n /\ j # i + 1
        BY <1>1, <1>11
      <4> QED
        BY <4>1, <3>1 DEF NoDup, n
    <3> QED
      BY <3>1
  <2> HIDE DEF x, Upto
  <2>5. CASE x \in P
    BY <2>1, <2>2, <2>3, <2>5
  <2>6. CASE x \notin P
    <3>1. c[i + 1] = Append(c[i], x)
      BY <2>2, <2>6
    <3>2. Append(c[i], x) \in Seq(Peer) /\ NoDup(Append(c[i], x))
      BY <2>1, <2>4, AppendProperties, ToSetOfAppend
    <3>3. ToSet(Append(c[i], x)) = ToSet(c[i]) \union {x}
      BY <2>1, ToSetOfAppend
    <3> QED
      BY <3>1, <3>2, <3>3, <2>1, <2>3, <2>6
  <2> QED
    BY <2>5, <2>6
<1>12. \A i \in Nat : i \in S => i + 1 \in S
  <2> HIDE DEF Good
  <2> QED
    BY <1>11
<1> HIDE DEF S
<1>13. n \in S
  BY <1>1, <1>10, <1>12, Induct
<1>14. Good(c[n], n)
  BY <1>1, <1>13 DEF S
<1>15. Upto(n) = ToSet(s)
  BY LenProperties DEF ToSet, n
<1> QED
  BY <1>8, <1>14, <1>15
-----------------------------------------------------------------------------
(* Streams: o[p] is what p is sent, and s[q] how much q has said. *)

LEMMA ConcatFacts ==
    ASSUME NEW q \in Seq(Token), NEW r \in Seq(Token)
    PROVE  /\ q \o r \in Seq(Token) /\ Len(q \o r) = Len(q) + Len(r)
           /\ Len(q) \in Nat /\ Len(r) \in Nat
           /\ \A i \in 1..Len(q) : (q \o r)[i] = q[i]
           /\ \A i \in (Len(q) + 1)..(Len(q) + Len(r)) :
                  i - Len(q) \in 1..Len(r) /\ (q \o r)[i] = r[i - Len(q)]
  OBVIOUS

Streams(o) == \A p \in Peer : o[p] \in Seq(Token)

Foreign(o, s) ==
    \A p \in Peer : \A i \in 1..Len(o[p]) :
        \/ o[p][i] = Hello
        \/ o[p][i][1] \in Peer \ {p} /\ o[p][i][2] \in 1..s[o[p][i][1]]

Ascends(o) ==
    \A p \in Peer : \A i, j \in 1..Len(o[p]) :
        i < j => /\ o[p][j] # Hello
                 /\ o[p][i][1] = o[p][j][1] => o[p][i][2] < o[p][j][2]

Agrees(o) ==
    \A p, q \in Peer : \A i, j \in 1..Len(o[p]) : \A k, l \in 1..Len(o[q]) :
        o[p][i] = o[q][k] /\ o[p][j] = o[q][l] /\ i < j => k < l

Orders(o, s) == Streams(o) /\ Foreign(o, s) /\ Ascends(o) /\ Agrees(o)

\* o is the beginning of t.
Begins(o, t) == Len(o) <= Len(t) /\ \A i \in 1..Len(o) : o[i] = t[i]

\* Streams that lose their ends keep their order.
LEMMA CutOrders ==
    ASSUME NEW o, NEW o2, NEW s, NEW s2, Orders(o, s), Streams(o2),
           \A p \in Peer : Begins(o2[p], o[p]) /\ s[p] \in Nat /\ s2[p] \in Nat /\ s[p] <= s2[p]
    PROVE  Orders(o2, s2)
<1>1. \A p \in Peer : Len(o2[p]) \in Nat /\ Len(o[p]) \in Nat
  BY LenProperties DEF Streams, Orders
<1>2. \A p \in Peer : \A i \in 1..Len(o2[p]) : i \in 1..Len(o[p]) /\ o2[p][i] = o[p][i]
  BY <1>1 DEF Begins
<1>3. Foreign(o2, s2)
  <2> SUFFICES ASSUME NEW p \in Peer, NEW i \in 1..Len(o2[p]), o2[p][i] # Hello
               PROVE  o2[p][i][1] \in Peer \ {p} /\ o2[p][i][2] \in 1..s2[o2[p][i][1]]
    BY DEF Foreign
  <2>1. i \in 1..Len(o[p]) /\ o2[p][i] = o[p][i]
    BY <1>2
  <2>2. o[p][i][1] \in Peer \ {p} /\ o[p][i][2] \in 1..s[o[p][i][1]]
    BY <2>1 DEF Orders, Foreign
  <2> QED
    BY <2>1, <2>2
<1>4. Ascends(o2)
  BY <1>2 DEF Orders, Ascends
<1>5. Agrees(o2)
  <2> SUFFICES ASSUME NEW p \in Peer, NEW q \in Peer,
                      NEW i \in 1..Len(o2[p]), NEW j \in 1..Len(o2[p]),
                      NEW k \in 1..Len(o2[q]), NEW l \in 1..Len(o2[q]),
                      o2[p][i] = o2[q][k], o2[p][j] = o2[q][l], i < j
               PROVE  k < l
    BY DEF Agrees
  <2>1. /\ i \in 1..Len(o[p]) /\ j \in 1..Len(o[p]) /\ k \in 1..Len(o[q]) /\ l \in 1..Len(o[q])
        /\ o[p][i] = o[q][k] /\ o[p][j] = o[q][l]
    BY <1>2
  <2> QED
    BY <2>1 DEF Orders, Agrees
<1> QED
  BY <1>3, <1>4, <1>5 DEF Orders

\* So do streams of which one begins, with the greeting.
LEMMA GreetOrders ==
    ASSUME NEW o, NEW o2, NEW s, Orders(o, s), NEW x \in Peer,
           o2[x] = <<Hello>>, \A p \in Peer \ {x} : o2[p] = o[p]
    PROVE  Orders(o2, s)
<1>1. Streams(o2)
  <2>1. <<Hello>> \in Seq(Token)
    BY DEF Hello, Token
  <2> QED
    BY <2>1 DEF Orders, Streams
<1>2. Len(o2[x]) = 1 /\ \A i \in 1..Len(o2[x]) : i = 1 /\ o2[x][i] = Hello
  OBVIOUS
<1>3. Foreign(o2, s)
  BY <1>2 DEF Orders, Foreign
<1>4. Ascends(o2)
  BY <1>2 DEF Orders, Ascends
<1>5. Agrees(o2)
  <2> SUFFICES ASSUME NEW p \in Peer, NEW q \in Peer,
                      NEW i \in 1..Len(o2[p]), NEW j \in 1..Len(o2[p]),
                      NEW k \in 1..Len(o2[q]), NEW l \in 1..Len(o2[q]),
                      o2[p][i] = o2[q][k], o2[p][j] = o2[q][l], i < j
               PROVE  k < l
    BY DEF Agrees
  <2>1. p # x
    BY <1>2
  <2>2. o2[p][j] # Hello
    BY <1>4 DEF Ascends
  <2>3. q # x
    BY <1>2, <2>2
  <2> QED
    BY <2>1, <2>3 DEF Orders, Agrees
<1> QED
  BY <1>1, <1>3, <1>4, <1>5 DEF Orders

Gains(o, o2, G, c) == \A p \in Peer : o2[p] = IF p \in G THEN o[p] \o c ELSE o[p]

Speaks(s, s2, t, n) == \A p \in Peer : s[p] \in Nat /\ s2[p] = IF p = t THEN s[p] + n ELSE s[p]

\* And streams to which the next bytes of one sender are added.
LEMMA ChunkOrders ==
    ASSUME NEW o, NEW o2, NEW s, NEW s2, Orders(o, s), NEW t \in Peer, NEW n \in Nat,
           NEW G \in SUBSET (Peer \ {t}),
           Gains(o, o2, G, Chunk(t, s[t], n)), Speaks(s, s2, t, n)
    PROVE  Orders(o2, s2)
<1> DEFINE c == Chunk(t, s[t], n)
           m == [p \in Peer |-> Len(o[p])]
<1>1. /\ c \in Seq(Token) /\ Len(c) = n /\ s[t] \in Nat
      /\ \A i \in 1..n : c[i][1] = t /\ c[i][2] = s[t] + i
  <2>1. \A i \in 1..n : <<t, s[t] + i>> \in Token
    BY DEF Token, Speaks
  <2> QED
    BY <2>1 DEF Chunk, Speaks
<1>2. ASSUME NEW p \in Peer PROVE o[p] \in Seq(Token) /\ m[p] = Len(o[p]) /\ m[p] \in Nat
  <2>1. Streams(o)
    BY DEF Orders
  <2>2. o[p] \in Seq(Token)
    BY ONLY <2>1, p \in Peer, Zenon DEF Streams
  <2>3. Len(o[p]) \in Nat
    BY ONLY <2>2, LenProperties
  <2> QED
    BY ONLY <2>2, <2>3, p \in Peer DEF m
<1> HIDE DEF c, m
<1>3. ASSUME NEW p \in Peer
      PROVE  /\ o2[p] \in Seq(Token) /\ Len(o2[p]) \in Nat /\ m[p] \in Nat /\ m[p] <= Len(o2[p])
             /\ \A i \in 1..m[p] : o2[p][i] = o[p][i]
             /\ \A i \in 1..Len(o2[p]) :
                    i > m[p] => /\ p \in G /\ i - m[p] \in 1..n
                                /\ o2[p][i][1] = t /\ o2[p][i][2] = s[t] + (i - m[p])
  <2>1. o2[p] = IF p \in G THEN o[p] \o c ELSE o[p]
    BY DEF Gains, c
  <2>2. CASE p \in G
    <3>0. o[p] \in Seq(Token) /\ o2[p] = o[p] \o c
      BY <1>2, <2>1, <2>2
    <3>1. /\ o2[p] \in Seq(Token) /\ Len(o2[p]) = Len(o[p]) + n /\ Len(o[p]) \in Nat
          /\ \A i \in 1..Len(o[p]) : o2[p][i] = o[p][i]
          /\ \A i \in (Len(o[p]) + 1)..(Len(o[p]) + n) :
                 i - Len(o[p]) \in 1..n /\ o2[p][i] = c[i - Len(o[p])]
      <4> DEFINE b == o[p]
      <4>1. c \in Seq(Token) /\ Len(c) = n
        BY <1>1
      <4>2. b \in Seq(Token)
        BY <3>0
      <4> HIDE DEF b
      <4>3. /\ b \o c \in Seq(Token) /\ Len(b \o c) = Len(b) + Len(c) /\ Len(b) \in Nat
            /\ \A i \in 1..Len(b) : (b \o c)[i] = b[i]
            /\ \A i \in (Len(b) + 1)..(Len(b) + Len(c)) :
                   i - Len(b) \in 1..Len(c) /\ (b \o c)[i] = c[i - Len(b)]
        BY <4>1, <4>2, ConcatFacts
      <4>4. o2[p] = b \o c /\ o[p] = b
        BY <3>0 DEF b
      <4> QED
        BY ONLY <4>1, <4>3, <4>4
    <3>2. /\ o2[p] \in Seq(Token) /\ Len(o2[p]) = m[p] + n /\ m[p] \in Nat
          /\ \A i \in 1..m[p] : o2[p][i] = o[p][i]
          /\ \A i \in (m[p] + 1)..(m[p] + n) : i - m[p] \in 1..n /\ o2[p][i] = c[i - m[p]]
      BY <1>2, <3>1
    <3>3. ASSUME NEW i \in 1..Len(o2[p]), i > m[p]
          PROVE  /\ i - m[p] \in 1..n
                 /\ o2[p][i][1] = t /\ o2[p][i][2] = s[t] + (i - m[p])
      <4>1. i \in (m[p] + 1)..(m[p] + n)
        BY <3>2, <3>3
      <4>2. i - m[p] \in 1..n /\ o2[p][i] = c[i - m[p]]
        BY <3>2, <4>1
      <4>3. c[i - m[p]][1] = t /\ c[i - m[p]][2] = s[t] + (i - m[p])
        BY <1>1, <4>2
      <4> QED
        BY <4>2, <4>3
    <3> QED
      BY <1>1, <2>2, <3>2, <3>3
  <2>3. CASE p \notin G
    BY <1>2, <2>1, <2>3
  <2> QED
    BY <2>2, <2>3
<1>4. ASSUME NEW p \in Peer, NEW i \in 1..Len(o2[p]), i <= m[p]
      PROVE  i \in 1..m[p] /\ o2[p][i] = o[p][i] /\ (o2[p][i][1] = t => o2[p][i][2] \in Nat /\ o2[p][i][2] <= s[t])
  <2>1. i \in 1..m[p] /\ o2[p][i] = o[p][i]
    BY <1>3, <1>4
  <2>2. o[p][i] = Hello \/ o[p][i][2] \in 1..s[o[p][i][1]]
    BY <2>1, <1>2 DEF Orders, Foreign
  <2>3. Hello[1] = NoPeer /\ NoPeer # t
    BY NetAssumption DEF Hello
  <2> QED
    BY <1>1, <2>1, <2>2, <2>3
<1>5. Streams(o2)
  <2>1. \A p \in Peer : o2[p] \in Seq(Token)
    BY <1>3, Zenon
  <2> QED
    BY <2>1, Zenon DEF Streams
<1>6. Foreign(o2, s2)
  <2> SUFFICES ASSUME NEW p \in Peer, NEW i \in 1..Len(o2[p]), o2[p][i] # Hello
               PROVE  o2[p][i][1] \in Peer \ {p} /\ o2[p][i][2] \in 1..s2[o2[p][i][1]]
    BY DEF Foreign
  <2>1. CASE i <= m[p]
    <3>1. i \in 1..m[p] /\ o2[p][i] = o[p][i]
      BY <1>4, <2>1
    <3>2. o[p][i][1] \in Peer \ {p} /\ o[p][i][2] \in 1..s[o[p][i][1]]
      BY <3>1, <1>2 DEF Orders, Foreign
    <3> QED
      <4>1. \A q \in Peer : s[q] \in Nat /\ s2[q] \in Nat /\ s[q] <= s2[q]
        BY DEF Speaks
      <4> QED
        BY <3>1, <3>2, <4>1
  <2>2. CASE ~(i <= m[p])
    <3>1. i > m[p]
      BY <1>3, <2>2
    <3>2. p \in G /\ o2[p][i][1] = t /\ o2[p][i][2] = s[t] + (i - m[p]) /\ i - m[p] \in 1..n
      BY <1>3, <3>1
    <3> QED
      BY <1>1, <3>2 DEF Speaks
  <2> QED
    BY <2>1, <2>2
<1>7. Ascends(o2)
  <2> SUFFICES ASSUME NEW p \in Peer, NEW i \in 1..Len(o2[p]), NEW j \in 1..Len(o2[p]), i < j
               PROVE  o2[p][j] # Hello /\ (o2[p][i][1] = o2[p][j][1] => o2[p][i][2] < o2[p][j][2])
    BY DEF Ascends
  <2>1. CASE j <= m[p]
    <3>1. i \in 1..m[p] /\ j \in 1..m[p] /\ o2[p][i] = o[p][i] /\ o2[p][j] = o[p][j]
      BY <1>3, <2>1
    <3> QED
      BY <3>1, <1>2 DEF Orders, Ascends
  <2>2. CASE ~(j <= m[p])
    <3>1. j > m[p]
      BY <1>3, <2>2
    <3>2. o2[p][j][1] = t /\ o2[p][j][2] = s[t] + (j - m[p]) /\ j - m[p] \in 1..n
      BY <1>3, <3>1
    <3>3. o2[p][j] # Hello
      BY <3>2, NetAssumption DEF Hello
    <3>4. CASE i <= m[p]
      BY <1>1, <1>4, <3>2, <3>3, <3>4
    <3>5. CASE ~(i <= m[p])
      <4>1. i > m[p]
        BY <1>3, <3>5
      <4>2. o2[p][i][2] = s[t] + (i - m[p]) /\ i - m[p] \in 1..n
        BY <1>3, <4>1
      <4>3. i - m[p] < j - m[p]
        BY <1>3, <3>2, <4>2
      <4> QED
        BY <1>1, <3>2, <3>3, <4>2, <4>3
    <3> QED
      BY <3>4, <3>5
  <2> QED
    BY <2>1, <2>2
<1>8. Agrees(o2)
  <2> SUFFICES ASSUME NEW p \in Peer, NEW q \in Peer,
                      NEW i \in 1..Len(o2[p]), NEW j \in 1..Len(o2[p]),
                      NEW k \in 1..Len(o2[q]), NEW l \in 1..Len(o2[q]),
                      o2[p][i] = o2[q][k], o2[p][j] = o2[q][l], i < j
               PROVE  k < l
    BY DEF Agrees
  \* Equal tokens are both old, or both new and at the same place among the new ones.
  <2>1. ASSUME NEW a \in 1..Len(o2[p]), NEW b \in 1..Len(o2[q]), o2[p][a] = o2[q][b]
        PROVE  \/ a \in 1..m[p] /\ b \in 1..m[q] /\ o[p][a] = o[q][b]
               \/ a > m[p] /\ b > m[q] /\ a - m[p] = b - m[q]
    <3>1. CASE a <= m[p] /\ b <= m[q]
      BY <1>4, <2>1, <3>1
    <3>2. CASE a <= m[p] /\ ~(b <= m[q])
      <4>1. b > m[q]
        BY <1>3, <3>2
      <4>2. o2[q][b][1] = t /\ o2[q][b][2] = s[t] + (b - m[q]) /\ b - m[q] \in 1..n
        BY <1>3, <4>1
      <4>3. o2[p][a][1] = t /\ o2[p][a][2] <= s[t]
        BY <1>4, <2>1, <3>2, <4>2
      <4> QED
        BY <1>1, <2>1, <4>2, <4>3
    <3>3. CASE ~(a <= m[p]) /\ b <= m[q]
      <4>1. a > m[p]
        BY <1>3, <3>3
      <4>2. o2[p][a][1] = t /\ o2[p][a][2] = s[t] + (a - m[p]) /\ a - m[p] \in 1..n
        BY <1>3, <4>1
      <4>3. o2[q][b][1] = t /\ o2[q][b][2] <= s[t]
        BY <1>4, <2>1, <3>3, <4>2
      <4> QED
        BY <1>1, <2>1, <4>2, <4>3
    <3>4. CASE ~(a <= m[p]) /\ ~(b <= m[q])
      <4>1. a > m[p] /\ b > m[q]
        BY <1>3, <3>4
      <4>2. /\ o2[p][a][2] = s[t] + (a - m[p]) /\ a - m[p] \in 1..n
            /\ o2[q][b][2] = s[t] + (b - m[q]) /\ b - m[q] \in 1..n
        BY <1>3, <4>1
      <4> DEFINE x == a - m[p]
                 y == b - m[q]
      <4>3. x \in Nat /\ y \in Nat /\ s[t] \in Nat
        BY ONLY <1>1, <4>2
      <4>4. s[t] + x = s[t] + y
        <5> HIDE DEF x, y
        <5>1. o2[p][a][2] = s[t] + x /\ o2[q][b][2] = s[t] + y
          BY <4>2 DEF x, y
        <5> QED
          BY <2>1, <5>1
      <4>5. x = y
        <5> HIDE DEF x, y
        <5> QED
          BY ONLY <4>3, <4>4
      <4> QED
        BY <4>1, <4>5
    <3> QED
      BY <3>1, <3>2, <3>3, <3>4
  <2>2. m[p] \in Nat /\ m[q] \in Nat
    BY <1>3
  <2>3. CASE j \in 1..m[p] /\ l \in 1..m[q] /\ o[p][j] = o[q][l]
    <3>1. i \in 1..m[p] /\ k \in 1..m[q] /\ o[p][i] = o[q][k]
      <4>1. ~(i > m[p])
        BY <2>2, <2>3
      <4> QED
        BY <2>1, <4>1
    <3> QED
      BY <2>3, <3>1, <1>2 DEF Orders, Agrees
  <2>4. CASE j > m[p] /\ l > m[q] /\ j - m[p] = l - m[q]
    <3>1. CASE i \in 1..m[p] /\ k \in 1..m[q]
      BY <2>2, <2>4, <3>1
    <3>2. CASE i > m[p] /\ k > m[q] /\ i - m[p] = k - m[q]
      BY <2>2, <2>4, <3>2
    <3> QED
      BY <2>1, <3>1, <3>2
  <2> QED
    BY <2>1, <2>3, <2>4
<1> QED
  BY <1>5, <1>6, <1>7, <1>8 DEF Orders

LEMMA OneOrderIs ==
    ASSUME Streams(Owed)
    PROVE  OneOrder <=> Orders(Owed, said)
BY DEF OneOrder, Orders, Foreign, Ascends, Agrees, Relay!InOrder, Relay!SameOrder, Relay!NoEcho,
       Relay!Hello, Hello
-----------------------------------------------------------------------------
(* What a send, the end of a send, a recv and a new broadcast do. *)

\* A stream that loses its first part of three to the second keeps its bytes.
LEMMA Splits ==
    ASSUME NEW s \in Seq(Token), NEW n \in 1..Len(s)
    PROVE  /\ SubSeq(s, 1, n) \in Seq(Token) /\ SubSeq(s, n + 1, Len(s)) \in Seq(Token)
           /\ Len(SubSeq(s, 1, n)) = n /\ Len(SubSeq(s, n + 1, Len(s))) = Len(s) - n
           /\ SubSeq(s, 1, n) \o SubSeq(s, n + 1, Len(s)) = s
<1> DEFINE a == SubSeq(s, 1, n)
           b == SubSeq(s, n + 1, Len(s))
<1>1. Len(s) \in Nat /\ n \in Nat /\ n <= Len(s)
  BY LenProperties
<1>2. a \in Seq(Token) /\ Len(a) = n /\ \A i \in 1..n : a[i] = s[i]
  OBVIOUS
<1>3. /\ b \in Seq(Token) /\ Len(b) = Len(s) - n
      /\ \A i \in 1..(Len(s) - n) : b[i] = s[n + i]
  OBVIOUS
<1> HIDE DEF a, b
<1>4. /\ a \o b \in Seq(Token) /\ Len(a \o b) = Len(a) + Len(b)
      /\ \A i \in 1..Len(a) : (a \o b)[i] = a[i]
      /\ \A i \in (Len(a) + 1)..(Len(a) + Len(b)) :
             i - Len(a) \in 1..Len(b) /\ (a \o b)[i] = b[i - Len(a)]
  BY <1>2, <1>3, ConcatFacts
<1>5. ASSUME NEW i \in 1..Len(s) PROVE (a \o b)[i] = s[i]
  <2>1. i \in Int
    BY <1>1
  <2>2. CASE i <= n
    <3>1. i \in 1..n
      BY <1>1, <2>2
    <3>2. (a \o b)[i] = a[i]
      BY <1>2, <1>4, <3>1
    <3> QED
      BY <1>2, <3>1, <3>2
  <2>3. CASE ~(i <= n)
    <3>1. i - n \in 1..(Len(s) - n) /\ n + (i - n) = i
      BY ONLY <2>1, <2>3, <1>1, i \in 1..Len(s)
    <3>2. i \in (Len(a) + 1)..(Len(a) + Len(b))
      BY <1>1, <1>2, <1>3, <2>3
    <3>3. (a \o b)[i] = b[i - n]
      BY <1>2, <1>4, <3>2
    <3>4. b[i - n] = s[n + (i - n)]
      BY <1>3, <3>1
    <3> QED
      BY <3>1, <3>3, <3>4
  <2> QED
    BY <2>2, <2>3
<1>6. a \o b = s
  <2>1. Len(a \o b) = Len(s)
    BY <1>1, <1>2, <1>3, <1>4
  <2> QED
    BY <1>4, <1>5, <2>1, SeqEqual
<1> QED
  BY <1>2, <1>3, <1>6 DEF a, b

\* A stream whose next token moves from the second part to the first.
LEMMA Shifted ==
    ASSUME NEW g \in Seq(Token), NEW d \in Seq(Token), d # <<>>
    PROVE  /\ Append(g, Head(d)) \o Tail(d) = g \o d
           /\ Len(Append(g, Head(d))) = Len(g) + 1 /\ Len(g) \in Nat
<1>1. /\ Head(d) \in Token /\ Tail(d) \in Seq(Token) /\ Head(d) = d[1]
      /\ Len(d) \in Nat /\ Len(d) > 0 /\ Len(Tail(d)) = Len(d) - 1
      /\ \A i \in 1..Len(Tail(d)) : Tail(d)[i] = d[i + 1]
  BY HeadTailProperties, LenProperties, EmptySeq
<1> DEFINE a == Append(g, Head(d))
           b == Tail(d)
<1>2. /\ a \in Seq(Token) /\ Len(a) = Len(g) + 1 /\ Len(g) \in Nat
      /\ a[Len(g) + 1] = d[1] /\ \A i \in 1..Len(g) : a[i] = g[i]
  BY <1>1, AppendProperties, LenProperties
<1>3. b \in Seq(Token) /\ Len(b) = Len(d) - 1 /\ \A i \in 1..Len(b) : b[i] = d[i + 1]
  BY <1>1
<1> HIDE DEF a, b
<1>4. /\ a \o b \in Seq(Token) /\ Len(a \o b) = Len(a) + Len(b)
      /\ \A i \in 1..Len(a) : (a \o b)[i] = a[i]
      /\ \A i \in (Len(a) + 1)..(Len(a) + Len(b)) :
             i - Len(a) \in 1..Len(b) /\ (a \o b)[i] = b[i - Len(a)]
  BY <1>2, <1>3, ConcatFacts
<1>5. /\ g \o d \in Seq(Token) /\ Len(g \o d) = Len(g) + Len(d)
      /\ \A i \in 1..Len(g) : (g \o d)[i] = g[i]
      /\ \A i \in (Len(g) + 1)..(Len(g) + Len(d)) :
             i - Len(g) \in 1..Len(d) /\ (g \o d)[i] = d[i - Len(g)]
  BY ConcatFacts
<1>6. Len(a \o b) = Len(g \o d)
  BY <1>1, <1>2, <1>3, <1>4, <1>5
<1>7. ASSUME NEW i \in 1..Len(a \o b) PROVE (a \o b)[i] = (g \o d)[i]
  <2>1. CASE i \in 1..Len(g)
    <3>1. i \in 1..Len(a)
      BY <1>2, <2>1
    <3> QED
      BY <1>2, <1>4, <1>5, <2>1, <3>1
  <2>2. CASE i = Len(g) + 1
    <3>1. i \in 1..Len(a) /\ i \in (Len(g) + 1)..(Len(g) + Len(d)) /\ i - Len(g) = 1
      BY <1>1, <1>2, <2>2
    <3> QED
      BY <1>2, <1>4, <1>5, <2>2, <3>1
  <2>3. CASE i > Len(g) + 1
    <3>1. /\ i \in (Len(a) + 1)..(Len(a) + Len(b)) /\ i \in (Len(g) + 1)..(Len(g) + Len(d))
          /\ (i - Len(a)) + 1 = i - Len(g)
      BY <1>1, <1>2, <1>3, <1>4, <2>3
    <3>2. (a \o b)[i] = b[i - Len(a)] /\ i - Len(a) \in 1..Len(b)
      BY <1>4, <3>1
    <3>3. b[i - Len(a)] = d[(i - Len(a)) + 1]
      BY <1>3, <3>2
    <3> QED
      BY <1>5, <3>1, <3>2, <3>3
  <2> QED
    BY <1>2, <1>4, <1>6, <2>1, <2>2, <2>3, LenProperties
<1>8. a \o b = g \o d
  BY <1>4, <1>5, <1>6, <1>7, SeqEqual
<1> QED
  BY <1>2, <1>8 DEF a, b

LEMMA AtFirst ==
    ASSUME Shape, todo # <<>>
    PROVE  /\ Head(todo) \in Peer /\ Head(todo) \in Sessions /\ Head(todo) \in ToSet(todo)
           /\ Head(todo) \notin ToSet(Tail(todo))
           /\ Tail(todo) \in Seq(Peer) /\ NoDup(Tail(todo))
           /\ ToSet(todo) = {Head(todo)} \union ToSet(Tail(todo))
           /\ talker # NoPeer /\ msg # <<>> /\ rest # <<>>
           /\ rest \in Seq(Token) /\ msg \in Seq(Token)
           /\ \A p \in Peer : p = Head(todo) =>
                  peer[p] # "idle" /\ p \notin backlog /\ p # newcomer
<1>1. todo \in Seq(Peer) /\ NoDup(todo) /\ msg # <<>>
  BY DEF Shape, Once
<1>2. ToSet(todo) \subseteq Sessions /\ talker # NoPeer /\ rest # <<>> /\ {msg, rest} \subseteq Seq(Token)
  BY DEF Shape, TypeOK
<1>3. /\ Head(todo) \in Peer /\ Tail(todo) \in Seq(Peer)
      /\ ToSet(todo) = {Head(todo)} \union ToSet(Tail(todo))
      /\ NoDup(Tail(todo)) /\ Head(todo) \notin ToSet(Tail(todo))
  BY <1>1, ToSetOfTail
<1>4. ASSUME NEW p \in Peer, p \in Sessions PROVE peer[p] # "idle" /\ p \notin backlog /\ p # newcomer
  <2>1. p # NoPeer
    BY NetAssumption
  <2>2. /\ newcomer # NoPeer => newcomer \notin Sessions
        /\ p \in backlog => p \notin Sessions
        /\ peer[p] = "idle" => p \notin Sessions
    BY DEF Shape, Places
  <2> QED
    BY <1>4, <2>1, <2>2
<1> QED
  BY <1>1, <1>2, <1>3, <1>4, Zenon

LEMMA SendFacts ==
    ASSUME Shape, todo # <<>>, NEW q, q = Head(todo), Space(q) > 0, NEW n, n = SendCount(q, Len(rest))
    PROVE  /\ q \in Peer /\ n \in 1..Len(rest) /\ rest \in Seq(Token) /\ Len(rest) \in Nat
           /\ down[q] \in Seq(Token) /\ Len(down[q]) + n <= SndBuf /\ Len(down[q]) \in Nat
<1>1. q \in Peer /\ rest \in Seq(Token) /\ rest # <<>>
  BY AtFirst
<1>2. Len(rest) \in Nat /\ Len(rest) > 0
  BY <1>1, LenProperties, EmptySeq
<1>3. down[q] \in Seq(Token) /\ Len(down[q]) \in Nat /\ SndBuf \in Nat
  BY <1>1, NetAssumption, LenProperties DEF Shape, TypeOK, NetTypeOK
<1>4. Space(q) = SndBuf - Len(down[q]) /\ Space(q) \in Nat
  BY <1>3 DEF Space
<1>5. n = IF Space(q) < Len(rest) THEN Space(q) ELSE Len(rest)
  BY DEF SendCount
<1> DEFINE a == Space(q)
           b == Len(rest)
           c == Len(down[q])
<1>6. a \in Nat /\ a > 0 /\ b \in Nat /\ b > 0 /\ c \in Nat /\ SndBuf \in Nat /\ a = SndBuf - c
  BY <1>2, <1>3, <1>4
<1>7. n = IF a < b THEN a ELSE b
  BY <1>5
<1>8. n \in 1..b /\ c + n <= SndBuf
  <2> HIDE DEF a, b, c
  <2> QED
    BY ONLY <1>6, <1>7
<1> QED
  BY <1>1, <1>2, <1>3, <1>8

LEMMA RecvFacts ==
    ASSUME Shape, NEW p \in Peer, Readable(p)
    PROVE  /\ RecvCount(p) \in Nat \ {0} /\ rcvd[p] \in Nat /\ said[p] \in Nat /\ said[p] <= rcvd[p]
           /\ rcvd[p] + RecvCount(p) <= sent[p] /\ sent[p] \in 0..MaxBytes
           /\ p \in Talker
<1>1. /\ rcvd[p] \in Nat /\ sent[p] \in 0..MaxBytes /\ MaxBytes \in Nat /\ RecvBuf \in Nat \ {0}
      /\ said[p] \in Nat /\ said[p] <= rcvd[p]
  BY NetAssumption DEF Shape, TypeOK, NetTypeOK
<1>2. p \in Talker
  BY <1>1 DEF Shape, Talks, Readable
<1> QED
  BY <1>1, <1>2 DEF Readable, RecvCount

\* rcvd grows by what a recv returns.
LEMMA RecvTypes ==
    ASSUME Shape, NEW p \in Peer, Readable(p), rcvd' = [rcvd EXCEPT ![p] = @ + RecvCount(p)]
    PROVE  /\ rcvd' \in [Peer -> 0..MaxBytes] /\ rcvd'[p] = rcvd[p] + RecvCount(p)
           /\ \A q \in Peer : rcvd[q] <= rcvd'[q] /\ rcvd'[q] <= sent[q] /\ rcvd[q] \in Nat /\ said[q] \in Nat
                              /\ said[q] <= rcvd'[q] /\ rcvd'[q] \in Nat
<1>1. /\ rcvd \in [Peer -> 0..MaxBytes] /\ sent \in [Peer -> 0..MaxBytes] /\ MaxBytes \in Nat
      /\ said \in [Peer -> 0..MaxBytes]
      /\ \A q \in Peer : rcvd[q] <= sent[q] /\ said[q] <= rcvd[q]
  BY NetAssumption DEF Shape, TypeOK, NetTypeOK
<1>2. RecvCount(p) \in Nat /\ rcvd[p] + RecvCount(p) <= sent[p]
  BY RecvFacts
<1> HIDE DEF RecvCount
<1>3. ASSUME NEW q \in Peer
      PROVE  rcvd'[q] = IF q = p THEN rcvd[p] + RecvCount(p) ELSE rcvd[q]
  BY <1>1
<1> QED
  BY <1>1, <1>2, <1>3

LEMMA ChunkFacts ==
    ASSUME NEW t \in Peer, NEW k \in Nat, NEW n \in Nat
    PROVE  Chunk(t, k, n) \in Seq(Token) /\ Len(Chunk(t, k, n)) = n /\ (n > 0 => Chunk(t, k, n) # <<>>)
<1>1. \A i \in 1..n : <<t, k + i>> \in Token
  BY DEF Token
<1>2. Chunk(t, k, n) \in Seq(Token) /\ Len(Chunk(t, k, n)) = n
  BY <1>1 DEF Chunk
<1> QED
  BY <1>2, EmptySeq

LEMMA BroadcastFacts ==
    ASSUME Shape, NEW t \in Peer, NEW upto \in 0..MaxBytes, said[t] < upto, BroadcastMsg(t, upto)
    PROVE  /\ msg' \in Seq(Token) /\ rest' \in Seq(Token) /\ msg' # <<>> /\ (todo' # <<>> => rest' = msg')
           /\ msg' = Chunk(t, said[t], upto - said[t]) /\ upto - said[t] \in 1..MaxBytes
           /\ todo' \in Seq(Peer) /\ NoDup(todo') /\ ToSet(todo') = Sessions \ {t}
           /\ said' \in [Peer -> 0..MaxBytes] /\ talker' = t /\ lost' = lost
           /\ \A p \in Peer : said[p] \in Nat /\ said'[p] = IF p = t THEN upto ELSE said[p]
<1>1. said \in [Peer -> 0..MaxBytes] /\ MaxBytes \in Nat
  BY NetAssumption DEF Shape, TypeOK
<1>2. /\ m_clients \in Seq(Peer) /\ NoDup(m_clients)
  BY DEF Shape, Once
<1>3. upto - said[t] \in Nat /\ upto - said[t] > 0 /\ upto - said[t] <= MaxBytes /\ said[t] \in Nat
  BY <1>1
<1>4. todo' \in Seq(Peer) /\ NoDup(todo') /\ ToSet(todo') = Sessions \ {t}
  BY <1>2, WithoutFacts DEF BroadcastMsg, Sessions
<1>5. msg' = Chunk(t, said[t], upto - said[t]) /\ msg' \in Seq(Token) /\ msg' # <<>>
  BY <1>3, ChunkFacts DEF BroadcastMsg
<1>6. rest' = IF todo' = <<>> THEN <<>> ELSE msg'
  BY DEF BroadcastMsg
<1>7. rest' \in Seq(Token)
  BY <1>5, <1>6, EmptySeq
<1>8. said' = [said EXCEPT ![t] = upto] /\ talker' = t /\ lost' = lost
  BY DEF BroadcastMsg
<1> QED
  BY <1>1, <1>3, <1>4, <1>5, <1>6, <1>7, <1>8

\* Nobody joins or leaves m_clients.
LEMMA SameSessions ==
    ASSUME Shape, UNCHANGED m_clients
    PROVE  Sessions' = Sessions /\ Len(m_clients') = Cardinality(Sessions') /\ Sessions \subseteq Peer
BY DEF Shape, TypeOK, Sessions

LEMMA Sized ==
    ASSUME m_clients \in Seq(Peer), NoDup(m_clients)
    PROVE  Sessions \subseteq Peer /\ Len(m_clients) = Cardinality(Sessions) /\ IsFiniteSet(Sessions)
<1>1. IsFiniteSet(Sessions) /\ Len(m_clients) = Cardinality(Sessions)
  BY Counted DEF Sessions
<1>2. \A i \in DOMAIN m_clients : m_clients[i] \in Peer
  BY ElementOfSeq, LenProperties
<1> QED
  BY <1>1, <1>2 DEF Sessions, ToSet

\* The next session's turn; a full socket may have cost the first one bytes.
LEMMA NextCasts ==
    ASSUME Shape, todo # <<>>, NextSession, UNCHANGED <<said, rcvd, talker, msg, m_clients>>, lost' \subseteq Peer
    PROVE  CastTypes'
<1>1. todo' = Tail(todo) /\ rest' = IF todo' = <<>> THEN <<>> ELSE msg
  BY DEF NextSession
<1>2. /\ ToSet(todo') \subseteq ToSet(todo) /\ talker # NoPeer /\ msg # <<>>
      /\ rest \in Seq(Token) /\ msg \in Seq(Token)
  BY <1>1, AtFirst
<1>3. ToSet(todo) \subseteq Sessions \ {talker}
  BY DEF Shape, TypeOK
<1>4. rest' \in Seq(Token) /\ (todo' # <<>> => rest' # <<>>)
  BY <1>1, <1>2, EmptySeq
<1>5. Sessions' = Sessions
  BY DEF Sessions
<1>6. /\ said' \in [Peer -> 0..MaxBytes] /\ \A p \in Peer : said'[p] <= rcvd'[p]
      /\ talker' \in Peer \union {NoPeer}
  BY DEF Shape, TypeOK
<1> HIDE DEF Shape
<1> QED
  BY <1>2, <1>3, <1>4, <1>5, <1>6 DEF CastTypes

LEMMA BroadcastCasts ==
    ASSUME Shape, NEW t \in Peer, NEW upto \in 0..MaxBytes, said[t] < upto, BroadcastMsg(t, upto),
           UNCHANGED m_clients, \A q \in Peer : said[q] <= rcvd'[q], upto <= rcvd'[t]
    PROVE  CastTypes'
<1>1. /\ msg' \in Seq(Token) /\ rest' \in Seq(Token) /\ msg' # <<>> /\ (todo' # <<>> => rest' = msg')
      /\ ToSet(todo') = Sessions \ {t} /\ said' \in [Peer -> 0..MaxBytes] /\ talker' = t /\ lost' = lost
      /\ \A p \in Peer : said'[p] = IF p = t THEN upto ELSE said[p]
  BY BroadcastFacts
<1>2. Sessions' = Sessions /\ t # NoPeer /\ lost \subseteq Peer
  BY NetAssumption DEF Sessions, Shape, TypeOK
<1> HIDE DEF Shape
<1> QED
  BY <1>1, <1>2 DEF CastTypes

LEMMA WatchedFacts == ASSUME Shape PROVE ToSet(Watched) \subseteq Sessions
<1> DEFINE k == IF Len(m_clients) < FdCap THEN Len(m_clients) ELSE FdCap
<1>1. m_clients \in Seq(Peer) /\ FdCap \in Nat /\ Len(m_clients) \in Nat /\ DOMAIN m_clients = 1..Len(m_clients)
  BY DirectAssumption, LenProperties DEF Shape, Once
<1>2. k \in 0..Len(m_clients)
  BY <1>1
<1>3. Watched = SubSeq(m_clients, 1, k)
  BY DEF Watched
<1> HIDE DEF k
<1>4. Len(Watched) = k /\ Watched \in Seq(Peer) /\ \A i \in 1..k : Watched[i] = m_clients[i]
  BY <1>1, <1>2, <1>3
<1>5. DOMAIN Watched = 1..k
  BY <1>4, LenProperties
<1> QED
  BY <1>1, <1>2, <1>4, <1>5 DEF ToSet, Sessions

LEMMA AddFacts ==
    ASSUME Shape, NEW p \in Peer, AddClient(p)
    PROVE  /\ m_clients' \in Seq(Peer) /\ NoDup(m_clients')
           /\ Sessions' = Sessions \union {p} /\ Sessions' \subseteq Peer
           /\ Len(m_clients') = Cardinality(Sessions')
<1>1. m_clients' \in SetToSeqs(Sessions \union {p})
  BY DEF AddClient
<1>2. Sessions \subseteq Peer /\ IsFiniteSet(Sessions)
  BY Sized DEF Shape, Once
<1>3. IsFiniteSet(Sessions \union {p}) /\ Sessions \union {p} \subseteq Peer
  BY <1>2, FS_AddElement
<1>4. m_clients' \in Seq(Peer) /\ ToSet(m_clients') = Sessions \union {p} /\ NoDup(m_clients')
  BY <1>1, <1>3, OrderFacts
<1>5. Len(m_clients') = Cardinality(ToSet(m_clients'))
  BY <1>4, Counted
<1> QED
  BY <1>3, <1>4, <1>5 DEF Sessions

LEMMA RemoveFacts ==
    ASSUME Shape, RemoveClosedClients
    PROVE  /\ m_clients' \in Seq(Peer) /\ NoDup(m_clients')
           /\ Sessions' = Sessions \ m_toClose /\ Sessions' \subseteq Sessions /\ Sessions' \subseteq Peer
           /\ Len(m_clients') = Cardinality(Sessions')
<1>1. m_clients \in Seq(Peer) /\ NoDup(m_clients) /\ m_clients' = Without(m_clients, m_toClose)
  BY DEF Shape, Once, RemoveClosedClients
<1>2. m_clients' \in Seq(Peer) /\ NoDup(m_clients') /\ ToSet(m_clients') = ToSet(m_clients) \ m_toClose
  BY <1>1, WithoutFacts
<1>3. Len(m_clients') = Cardinality(ToSet(m_clients'))
  BY <1>2, Counted
<1>4. Sessions \subseteq Peer
  BY DEF Shape, TypeOK
<1> QED
  BY <1>2, <1>3, <1>4 DEF Sessions

LEMMA PushFacts ==
    ASSUME Shape, PushBack
    PROVE  /\ m_clients' \in Seq(Peer) /\ NoDup(m_clients')
           /\ Sessions' = Sessions \union {newcomer} /\ Sessions' \subseteq Peer
           /\ Len(m_clients') = Cardinality(Sessions')
           /\ newcomer # NoPeer /\ newcomer \in Peer /\ newcomer \notin Sessions /\ newcomer \notin backlog
<1>1. newcomer # NoPeer /\ newcomer \in Peer /\ newcomer \notin Sessions /\ newcomer \notin backlog
  BY DEF PushBack, Shape, Places, TypeOK
<1>2. m_clients \in Seq(Peer) /\ NoDup(m_clients) /\ m_clients' = Append(m_clients, newcomer)
  BY DEF Shape, Once, PushBack
<1>3. /\ m_clients' \in Seq(Peer) /\ NoDup(m_clients')
      /\ ToSet(m_clients') = ToSet(m_clients) \union {newcomer}
  BY <1>1, <1>2, ToSetOfAppend, AppendProperties DEF Sessions
<1>4. Len(m_clients') = Cardinality(ToSet(m_clients'))
  BY <1>3, Counted
<1>5. Sessions \subseteq Peer
  BY DEF Shape, TypeOK
<1> QED
  BY <1>1, <1>3, <1>4, <1>5 DEF Sessions

LEMMA StopFacts ==
    ASSUME Shape, owner \in {"drain", "joinRx"}
    PROVE  /\ stopping # <<>> /\ Head(stopping) \in Peer /\ Head(stopping) \notin m_active
           /\ Tail(stopping) \in Seq(Peer) /\ ToSet(Tail(stopping)) \subseteq ToSet(stopping)
<1>1. stopping \in Seq(Peer) /\ stopping # <<>> /\ Head(stopping) \notin m_active
  BY DEF Shape, Once, AtHead
<1> QED
  BY <1>1, ToSetOfTail

-----------------------------------------------------------------------------
(* The shape of the state is kept, step by step. *)

LEMMA SendSomeShape ==
    ASSUME Shape, SendSome
    PROVE  Shape'
<1>1. TypeOK'
  <2>1. NetTypeOK'
    <3> DEFINE q == Head(todo)
               n == SendCount(q, Len(rest))
    <3>1. /\ q \in Peer /\ n \in 1..Len(rest) /\ rest \in Seq(Token)
          /\ down[q] \in Seq(Token) /\ Len(down[q]) + n <= SndBuf
      BY SendFacts DEF SendSome
    <3>2. down' = [down EXCEPT ![q] = @ \o SubSeq(rest, 1, n)] /\ UNCHANGED <<peer, sent, rcvd, got, backlog>>
      BY DEF SendSome
    <3> HIDE DEF q, n
    <3>3. SubSeq(rest, 1, n) \in Seq(Token) /\ Len(SubSeq(rest, 1, n)) = n
      BY <3>1, Splits
    <3>4. down[q] \o SubSeq(rest, 1, n) \in Seq(Token) /\ Len(down[q] \o SubSeq(rest, 1, n)) = Len(down[q]) + n
      BY <3>1, <3>3, ConcatFacts
    <3>5. down \in [Peer -> Seq(Token)] /\ \A p \in Peer : Len(down[p]) <= SndBuf
      BY DEF Shape, TypeOK, NetTypeOK
    <3>6. down' \in [Peer -> Seq(Token)] /\ \A p \in Peer : Len(down'[p]) <= SndBuf
      BY <3>1, <3>2, <3>4, <3>5
    <3> QED
      BY <3>2, <3>6 DEF Shape, TypeOK, NetTypeOK
  <2>2. CastTypes'
    <3>1. \/ todo' = todo /\ rest' = SubSeq(rest, SendCount(Head(todo), Len(rest)) + 1, Len(rest))
             /\ SendCount(Head(todo), Len(rest)) < Len(rest)
          \/ NextSession
      BY DEF SendSome
    <3>2. /\ UNCHANGED <<said, rcvd, talker, msg, lost, m_clients>>
          /\ todo # <<>> /\ Space(Head(todo)) > 0
      BY DEF SendSome
    <3>3. CASE /\ todo' = todo /\ rest' = SubSeq(rest, SendCount(Head(todo), Len(rest)) + 1, Len(rest))
               /\ SendCount(Head(todo), Len(rest)) < Len(rest)
      <4> DEFINE n == SendCount(Head(todo), Len(rest))
      <4>1. n \in 1..Len(rest) /\ rest \in Seq(Token) /\ Len(rest) \in Nat
        BY <3>2, SendFacts
      <4> HIDE DEF n
      <4>2. rest' = SubSeq(rest, n + 1, Len(rest)) /\ n < Len(rest)
        BY <3>3 DEF n
      <4>3. rest' \in Seq(Token) /\ Len(rest') = Len(rest) - n
        BY <4>1, <4>2, Splits
      <4>4. rest' # <<>>
        <5>1. Len(rest') \in Nat /\ Len(rest') # 0
          BY <4>1, <4>2, <4>3
        <5> QED
          BY <4>3, <5>1, EmptySeq
      <4> QED
        BY <3>2, <3>3, <4>3, <4>4 DEF Shape, TypeOK, Sessions, CastTypes
    <3>4. CASE NextSession
      <4>1. lost' \subseteq Peer
        BY <3>2 DEF Shape, TypeOK
      <4> QED
        BY <3>2, <3>4, <4>1, NextCasts
    <3> QED
      BY <3>1, <3>3, <3>4
  <2>3. ThreadTypes'
    BY DirectAssumption DEF Shape, TypeOK, Sessions, OwnerLocked, Roles, Places, Once, AtHead,
       netVars, srvVars, castVars, selectVars, threadVars, SendSome, NextSession, SendCount, Space, ThreadTypes
  <2> QED
    BY <2>1, <2>2, <2>3 DEF TypeOK, CastTypes, ThreadTypes
<1>2. Roles'
  BY DirectAssumption, NetAssumption DEF Shape, TypeOK, Roles, AtHead,
     netVars, srvVars, castVars, selectVars, threadVars, SendSome, NextSession, SendCount, Space
<1>3. Places'
  <2>1. /\ UNCHANGED <<peer, backlog, newcomer, accepter, m_clients, rx, got>>
        /\ down' = [down EXCEPT ![Head(todo)] = @ \o SubSeq(rest, 1, SendCount(Head(todo), Len(rest)))]
        /\ todo # <<>>
    BY DEF SendSome, threadVars
  <2>2. \A p \in Peer : p = Head(todo) => peer[p] # "idle" /\ p \notin backlog /\ p # newcomer
    BY <2>1, AtFirst
  <2>3. \A p \in Peer : p # Head(todo) => down'[p] = down[p]
    BY <2>1 DEF Shape, TypeOK, NetTypeOK
  <2>4. Places
    BY DEF Shape
  <2> HIDE DEF Shape
  <2> QED
    BY <2>1, <2>2, <2>3, <2>4 DEF Places, Sessions
<1>4. Talks'
  BY DirectAssumption, NetAssumption DEF Shape, TypeOK, NetTypeOK, Roles, Places, Talks,
     netVars, srvVars, castVars, selectVars, threadVars, SendSome, NextSession, SendCount, Space
<1>5. Once'
  <2>1. todo' = todo \/ todo' = Tail(todo)
    BY DEF SendSome, NextSession
  <2>2. UNCHANGED <<m_clients, stopping, msg>> /\ todo # <<>>
    BY DEF SendSome, threadVars
  <2> QED
    BY <2>1, <2>2, AtFirst DEF Shape, Once
<1>6. AtHead'
  BY DirectAssumption, NetAssumption DEF Shape, TypeOK, Roles, Places, Once, AtHead,
     netVars, srvVars, castVars, selectVars, threadVars, SendSome, NextSession, SendCount, Space
<1> QED
  BY <1>1, <1>2, <1>3, <1>4, <1>5, <1>6 DEF Shape

LEMMA SendGivesUpShape ==
    ASSUME Shape, SendGivesUp
    PROVE  Shape'
<1>1. TypeOK'
  <2>1. NetTypeOK'
    BY NetAssumption DEF Shape, TypeOK, NetTypeOK, Roles, Places,
       netVars, srvVars, castVars, selectVars, threadVars, SendGivesUp, NextSession
  <2>2. CastTypes'
    <3>1. /\ UNCHANGED <<said, rcvd, talker, msg, m_clients>> /\ todo # <<>> /\ NextSession
          /\ lost' = IF Failed(Head(todo)) THEN lost ELSE lost \union {Head(todo)}
      BY DEF SendGivesUp, netVars
    <3>2. Head(todo) \in Peer /\ lost \subseteq Peer
      BY <3>1, AtFirst DEF Shape, TypeOK
    <3>3. lost' \subseteq Peer
      BY <3>1, <3>2
    <3> QED
      BY <3>1, <3>3, NextCasts
  <2>3. ThreadTypes'
    BY DirectAssumption DEF Shape, TypeOK, Sessions, OwnerLocked, Roles, Places, Once, AtHead,
       netVars, srvVars, castVars, selectVars, threadVars, SendGivesUp, NextSession, ThreadTypes
  <2> QED
    BY <2>1, <2>2, <2>3 DEF TypeOK, CastTypes, ThreadTypes
<1>2. Roles'
  BY DirectAssumption, NetAssumption DEF Shape, TypeOK, Roles, AtHead,
     netVars, srvVars, castVars, selectVars, threadVars, SendGivesUp, NextSession
<1>3. Places'
  BY DirectAssumption, NetAssumption DEF Shape, TypeOK, NetTypeOK, Sessions, Roles, Places,
     netVars, srvVars, castVars, selectVars, threadVars, SendGivesUp, NextSession
<1>4. Talks'
  BY DirectAssumption, NetAssumption DEF Shape, TypeOK, NetTypeOK, Roles, Places, Talks,
     netVars, srvVars, castVars, selectVars, threadVars, SendGivesUp, NextSession
<1>5. Once'
  <2>1. UNCHANGED <<m_clients, stopping, msg>> /\ todo # <<>> /\ todo' = Tail(todo)
    BY DEF SendGivesUp, NextSession, threadVars
  <2> QED
    BY <2>1, AtFirst DEF Shape, Once
<1>6. AtHead'
  BY DirectAssumption, NetAssumption DEF Shape, TypeOK, Roles, Places, Once, AtHead,
     netVars, srvVars, castVars, selectVars, threadVars, SendGivesUp, NextSession
<1> QED
  BY <1>1, <1>2, <1>3, <1>4, <1>5, <1>6 DEF Shape

LEMMA BroadcastDoneShape ==
    ASSUME Shape, BroadcastDone
    PROVE  Shape'
<1>1. TypeOK'
  <2>1. NetTypeOK'
    BY NetAssumption DEF Shape, TypeOK, NetTypeOK, Roles, Places,
       netVars, srvVars, castVars, selectVars, threadVars, BroadcastDone
  <2>2. CastTypes'
    <3>1. <<>> \in Seq(Token)
      BY EmptySeq
    <3>2. /\ UNCHANGED <<said, rcvd, m_clients, rest, todo, lost>> /\ todo = <<>> /\ talker' = NoPeer /\ msg' = <<>>
      BY DEF BroadcastDone, netVars
    <3>3. Sessions \subseteq Peer
      BY DEF Shape, TypeOK
    <3>4. ToSet(todo) = {}
      BY <3>2, ToSetOfNone
    <3>5. Sessions' = Sessions
      BY <3>2 DEF Sessions
    <3> HIDE DEF Shape
    <3>6. {msg', rest'} \subseteq Seq(Token) /\ lost' \subseteq Peer /\ said' \in [Peer -> 0..MaxBytes]
          /\ \A p \in Peer : said'[p] <= rcvd'[p]
      BY <3>1, <3>2 DEF Shape, TypeOK
    <3> QED
      BY <3>2, <3>4, <3>5, <3>6 DEF CastTypes
  <2>3. ThreadTypes'
    BY DirectAssumption DEF Shape, TypeOK, Sessions, OwnerLocked, Roles, Places, Once, AtHead,
       netVars, srvVars, castVars, selectVars, threadVars, BroadcastDone, ThreadTypes
  <2> QED
    BY <2>1, <2>2, <2>3 DEF TypeOK, CastTypes, ThreadTypes
<1>2. Roles'
  BY DirectAssumption, NetAssumption DEF Shape, TypeOK, Roles, AtHead,
     netVars, srvVars, castVars, selectVars, threadVars, BroadcastDone
<1>3. Places'
  BY DirectAssumption, NetAssumption DEF Shape, TypeOK, NetTypeOK, Sessions, Roles, Places,
     netVars, srvVars, castVars, selectVars, threadVars, BroadcastDone
<1>4. Talks'
  BY DirectAssumption, NetAssumption DEF Shape, TypeOK, NetTypeOK, Roles, Places, Talks,
     netVars, srvVars, castVars, selectVars, threadVars, BroadcastDone
<1>5. Once'
  BY DirectAssumption, NetAssumption DEF Shape, TypeOK, Roles, Places, Once,
     netVars, srvVars, castVars, selectVars, threadVars, BroadcastDone
<1>6. AtHead'
  BY DirectAssumption, NetAssumption DEF Shape, TypeOK, Roles, Places, Once, AtHead,
     netVars, srvVars, castVars, selectVars, threadVars, BroadcastDone
<1> QED
  BY <1>1, <1>2, <1>3, <1>4, <1>5, <1>6 DEF Shape

LEMMA SelectShape ==
    ASSUME Shape, Select
    PROVE  Shape'
<1>1. TypeOK'
  <2>1. NetTypeOK'
    BY NetAssumption DEF Shape, TypeOK, NetTypeOK, Roles, Places,
       netVars, srvVars, castVars, selectVars, threadVars, Select, Reported, Watched
  <2>2. CastTypes'
    BY NetAssumption DEF Shape, TypeOK, NetTypeOK, Sessions, Roles, Places, Talks, Once,
       netVars, srvVars, castVars, selectVars, threadVars, Select, Reported, Watched, CastTypes
  <2>3. ThreadTypes'
    <3>1. UNCHANGED <<kind, m_clients, castVars, m_toClose, threadVars>> /\ readSet' = Reported
          /\ loop' \in {"accept", "clients"}
      BY DEF Select
    <3>2. Reported \subseteq Sessions
      BY WatchedFacts DEF Reported
    <3>3. Sessions' = Sessions
      BY <3>1 DEF Sessions
    <3> QED
      BY <3>1, <3>2, <3>3 DEF Shape, TypeOK, ThreadTypes, OwnerLocked, castVars, threadVars
  <2> QED
    BY <2>1, <2>2, <2>3 DEF TypeOK, CastTypes, ThreadTypes
<1>2. Roles'
  BY DirectAssumption, NetAssumption DEF Shape, TypeOK, Roles, AtHead,
     netVars, srvVars, castVars, selectVars, threadVars, Select, Reported, Watched
<1>3. Places'
  BY DirectAssumption, NetAssumption DEF Shape, TypeOK, NetTypeOK, Sessions, Roles, Places,
     netVars, srvVars, castVars, selectVars, threadVars, Select, Reported, Watched
<1>4. Talks'
  BY DirectAssumption, NetAssumption DEF Shape, TypeOK, NetTypeOK, Roles, Places, Talks,
     netVars, srvVars, castVars, selectVars, threadVars, Select, Reported, Watched
<1>5. Once'
  BY DirectAssumption, NetAssumption DEF Shape, TypeOK, Roles, Places, Once,
     netVars, srvVars, castVars, selectVars, threadVars, Select, Reported, Watched
<1>6. AtHead'
  BY DirectAssumption, NetAssumption DEF Shape, TypeOK, Roles, Places, Once, AtHead,
     netVars, srvVars, castVars, selectVars, threadVars, Select, Reported, Watched
<1> QED
  BY <1>1, <1>2, <1>3, <1>4, <1>5, <1>6 DEF Shape

LEMMA SelectFailsShape ==
    ASSUME Shape, SelectFails
    PROVE  Shape'
<1>1. TypeOK'
  <2>1. NetTypeOK'
    BY NetAssumption DEF Shape, TypeOK, NetTypeOK, Roles, Places,
       netVars, srvVars, castVars, selectVars, threadVars, SelectFails
  <2>2. CastTypes'
    <3>1. talker = NoPeer /\ todo = <<>>
      BY DirectAssumption DEF SelectFails, Shape, TypeOK, Roles
    <3>2. UNCHANGED <<said, rcvd, talker, msg, todo, rest, lost>>
      BY DEF SelectFails, castVars
    <3>3. ToSet(todo') = {}
      BY <3>1, <3>2, ToSetOfNone
    <3> QED
      BY <3>1, <3>2, <3>3 DEF Shape, TypeOK, CastTypes
  <2>3. ThreadTypes'
    <3>1. kind = "select" /\ readSet = {} /\ m_toClose = {} /\ stopping = <<>> /\ owner = "run"
      BY DirectAssumption DEF SelectFails, Shape, TypeOK, Roles
    <3>2. UNCHANGED <<kind, talker, readSet, m_toClose, threadVars>> /\ m_clients' = <<>> /\ loop' = "exited"
      BY DEF SelectFails, castVars
    <3>3. Sessions' = {} /\ ToSet(stopping') = {}
      BY <3>1, <3>2, ToSetOfNone DEF Sessions, threadVars
    <3>4. Len(m_clients') = Cardinality(Sessions')
      BY <3>2, <3>3, FS_EmptySet
    <3> QED
      BY <3>1, <3>2, <3>3, <3>4 DEF Shape, TypeOK, ThreadTypes, OwnerLocked, threadVars
  <2> QED
    BY <2>1, <2>2, <2>3 DEF TypeOK, CastTypes, ThreadTypes
<1>2. Roles'
  BY DirectAssumption, NetAssumption DEF Shape, TypeOK, Roles, AtHead,
     netVars, srvVars, castVars, selectVars, threadVars, SelectFails
<1>3. Places'
  BY DirectAssumption, NetAssumption DEF Shape, TypeOK, NetTypeOK, Sessions, Roles, Places,
     netVars, srvVars, castVars, selectVars, threadVars, SelectFails
<1>4. Talks'
  BY DirectAssumption, NetAssumption DEF Shape, TypeOK, NetTypeOK, Roles, Places, Talks,
     netVars, srvVars, castVars, selectVars, threadVars, SelectFails
<1>5. Once'
  BY DirectAssumption, NetAssumption DEF Shape, TypeOK, Roles, Places, Once,
     netVars, srvVars, castVars, selectVars, threadVars, SelectFails
<1>6. AtHead'
  BY DirectAssumption, NetAssumption DEF Shape, TypeOK, Roles, Places, Once, AtHead,
     netVars, srvVars, castVars, selectVars, threadVars, SelectFails
<1> QED
  BY <1>1, <1>2, <1>3, <1>4, <1>5, <1>6 DEF Shape

LEMMA AddClientShape ==
    ASSUME Shape, NEW p \in Peer, AddClient(p)
    PROVE  Shape'
<1>1. TypeOK'
  <2>1. NetTypeOK'
    <3>1. /\ UNCHANGED <<peer, sent, rcvd, got>> /\ backlog' = backlog \ {p} /\ p \in backlog
          /\ down' = [down EXCEPT ![p] = IF Failed(p) THEN @ ELSE Append(@, Hello)]
      BY DEF AddClient
    <3>2. down[p] = <<>> /\ down \in [Peer -> Seq(Token)] /\ \A q \in Peer : Len(down[q]) <= SndBuf
      BY <3>1 DEF Shape, TypeOK, NetTypeOK, Places
    <3>3. Append(<<>>, Hello) \in Seq(Token) /\ Len(Append(<<>>, Hello)) = 1 /\ 1 <= SndBuf
      BY NetAssumption DEF Hello, Token
    <3>4. down' \in [Peer -> Seq(Token)] /\ \A q \in Peer : Len(down'[q]) <= SndBuf
      BY <3>1, <3>2, <3>3
    <3> QED
      BY <3>1, <3>4 DEF Shape, TypeOK, NetTypeOK
  <2>2. CastTypes'
    <3>1. Sessions' = Sessions \union {p}
      BY AddFacts
    <3>2. talker = NoPeer /\ UNCHANGED <<said, rcvd, talker, msg, todo, rest, lost>>
      BY DirectAssumption DEF AddClient, castVars, Shape, Roles, TypeOK
    <3>3. p # talker
      BY <3>2, NetAssumption
    <3> QED
      BY <3>1, <3>2, <3>3 DEF Shape, TypeOK, CastTypes
  <2>3. ThreadTypes'
    <3>1. Sessions' = Sessions \union {p} /\ Sessions' \subseteq Peer /\ Len(m_clients') = Cardinality(Sessions')
      BY AddFacts
    <3>2. UNCHANGED <<kind, talker, readSet, m_toClose, loop, threadVars>>
      BY DEF AddClient, castVars, selectVars
    <3> QED
      BY <3>1, <3>2 DEF Shape, TypeOK, ThreadTypes, OwnerLocked, threadVars
  <2> QED
    BY <2>1, <2>2, <2>3 DEF TypeOK, CastTypes, ThreadTypes
<1>2. Roles'
  BY DirectAssumption, NetAssumption DEF Shape, TypeOK, Roles, AtHead,
     netVars, srvVars, castVars, selectVars, threadVars, AddClient
<1>3. Places'
  <2>1. Sessions' = Sessions \union {p}
    BY AddFacts
  <2>2. /\ UNCHANGED <<peer, got, newcomer, accepter, rx>> /\ backlog' = backlog \ {p} /\ p \in backlog
        /\ down' = [down EXCEPT ![p] = IF Failed(p) THEN @ ELSE Append(@, Hello)]
    BY DEF AddClient, threadVars
  <2>3. \A q \in Peer : q # p => down'[q] = down[q]
    BY <2>2 DEF Shape, TypeOK, NetTypeOK
  <2>4. p # newcomer /\ peer[p] # "idle"
    BY <2>2, NetAssumption DEF Shape, Places
  <2>5. Places
    BY DEF Shape
  <2> HIDE DEF Shape
  <2> QED
    BY <2>1, <2>2, <2>3, <2>4, <2>5 DEF Places
<1>4. Talks'
  BY DirectAssumption, NetAssumption DEF Shape, TypeOK, NetTypeOK, Roles, Places, Talks,
     netVars, srvVars, castVars, selectVars, threadVars, AddClient
<1>5. Once'
  <2>1. m_clients' \in Seq(Peer) /\ NoDup(m_clients')
    BY AddFacts
  <2>2. UNCHANGED <<todo, stopping, msg>>
    BY DEF AddClient, castVars, threadVars
  <2> QED
    BY <2>1, <2>2 DEF Shape, Once
<1>6. AtHead'
  BY DirectAssumption, NetAssumption DEF Shape, TypeOK, Roles, Places, Once, AtHead,
     netVars, srvVars, castVars, selectVars, threadVars, AddClient
<1> QED
  BY <1>1, <1>2, <1>3, <1>4, <1>5, <1>6 DEF Shape

LEMMA AcceptDoneShape ==
    ASSUME Shape, AcceptDone
    PROVE  Shape'
<1>1. TypeOK'
  BY DirectAssumption, NetAssumption DEF Shape, TypeOK, NetTypeOK, Sessions, OwnerLocked, Roles, Places, Talks, Once, AtHead,
     netVars, srvVars, castVars, selectVars, threadVars, AcceptDone
<1>2. Roles'
  BY DirectAssumption, NetAssumption DEF Shape, TypeOK, Roles, AtHead,
     netVars, srvVars, castVars, selectVars, threadVars, AcceptDone
<1>3. Places'
  BY DirectAssumption, NetAssumption DEF Shape, TypeOK, NetTypeOK, Sessions, Roles, Places,
     netVars, srvVars, castVars, selectVars, threadVars, AcceptDone
<1>4. Talks'
  BY DirectAssumption, NetAssumption DEF Shape, TypeOK, NetTypeOK, Roles, Places, Talks,
     netVars, srvVars, castVars, selectVars, threadVars, AcceptDone
<1>5. Once'
  BY DirectAssumption, NetAssumption DEF Shape, TypeOK, Roles, Places, Once,
     netVars, srvVars, castVars, selectVars, threadVars, AcceptDone
<1>6. AtHead'
  BY DirectAssumption, NetAssumption DEF Shape, TypeOK, Roles, Places, Once, AtHead,
     netVars, srvVars, castVars, selectVars, threadVars, AcceptDone
<1> QED
  BY <1>1, <1>2, <1>3, <1>4, <1>5, <1>6 DEF Shape

LEMMA ReceiveMsgShape ==
    ASSUME Shape, NEW p \in Peer, ReceiveMsg(p)
    PROVE  Shape'
<1>1. TypeOK'
  <2>1. NetTypeOK'
    <3>1. Readable(p) /\ rcvd' = [rcvd EXCEPT ![p] = @ + RecvCount(p)] /\ UNCHANGED <<peer, sent, down, got, backlog>>
      BY DEF ReceiveMsg
    <3>2. rcvd' \in [Peer -> 0..MaxBytes] /\ \A q \in Peer : rcvd'[q] <= sent[q]
      BY <3>1, RecvTypes
    <3> QED
      BY <3>1, <3>2 DEF Shape, TypeOK, NetTypeOK
  <2>2. CastTypes'
    <3>1. Readable(p) /\ rcvd' = [rcvd EXCEPT ![p] = @ + RecvCount(p)] /\ BroadcastMsg(p, rcvd'[p]) /\ UNCHANGED m_clients
      BY DEF ReceiveMsg
    <3>2. /\ rcvd'[p] = rcvd[p] + RecvCount(p) /\ rcvd'[p] \in 0..MaxBytes
          /\ \A q \in Peer : said[q] <= rcvd'[q]
      BY <3>1, RecvTypes
    <3>3. said[p] < rcvd'[p]
      BY <3>1, <3>2, RecvFacts
    <3> QED
      BY <3>1, <3>2, <3>3, BroadcastCasts
  <2>3. ThreadTypes'
    BY DirectAssumption DEF Shape, TypeOK, Sessions, OwnerLocked, Roles, Places, Once, AtHead,
       netVars, srvVars, castVars, selectVars, threadVars, ReceiveMsg, NextReady, BroadcastMsg, ThreadTypes
  <2> QED
    BY <2>1, <2>2, <2>3 DEF TypeOK, CastTypes, ThreadTypes
<1>2. Roles'
  BY DirectAssumption, NetAssumption DEF Shape, TypeOK, Roles, AtHead,
     netVars, srvVars, castVars, selectVars, threadVars, ReceiveMsg, NextReady, BroadcastMsg
<1>3. Places'
  BY DirectAssumption, NetAssumption DEF Shape, TypeOK, NetTypeOK, Sessions, Roles, Places,
     netVars, srvVars, castVars, selectVars, threadVars, ReceiveMsg, NextReady, BroadcastMsg
<1>4. Talks'
  BY DirectAssumption, NetAssumption DEF Shape, TypeOK, NetTypeOK, Roles, Places, Talks,
     netVars, srvVars, castVars, selectVars, threadVars, ReceiveMsg, NextReady, BroadcastMsg
<1>5. Once'
  <2>1. Readable(p) /\ rcvd' = [rcvd EXCEPT ![p] = @ + RecvCount(p)] /\ BroadcastMsg(p, rcvd'[p]) /\ UNCHANGED <<m_clients, stopping>>
    BY DEF ReceiveMsg, threadVars
  <2>2. rcvd'[p] = rcvd[p] + RecvCount(p) /\ rcvd'[p] \in 0..MaxBytes
    BY <2>1, RecvTypes
  <2>3. said[p] < rcvd'[p]
    BY <2>1, <2>2, RecvFacts
  <2>4. todo' \in Seq(Peer) /\ NoDup(todo') /\ msg' # <<>>
    BY <2>1, <2>2, <2>3, BroadcastFacts
  <2> QED
    BY <2>1, <2>4 DEF Shape, Once
<1>6. AtHead'
  BY DirectAssumption, NetAssumption DEF Shape, TypeOK, Roles, Places, Once, AtHead,
     netVars, srvVars, castVars, selectVars, threadVars, ReceiveMsg, NextReady, BroadcastMsg
<1> QED
  BY <1>1, <1>2, <1>3, <1>4, <1>5, <1>6 DEF Shape

LEMMA ReceiveMsgEndsShape ==
    ASSUME Shape, NEW p \in Peer, ReceiveMsgEnds(p)
    PROVE  Shape'
<1>1. TypeOK'
  <2>1. NetTypeOK'
    BY NetAssumption DEF Shape, TypeOK, NetTypeOK, Roles, Places,
       netVars, srvVars, castVars, selectVars, threadVars, ReceiveMsgEnds, NextReady
  <2>2. CastTypes'
    BY NetAssumption DEF Shape, TypeOK, NetTypeOK, Sessions, Roles, Places, Talks, Once,
       netVars, srvVars, castVars, selectVars, threadVars, ReceiveMsgEnds, NextReady, CastTypes
  <2>3. ThreadTypes'
    BY DirectAssumption DEF Shape, TypeOK, Sessions, OwnerLocked, Roles, Places, Once, AtHead,
       netVars, srvVars, castVars, selectVars, threadVars, ReceiveMsgEnds, NextReady, ThreadTypes
  <2> QED
    BY <2>1, <2>2, <2>3 DEF TypeOK, CastTypes, ThreadTypes
<1>2. Roles'
  BY DirectAssumption, NetAssumption DEF Shape, TypeOK, Roles, AtHead,
     netVars, srvVars, castVars, selectVars, threadVars, ReceiveMsgEnds, NextReady
<1>3. Places'
  BY DirectAssumption, NetAssumption DEF Shape, TypeOK, NetTypeOK, Sessions, Roles, Places,
     netVars, srvVars, castVars, selectVars, threadVars, ReceiveMsgEnds, NextReady
<1>4. Talks'
  BY DirectAssumption, NetAssumption DEF Shape, TypeOK, NetTypeOK, Roles, Places, Talks,
     netVars, srvVars, castVars, selectVars, threadVars, ReceiveMsgEnds, NextReady
<1>5. Once'
  BY DirectAssumption, NetAssumption DEF Shape, TypeOK, Roles, Places, Once,
     netVars, srvVars, castVars, selectVars, threadVars, ReceiveMsgEnds, NextReady
<1>6. AtHead'
  BY DirectAssumption, NetAssumption DEF Shape, TypeOK, Roles, Places, Once, AtHead,
     netVars, srvVars, castVars, selectVars, threadVars, ReceiveMsgEnds, NextReady
<1> QED
  BY <1>1, <1>2, <1>3, <1>4, <1>5, <1>6 DEF Shape

LEMMA RemoveClosedClientsShape ==
    ASSUME Shape, RemoveClosedClients
    PROVE  Shape'
<1>1. TypeOK'
  <2>1. NetTypeOK'
    BY NetAssumption DEF Shape, TypeOK, NetTypeOK, Roles, Places,
       netVars, srvVars, castVars, selectVars, threadVars, RemoveClosedClients
  <2>2. CastTypes'
    <3>1. talker = NoPeer /\ todo = <<>> /\ UNCHANGED <<said, rcvd, talker, msg, todo, rest, lost>>
      BY DEF RemoveClosedClients, netVars, castVars, Shape, TypeOK
    <3>2. ToSet(todo') = {}
      BY <3>1, ToSetOfNone
    <3> QED
      BY <3>1, <3>2 DEF Shape, TypeOK, CastTypes
  <2>3. ThreadTypes'
    <3>1. kind = "select" /\ stopping = <<>> /\ owner = "run" /\ readSet = {}
      BY DirectAssumption DEF RemoveClosedClients, Shape, TypeOK, Roles
    <3>2. UNCHANGED <<kind, talker, readSet, threadVars>> /\ m_toClose' = {} /\ loop' = "select"
      BY DEF RemoveClosedClients, castVars
    <3>3. Sessions' \subseteq Peer /\ Len(m_clients') = Cardinality(Sessions')
      BY RemoveFacts
    <3>4. ToSet(stopping') = {}
      BY <3>1, <3>2, ToSetOfNone DEF threadVars
    <3> QED
      BY <3>1, <3>2, <3>3, <3>4 DEF Shape, TypeOK, ThreadTypes, OwnerLocked, threadVars
  <2> QED
    BY <2>1, <2>2, <2>3 DEF TypeOK, CastTypes, ThreadTypes
<1>2. Roles'
  BY DirectAssumption, NetAssumption DEF Shape, TypeOK, Roles, AtHead,
     netVars, srvVars, castVars, selectVars, threadVars, RemoveClosedClients
<1>3. Places'
  <2>1. UNCHANGED <<peer, got, down, backlog, newcomer, accepter, rx>>
    BY DEF RemoveClosedClients, netVars, threadVars
  <2>2. Sessions' \subseteq Sessions
    BY RemoveFacts
  <2>3. Places
    BY DEF Shape
  <2> HIDE DEF Shape
  <2> QED
    BY <2>1, <2>2, <2>3 DEF Places
<1>4. Talks'
  BY DirectAssumption, NetAssumption DEF Shape, TypeOK, NetTypeOK, Roles, Places, Talks,
     netVars, srvVars, castVars, selectVars, threadVars, RemoveClosedClients
<1>5. Once'
  <2>1. m_clients' \in Seq(Peer) /\ NoDup(m_clients')
    BY RemoveFacts
  <2>2. UNCHANGED <<todo, stopping, msg>>
    BY DEF RemoveClosedClients, castVars, threadVars
  <2> QED
    BY <2>1, <2>2 DEF Shape, Once
<1>6. AtHead'
  BY DirectAssumption, NetAssumption DEF Shape, TypeOK, Roles, Places, Once, AtHead,
     netVars, srvVars, castVars, selectVars, threadVars, RemoveClosedClients
<1> QED
  BY <1>1, <1>2, <1>3, <1>4, <1>5, <1>6 DEF Shape

LEMMA AcceptShape ==
    ASSUME Shape, NEW p \in Peer, Accept(p)
    PROVE  Shape'
<1>1. TypeOK'
  BY DirectAssumption, NetAssumption DEF Shape, TypeOK, NetTypeOK, Sessions, OwnerLocked, Roles, Places, Talks, Once, AtHead,
     netVars, srvVars, castVars, selectVars, threadVars, Accept
<1>2. Roles'
  BY DirectAssumption, NetAssumption DEF Shape, TypeOK, Roles, AtHead,
     netVars, srvVars, castVars, selectVars, threadVars, Accept
<1>3. Places'
  BY DirectAssumption, NetAssumption DEF Shape, TypeOK, NetTypeOK, Sessions, Roles, Places,
     netVars, srvVars, castVars, selectVars, threadVars, Accept
<1>4. Talks'
  BY DirectAssumption, NetAssumption DEF Shape, TypeOK, NetTypeOK, Roles, Places, Talks,
     netVars, srvVars, castVars, selectVars, threadVars, Accept
<1>5. Once'
  BY DirectAssumption, NetAssumption DEF Shape, TypeOK, Roles, Places, Once,
     netVars, srvVars, castVars, selectVars, threadVars, Accept
<1>6. AtHead'
  BY DirectAssumption, NetAssumption DEF Shape, TypeOK, Roles, Places, Once, AtHead,
     netVars, srvVars, castVars, selectVars, threadVars, Accept
<1> QED
  BY <1>1, <1>2, <1>3, <1>4, <1>5, <1>6 DEF Shape

LEMMA PushBackShape ==
    ASSUME Shape, PushBack
    PROVE  Shape'
<1>1. TypeOK'
  <2>1. NetTypeOK'
    BY NetAssumption DEF Shape, TypeOK, NetTypeOK, Roles, Places,
       netVars, srvVars, castVars, selectVars, threadVars, PushBack, MutexFree, OwnerLocked
  <2>2. CastTypes'
    <3>1. talker = NoPeer /\ todo = <<>> /\ UNCHANGED <<said, rcvd, talker, msg, todo, rest, lost>>
      BY DEF PushBack, MutexFree, netVars, castVars, Shape, TypeOK
    <3>2. ToSet(todo') = {}
      BY <3>1, ToSetOfNone
    <3> QED
      BY <3>1, <3>2 DEF Shape, TypeOK, CastTypes
  <2>3. ThreadTypes'
    <3>1. /\ UNCHANGED <<kind, talker, loop, readSet, m_toClose, rx, m_active, m_socket, m_running, owner, stopping>>
          /\ newcomer' = NoPeer /\ accepter' \in {"accept", "done"}
      BY DEF PushBack, castVars, selectVars
    <3>2. /\ Sessions' \subseteq Peer /\ Len(m_clients') = Cardinality(Sessions')
          /\ Sessions' = Sessions \union {newcomer}
      BY PushFacts
    <3> QED
      BY <3>1, <3>2 DEF Shape, TypeOK, ThreadTypes, OwnerLocked
  <2> QED
    BY <2>1, <2>2, <2>3 DEF TypeOK, CastTypes, ThreadTypes
<1>2. Roles'
  BY DirectAssumption, NetAssumption DEF Shape, TypeOK, Roles, AtHead,
     netVars, srvVars, castVars, selectVars, threadVars, PushBack, MutexFree, OwnerLocked
<1>3. Places'
  <2>1. UNCHANGED <<peer, got, down, backlog, rx>> /\ newcomer' = NoPeer /\ accepter' \in {"accept", "done"}
    BY DEF PushBack, netVars
  <2>2. Sessions' = Sessions \union {newcomer} /\ newcomer \notin backlog /\ newcomer # NoPeer
    BY PushFacts
  <2>3. Places /\ \A p \in Peer : p # NoPeer
    BY NetAssumption DEF Shape
  <2>4. \A p \in Peer : peer[p] = "idle" => p # newcomer
    BY <2>3 DEF Places
  <2> HIDE DEF Shape
  <2> QED
    BY <2>1, <2>2, <2>3, <2>4 DEF Places
<1>4. Talks'
  BY DirectAssumption, NetAssumption DEF Shape, TypeOK, NetTypeOK, Roles, Places, Talks,
     netVars, srvVars, castVars, selectVars, threadVars, PushBack, MutexFree, OwnerLocked
<1>5. Once'
  <2>1. m_clients' \in Seq(Peer) /\ NoDup(m_clients')
    BY PushFacts
  <2>2. UNCHANGED <<todo, stopping, msg>>
    BY DEF PushBack, castVars
  <2> QED
    BY <2>1, <2>2 DEF Shape, Once
<1>6. AtHead'
  BY DirectAssumption, NetAssumption DEF Shape, TypeOK, Roles, Places, Once, AtHead,
     netVars, srvVars, castVars, selectVars, threadVars, PushBack, MutexFree, OwnerLocked
<1> QED
  BY <1>1, <1>2, <1>3, <1>4, <1>5, <1>6 DEF Shape

LEMMA AcceptEndsShape ==
    ASSUME Shape, AcceptEnds
    PROVE  Shape'
<1>1. TypeOK'
  BY DirectAssumption, NetAssumption DEF Shape, TypeOK, NetTypeOK, Sessions, OwnerLocked, Roles, Places, Talks, Once, AtHead,
     netVars, srvVars, castVars, selectVars, threadVars, AcceptEnds
<1>2. Roles'
  BY DirectAssumption, NetAssumption DEF Shape, TypeOK, Roles, AtHead,
     netVars, srvVars, castVars, selectVars, threadVars, AcceptEnds
<1>3. Places'
  BY DirectAssumption, NetAssumption DEF Shape, TypeOK, NetTypeOK, Sessions, Roles, Places,
     netVars, srvVars, castVars, selectVars, threadVars, AcceptEnds
<1>4. Talks'
  BY DirectAssumption, NetAssumption DEF Shape, TypeOK, NetTypeOK, Roles, Places, Talks,
     netVars, srvVars, castVars, selectVars, threadVars, AcceptEnds
<1>5. Once'
  BY DirectAssumption, NetAssumption DEF Shape, TypeOK, Roles, Places, Once,
     netVars, srvVars, castVars, selectVars, threadVars, AcceptEnds
<1>6. AtHead'
  BY DirectAssumption, NetAssumption DEF Shape, TypeOK, Roles, Places, Once, AtHead,
     netVars, srvVars, castVars, selectVars, threadVars, AcceptEnds
<1> QED
  BY <1>1, <1>2, <1>3, <1>4, <1>5, <1>6 DEF Shape

LEMMA RecvCheckShape ==
    ASSUME Shape, NEW p \in Peer, RecvCheck(p)
    PROVE  Shape'
<1>1. TypeOK'
  <2>1. NetTypeOK'
    BY NetAssumption DEF Shape, TypeOK, NetTypeOK, Roles, Places,
       netVars, srvVars, castVars, selectVars, threadVars, RecvCheck, Goto
  <2>2. CastTypes'
    BY NetAssumption DEF Shape, TypeOK, NetTypeOK, Sessions, Roles, Places, Talks, Once,
       netVars, srvVars, castVars, selectVars, threadVars, RecvCheck, Goto, CastTypes
  <2>3. ThreadTypes'
    BY DirectAssumption DEF Shape, TypeOK, Sessions, OwnerLocked, Roles, Places, Once, AtHead,
       netVars, srvVars, castVars, selectVars, threadVars, RecvCheck, Goto, ThreadTypes
  <2> QED
    BY <2>1, <2>2, <2>3 DEF TypeOK, CastTypes, ThreadTypes
<1>2. Roles'
  BY DirectAssumption, NetAssumption DEF Shape, TypeOK, Roles, AtHead,
     netVars, srvVars, castVars, selectVars, threadVars, RecvCheck, Goto
<1>3. Places'
  BY DirectAssumption, NetAssumption DEF Shape, TypeOK, NetTypeOK, Sessions, Roles, Places,
     netVars, srvVars, castVars, selectVars, threadVars, RecvCheck, Goto
<1>4. Talks'
  BY DirectAssumption, NetAssumption DEF Shape, TypeOK, NetTypeOK, Roles, Places, Talks,
     netVars, srvVars, castVars, selectVars, threadVars, RecvCheck, Goto
<1>5. Once'
  BY DirectAssumption, NetAssumption DEF Shape, TypeOK, Roles, Places, Once,
     netVars, srvVars, castVars, selectVars, threadVars, RecvCheck, Goto
<1>6. AtHead'
  BY DirectAssumption, NetAssumption DEF Shape, TypeOK, Roles, Places, Once, AtHead,
     netVars, srvVars, castVars, selectVars, threadVars, RecvCheck, Goto
<1> QED
  BY <1>1, <1>2, <1>3, <1>4, <1>5, <1>6 DEF Shape

LEMMA RecvShape ==
    ASSUME Shape, NEW p \in Peer, Recv(p)
    PROVE  Shape'
<1>1. TypeOK'
  <2>1. NetTypeOK'
    <3>1. Readable(p) /\ rcvd' = [rcvd EXCEPT ![p] = @ + RecvCount(p)] /\ UNCHANGED <<peer, sent, down, got, backlog>>
      BY DEF Recv
    <3>2. rcvd' \in [Peer -> 0..MaxBytes] /\ \A q \in Peer : rcvd'[q] <= sent[q]
      BY <3>1, RecvTypes
    <3> QED
      BY <3>1, <3>2 DEF Shape, TypeOK, NetTypeOK
  <2>2. CastTypes'
    <3>1. Readable(p) /\ rcvd' = [rcvd EXCEPT ![p] = @ + RecvCount(p)] /\ UNCHANGED <<said, talker, msg, todo, rest, lost, m_clients>>
      BY DEF Recv, castVars
    <3>2. \A q \in Peer : said[q] <= rcvd'[q]
      BY <3>1, RecvTypes
    <3> QED
      BY <3>1, <3>2 DEF Shape, TypeOK, CastTypes, Sessions
  <2>3. ThreadTypes'
    BY DirectAssumption DEF Shape, TypeOK, Sessions, OwnerLocked, Roles, Places, Once, AtHead,
       netVars, srvVars, castVars, selectVars, threadVars, Recv, Goto, ThreadTypes
  <2> QED
    BY <2>1, <2>2, <2>3 DEF TypeOK, CastTypes, ThreadTypes
<1>2. Roles'
  BY DirectAssumption, NetAssumption DEF Shape, TypeOK, Roles, AtHead,
     netVars, srvVars, castVars, selectVars, threadVars, Recv, Goto
<1>3. Places'
  BY DirectAssumption, NetAssumption DEF Shape, TypeOK, NetTypeOK, Sessions, Roles, Places,
     netVars, srvVars, castVars, selectVars, threadVars, Recv, Goto
<1>4. Talks'
  <2>1. Readable(p) /\ rcvd' = [rcvd EXCEPT ![p] = @ + RecvCount(p)] /\ rx' = [rx EXCEPT ![p] = "lock"] /\ UNCHANGED <<sent, said>>
    BY DEF Recv, Goto
  <2>2. /\ rcvd'[p] = rcvd[p] + RecvCount(p)
        /\ \A q \in Peer : rcvd[q] <= rcvd'[q] /\ rcvd[q] \in Nat /\ rcvd'[q] \in Nat /\ said[q] \in Nat
    BY <2>1, RecvTypes
  <2>3. said[p] < rcvd'[p]
    BY <2>1, <2>2, RecvFacts
  <2>4. \A q \in Peer : q # p => rx'[q] = rx[q]
    BY <2>1 DEF Shape, TypeOK
  <2> QED
    BY <2>1, <2>2, <2>3, <2>4 DEF Shape, Talks
<1>5. Once'
  BY DirectAssumption, NetAssumption DEF Shape, TypeOK, Roles, Places, Once,
     netVars, srvVars, castVars, selectVars, threadVars, Recv, Goto
<1>6. AtHead'
  BY DirectAssumption, NetAssumption DEF Shape, TypeOK, Roles, Places, Once, AtHead,
     netVars, srvVars, castVars, selectVars, threadVars, Recv, Goto
<1> QED
  BY <1>1, <1>2, <1>3, <1>4, <1>5, <1>6 DEF Shape

LEMMA RecvEndsShape ==
    ASSUME Shape, NEW p \in Peer, RecvEnds(p)
    PROVE  Shape'
<1>1. TypeOK'
  <2>1. NetTypeOK'
    BY NetAssumption DEF Shape, TypeOK, NetTypeOK, Roles, Places,
       netVars, srvVars, castVars, selectVars, threadVars, RecvEnds, Goto
  <2>2. CastTypes'
    BY NetAssumption DEF Shape, TypeOK, NetTypeOK, Sessions, Roles, Places, Talks, Once,
       netVars, srvVars, castVars, selectVars, threadVars, RecvEnds, Goto, CastTypes
  <2>3. ThreadTypes'
    BY DirectAssumption DEF Shape, TypeOK, Sessions, OwnerLocked, Roles, Places, Once, AtHead,
       netVars, srvVars, castVars, selectVars, threadVars, RecvEnds, Goto, ThreadTypes
  <2> QED
    BY <2>1, <2>2, <2>3 DEF TypeOK, CastTypes, ThreadTypes
<1>2. Roles'
  BY DirectAssumption, NetAssumption DEF Shape, TypeOK, Roles, AtHead,
     netVars, srvVars, castVars, selectVars, threadVars, RecvEnds, Goto
<1>3. Places'
  BY DirectAssumption, NetAssumption DEF Shape, TypeOK, NetTypeOK, Sessions, Roles, Places,
     netVars, srvVars, castVars, selectVars, threadVars, RecvEnds, Goto
<1>4. Talks'
  BY DirectAssumption, NetAssumption DEF Shape, TypeOK, NetTypeOK, Roles, Places, Talks,
     netVars, srvVars, castVars, selectVars, threadVars, RecvEnds, Goto
<1>5. Once'
  BY DirectAssumption, NetAssumption DEF Shape, TypeOK, Roles, Places, Once,
     netVars, srvVars, castVars, selectVars, threadVars, RecvEnds, Goto
<1>6. AtHead'
  BY DirectAssumption, NetAssumption DEF Shape, TypeOK, Roles, Places, Once, AtHead,
     netVars, srvVars, castVars, selectVars, threadVars, RecvEnds, Goto
<1> QED
  BY <1>1, <1>2, <1>3, <1>4, <1>5, <1>6 DEF Shape

LEMMA BroadcastShape ==
    ASSUME Shape, NEW p \in Peer, Broadcast(p)
    PROVE  Shape'
<1>1. TypeOK'
  <2>1. NetTypeOK'
    BY NetAssumption DEF Shape, TypeOK, NetTypeOK, Roles, Places,
       netVars, srvVars, castVars, selectVars, threadVars, Broadcast, BroadcastMsg, Goto
  <2>2. CastTypes'
    <3>1. BroadcastMsg(p, rcvd[p]) /\ UNCHANGED <<rcvd, m_clients>>
      BY DEF Broadcast, netVars
    <3>2. said[p] < rcvd[p] /\ rcvd[p] \in 0..MaxBytes /\ \A q \in Peer : said[q] <= rcvd'[q]
      BY <3>1 DEF Broadcast, Shape, TypeOK, NetTypeOK, Talks
    <3> QED
      BY <3>1, <3>2, BroadcastCasts
  <2>3. ThreadTypes'
    <3>1. /\ rx[p] = "lock" /\ talker = NoPeer /\ ~OwnerLocked
          /\ rx' = [rx EXCEPT ![p] = "send"] /\ talker' = p
          /\ UNCHANGED <<kind, m_clients, loop, readSet, m_toClose, accepter, newcomer, m_active, m_socket, m_running, owner, stopping>>
      BY DEF Broadcast, MutexFree, BroadcastMsg, Goto, selectVars
    <3>2. p # NoPeer /\ Sessions' = Sessions
      BY <3>1, NetAssumption DEF Sessions
    <3>3. kind = "blocking"
      BY <3>1, DirectAssumption DEF Shape, Roles, TypeOK
    <3>4. {q \in Peer : rx'[q] = "send"} = {talker'} \ {NoPeer}
      BY <3>1, <3>2, <3>3 DEF Shape, TypeOK
    <3> QED
      BY <3>1, <3>2, <3>4 DEF Shape, TypeOK, ThreadTypes, OwnerLocked
  <2> QED
    BY <2>1, <2>2, <2>3 DEF TypeOK, CastTypes, ThreadTypes
<1>2. Roles'
  BY DirectAssumption, NetAssumption DEF Shape, TypeOK, Roles, AtHead,
     netVars, srvVars, castVars, selectVars, threadVars, Broadcast, BroadcastMsg, Goto
<1>3. Places'
  BY DirectAssumption, NetAssumption DEF Shape, TypeOK, NetTypeOK, Sessions, Roles, Places,
     netVars, srvVars, castVars, selectVars, threadVars, Broadcast, BroadcastMsg, Goto
<1>4. Talks'
  BY DirectAssumption, NetAssumption DEF Shape, TypeOK, NetTypeOK, Roles, Places, Talks,
     netVars, srvVars, castVars, selectVars, threadVars, Broadcast, BroadcastMsg, Goto
<1>5. Once'
  <2>1. BroadcastMsg(p, rcvd[p]) /\ UNCHANGED <<m_clients, stopping>>
    BY DEF Broadcast, Goto
  <2>2. said[p] < rcvd[p] /\ rcvd[p] \in 0..MaxBytes
    BY DEF Broadcast, Shape, TypeOK, NetTypeOK, Talks
  <2>3. todo' \in Seq(Peer) /\ NoDup(todo') /\ msg' # <<>>
    BY <2>1, <2>2, BroadcastFacts
  <2> QED
    BY <2>1, <2>3 DEF Shape, Once
<1>6. AtHead'
  BY DirectAssumption, NetAssumption DEF Shape, TypeOK, Roles, Places, Once, AtHead,
     netVars, srvVars, castVars, selectVars, threadVars, Broadcast, BroadcastMsg, Goto
<1> QED
  BY <1>1, <1>2, <1>3, <1>4, <1>5, <1>6 DEF Shape

LEMMA StopCalledShape ==
    ASSUME Shape, StopCalled
    PROVE  Shape'
<1>1. TypeOK'
  BY DirectAssumption, NetAssumption DEF Shape, TypeOK, NetTypeOK, Sessions, OwnerLocked, Roles, Places, Talks, Once, AtHead,
     netVars, srvVars, castVars, selectVars, threadVars, StopCalled, ownerElse
<1>2. Roles'
  BY DirectAssumption, NetAssumption DEF Shape, TypeOK, Roles, AtHead,
     netVars, srvVars, castVars, selectVars, threadVars, StopCalled, ownerElse
<1>3. Places'
  BY DirectAssumption, NetAssumption DEF Shape, TypeOK, NetTypeOK, Sessions, Roles, Places,
     netVars, srvVars, castVars, selectVars, threadVars, StopCalled, ownerElse
<1>4. Talks'
  BY DirectAssumption, NetAssumption DEF Shape, TypeOK, NetTypeOK, Roles, Places, Talks,
     netVars, srvVars, castVars, selectVars, threadVars, StopCalled, ownerElse
<1>5. Once'
  BY DirectAssumption, NetAssumption DEF Shape, TypeOK, Roles, Places, Once,
     netVars, srvVars, castVars, selectVars, threadVars, StopCalled, ownerElse
<1>6. AtHead'
  BY DirectAssumption, NetAssumption DEF Shape, TypeOK, Roles, Places, Once, AtHead,
     netVars, srvVars, castVars, selectVars, threadVars, StopCalled, ownerElse
<1> QED
  BY <1>1, <1>2, <1>3, <1>4, <1>5, <1>6 DEF Shape

LEMMA CloseListenersShape ==
    ASSUME Shape, CloseListeners
    PROVE  Shape'
<1>1. TypeOK'
  BY DirectAssumption, NetAssumption DEF Shape, TypeOK, NetTypeOK, Sessions, OwnerLocked, Roles, Places, Talks, Once, AtHead,
     netVars, srvVars, castVars, selectVars, threadVars, CloseListeners, ownerElse
<1>2. Roles'
  BY DirectAssumption, NetAssumption DEF Shape, TypeOK, Roles, AtHead,
     netVars, srvVars, castVars, selectVars, threadVars, CloseListeners, ownerElse
<1>3. Places'
  BY DirectAssumption, NetAssumption DEF Shape, TypeOK, NetTypeOK, Sessions, Roles, Places,
     netVars, srvVars, castVars, selectVars, threadVars, CloseListeners, ownerElse
<1>4. Talks'
  BY DirectAssumption, NetAssumption DEF Shape, TypeOK, NetTypeOK, Roles, Places, Talks,
     netVars, srvVars, castVars, selectVars, threadVars, CloseListeners, ownerElse
<1>5. Once'
  BY DirectAssumption, NetAssumption DEF Shape, TypeOK, Roles, Places, Once,
     netVars, srvVars, castVars, selectVars, threadVars, CloseListeners, ownerElse
<1>6. AtHead'
  BY DirectAssumption, NetAssumption DEF Shape, TypeOK, Roles, Places, Once, AtHead,
     netVars, srvVars, castVars, selectVars, threadVars, CloseListeners, ownerElse
<1> QED
  BY <1>1, <1>2, <1>3, <1>4, <1>5, <1>6 DEF Shape

LEMMA JoinAcceptShape ==
    ASSUME Shape, JoinAccept
    PROVE  Shape'
<1>1. TypeOK'
  BY DirectAssumption, NetAssumption DEF Shape, TypeOK, NetTypeOK, Sessions, OwnerLocked, Roles, Places, Talks, Once, AtHead,
     netVars, srvVars, castVars, selectVars, threadVars, JoinAccept, ownerElse
<1>2. Roles'
  BY DirectAssumption, NetAssumption DEF Shape, TypeOK, Roles, AtHead,
     netVars, srvVars, castVars, selectVars, threadVars, JoinAccept, ownerElse
<1>3. Places'
  BY DirectAssumption, NetAssumption DEF Shape, TypeOK, NetTypeOK, Sessions, Roles, Places,
     netVars, srvVars, castVars, selectVars, threadVars, JoinAccept, ownerElse
<1>4. Talks'
  BY DirectAssumption, NetAssumption DEF Shape, TypeOK, NetTypeOK, Roles, Places, Talks,
     netVars, srvVars, castVars, selectVars, threadVars, JoinAccept, ownerElse
<1>5. Once'
  BY DirectAssumption, NetAssumption DEF Shape, TypeOK, Roles, Places, Once,
     netVars, srvVars, castVars, selectVars, threadVars, JoinAccept, ownerElse
<1>6. AtHead'
  BY DirectAssumption, NetAssumption DEF Shape, TypeOK, Roles, Places, Once, AtHead,
     netVars, srvVars, castVars, selectVars, threadVars, JoinAccept, ownerElse
<1> QED
  BY <1>1, <1>2, <1>3, <1>4, <1>5, <1>6 DEF Shape

LEMMA StopLocksShape ==
    ASSUME Shape, StopLocks
    PROVE  Shape'
<1>1. TypeOK'
  BY DirectAssumption, NetAssumption DEF Shape, TypeOK, NetTypeOK, Sessions, OwnerLocked, Roles, Places, Talks, Once, AtHead,
     netVars, srvVars, castVars, selectVars, threadVars, StopLocks, MutexFree, OwnerLocked, ownerElse
<1>2. Roles'
  BY DirectAssumption, NetAssumption DEF Shape, TypeOK, Roles, AtHead,
     netVars, srvVars, castVars, selectVars, threadVars, StopLocks, MutexFree, OwnerLocked, ownerElse
<1>3. Places'
  BY DirectAssumption, NetAssumption DEF Shape, TypeOK, NetTypeOK, Sessions, Roles, Places,
     netVars, srvVars, castVars, selectVars, threadVars, StopLocks, MutexFree, OwnerLocked, ownerElse
<1>4. Talks'
  BY DirectAssumption, NetAssumption DEF Shape, TypeOK, NetTypeOK, Roles, Places, Talks,
     netVars, srvVars, castVars, selectVars, threadVars, StopLocks, MutexFree, OwnerLocked, ownerElse
<1>5. Once'
  BY DirectAssumption, NetAssumption DEF Shape, TypeOK, Roles, Places, Once,
     netVars, srvVars, castVars, selectVars, threadVars, StopLocks, MutexFree, OwnerLocked, ownerElse
<1>6. AtHead'
  BY DirectAssumption, NetAssumption DEF Shape, TypeOK, Roles, Places, Once, AtHead,
     netVars, srvVars, castVars, selectVars, threadVars, StopLocks, MutexFree, OwnerLocked, ownerElse
<1> QED
  BY <1>1, <1>2, <1>3, <1>4, <1>5, <1>6 DEF Shape

LEMMA StopNextShape ==
    ASSUME Shape, StopNext
    PROVE  Shape'
<1>1. TypeOK'
  <2>1. NetTypeOK'
    BY NetAssumption DEF Shape, TypeOK, NetTypeOK, Roles, Places,
       netVars, srvVars, castVars, selectVars, threadVars, StopNext, ownerElse
  <2>2. CastTypes'
    <3>1. talker = NoPeer /\ todo = <<>> /\ UNCHANGED <<said, rcvd, talker, msg, todo, rest, lost>>
      BY DEF StopNext, OwnerLocked, netVars, castVars, Shape, TypeOK
    <3>2. ToSet(todo') = {}
      BY <3>1, ToSetOfNone
    <3> QED
      BY <3>1, <3>2 DEF Shape, TypeOK, CastTypes
  <2>3. ThreadTypes'
    <3>1. /\ kind = "blocking" /\ readSet = {} /\ m_toClose = {} /\ talker = NoPeer
      BY DirectAssumption DEF StopNext, Shape, TypeOK, Roles, OwnerLocked
    <3>2. /\ UNCHANGED <<kind, talker, loop, readSet, m_toClose, accepter, newcomer, rx, m_socket, m_running, stopping>>
          /\ owner' \in {"stopped", "drain"} /\ m_active' \subseteq m_active
          /\ m_clients' = m_clients \/ (m_clients' = <<>> /\ stopping = <<>>)
      BY DEF StopNext, castVars, selectVars, ownerElse
    <3>3. /\ Sessions' \subseteq Peer /\ Len(m_clients') = Cardinality(Sessions')
          /\ ToSet(stopping) \subseteq Sessions'
      <4>1. CASE m_clients' = m_clients
        BY <4>1 DEF Sessions, Shape, TypeOK
      <4>2. CASE m_clients' = <<>> /\ stopping = <<>>
        BY <4>2, ToSetOfNone, FS_EmptySet DEF Sessions
      <4> QED
        BY <3>2, <4>1, <4>2
    <3> QED
      BY <3>1, <3>2, <3>3 DEF Shape, TypeOK, ThreadTypes, OwnerLocked
  <2> QED
    BY <2>1, <2>2, <2>3 DEF TypeOK, CastTypes, ThreadTypes
<1>2. Roles'
  BY DirectAssumption, NetAssumption DEF Shape, TypeOK, Roles, AtHead,
     netVars, srvVars, castVars, selectVars, threadVars, StopNext, ownerElse
<1>3. Places'
  BY DirectAssumption, NetAssumption DEF Shape, TypeOK, NetTypeOK, Sessions, Roles, Places,
     netVars, srvVars, castVars, selectVars, threadVars, StopNext, ownerElse
<1>4. Talks'
  BY DirectAssumption, NetAssumption DEF Shape, TypeOK, NetTypeOK, Roles, Places, Talks,
     netVars, srvVars, castVars, selectVars, threadVars, StopNext, ownerElse
<1>5. Once'
  <2>1. UNCHANGED <<todo, stopping, msg>> /\ (m_clients' = m_clients \/ m_clients' = <<>>)
    BY DEF StopNext, castVars
  <2>2. <<>> \in Seq(Peer) /\ NoDup(<<>>)
    BY EmptySeq DEF NoDup
  <2> QED
    BY <2>1, <2>2 DEF Shape, Once
<1>6. AtHead'
  BY DirectAssumption, NetAssumption DEF Shape, TypeOK, Roles, Places, Once, AtHead,
     netVars, srvVars, castVars, selectVars, threadVars, StopNext, ownerElse
<1> QED
  BY <1>1, <1>2, <1>3, <1>4, <1>5, <1>6 DEF Shape

LEMMA StopDrainsShape ==
    ASSUME Shape, StopDrains
    PROVE  Shape'
<1>1. TypeOK'
  <2>1. NetTypeOK'
    <3>1. Head(stopping) \in Peer
      BY StopFacts DEF StopDrains
    <3>2. /\ UNCHANGED <<peer, sent, down, got, backlog>>
          /\ \/ UNCHANGED rcvd
             \/ Readable(Head(stopping)) /\ rcvd' = [rcvd EXCEPT ![Head(stopping)] = @ + RecvCount(Head(stopping))]
      BY DEF StopDrains
    <3>3. rcvd' \in [Peer -> 0..MaxBytes] /\ \A q \in Peer : rcvd'[q] <= sent[q]
      BY <3>1, <3>2, RecvTypes DEF Shape, TypeOK, NetTypeOK
    <3> QED
      BY <3>2, <3>3 DEF Shape, TypeOK, NetTypeOK
  <2>2. CastTypes'
    <3>1. Head(stopping) \in Peer
      BY StopFacts DEF StopDrains
    <3>2. /\ UNCHANGED <<said, talker, msg, todo, rest, lost, m_clients>>
          /\ \/ UNCHANGED rcvd
             \/ Readable(Head(stopping)) /\ rcvd' = [rcvd EXCEPT ![Head(stopping)] = @ + RecvCount(Head(stopping))]
      BY DEF StopDrains, castVars
    <3>3. \A q \in Peer : said[q] <= rcvd'[q]
      BY <3>1, <3>2, RecvTypes DEF Shape, TypeOK
    <3> QED
      BY <3>2, <3>3 DEF Shape, TypeOK, CastTypes, Sessions
  <2>3. ThreadTypes'
    BY DirectAssumption DEF Shape, TypeOK, Sessions, OwnerLocked, Roles, Places, Once, AtHead,
       netVars, srvVars, castVars, selectVars, threadVars, StopDrains, ownerElse, ThreadTypes
  <2> QED
    BY <2>1, <2>2, <2>3 DEF TypeOK, CastTypes, ThreadTypes
<1>2. Roles'
  BY DirectAssumption, NetAssumption DEF Shape, TypeOK, Roles, AtHead,
     netVars, srvVars, castVars, selectVars, threadVars, StopDrains, ownerElse
<1>3. Places'
  BY DirectAssumption, NetAssumption DEF Shape, TypeOK, NetTypeOK, Sessions, Roles, Places,
     netVars, srvVars, castVars, selectVars, threadVars, StopDrains, ownerElse
<1>4. Talks'
  <2>1. Head(stopping) \in Peer
    BY StopFacts DEF StopDrains
  <2>2. /\ UNCHANGED <<sent, said, rx>>
        /\ \/ UNCHANGED rcvd
           \/ Readable(Head(stopping)) /\ rcvd' = [rcvd EXCEPT ![Head(stopping)] = @ + RecvCount(Head(stopping))]
    BY DEF StopDrains, ownerElse
  <2>3. CASE UNCHANGED rcvd
    BY <2>2, <2>3 DEF Shape, Talks
  <2>4. CASE ~UNCHANGED rcvd
    <3>1. \A q \in Peer : rcvd[q] <= rcvd'[q] /\ rcvd[q] \in Nat /\ rcvd'[q] \in Nat /\ said[q] \in Nat
      BY <2>1, <2>2, <2>4, RecvTypes
    <3> QED
      BY <2>2, <3>1 DEF Shape, Talks
  <2> QED
    BY <2>3, <2>4
<1>5. Once'
  BY DirectAssumption, NetAssumption DEF Shape, TypeOK, Roles, Places, Once,
     netVars, srvVars, castVars, selectVars, threadVars, StopDrains, ownerElse
<1>6. AtHead'
  BY DirectAssumption, NetAssumption DEF Shape, TypeOK, Roles, Places, Once, AtHead,
     netVars, srvVars, castVars, selectVars, threadVars, StopDrains, ownerElse
<1> QED
  BY <1>1, <1>2, <1>3, <1>4, <1>5, <1>6 DEF Shape

LEMMA JoinRxShape ==
    ASSUME Shape, JoinRx
    PROVE  Shape'
<1>1. TypeOK'
  <2>1. NetTypeOK'
    BY NetAssumption DEF Shape, TypeOK, NetTypeOK, Roles, Places,
       netVars, srvVars, castVars, selectVars, threadVars, JoinRx, ownerElse
  <2>2. CastTypes'
    BY NetAssumption DEF Shape, TypeOK, NetTypeOK, Sessions, Roles, Places, Talks, Once,
       netVars, srvVars, castVars, selectVars, threadVars, JoinRx, ownerElse, CastTypes
  <2>3. ThreadTypes'
    <3>1. ToSet(Tail(stopping)) \subseteq ToSet(stopping)
      BY StopFacts DEF JoinRx
    <3>2. /\ UNCHANGED <<kind, m_clients, talker, loop, readSet, m_toClose, accepter, newcomer, rx, m_active, m_socket, m_running>>
          /\ stopping' = Tail(stopping) /\ owner' = "next" /\ owner = "joinRx"
      BY DEF JoinRx, castVars, selectVars, ownerElse
    <3>3. Sessions' = Sessions /\ talker = NoPeer
      BY <3>2 DEF Sessions, Shape, TypeOK, OwnerLocked
    <3> QED
      BY <3>1, <3>2, <3>3 DEF Shape, TypeOK, ThreadTypes, OwnerLocked
  <2> QED
    BY <2>1, <2>2, <2>3 DEF TypeOK, CastTypes, ThreadTypes
<1>2. Roles'
  BY DirectAssumption, NetAssumption DEF Shape, TypeOK, Roles, AtHead,
     netVars, srvVars, castVars, selectVars, threadVars, JoinRx, ownerElse
<1>3. Places'
  BY DirectAssumption, NetAssumption DEF Shape, TypeOK, NetTypeOK, Sessions, Roles, Places,
     netVars, srvVars, castVars, selectVars, threadVars, JoinRx, ownerElse
<1>4. Talks'
  BY DirectAssumption, NetAssumption DEF Shape, TypeOK, NetTypeOK, Roles, Places, Talks,
     netVars, srvVars, castVars, selectVars, threadVars, JoinRx, ownerElse
<1>5. Once'
  <2>1. UNCHANGED <<todo, m_clients, msg>> /\ stopping' = Tail(stopping)
    BY DEF JoinRx, castVars
  <2>2. Tail(stopping) \in Seq(Peer)
    BY StopFacts DEF JoinRx
  <2> QED
    BY <2>1, <2>2 DEF Shape, Once
<1>6. AtHead'
  BY DirectAssumption, NetAssumption DEF Shape, TypeOK, Roles, Places, Once, AtHead,
     netVars, srvVars, castVars, selectVars, threadVars, JoinRx, ownerElse
<1> QED
  BY <1>1, <1>2, <1>3, <1>4, <1>5, <1>6 DEF Shape

LEMMA ConnectShape ==
    ASSUME Shape, NEW p \in Peer, Connect(p)
    PROVE  Shape'
<1>1. TypeOK'
  <2>1. NetTypeOK'
    <3>1. peer' = [peer EXCEPT ![p] = "open"] /\ backlog' = backlog \union {p} /\ UNCHANGED <<sent, rcvd, down, got>>
      BY DEF Connect, PeerConnect
    <3> QED
      BY <3>1 DEF Shape, TypeOK, NetTypeOK, PeerState
  <2>2. CastTypes'
    BY NetAssumption DEF Shape, TypeOK, NetTypeOK, Sessions, Roles, Places, Talks, Once,
       netVars, srvVars, castVars, selectVars, threadVars, Connect, PeerConnect, CastTypes
  <2>3. ThreadTypes'
    BY DirectAssumption DEF Shape, TypeOK, Sessions, OwnerLocked, Roles, Places, Once, AtHead,
       netVars, srvVars, castVars, selectVars, threadVars, Connect, PeerConnect, ThreadTypes
  <2> QED
    BY <2>1, <2>2, <2>3 DEF TypeOK, CastTypes, ThreadTypes
<1>2. Roles'
  BY DirectAssumption, NetAssumption DEF Shape, TypeOK, Roles, AtHead,
     netVars, srvVars, castVars, selectVars, threadVars, Connect, PeerConnect
<1>3. Places'
  BY DirectAssumption, NetAssumption DEF Shape, TypeOK, NetTypeOK, Sessions, Roles, Places,
     netVars, srvVars, castVars, selectVars, threadVars, Connect, PeerConnect
<1>4. Talks'
  BY DirectAssumption, NetAssumption DEF Shape, TypeOK, NetTypeOK, Roles, Places, Talks,
     netVars, srvVars, castVars, selectVars, threadVars, Connect, PeerConnect
<1>5. Once'
  BY DirectAssumption, NetAssumption DEF Shape, TypeOK, Roles, Places, Once,
     netVars, srvVars, castVars, selectVars, threadVars, Connect, PeerConnect
<1>6. AtHead'
  BY DirectAssumption, NetAssumption DEF Shape, TypeOK, Roles, Places, Once, AtHead,
     netVars, srvVars, castVars, selectVars, threadVars, Connect, PeerConnect
<1> QED
  BY <1>1, <1>2, <1>3, <1>4, <1>5, <1>6 DEF Shape

LEMMA TalkShape ==
    ASSUME Shape, NEW p \in Peer, Talk(p)
    PROVE  Shape'
<1>1. TypeOK'
  <2>1. NetTypeOK'
    <3>1. UNCHANGED <<peer, rcvd, down, got, backlog>> /\ sent' = [sent EXCEPT ![p] = @ + 1] /\ sent[p] < MaxBytes
      BY DEF Talk, PeerSend
    <3>2. /\ sent \in [Peer -> 0..MaxBytes] /\ rcvd \in [Peer -> 0..MaxBytes] /\ MaxBytes \in Nat
          /\ \A q \in Peer : rcvd[q] <= sent[q]
      BY NetAssumption DEF Shape, TypeOK, NetTypeOK
    <3>3. sent' \in [Peer -> 0..MaxBytes] /\ \A q \in Peer : rcvd[q] <= sent'[q]
      BY <3>1, <3>2
    <3> QED
      BY <3>1, <3>3 DEF Shape, TypeOK, NetTypeOK
  <2>2. CastTypes'
    BY NetAssumption DEF Shape, TypeOK, NetTypeOK, Sessions, Roles, Places, Talks, Once,
       netVars, srvVars, castVars, selectVars, threadVars, Talk, PeerSend, CastTypes
  <2>3. ThreadTypes'
    BY DirectAssumption DEF Shape, TypeOK, Sessions, OwnerLocked, Roles, Places, Once, AtHead,
       netVars, srvVars, castVars, selectVars, threadVars, Talk, PeerSend, ThreadTypes
  <2> QED
    BY <2>1, <2>2, <2>3 DEF TypeOK, CastTypes, ThreadTypes
<1>2. Roles'
  BY DirectAssumption, NetAssumption DEF Shape, TypeOK, Roles, AtHead,
     netVars, srvVars, castVars, selectVars, threadVars, Talk, PeerSend
<1>3. Places'
  BY DirectAssumption, NetAssumption DEF Shape, TypeOK, NetTypeOK, Sessions, Roles, Places,
     netVars, srvVars, castVars, selectVars, threadVars, Talk, PeerSend
<1>4. Talks'
  BY DirectAssumption, NetAssumption DEF Shape, TypeOK, NetTypeOK, Roles, Places, Talks,
     netVars, srvVars, castVars, selectVars, threadVars, Talk, PeerSend
<1>5. Once'
  BY DirectAssumption, NetAssumption DEF Shape, TypeOK, Roles, Places, Once,
     netVars, srvVars, castVars, selectVars, threadVars, Talk, PeerSend
<1>6. AtHead'
  BY DirectAssumption, NetAssumption DEF Shape, TypeOK, Roles, Places, Once, AtHead,
     netVars, srvVars, castVars, selectVars, threadVars, Talk, PeerSend
<1> QED
  BY <1>1, <1>2, <1>3, <1>4, <1>5, <1>6 DEF Shape

LEMMA HangUpShape ==
    ASSUME Shape, NEW p \in Peer, HangUp(p)
    PROVE  Shape'
<1>1. TypeOK'
  <2>1. NetTypeOK'
    <3>1. /\ UNCHANGED <<sent, rcvd, down, got, backlog>>
          /\ \E s \in {"shut", "gone", "reset", "broken"} : peer' = [peer EXCEPT ![p] = s]
      BY DEF HangUp, PeerFinish, PeerReset
    <3> QED
      BY <3>1 DEF Shape, TypeOK, NetTypeOK, PeerState
  <2>2. CastTypes'
    BY NetAssumption DEF Shape, TypeOK, NetTypeOK, Sessions, Roles, Places, Talks, Once,
       netVars, srvVars, castVars, selectVars, threadVars, HangUp, PeerFinish, PeerReset, CastTypes
  <2>3. ThreadTypes'
    BY DirectAssumption DEF Shape, TypeOK, Sessions, OwnerLocked, Roles, Places, Once, AtHead,
       netVars, srvVars, castVars, selectVars, threadVars, HangUp, PeerFinish, PeerReset, ThreadTypes
  <2> QED
    BY <2>1, <2>2, <2>3 DEF TypeOK, CastTypes, ThreadTypes
<1>2. Roles'
  BY DirectAssumption, NetAssumption DEF Shape, TypeOK, Roles, AtHead,
     netVars, srvVars, castVars, selectVars, threadVars, HangUp, PeerFinish, PeerReset
<1>3. Places'
  <2>1. /\ UNCHANGED <<down, got, backlog, m_clients, newcomer, accepter, rx>>
        /\ peer[p] # "idle"
        /\ \E s \in {"shut", "gone", "reset", "broken"} : peer' = [peer EXCEPT ![p] = s]
    BY DEF HangUp, PeerFinish, PeerReset, srvVars, threadVars
  <2>2. \A q \in Peer : peer'[q] = "idle" <=> peer[q] = "idle"
    BY <2>1 DEF Shape, TypeOK, NetTypeOK
  <2>3. Places /\ Sessions' = Sessions
    BY <2>1 DEF Shape, Sessions
  <2> HIDE DEF Shape
  <2> QED
    BY <2>1, <2>2, <2>3 DEF Places
<1>4. Talks'
  BY DirectAssumption, NetAssumption DEF Shape, TypeOK, NetTypeOK, Roles, Places, Talks,
     netVars, srvVars, castVars, selectVars, threadVars, HangUp, PeerFinish, PeerReset
<1>5. Once'
  BY DirectAssumption, NetAssumption DEF Shape, TypeOK, Roles, Places, Once,
     netVars, srvVars, castVars, selectVars, threadVars, HangUp, PeerFinish, PeerReset
<1>6. AtHead'
  BY DirectAssumption, NetAssumption DEF Shape, TypeOK, Roles, Places, Once, AtHead,
     netVars, srvVars, castVars, selectVars, threadVars, HangUp, PeerFinish, PeerReset
<1> QED
  BY <1>1, <1>2, <1>3, <1>4, <1>5, <1>6 DEF Shape

LEMMA ListenShape ==
    ASSUME Shape, NEW p \in Peer, Listen(p)
    PROVE  Shape'
<1>1. TypeOK'
  <2>1. NetTypeOK'
    <3>1. /\ UNCHANGED <<peer, sent, rcvd, backlog>> /\ down[p] # <<>>
          /\ got' = [got EXCEPT ![p] = Append(@, Head(down[p]))]
          /\ down' = [down EXCEPT ![p] = Tail(@)]
      BY DEF Listen, PeerRead
    <3>2. /\ got \in [Peer -> Seq(Token)] /\ down \in [Peer -> Seq(Token)]
          /\ SndBuf \in Nat /\ \A q \in Peer : Len(down[q]) <= SndBuf
      BY NetAssumption DEF Shape, TypeOK, NetTypeOK
    <3>3. /\ Head(down[p]) \in Token /\ Tail(down[p]) \in Seq(Token)
          /\ Len(down[p]) \in Nat /\ Len(Tail(down[p])) = Len(down[p]) - 1
      BY <3>1, <3>2, HeadTailProperties, LenProperties
    <3>4. Len(Tail(down[p])) <= SndBuf
      BY <3>2, <3>3
    <3>5. down' \in [Peer -> Seq(Token)] /\ \A q \in Peer : Len(down'[q]) <= SndBuf
      BY <3>1, <3>2, <3>3, <3>4
    <3>6. got' \in [Peer -> Seq(Token)]
      <4>1. Append(got[p], Head(down[p])) \in Seq(Token)
        BY <3>2, <3>3, AppendProperties
      <4> QED
        BY <3>1, <3>2, <4>1
    <3> QED
      BY <3>1, <3>5, <3>6 DEF Shape, TypeOK, NetTypeOK
  <2>2. CastTypes'
    BY NetAssumption DEF Shape, TypeOK, NetTypeOK, Sessions, Roles, Places, Talks, Once,
       netVars, srvVars, castVars, selectVars, threadVars, Listen, PeerRead, CastTypes
  <2>3. ThreadTypes'
    BY DirectAssumption DEF Shape, TypeOK, Sessions, OwnerLocked, Roles, Places, Once, AtHead,
       netVars, srvVars, castVars, selectVars, threadVars, Listen, PeerRead, ThreadTypes
  <2> QED
    BY <2>1, <2>2, <2>3 DEF TypeOK, CastTypes, ThreadTypes
<1>2. Roles'
  BY DirectAssumption, NetAssumption DEF Shape, TypeOK, Roles, AtHead,
     netVars, srvVars, castVars, selectVars, threadVars, Listen, PeerRead
<1>3. Places'
  BY DirectAssumption, NetAssumption DEF Shape, TypeOK, NetTypeOK, Sessions, Roles, Places,
     netVars, srvVars, castVars, selectVars, threadVars, Listen, PeerRead
<1>4. Talks'
  BY DirectAssumption, NetAssumption DEF Shape, TypeOK, NetTypeOK, Roles, Places, Talks,
     netVars, srvVars, castVars, selectVars, threadVars, Listen, PeerRead
<1>5. Once'
  BY DirectAssumption, NetAssumption DEF Shape, TypeOK, Roles, Places, Once,
     netVars, srvVars, castVars, selectVars, threadVars, Listen, PeerRead
<1>6. AtHead'
  BY DirectAssumption, NetAssumption DEF Shape, TypeOK, Roles, Places, Once, AtHead,
     netVars, srvVars, castVars, selectVars, threadVars, Listen, PeerRead
<1> QED
  BY <1>1, <1>2, <1>3, <1>4, <1>5, <1>6 DEF Shape

-----------------------------------------------------------------------------
(* Steps of the relay keep the order of the streams. *)

RelayStep == Relay!Next \/ UNCHANGED <<Member, said, Owed, Taken>>

LEMMA OwedIs ==
    ASSUME Shape, NEW p \in Peer
    PROVE  /\ Owed[p] = IF Failed(p) THEN got[p] ELSE (got[p] \o down[p]) \o Coming(p)
           /\ got[p] \in Seq(Token) /\ down[p] \in Seq(Token) /\ Coming(p) \in Seq(Token)
           /\ got[p] \o down[p] \in Seq(Token) /\ Owed[p] \in Seq(Token)
<1>1. got[p] \in Seq(Token) /\ down[p] \in Seq(Token) /\ rest \in Seq(Token) /\ msg \in Seq(Token)
  BY DEF Shape, TypeOK, NetTypeOK
<1>2. Coming(p) \in Seq(Token)
  BY <1>1, EmptySeq DEF Coming
<1>3. got[p] \o down[p] \in Seq(Token) /\ (got[p] \o down[p]) \o Coming(p) \in Seq(Token)
  BY <1>1, <1>2, ConcatProperties
<1>4. Owed[p] = IF Failed(p) THEN got[p] ELSE (got[p] \o down[p]) \o Coming(p)
  BY DEF Owed
<1> QED
  BY <1>1, <1>2, <1>3, <1>4

LEMMA StreamsOwed == Shape => Streams(Owed)
<1>1. ASSUME Shape, NEW p \in Peer PROVE Owed[p] \in Seq(Token)
  BY <1>1, OwedIs
<1>2. Shape => \A p \in Peer : Owed[p] \in Seq(Token)
  BY <1>1, Zenon
<1> QED
  BY <1>2, Zenon DEF Streams

LEMMA StreamsNext == Shape' => Streams(Owed)'
BY StreamsOwed, PTL

LEMMA KeepsOrder ==
    ASSUME Shape, Shape', OneOrder, RelayStep
    PROVE  OneOrder'
<1>1. Streams(Owed) /\ Streams(Owed')
  BY StreamsOwed, StreamsNext DEF Streams
<1>2. Orders(Owed, said)
  BY <1>1, OneOrderIs
<1>3. said \in [Peer -> 0..MaxBytes] /\ said' \in [Peer -> 0..MaxBytes] /\ MaxBytes \in Nat
  BY NetAssumption DEF Shape, TypeOK
<1>4. Orders(Owed', said') => OneOrder'
  BY <1>1 DEF OneOrder, Orders, Foreign, Ascends, Agrees, Relay!InOrder, Relay!SameOrder, Relay!NoEcho,
              Relay!Hello, Hello
<1>5. ASSUME said' = said, \A p \in Peer : Begins(Owed'[p], Owed[p]) PROVE Orders(Owed', said')
  <2>1. \A p \in Peer : said[p] \in Nat /\ said'[p] \in Nat /\ said[p] <= said'[p]
    BY <1>3, <1>5
  <2> QED
    BY <1>1, <1>2, <1>5, <2>1, CutOrders
<1>6. ASSUME UNCHANGED <<Member, said, Owed, Taken>> PROVE Orders(Owed', said')
  BY <1>2, <1>6
<1>7. ASSUME NEW p \in Peer, Relay!Join(p) PROVE Orders(Owed', said')
  <2>1. PICK g \in {<<>>, <<Hello>>} : Owed' = [Owed EXCEPT ![p] = g] /\ said' = said
    BY <1>7 DEF Relay!Join, Relay!Hello, Hello
  <2>2. Owed = [q \in Peer |-> Owed[q]]
    BY DEF Owed
  <2>3. Owed'[p] = g /\ \A q \in Peer \ {p} : Owed'[q] = Owed[q]
    BY <2>1, <2>2
  <2>4. CASE g = <<Hello>>
    <3>1. Owed'[p] = <<Hello>>
      BY <2>3, <2>4
    <3>2. Orders(Owed', said)
      BY <1>2, <2>3, <3>1, GreetOrders
    <3> QED
      BY <2>1, <3>2
  <2>5. CASE g = <<>>
    <3>1. \A q \in Peer : Begins(Owed'[q], Owed[q])
      BY <1>1, <2>3, <2>5 DEF Begins, Streams
    <3> QED
      BY <1>5, <2>1, <3>1
  <2> QED
    BY <2>4, <2>5
<1>8. ASSUME NEW p \in Peer, Relay!Deliver(p) PROVE Orders(Owed', said')
  BY <1>2, <1>8 DEF Relay!Deliver
<1>9. ASSUME NEW t \in Talker, NEW n \in 1..MaxBytes, Relay!Broadcast(t, n) PROVE Orders(Owed', said')
  <2> DEFINE G == {p \in Peer : Member[p] = "in" /\ p # t}
  <2>1. /\ said' = [said EXCEPT ![t] = @ + n]
        /\ Owed' = [p \in Peer |-> IF Member[p] = "in" /\ p # t
                                   THEN Owed[p] \o Chunk(t, said[t], n) ELSE Owed[p]]
    BY <1>9 DEF Relay!Broadcast, Relay!Chunk, Chunk
  <2>2. t \in Peer /\ n \in Nat
    BY <1>3, NetAssumption
  <2>3. Gains(Owed, Owed', G, Chunk(t, said[t], n))
    BY <2>1 DEF Gains
  <2>4. Speaks(said, said', t, n)
    BY <1>3, <2>1, <2>2 DEF Speaks
  <2>5. G \in SUBSET (Peer \ {t})
    OBVIOUS
  <2> HIDE DEF G
  <2> QED
    BY <1>2, <2>2, <2>3, <2>4, <2>5, ChunkOrders
<1>10. ASSUME NEW S \in SUBSET Peer, Relay!Leave(S) PROVE Orders(Owed', said')
  <2>1. PICK cut \in Relay!Cuts(S) :
            Owed' = [p \in Peer |-> IF p \in S THEN SubSeq(Owed[p], 1, cut[p]) ELSE Owed[p]]
    BY <1>10 DEF Relay!Leave
  <2>2. ASSUME NEW p \in Peer PROVE Begins(Owed'[p], Owed[p])
    <3>1. Owed[p] \in Seq(Token) /\ Len(Owed[p]) \in Nat
      BY <1>1, LenProperties DEF Streams
    <3>2. CASE p \in S
      <4>1. Owed'[p] = SubSeq(Owed[p], 1, cut[p])
        BY <2>1, <3>2
      <4>2. cut \in [S -> UNION {0..Len(Owed[q]) : q \in S}] /\ cut[p] <= Len(Owed[p])
        BY <2>1, <3>2 DEF Relay!Cuts
      <4>3. PICK q \in S : cut[p] \in 0..Len(Owed[q])
        BY <3>2, <4>2
      <4>4. Len(Owed[q]) \in Nat
        BY <1>1, LenProperties DEF Streams
      <4>5. cut[p] \in 0..Len(Owed[p])
        BY <3>1, <4>2, <4>3, <4>4
      <4> DEFINE o == Owed[p]
                 k == cut[p]
      <4>6. o \in Seq(Token) /\ k \in 0..Len(o)
        BY <3>1, <4>5
      <4> HIDE DEF o, k
      <4>7. Begins(SubSeq(o, 1, k), o)
        BY <4>6 DEF Begins
      <4> QED
        BY <4>1, <4>7 DEF o, k
    <3>3. CASE p \notin S
      BY <2>1, <3>1, <3>3 DEF Begins
    <3> QED
      BY <3>2, <3>3
  <2>3. said' = said
    BY <1>10 DEF Relay!Leave
  <2> QED
    BY <1>5, <2>2, <2>3
<1> QED
  BY <1>4, <1>6, <1>7, <1>8, <1>9, <1>10 DEF RelayStep, Relay!Next
-----------------------------------------------------------------------------
(* Every step is a step of the relay or none. *)

LEMMA MemberIs ==
    ASSUME NEW p \in Peer
    PROVE  /\ Member[p] = IF peer[p] = "idle" THEN "out"
                          ELSE IF Failed(p) THEN "gone"
                          ELSE IF p \in Sessions THEN "in"
                          ELSE IF p \in backlog \union {newcomer} THEN "out"
                          ELSE "gone"
           /\ Member'[p] = IF peer'[p] = "idle" THEN "out"
                           ELSE IF Failed(p)' THEN "gone"
                           ELSE IF p \in Sessions' THEN "in"
                           ELSE IF p \in backlog' \union {newcomer'} THEN "out"
                           ELSE "gone"
           /\ Taken[p] = Len(got[p]) /\ Taken'[p] = Len(got'[p])
           /\ Owed[p] = (IF Failed(p) THEN got[p] ELSE (got[p] \o down[p]) \o Coming(p))
           /\ Owed'[p] = (IF Failed(p)' THEN got'[p] ELSE (got'[p] \o down'[p]) \o Coming(p)')
BY DEF Member, Taken, Owed

\* Equal at every client.
LEMMA Nothing ==
    ASSUME said' = said,
           \A p \in Peer : Member'[p] = Member[p] /\ Owed'[p] = Owed[p] /\ Taken'[p] = Taken[p]
    PROVE  RelayStep
<1>1. /\ Member = [p \in Peer |-> Member[p]] /\ Member' = [p \in Peer |-> Member'[p]]
      /\ Owed = [p \in Peer |-> Owed[p]] /\ Owed' = [p \in Peer |-> Owed'[p]]
      /\ Taken = [p \in Peer |-> Taken[p]] /\ Taken' = [p \in Peer |-> Taken'[p]]
  BY DEF Member, Owed, Taken
<1> QED
  BY <1>1 DEF RelayStep

LEMMA ComingStays ==
    ASSUME UNCHANGED <<todo, rest, msg>> \/ (todo = <<>> /\ todo' = <<>>), NEW p \in Peer
    PROVE  Coming(p)' = Coming(p)
BY DEF Coming

\* The steps of a thread that neither send nor let a client in or out.
LEMMA Quiet ==
    ASSUME UNCHANGED <<peer, said, down, got, m_clients>>,
           \A p \in Peer : p \in backlog' \union {newcomer'} <=> p \in backlog \union {newcomer},
           UNCHANGED <<todo, rest, msg>> \/ (todo = <<>> /\ todo' = <<>>)
    PROVE  RelayStep
<1>1. Sessions' = Sessions
  BY DEF Sessions
<1>2. ASSUME NEW p \in Peer PROVE Member'[p] = Member[p] /\ Owed'[p] = Owed[p] /\ Taken'[p] = Taken[p]
  <2>1. Failed(p)' <=> Failed(p)
    BY DEF Failed
  <2>2. Coming(p)' = Coming(p)
    BY ComingStays
  <2>3. p \in backlog' \union {newcomer'} <=> p \in backlog \union {newcomer}
    OBVIOUS
  <2>4. Owed'[p] = Owed[p] /\ Taken'[p] = Taken[p]
    BY <2>1, <2>2, MemberIs
  <2>5. Member'[p] = Member[p]
    BY <1>1, <2>1, <2>3, MemberIs
  <2> QED
    BY <2>4, <2>5
<1> QED
  BY <1>2, Nothing

\* The clients of S leave, with what cut says of their streams.
Parting(S, cut) ==
    /\ \A p \in S : /\ Member[p] # "gone" /\ Member'[p] = "gone"
                    /\ cut[p] \in Len(got[p])..Len(Owed[p])
                    /\ Owed'[p] = SubSeq(Owed[p], 1, cut[p])
    /\ \A p \in Peer \ S : Member'[p] = Member[p] /\ Owed'[p] = Owed[p]
    /\ \A p \in Peer : Taken'[p] = Taken[p]
    /\ S \subseteq Peer /\ said' = said

LEMMA Departs ==
    ASSUME Shape, NEW S, NEW cut, Parting(S, cut)
    PROVE  RelayStep
<1> USE DEF Parting
<1>1. CASE S = {}
  BY <1>1, Nothing
<1>2. CASE S # {}
  <2> DEFINE c == [p \in S |-> cut[p]]
  <2>1. \A p \in S : Len(got[p]) \in Nat /\ Len(Owed[p]) \in Nat /\ Taken[p] = Len(got[p])
    BY OwedIs, MemberIs, LenProperties
  <2>2. c \in Relay!Cuts(S)
    <3>1. \A p \in S : c[p] \in 0..Len(Owed[p]) /\ Taken[p] <= c[p] /\ c[p] <= Len(Owed[p])
      BY <2>1
    <3>2. c \in [S -> UNION {0..Len(Owed[p]) : p \in S}]
      BY <3>1
    <3> QED
      BY <3>1, <3>2 DEF Relay!Cuts
  <2>3. Member' = [p \in Peer |-> IF p \in S THEN "gone" ELSE Member[p]]
    <3>1. Member' = [p \in Peer |-> Member'[p]]
      BY DEF Member
    <3> QED
      BY <3>1
  <2>4. Owed' = [p \in Peer |-> IF p \in S THEN SubSeq(Owed[p], 1, c[p]) ELSE Owed[p]]
    <3>1. Owed' = [p \in Peer |-> Owed'[p]]
      BY DEF Owed
    <3> QED
      BY <3>1
  <2>5. Taken' = Taken
    <3>1. Taken = [p \in Peer |-> Taken[p]] /\ Taken' = [p \in Peer |-> Taken'[p]]
      BY DEF Taken
    <3> QED
      BY <3>1
  <2> HIDE DEF c
  <2>6. Relay!Leave(S) /\ S \in SUBSET Peer
    <3>1. \A p \in S : Member[p] # "gone"
      OBVIOUS
    <3>2. S # {} /\ said' = said
      BY <1>2
    <3>3. \E k \in Relay!Cuts(S) :
              Owed' = [p \in Peer |-> IF p \in S THEN SubSeq(Owed[p], 1, k[p]) ELSE Owed[p]]
      BY <2>2, <2>4
    <3>4. S \in SUBSET Peer
      OBVIOUS
    <3> HIDE DEF Parting
    <3> QED
      BY <2>3, <2>5, <3>1, <3>2, <3>3, <3>4, Zenon DEF Relay!Leave
  <2> QED
    BY <2>6 DEF RelayStep, Relay!Next
<1> QED
  BY <1>1, <1>2

LEMMA OwedLength ==
    ASSUME Shape, NEW p \in Peer
    PROVE  /\ Len(got[p]) \in Nat /\ Len(Owed[p]) \in Nat /\ Len(got[p]) <= Len(Owed[p])
           /\ SubSeq(Owed[p], 1, Len(Owed[p])) = Owed[p]
           /\ SubSeq(Owed[p], 1, Len(got[p])) = got[p]
<1>1. /\ got[p] \in Seq(Token) /\ down[p] \in Seq(Token) /\ Coming(p) \in Seq(Token)
      /\ got[p] \o down[p] \in Seq(Token) /\ Owed[p] \in Seq(Token)
      /\ Owed[p] = IF Failed(p) THEN got[p] ELSE (got[p] \o down[p]) \o Coming(p)
  BY OwedIs
<1>2. ASSUME NEW s \in Seq(Token), NEW t \in Seq(Token), Len(s) <= Len(t), \A i \in 1..Len(s) : t[i] = s[i]
      PROVE  SubSeq(t, 1, Len(s)) = s
  <2>1. Len(s) \in Nat /\ Len(t) \in Nat
    BY LenProperties
  <2>2. /\ SubSeq(t, 1, Len(s)) \in Seq(Token) /\ Len(SubSeq(t, 1, Len(s))) = Len(s)
        /\ \A i \in 1..Len(s) : SubSeq(t, 1, Len(s))[i] = t[i]
    BY <1>2, <2>1
  <2> QED
    BY <1>2, <2>2, SeqEqual
<1>3. Begins(got[p], Owed[p])
  <2> DEFINE g == got[p]
             d == down[p]
             e == Coming(p)
  <2>1. g \in Seq(Token) /\ d \in Seq(Token) /\ e \in Seq(Token) /\ g \o d \in Seq(Token)
    BY <1>1
  <2>2. Owed[p] = g \/ Owed[p] = (g \o d) \o e
    BY <1>1
  <2> HIDE DEF g, d, e
  <2>3. /\ Len(g) \in Nat /\ Len(d) \in Nat /\ Len(g \o d) = Len(g) + Len(d)
        /\ \A i \in 1..Len(g) : (g \o d)[i] = g[i]
    BY <2>1, ConcatFacts
  <2>4. /\ Len(e) \in Nat /\ Len((g \o d) \o e) = Len(g \o d) + Len(e)
        /\ \A i \in 1..Len(g \o d) : ((g \o d) \o e)[i] = (g \o d)[i]
    BY <2>1, ConcatFacts
  <2>5. Begins(g, g)
    BY <2>3 DEF Begins
  <2>6. Len(g) <= Len((g \o d) \o e)
    BY ONLY <2>3, <2>4
  <2>7. ASSUME NEW i \in 1..Len(g) PROVE g[i] = ((g \o d) \o e)[i]
    <3>1. i \in 1..Len(g \o d)
      BY <2>3
    <3> QED
      BY <2>3, <2>4, <3>1
  <2>8. Begins(g, (g \o d) \o e)
    BY <2>6, <2>7 DEF Begins
  <2>9. Begins(g, Owed[p])
    BY <2>2, <2>5, <2>8
  <2> QED
    BY <2>9 DEF g
<1>4. SubSeq(Owed[p], 1, Len(got[p])) = got[p] /\ Len(got[p]) <= Len(Owed[p])
  BY <1>1, <1>2, <1>3 DEF Begins
<1>5. Len(got[p]) \in Nat /\ Len(Owed[p]) \in Nat
  BY <1>1, LenProperties
<1>6. SubSeq(Owed[p], 1, Len(Owed[p])) = Owed[p]
  <2> DEFINE o == Owed[p]
  <2>1. o \in Seq(Token)
    BY <1>1
  <2> HIDE DEF o
  <2>2. SubSeq(o, 1, Len(o)) = o
    BY <2>1
  <2> QED
    BY <2>2 DEF o
<1> QED
  BY <1>4, <1>5, <1>6

\* Sessions are erased, or listeners closed, and what is owed stays owed.
LEMMA Closing ==
    ASSUME Shape, UNCHANGED <<peer, said, down, got, newcomer, todo, rest, msg>>,
           Sessions' \subseteq Sessions, backlog' \subseteq backlog
    PROVE  RelayStep
<1> DEFINE S == {p \in Peer : Member'[p] # Member[p]}
           cut == [p \in Peer |-> Len(Owed[p])]
<1>1. ASSUME NEW p \in Peer PROVE Owed'[p] = Owed[p] /\ Taken'[p] = Taken[p]
  <2>1. (Failed(p)' <=> Failed(p)) /\ Coming(p)' = Coming(p)
    BY ComingStays DEF Failed
  <2> QED
    BY <2>1, MemberIs
<1>2. ASSUME NEW p \in Peer, Member'[p] # Member[p] PROVE Member[p] # "gone" /\ Member'[p] = "gone"
  <2>1. Failed(p)' <=> Failed(p)
    BY DEF Failed
  <2>2. p \in Sessions => p \notin backlog \union {newcomer}
    BY NetAssumption DEF Shape, Places
  <2>3. p \in Sessions' => p \in Sessions
    OBVIOUS
  <2>4. p \in backlog' \union {newcomer'} => p \in backlog \union {newcomer}
    OBVIOUS
  <2> QED
    BY <1>2, <2>1, <2>2, <2>3, <2>4, MemberIs
<1>3. ASSUME NEW p \in Peer
      PROVE  cut[p] \in Len(got[p])..Len(Owed[p]) /\ Owed[p] = SubSeq(Owed[p], 1, cut[p])
  BY OwedLength
<1> HIDE DEF cut
<1>4. Parting(S, cut)
  BY <1>1, <1>2, <1>3 DEF Parting
<1> HIDE DEF S
<1> QED
  BY <1>4, Departs

LEMMA ConnectRelays ==
    ASSUME Shape, NEW p \in Peer, Connect(p)
    PROVE  RelayStep
<1>1. /\ UNCHANGED <<said, down, got, m_clients, newcomer, todo, rest, msg>>
      /\ peer[p] = "idle" /\ peer' = [peer EXCEPT ![p] = "open"] /\ backlog' = backlog \union {p}
  BY DEF Connect, PeerConnect, srvVars, castVars, threadVars
<1>2. ASSUME NEW q \in Peer PROVE Member'[q] = Member[q] /\ Owed'[q] = Owed[q] /\ Taken'[q] = Taken[q]
  <2>1. peer'[q] = IF q = p THEN "open" ELSE peer[q]
    BY <1>1 DEF Shape, TypeOK, NetTypeOK
  <2>2. Failed(q)' <=> Failed(q)
    BY <1>1, <2>1 DEF Failed
  <2>3. Coming(q)' = Coming(q)
    BY <1>1, ComingStays
  <2>4. Owed'[q] = Owed[q] /\ Taken'[q] = Taken[q]
    BY <1>1, <2>2, <2>3, MemberIs
  <2>5. q = p => q \notin Sessions /\ ~Failed(q)
    BY <1>1 DEF Shape, Places, Failed
  <2>6. Sessions' = Sessions
    BY <1>1 DEF Sessions
  <2>7. Member'[q] = Member[q]
    BY <1>1, <2>1, <2>2, <2>5, <2>6, MemberIs
  <2> QED
    BY <2>4, <2>7
<1> QED
  BY <1>1, <1>2, Nothing

LEMMA HangUpRelays ==
    ASSUME Shape, NEW p \in Peer, HangUp(p)
    PROVE  RelayStep
<1>1. /\ UNCHANGED <<said, down, got, m_clients, backlog, newcomer, todo, rest, msg>>
      /\ Held(p) /\ peer[p] \in {"open", "shut", "gone"}
      /\ \E s \in {"shut", "gone", "reset", "broken"} : peer' = [peer EXCEPT ![p] = s]
  BY DEF HangUp, PeerFinish, PeerReset, srvVars, castVars, threadVars
<1>2. PICK s \in {"shut", "gone", "reset", "broken"} : peer' = [peer EXCEPT ![p] = s]
  BY <1>1
<1>3. \A q \in Peer : peer'[q] = IF q = p THEN s ELSE peer[q]
  BY <1>2 DEF Shape, TypeOK, NetTypeOK
<1>4. Sessions' = Sessions
  BY <1>1 DEF Sessions
<1>5. ASSUME NEW q \in Peer, q # p PROVE Member'[q] = Member[q] /\ Owed'[q] = Owed[q]
  <2>1. peer'[q] = peer[q] /\ (Failed(q)' <=> Failed(q)) /\ Coming(q)' = Coming(q)
    BY <1>1, <1>3, <1>5, ComingStays DEF Failed
  <2> QED
    BY <1>1, <1>4, <2>1, MemberIs
<1>6. ASSUME NEW q \in Peer PROVE Taken'[q] = Taken[q]
  BY <1>1, MemberIs
<1>7. CASE s \in {"shut", "gone"}
  <2>1. (Failed(p)' <=> Failed(p)) /\ Coming(p)' = Coming(p) /\ peer'[p] # "idle" /\ peer[p] # "idle"
    BY <1>1, <1>3, <1>7, ComingStays DEF Failed
  <2>2. Member'[p] = Member[p] /\ Owed'[p] = Owed[p]
    BY <1>1, <1>4, <2>1, MemberIs
  <2> QED
    BY <1>1, <1>5, <1>6, <2>2, Nothing
<1>8. CASE s \in {"reset", "broken"}
  <2> DEFINE cut == [q \in Peer |-> Len(got[q])]
  <2>1. Failed(p)' /\ ~Failed(p) /\ peer'[p] # "idle" /\ peer[p] # "idle"
    BY <1>1, <1>3, <1>8 DEF Failed
  <2>2. Member'[p] = "gone" /\ Member[p] # "gone"
    BY <1>1, <1>4, <2>1, MemberIs DEF Held
  <2>3. Owed'[p] = got[p]
    BY <1>1, <2>1, MemberIs
  <2>4. cut[p] \in Len(got[p])..Len(Owed[p]) /\ got[p] = SubSeq(Owed[p], 1, cut[p])
    BY <2>1, OwedLength
  <2> HIDE DEF cut
  <2>5. Parting({p}, cut)
    BY <1>1, <1>5, <1>6, <2>2, <2>3, <2>4 DEF Parting
  <2> QED
    BY <2>5, Departs
<1> QED
  BY <1>7, <1>8

LEMMA ListenRelays ==
    ASSUME Shape, NEW p \in Peer, Listen(p)
    PROVE  RelayStep
<1>1. /\ UNCHANGED <<peer, said, backlog, m_clients, newcomer, todo, rest, msg>>
      /\ peer[p] \in {"open", "shut"} /\ down[p] # <<>>
      /\ got' = [got EXCEPT ![p] = Append(@, Head(down[p]))]
      /\ down' = [down EXCEPT ![p] = Tail(@)]
  BY DEF Listen, PeerRead, srvVars, castVars, threadVars
<1>2. got \in [Peer -> Seq(Token)] /\ down \in [Peer -> Seq(Token)]
  BY DEF Shape, TypeOK, NetTypeOK
<1>3. Sessions' = Sessions
  BY <1>1 DEF Sessions
<1>4. ASSUME NEW q \in Peer PROVE Member'[q] = Member[q]
  BY <1>1, <1>3, MemberIs DEF Failed
<1>5. ASSUME NEW q \in Peer, q # p PROVE Owed'[q] = Owed[q] /\ Taken'[q] = Taken[q]
  <2>1. got'[q] = got[q] /\ down'[q] = down[q] /\ (Failed(q)' <=> Failed(q)) /\ Coming(q)' = Coming(q)
    BY <1>1, <1>2, <1>5, ComingStays DEF Failed
  <2> QED
    BY <2>1, MemberIs
<1>6. Owed'[p] = Owed[p] /\ Taken'[p] = Taken[p] + 1 /\ Taken[p] \in Nat /\ Taken[p] + 1 <= Len(Owed[p])
      /\ Len(Owed[p]) \in Nat
  <2> DEFINE g == got[p]
             d == down[p]
             e == Coming(p)
  <2>1. /\ g \in Seq(Token) /\ d \in Seq(Token) /\ d # <<>> /\ e \in Seq(Token)
        /\ got'[p] = Append(g, Head(d)) /\ down'[p] = Tail(d)
    BY <1>1, <1>2, OwedIs
  <2>2. ~Failed(p)' /\ ~Failed(p) /\ Coming(p)' = e
    BY <1>1, ComingStays DEF Failed
  <2>3. /\ Owed[p] = (g \o d) \o e /\ Owed'[p] = (got'[p] \o down'[p]) \o e
        /\ Taken[p] = Len(g) /\ Taken'[p] = Len(got'[p])
    BY <2>2, MemberIs
  <2> HIDE DEF g, d, e
  <2>4. /\ Append(g, Head(d)) \o Tail(d) = g \o d
        /\ Len(Append(g, Head(d))) = Len(g) + 1 /\ Len(g) \in Nat
    BY <2>1, Shifted
  <2>5. Len((g \o d) \o e) \in Nat /\ Len(g) + 1 <= Len((g \o d) \o e)
    <3>1. Len(d) \in Nat /\ Len(d) > 0
      BY <2>1, LenProperties, EmptySeq
    <3>2. g \o d \in Seq(Token) /\ Len(g \o d) = Len(g) + Len(d)
      BY <2>1, ConcatFacts
    <3>3. Len((g \o d) \o e) = Len(g \o d) + Len(e) /\ Len(e) \in Nat
      BY <2>1, <3>2, ConcatFacts
    <3> QED
      BY ONLY <2>4, <3>1, <3>2, <3>3
  <2> QED
    BY <2>1, <2>3, <2>4, <2>5
<1>7. Owed' = Owed /\ Member' = Member
  <2>1. \A q \in Peer : Owed'[q] = Owed[q] /\ Member'[q] = Member[q]
    BY <1>4, <1>5, <1>6
  <2>2. /\ Owed = [q \in Peer |-> Owed[q]] /\ Owed' = [q \in Peer |-> Owed'[q]]
        /\ Member = [q \in Peer |-> Member[q]] /\ Member' = [q \in Peer |-> Member'[q]]
    BY DEF Owed, Member
  <2> QED
    BY <2>1, <2>2
<1>8. Taken' = [Taken EXCEPT ![p] = Taken[p] + 1]
  <2>1. \A q \in Peer : Taken'[q] = IF q = p THEN Taken[p] + 1 ELSE Taken[q]
    BY <1>5, <1>6
  <2>2. Taken = [q \in Peer |-> Taken[q]] /\ Taken' = [q \in Peer |-> Taken'[q]]
    BY DEF Taken
  <2> QED
    BY <2>1, <2>2
<1>9. Taken[p] + 1 \in (Taken[p] + 1)..Len(Owed[p])
  BY <1>6
<1>10. Relay!Deliver(p)
  BY <1>1, <1>7, <1>8, <1>9 DEF Relay!Deliver
<1> QED
  BY <1>10 DEF RelayStep, Relay!Next

\* A client begins with the greeting or with nothing; unless it broke off before.
LEMMA Joins ==
    ASSUME Shape, NEW p \in Peer, UNCHANGED <<peer, said, got>>, p \notin Sessions,
           peer[p] # "idle", p \in backlog \union {newcomer}, got[p] = <<>>, down[p] = <<>>,
           todo = <<>>, todo' = <<>>, Sessions' = Sessions \union {p},
           \A q \in Peer : q # p => down'[q] = down[q] /\ (q \in backlog' \union {newcomer'} <=> q \in backlog \union {newcomer}),
           ~Failed(p) => down'[p] \in {<<>>, <<Hello>>}
    PROVE  RelayStep
<1>1. ASSUME NEW q \in Peer
      PROVE  (Failed(q)' <=> Failed(q)) /\ Coming(q)' = <<>> /\ Coming(q) = <<>> /\ Taken'[q] = Taken[q]
  BY MemberIs DEF Failed, Coming
<1>2. ASSUME NEW q \in Peer, q # p PROVE Member'[q] = Member[q] /\ Owed'[q] = Owed[q]
  <2>1. Owed'[q] = Owed[q]
    BY <1>1, <1>2, MemberIs
  <2>2. q \in Sessions' <=> q \in Sessions
    BY <1>2
  <2>3. q \in backlog' \union {newcomer'} <=> q \in backlog \union {newcomer}
    BY <1>2
  <2>4. Member'[q] = Member[q]
    BY <1>1, <2>2, <2>3, MemberIs
  <2> QED
    BY <2>1, <2>4
<1>3. CASE Failed(p)
  <2>1. Member'[p] = Member[p] /\ Owed'[p] = Owed[p]
    BY <1>1, <1>3, MemberIs
  <2> QED
    BY <1>1, <1>2, <2>1, Nothing
<1>4. CASE ~Failed(p)
  <2>1. Member[p] = "out" /\ Member'[p] = "in"
    BY <1>1, <1>4, MemberIs
  <2>2. PICK g \in {<<>>, <<Hello>>} : down'[p] = g
    BY <1>4
  <2>3. (<<>> \o g) \o <<>> = g
    BY <2>2
  <2>4. Owed'[p] = g
    BY <1>1, <1>4, <2>2, <2>3, MemberIs
  <2>5. Member' = [Member EXCEPT ![p] = "in"]
    <3>1. \A q \in Peer : Member'[q] = IF q = p THEN "in" ELSE Member[q]
      BY <1>2, <2>1
    <3>2. Member = [q \in Peer |-> Member[q]] /\ Member' = [q \in Peer |-> Member'[q]]
      BY DEF Member
    <3> QED
      BY <3>1, <3>2
  <2>6. Owed' = [Owed EXCEPT ![p] = g]
    <3>1. \A q \in Peer : Owed'[q] = IF q = p THEN g ELSE Owed[q]
      BY <1>2, <2>4
    <3>2. Owed = [q \in Peer |-> Owed[q]] /\ Owed' = [q \in Peer |-> Owed'[q]]
      BY DEF Owed
    <3> QED
      BY <3>1, <3>2
  <2>7. Taken' = Taken
    <3>1. Taken = [q \in Peer |-> Taken[q]] /\ Taken' = [q \in Peer |-> Taken'[q]]
      BY DEF Taken
    <3> QED
      BY <1>1, <3>1
  <2>8. Relay!Join(p)
    BY <2>1, <2>2, <2>5, <2>6, <2>7 DEF Relay!Join, Relay!Hello, Hello
  <2> QED
    BY <2>8 DEF RelayStep, Relay!Next
<1> QED
  BY <1>3, <1>4

LEMMA AddClientRelays ==
    ASSUME Shape, NEW p \in Peer, AddClient(p)
    PROVE  RelayStep
<1>1. /\ UNCHANGED <<peer, said, got, newcomer, todo>> /\ p \in backlog /\ backlog' = backlog \ {p}
      /\ down' = [down EXCEPT ![p] = IF Failed(p) THEN @ ELSE Append(@, Hello)]
  BY DEF AddClient, castVars, threadVars
<1>2. talker = NoPeer
  BY DirectAssumption DEF AddClient, Shape, Roles, TypeOK
<1>3. todo = <<>> /\ todo' = <<>>
  BY <1>1, <1>2 DEF Shape, TypeOK
<1>4. got[p] = <<>> /\ down[p] = <<>> /\ peer[p] # "idle" /\ p \notin Sessions
  BY <1>1 DEF Shape, Places
<1>5. \A q \in Peer : down'[q] = IF q = p THEN IF Failed(p) THEN down[p] ELSE Append(down[p], Hello) ELSE down[q]
  BY <1>1 DEF Shape, TypeOK, NetTypeOK
<1>6. ~Failed(p) => down'[p] = <<Hello>>
  BY <1>4, <1>5
<1>7. Sessions' = Sessions \union {p}
  BY AddFacts
<1> QED
  BY <1>1, <1>3, <1>4, <1>5, <1>6, <1>7, Joins

LEMMA PushBackRelays ==
    ASSUME Shape, PushBack
    PROVE  RelayStep
<1>1. /\ UNCHANGED <<peer, said, got, down, backlog, todo>> /\ newcomer' = NoPeer /\ talker = NoPeer
  BY DEF PushBack, MutexFree, netVars, castVars
<1>2. todo = <<>> /\ todo' = <<>>
  BY <1>1 DEF Shape, TypeOK
<1>3. /\ Sessions' = Sessions \union {newcomer} /\ newcomer \in Peer /\ newcomer \notin Sessions
  BY PushFacts
<1>4. got[newcomer] = <<>> /\ down[newcomer] = <<>> /\ peer[newcomer] # "idle"
  BY <1>3 DEF Shape, Places
<1>5. \A q \in Peer : q # newcomer =>
          down'[q] = down[q] /\ (q \in backlog' \union {newcomer'} <=> q \in backlog \union {newcomer})
  BY <1>1, NetAssumption
<1>6. down'[newcomer] = <<>>
  BY <1>1, <1>4
<1> QED
  BY <1>1, <1>2, <1>3, <1>4, <1>5, <1>6, Joins

\* One recv of a talker is broadcast.
LEMMA Starts ==
    ASSUME Shape, NEW t \in Peer, NEW upto \in 0..MaxBytes, said[t] < upto, t \in Talker,
           talker = NoPeer, BroadcastMsg(t, upto),
           UNCHANGED <<peer, down, got, backlog, m_clients, newcomer>>
    PROVE  RelayStep
<1> DEFINE n == upto - said[t]
<1>1. /\ msg' = Chunk(t, said[t], n) /\ n \in 1..MaxBytes /\ (todo' # <<>> => rest' = msg')
      /\ msg' \in Seq(Token) /\ ToSet(todo') = Sessions \ {t} /\ todo' \in Seq(Peer)
      /\ \A p \in Peer : said[p] \in Nat /\ said'[p] = IF p = t THEN upto ELSE said[p]
      /\ said' \in [Peer -> 0..MaxBytes]
  BY BroadcastFacts
<1>2. todo = <<>> /\ said \in [Peer -> 0..MaxBytes] /\ MaxBytes \in Nat
  BY NetAssumption DEF Shape, TypeOK
<1> DEFINE c == Chunk(t, said[t], n)
<1>3. n \in Nat /\ said[t] + n = upto /\ said[t] + n <= MaxBytes
  BY <1>1, <1>2
<1> HIDE DEF n
<1>4. c \in Seq(Token)
  BY <1>1
<1> HIDE DEF c
<1>5. ASSUME NEW p \in Peer
      PROVE  /\ Coming(p) = <<>> /\ Coming(p)' = IF p \in Sessions \ {t} THEN c ELSE <<>>
             /\ (Failed(p)' <=> Failed(p))
  <2>1. Coming(p) = <<>> /\ (Failed(p)' <=> Failed(p))
    BY <1>2 DEF Coming, Failed
  <2>2. msg' = c
    BY <1>1 DEF c
  <2>3. CASE todo' = <<>>
    <3>1. p \notin Sessions \ {t}
      BY <1>1, <2>3, ToSetOfNone
    <3> QED
      BY <2>1, <2>3, <3>1 DEF Coming
  <2>4. CASE todo' # <<>>
    <3>1. Head(todo') \in ToSet(todo')
      BY <1>1, <2>4, ToSetOfTail
    <3>2. Coming(p)' = IF p = Head(todo') THEN rest' ELSE IF p \in ToSet(todo') THEN msg' ELSE <<>>
      BY <2>4 DEF Coming
    <3> QED
      BY <1>1, <2>1, <2>2, <2>4, <3>1, <3>2
  <2> QED
    BY <2>3, <2>4
<1>6. Sessions' = Sessions
  BY DEF Sessions
<1>7. ASSUME NEW p \in Peer PROVE Member'[p] = Member[p] /\ Taken'[p] = Taken[p]
  BY <1>5, <1>6, MemberIs
<1>8. ASSUME NEW p \in Peer PROVE Owed'[p] = IF Member[p] = "in" /\ p # t THEN Owed[p] \o c ELSE Owed[p]
  <2>1. got[p] \in Seq(Token) /\ down[p] \in Seq(Token) /\ got[p] \o down[p] \in Seq(Token)
    BY OwedIs
  <2>2. (got[p] \o down[p]) \o <<>> = got[p] \o down[p]
    BY <2>1, ConcatEmptySeq
  <2>3. CASE Failed(p)
    BY <1>5, <2>3, MemberIs
  <2>4. CASE ~Failed(p)
    <3>1. Owed[p] = got[p] \o down[p] /\ Owed'[p] = (got[p] \o down[p]) \o Coming(p)'
      BY <1>5, <2>2, <2>4, MemberIs
    <3>2. Member[p] = "in" <=> p \in Sessions
      BY <2>4, MemberIs DEF Shape, Places
    <3>3. CASE p \in Sessions \ {t}
      BY <1>5, <3>1, <3>2, <3>3
    <3>4. CASE p \notin Sessions \ {t}
      BY <1>5, <2>2, <3>1, <3>2, <3>4
    <3> QED
      BY <3>3, <3>4
  <2> QED
    BY <2>3, <2>4
<1>9. /\ Owed' = [p \in Peer |-> IF Member[p] = "in" /\ p # t THEN Owed[p] \o c ELSE Owed[p]]
      /\ Member' = Member /\ Taken' = Taken
  <2>1. /\ Owed' = [p \in Peer |-> Owed'[p]]
        /\ Member = [p \in Peer |-> Member[p]] /\ Member' = [p \in Peer |-> Member'[p]]
        /\ Taken = [p \in Peer |-> Taken[p]] /\ Taken' = [p \in Peer |-> Taken'[p]]
    BY DEF Owed, Member, Taken
  <2> QED
    BY <1>7, <1>8, <2>1
<1>10. said' = [said EXCEPT ![t] = @ + n]
  BY <1>1, <1>2, <1>3
<1>11. c = Relay!Chunk(t, said[t], n)
  BY DEF c, Chunk, Relay!Chunk
<1>12. Relay!Broadcast(t, n)
  BY <1>3, <1>9, <1>10, <1>11 DEF Relay!Broadcast
<1> QED
  BY <1>1, <1>12 DEF RelayStep, Relay!Next, n

LEMMA ReceiveMsgRelays ==
    ASSUME Shape, NEW p \in Peer, ReceiveMsg(p)
    PROVE  RelayStep
<1>1. /\ Readable(p) /\ rcvd' = [rcvd EXCEPT ![p] = @ + RecvCount(p)] /\ BroadcastMsg(p, rcvd'[p])
      /\ talker = NoPeer /\ UNCHANGED <<peer, down, got, backlog, m_clients, newcomer>>
  BY DEF ReceiveMsg, NextReady, threadVars
<1>2. rcvd'[p] = rcvd[p] + RecvCount(p) /\ rcvd'[p] \in 0..MaxBytes
  BY <1>1, RecvTypes
<1>3. said[p] < rcvd'[p] /\ p \in Talker
  BY <1>1, <1>2, RecvFacts
<1> QED
  BY <1>1, <1>2, <1>3, Starts

LEMMA BroadcastRelays ==
    ASSUME Shape, NEW p \in Peer, Broadcast(p)
    PROVE  RelayStep
<1>1. /\ BroadcastMsg(p, rcvd[p]) /\ rx[p] = "lock"
      /\ talker = NoPeer /\ UNCHANGED <<peer, down, got, backlog, m_clients, newcomer>>
  BY DEF Broadcast, MutexFree, Goto, netVars
<1>2. /\ said[p] < rcvd[p] /\ rcvd[p] \in 0..MaxBytes /\ said[p] \in Nat
      /\ sent[p] \in Nat /\ rcvd[p] <= sent[p]
  BY <1>1, NetAssumption DEF Shape, TypeOK, NetTypeOK, Talks
<1>3. p \in Talker
  BY <1>2 DEF Shape, Talks
<1> QED
  BY <1>1, <1>2, <1>3, Starts

-----------------------------------------------------------------------------
(* The sends. *)

\* The next session's turn: nothing more is coming to the first one.
LEMMA ComingNext ==
    ASSUME Shape, todo # <<>>, NextSession, msg' = msg, NEW p \in Peer
    PROVE  /\ p # Head(todo) => Coming(p)' = Coming(p)
           /\ p = Head(todo) => Coming(p)' = <<>> /\ Coming(p) = rest
<1>1. todo' = Tail(todo) /\ rest' = IF todo' = <<>> THEN <<>> ELSE msg
  BY DEF NextSession
<1>2. /\ ToSet(todo) = {Head(todo)} \union ToSet(Tail(todo)) /\ Head(todo) \notin ToSet(Tail(todo))
      /\ Tail(todo) \in Seq(Peer)
  BY AtFirst
<1>3. CASE todo' = <<>>
  <2>1. ToSet(todo) = {Head(todo)}
    BY <1>1, <1>2, <1>3, ToSetOfNone
  <2> QED
    BY <1>3, <2>1 DEF Coming
<1>4. CASE todo' # <<>>
  <2>1. Head(todo') \in ToSet(todo')
    BY <1>1, <1>2, <1>4, ToSetOfTail
  <2>2. Coming(p)' = IF p = Head(todo') THEN rest' ELSE IF p \in ToSet(todo') THEN msg' ELSE <<>>
    BY <1>4 DEF Coming
  <2>3. rest' = msg /\ msg' = msg
    BY <1>1, <1>4
  <2>4. Coming(p)' = IF p \in ToSet(todo') THEN msg ELSE <<>>
    BY <2>1, <2>2, <2>3
  <2>5. Coming(p) = IF p = Head(todo) THEN rest ELSE IF p \in ToSet(todo) THEN msg ELSE <<>>
    BY DEF Coming
  <2> QED
    BY <1>1, <1>2, <2>4, <2>5
<1> QED
  BY <1>3, <1>4

LEMMA SendSomeRelays ==
    ASSUME Shape, SendSome
    PROVE  RelayStep
<1>0. PICK q \in Peer : q = Head(todo)
  BY AtFirst DEF SendSome
<1> DEFINE n == SendCount(q, Len(rest))
           x == SubSeq(rest, 1, n)
           y == SubSeq(rest, n + 1, Len(rest))
<1>1. /\ UNCHANGED <<peer, said, got, backlog, m_clients, newcomer, msg>> /\ todo # <<>> /\ Space(q) > 0
      /\ down' = [down EXCEPT ![q] = @ \o x]
      /\ IF n < Len(rest) THEN rest' = y /\ todo' = todo ELSE NextSession
  BY <1>0 DEF SendSome, threadVars
<1>2. n \in 1..Len(rest) /\ rest \in Seq(Token) /\ Len(rest) \in Nat
  BY <1>0, <1>1, SendFacts
<1> HIDE DEF n
<1>3. /\ x \in Seq(Token) /\ y \in Seq(Token) /\ x \o y = rest /\ Len(y) = Len(rest) - n
  BY <1>2, Splits
<1> HIDE DEF x, y
<1>4. /\ Coming(q) = rest /\ Coming(q)' = y
      /\ \A p \in Peer : p # q => Coming(p)' = Coming(p)
  <2>1. CASE n < Len(rest)
    BY <1>0, <1>1, <2>1 DEF Coming
  <2>2. CASE ~(n < Len(rest))
    <3>1. NextSession
      BY <1>1, <2>2
    <3>2. Len(y) = 0
      BY <1>2, <1>3, <2>2
    <3>3. y = <<>>
      BY <1>3, <3>2, EmptySeq
    <3>4. ASSUME NEW p \in Peer PROVE /\ p # q => Coming(p)' = Coming(p)
                                      /\ p = q => Coming(p)' = <<>> /\ Coming(p) = rest
      BY <1>0, <1>1, <3>1, ComingNext
    <3> QED
      BY <3>3, <3>4
  <2> QED
    BY <2>1, <2>2
<1>5. \A p \in Peer : down'[p] = IF p = q THEN down[q] \o x ELSE down[p]
  BY <1>1 DEF Shape, TypeOK, NetTypeOK
<1>6. Sessions' = Sessions
  BY <1>1 DEF Sessions
<1>7. ASSUME NEW p \in Peer PROVE Member'[p] = Member[p] /\ Taken'[p] = Taken[p] /\ (Failed(p)' <=> Failed(p))
  BY <1>1, <1>6, MemberIs DEF Failed
<1>8. ASSUME NEW p \in Peer, p # q PROVE Owed'[p] = Owed[p]
  <2>1. down'[p] = down[p] /\ Coming(p)' = Coming(p)
    BY <1>4, <1>5, <1>8
  <2> QED
    BY <1>1, <1>7, <2>1, MemberIs
<1>9. Owed'[q] = Owed[q]
  <2> DEFINE a == got[q]
             d == down[q]
  <2>1. a \in Seq(Token) /\ d \in Seq(Token)
    BY <1>2, OwedIs
  <2>2. down'[q] = d \o x
    BY <1>2, <1>5
  <2> HIDE DEF a, d
  <2>3. (a \o (d \o x)) \o y = (a \o d) \o (x \o y)
    <3> DEFINE e == a \o d
    <3>1. x \in Seq(Token) /\ y \in Seq(Token)
      BY <1>3
    <3>2. e \in Seq(Token) /\ a \o (d \o x) = e \o x
      <4>1. e \in Seq(Token)
        BY <2>1, ConcatProperties
      <4>2. a \o (d \o x) = (a \o d) \o x
        BY <2>1, <3>1, ConcatAssociative
      <4> QED
        BY <4>1, <4>2
    <3> HIDE DEF e
    <3>3. (e \o x) \o y = e \o (x \o y)
      BY <3>1, <3>2, ConcatAssociative
    <3> QED
      BY <3>2, <3>3 DEF e
  <2>4. a = got[q] /\ d = down[q] /\ got'[q] = a
    BY <1>1 DEF a, d
  <2>5. (got'[q] \o down'[q]) \o Coming(q)' = (got[q] \o down[q]) \o Coming(q)
    BY <1>3, <1>4, <2>2, <2>3, <2>4
  <2>6. (Failed(q)' <=> Failed(q)) /\ got' = got
    BY <1>1, <1>2, <1>7
  <2>7. /\ Owed[q] = (IF Failed(q) THEN got[q] ELSE (got[q] \o down[q]) \o Coming(q))
        /\ Owed'[q] = (IF Failed(q)' THEN got'[q] ELSE (got'[q] \o down'[q]) \o Coming(q)')
    BY <1>2, MemberIs
  <2>8. CASE Failed(q)
    BY <2>6, <2>7, <2>8
  <2>9. CASE ~Failed(q)
    BY <2>5, <2>6, <2>7, <2>9
  <2> QED
    BY <2>8, <2>9
<1> QED
  BY <1>1, <1>7, <1>8, <1>9, Nothing

\* To a broken connection nothing is owed; and a full socket costs its client the rest.
LEMMA GivesUp ==
    ASSUME Shape, SendGivesUp
    PROVE  /\ Failed(Head(todo)) => RelayStep
           /\ ~Failed(Head(todo)) => lost' # {}
           /\ said' = said /\ \A p \in Peer : Begins(Owed'[p], Owed[p])
<1>1. /\ UNCHANGED <<peer, said, got, down, backlog, m_clients, newcomer, msg>> /\ todo # <<>> /\ NextSession
      /\ lost' = IF Failed(Head(todo)) THEN lost ELSE lost \union {Head(todo)}
  BY DEF SendGivesUp, netVars, threadVars
<1>2. Sessions' = Sessions
  BY <1>1 DEF Sessions
<1>3. ASSUME NEW p \in Peer PROVE Member'[p] = Member[p] /\ Taken'[p] = Taken[p] /\ (Failed(p)' <=> Failed(p))
  BY <1>1, <1>2, MemberIs DEF Failed
<1>4. ASSUME NEW p \in Peer, p # Head(todo) \/ Failed(p) PROVE Owed'[p] = Owed[p]
  <2>1. CASE Failed(p)
    BY <1>1, <1>3, <2>1, MemberIs
  <2>2. CASE p # Head(todo)
    <3>1. Coming(p)' = Coming(p)
      BY <1>1, <2>2, ComingNext
    <3> QED
      BY <1>1, <1>3, <3>1, MemberIs
  <2> QED
    BY <1>4, <2>1, <2>2
<1>5. ASSUME Failed(Head(todo)) PROVE RelayStep
  <2>1. \A p \in Peer : Member'[p] = Member[p] /\ Owed'[p] = Owed[p] /\ Taken'[p] = Taken[p]
    BY <1>3, <1>4, <1>5
  <2> QED
    BY <1>1, <2>1, Nothing
<1>6. ASSUME NEW p \in Peer PROVE Begins(Owed'[p], Owed[p])
  <2>1. Owed[p] \in Seq(Token) /\ Len(Owed[p]) \in Nat
    BY OwedIs, LenProperties
  <2>2. CASE p # Head(todo) \/ Failed(p)
    <3>1. Owed'[p] = Owed[p]
      BY <1>4, <2>2
    <3> QED
      BY <2>1, <3>1 DEF Begins
  <2>3. CASE p = Head(todo) /\ ~Failed(p)
    <3> DEFINE g == got[p] \o down[p]
    <3>1. g \in Seq(Token) /\ Coming(p) \in Seq(Token)
      BY OwedIs
    <3>2. Coming(p)' = <<>>
      BY <1>1, <2>3, ComingNext
    <3>3. Owed[p] = g \o Coming(p) /\ Owed'[p] = g \o <<>>
      BY <1>1, <1>3, <2>3, <3>2, MemberIs
    <3> HIDE DEF g
    <3>4. g \o <<>> = g
      BY <3>1, ConcatEmptySeq
    <3>5. /\ Len(g) \in Nat /\ Len(g \o Coming(p)) = Len(g) + Len(Coming(p)) /\ Len(Coming(p)) \in Nat
          /\ \A i \in 1..Len(g) : (g \o Coming(p))[i] = g[i]
      BY <3>1, ConcatFacts
    <3> QED
      BY <3>3, <3>4, <3>5 DEF Begins
  <2> QED
    BY <2>2, <2>3
<1> QED
  BY <1>1, <1>5, <1>6

-----------------------------------------------------------------------------
(* The invariant, and the theorems. *)

LEMMA Initially == Init => IInv
<1> SUFFICES ASSUME Init PROVE IInv
  OBVIOUS
<1>1. /\ \A p \in Peer : peer[p] = "idle" /\ sent[p] = 0 /\ rcvd[p] = 0 /\ down[p] = <<>> /\ got[p] = <<>>
      /\ said = [p \in Peer |-> 0] /\ rx = [p \in Peer |-> "none"]
  BY DEF Init, NetInit
<1>2. <<>> \in Seq(Peer) /\ <<>> \in Seq(Token) /\ NoDup(<<>>) /\ ToSet(<<>>) = {} /\ Len(<<>>) = 0
      /\ Cardinality({}) = 0
  BY EmptySeq, ToSetOfNone, FS_EmptySet DEF NoDup
<1>3. Sessions = {}
  BY <1>2 DEF Init, Sessions
<1>4. NetTypeOK
  BY <1>2, NetAssumption DEF Init, NetInit, NetTypeOK, PeerState
<1>5. CastTypes
  BY <1>1, <1>2, <1>3, NetAssumption DEF Init, CastTypes
<1>6. ThreadTypes
  BY <1>1, <1>2, <1>3, DirectAssumption DEF Init, ThreadTypes, OwnerLocked
<1>7. TypeOK
  BY <1>3, <1>4, <1>5, <1>6 DEF TypeOK, CastTypes, ThreadTypes
<1>8. Roles /\ AtHead
  BY <1>1, DirectAssumption DEF Init, Roles, AtHead
<1>9. Places /\ Talks
  BY <1>1, <1>3, NetAssumption DEF Init, NetInit, Places, Talks
<1>10. Once
  BY <1>2 DEF Init, Once
<1>11. Shape
  BY <1>7, <1>8, <1>9, <1>10 DEF Shape
<1>12. \A p \in Peer : Owed[p] = <<>>
  <2>1. ASSUME NEW p \in Peer PROVE Owed[p] = <<>>
    <3>1. ~Failed(p) /\ Coming(p) = <<>> /\ got[p] = <<>> /\ down[p] = <<>>
      BY <1>1 DEF Init, Failed, Coming
    <3>2. (<<>> \o <<>>) \o <<>> = <<>>
      OBVIOUS
    <3>3. (got[p] \o down[p]) \o Coming(p) = <<>>
      BY <3>1, <3>2
    <3>4. Owed[p] = IF Failed(p) THEN got[p] ELSE (got[p] \o down[p]) \o Coming(p)
      BY MemberIs
    <3> QED
      BY <3>1, <3>3, <3>4
  <2> QED
    BY <2>1, Zenon
<1>13. OneOrder
  BY <1>12 DEF OneOrder, Relay!InOrder, Relay!SameOrder, Relay!NoEcho
<1> QED
  BY <1>11, <1>13 DEF IInv

\* Steps within a thread, and steps that end sessions or connections.
LEMMA QuietSteps ==
    ASSUME Shape, NEW p,
           \/ BroadcastDone \/ Select \/ AcceptDone \/ AcceptEnds
           \/ StopCalled \/ JoinAccept \/ StopLocks \/ StopDrains \/ JoinRx
           \/ p \in Peer /\ (\/ ReceiveMsgEnds(p) \/ Accept(p) \/ Talk(p)
                             \/ RecvCheck(p) \/ Recv(p) \/ RecvEnds(p))
    PROVE  RelayStep
<1> USE DEF netVars, castVars, selectVars, threadVars
<1>1. CASE BroadcastDone
  <2>1. UNCHANGED <<peer, said, down, got, m_clients, backlog, newcomer>> /\ todo = <<>> /\ todo' = <<>>
    BY <1>1 DEF BroadcastDone
  <2> QED
    BY <2>1, Quiet
<1>2. CASE Select
  <2>1. UNCHANGED <<peer, said, down, got, m_clients, backlog, newcomer>> /\ UNCHANGED <<todo, rest, msg>>
    BY <1>2 DEF Select
  <2> QED
    BY <2>1, Quiet
<1>3. CASE AcceptDone
  <2>1. UNCHANGED <<peer, said, down, got, m_clients, backlog, newcomer>> /\ UNCHANGED <<todo, rest, msg>>
    BY <1>3 DEF AcceptDone
  <2> QED
    BY <2>1, Quiet
<1>4. CASE ReceiveMsgEnds(p)
  <2>1. UNCHANGED <<peer, said, down, got, m_clients, backlog, newcomer>> /\ UNCHANGED <<todo, rest, msg>>
    BY <1>4 DEF ReceiveMsgEnds, NextReady
  <2> QED
    BY <2>1, Quiet
<1>5. CASE Accept(p)
  <2>1. /\ UNCHANGED <<peer, said, down, got, m_clients, todo, rest, msg>> /\ p \in backlog
        /\ backlog' = backlog \ {p} /\ newcomer' = p /\ accepter = "accept"
    BY <1>5 DEF Accept
  <2>2. newcomer = NoPeer
    BY <2>1 DEF Shape, Places
  <2>3. \A q \in Peer : q \in backlog' \union {newcomer'} <=> q \in backlog \union {newcomer}
    BY <2>1, <2>2, NetAssumption
  <2> QED
    BY <2>1, <2>3, Quiet
<1>6. CASE AcceptEnds
  <2>1. UNCHANGED <<peer, said, down, got, m_clients, backlog, newcomer>> /\ UNCHANGED <<todo, rest, msg>>
    BY <1>6 DEF AcceptEnds
  <2> QED
    BY <2>1, Quiet
<1>7. CASE RecvCheck(p)
  <2>1. UNCHANGED <<peer, said, down, got, m_clients, backlog, newcomer>> /\ UNCHANGED <<todo, rest, msg>>
    BY <1>7 DEF RecvCheck, Goto
  <2> QED
    BY <2>1, Quiet
<1>8. CASE Recv(p)
  <2>1. UNCHANGED <<peer, said, down, got, m_clients, backlog, newcomer>> /\ UNCHANGED <<todo, rest, msg>>
    BY <1>8 DEF Recv, Goto
  <2> QED
    BY <2>1, Quiet
<1>9. CASE RecvEnds(p)
  <2>1. UNCHANGED <<peer, said, down, got, m_clients, backlog, newcomer>> /\ UNCHANGED <<todo, rest, msg>>
    BY <1>9 DEF RecvEnds, Goto
  <2> QED
    BY <2>1, Quiet
<1>10. CASE StopCalled
  <2>1. UNCHANGED <<peer, said, down, got, m_clients, backlog, newcomer>> /\ UNCHANGED <<todo, rest, msg>>
    BY <1>10 DEF StopCalled, ownerElse
  <2> QED
    BY <2>1, Quiet
<1>11. CASE JoinAccept
  <2>1. UNCHANGED <<peer, said, down, got, m_clients, backlog, newcomer>> /\ UNCHANGED <<todo, rest, msg>>
    BY <1>11 DEF JoinAccept, ownerElse
  <2> QED
    BY <2>1, Quiet
<1>12. CASE StopLocks
  <2>1. UNCHANGED <<peer, said, down, got, m_clients, backlog, newcomer>> /\ UNCHANGED <<todo, rest, msg>>
    BY <1>12 DEF StopLocks, ownerElse
  <2> QED
    BY <2>1, Quiet
<1>13. CASE StopDrains
  <2>1. UNCHANGED <<peer, said, down, got, m_clients, backlog, newcomer>> /\ UNCHANGED <<todo, rest, msg>>
    BY <1>13 DEF StopDrains, ownerElse
  <2> QED
    BY <2>1, Quiet
<1>14. CASE JoinRx
  <2>1. UNCHANGED <<peer, said, down, got, m_clients, backlog, newcomer>> /\ UNCHANGED <<todo, rest, msg>>
    BY <1>14 DEF JoinRx, ownerElse
  <2> QED
    BY <2>1, Quiet
<1>15. CASE Talk(p)
  <2>1. UNCHANGED <<peer, said, down, got, m_clients, backlog, newcomer>> /\ UNCHANGED <<todo, rest, msg>>
    BY <1>15 DEF Talk, PeerSend, srvVars
  <2> QED
    BY <2>1, Quiet
<1> QED
  BY <1>1, <1>2, <1>3, <1>4, <1>5, <1>6, <1>7, <1>8, <1>9, <1>10, <1>11, <1>12, <1>13, <1>14, <1>15

LEMMA ClosingSteps ==
    ASSUME Shape, SelectFails \/ RemoveClosedClients \/ CloseListeners \/ StopNext
    PROVE  RelayStep
<1> USE DEF netVars, castVars, selectVars, threadVars
<1>1. UNCHANGED <<peer, said, down, got, newcomer, todo, rest, msg>> /\ backlog' \subseteq backlog
  BY DEF SelectFails, RemoveClosedClients, CloseListeners, StopNext, ownerElse
<1>2. Sessions' \subseteq Sessions
  <2>1. CASE RemoveClosedClients
    BY <2>1, RemoveFacts
  <2>2. CASE ~RemoveClosedClients
    <3>1. m_clients' = m_clients \/ m_clients' = <<>>
      BY <2>2 DEF SelectFails, CloseListeners, StopNext
    <3> QED
      BY <3>1, ToSetOfNone DEF Sessions
  <2> QED
    BY <2>1, <2>2
<1> QED
  BY <1>1, <1>2, Closing

LEMMA ShapeKept ==
    ASSUME Shape, Next
    PROVE  Shape'
<1>1. CASE SendSome
  BY <1>1, SendSomeShape
<1>2. CASE SendGivesUp
  BY <1>2, SendGivesUpShape
<1>3. CASE BroadcastDone
  BY <1>3, BroadcastDoneShape
<1>4. CASE Select
  BY <1>4, SelectShape
<1>5. CASE SelectFails
  BY <1>5, SelectFailsShape
<1>6. CASE AcceptDone
  BY <1>6, AcceptDoneShape
<1>7. CASE RemoveClosedClients
  BY <1>7, RemoveClosedClientsShape
<1>8. CASE PushBack
  BY <1>8, PushBackShape
<1>9. CASE AcceptEnds
  BY <1>9, AcceptEndsShape
<1>10. CASE StopCalled
  BY <1>10, StopCalledShape
<1>11. CASE CloseListeners
  BY <1>11, CloseListenersShape
<1>12. CASE JoinAccept
  BY <1>12, JoinAcceptShape
<1>13. CASE StopLocks
  BY <1>13, StopLocksShape
<1>14. CASE StopNext
  BY <1>14, StopNextShape
<1>15. CASE StopDrains
  BY <1>15, StopDrainsShape
<1>16. CASE JoinRx
  BY <1>16, JoinRxShape
<1>17. ASSUME NEW p \in Peer, AddClient(p) PROVE Shape'
  BY <1>17, AddClientShape
<1>18. ASSUME NEW p \in Peer, ReceiveMsg(p) PROVE Shape'
  BY <1>18, ReceiveMsgShape
<1>19. ASSUME NEW p \in Peer, ReceiveMsgEnds(p) PROVE Shape'
  BY <1>19, ReceiveMsgEndsShape
<1>20. ASSUME NEW p \in Peer, Accept(p) PROVE Shape'
  BY <1>20, AcceptShape
<1>21. ASSUME NEW p \in Peer, RecvCheck(p) PROVE Shape'
  BY <1>21, RecvCheckShape
<1>22. ASSUME NEW p \in Peer, Recv(p) PROVE Shape'
  BY <1>22, RecvShape
<1>23. ASSUME NEW p \in Peer, RecvEnds(p) PROVE Shape'
  BY <1>23, RecvEndsShape
<1>24. ASSUME NEW p \in Peer, Broadcast(p) PROVE Shape'
  BY <1>24, BroadcastShape
<1>25. ASSUME NEW p \in Peer, Connect(p) PROVE Shape'
  BY <1>25, ConnectShape
<1>26. ASSUME NEW p \in Peer, Talk(p) PROVE Shape'
  BY <1>26, TalkShape
<1>27. ASSUME NEW p \in Peer, HangUp(p) PROVE Shape'
  BY <1>27, HangUpShape
<1>28. ASSUME NEW p \in Peer, Listen(p) PROVE Shape'
  BY <1>28, ListenShape
<1> QED
  BY <1>1, <1>2, <1>3, <1>4, <1>5, <1>6, <1>7, <1>8, <1>9, <1>10,
     <1>11, <1>12, <1>13, <1>14, <1>15, <1>16, <1>17, <1>18, <1>19, <1>20,
     <1>21, <1>22, <1>23, <1>24, <1>25, <1>26, <1>27, <1>28
     DEF Next, Sender, Loop, Accepter, Receiver, Stop, Peers

\* But for SendGivesUp, whatever bytes are lost.
LEMMA Steps ==
    ASSUME Shape, Next
    PROVE  SendGivesUp \/ RelayStep
<1>1. CASE SelectFails \/ RemoveClosedClients \/ CloseListeners \/ StopNext
  BY <1>1, ClosingSteps
<1>2. CASE SendSome
  BY <1>2, SendSomeRelays
<1>3. CASE PushBack
  BY <1>3, PushBackRelays
<1>4. ASSUME NEW p \in Peer,
             AddClient(p) \/ ReceiveMsg(p) \/ Broadcast(p) \/ Connect(p) \/ HangUp(p) \/ Listen(p)
      PROVE  RelayStep
  BY <1>4, AddClientRelays, ReceiveMsgRelays, BroadcastRelays, ConnectRelays, HangUpRelays, ListenRelays
<1>5. CASE BroadcastDone \/ Select \/ AcceptDone \/ AcceptEnds \/ StopCalled \/ JoinAccept \/ StopLocks
           \/ StopDrains \/ JoinRx
  BY <1>5, QuietSteps
<1>6. ASSUME NEW p \in Peer,
             ReceiveMsgEnds(p) \/ Accept(p) \/ RecvCheck(p) \/ Recv(p) \/ RecvEnds(p) \/ Talk(p)
      PROVE  RelayStep
  BY <1>6, QuietSteps
<1> QED
  BY <1>1, <1>2, <1>3, <1>4, <1>5, <1>6 DEF Next, Sender, Loop, Accepter, Receiver, Stop, Peers

LEMMA OrderKept ==
    ASSUME IInv, Next
    PROVE  OneOrder'
<1>1. Shape /\ Shape' /\ OneOrder
  BY ShapeKept DEF IInv
<1>2. CASE RelayStep
  BY <1>1, <1>2, KeepsOrder
<1>3. CASE SendGivesUp
  <2>1. said' = said /\ \A p \in Peer : Begins(Owed'[p], Owed[p])
    BY <1>1, <1>3, GivesUp
  <2>2. \A p \in Peer : said[p] \in Nat /\ said'[p] \in Nat /\ said[p] <= said'[p]
    BY <1>1, <2>1, NetAssumption DEF Shape, TypeOK
  <2>3. Streams(Owed) /\ Streams(Owed')
    BY <1>1, StreamsOwed, StreamsNext DEF Streams
  <2>4. Orders(Owed, said)
    BY <1>1, <2>3, OneOrderIs
  <2>5. Orders(Owed', said')
    BY <2>1, <2>2, <2>3, <2>4, CutOrders
  <2> QED
    BY <2>5 DEF OneOrder, Orders, Foreign, Ascends, Agrees, Relay!InOrder, Relay!SameOrder, Relay!NoEcho,
                Relay!Hello, Hello
<1> QED
  BY <1>1, <1>2, <1>3, Steps

LEMMA Stutters ==
    ASSUME UNCHANGED vars
    PROVE  (IInv => IInv') /\ UNCHANGED <<Member, said, Owed, Taken>>
<1> USE DEF vars, netVars, srvVars, castVars, selectVars, threadVars
<1>1. Sessions' = Sessions
  BY DEF Sessions
<1>2. UNCHANGED <<Member, said, Owed, Taken>>
  <2>1. \A p \in Peer : (Failed(p)' <=> Failed(p)) /\ Coming(p)' = Coming(p)
    BY DEF Failed, Coming
  <2> QED
    BY <1>1, <2>1 DEF Member, Owed, Taken
<1>3. ASSUME Shape PROVE Shape'
  <2>1. NetTypeOK' /\ CastTypes'
    BY <1>1, <1>3 DEF Shape, TypeOK, NetTypeOK, CastTypes
  <2>2. ThreadTypes'
    BY <1>1, <1>3 DEF Shape, TypeOK, ThreadTypes, OwnerLocked
  <2>3. TypeOK'
    BY <2>1, <2>2 DEF TypeOK, CastTypes, ThreadTypes
  <2>4. Roles' /\ Talks' /\ Once' /\ AtHead'
    BY <1>3 DEF Shape, Roles, Talks, Once, AtHead
  <2>5. Places'
    BY <1>1, <1>3 DEF Shape, Places
  <2> QED
    BY <2>3, <2>4, <2>5 DEF Shape
<1>4. OneOrder => OneOrder'
  BY <1>2 DEF OneOrder, Relay!InOrder, Relay!SameOrder, Relay!NoEcho
<1> QED
  BY <1>2, <1>3, <1>4 DEF IInv

(* The sessions are listed once and their threads where they may be; and whatever the
   full sockets cost, the streams are in one order. *)
THEOREM Inductive == Spec => []IInv
<1>1. Init => IInv
  BY Initially
<1>2. IInv /\ [Next]_vars => IInv'
  <2>1. ASSUME IInv, Next PROVE IInv'
    BY <2>1, ShapeKept, OrderKept DEF IInv
  <2>2. ASSUME IInv, UNCHANGED vars PROVE IInv'
    BY <2>2, Stutters
  <2> QED
    BY <2>1, <2>2
<1> QED
  BY <1>1, <1>2, PTL DEF Spec

(* One thread at a time is in what m_clientsMutex protects, a broadcast reaches
   sessions only, and what arrives comes from somebody else, in the order of its
   sender and in one order for all, also when a full socket has cost bytes. *)
THEOREM Invariant == Spec => []Inv
<1>1. IInv => Inv
  BY DEF IInv, Inv, Shape
<1> QED
  BY <1>1, Inductive, PTL

(* Accept, Broadcast with its blocking sends, the ends of sessions and Stop make the
   relay, in the select server until a send finds a full socket. *)
THEOREM Relays == Spec => ImplementsRelay
<1>1. IInv /\ [Next]_vars => [lost' = {} => Relay!Next]_<<Member, said, Owed, Taken>>
  <2>1. ASSUME IInv, Next PROVE [lost' = {} => Relay!Next]_<<Member, said, Owed, Taken>>
    <3>1. Shape
      BY <2>1 DEF IInv
    <3>2. CASE RelayStep
      BY <3>2 DEF RelayStep
    <3>3. CASE SendGivesUp
      BY <3>1, <3>3, GivesUp DEF RelayStep
    <3> QED
      BY <2>1, <3>1, <3>2, <3>3, Steps
  <2>2. ASSUME IInv, UNCHANGED vars PROVE [lost' = {} => Relay!Next]_<<Member, said, Owed, Taken>>
    BY <2>2, Stutters
  <2> QED
    BY <2>1, <2>2
<1> QED
  BY <1>1, Inductive, PTL DEF Spec, ImplementsRelay
=============================================================================
