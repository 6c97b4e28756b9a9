-------------------------- MODULE ChatRelayProofs --------------------------
(***************************************************************************)
(* The promises of ChatRelay hold for any set of peers and any MaxSaid.    *)
(***************************************************************************)
EXTENDS ChatRelay, Integers, TLAPS

(* A peer that has not joined is owed nothing, so nothing is left over for a
   session that begins. *)
FreshStart == \A p \in Peer : state[p] = "out" => owed[p] = <<>>

(* The inductive invariant.  NoGap leans on InOrder (a closing session cuts a
   stream short) and on NoEcho (what is new to one stream is new to all). *)
IInv == TypeOK /\ FreshStart /\ NoEcho /\ InOrder /\ NoGap /\ SameOrder

-----------------------------------------------------------------------------

(* Chunk lists n tokens of s. *)
LEMMA ChunkFacts ==
    ASSUME NEW s \in Peer, NEW k \in Nat, NEW n \in Nat
    PROVE  /\ Chunk(s, k, n) \in Seq(Token)
           /\ Len(Chunk(s, k, n)) = n
           /\ \A i \in 1..n : Chunk(s, k, n)[i] = <<s, k + i>>
<1>1. \A i \in 1..n : <<s, k + i>> \in Token
  BY DEF Token
<1> QED  BY <1>1 DEF Chunk

(* A length is a number. *)
LEMMA LenIsNat == ASSUME NEW q \in Seq(Token) PROVE Len(q) \in Nat
  OBVIOUS

(* The elements of a concatenation. *)
LEMMA ConcatFacts ==
    ASSUME NEW q \in Seq(Token), NEW c \in Seq(Token)
    PROVE  /\ q \o c \in Seq(Token)
           /\ Len(q \o c) = Len(q) + Len(c)
           /\ \A i \in 1..Len(q) : (q \o c)[i] = q[i]
           /\ \A i \in (Len(q) + 1)..(Len(q) + Len(c)) : (q \o c)[i] = c[i - Len(q)]
  OBVIOUS

(* The elements of a stream that was cut. *)
LEMMA CutFacts ==
    ASSUME NEW q \in Seq(Token), NEW n \in 0..Len(q)
    PROVE  LET r == SubSeq(q, 1, n)
           IN  /\ r \in Seq(Token)
               /\ Len(r) = n
               /\ \A i \in 1..n : r[i] = q[i]
  OBVIOUS

LEMMA InitInv == Init => IInv
<1> SUFFICES ASSUME Init PROVE IInv
  OBVIOUS
<1> USE RelayAssumption DEF Init
<1>1. TypeOK
  BY DEF TypeOK
<1>2. FreshStart
  BY DEF FreshStart
<1>3. NoEcho /\ InOrder /\ SameOrder
  BY DEF NoEcho, InOrder, SameOrder
<1>4. NoGap
  BY DEF NoGap, Tokens
<1> QED  BY <1>1, <1>2, <1>3, <1>4 DEF IInv

(* Accepting a peer starts its stream afresh, with the greeting or nothing. *)
LEMMA JoinInv == ASSUME IInv, NEW p \in Peer, Join(p) PROVE IInv'
<1> USE RelayAssumption DEF IInv
<1>1. PICK greeting \in {<<>>, <<Hello>>} : owed' = [owed EXCEPT ![p] = greeting]
  BY DEF Join
<1>2. greeting \in Seq(Token) /\ Len(greeting) <= 1
  <2>1. Hello \in Token
    BY DEF Hello, Token
  <2>2. CASE greeting = <<>>
    BY <2>2
  <2>3. CASE greeting = <<Hello>>
    BY <2>1, <2>3
  <2> QED  BY <2>2, <2>3
<1>3. \A i \in 1..Len(greeting) : greeting[i] = Hello
  OBVIOUS
<1>4. /\ owed' \in [Peer -> Seq(Token)]
      /\ owed'[p] = greeting
      /\ \A q \in Peer \ {p} : owed'[q] = owed[q] /\ state'[q] = state[q]
      /\ state'[p] = "in" /\ said' = said /\ taken' = taken
  BY <1>1, <1>2 DEF TypeOK, Join
<1>5. TypeOK'
  <2>1. owed[p] = <<>> /\ taken[p] = 0
    BY DEF Join, FreshStart, TypeOK
  <2> QED  BY <1>2, <1>4, <2>1 DEF TypeOK, Join
<1>6. FreshStart'
  BY <1>4 DEF FreshStart
<1>7. NoEcho'
  BY <1>3, <1>4 DEF NoEcho
<1>8. InOrder'
  <2> SUFFICES ASSUME NEW q \in Peer, NEW i \in 1..Len(owed'[q]), NEW j \in 1..Len(owed'[q]), i < j
               PROVE  /\ owed'[q][j] # Hello
                      /\ owed'[q][i][1] = owed'[q][j][1] => owed'[q][i][2] < owed'[q][j][2]
    BY DEF InOrder
  <2>1. ASSUME q = p PROVE FALSE
    <3>1. i \in 1..Len(greeting) /\ j \in 1..Len(greeting)
      BY <2>1, <1>4
    <3> QED  BY <3>1, <1>2
  <2> QED  BY <2>1, <1>4 DEF InOrder
<1>9. NoGap'
  <2> SUFFICES ASSUME NEW q \in Peer, NEW s \in Peer, NEW k \in 1..MaxSaid, NEW m \in 1..MaxSaid,
                      k < m, <<s, k>> \in Tokens(q)',
                      <<s, m>> \in Tokens(q)' \/ (state'[q] = "in" /\ m <= said'[s])
               PROVE  <<s, k + 1>> \in Tokens(q)'
    BY DEF NoGap
  <2>1. CASE q = p
    BY <2>1, <1>3, <1>4 DEF Tokens, Hello
  <2>2. CASE q # p
    <3>1. Tokens(q)' = Tokens(q)
      BY <2>2, <1>4 DEF Tokens
    <3>2. state'[q] = state[q] /\ said' = said
      BY <2>2, <1>4
    <3> QED  BY <3>1, <3>2 DEF NoGap
  <2> QED  BY <2>1, <2>2
<1>10. SameOrder'
  <2> SUFFICES ASSUME NEW q \in Peer, NEW r \in Peer,
                      NEW i \in 1..Len(owed'[q]), NEW j \in 1..Len(owed'[q]),
                      NEW k \in 1..Len(owed'[r]), NEW l \in 1..Len(owed'[r]),
                      owed'[q][i] = owed'[r][k], owed'[q][j] = owed'[r][l], i < j
               PROVE  k < l
    BY DEF SameOrder
  <2>1. q # p
    BY <1>2, <1>4 DEF TypeOK
  <2>2. r # p
    BY <2>1, <1>3, <1>4 DEF InOrder, TypeOK
  <2>3. owed'[q] = owed[q] /\ owed'[r] = owed[r]
    BY <2>1, <2>2, <1>4
  <2> QED  BY <2>3 DEF SameOrder
<1> QED  BY <1>5, <1>6, <1>7, <1>8, <1>9, <1>10

(* Taking what is owed changes none of the streams. *)
LEMMA DeliverInv == ASSUME IInv, NEW p \in Peer, Deliver(p) PROVE IInv'
<1> USE DEF IInv, Deliver
<1>1. TypeOK'
  BY DEF TypeOK
<1>2. (FreshStart /\ NoEcho /\ InOrder /\ SameOrder)'
  BY DEF FreshStart, NoEcho, InOrder, SameOrder
<1>3. NoGap'
  <2>1. \A q \in Peer : Tokens(q)' = Tokens(q)
    BY DEF Tokens
  <2> QED  BY <2>1 DEF NoGap
<1> QED  BY <1>1, <1>2, <1>3

(* A broadcast appends the same new bytes to every other member's stream. *)
LEMMA BroadcastInv ==
    ASSUME IInv, NEW s \in Talker, NEW n \in 1..MaxSaid, Broadcast(s, n) PROVE IInv'
<1> USE RelayAssumption DEF IInv
<1> DEFINE Gets(p) == state[p] = "in" /\ p # s
<1>1. s \in Peer /\ said[s] \in Nat /\ n \in Nat /\ said[s] + n <= MaxSaid
  BY DEF TypeOK, Broadcast
<1>2. /\ state' = state /\ taken' = taken
      /\ said' \in [Peer -> 0..MaxSaid] /\ said'[s] = said[s] + n
      /\ \A q \in Peer \ {s} : said'[q] = said[q]
  BY <1>1 DEF TypeOK, Broadcast
<1>0. \A p \in Peer : owed[p] \in Seq(Token)
  BY DEF TypeOK
<1>3. \A p \in Peer : Len(owed[p]) \in Nat
  BY <1>0, LenIsNat
<1>4. ASSUME NEW p \in Peer, Gets(p)
      PROVE  /\ owed'[p] \in Seq(Token)
             /\ Len(owed'[p]) = Len(owed[p]) + n
             /\ \A i \in 1..Len(owed[p]) : owed'[p][i] = owed[p][i]
             /\ \A i \in (Len(owed[p]) + 1)..(Len(owed[p]) + n) :
                   owed'[p][i] = <<s, said[s] + (i - Len(owed[p]))>>
  <2> DEFINE c == Chunk(s, said[s], n)
             q == owed[p]
             r == owed'[p]
  <2>1. r = q \o c
    BY <1>4 DEF Broadcast
  <2>2. c \in Seq(Token) /\ Len(c) = n /\ \A i \in 1..n : c[i] = <<s, said[s] + i>>
    <3>1. s \in Peer /\ said[s] \in Nat /\ n \in Nat
      BY <1>1
    <3> HIDE RelayAssumption DEF IInv
    <3> QED  BY <3>1, ChunkFacts
  <2>3. q \in Seq(Token) /\ Len(q) \in Nat
    BY <1>0, <1>3
  <2> HIDE DEF c, q, r
  <2>4. /\ r \in Seq(Token)
        /\ Len(r) = Len(q) + n
        /\ \A i \in 1..Len(q) : r[i] = q[i]
        /\ \A i \in (Len(q) + 1)..(Len(q) + n) : r[i] = c[i - Len(q)]
    BY <2>1, <2>2, <2>3, ConcatFacts
  <2>5. \A i \in (Len(q) + 1)..(Len(q) + n) : i - Len(q) \in 1..n
    BY <1>1, <2>3
  <2>6. \A i \in (Len(q) + 1)..(Len(q) + n) : r[i] = <<s, said[s] + (i - Len(q))>>
    BY <2>2, <2>4, <2>5
  <2> QED  BY <2>4, <2>6 DEF q, r
<1>5. \A p \in Peer : ~Gets(p) => owed'[p] = owed[p]
  BY DEF Broadcast
<1>6. TypeOK'
  <2>1. owed' \in [Peer -> Seq(Token)]
    <3>1. \A p \in Peer : owed'[p] \in Seq(Token)
      BY <1>0, <1>4, <1>5
    <3> QED  BY <3>1 DEF Broadcast
  <2>2. ASSUME NEW p \in Peer PROVE taken'[p] <= Len(owed'[p])
    <3>1. taken[p] \in Nat /\ taken[p] <= Len(owed[p])
      BY DEF TypeOK
    <3> QED  BY <3>1, <1>1, <1>2, <1>3, <1>4, <1>5
  <2> QED  BY <2>1, <2>2, <1>2 DEF TypeOK
<1>7. FreshStart'
  BY <1>2, <1>5 DEF FreshStart
\* An old position holds an old token, a new position a new one.
<1>8. ASSUME NEW p \in Peer, NEW i \in 1..Len(owed[p]), owed[p][i][1] = s
      PROVE  owed[p][i][2] \in 1..said[s]
  <2>1. owed[p][i] # Hello
    BY <1>1, <1>8 DEF Hello
  <2> QED  BY <2>1, <1>8 DEF NoEcho
<1>9. NoEcho'
  <2> SUFFICES ASSUME NEW p \in Peer, NEW i \in 1..Len(owed'[p])
               PROVE  \/ owed'[p][i] = Hello
                      \/ /\ owed'[p][i][1] \in Peer \ {p}
                         /\ owed'[p][i][2] \in 1..said'[owed'[p][i][1]]
    BY DEF NoEcho
  <2>1. CASE i \in 1..Len(owed[p])
    <3>1. owed'[p][i] = owed[p][i]
      BY <2>1, <1>4, <1>5
    <3>2. CASE owed[p][i] = Hello
      BY <3>1, <3>2
    <3>3. CASE owed[p][i] # Hello
      <4>1. owed[p][i][1] \in Peer \ {p} /\ owed[p][i][2] \in 1..said[owed[p][i][1]]
        BY <2>1, <3>3 DEF NoEcho
      <4>2. \A q \in Peer : said[q] \in Nat /\ said'[q] \in Nat /\ said[q] <= said'[q]
        <5>1. \A q \in Peer : said[q] \in Nat
          BY DEF TypeOK
        <5>2. said'[s] \in Nat /\ said[s] <= said'[s]
          BY <1>1, <1>2
        <5>3. \A q \in Peer \ {s} : said'[q] \in Nat /\ said[q] <= said'[q]
          BY <1>2, <5>1
        <5> QED  BY <5>1, <5>2, <5>3
      <4> QED  BY <3>1, <4>1, <4>2
    <3> QED  BY <3>2, <3>3
  <2>2. CASE i \notin 1..Len(owed[p])
    <3>1. Gets(p) /\ i \in (Len(owed[p]) + 1)..(Len(owed[p]) + n)
      BY <2>2, <1>1, <1>3, <1>4, <1>5
    <3>2. owed'[p][i] = <<s, said[s] + (i - Len(owed[p]))>>
      BY <3>1, <1>4
    <3>3. owed'[p][i][1] = s /\ owed'[p][i][2] = said[s] + (i - Len(owed[p]))
      BY <3>2
    <3>4. Len(owed[p]) \in Nat /\ i - Len(owed[p]) \in 1..n
      BY <3>1, <1>3, <1>1
    <3>5. said[s] + (i - Len(owed[p])) \in 1..(said[s] + n)
      <4>1. \A d \in 1..n : said[s] + d \in 1..(said[s] + n)
        BY <1>1
      <4> QED  BY <3>4, <4>1
    <3> QED  BY <3>1, <3>3, <3>5, <1>1, <1>2
  <2> QED  BY <2>1, <2>2
<1>10. InOrder'
  <2> SUFFICES ASSUME NEW p \in Peer, NEW i \in 1..Len(owed'[p]), NEW j \in 1..Len(owed'[p]), i < j
               PROVE  /\ owed'[p][j] # Hello
                      /\ owed'[p][i][1] = owed'[p][j][1] => owed'[p][i][2] < owed'[p][j][2]
    BY DEF InOrder
  <2>1. CASE ~Gets(p) \/ j \in 1..Len(owed[p])
    <3>1. i \in 1..Len(owed[p]) /\ j \in 1..Len(owed[p])
      BY <2>1, <1>3, <1>5
    <3>2. owed'[p][i] = owed[p][i] /\ owed'[p][j] = owed[p][j]
      BY <3>1, <1>4, <1>5
    <3> QED  BY <3>1, <3>2 DEF InOrder
  <2>2. CASE Gets(p) /\ j \notin 1..Len(owed[p])
    <3>1. j \in (Len(owed[p]) + 1)..(Len(owed[p]) + n)
      BY <2>2, <1>1, <1>3, <1>4
    <3>2. owed'[p][j] = <<s, said[s] + (j - Len(owed[p]))>>
      BY <3>1, <2>2, <1>4
    <3>3. owed'[p][j] # Hello
      BY <3>2, <1>1 DEF Hello
    <3>4. CASE i \in 1..Len(owed[p])
      <4>1. owed'[p][i] = owed[p][i]
        BY <3>4, <2>2, <1>4
      <4>2. owed[p][i][1] = s => owed[p][i][2] \in 1..said[s]
        BY <3>4, <1>8
      <4>3. j - Len(owed[p]) \in 1..n
        BY <3>1, <1>1, <1>3
      <4>4. owed'[p][j][1] = s /\ owed'[p][j][2] = said[s] + (j - Len(owed[p]))
        BY <3>2
      <4>5. \A x \in 1..said[s] : x < said[s] + (j - Len(owed[p]))
        BY <4>3, <1>1
      <4> QED  BY <3>3, <4>1, <4>2, <4>4, <4>5
    <3>5. CASE i \notin 1..Len(owed[p])
      <4>1. i \in (Len(owed[p]) + 1)..(Len(owed[p]) + n)
        BY <3>5, <2>2, <1>1, <1>3, <1>4
      <4>2. owed'[p][i] = <<s, said[s] + (i - Len(owed[p]))>>
        BY <4>1, <2>2, <1>4
      <4>3. owed'[p][i][2] = said[s] + (i - Len(owed[p]))
        BY <4>2
      <4>4. owed'[p][j][2] = said[s] + (j - Len(owed[p]))
        BY <3>2
      <4>5. said[s] + (i - Len(owed[p])) < said[s] + (j - Len(owed[p]))
        BY <3>1, <4>1, <1>1, <1>3
      <4> QED  BY <3>3, <4>3, <4>4, <4>5
    <3> QED  BY <3>4, <3>5
  <2> QED  BY <2>1, <2>2
<1>11. NoGap'
  <2> SUFFICES ASSUME NEW p \in Peer, NEW r \in Peer, NEW k \in 1..MaxSaid, NEW m \in 1..MaxSaid,
                      k < m, <<r, k>> \in Tokens(p)',
                      <<r, m>> \in Tokens(p)' \/ (state'[p] = "in" /\ m <= said'[r])
               PROVE  <<r, k + 1>> \in Tokens(p)'
    BY DEF NoGap
  <2>1. CASE ~Gets(p)
    <3>1. Tokens(p)' = Tokens(p)
      BY <2>1, <1>5 DEF Tokens
    <3>2. CASE r = s /\ p = s
      <4>1. \A i \in 1..Len(owed[p]) : owed[p][i][1] # p
        BY RelayAssumption DEF NoEcho, Hello
      <4>2. PICK i \in 1..Len(owed[p]) : owed[p][i] = <<r, k>>
        BY <3>1 DEF Tokens
      <4> QED  BY <3>2, <4>1, <4>2
    <3>3. CASE r # s \/ state[p] # "in"
      BY <3>1, <3>3, <1>2 DEF NoGap
    <3> QED  BY <3>2, <3>3, <2>1
  <2>2. CASE Gets(p) /\ r # s
    <3>1. \A c \in Nat : <<r, c>> \in Tokens(p)' <=> <<r, c>> \in Tokens(p)
      <4> TAKE c \in Nat
      <4>1. ASSUME NEW i \in 1..Len(owed'[p]), owed'[p][i] = <<r, c>>
            PROVE  i \in 1..Len(owed[p]) /\ owed[p][i] = <<r, c>>
        <5>1. CASE i \in 1..Len(owed[p])
          BY <4>1, <5>1, <2>2, <1>4
        <5>2. CASE i \notin 1..Len(owed[p])
          <6>1. i \in (Len(owed[p]) + 1)..(Len(owed[p]) + n)
            BY <5>2, <2>2, <1>1, <1>3, <1>4
          <6> QED  BY <6>1, <4>1, <2>2, <1>4
        <5> QED  BY <5>1, <5>2
      <4>2. ASSUME NEW i \in 1..Len(owed[p]), owed[p][i] = <<r, c>>
            PROVE  i \in 1..Len(owed'[p]) /\ owed'[p][i] = <<r, c>>
        <5>1. Len(owed'[p]) = Len(owed[p]) + n /\ owed'[p][i] = owed[p][i]
          BY <2>2, <1>4
        <5> QED  BY <5>1, <4>2, <1>1, <1>3
      <4> QED  BY <4>1, <4>2 DEF Tokens
    <3>2. said'[r] = said[r]
      BY <2>2, <1>2
    <3>3. <<r, k + 1>> \in Tokens(p)
      BY <3>1, <3>2, <1>2 DEF NoGap
    <3> QED  BY <3>1, <3>3
  <2>3. CASE Gets(p) /\ r = s
    <3>1. m <= said[s] + n
      <4>1. ASSUME NEW i \in 1..Len(owed'[p]), owed'[p][i] = <<r, m>> PROVE m <= said'[s]
        <5>1. r \in Peer /\ owed'[p][i] # Hello
          BY <4>1, <1>1 DEF Hello
        <5>2. owed'[p][i][2] \in 1..said'[owed'[p][i][1]]
          BY <5>1, <1>9 DEF NoEcho
        <5>3. owed'[p][i][1] = s /\ owed'[p][i][2] = m
          BY <4>1, <2>3
        <5> QED  BY <5>2, <5>3
      <4>2. m <= said'[s]
        BY <4>1, <2>3, <1>2 DEF Tokens
      <4> QED  BY <4>2, <1>2
    <3>2. CASE k + 1 > said[s]
      <4> DEFINE i == Len(owed[p]) + (k + 1 - said[s])
      <4>1. i \in (Len(owed[p]) + 1)..(Len(owed[p]) + n)
        <5>1. Len(owed[p]) \in Nat
          BY <1>3
        <5>2. k + 1 - said[s] \in 1..n
          BY <3>1, <3>2, <1>1
        <5>3. \A x \in Nat, y \in 1..n : x + y \in (x + 1)..(x + n)
          OBVIOUS
        <5> QED  BY <5>1, <5>2, <5>3
      <4>2. owed'[p][i] = <<s, said[s] + (i - Len(owed[p]))>>
        BY <4>1, <2>3, <1>4
      <4>3. said[s] + (i - Len(owed[p])) = k + 1
        BY <1>1, <1>3
      <4>4. i \in 1..Len(owed'[p])
        <5>1. Len(owed'[p]) = Len(owed[p]) + n /\ Len(owed[p]) \in Nat
          BY <2>3, <1>3, <1>4
        <5> QED  BY <5>1, <4>1, <1>1
      <4> HIDE DEF i
      <4> QED  BY <4>2, <4>3, <4>4, <2>3 DEF Tokens
    <3>3. CASE k + 1 <= said[s]
      <4>1. PICK i \in 1..Len(owed'[p]) : owed'[p][i] = <<s, k>>
        BY <2>3 DEF Tokens
      <4>2. i \in 1..Len(owed[p])
        <5> SUFFICES ASSUME i \notin 1..Len(owed[p]) PROVE FALSE
          OBVIOUS
        <5>1. i \in (Len(owed[p]) + 1)..(Len(owed[p]) + n)
          BY <2>3, <1>1, <1>3, <1>4
        <5>2. owed'[p][i] = <<s, said[s] + (i - Len(owed[p]))>>
          BY <5>1, <2>3, <1>4
        <5>3. k = said[s] + (i - Len(owed[p]))
          BY <5>2, <4>1
        <5>4. i - Len(owed[p]) >= 1
          BY <5>1, <1>3
        <5> QED  BY <5>3, <5>4, <3>3, <1>1
      <4>3. <<s, k>> \in Tokens(p)
        BY <4>1, <4>2, <2>3, <1>4 DEF Tokens
      <4>4. <<s, k + 1>> \in Tokens(p)
        <5>1. k + 1 \in 1..MaxSaid /\ k < k + 1
          BY <3>3, <1>1
        <5> QED  BY <5>1, <4>3, <3>3, <2>3, <1>1 DEF NoGap
      <4>5. PICK l \in 1..Len(owed[p]) : owed[p][l] = <<s, k + 1>>
        BY <4>4 DEF Tokens
      <4>6. l \in 1..Len(owed'[p]) /\ owed'[p][l] = <<s, k + 1>>
        <5>1. Len(owed'[p]) = Len(owed[p]) + n /\ owed'[p][l] = owed[p][l]
          BY <2>3, <1>4
        <5> QED  BY <5>1, <4>5, <1>1, <1>3
      <4> QED  BY <4>6, <2>3 DEF Tokens
    <3> QED  BY <3>2, <3>3, <1>1
  <2> QED  BY <2>1, <2>2, <2>3
\* Where a token of one stream is old, the same token of another is.
<1>12. ASSUME NEW p \in Peer, NEW q \in Peer,
              NEW i \in 1..Len(owed'[p]), NEW k \in 1..Len(owed'[q]), owed'[p][i] = owed'[q][k],
              i \in 1..Len(owed[p])
       PROVE  k \in 1..Len(owed[q])
  <2> SUFFICES ASSUME k \notin 1..Len(owed[q]) PROVE FALSE
    OBVIOUS
  <2>1. Gets(q) /\ k \in (Len(owed[q]) + 1)..(Len(owed[q]) + n)
    BY <1>1, <1>3, <1>4, <1>5
  <2>2. owed'[q][k] = <<s, said[s] + (k - Len(owed[q]))>>
    BY <2>1, <1>4
  <2>3. owed[p][i] = <<s, said[s] + (k - Len(owed[q]))>>
    BY <2>2, <1>4, <1>5, <1>12
  <2>4. owed[p][i][2] <= said[s]
    BY <2>3, <1>8, <1>12
  <2> QED  BY <2>1, <2>3, <2>4, <1>1, <1>3
<1>13. SameOrder'
  <2> SUFFICES ASSUME NEW p \in Peer, NEW q \in Peer,
                      NEW i \in 1..Len(owed'[p]), NEW j \in 1..Len(owed'[p]),
                      NEW k \in 1..Len(owed'[q]), NEW l \in 1..Len(owed'[q]),
                      owed'[p][i] = owed'[q][k], owed'[p][j] = owed'[q][l], i < j
               PROVE  k < l
    BY DEF SameOrder
  <2>1. CASE j \in 1..Len(owed[p])
    <3>1. i \in 1..Len(owed[p])
      BY <2>1, <1>3
    <3>2. k \in 1..Len(owed[q]) /\ l \in 1..Len(owed[q])
      BY <2>1, <3>1, <1>12
    <3>3. owed[p][i] = owed[q][k] /\ owed[p][j] = owed[q][l]
      BY <2>1, <3>1, <3>2, <1>4, <1>5
    <3> QED  BY <2>1, <3>1, <3>2, <3>3 DEF SameOrder
  <2>2. CASE j \notin 1..Len(owed[p])
    <3>1. l \notin 1..Len(owed[q])
      BY <2>2, <1>12
    <3>2. Gets(q) /\ l \in (Len(owed[q]) + 1)..(Len(owed[q]) + n)
      <4>1. Gets(q) /\ Len(owed'[q]) = Len(owed[q]) + n
        BY <3>1, <1>4, <1>5
      <4> QED  BY <3>1, <4>1, <1>1, <1>3
    <3>3. Gets(p) /\ j \in (Len(owed[p]) + 1)..(Len(owed[p]) + n)
      <4>1. Gets(p) /\ Len(owed'[p]) = Len(owed[p]) + n
        BY <2>2, <1>4, <1>5
      <4> QED  BY <2>2, <4>1, <1>1, <1>3
    <3>4. CASE k \in 1..Len(owed[q])
      BY <3>2, <3>4, <1>3
    <3>5. CASE k \notin 1..Len(owed[q])
      <4>1. i \notin 1..Len(owed[p])
        BY <3>5, <1>12
      <4>2. i \in (Len(owed[p]) + 1)..(Len(owed[p]) + n)
        <5>1. Len(owed'[p]) = Len(owed[p]) + n
          BY <3>3, <1>4
        <5> QED  BY <5>1, <4>1, <1>1, <1>3
      <4>3. k \in (Len(owed[q]) + 1)..(Len(owed[q]) + n)
        <5>1. Len(owed'[q]) = Len(owed[q]) + n /\ Len(owed[q]) \in Nat
          BY <3>2, <1>3, <1>4
        <5>2. k \in 1..(Len(owed[q]) + n) /\ k \notin 1..Len(owed[q])
          BY <5>1, <3>5
        <5> QED  BY <5>1, <5>2, <1>1
      <4> DEFINE a == Len(owed[p])
                 b == Len(owed[q])
                 c == said[s]
      <4>4. c + (i - a) = c + (k - b)
        <5>1. owed'[p][i][2] = c + (i - a)
          <6>1. owed'[p][i] = <<s, c + (i - a)>>
            BY <4>2, <3>3, <1>4
          <6> QED  BY <6>1
        <5>2. owed'[q][k][2] = c + (k - b)
          <6>1. owed'[q][k] = <<s, c + (k - b)>>
            BY <4>3, <3>2, <1>4
          <6> QED  BY <6>1
        <5> QED  BY <5>1, <5>2
      <4>5. c + (j - a) = c + (l - b)
        <5>1. owed'[p][j][2] = c + (j - a)
          <6>1. owed'[p][j] = <<s, c + (j - a)>>
            BY <3>3, <1>4
          <6> QED  BY <6>1
        <5>2. owed'[q][l][2] = c + (l - b)
          <6>1. owed'[q][l] = <<s, c + (l - b)>>
            BY <3>2, <1>4
          <6> QED  BY <6>1
        <5> QED  BY <5>1, <5>2
      <4>6. a \in Nat /\ b \in Nat /\ c \in Nat
        BY <1>1, <1>3
      <4>7. i \in Int /\ j \in Int /\ k \in Int /\ l \in Int
        BY <4>6, <4>2, <4>3, <3>2, <3>3
      <4> HIDE DEF a, b, c
      <4> QED  BY <4>4, <4>5, <4>6, <4>7
    <3> QED  BY <3>4, <3>5
  <2> QED  BY <2>1, <2>2
<1> QED  BY <1>6, <1>7, <1>9, <1>10, <1>11, <1>13

(* Closing sessions cuts their streams short and touches no other. *)
LEMMA LeaveInv == ASSUME IInv, NEW S \in SUBSET Peer, Leave(S) PROVE IInv'
<1> USE DEF IInv
<1>1. PICK cut \in Cuts(S) :
        owed' = [p \in Peer |-> IF p \in S THEN SubSeq(owed[p], 1, cut[p]) ELSE owed[p]]
  BY DEF Leave
<1>2. \A p \in Peer : owed[p] \in Seq(Token) /\ taken[p] \in Nat /\ taken[p] <= Len(owed[p])
  BY DEF TypeOK
<1>3. ASSUME NEW p \in S
      PROVE  cut[p] \in 0..Len(owed[p]) /\ taken[p] <= cut[p]
  <2>1. \A n \in UNION {0..Len(owed[q]) : q \in S} : n \in Nat
    BY <1>2
  <2>2. cut[p] \in Nat /\ taken[p] <= cut[p] /\ cut[p] <= Len(owed[p])
    BY <1>3, <2>1 DEF Cuts
  <2> QED  BY <2>2, <1>2
\* What is left of a stream is as it was.
<1>4. ASSUME NEW p \in Peer
      PROVE  /\ owed'[p] \in Seq(Token)
             /\ taken[p] <= Len(owed'[p])
             /\ \A i \in 1..Len(owed'[p]) : i \in 1..Len(owed[p]) /\ owed'[p][i] = owed[p][i]
  <2>1. CASE p \in S
    <3>1. owed'[p] = SubSeq(owed[p], 1, cut[p])
      BY <1>1, <2>1
    <3>2. cut[p] \in 0..Len(owed[p]) /\ taken[p] <= cut[p]
      BY <1>3, <2>1
    <3> DEFINE n == cut[p]
               q == owed[p]
               r == owed'[p]
    <3>3. q \in Seq(Token) /\ n \in 0..Len(q) /\ r = SubSeq(q, 1, n)
      BY <1>2, <3>1, <3>2
    <3> HIDE DEF n, q, r
    <3>4. r \in Seq(Token) /\ Len(r) = n /\ \A i \in 1..n : r[i] = q[i]
      BY <3>3, CutFacts
    <3>5. \A i \in 1..n : i \in 1..Len(q)
      BY <3>3
    <3> QED  BY <3>2, <3>4, <3>5 DEF n, q, r
  <2>2. CASE p \notin S
    BY <1>1, <1>2, <2>2
  <2> QED  BY <2>1, <2>2
<1>5. /\ said' = said /\ taken' = taken
      /\ state' \in [Peer -> {"out", "in", "gone"}]
      /\ \A p \in S : state'[p] = "gone"
      /\ \A p \in Peer \ S : state'[p] = state[p] /\ owed'[p] = owed[p]
  BY <1>1 DEF Leave, TypeOK
<1>6. TypeOK'
  <2>1. owed' \in [Peer -> Seq(Token)]
    <3>1. \A p \in Peer : owed'[p] \in Seq(Token)
      BY <1>4
    <3> QED  BY <1>1, <3>1
  <2> QED  BY <2>1, <1>4, <1>5 DEF TypeOK
<1>7. FreshStart'
  BY <1>5 DEF FreshStart
<1>8. NoEcho'
  BY <1>4, <1>5 DEF NoEcho
<1>9. InOrder'
  BY <1>4 DEF InOrder
<1>10. SameOrder'
  BY <1>4 DEF SameOrder
<1>11. NoGap'
  <2> SUFFICES ASSUME NEW p \in Peer, NEW s \in Peer, NEW k \in 1..MaxSaid, NEW m \in 1..MaxSaid,
                      k < m, <<s, k>> \in Tokens(p)',
                      <<s, m>> \in Tokens(p)' \/ (state'[p] = "in" /\ m <= said'[s])
               PROVE  <<s, k + 1>> \in Tokens(p)'
    BY DEF NoGap
  <2>1. CASE p \notin S
    <3>1. Tokens(p)' = Tokens(p) /\ state'[p] = state[p] /\ said' = said
      BY <2>1, <1>5 DEF Tokens
    <3> QED  BY <3>1 DEF NoGap
  <2>2. CASE p \in S
    <3>1. PICK i \in 1..Len(owed'[p]) : owed'[p][i] = <<s, k>>
      BY DEF Tokens
    <3>2. PICK j \in 1..Len(owed'[p]) : owed'[p][j] = <<s, m>>
      BY <2>2, <1>5 DEF Tokens
    <3>3. /\ i \in 1..Len(owed[p]) /\ owed[p][i] = <<s, k>>
          /\ j \in 1..Len(owed[p]) /\ owed[p][j] = <<s, m>>
      BY <3>1, <3>2, <1>4
    <3>4. <<s, k + 1>> \in Tokens(p)
      BY <3>3 DEF NoGap, Tokens
    <3>5. PICK l \in 1..Len(owed[p]) : owed[p][l] = <<s, k + 1>>
      BY <3>4 DEF Tokens
    \* A later position would hold a later byte than m.
    <3>6. l <= j
      <4> SUFFICES ASSUME j < l PROVE FALSE
        BY <3>3, <3>5
      <4>1. m < k + 1
        <5>1. owed[p][j][1] = owed[p][l][1] => owed[p][j][2] < owed[p][l][2]
          BY <3>3, <3>5 DEF InOrder
        <5> QED  BY <5>1, <3>3, <3>5
      <4> QED  BY <4>1
    <3>7. l \in 1..Len(owed'[p])
      BY <3>2, <3>5, <3>6, <1>4
    <3>8. owed'[p][l] = <<s, k + 1>>
      BY <3>5, <3>7, <1>4
    <3> QED  BY <3>7, <3>8 DEF Tokens
  <2> QED  BY <2>1, <2>2
<1> QED  BY <1>6, <1>7, <1>8, <1>9, <1>10, <1>11

LEMMA StepInv == ASSUME IInv, [Next]_vars PROVE IInv'
<1>1. CASE \E p \in Peer : Join(p) \/ Deliver(p)
  BY <1>1, JoinInv, DeliverInv
<1>2. CASE \E s \in Talker, n \in 1..MaxSaid : Broadcast(s, n)
  BY <1>2, BroadcastInv
<1>3. CASE \E S \in SUBSET Peer : Leave(S)
  BY <1>3, LeaveInv
<1>4. CASE UNCHANGED vars
  <2>1. state' = state /\ said' = said /\ owed' = owed /\ taken' = taken
    BY <1>4 DEF vars
  <2>2. \A p \in Peer : Tokens(p)' = Tokens(p)
    BY <2>1 DEF Tokens
  <2> QED  BY <2>1, <2>2 DEF IInv, TypeOK, FreshStart, NoEcho, InOrder, NoGap, SameOrder
<1> QED  BY <1>1, <1>2, <1>3, <1>4 DEF Next

-----------------------------------------------------------------------------

THEOREM Invariance == Spec => []IInv
<1>1. Init => IInv
  BY InitInv
<1>2. IInv /\ [Next]_vars => IInv'
  BY StepInv
<1> QED  BY <1>1, <1>2, PTL DEF Spec

(* The variables of the relay keep their types. *)
THEOREM TypeCorrect == Spec => []TypeOK
<1>1. IInv => TypeOK
  BY DEF IInv
<1> QED  BY <1>1, Invariance, PTL

(* A server that implements the relay never sends a peer its own bytes, nor
   bytes it has not read. *)
THEOREM NeverEchoes == Spec => []NoEcho
<1>1. IInv => NoEcho
  BY DEF IInv
<1> QED  BY <1>1, Invariance, PTL

(* The bytes of a sender arrive once and in the order it sent them. *)
THEOREM DeliversInOrder == Spec => []InOrder
<1>1. IInv => InOrder
  BY DEF IInv
<1> QED  BY <1>1, Invariance, PTL

(* No byte is skipped between two that a peer is owed. *)
THEOREM DeliversWithoutGap == Spec => []NoGap
<1>1. IInv => NoGap
  BY DEF IInv
<1> QED  BY <1>1, Invariance, PTL

(* All members see the conversation in one order. *)
THEOREM OneConversation == Spec => []SameOrder
<1>1. IInv => SameOrder
  BY DEF IInv
<1> QED  BY <1>1, Invariance, PTL

-----------------------------------------------------------------------------

(* Two streams that agree on n positions have the same prefix of length n. *)
LEMMA PrefixFacts ==
    ASSUME NEW q \in Seq(Token), NEW r \in Seq(Token), NEW n \in Nat,
           n <= Len(q), n <= Len(r), \A i \in 1..n : q[i] = r[i]
    PROVE  SubSeq(q, 1, n) = SubSeq(r, 1, n)
  OBVIOUS

Kept(p) == /\ SubSeq(owed'[p], 1, taken[p]) = SubSeq(owed[p], 1, taken[p])
           /\ state[p] = "gone" => owed'[p] = owed[p]

LEMMA StepFinal == ASSUME IInv, IInv', [Next]_vars PROVE \A p \in Peer : Kept(p)
<1> SUFFICES ASSUME NEW p \in Peer PROVE Kept(p)
  OBVIOUS
<1> USE DEF IInv, Kept
<1>1. /\ owed[p] \in Seq(Token) /\ owed'[p] \in Seq(Token)
      /\ taken[p] \in Nat /\ taken[p] <= Len(owed[p])
  BY DEF TypeOK
<1>2. ASSUME NEW x \in Peer, Join(x) PROVE Kept(p)
  <2>1. CASE p = x
    <3>1. taken[p] = 0 /\ state[p] = "out"
      BY <1>1, <1>2, <2>1 DEF Join, FreshStart
    <3> QED  BY <1>1, <3>1
  <2>2. CASE p # x
    BY <1>2, <2>2 DEF Join, TypeOK
  <2> QED  BY <2>1, <2>2
<1>3. ASSUME NEW x \in Peer, Deliver(x) PROVE Kept(p)
  BY <1>3 DEF Deliver
<1>4. ASSUME NEW s \in Talker, NEW n \in 1..MaxSaid, Broadcast(s, n) PROVE Kept(p)
  <2>1. CASE state[p] = "in" /\ p # s
    <3>1. said[s] \in Nat /\ s \in Peer /\ n \in Nat
      BY RelayAssumption DEF TypeOK
    <3> DEFINE c == Chunk(s, said[s], n)
               q == owed[p]
               r == owed'[p]
    <3>2. c \in Seq(Token) /\ r = q \o c
      BY <3>1, <2>1, <1>4, ChunkFacts DEF Broadcast
    <3>3. q \in Seq(Token) /\ r \in Seq(Token)
      BY <1>1
    <3> HIDE DEF c
    <3>4. taken[p] <= Len(r) /\ \A i \in 1..taken[p] : r[i] = q[i]
      <4> HIDE DEF q, r
      <4>1. Len(r) = Len(q) + Len(c) /\ \A i \in 1..Len(q) : r[i] = q[i]
        BY <3>2, <3>3, ConcatFacts
      <4>2. taken[p] \in Nat /\ taken[p] <= Len(q)
        BY <1>1 DEF q
      <4> QED  BY <3>2, <3>3, <4>1, <4>2
    <3>5. SubSeq(r, 1, taken[p]) = SubSeq(q, 1, taken[p])
      <4> HIDE DEF q, r
      <4>1. taken[p] \in Nat /\ taken[p] <= Len(q)
        BY <1>1 DEF q
      <4> QED  BY <3>3, <3>4, <4>1, PrefixFacts
    <3> QED  BY <2>1, <3>5
  <2>2. CASE ~(state[p] = "in" /\ p # s)
    BY <1>4, <2>2 DEF Broadcast
  <2> QED  BY <2>1, <2>2
<1>5. ASSUME NEW S \in SUBSET Peer, Leave(S) PROVE Kept(p)
  <2>1. PICK cut \in Cuts(S) :
          owed' = [x \in Peer |-> IF x \in S THEN SubSeq(owed[x], 1, cut[x]) ELSE owed[x]]
    BY <1>5 DEF Leave
  <2>2. CASE p \in S
    <3>1. state[p] # "gone" /\ owed'[p] = SubSeq(owed[p], 1, cut[p])
      BY <1>5, <2>1, <2>2 DEF Leave
    <3>2. cut[p] \in 0..Len(owed[p]) /\ taken[p] <= cut[p]
      <4>1. \A n \in UNION {0..Len(owed[q]) : q \in S} : n \in Nat
        BY DEF TypeOK
      <4> QED  BY <4>1, <2>2, <1>1 DEF Cuts
    <3> DEFINE n == cut[p]
               q == owed[p]
               r == owed'[p]
               t == taken[p]
    <3>3. q \in Seq(Token) /\ n \in 0..Len(q) /\ r = SubSeq(q, 1, n) /\ t \in Nat /\ t <= n
      BY <1>1, <3>1, <3>2
    <3> HIDE DEF n, q, r, t
    <3>4. r \in Seq(Token) /\ Len(r) = n /\ \A i \in 1..n : r[i] = q[i]
      BY <3>3, CutFacts
    <3>5. SubSeq(r, 1, t) = SubSeq(q, 1, t)
      <4>1. t <= Len(q) /\ t <= Len(r) /\ \A i \in 1..t : r[i] = q[i]
        BY <3>3, <3>4
      <4> QED  BY <3>3, <3>4, <4>1, PrefixFacts
    <3> QED  BY <3>1, <3>5 DEF q, r, t
  <2>3. CASE p \notin S
    BY <2>1, <2>3
  <2> QED  BY <2>2, <2>3
<1>6. CASE UNCHANGED vars
  BY <1>6 DEF vars
<1> QED  BY <1>2, <1>3, <1>4, <1>5, <1>6 DEF Next

(* What a peer has taken is never rewritten, and nothing is added to the
   stream of a session that ended. *)
THEOREM TakenIsFinal == Spec => Final
<1>1. IInv /\ IInv' /\ [Next]_vars => [\A p \in Peer : Kept(p)]_vars
  BY StepFinal
<1>2. Spec => [][\A p \in Peer : Kept(p)]_vars
  BY <1>1, Invariance, PTL DEF Spec
<1> QED  BY <1>2 DEF Final, Kept
=============================================================================
