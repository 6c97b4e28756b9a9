----------------------------- MODULE StreamProofs -----------------------------
(***************************************************************************)
(* Proofs about three components through which messages go in a stream:    *)
(* FrameCodec, whose names begin with Codec where FramingClient has the    *)
(* same, FramingClient, and IocpServer, whose names begin with Iocp then.  *)
(*                                                                         *)
(* FrameCodec, for every number of byte values, every length of the        *)
(* header, every limit on a payload and every way to cut the bytes into    *)
(* pieces: recv_frame returns the payloads given to send_frame, whole and  *)
(* in order.  First that the header says the length (htonl, ntohl), by     *)
(* induction over its bytes; then that every byte on its way stands at its *)
(* place in the stream that the frames sent make.                          *)
(*                                                                         *)
(* FramingClient, for any sizes of lines, any watermarks, and any number   *)
(* of lines and frames: lines and frames stay in order, and the queues     *)
(* keep their bounds.                                                      *)
(*                                                                         *)
(* IocpServer, for any number of clients, messages and accepts and any     *)
(* buffers: one send of a session is in flight at most, and the messages a *)
(* client gets, repetitions aside, are those broadcast to it, in order and *)
(* without holes.                                                          *)
(***************************************************************************)
EXTENDS FrameCodec, FramingClient, IocpServer, FiniteSetTheorems, SequenceTheorems,
        WellFoundedInduction, TLAPS

(* Induction over the numbers, from the order of the numbers being well-founded,
   and the functions that recursion over a sequence defines. *)

LEMMA Least ==
    ASSUME NEW S, S \subseteq Nat, S # {}
    PROVE  \E n \in S : \A m \in S : n <= m
<1> DEFINE R == {pair \in Nat \X Nat : pair[1] < pair[2]}
<1>1. IsWellFoundedOn(R, Nat)
  BY NatLessThanWellFounded DEF OpToRel
<1>2. \A m, n \in Nat : <<m, n>> \in R <=> m < n
  OBVIOUS
<1> HIDE DEF R
<1>3. PICK n \in S : \A m \in S : ~(<<m, n>> \in R)
  BY <1>1, WFMin
<1>4. ASSUME NEW m \in S PROVE n <= m
  <2>1. m \in Nat /\ n \in Nat
    OBVIOUS
  <2>2. ~(m < n)
    BY <2>1, <1>2, <1>3, Zenon
  <2> QED
    BY ONLY <2>1, <2>2
<1> QED
  BY <1>4

LEMMA Induct ==
    ASSUME NEW S, 0 \in S, \A n \in Nat : n \in S => n + 1 \in S
    PROVE  Nat \subseteq S
<1> SUFFICES ASSUME Nat \ S # {} PROVE FALSE
  OBVIOUS
<1>1. PICK n \in Nat \ S : \A m \in Nat \ S : n <= m
  BY Least
<1>2. n # 0 /\ n - 1 \in Nat
  BY <1>1
<1>3. n - 1 \in S
  BY <1>1, <1>2
<1> QED
  BY <1>1, <1>2, <1>3

IsStep(step, n, V) == step \in [(1..n) \X V -> V]

Repeats(f, n, V, e, step) ==
    f \in [0..n -> V] /\ f[0] = e /\ \A i \in 1..n : f[i] = step[<<i, f[i - 1]>>]

LEMMA Recursion ==
    ASSUME NEW V, NEW e \in V, NEW n \in Nat, NEW step, IsStep(step, n, V)
    PROVE  \E f : Repeats(f, n, V, e, step)
<1> USE DEF IsStep, Repeats
<1> DEFINE Good(k, f) == f[0] = e /\ \A i \in 1..k : f[i] = step[<<i, f[i - 1]>>]
           S == {k \in Nat : k <= n => \E f \in [0..k -> V] : Good(k, f)}
<1>1. 0 \in S
  <2> DEFINE g == [i \in 0..0 |-> e]
  <2>1. g \in [0..0 -> V] /\ Good(0, g)
    OBVIOUS
  <2> QED
    BY <2>1
<1>2. ASSUME NEW k \in Nat, k \in S, k + 1 <= n PROVE k + 1 \in S
  <2>1. PICK f \in [0..k -> V] : Good(k, f)
    BY <1>2
  <2> DEFINE g == [i \in 0..k + 1 |-> IF i <= k THEN f[i] ELSE step[<<k + 1, f[k]>>]]
  <2>2. g \in [0..k + 1 -> V]
    <3>1. <<k + 1, f[k]>> \in (1..n) \X V
      BY <1>2
    <3> QED
      BY <3>1
  <2>3. g[0] = e
    BY <2>1
  <2>4. ASSUME NEW i \in 1..k + 1 PROVE g[i] = step[<<i, g[i - 1]>>]
    <3>1. CASE i <= k
      <4>1. i \in 1..k /\ g[i] = f[i] /\ g[i - 1] = f[i - 1]
        BY <3>1
      <4> QED
        BY <4>1, <2>1
    <3>2. CASE i = k + 1
      <4>1. g[i] = step[<<k + 1, f[k]>>] /\ g[i - 1] = f[k]
        BY <3>2
      <4> QED
        BY <4>1, <3>2
    <3> QED
      BY <3>1, <3>2
  <2>5. Good(k + 1, g)
    BY <2>3, <2>4
  <2> HIDE DEF g, Good
  <2> QED
    BY <2>2, <2>5
<1>3. \A k \in Nat : k \in S => k + 1 \in S
  BY <1>2
<1> HIDE DEF S
<1>4. n \in S
  BY <1>1, <1>3, Induct
<1> QED
  BY <1>4 DEF S


-----------------------------------------------------------------------------
(* Numbers and their digits. *)

LEMMA Constants ==
    /\ Base \in Nat \ {0} /\ Base >= 2
    /\ HeaderLen \in Nat \ {0}
    /\ MAX_PAYLOAD \in Nat
    /\ Byte = 0..(Base - 1)
    /\ \A payload \in Payload : payload \in Seq(Byte) /\ Len(payload) < Limit
BY CodecAssumption DEF Byte

LEMMA DivMod ==
    ASSUME NEW a \in Nat, NEW b \in Nat \ {0}
    PROVE  /\ a \div b \in Nat
           /\ a % b \in 0..(b - 1)
           /\ a = (a \div b) * b + (a % b)
<1>1. a % b \in 0..(b - 1)
  OBVIOUS
<1>2. a \div b \in Nat
  OBVIOUS
<1>3. a = (a \div b) * b + (a % b)
  OBVIOUS
<1> QED
  BY <1>1, <1>2, <1>3

LEMMA DivBelow ==
    ASSUME NEW a \in Nat, NEW b \in Nat \ {0}, NEW l \in Nat, a < l * b
    PROVE  a \div b < l
<1> DEFINE q == a \div b
           r == a % b
<1>1. q \in Nat /\ r \in 0..(b - 1) /\ a = q * b + r
  BY DivMod
<1> HIDE DEF q, r
<1> SUFFICES ASSUME q >= l PROVE FALSE
  BY <1>1 DEF q
<1>2. PICK k \in Nat : q = l + k
  <2>1. q - l \in Nat /\ q = l + (q - l)
    BY <1>1
  <2> QED
    BY <2>1
<1>3. q * b = l * b + k * b
  BY <1>1, <1>2
<1>4. k * b \in Nat /\ l * b \in Nat /\ q * b \in Nat
  BY <1>1, <1>2
<1> QED
  BY <1>1, <1>3, <1>4

-----------------------------------------------------------------------------
(* The functions that Limit, Header and Length define by recursion. *)

\* c takes the steps of f as long as it agrees with f.
Follows(c, f, n, e, step) ==
    /\ c = [i \in 0..n |-> c[i]] /\ c[0] = e
    /\ \A i \in 1..n : c[i - 1] = f[i - 1] => c[i] = step[<<i, c[i - 1]>>]

\* Two functions with the same beginning and the same steps agree.
LEMMA Agree ==
    ASSUME NEW V, NEW e, NEW n \in Nat, NEW step, NEW f, Repeats(f, n, V, e, step),
           NEW c, Follows(c, f, n, e, step)
    PROVE  c = f
<1> USE DEF Follows
<1> DEFINE S == {i \in Nat : i <= n => c[i] = f[i]}
<1>1. f \in [0..n -> V] /\ f[0] = e /\ \A i \in 1..n : f[i] = step[<<i, f[i - 1]>>]
  BY DEF Repeats
<1>2. 0 \in S
  BY <1>1
<1>3. ASSUME NEW i \in Nat, i \in S PROVE i + 1 \in S
  <2> SUFFICES ASSUME i + 1 <= n PROVE c[i + 1] = f[i + 1]
    OBVIOUS
  <2>1. i + 1 \in 1..n /\ (i + 1) - 1 = i /\ c[i] = f[i]
    BY <1>3
  <2>2. c[i + 1] = step[<<i + 1, c[i]>>]
    BY <2>1
  <2>3. f[i + 1] = step[<<i + 1, f[i]>>]
    BY <2>1, <1>1
  <2> QED
    BY <2>1, <2>2, <2>3
<1> HIDE DEF S
<1>4. Nat \subseteq S
  BY <1>2, <1>3, Induct
<1>5. ASSUME NEW i \in 0..n PROVE c[i] = f[i]
  <2>1. i \in Nat /\ i <= n
    OBVIOUS
  <2>2. i \in S
    BY <2>1, <1>4
  <2> QED
    BY <2>1, <2>2 DEF S
<1>6. f = [i \in 0..n |-> f[i]]
  BY <1>1
<1> QED
  BY <1>5, <1>6

\* power[i] is the number of lengths that i bytes tell apart.
LEMMA Powers ==
    \E power \in [0..HeaderLen -> Nat] :
        /\ power[0] = 1 /\ power[HeaderLen] = Limit
        /\ \A i \in 1..HeaderLen : power[i] = power[i - 1] * Base
<1> DEFINE IsPower(f) == f = [i \in 0..HeaderLen |-> IF i = 0 THEN 1 ELSE f[i - 1] * Base]
           c == CHOOSE f : IsPower(f)
           step == [pair \in (1..HeaderLen) \X Nat |-> pair[2] * Base]
<1>1. IsStep(step, HeaderLen, Nat)
  BY Constants DEF IsStep
<1>2. \A i \in 1..HeaderLen, v \in Nat : step[<<i, v>>] = v * Base
  OBVIOUS
<1> HIDE DEF step
<1>3. PICK f : Repeats(f, HeaderLen, Nat, 1, step)
  <2>1. HeaderLen \in Nat /\ 1 \in Nat
    BY Constants
  <2> QED
    BY ONLY <2>1, <1>1, Recursion
<1>4. /\ f \in [0..HeaderLen -> Nat] /\ f[0] = 1
      /\ \A i \in 1..HeaderLen : f[i - 1] \in Nat /\ f[i] = f[i - 1] * Base
  <2>1. f \in [0..HeaderLen -> Nat] /\ f[0] = 1
        /\ \A i \in 1..HeaderLen : f[i] = step[<<i, f[i - 1]>>]
    BY <1>3 DEF Repeats
  <2>2. \A i \in 1..HeaderLen : f[i - 1] \in Nat
    BY <2>1, Constants
  <2> QED
    BY <2>1, <2>2, <1>2
<1>5. IsPower(f)
  BY <1>4, Constants
<1>6. IsPower(c)
  BY <1>5
<1>7. Limit = c[HeaderLen]
  BY DEF Limit
<1> HIDE DEF c
<1>8. c = f
  <2>1. c = [i \in 0..HeaderLen |-> c[i]] /\ c[0] = 1
    BY <1>6, Constants
  <2>2. ASSUME NEW i \in 1..HeaderLen, c[i - 1] = f[i - 1]
        PROVE  c[i] = step[<<i, c[i - 1]>>]
    <3>1. c[i] = c[i - 1] * Base
      BY <1>6, Constants
    <3> QED
      BY <3>1, <2>2, <1>2, <1>4
  <2>3. Follows(c, f, HeaderLen, 1, step)
    BY ONLY <2>1, <2>2 DEF Follows
  <2>4. HeaderLen \in Nat
    BY Constants
  <2> QED
    BY ONLY <2>3, <2>4, <1>3, Agree
<1> QED
  BY <1>4, <1>7, <1>8

\* rest[i] is length without its i lowest digits.
LEMMA Rests ==
    ASSUME NEW length \in Nat
    PROVE  \E rest \in [0..HeaderLen -> Nat] :
               /\ rest[0] = length
               /\ Header(length) = [i \in 1..HeaderLen |-> rest[HeaderLen - i] % Base]
               /\ \A i \in 1..HeaderLen : rest[i] = rest[i - 1] \div Base
<1> DEFINE IsRest(f) == f = [i \in 0..HeaderLen |-> IF i = 0 THEN length ELSE f[i - 1] \div Base]
           c == CHOOSE f : IsRest(f)
           step == [pair \in (1..HeaderLen) \X Nat |-> pair[2] \div Base]
<1>1. IsStep(step, HeaderLen, Nat)
  BY Constants, DivMod DEF IsStep
<1>2. \A i \in 1..HeaderLen, v \in Nat : step[<<i, v>>] = v \div Base
  OBVIOUS
<1> HIDE DEF step
<1>3. PICK f : Repeats(f, HeaderLen, Nat, length, step)
  <2>1. HeaderLen \in Nat /\ length \in Nat
    BY Constants
  <2> QED
    BY ONLY <2>1, <1>1, Recursion
<1>4. /\ f \in [0..HeaderLen -> Nat] /\ f[0] = length
      /\ \A i \in 1..HeaderLen : f[i - 1] \in Nat /\ f[i] = f[i - 1] \div Base
  <2>1. f \in [0..HeaderLen -> Nat] /\ f[0] = length
        /\ \A i \in 1..HeaderLen : f[i] = step[<<i, f[i - 1]>>]
    BY <1>3 DEF Repeats
  <2>2. \A i \in 1..HeaderLen : f[i - 1] \in Nat
    BY <2>1, Constants
  <2> QED
    BY <2>1, <2>2, <1>2
<1>5. IsRest(f)
  BY <1>4, Constants
<1>6. IsRest(c)
  BY <1>5
<1>7. Header(length) = [i \in 1..HeaderLen |-> c[HeaderLen - i] % Base]
  BY DEF Header
<1> HIDE DEF c
<1>8. c = f
  <2>1. c = [i \in 0..HeaderLen |-> c[i]] /\ c[0] = length
    BY <1>6, Constants
  <2>2. ASSUME NEW i \in 1..HeaderLen, c[i - 1] = f[i - 1]
        PROVE  c[i] = step[<<i, c[i - 1]>>]
    <3>1. c[i] = c[i - 1] \div Base
      BY <1>6, Constants
    <3> QED
      BY <3>1, <2>2, <1>2, <1>4
  <2>3. Follows(c, f, HeaderLen, length, step)
    BY ONLY <2>1, <2>2 DEF Follows
  <2>4. HeaderLen \in Nat
    BY Constants
  <2> QED
    BY ONLY <2>3, <2>4, <1>3, Agree
<1> QED
  BY <1>4, <1>7, <1>8

\* value[i] is what the first i bytes of a header say.
LEMMA Values ==
    ASSUME NEW header \in [1..HeaderLen -> Byte]
    PROVE  \E value \in [0..HeaderLen -> Nat] :
               /\ value[0] = 0 /\ value[HeaderLen] = Length(header)
               /\ \A i \in 1..HeaderLen : value[i] = value[i - 1] * Base + header[i]
<1> DEFINE IsValue(f) == f = [i \in 0..HeaderLen |-> IF i = 0 THEN 0 ELSE f[i - 1] * Base + header[i]]
           c == CHOOSE f : IsValue(f)
           step == [pair \in (1..HeaderLen) \X Nat |-> pair[2] * Base + header[pair[1]]]
<1>1. IsStep(step, HeaderLen, Nat)
  <2>1. \A i \in 1..HeaderLen : header[i] \in Nat
    BY Constants
  <2>2. \A i \in 1..HeaderLen, v \in Nat : v * Base + header[i] \in Nat
    BY <2>1, Constants
  <2> QED
    BY <2>2 DEF IsStep
<1>2. \A i \in 1..HeaderLen, v \in Nat : step[<<i, v>>] = v * Base + header[i]
  OBVIOUS
<1> HIDE DEF step
<1>3. PICK f : Repeats(f, HeaderLen, Nat, 0, step)
  <2>1. HeaderLen \in Nat /\ 0 \in Nat
    BY Constants
  <2> QED
    BY ONLY <2>1, <1>1, Recursion
<1>4. /\ f \in [0..HeaderLen -> Nat] /\ f[0] = 0
      /\ \A i \in 1..HeaderLen : f[i - 1] \in Nat /\ f[i] = f[i - 1] * Base + header[i]
  <2>1. f \in [0..HeaderLen -> Nat] /\ f[0] = 0
        /\ \A i \in 1..HeaderLen : f[i] = step[<<i, f[i - 1]>>]
    BY <1>3 DEF Repeats
  <2>2. \A i \in 1..HeaderLen : f[i - 1] \in Nat
    BY <2>1, Constants
  <2> QED
    BY <2>1, <2>2, <1>2
<1>5. IsValue(f)
  <2>1. ASSUME NEW i \in 0..HeaderLen
        PROVE  f[i] = IF i = 0 THEN 0 ELSE f[i - 1] * Base + header[i]
    <3>1. i = 0 \/ i \in 1..HeaderLen
      BY Constants
    <3> QED
      BY ONLY <3>1, <1>4
  <2>2. f = [i \in 0..HeaderLen |-> f[i]]
    BY <1>4
  <2> QED
    BY ONLY <2>1, <2>2
<1>6. IsValue(c)
  BY <1>5
<1>7. Length(header) = c[HeaderLen]
  BY DEF Length
<1> HIDE DEF c
<1>8. c = f
  <2>1. c = [i \in 0..HeaderLen |-> c[i]] /\ c[0] = 0
    BY <1>6, Constants
  <2>2. ASSUME NEW i \in 1..HeaderLen, c[i - 1] = f[i - 1]
        PROVE  c[i] = step[<<i, c[i - 1]>>]
    <3>1. c[i] = c[i - 1] * Base + header[i]
      BY <1>6, Constants
    <3> QED
      BY <3>1, <2>2, <1>2, <1>4
  <2>3. Follows(c, f, HeaderLen, 0, step)
    BY ONLY <2>1, <2>2 DEF Follows
  <2>4. HeaderLen \in Nat
    BY Constants
  <2> QED
    BY ONLY <2>3, <2>4, <1>3, Agree
<1> QED
  BY <1>4, <1>7, <1>8

\* A header is HeaderLen bytes.
LEMMA HeaderTyped ==
    ASSUME NEW n \in Nat
    PROVE  /\ Header(n) \in Seq(Byte) /\ Len(Header(n)) = HeaderLen
           /\ Header(n) \in [1..HeaderLen -> Byte]
<1>1. PICK rest \in [0..HeaderLen -> Nat] :
          Header(n) = [i \in 1..HeaderLen |-> rest[HeaderLen - i] % Base]
  BY Rests
<1>2. ASSUME NEW i \in 1..HeaderLen PROVE rest[HeaderLen - i] % Base \in Byte
  <2>1. HeaderLen - i \in 0..HeaderLen
    BY Constants
  <2>2. rest[HeaderLen - i] \in Nat
    BY <2>1
  <2> QED
    BY <2>2, Constants, DivMod
<1>3. Header(n) \in [1..HeaderLen -> Byte]
  BY <1>1, <1>2
<1>4. HeaderLen \in Nat \ {0}
  BY Constants
<1>5. Header(n) \in Seq(Byte)
  BY ONLY <1>3, <1>4, SeqDef
<1>6. DOMAIN Header(n) = 1..Len(Header(n)) /\ Len(Header(n)) \in Nat
  BY ONLY <1>5, LenProperties
<1>7. DOMAIN Header(n) = 1..HeaderLen
  BY ONLY <1>3
<1>8. Len(Header(n)) = HeaderLen
  <2>1. HeaderLen \in 1..Len(Header(n)) /\ Len(Header(n)) \in Nat
    BY ONLY <1>4, <1>6, <1>7
  <2>2. Len(Header(n)) \in 1..HeaderLen
    BY ONLY <2>1, <1>6, <1>7
  <2> QED
    BY ONLY <1>4, <2>1, <2>2
<1> QED
  BY <1>3, <1>5, <1>8

(* ntohl undoes htonl, for each length that the bytes of a header can say: send_frame
   and recv_frame agree on the size of a payload. *)
THEOREM RoundTrip ==
    ASSUME NEW n \in Nat, n < Limit
    PROVE  Length(Header(n)) = n
<1>1. PICK power \in [0..HeaderLen -> Nat] :
          /\ power[0] = 1 /\ power[HeaderLen] = Limit
          /\ \A i \in 1..HeaderLen : power[i] = power[i - 1] * Base
  BY Powers
<1>2. PICK rest \in [0..HeaderLen -> Nat] :
          /\ rest[0] = n
          /\ Header(n) = [i \in 1..HeaderLen |-> rest[HeaderLen - i] % Base]
          /\ \A i \in 1..HeaderLen : rest[i] = rest[i - 1] \div Base
  BY Rests
<1>3. PICK value \in [0..HeaderLen -> Nat] :
          /\ value[0] = 0 /\ value[HeaderLen] = Length(Header(n))
          /\ \A i \in 1..HeaderLen : value[i] = value[i - 1] * Base + Header(n)[i]
  BY Values, HeaderTyped
<1>4. HeaderLen \in Nat /\ Base \in Nat \ {0}
  BY Constants
<1>5. rest[HeaderLen] = 0
  <2> DEFINE S == {i \in Nat : i <= HeaderLen => rest[i] < power[HeaderLen - i]}
  <2>1. 0 \in S
    BY <1>1, <1>2, <1>4
  <2>2. ASSUME NEW i \in Nat, i \in S PROVE i + 1 \in S
    <3> SUFFICES ASSUME i + 1 <= HeaderLen PROVE rest[i + 1] < power[HeaderLen - (i + 1)]
      OBVIOUS
    <3> DEFINE k == HeaderLen - (i + 1)
    <3>1. /\ k \in 0..HeaderLen /\ k + 1 \in 1..HeaderLen /\ (k + 1) - 1 = k /\ k + 1 = HeaderLen - i
          /\ i \in 0..HeaderLen /\ i + 1 \in 1..HeaderLen /\ (i + 1) - 1 = i
      BY <1>4
    <3> HIDE DEF k
    <3>2. power[k + 1] = power[k] * Base /\ rest[i + 1] = rest[i] \div Base
      BY <3>1, <1>1, <1>2
    <3>3. rest[i] < power[k] * Base
      BY <2>2, <3>1, <3>2
    <3>4. rest[i] \in Nat /\ power[k] \in Nat
      BY <3>1
    <3>5. rest[i] \div Base < power[k]
      BY ONLY <3>3, <3>4, <1>4, DivBelow
    <3> QED
      BY <3>2, <3>5 DEF k
  <2> HIDE DEF S
  <2>3. HeaderLen \in S
    BY <2>1, <2>2, <1>4, Induct
  <2>4. rest[HeaderLen] < power[0]
    BY <2>3, <1>4 DEF S
  <2>5. rest[HeaderLen] \in Nat
    BY <1>4
  <2> QED
    BY <2>4, <2>5, <1>1
<1>6. value[HeaderLen] = rest[0]
  <2> DEFINE S == {i \in Nat : i <= HeaderLen => value[i] = rest[HeaderLen - i]}
  <2>1. 0 \in S
    BY <1>3, <1>4, <1>5
  <2>2. ASSUME NEW i \in Nat, i \in S PROVE i + 1 \in S
    <3> SUFFICES ASSUME i + 1 <= HeaderLen PROVE value[i + 1] = rest[HeaderLen - (i + 1)]
      OBVIOUS
    <3> DEFINE k == HeaderLen - (i + 1)
    <3>1. /\ k \in 0..HeaderLen /\ k + 1 \in 1..HeaderLen /\ (k + 1) - 1 = k /\ k + 1 = HeaderLen - i
          /\ i \in 0..HeaderLen /\ i + 1 \in 1..HeaderLen /\ (i + 1) - 1 = i
      BY <1>4
    <3>2. Header(n)[i + 1] = rest[k] % Base
      BY <3>1, <1>2
    <3> HIDE DEF k
    <3>3. value[i + 1] = value[i] * Base + Header(n)[i + 1] /\ rest[k + 1] = rest[k] \div Base
      BY <3>1, <1>2, <1>3
    <3>4. value[i] = rest[k] \div Base
      BY <2>2, <3>1, <3>3
    <3>5. rest[k] \in Nat
      BY <3>1
    <3>6. rest[k] = (rest[k] \div Base) * Base + (rest[k] % Base)
      BY ONLY <3>5, <1>4, DivMod
    <3> QED
      BY <3>2, <3>3, <3>4, <3>6 DEF k
  <2> HIDE DEF S
  <2>3. HeaderLen \in S
    BY <2>1, <2>2, <1>4, Induct
  <2> QED
    BY <2>3, <1>4 DEF S
<1> QED
  BY <1>2, <1>3, <1>6

-----------------------------------------------------------------------------
(* Bytes at their place in a stream. *)

At(stream, place, bytes) ==
    /\ place + Len(bytes) <= Len(stream)
    /\ \A i \in 1..Len(bytes) : stream[place + i] = bytes[i]

LEMMA AtNone ==
    ASSUME NEW stream \in Seq(Byte), NEW place \in Nat, place <= Len(stream)
    PROVE  At(stream, place, <<>>)
<1>1. Len(<<>>) = 0
  BY EmptySeq
<1> QED
  BY <1>1 DEF At

LEMMA AtCut ==
    ASSUME NEW stream \in Seq(Byte), NEW place \in Nat, NEW bytes \in Seq(Byte),
           At(stream, place, bytes), NEW n \in 1..Len(bytes)
    PROVE  /\ SubSeq(bytes, 1, n) \in Seq(Byte) /\ Len(SubSeq(bytes, 1, n)) = n
           /\ SubSeq(bytes, n + 1, Len(bytes)) \in Seq(Byte)
           /\ Len(SubSeq(bytes, n + 1, Len(bytes))) = Len(bytes) - n
           /\ At(stream, place, SubSeq(bytes, 1, n))
           /\ At(stream, place + n, SubSeq(bytes, n + 1, Len(bytes)))
<1>1. Len(bytes) \in Nat /\ Len(stream) \in Nat /\ n \in Nat /\ n <= Len(bytes) /\ n >= 1
  BY LenProperties
<1>2. \A i \in 1..Len(bytes) : bytes[i] \in Byte
  BY ElementOfSeq
<1>3. /\ SubSeq(bytes, 1, n) \in Seq(Byte) /\ Len(SubSeq(bytes, 1, n)) = n
      /\ \A i \in 1..n : SubSeq(bytes, 1, n)[i] = bytes[i]
  <2>1. \A i \in 1..n : bytes[i] \in Byte
    BY <1>1, <1>2
  <2> HIDE DEF Byte
  <2>2. 1 \in Int /\ n \in Int
    BY <1>1
  <2>3. /\ SubSeq(bytes, 1, n) \in Seq(Byte)
        /\ Len(SubSeq(bytes, 1, n)) = IF 1 <= n THEN n - 1 + 1 ELSE 0
        /\ \A i \in 1..n - 1 + 1 : SubSeq(bytes, 1, n)[i] = bytes[1 + i - 1]
    BY ONLY <2>1, <2>2, SubSeqProperties
  <2> QED
    BY <2>3, <1>1
<1>4. /\ SubSeq(bytes, n + 1, Len(bytes)) \in Seq(Byte)
      /\ Len(SubSeq(bytes, n + 1, Len(bytes))) = Len(bytes) - n
      /\ \A i \in 1..Len(bytes) - n : SubSeq(bytes, n + 1, Len(bytes))[i] = bytes[n + i]
  <2>1. \A i \in n + 1..Len(bytes) : bytes[i] \in Byte
    BY <1>1, <1>2
  <2>2. n + 1 \in Int /\ Len(bytes) \in Int
    BY <1>1
  <2>3. /\ SubSeq(bytes, n + 1, Len(bytes)) \in Seq(Byte)
        /\ Len(SubSeq(bytes, n + 1, Len(bytes)))
               = IF n + 1 <= Len(bytes) THEN Len(bytes) - (n + 1) + 1 ELSE 0
        /\ \A i \in 1..Len(bytes) - (n + 1) + 1 :
               SubSeq(bytes, n + 1, Len(bytes))[i] = bytes[(n + 1) + i - 1]
    BY ONLY <2>1, <2>2, SubSeqProperties
  <2> QED
    BY <2>3, <1>1
<1>5. At(stream, place, SubSeq(bytes, 1, n))
  BY <1>1, <1>3 DEF At
<1>6. At(stream, place + n, SubSeq(bytes, n + 1, Len(bytes)))
  <2>1. place + n + (Len(bytes) - n) <= Len(stream)
    BY <1>1 DEF At
  <2>2. ASSUME NEW i \in 1..Len(bytes) - n
        PROVE  stream[place + n + i] = SubSeq(bytes, n + 1, Len(bytes))[i]
    <3>1. n + i \in 1..Len(bytes) /\ place + (n + i) = place + n + i
      BY <1>1
    <3>2. stream[place + (n + i)] = bytes[n + i]
      BY <3>1 DEF At
    <3> QED
      BY <3>1, <3>2, <1>4
  <2> QED
    BY <2>1, <2>2, <1>4 DEF At
<1> QED
  BY <1>3, <1>4, <1>5, <1>6

LEMMA AtJoin ==
    ASSUME NEW stream \in Seq(Byte), NEW place \in Nat, NEW b \in Seq(Byte), NEW c \in Seq(Byte),
           At(stream, place, b), At(stream, place + Len(b), c)
    PROVE  At(stream, place, b \o c)
<1>1. Len(b) \in Nat /\ Len(c) \in Nat /\ Len(stream) \in Nat
  BY LenProperties
<1>2. /\ Len(b \o c) = Len(b) + Len(c)
      /\ \A i \in 1..Len(b) + Len(c) : (b \o c)[i] = IF i <= Len(b) THEN b[i] ELSE c[i - Len(b)]
  BY ConcatProperties
<1>3. ASSUME NEW i \in 1..Len(b) + Len(c) PROVE stream[place + i] = (b \o c)[i]
  <2>1. CASE i <= Len(b)
    BY <1>1, <1>2, <2>1 DEF At
  <2>2. CASE i > Len(b)
    <3> DEFINE j == i - Len(b)
    <3>1. j \in 1..Len(c) /\ place + Len(b) + j = place + i
      BY <1>1, <2>2
    <3>2. stream[place + Len(b) + j] = c[j]
      BY <3>1 DEF At
    <3>3. (b \o c)[i] = c[j]
      BY <1>1, <1>2, <2>2
    <3> QED
      BY ONLY <3>1, <3>2, <3>3
  <2> QED
    BY <1>1, <2>1, <2>2
<1>4. place + (Len(b) + Len(c)) <= Len(stream)
  BY <1>1 DEF At
<1> QED
  BY <1>2, <1>3, <1>4 DEF At

LEMMA AtSame ==
    ASSUME NEW stream \in Seq(Byte), NEW place \in Nat, NEW b \in Seq(Byte), NEW c \in Seq(Byte),
           At(stream, place, b), At(stream, place, c), Len(b) = Len(c)
    PROVE  b = c
BY SeqEqual DEF At

LEMMA AtLonger ==
    ASSUME NEW stream \in Seq(Byte), NEW more \in Seq(Byte)
    PROVE  /\ stream \o more \in Seq(Byte)
           /\ Len(stream \o more) = Len(stream) + Len(more)
           /\ At(stream \o more, Len(stream), more)
           /\ \A place \in Nat, bytes \in Seq(Byte) :
                  At(stream, place, bytes) => At(stream \o more, place, bytes)
<1>1. Len(stream) \in Nat /\ Len(more) \in Nat
  BY LenProperties
<1>2. /\ stream \o more \in Seq(Byte)
      /\ Len(stream \o more) = Len(stream) + Len(more)
      /\ \A i \in 1..Len(stream) + Len(more) :
             (stream \o more)[i] = IF i <= Len(stream) THEN stream[i] ELSE more[i - Len(stream)]
  BY ConcatProperties
<1>3. At(stream \o more, Len(stream), more)
  <2>1. ASSUME NEW i \in 1..Len(more) PROVE (stream \o more)[Len(stream) + i] = more[i]
    <3>1. /\ Len(stream) + i \in 1..Len(stream) + Len(more) /\ ~(Len(stream) + i <= Len(stream))
          /\ (Len(stream) + i) - Len(stream) = i
      BY <1>1
    <3> QED
      BY <3>1, <1>2
  <2> QED
    BY <1>1, <1>2, <2>1 DEF At
<1>4. ASSUME NEW place \in Nat, NEW bytes \in Seq(Byte), At(stream, place, bytes)
      PROVE  At(stream \o more, place, bytes)
  <2>1. Len(bytes) \in Nat
    BY LenProperties
  <2>2. ASSUME NEW i \in 1..Len(bytes) PROVE (stream \o more)[place + i] = bytes[i]
    <3>1. place + i \in 1..Len(stream) + Len(more) /\ place + i <= Len(stream)
      BY <1>1, <2>1, <1>4 DEF At
    <3> QED
      BY <3>1, <1>2, <1>4 DEF At
  <2> QED
    BY <1>1, <1>2, <1>4, <2>1, <2>2 DEF At
<1> QED
  BY <1>2, <1>3, <1>4

-----------------------------------------------------------------------------
(* The invariant. *)

\* No frame is empty; no more are received than sent; send_frame is in the middle
\* of the last one or of none.
Whole ==
    /\ \A k \in 1..Len(sent) : sent[k] # <<>>
    /\ Len(received) <= Len(sent)
    /\ part # "none" => link = "up" /\ sent # <<>>

\* The stream of the frames sent: frame k ends at pos[k].
Laid(pos, stream) ==
    /\ pos \in [0..Len(sent) -> Nat] /\ pos[0] = 0
    /\ stream \in Seq(Byte) /\ Len(stream) = pos[Len(sent)]
    /\ \A k \in 1..Len(sent) :
         /\ pos[k] = pos[k - 1] + HeaderLen + Len(sent[k])
         /\ At(stream, pos[k - 1], Header(Len(sent[k])))
         /\ At(stream, pos[k - 1] + HeaderLen, sent[k])

\* What recv_frame is reading begins here.
Here(pos) == pos[Len(received)] + (IF want = "payload" THEN HeaderLen ELSE 0)

\* The byte that goes to the connection next stands after this place.
SentUpTo(pos) == Here(pos) + Len(in) + Len(onWire)

\* The bytes read, on their way and to be sent follow each other in the stream.
Placed(pos, stream) ==
    /\ At(stream, Here(pos), in)
    /\ At(stream, Here(pos) + Len(in), onWire)
    /\ At(stream, SentUpTo(pos), out)
    /\ part = "header" => SentUpTo(pos) + Len(out) = pos[Len(sent) - 1] + HeaderLen
    /\ part = "payload" \/ (part = "none" /\ link = "up") =>
           SentUpTo(pos) + Len(out) = Len(stream)

\* A header that was read said the length of the frame.
Measures ==
    want = "payload" =>
        /\ Len(received) < Len(sent)
        /\ size = Len(sent[Len(received) + 1])

InStep ==
    \E pos, stream :
        /\ Laid(pos, stream)
        /\ want # "failed" => Placed(pos, stream) /\ Measures

CodecIInv == CodecTypeOK /\ Whole /\ InStep

LEMMA KnownSent ==
    ASSUME CodecTypeOK, Whole, NEW k \in 1..Len(sent)
    PROVE  /\ sent[k] \in Payload /\ sent[k] \in Seq(Byte)
           /\ Len(sent[k]) \in Nat \ {0} /\ Len(sent[k]) < Limit
<1>1. sent[k] \in Payload
  BY ElementOfSeq DEF CodecTypeOK
<1>2. sent[k] \in Seq(Byte) /\ Len(sent[k]) < Limit
  BY <1>1, Constants
<1>3. sent[k] # <<>>
  BY DEF Whole
<1> HIDE DEF Byte
<1> QED
  BY ONLY <1>1, <1>2, <1>3, EmptySeq

LEMMA Digits ==
    ASSUME CodecTypeOK, Whole
    PROVE  /\ Len(sent) \in Nat /\ Len(received) \in Nat /\ Len(received) <= Len(sent)
           /\ Len(in) \in Nat /\ Len(onWire) \in Nat /\ Len(out) \in Nat /\ size \in Nat
           /\ part # "none" => Len(sent) \in 1..Len(sent) /\ Len(out) \in Nat \ {0}
<1>1. /\ Len(sent) \in Nat /\ Len(received) \in Nat
      /\ Len(in) \in Nat /\ Len(onWire) \in Nat /\ Len(out) \in Nat
  BY LenProperties DEF CodecTypeOK
<1>2. size \in Nat
  BY Constants DEF CodecTypeOK
<1>3. part # "none" => Len(sent) # 0 /\ Len(out) # 0
  <2>1. part # "none" => sent # <<>> /\ out # <<>>
    BY DEF CodecTypeOK, Whole
  <2>2. sent \in Seq(Payload) /\ out \in Seq(Byte)
    BY DEF CodecTypeOK
  <2> QED
    BY <2>1, <2>2, EmptySeq
<1> QED
  BY <1>1, <1>2, <1>3 DEF Whole

LEMMA PlaceValues ==
    ASSUME CodecTypeOK, Whole, NEW pos, NEW stream, Laid(pos, stream)
    PROVE  /\ stream \in Seq(Byte) /\ Len(stream) \in Nat /\ Len(stream) = pos[Len(sent)]
           /\ \A k \in 0..Len(sent) : pos[k] \in Nat
           /\ Here(pos) \in Nat /\ SentUpTo(pos) \in Nat
           /\ SentUpTo(pos) = Here(pos) + Len(in) + Len(onWire)
<1>1. /\ pos \in [0..Len(sent) -> Nat] /\ stream \in Seq(Byte)
      /\ Len(stream) = pos[Len(sent)]
  BY DEF Laid
<1>2. Len(stream) \in Nat
  BY <1>1, LenProperties
<1>3. \A k \in 0..Len(sent) : pos[k] \in Nat
  BY <1>1
<1>4. Len(received) \in 0..Len(sent)
  BY Digits
<1>5. pos[Len(received)] \in Nat
  BY <1>3, <1>4
<1>6. Here(pos) \in Nat
  BY <1>5, Constants DEF Here
<1> QED
  BY <1>1, <1>2, <1>3, <1>6, Digits DEF SentUpTo

LEMMA Initially == CodecInit => CodecIInv
<1> SUFFICES ASSUME CodecInit PROVE CodecIInv
  OBVIOUS
<1>1. \A S : <<>> \in Seq(S)
  BY EmptySeq
<1>2. Len(<<>>) = 0
  BY EmptySeq
<1>3. CodecTypeOK
  BY <1>1, <1>2, Constants, CodecAssumption DEF CodecInit, CodecTypeOK
<1>4. Whole
  BY <1>2 DEF CodecInit, Whole
<1> DEFINE pos == [k \in 0..0 |-> 0]
<1>5. Laid(pos, <<>>)
  BY <1>1, <1>2 DEF CodecInit, Laid
<1>6. Placed(pos, <<>>) /\ Measures
  <2>1. At(<<>>, 0, <<>>)
    <3>1. <<>> \in Seq(Byte) /\ 0 \in Nat /\ 0 <= Len(<<>>)
      BY <1>1, <1>2
    <3> QED
      BY ONLY <3>1, AtNone
  <2>2. Here(pos) = 0 /\ SentUpTo(pos) = 0
    BY <1>2 DEF CodecInit, Here, SentUpTo
  <2> QED
    BY <1>2, <2>1, <2>2 DEF CodecInit, Placed, Measures
<1>7. InStep
  BY <1>5, <1>6 DEF InStep
<1> QED
  BY <1>3, <1>4, <1>7 DEF CodecIInv

-----------------------------------------------------------------------------
(* send_frame. *)

\* A frame is laid after the others, and begins with its header.
LEMMA FrameBegins ==
    ASSUME CodecIInv, NEW payload \in Payload, BeginFrame(payload)
    PROVE  CodecIInv'
<1> DEFINE H == Header(Len(payload))
           L == Len(sent)
<1>0. CodecTypeOK /\ Whole
  BY DEF CodecIInv
<1>1. /\ part = "none" /\ link = "up" /\ payload # <<>>
      /\ sent' = Append(sent, payload) /\ part' = "header" /\ out' = H
      /\ UNCHANGED <<onWire, link, want, size, in, received>>
  BY DEF BeginFrame
<1>2. payload \in Seq(Byte) /\ Len(payload) \in Nat \ {0}
  <2>1. payload \in Seq(Byte)
    BY Constants
  <2> QED
    BY ONLY <2>1, <1>1, EmptySeq
<1>3. H \in Seq(Byte) /\ Len(H) = HeaderLen /\ H # <<>>
  <2>1. H \in Seq(Byte) /\ Len(H) = HeaderLen
    BY <1>2, HeaderTyped
  <2> QED
    BY ONLY <2>1, Constants, EmptySeq
<1>4. /\ L \in Nat /\ Len(sent') = L + 1 /\ sent' \in Seq(Payload) /\ sent' # <<>>
      /\ \A k \in 1..L : sent'[k] = sent[k]
      /\ sent'[L + 1] = payload
  <2>1. sent \in Seq(Payload)
    BY <1>0 DEF CodecTypeOK
  <2>2. L \in Nat
    BY <2>1, LenProperties
  <2> QED
    BY ONLY <2>1, <2>2, <1>1, payload \in Payload, AppendProperties
<1> HIDE DEF H
<1>5. CodecTypeOK'
  BY <1>0, <1>1, <1>3, <1>4 DEF CodecTypeOK
<1>6. Whole'
  <2>1. ASSUME NEW k \in 1..L + 1 PROVE sent'[k] # <<>>
    <3>1. k \in 1..L \/ k = L + 1
      BY <1>4
    <3> QED
      BY <3>1, <1>0, <1>1, <1>4 DEF Whole
  <2>2. Len(received) <= L + 1
    BY <1>0, <1>4, Digits
  <2> QED
    BY <2>1, <2>2, <1>1, <1>4 DEF Whole
<1>7. PICK pos, stream : Laid(pos, stream) /\ (want # "failed" => Placed(pos, stream) /\ Measures)
  BY DEF CodecIInv, InStep
<1>8. /\ stream \in Seq(Byte) /\ Len(stream) \in Nat /\ Len(stream) = pos[L]
      /\ \A k \in 0..L : pos[k] \in Nat
      /\ Here(pos) \in Nat /\ SentUpTo(pos) \in Nat
      /\ SentUpTo(pos) = Here(pos) + Len(in) + Len(onWire)
  BY <1>0, <1>7, PlaceValues
<1>9. /\ stream \o H \in Seq(Byte) /\ Len(stream \o H) = Len(stream) + HeaderLen
      /\ At(stream \o H, Len(stream), H)
      /\ \A place \in Nat, bytes \in Seq(Byte) :
             At(stream, place, bytes) => At(stream \o H, place, bytes)
  BY <1>3, <1>8, AtLonger
<1> PICK P : P = [k \in 0..L + 1 |-> IF k <= L THEN pos[k] ELSE pos[L] + HeaderLen + Len(payload)]
  OBVIOUS
<1> PICK T : T = (stream \o H) \o payload
  OBVIOUS
<1>10. /\ T \in Seq(Byte) /\ Len(T) = Len(stream) + HeaderLen + Len(payload)
       /\ At(T, Len(stream) + HeaderLen, payload)
       /\ \A place \in Nat, bytes \in Seq(Byte) :
              At(stream \o H, place, bytes) => At(T, place, bytes)
  BY <1>2, <1>9, AtLonger
<1>11. \A place \in Nat, bytes \in Seq(Byte) : At(stream, place, bytes) => At(T, place, bytes)
  BY ONLY <1>9, <1>10
<1>12. At(T, Len(stream), H)
  BY ONLY <1>3, <1>8, <1>9, <1>10
<1>13. /\ P \in [0..L + 1 -> Nat] /\ \A k \in 0..L : P[k] = pos[k]
       /\ P[L + 1] = pos[L] + HeaderLen + Len(payload)
  <2>1. pos[L] \in Nat /\ HeaderLen \in Nat /\ L \in Nat
    BY <1>4, <1>8, Constants
  <2>2. pos[L] + HeaderLen + Len(payload) \in Nat
    BY <2>1, <1>2
  <2>3. \A k \in 0..L + 1 : (IF k <= L THEN pos[k] ELSE pos[L] + HeaderLen + Len(payload)) \in Nat
    BY <2>1, <2>2, <1>8
  <2>4. L + 1 \in 0..L + 1 /\ ~(L + 1 <= L) /\ \A k \in 0..L : k \in 0..L + 1 /\ k <= L
    BY <2>1
  <2> QED
    BY <2>3, <2>4
<1>14. Laid(P, T)'
  <2>1. P[0] = 0
    BY <1>4, <1>7, <1>13 DEF Laid
  <2>2. Len(T) = P[L + 1]
    BY <1>8, <1>10, <1>13
  <2>3. ASSUME NEW k \in 1..L + 1
        PROVE  /\ P[k] = P[k - 1] + HeaderLen + Len(sent'[k])
               /\ At(T, P[k - 1], Header(Len(sent'[k])))
               /\ At(T, P[k - 1] + HeaderLen, sent'[k])
    <3>1. CASE k \in 1..L
      <4>1. k \in 0..L /\ k - 1 \in 0..L /\ P[k] = pos[k] /\ P[k - 1] = pos[k - 1] /\ sent'[k] = sent[k]
        BY <3>1, <1>4, <1>13
      <4>2. /\ pos[k] = pos[k - 1] + HeaderLen + Len(sent[k])
            /\ At(stream, pos[k - 1], Header(Len(sent[k])))
            /\ At(stream, pos[k - 1] + HeaderLen, sent[k])
        BY <3>1, <1>7 DEF Laid
      <4>3. sent[k] \in Seq(Byte) /\ Len(sent[k]) \in Nat
        BY <3>1, <1>0, KnownSent
      <4>4. Header(Len(sent[k])) \in Seq(Byte)
        BY ONLY <4>3, HeaderTyped
      <4>5. pos[k - 1] \in Nat /\ pos[k - 1] + HeaderLen \in Nat
        <5>1. pos[k - 1] \in Nat
          BY <4>1, <1>8
        <5>2. HeaderLen \in Nat
          BY Constants
        <5> QED
          BY ONLY <5>1, <5>2
      <4> QED
        BY ONLY <4>1, <4>2, <4>3, <4>4, <4>5, <1>11
    <3>2. CASE k = L + 1
      <4>1. P[k - 1] = Len(stream) /\ P[k] = Len(stream) + HeaderLen + Len(payload)
        BY <3>2, <1>4, <1>8, <1>13
      <4>2. sent'[k] = payload
        BY <3>2, <1>4
      <4> QED
        BY <4>1, <4>2, <1>10, <1>12 DEF H
    <3> QED
      BY <3>1, <3>2, <1>4
  <2>4. Len(sent') = L + 1 /\ T \in Seq(Byte) /\ P \in [0..L + 1 -> Nat]
    BY <1>4, <1>10, <1>13
  <2> HIDE DEF L
  <2> QED
    BY ONLY <2>1, <2>2, <2>3, <2>4 DEF Laid
<1>15. want # "failed" => Placed(P, T)' /\ Measures'
  <2> SUFFICES ASSUME want # "failed" PROVE Placed(P, T)' /\ Measures'
    OBVIOUS
  <2>1. Len(received) \in 0..L /\ Len(in) \in Nat /\ Len(onWire) \in Nat
    BY <1>0, Digits
  <2>2. Here(P)' = Here(pos) /\ SentUpTo(P)' = SentUpTo(pos)
    <3>1. P[Len(received)] = pos[Len(received)]
      BY <2>1, <1>13
    <3>2. UNCHANGED <<received, want, in, onWire>>
      BY <1>1
    <3> QED
      BY ONLY <3>1, <3>2 DEF Here, SentUpTo
  <2>3. /\ At(stream, Here(pos), in) /\ At(stream, Here(pos) + Len(in), onWire)
        /\ SentUpTo(pos) + Len(out) = Len(stream)
    BY <1>1, <1>7 DEF Placed
  <2>4. SentUpTo(pos) = Len(stream)
    BY <2>3, <1>0, <1>1, <1>8, EmptySeq DEF CodecTypeOK
  <2>5. in \in Seq(Byte) /\ onWire \in Seq(Byte)
    BY <1>0 DEF CodecTypeOK
  <2>6. At(T, Here(pos), in) /\ At(T, Here(pos) + Len(in), onWire) /\ At(T, SentUpTo(pos), H)
    <3>1. Here(pos) + Len(in) \in Nat
      BY <1>8, <2>1
    <3> QED
      BY ONLY <3>1, <2>3, <2>4, <2>5, <1>8, <1>11, <1>12
  <2>7. P[(L + 1) - 1] = Len(stream)
    BY <1>4, <1>8, <1>13
  <2>8. Placed(P, T)'
    <3>1. /\ in' = in /\ onWire' = onWire /\ out' = H /\ part' = "header" /\ Len(sent') = L + 1
          /\ Len(H) = HeaderLen
      BY <1>1, <1>3, <1>4
    <3> HIDE DEF L
    <3> QED
      BY ONLY <3>1, <2>2, <2>4, <2>6, <2>7 DEF Placed
  <2>9. Measures'
    <3> SUFFICES ASSUME want = "payload"
                 PROVE  Len(received) < L + 1 /\ size = Len(sent'[Len(received) + 1])
      BY <1>1, <1>4 DEF Measures
    <3>1. Len(received) < L /\ size = Len(sent[Len(received) + 1])
      BY <1>7 DEF Measures
    <3>2. Len(received) + 1 \in 1..L
      BY <3>1, <2>1, <1>4
    <3> QED
      BY <3>1, <3>2, <1>4
  <2> QED
    BY <2>8, <2>9
<1>16. InStep'
  BY <1>1, <1>14, <1>15 DEF InStep
<1> QED
  BY <1>5, <1>6, <1>16 DEF CodecIInv

LEMMA StillLaid ==
    ASSUME NEW pos, NEW stream, Laid(pos, stream), UNCHANGED sent
    PROVE  Laid(pos, stream)'
BY DEF Laid

LEMMA StillWhole ==
    ASSUME Whole, UNCHANGED <<sent, received>>, part' # "none" => part # "none" /\ link' = link
    PROVE  Whole'
BY DEF Whole

\* send takes some of the bytes of a part; after the header comes the payload.
LEMMA BytesSent ==
    ASSUME CodecIInv, NEW n \in 1..LinkCap, SendBytes(n)
    PROVE  CodecIInv'
<1>0. CodecTypeOK /\ Whole
  BY DEF CodecIInv
<1>1. /\ link = "up" /\ n \in 1..Len(out) /\ Len(onWire) + n <= LinkCap
      /\ onWire' = onWire \o SubSeq(out, 1, n)
      /\ UNCHANGED <<sent, link, want, size, in, received>>
  BY DEF SendBytes
<1>2. /\ out \in Seq(Byte) /\ onWire \in Seq(Byte) /\ in \in Seq(Byte)
      /\ Len(out) \in Nat /\ Len(onWire) \in Nat /\ Len(in) \in Nat /\ n \in Nat /\ n >= 1 /\ n <= Len(out)
  BY <1>0, <1>1, Digits DEF CodecTypeOK
<1>3. part # "none"
  <2>1. out # <<>>
    BY <1>2, EmptySeq
  <2> QED
    BY <2>1, <1>0 DEF CodecTypeOK
<1>4. Len(sent) \in 1..Len(sent) /\ Len(sent) \in Nat
  BY <1>0, <1>3, Digits
<1>5. /\ sent[Len(sent)] \in Seq(Byte) /\ Len(sent[Len(sent)]) \in Nat \ {0}
      /\ sent[Len(sent)] # <<>>
  <2>1. sent[Len(sent)] \in Seq(Byte) /\ Len(sent[Len(sent)]) \in Nat \ {0}
    BY <1>0, <1>4, KnownSent
  <2> QED
    BY <2>1, EmptySeq
<1>6. /\ SubSeq(out, 1, n) \in Seq(Byte) /\ Len(SubSeq(out, 1, n)) = n
      /\ SubSeq(out, n + 1, Len(out)) \in Seq(Byte)
      /\ Len(SubSeq(out, n + 1, Len(out))) = Len(out) - n
      /\ \A stream \in Seq(Byte), place \in Nat :
             At(stream, place, out) =>
                 /\ At(stream, place, SubSeq(out, 1, n))
                 /\ At(stream, place + n, SubSeq(out, n + 1, Len(out)))
  <2>1. n \in 1..Len(out) /\ out \in Seq(Byte)
    BY <1>1, <1>2
  <2>2. ASSUME NEW stream \in Seq(Byte), NEW place \in Nat, At(stream, place, out)
        PROVE  /\ At(stream, place, SubSeq(out, 1, n))
               /\ At(stream, place + n, SubSeq(out, n + 1, Len(out)))
    BY ONLY <2>1, <2>2, stream \in Seq(Byte), place \in Nat, AtCut
  <2>3. 0 \in Nat /\ At(out, 0, out)
    BY <1>2 DEF At
  <2>4. /\ SubSeq(out, 1, n) \in Seq(Byte) /\ Len(SubSeq(out, 1, n)) = n
        /\ SubSeq(out, n + 1, Len(out)) \in Seq(Byte)
        /\ Len(SubSeq(out, n + 1, Len(out))) = Len(out) - n
    BY ONLY <2>1, <2>3, AtCut
  <2> QED
    BY ONLY <2>2, <2>4
<1>7. onWire' \in Seq(Byte) /\ Len(onWire') = Len(onWire) + n
  BY ONLY <1>1, <1>2, <1>6, ConcatProperties
<1>8. PICK pos, stream : Laid(pos, stream) /\ (want # "failed" => Placed(pos, stream) /\ Measures)
  BY DEF CodecIInv, InStep
<1>9. /\ stream \in Seq(Byte) /\ Len(stream) = pos[Len(sent)]
      /\ Here(pos) \in Nat /\ SentUpTo(pos) \in Nat /\ SentUpTo(pos) = Here(pos) + Len(in) + Len(onWire)
      /\ \A k \in 0..Len(sent) : pos[k] \in Nat
  BY <1>0, <1>8, PlaceValues
<1>10. Laid(pos, stream)'
  BY <1>1, <1>8, StillLaid
<1>11. Measures' <=> Measures
  BY <1>1 DEF Measures
<1>12. Here(pos)' = Here(pos)
  <2>1. UNCHANGED <<received, want>>
    BY <1>1
  <2> QED
    BY ONLY <2>1 DEF Here
<1>13. SentUpTo(pos)' = SentUpTo(pos) + n
  <2>1. SentUpTo(pos)' = Here(pos)' + Len(in') + Len(onWire')
    BY DEF SentUpTo
  <2> QED
    BY <2>1, <1>1, <1>2, <1>7, <1>9, <1>12
<1>14. want # "failed" => /\ At(stream, Here(pos), in)'
                          /\ At(stream, Here(pos) + Len(in), onWire)'
                          /\ At(stream, SentUpTo(pos) + n, SubSeq(out, n + 1, Len(out)))
  <2> SUFFICES ASSUME want # "failed"
               PROVE  /\ At(stream, Here(pos)', in') /\ At(stream, Here(pos)' + Len(in'), onWire')
                      /\ At(stream, SentUpTo(pos) + n, SubSeq(out, n + 1, Len(out)))
    OBVIOUS
  <2>1. At(stream, Here(pos), in) /\ At(stream, Here(pos) + Len(in), onWire) /\ At(stream, SentUpTo(pos), out)
    BY <1>8 DEF Placed
  <2>2. At(stream, SentUpTo(pos), SubSeq(out, 1, n)) /\ At(stream, SentUpTo(pos) + n, SubSeq(out, n + 1, Len(out)))
    BY ONLY <2>1, <1>6, <1>9
  <2>3. Here(pos) + Len(in) \in Nat /\ SentUpTo(pos) = (Here(pos) + Len(in)) + Len(onWire)
    BY <1>2, <1>9
  <2>4. At(stream, Here(pos) + Len(in), onWire')
    BY ONLY <2>1, <2>2, <2>3, <1>1, <1>2, <1>6, <1>9, AtJoin
  <2> QED
    BY <2>1, <2>2, <2>4, <1>1, <1>12
<1>15. CASE n < Len(out)
  <2>1. out' = SubSeq(out, n + 1, Len(out)) /\ part' = part
    BY <1>15 DEF SendBytes
  <2>2. Len(out') = Len(out) - n /\ out' # <<>> /\ out' \in Seq(Byte)
    <3>1. Len(<<>>) = 0
      BY EmptySeq
    <3>2. Len(out') = Len(out) - n /\ out' \in Seq(Byte)
      BY ONLY <2>1, <1>6
    <3>3. Len(out) - n # 0
      BY ONLY <1>2, <1>15
    <3> QED
      BY ONLY <3>1, <3>2, <3>3
  <2>3. CodecTypeOK'
    BY <2>1, <2>2, <1>0, <1>1, <1>2, <1>3, <1>7 DEF CodecTypeOK
  <2>4. Whole'
    BY <2>1, <1>0, <1>1, StillWhole
  <2>5. ASSUME want # "failed" PROVE Placed(pos, stream)'
    <3>1. /\ At(stream, Here(pos)', in') /\ At(stream, Here(pos)' + Len(in'), onWire')
          /\ At(stream, SentUpTo(pos)', out')
      BY <2>1, <2>5, <1>13, <1>14
    <3>2. SentUpTo(pos)' + Len(out') = SentUpTo(pos) + Len(out)
      BY <2>2, <1>2, <1>9, <1>13
    <3>3. /\ part = "header" => SentUpTo(pos) + Len(out) = pos[Len(sent) - 1] + HeaderLen
          /\ part = "payload" => SentUpTo(pos) + Len(out) = Len(stream)
      BY <1>8, <2>5 DEF Placed
    <3>4. part' # "none" /\ part' = part /\ sent' = sent
      BY <2>1, <1>1, <1>3
    <3> QED
      BY ONLY <3>1, <3>2, <3>3, <3>4 DEF Placed
  <2>6. InStep'
    BY <2>5, <1>1, <1>8, <1>10, <1>11 DEF InStep
  <2> QED
    BY <2>3, <2>4, <2>6 DEF CodecIInv
<1>16. CASE n = Len(out) /\ part = "header"
  <2>1. out' = sent[Len(sent)] /\ part' = "payload"
    BY <1>16 DEF SendBytes
  <2>2. CodecTypeOK'
    BY <2>1, <1>0, <1>1, <1>2, <1>5, <1>7 DEF CodecTypeOK
  <2>3. Whole'
    BY <2>1, <1>0, <1>1, <1>16, StillWhole
  <2>4. ASSUME want # "failed" PROVE Placed(pos, stream)'
    <3>1. At(stream, Here(pos)', in') /\ At(stream, Here(pos)' + Len(in'), onWire')
      BY <2>4, <1>14
    <3>2. SentUpTo(pos)' = pos[Len(sent) - 1] + HeaderLen
      BY <1>8, <1>13, <1>16, <2>4 DEF Placed
    <3>3. /\ At(stream, pos[Len(sent) - 1] + HeaderLen, sent[Len(sent)])
          /\ pos[Len(sent)] = pos[Len(sent) - 1] + HeaderLen + Len(sent[Len(sent)])
      BY <1>4, <1>8 DEF Laid
    <3>4. At(stream, SentUpTo(pos)', out') /\ SentUpTo(pos)' + Len(out') = Len(stream)
      BY ONLY <3>2, <3>3, <2>1, <1>9
    <3> QED
      BY ONLY <3>1, <3>4, <2>1 DEF Placed
  <2>5. InStep'
    BY <2>4, <1>1, <1>8, <1>10, <1>11 DEF InStep
  <2> QED
    BY <2>2, <2>3, <2>5 DEF CodecIInv
<1>17. CASE n = Len(out) /\ part = "payload"
  <2>1. out' = <<>> /\ part' = "none"
    BY <1>17 DEF SendBytes
  <2>2. <<>> \in Seq(Byte) /\ Len(<<>>) = 0
    BY EmptySeq
  <2>3. CodecTypeOK'
    BY <2>1, <2>2, <1>0, <1>1, <1>2, <1>7 DEF CodecTypeOK
  <2>4. Whole'
    BY <2>1, <1>0, <1>1, StillWhole
  <2>5. ASSUME want # "failed" PROVE Placed(pos, stream)'
    <3>1. At(stream, Here(pos)', in') /\ At(stream, Here(pos)' + Len(in'), onWire')
      BY <2>5, <1>14
    <3>2. SentUpTo(pos)' = Len(stream)
      BY <1>8, <1>13, <1>17, <2>5 DEF Placed
    <3>3. SentUpTo(pos)' \in Nat
      BY <1>2, <1>9, <1>13
    <3>4. At(stream, SentUpTo(pos)', out') /\ SentUpTo(pos)' + Len(out') = Len(stream)
      <4>1. At(stream, SentUpTo(pos)', <<>>)
        BY ONLY <3>2, <3>3, <1>9, AtNone
      <4> QED
        BY <4>1, <3>2, <3>3, <2>1, <2>2
    <3> QED
      BY ONLY <3>1, <3>4, <2>1 DEF Placed
  <2>6. InStep'
    BY <2>5, <1>1, <1>8, <1>10, <1>11 DEF InStep
  <2> QED
    BY <2>3, <2>4, <2>6 DEF CodecIInv
<1> QED
  <2>1. part = "header" \/ part = "payload"
    BY <1>0, <1>3 DEF CodecTypeOK
  <2>2. n < Len(out) \/ n = Len(out)
    BY <1>2
  <2> QED
    BY ONLY <2>1, <2>2, <1>15, <1>16, <1>17

\* What was sent is on its way or lost; nothing else is.
LEMMA LinkEnds == ASSUME CodecIInv, EndLink PROVE CodecIInv'
<1>0. CodecTypeOK /\ Whole
  BY DEF CodecIInv
<1>1. /\ link' \in {"ended", "broken"} /\ part' = "none" /\ out' = <<>>
      /\ onWire' = onWire \/ onWire' = <<>>
      /\ UNCHANGED <<sent, want, size, in, received>>
  BY DEF EndLink
<1>2. <<>> \in Seq(Byte) /\ Len(<<>>) = 0
  BY EmptySeq
<1>3. onWire' \in Seq(Byte) /\ Len(onWire') \in Nat /\ Len(onWire') <= Len(onWire) /\ Len(onWire) \in Nat
  <2>1. onWire \in Seq(Byte) /\ Len(onWire) \in Nat
    BY <1>0, Digits DEF CodecTypeOK
  <2>2. CASE onWire' = onWire
    BY ONLY <2>1, <2>2
  <2>3. CASE onWire' = <<>>
    BY ONLY <2>1, <2>3, <1>2
  <2> QED
    BY <1>1, <2>2, <2>3
<1>4. CodecTypeOK'
  <2>1. Len(onWire) <= LinkCap
    BY <1>0 DEF CodecTypeOK
  <2>2. Len(onWire') <= LinkCap
    BY <2>1, <1>3, CodecAssumption
  <2> QED
    BY <2>2, <1>0, <1>1, <1>2, <1>3 DEF CodecTypeOK
<1>5. Whole'
  BY <1>0, <1>1, StillWhole
<1>6. PICK pos, stream : Laid(pos, stream) /\ (want # "failed" => Placed(pos, stream) /\ Measures)
  BY DEF CodecIInv, InStep
<1>7. Laid(pos, stream)'
  BY <1>1, <1>6, StillLaid
<1>8. Measures' <=> Measures
  BY <1>1 DEF Measures
<1>9. Here(pos)' = Here(pos)
  <2>1. UNCHANGED <<received, want>>
    BY <1>1
  <2> QED
    BY ONLY <2>1 DEF Here
<1>10. ASSUME want # "failed" PROVE Placed(pos, stream)'
  <2>1. /\ stream \in Seq(Byte) /\ Len(stream) \in Nat
        /\ Here(pos) \in Nat /\ Len(in) \in Nat
    BY <1>0, <1>6, PlaceValues, Digits
  <2>2. At(stream, Here(pos), in) /\ At(stream, Here(pos) + Len(in), onWire)
    BY <1>6, <1>10 DEF Placed
  <2>3. Here(pos) + Len(in) + Len(onWire) <= Len(stream)
    BY <2>2 DEF At
  <2>4. Here(pos) + Len(in) \in Nat /\ Here(pos) + Len(in) <= Len(stream)
    BY <1>3, <2>1, <2>3
  <2>5. At(stream, Here(pos) + Len(in), <<>>)
    BY ONLY <2>1, <2>4, AtNone
  <2>6. At(stream, Here(pos) + Len(in), onWire')
    BY ONLY <1>1, <2>2, <2>5
  <2>7. SentUpTo(pos)' = Here(pos) + Len(in) + Len(onWire')
    BY <1>1, <1>9 DEF SentUpTo
  <2>8. SentUpTo(pos)' \in Nat /\ SentUpTo(pos)' <= Len(stream)
    BY <1>3, <2>1, <2>3, <2>7
  <2>9. At(stream, SentUpTo(pos)', <<>>)
    BY ONLY <2>1, <2>8, AtNone
  <2>10. /\ At(stream, Here(pos)', in') /\ At(stream, Here(pos)' + Len(in'), onWire')
         /\ At(stream, SentUpTo(pos)', out')
    BY ONLY <1>1, <1>9, <2>2, <2>6, <2>9
  <2>11. part' = "none" /\ link' # "up"
    BY <1>1
  <2> QED
    BY ONLY <2>10, <2>11 DEF Placed
<1>11. InStep'
  BY <1>1, <1>6, <1>7, <1>8, <1>10 DEF InStep
<1> QED
  BY <1>4, <1>5, <1>11 DEF CodecIInv

-----------------------------------------------------------------------------
(* recv_frame. *)

LEMMA Moves ==
    ASSUME NEW pos, NEW stream, Placed(pos, stream), UNCHANGED <<sent, part, out, link>>,
           At(stream, Here(pos)', in'), At(stream, Here(pos)' + Len(in'), onWire'),
           SentUpTo(pos)' = SentUpTo(pos)
    PROVE  Placed(pos, stream)'
BY DEF Placed

\* What was read and the bytes that recv gives are one piece of the stream.
LEMMA Piece ==
    ASSUME CodecTypeOK, Whole, NEW n \in 1..LinkCap, RecvBytes(n),
           NEW bytes, bytes = in \o SubSeq(onWire, 1, n)
    PROVE  /\ bytes \in Seq(Byte) /\ Len(bytes) = Len(in) + n /\ Len(bytes) \in Nat
           /\ Len(bytes) <= (IF want = "header" THEN HeaderLen ELSE size)
           /\ onWire' \in Seq(Byte) /\ Len(onWire') = Len(onWire) - n /\ Len(onWire') <= LinkCap
           /\ Len(onWire') \in Nat
           /\ \A stream \in Seq(Byte), place \in Nat :
                  At(stream, place, in) /\ At(stream, place + Len(in), onWire) =>
                      At(stream, place, bytes) /\ At(stream, place + Len(bytes), onWire')
<1>1. /\ n \in 1..Len(onWire) /\ n <= (IF want = "header" THEN HeaderLen ELSE size) - Len(in)
      /\ onWire' = SubSeq(onWire, n + 1, Len(onWire))
  BY DEF RecvBytes
<1>2. /\ onWire \in Seq(Byte) /\ in \in Seq(Byte) /\ Len(onWire) \in Nat /\ Len(in) \in Nat
      /\ n \in Nat /\ Len(onWire) <= LinkCap /\ LinkCap \in Nat
      /\ HeaderLen \in Nat /\ size \in Nat
  BY Digits, Constants, CodecAssumption DEF CodecTypeOK
<1>3. ASSUME NEW stream \in Seq(Byte), NEW place \in Nat, At(stream, place, onWire)
      PROVE  /\ SubSeq(onWire, 1, n) \in Seq(Byte) /\ Len(SubSeq(onWire, 1, n)) = n
             /\ onWire' \in Seq(Byte) /\ Len(onWire') = Len(onWire) - n
             /\ At(stream, place, SubSeq(onWire, 1, n))
             /\ At(stream, place + n, onWire')
  BY ONLY <1>1, <1>2, <1>3, stream \in Seq(Byte), place \in Nat, AtCut
<1>4. /\ SubSeq(onWire, 1, n) \in Seq(Byte) /\ Len(SubSeq(onWire, 1, n)) = n
      /\ onWire' \in Seq(Byte) /\ Len(onWire') = Len(onWire) - n
  <2>1. 0 \in Nat /\ At(onWire, 0, onWire)
    BY <1>2 DEF At
  <2> QED
    BY ONLY <2>1, <1>2, <1>3
<1>5. bytes \in Seq(Byte) /\ Len(bytes) = Len(in) + n
  BY ONLY bytes = in \o SubSeq(onWire, 1, n), <1>2, <1>4, ConcatProperties
<1>6. ASSUME NEW stream \in Seq(Byte), NEW place \in Nat,
             At(stream, place, in), At(stream, place + Len(in), onWire)
      PROVE  At(stream, place, bytes) /\ At(stream, place + Len(bytes), onWire')
  <2>1. place + Len(in) \in Nat /\ (place + Len(in)) + n = place + Len(bytes)
    BY <1>2, <1>5
  <2>2. At(stream, place + Len(in), SubSeq(onWire, 1, n)) /\ At(stream, (place + Len(in)) + n, onWire')
    BY ONLY <2>1, <1>3, <1>6, stream \in Seq(Byte)
  <2>3. At(stream, place, in \o SubSeq(onWire, 1, n))
    BY ONLY <2>2, <1>2, <1>4, <1>6, stream \in Seq(Byte), place \in Nat, AtJoin
  <2> QED
    BY <2>1, <2>2, <2>3
<1>7. /\ Len(bytes) \in Nat /\ Len(bytes) <= (IF want = "header" THEN HeaderLen ELSE size)
      /\ Len(onWire') \in Nat /\ Len(onWire') <= LinkCap
  BY <1>1, <1>2, <1>4, <1>5
<1> QED
  BY ONLY <1>4, <1>5, <1>6, <1>7

\* As many bytes as a header are the header of the frame that comes next.
LEMMA ItsHeader ==
    ASSUME CodecTypeOK, Whole, NEW pos, NEW stream, Laid(pos, stream), want = "header",
           NEW bytes \in Seq(Byte), Len(bytes) = HeaderLen, At(stream, Here(pos), bytes)
    PROVE  /\ Len(received) + 1 \in 1..Len(sent)
           /\ bytes = Header(Len(sent[Len(received) + 1]))
<1> DEFINE r == Len(received)
<1>1. /\ r \in Nat /\ Len(sent) \in Nat /\ r <= Len(sent) /\ HeaderLen \in Nat \ {0}
  BY Digits, Constants
<1>2. stream \in Seq(Byte) /\ Len(stream) = pos[Len(sent)] /\ Len(stream) \in Nat /\ Here(pos) \in Nat
  BY PlaceValues
<1>3. Here(pos) = pos[r] + 0
  BY DEF Here
<1>4. pos[r] \in Nat
  BY <1>1, PlaceValues
<1>5. pos[r] + HeaderLen <= Len(stream)
  BY <1>3, <1>4 DEF At
<1>6. r # Len(sent)
  BY <1>1, <1>2, <1>4, <1>5
<1>7. r + 1 \in 1..Len(sent) /\ (r + 1) - 1 = r
  BY <1>1, <1>6
<1>8. At(stream, pos[r], Header(Len(sent[r + 1])))
  BY <1>7 DEF Laid
<1>9. Len(sent[r + 1]) \in Nat
  BY <1>7, KnownSent
<1>10. Header(Len(sent[r + 1])) \in Seq(Byte) /\ Len(Header(Len(sent[r + 1]))) = HeaderLen
  BY ONLY <1>9, HeaderTyped
<1>11. At(stream, pos[r], bytes)
  BY <1>3, <1>4
<1> HIDE DEF r
<1>12. bytes = Header(Len(sent[r + 1]))
  BY ONLY <1>2, <1>4, <1>8, <1>10, <1>11, bytes \in Seq(Byte), Len(bytes) = HeaderLen, AtSame
<1> QED
  BY <1>7, <1>12 DEF r

\* As many bytes as the header said are the payload that comes next.
LEMMA ItsPayload ==
    ASSUME CodecTypeOK, Whole, NEW pos, NEW stream, Laid(pos, stream), want = "payload", Measures,
           NEW bytes \in Seq(Byte), Len(bytes) = size, At(stream, Here(pos), bytes)
    PROVE  /\ Len(received) + 1 \in 1..Len(sent)
           /\ bytes = sent[Len(received) + 1]
           /\ pos[Len(received) + 1] = Here(pos) + Len(bytes)
<1> DEFINE r == Len(received)
<1>1. /\ r \in Nat /\ Len(sent) \in Nat /\ r < Len(sent) /\ size = Len(sent[r + 1])
  BY Digits DEF Measures
<1>2. stream \in Seq(Byte) /\ Here(pos) \in Nat
  BY PlaceValues
<1>3. Here(pos) = pos[r] + HeaderLen
  BY DEF Here
<1>4. r + 1 \in 1..Len(sent) /\ (r + 1) - 1 = r
  BY <1>1
<1>5. At(stream, pos[r] + HeaderLen, sent[r + 1]) /\ pos[r + 1] = pos[r] + HeaderLen + Len(sent[r + 1])
  BY <1>4 DEF Laid
<1>6. sent[r + 1] \in Seq(Byte)
  BY <1>4, KnownSent
<1>7. At(stream, Here(pos), sent[r + 1])
  BY <1>3, <1>5
<1> HIDE DEF r
<1>8. bytes = sent[r + 1]
  BY ONLY <1>1, <1>2, <1>6, <1>7, bytes \in Seq(Byte), Len(bytes) = size, At(stream, Here(pos), bytes), AtSame
<1> QED
  BY <1>3, <1>4, <1>5, <1>8 DEF r

\* What a recv does: it goes on, takes the length of the next frame from its header,
\* or completes the next frame.
LEMMA Outcomes ==
    ASSUME CodecIInv, NEW n \in 1..LinkCap, RecvBytes(n)
    PROVE  LET bytes == in \o SubSeq(onWire, 1, n)
               next  == sent[Len(received) + 1]
           IN  \/ in' = bytes /\ UNCHANGED <<want, size, received>> /\ ~Complete(bytes)
               \/ /\ want = "header" /\ in' = <<>> /\ received' = received
                  /\ Len(bytes) = HeaderLen /\ Len(received) + 1 \in 1..Len(sent)
                  /\ IF Len(next) > MAX_PAYLOAD
                     THEN want' = "failed" /\ size' = 0
                     ELSE want' = "payload" /\ size' = Len(next)
               \/ /\ want = "payload" /\ in' = <<>> /\ received' = Append(received, next)
                  /\ Len(bytes) = size /\ Len(received) + 1 \in 1..Len(sent)
                  /\ want' = "header" /\ size' = 0
<1> PICK bytes : bytes = in \o SubSeq(onWire, 1, n)
  OBVIOUS
<1> PICK next : next = sent[Len(received) + 1]
  OBVIOUS
<1>0. CodecTypeOK /\ Whole
  BY DEF CodecIInv
<1>1. want = "header" \/ want = "payload"
  BY <1>0 DEF RecvBytes, CodecTypeOK
<1>2. PICK pos, stream : Laid(pos, stream) /\ Placed(pos, stream) /\ Measures
  BY <1>1 DEF CodecIInv, InStep
<1>3. /\ bytes \in Seq(Byte)
      /\ \A s \in Seq(Byte), place \in Nat :
             At(s, place, in) /\ At(s, place + Len(in), onWire) => At(s, place, bytes)
  BY <1>0, Piece
<1>4. At(stream, Here(pos), bytes)
  <2>1. stream \in Seq(Byte) /\ Here(pos) \in Nat
    BY <1>0, <1>2, PlaceValues
  <2>2. At(stream, Here(pos), in) /\ At(stream, Here(pos) + Len(in), onWire)
    BY <1>2 DEF Placed
  <2> QED
    BY ONLY <2>1, <2>2, <1>3
<1>5. CASE ~Complete(bytes)
  BY <1>5 DEF RecvBytes
<1>6. CASE Complete(bytes) /\ want = "header"
  <2>1. in' = <<>> /\ Measured(Length(bytes)) /\ Len(bytes) = HeaderLen
    BY <1>6 DEF RecvBytes, Complete
  <2>2. Len(received) + 1 \in 1..Len(sent) /\ bytes = Header(Len(next))
    BY <1>0, <1>2, <1>3, <1>4, <1>6, <2>1, ItsHeader
  <2>3. Len(next) \in Nat \ {0} /\ Len(next) < Limit
    BY <1>0, <2>2, KnownSent
  <2>4. Length(bytes) = Len(next)
    BY ONLY <2>2, <2>3, RoundTrip
  <2> QED
    BY <1>6, <2>1, <2>2, <2>3, <2>4 DEF Measured, TooLarge
<1>7. CASE Complete(bytes) /\ want = "payload"
  <2>1. /\ in' = <<>> /\ received' = Append(received, bytes) /\ want' = "header" /\ size' = 0
        /\ Len(bytes) = size
    BY <1>7 DEF RecvBytes, Complete
  <2>2. Len(received) + 1 \in 1..Len(sent) /\ bytes = next
    BY <1>0, <1>2, <1>3, <1>4, <1>7, <2>1, ItsPayload
  <2> QED
    BY <1>7, <2>1, <2>2
<1> QED
  BY <1>1, <1>5, <1>6, <1>7

\* The bytes read stay in step with the stream.
LEMMA BytesReceived == ASSUME CodecIInv, NEW n \in 1..LinkCap, RecvBytes(n) PROVE CodecIInv'
<1> PICK bytes : bytes = in \o SubSeq(onWire, 1, n)
  OBVIOUS
<1> PICK next : next = sent[Len(received) + 1]
  OBVIOUS
<1>0. CodecTypeOK /\ Whole
  BY DEF CodecIInv
<1>1. want # "failed" /\ UNCHANGED <<sent, part, out, link>>
  BY DEF RecvBytes
<1>2. PICK pos, stream : Laid(pos, stream) /\ Placed(pos, stream) /\ Measures
  BY <1>1 DEF CodecIInv, InStep
<1>3. /\ bytes \in Seq(Byte) /\ Len(bytes) = Len(in) + n /\ Len(bytes) \in Nat
      /\ Len(bytes) <= (IF want = "header" THEN HeaderLen ELSE size)
      /\ onWire' \in Seq(Byte) /\ Len(onWire') = Len(onWire) - n /\ Len(onWire') <= LinkCap
      /\ Len(onWire') \in Nat
      /\ \A s \in Seq(Byte), place \in Nat :
             At(s, place, in) /\ At(s, place + Len(in), onWire) =>
                 At(s, place, bytes) /\ At(s, place + Len(bytes), onWire')
  BY <1>0, Piece
<1>4. /\ stream \in Seq(Byte) /\ Len(stream) \in Nat
      /\ Here(pos) \in Nat /\ SentUpTo(pos) = Here(pos) + Len(in) + Len(onWire)
      /\ Len(in) \in Nat /\ Len(onWire) \in Nat /\ n \in Nat
  BY <1>0, <1>2, PlaceValues, Digits
<1>5. At(stream, Here(pos), bytes) /\ At(stream, Here(pos) + Len(bytes), onWire')
  <2>1. At(stream, Here(pos), in) /\ At(stream, Here(pos) + Len(in), onWire)
    BY <1>2 DEF Placed
  <2> QED
    BY ONLY <2>1, <1>3, <1>4
<1>6. Here(pos) + Len(bytes) + Len(onWire') = SentUpTo(pos)
  BY ONLY <1>3, <1>4
<1>7. Laid(pos, stream)'
  BY <1>1, <1>2, StillLaid
<1>8. <<>> \in Seq(Byte) /\ Len(<<>>) = 0
  BY EmptySeq
<1>9. /\ Len(received) \in Nat /\ Len(sent) \in Nat /\ received \in Seq(Seq(Byte))
      /\ HeaderLen \in Nat \ {0} /\ MAX_PAYLOAD \in Nat
  BY <1>0, Digits, Constants DEF CodecTypeOK
<1>10. want \in {"header", "payload"} /\ size \in 0..MAX_PAYLOAD
  BY <1>0, <1>1 DEF CodecTypeOK
<1>11. CASE in' = bytes /\ UNCHANGED <<want, size, received>> /\ ~Complete(bytes)
  <2>1. Len(in') < (IF want' = "payload" THEN size' ELSE HeaderLen)
    <3>1. in' = bytes /\ want' = want /\ size' = size /\ size \in Nat
      BY <1>9, <1>10, <1>11
    <3>2. CASE want = "header"
      <4>1. Len(bytes) <= HeaderLen /\ Len(bytes) # HeaderLen
        BY <3>2, <1>3, <1>11 DEF Complete
      <4>2. Len(bytes) \in Nat /\ HeaderLen \in Nat
        BY <1>3, <1>9
      <4>3. Len(bytes) < HeaderLen
        BY ONLY <4>1, <4>2
      <4> QED
        BY <3>1, <3>2, <4>3
    <3>3. CASE want = "payload"
      <4>1. Len(bytes) <= size /\ Len(bytes) # size
        BY <3>3, <1>3, <1>11 DEF Complete
      <4>2. Len(bytes) \in Nat
        BY <1>3
      <4>3. size \in Nat
        BY <3>1
      <4>4. Len(bytes) < size
        BY ONLY <4>1, <4>2, <4>3
      <4> QED
        BY <3>1, <3>3, <4>4
    <3> QED
      BY <1>10, <3>2, <3>3
  <2>2. CodecTypeOK'
    BY <2>1, <1>0, <1>1, <1>3, <1>11 DEF CodecTypeOK
  <2>3. Whole'
    BY <1>0, <1>1, <1>11, StillWhole
  <2>4. Placed(pos, stream)'
    <3>1. Here(pos)' = Here(pos)
      <4>1. UNCHANGED <<received, want>>
        BY <1>11
      <4> QED
        BY ONLY <4>1 DEF Here
    <3>2. SentUpTo(pos)' = SentUpTo(pos)
      <4>1. SentUpTo(pos)' = Here(pos)' + Len(in') + Len(onWire')
        BY DEF SentUpTo
      <4> QED
        BY <4>1, <3>1, <1>6, <1>11
    <3>3. At(stream, Here(pos)', in') /\ At(stream, Here(pos)' + Len(in'), onWire')
      BY <3>1, <1>5, <1>11
    <3> QED
      BY ONLY <1>1, <1>2, <3>2, <3>3, Moves
  <2>5. Measures'
    BY <1>1, <1>2, <1>11 DEF Measures
  <2> QED
    BY <2>2, <2>3, <2>4, <2>5, <1>7 DEF CodecIInv, InStep
<1>12. CASE /\ want = "header" /\ in' = <<>> /\ received' = received
            /\ Len(bytes) = HeaderLen /\ Len(received) + 1 \in 1..Len(sent)
            /\ IF Len(next) > MAX_PAYLOAD
               THEN want' = "failed" /\ size' = 0
               ELSE want' = "payload" /\ size' = Len(next)
  <2>1. Len(next) \in Nat \ {0}
    BY <1>0, <1>12, KnownSent
  <2>2. CodecTypeOK'
    <3>1. want' \in {"payload", "failed"} /\ size' \in 0..MAX_PAYLOAD
      BY <1>9, <1>12, <2>1
    <3>2. Len(in') < (IF want' = "payload" THEN size' ELSE HeaderLen)
      BY <1>8, <1>9, <1>12, <2>1
    <3> QED
      BY <3>1, <3>2, <1>0, <1>1, <1>3, <1>8, <1>12 DEF CodecTypeOK
  <2>3. Whole'
    BY <1>0, <1>1, <1>12, StillWhole
  <2>4. ASSUME want' # "failed" PROVE Placed(pos, stream)' /\ Measures'
    <3>1. want' = "payload" /\ size' = Len(next)
      BY <1>12, <2>4
    <3>2. Here(pos)' = Here(pos) + Len(bytes)
      <4>1. pos[Len(received)] \in Nat
        BY <1>0, <1>2, <1>9, <1>12, PlaceValues
      <4>2. Here(pos) = pos[Len(received)] + 0 /\ Here(pos)' = pos[Len(received)] + HeaderLen
        BY <1>12, <3>1 DEF Here
      <4> QED
        BY <4>1, <4>2, <1>9, <1>12
    <3>3. SentUpTo(pos)' = SentUpTo(pos)
      <4>1. SentUpTo(pos)' = Here(pos)' + Len(in') + Len(onWire')
        BY DEF SentUpTo
      <4> QED
        BY <4>1, <3>2, <1>3, <1>4, <1>6, <1>8, <1>12
    <3>4. At(stream, Here(pos)', in') /\ At(stream, Here(pos)' + Len(in'), onWire')
      <4>1. Here(pos) + Len(bytes) \in Nat /\ Here(pos) + Len(bytes) <= Len(stream)
        BY <1>3, <1>4, <1>5 DEF At
      <4>2. At(stream, Here(pos) + Len(bytes), <<>>)
        BY ONLY <4>1, <1>4, AtNone
      <4>3. Here(pos)' + Len(in') = Here(pos) + Len(bytes)
        BY <3>2, <4>1, <1>8, <1>12
      <4> QED
        BY <3>2, <4>2, <4>3, <1>5, <1>12
    <3>5. Placed(pos, stream)'
      BY ONLY <1>1, <1>2, <3>3, <3>4, Moves
    <3>6. Measures'
      <4>1. Len(received) < Len(sent)
        BY <1>9, <1>12
      <4> QED
        BY <4>1, <3>1, <1>1, <1>12 DEF Measures
    <3> QED
      BY <3>5, <3>6
  <2> QED
    BY <2>2, <2>3, <2>4, <1>7 DEF CodecIInv, InStep
<1>13. CASE /\ want = "payload" /\ in' = <<>> /\ received' = Append(received, next)
            /\ Len(bytes) = size /\ Len(received) + 1 \in 1..Len(sent)
            /\ want' = "header" /\ size' = 0
  <2>1. next \in Seq(Byte)
    BY <1>0, <1>13, KnownSent
  <2>2. received' \in Seq(Seq(Byte)) /\ Len(received') = Len(received) + 1
    BY ONLY <2>1, <1>9, <1>13, AppendProperties
  <2>3. CodecTypeOK'
    BY <2>2, <1>0, <1>1, <1>3, <1>8, <1>9, <1>13 DEF CodecTypeOK
  <2>4. Whole'
    <3>1. Len(received') <= Len(sent)
      BY <2>2, <1>9, <1>13
    <3> QED
      BY <3>1, <1>0, <1>1 DEF Whole
  <2>5. Here(pos)' = Here(pos) + Len(bytes)
    <3>1. pos[Len(received) + 1] = Here(pos) + Len(bytes)
      BY <1>0, <1>2, <1>3, <1>5, <1>13, ItsPayload
    <3>2. Here(pos)' = pos[Len(received) + 1] + 0
      BY <2>2, <1>13 DEF Here
    <3> QED
      BY <3>1, <3>2, <1>3, <1>4
  <2>6. SentUpTo(pos)' = SentUpTo(pos)
    <3>1. SentUpTo(pos)' = Here(pos)' + Len(in') + Len(onWire')
      BY DEF SentUpTo
    <3> QED
      BY <3>1, <2>5, <1>3, <1>4, <1>6, <1>8, <1>13
  <2>7. At(stream, Here(pos)', in') /\ At(stream, Here(pos)' + Len(in'), onWire')
    <3>1. Here(pos) + Len(bytes) \in Nat /\ Here(pos) + Len(bytes) <= Len(stream)
      BY <1>3, <1>4, <1>5 DEF At
    <3>2. At(stream, Here(pos) + Len(bytes), <<>>)
      BY ONLY <3>1, <1>4, AtNone
    <3>3. Here(pos)' + Len(in') = Here(pos) + Len(bytes)
      BY <2>5, <3>1, <1>8, <1>13
    <3> QED
      BY <2>5, <3>2, <3>3, <1>5, <1>13
  <2>8. Placed(pos, stream)'
    BY ONLY <1>1, <1>2, <2>6, <2>7, Moves
  <2>9. Measures'
    BY <1>13 DEF Measures
  <2> QED
    BY <2>3, <2>4, <2>8, <2>9, <1>7 DEF CodecIInv, InStep
<1> QED
  BY Outcomes, <1>11, <1>12, <1>13

\* Nothing more is read after the end or an error.
LEMMA ReadingEnds == ASSUME CodecIInv, RecvEnds PROVE CodecIInv'
<1>0. CodecTypeOK /\ Whole
  BY DEF CodecIInv
<1>1. want' = "failed" /\ size' = 0 /\ in' = <<>> /\ UNCHANGED <<sent, part, out, onWire, link, received>>
  BY DEF RecvEnds
<1>2. <<>> \in Seq(Byte) /\ Len(<<>>) = 0
  BY EmptySeq
<1>3. CodecTypeOK'
  BY <1>0, <1>1, <1>2, Constants DEF CodecTypeOK
<1>4. Whole'
  BY <1>0, <1>1, StillWhole
<1>5. PICK pos, stream : Laid(pos, stream)
  BY DEF CodecIInv, InStep
<1>6. Laid(pos, stream)'
  BY <1>1, <1>5, StillLaid
<1> QED
  BY <1>1, <1>3, <1>4, <1>6 DEF CodecIInv, InStep

-----------------------------------------------------------------------------
(* The theorems. *)

(* The bytes in the connection and at both of its ends stand where the frames sent
   put them: recv_frame is at the beginning of a header or of the payload that this
   header belongs to, however send and recv cut the bytes. *)
THEOREM CodecInductive == CodecSpec => []CodecIInv
<1>1. CodecIInv /\ [CodecNext]_codecVars => CodecIInv'
  <2> SUFFICES ASSUME CodecIInv, [CodecNext]_codecVars PROVE CodecIInv'
    OBVIOUS
  <2>1. CASE UNCHANGED codecVars
    <3> USE <2>1 DEF codecVars
    <3>1. CodecTypeOK' /\ Whole'
      BY DEF CodecIInv, CodecTypeOK, Whole
    <3>2. PICK pos, stream : Laid(pos, stream) /\ (want # "failed" => Placed(pos, stream) /\ Measures)
      BY DEF CodecIInv, InStep
    <3>3. Laid(pos, stream)' /\ (want' # "failed" => Placed(pos, stream)' /\ Measures')
      BY <3>2 DEF Laid, Placed, Here, SentUpTo, Measures
    <3> QED
      BY <3>1, <3>3 DEF CodecIInv, InStep
  <2>2. CASE CodecNext
    BY <2>2, FrameBegins, BytesSent, LinkEnds, BytesReceived, ReadingEnds DEF CodecNext, SendAll, RecvAll
  <2> QED
    BY <2>1, <2>2
<1> QED
  BY <1>1, Initially, PTL DEF CodecSpec

(* The fields keep their types, in particular the length that was read never
   exceeds MAX_PAYLOAD and no more bytes are read than it says. *)
THEOREM Types == CodecSpec => []CodecTypeOK
<1>1. CodecIInv => CodecTypeOK
  BY DEF CodecIInv
<1> QED
  BY <1>1, CodecInductive, PTL

(* The code implements FrameChannel: recv_frame returns the payloads given to
   send_frame, whole, in order, none twice. *)
THEOREM Refinement == CodecSpec => ImplementsChannel
<1>1. CodecInit => Channel!Init
  BY DEF CodecInit, Channel!Init
<1>2. CodecIInv /\ [CodecNext]_codecVars => [Channel!Send \/ Channel!Receive]_<<sent, received>>
  <2> SUFFICES ASSUME CodecIInv, [CodecNext]_codecVars
               PROVE  Channel!Send \/ Channel!Receive \/ UNCHANGED <<sent, received>>
    OBVIOUS
  <2>1. CASE UNCHANGED codecVars
    BY <2>1 DEF codecVars
  <2>2. ASSUME NEW payload \in Payload, BeginFrame(payload) PROVE Channel!Send
    BY <2>2 DEF BeginFrame, Channel!Send
  <2>3. ASSUME NEW n \in 1..LinkCap, RecvBytes(n)
        PROVE  Channel!Receive \/ UNCHANGED <<sent, received>>
    <3>1. sent' = sent
      BY <2>3 DEF RecvBytes
    <3>2. \/ received' = received
          \/ /\ received' = Append(received, sent[Len(received) + 1])
             /\ Len(received) + 1 \in 1..Len(sent)
      BY <2>3, Outcomes
    <3>3. Len(received) \in Nat /\ Len(sent) \in Nat
      BY Digits DEF CodecIInv
    <3>4. Len(received) + 1 \in 1..Len(sent) => Len(received) < Len(sent)
      BY ONLY <3>3
    <3> QED
      BY <3>1, <3>2, <3>4 DEF Channel!Receive
  <2>4. ASSUME (\E n \in 1..LinkCap : SendBytes(n)) \/ EndLink \/ RecvEnds
        PROVE  UNCHANGED <<sent, received>>
    BY <2>4 DEF SendBytes, EndLink, RecvEnds
  <2> QED
    BY <2>1, <2>2, <2>3, <2>4 DEF CodecNext, SendAll, RecvAll
<1> QED
  BY <1>1, <1>2, CodecInductive, PTL DEF CodecSpec, ImplementsChannel, Channel!Spec

-----------------------------------------------------------------------------
(* FramingClient. *)

(* The inductive invariant. *)

\* main may still get a line; has one in hand; has begun to read frames itself.
Typing == {"connect", "getline", "enqueue", "block", "asleep"}
Holding == {"enqueue", "block", "asleep"}
Past == {"drain", "join", "returned"}

(* A thread has something in hand exactly at the labels where it needs it. *)
Places ==
    /\ line = <<>> <=> pc.main \notin Holding
    /\ msg = <<>> <=> pc.send # "send"
    /\ frame = <<>> <=> pc.recv # "push"
    /\ pc.main = "connect" => pc.recv = "none" /\ pc.send = "none"

(* m_txBytesQueued is the sum of the sizes in the queue: f[i] is that of the first i. *)
Sums(f, q) ==
    /\ f \in [0..Len(q) -> Nat]
    /\ f[0] = 0
    /\ \A i \in 1..Len(q) : f[i] = f[i - 1] + Size(q[i])
    /\ \A i, j \in 0..Len(q) : i <= j => f[i] <= f[j]

Weighs(q, n) == \E f : Sums(f, q) /\ f[Len(q)] = n

Lines == heard \o wire \o msg \o m_txQueue \o line

Rising(s, t) ==
    /\ \A i, j \in 1..Len(s) : i < j => Number(s[i]) < Number(s[j])
    /\ \A i \in 1..Len(s) : Number(s[i]) <= t

Counted(s) == \A i \in 1..Len(s) : Number(s[i]) = i

(* While the connection and the sender are up, each line typed is somewhere. *)
LinesKept ==
    /\ Rising(Lines, typed)
    /\ server = "open" /\ ~SendFailed =>
         Counted(Lines) /\ (pc.main \in Typing => Len(Lines) = typed)

Frames == printed \o m_rxQueue \o frame

Grown(s, t) ==
    /\ \A i, j \in 1..Len(s) : i < j => s[i] < s[j]
    /\ \A i \in 1..Len(s) : i <= s[i] /\ s[i] <= t

Covers(s, t) ==
    \A k \in 1..t : k > MAX_RX_QUEUE_SIZE \/ \E i \in 1..Len(s) : s[i] = k

(* What is dropped comes after a full queue. *)
FramesKept ==
    /\ Grown(Frames, taken)
    /\ pc.main \notin Past => Covers(Frames, taken)

IInv == TypeOK /\ Places /\ Weighs(m_txQueue, m_txBytesQueued) /\ LinesKept /\ FramesKept

-----------------------------------------------------------------------------
(* Sequences. *)

LEMMA ConcatFacts ==
    ASSUME NEW S, NEW q \in Seq(S), NEW c \in Seq(S)
    PROVE  /\ q \o c \in Seq(S)
           /\ Len(q) \in Nat /\ Len(c) \in Nat /\ Len(q \o c) = Len(q) + Len(c)
           /\ \A i \in 1..Len(q) : (q \o c)[i] = q[i]
           /\ \A i \in 1..Len(c) : (q \o c)[Len(q) + i] = c[i]
BY ConcatProperties, LenProperties

LEMMA Assoc ==
    ASSUME NEW S, NEW a \in Seq(S), NEW b \in Seq(S), NEW c \in Seq(S)
    PROVE  (a \o b) \o c = a \o (b \o c)
BY ConcatAssociative

LEMMA NoneMore ==
    ASSUME NEW S, NEW a \in Seq(S)
    PROVE  a \o <<>> = a
BY ConcatEmptySeq

\* The head moves from the front of one sequence to the end of another.
LEMMA HeadMoves ==
    ASSUME NEW S, NEW q \in Seq(S), q # <<>>
    PROVE  /\ Head(q) \in S /\ Tail(q) \in Seq(S) /\ <<Head(q)>> \in Seq(S)
           /\ <<Head(q)>> \o Tail(q) = q
           /\ Len(q) \in Nat \ {0} /\ Len(Tail(q)) = Len(q) - 1
           /\ Head(q) = q[1] /\ \A i \in 1..Len(q) - 1 : Tail(q)[i] = q[i + 1]
<1>1. /\ Head(q) \in S /\ Tail(q) \in Seq(S) /\ <<Head(q)>> \in Seq(S)
      /\ Len(q) \in Nat \ {0} /\ Len(Tail(q)) = Len(q) - 1
      /\ Head(q) = q[1] /\ \A i \in 1..Len(q) - 1 : Tail(q)[i] = q[i + 1]
  BY HeadTailProperties, LenProperties, EmptySeq
<1>2. <<Head(q)>> \o Tail(q) = q
  <2> DEFINE c == <<Head(q)>> \o Tail(q)
  <2>1. c \in Seq(S) /\ Len(c) = Len(q)
    BY <1>1, ConcatFacts
  <2>2. ASSUME NEW i \in 1..Len(q) PROVE c[i] = q[i]
    <3>1. CASE i = 1
      BY <3>1, <1>1, ConcatFacts
    <3>2. CASE i # 1
      <4>1. i - 1 \in 1..Len(Tail(q)) /\ i = Len(<<Head(q)>>) + (i - 1)
        BY <1>1, <3>2
      <4>2. c[i] = Tail(q)[i - 1]
        BY <1>1, <4>1, ConcatFacts
      <4> QED
        BY <1>1, <4>1, <4>2
    <3> QED
      BY <3>1, <3>2
  <2> QED
    BY <2>1, <2>2, SeqEqual
<1> QED
  BY <1>1, <1>2

-----------------------------------------------------------------------------
(* Lines in order. *)

\* What is left of them after a part is lost is in order.
LEMMA RisingGap ==
    ASSUME NEW a \in Seq(Line), NEW m \in Seq(Line), NEW b \in Seq(Line), NEW t,
           Rising((a \o m) \o b, t)
    PROVE  Rising(a \o b, t)
<1> DEFINE s == (a \o m) \o b
           u == a \o b
           f == [i \in 1..Len(u) |-> IF i <= Len(a) THEN i ELSE i + Len(m)]
<1>1. /\ Len(a) \in Nat /\ Len(m) \in Nat /\ Len(b) \in Nat
      /\ Len(u) = Len(a) + Len(b) /\ Len(s) = Len(a) + Len(m) + Len(b)
  BY ConcatFacts
<1>2. ASSUME NEW i \in 1..Len(u) PROVE f[i] \in 1..Len(s) /\ u[i] = s[f[i]]
  <2>1. CASE i <= Len(a)
    <3>1. u[i] = a[i] /\ (a \o m)[i] = a[i]
      BY <1>1, <2>1, ConcatFacts
    <3>2. s[i] = (a \o m)[i]
      BY <1>1, <2>1, ConcatFacts
    <3> QED
      BY <1>1, <2>1, <3>1, <3>2
  <2>2. CASE i > Len(a)
    <3> DEFINE k == i - Len(a)
    <3>1. k \in 1..Len(b) /\ i = Len(a) + k /\ f[i] = Len(a \o m) + k
      BY <1>1, <2>2, ConcatFacts
    <3>2. u[i] = b[k] /\ s[f[i]] = b[k]
      BY <3>1, ConcatFacts
    <3> QED
      BY <1>1, <3>1, <3>2, ConcatFacts
  <2> QED
    BY <1>1, <2>1, <2>2
<1>3. \A i, j \in 1..Len(u) : i < j => f[i] < f[j]
  BY <1>1
<1> HIDE DEF s, u, f
<1>4. Rising(s, t)
  BY DEF s
<1> QED
  BY <1>2, <1>3, <1>4 DEF Rising, u

LEMMA RisingCut ==
    ASSUME NEW a \in Seq(Line), NEW m \in Seq(Line), NEW t
    PROVE  /\ Rising(a \o m, t) => Rising(a, t)
           /\ Counted(a \o m) => Counted(a)
<1>1. /\ 1..Len(a) \subseteq 1..Len(a \o m)
      /\ \A i \in 1..Len(a) : (a \o m)[i] = a[i]
  BY ConcatFacts
<1> QED
  BY <1>1 DEF Rising, Counted

LEMMA RisingMore ==
    ASSUME NEW a \in Seq(Line), NEW t \in Nat, Rising(a, t), NEW x \in Line, Number(x) = t + 1
    PROVE  /\ Rising(a \o <<x>>, t + 1)
           /\ Counted(a) /\ Len(a) = t => Counted(a \o <<x>>) /\ Len(a \o <<x>>) = t + 1
<1>1. /\ Len(a \o <<x>>) = Len(a) + 1 /\ Len(a) \in Nat
      /\ \A i \in 1..Len(a) : (a \o <<x>>)[i] = a[i]
      /\ (a \o <<x>>)[Len(a) + 1] = x
  <2>1. <<x>> \in Seq(Line) /\ Len(<<x>>) = 1 /\ <<x>>[1] = x
    OBVIOUS
  <2> QED
    BY <2>1, ConcatFacts
<1>2. \A i \in 1..Len(a) : Number(a[i]) \in Nat
  BY ElementOfSeq DEF Line, Number
<1> QED
  BY <1>1, <1>2 DEF Rising, Counted

-----------------------------------------------------------------------------
(* Where the threads go: labels, hands and types. *)

\* What no step undoes.
Onward ==
    /\ pc.main \notin Typing => pc'.main \notin Typing
    /\ pc.main \in Past => pc'.main \in Past
    /\ SendFailed => SendFailed'
    /\ server # "open" => server' # "open"

PcStep == TypeOK' /\ Places' /\ Onward

LEMMA Sized == ASSUME NEW x \in Line PROVE Size(x) \in Nat /\ Size(x) \in Sizes /\ Number(x) \in 1..MaxLines
BY FramingClientAssumption DEF Line, Size, Number

PcType == pc \in [main : MainLabel, recv : RecvLabel, print : WaitLabel, send : WaitLabel]

\* A notification moves nobody but a sleeper.
LEMMA Wakes ==
    ASSUME PcType
    PROVE  /\ \A l \in MainLabel : GotoWake("main", l, "print", "lock") =>
                /\ PcType' /\ pc'.main = l /\ pc'.recv = pc.recv /\ pc'.send = pc.send
           /\ \A l \in MainLabel : GotoWake("main", l, "send", "lock") =>
                /\ PcType' /\ pc'.main = l /\ pc'.recv = pc.recv
                /\ pc'.send = pc.send \/ (pc.send = "asleep" /\ pc'.send = "lock")
           /\ \A l \in RecvLabel : GotoWake("recv", l, "print", "lock") =>
                /\ PcType' /\ pc'.recv = l /\ pc'.main = pc.main /\ pc'.send = pc.send
           /\ \A l \in WaitLabel : GotoWake("send", l, "main", "enqueue") =>
                /\ PcType' /\ pc'.send = l /\ pc'.recv = pc.recv
                /\ pc'.main = pc.main \/ (pc.main = "asleep" /\ pc'.main = "enqueue")
<1>1. ASSUME NEW l \in MainLabel, GotoWake("main", l, "print", "lock")
      PROVE  /\ PcType' /\ pc'.main = l /\ pc'.recv = pc.recv /\ pc'.send = pc.send
  BY <1>1 DEF PcType, GotoWake, Woken, WaitLabel
<1>2. ASSUME NEW l \in MainLabel, GotoWake("main", l, "send", "lock")
      PROVE  /\ PcType' /\ pc'.main = l /\ pc'.recv = pc.recv
             /\ pc'.send = pc.send \/ (pc.send = "asleep" /\ pc'.send = "lock")
  BY <1>2 DEF PcType, GotoWake, Woken, WaitLabel
<1>3. ASSUME NEW l \in RecvLabel, GotoWake("recv", l, "print", "lock")
      PROVE  /\ PcType' /\ pc'.recv = l /\ pc'.main = pc.main /\ pc'.send = pc.send
  BY <1>3 DEF PcType, GotoWake, Woken, WaitLabel
<1>4. ASSUME NEW l \in WaitLabel, GotoWake("send", l, "main", "enqueue")
      PROVE  /\ PcType' /\ pc'.send = l /\ pc'.recv = pc.recv
             /\ pc'.main = pc.main \/ (pc.main = "asleep" /\ pc'.main = "enqueue")
  BY <1>4 DEF PcType, GotoWake, Woken, MainLabel
<1> QED
  BY <1>1, <1>2, <1>3, <1>4

LEMMA Notified ==
    ASSUME IInv, PcType', UNCHANGED dataVars, pc'.recv = pc.recv,
           pc.main \in {"wakePrint", "wakeSend"}, pc'.main \in {"wakeSend", "shutdown"},
           pc'.send = pc.send \/ (pc.send = "asleep" /\ pc'.send = "lock")
    PROVE  PcStep
<1>1. TypeOK'
  BY DEF IInv, TypeOK, PcType, dataVars, handVars, flagVars, queueVars, conVars, netVars
<1>2. Places'
  <2>1. UNCHANGED <<line, msg, frame>> /\ Places
    BY DEF IInv, dataVars, handVars
  <2> QED
    BY <2>1 DEF Places, Holding
<1>3. Onward
  BY DEF Onward, Typing, Past, SendFailed, dataVars, netVars
<1> QED
  BY <1>1, <1>2, <1>3 DEF PcStep

LEMMA ConsoleSteps == ASSUME IInv, Console PROVE PcStep
<1> USE DEF IInv, TypeOK, Places, PcStep, Onward, SendFailed, Typing, Holding, Past, Goto, AtMostOne
<1>1. ASSUME NEW n \in Sizes, Type(n) PROVE PcStep
  <2>1. typed + 1 \in 1..MaxLines /\ <<typed + 1, n>> \in Line
    <3>1. typed \in Nat /\ typed < MaxLines /\ MaxLines \in Nat
      BY <1>1, FramingClientAssumption DEF Type
    <3>2. typed + 1 \in 1..MaxLines
      BY ONLY <3>1
    <3> QED
      BY ONLY <3>2, n \in Sizes DEF Line
  <2> DEFINE x == <<typed + 1, n>>
  <2>2. line' = line \/ line' = <<x>>
    BY <1>1 DEF Type
  <2> HIDE DEF x
  <2>3. line' \in AtMostOne(Line) /\ <<x>> # <<>>
    BY <2>1, <2>2 DEF x
  <2>4. /\ PcType' /\ pc.main = "getline" /\ pc'.recv = pc.recv /\ pc'.send = pc.send
        /\ \/ pc'.main = "inactive" /\ line' = line
           \/ pc'.main = "enqueue" /\ line' = <<x>>
    BY <1>1 DEF Type, PcType, MainLabel, x
  <2>5. UNCHANGED <<frame, msg, flagVars, queueVars, printed, eof, tries, netVars, taken>> /\ typed' = typed + 1
    BY <1>1 DEF Type
  <2>6. TypeOK'
    BY <2>1, <2>3, <2>4, <2>5 DEF PcType, flagVars, queueVars, netVars
  <2>7. Places' /\ Onward
    BY <2>3, <2>4, <2>5 DEF flagVars, queueVars, netVars
  <2> QED
    BY <2>6, <2>7
<1>2. CASE Leave
  <2>1. /\ PcType' /\ pc.main = "getline" /\ pc'.main = "inactive" /\ eof' \in BOOLEAN
        /\ pc'.recv = pc.recv /\ pc'.send = pc.send
    BY <1>2 DEF Leave, MainLabel, PcType
  <2> QED
    BY <1>2, <2>1 DEF Leave, PcType, handVars, flagVars, queueVars, netVars
<1> QED
  BY <1>1, <1>2 DEF Console

LEMMA MainSteps == ASSUME IInv, Main PROVE PcStep
<1> USE DEF IInv, TypeOK, Places, PcStep, Onward, SendFailed, Typing, Holding, Past, Goto, AtMostOne,
            dataVars, handVars, flagVars, queueVars, conVars, netVars, MainLabel
<1>1. CASE TryAddress
  BY <1>1, FramingClientAssumption DEF TryAddress
<1>2. CASE Start
  <2>1. CASE m_socket = "invalid"
    BY <1>2, <2>1 DEF Start
  <2>2. CASE m_socket # "invalid"
    <3>1. /\ PcType' /\ pc'.main = "getline" /\ pc'.recv = "check" /\ pc'.send = "lock"
          /\ pc.main = "connect" /\ m_isActive' = TRUE
      BY <1>2, <2>2 DEF Start, PcType, RecvLabel, WaitLabel
    <3>2. UNCHANGED <<handVars, m_socket, queueVars, conVars, tries, netVars, taken>>
      BY <1>2 DEF Start
    <3> QED
      BY <3>1, <3>2 DEF PcType
  <2> QED
    BY <2>1, <2>2
<1>3. CASE Enqueue
  <2>1. PICK x \in Line : line = <<x>>
    BY <1>3 DEF Enqueue
  <2>2. /\ m_txQueue' = m_txQueue \o <<x>> /\ m_txBytesQueued' = m_txBytesQueued + Size(x)
        /\ HasRoom(Size(x)) /\ line' = <<>>
    BY <1>3, <2>1 DEF Enqueue
  <2>3. m_txQueue' \in Seq(Line)
    BY <2>1, <2>2, ConcatFacts
  <2>4. m_txBytesQueued' \in 0..TX_HWM
    <3>1. Size(x) \in Nat
      BY <2>1, Sized
    <3> QED
      BY <2>2, <3>1, FramingClientAssumption DEF HasRoom
  <2>5. /\ pc'.main = "getline" /\ pc'.recv = pc.recv /\ pc'.print = pc.print
        /\ pc'.send = pc.send \/ (pc.send = "asleep" /\ pc'.send = "lock")
        /\ pc' \in [main : MainLabel, recv : RecvLabel, print : WaitLabel, send : WaitLabel]
    BY <1>3 DEF Enqueue, GotoWake, Woken, WaitLabel
  <2>6. UNCHANGED <<frame, msg, flagVars, m_rxQueue, conVars, tries, netVars, taken>>
    BY <1>3 DEF Enqueue
  <2>7. Places' /\ Onward /\ pc.main = "enqueue"
    BY <1>3, <2>2, <2>5, <2>6 DEF Enqueue
  <2> QED
    BY <2>2, <2>3, <2>4, <2>5, <2>6, <2>7
<1>4. CASE EnqueueWaits
  BY <1>4 DEF EnqueueWaits
<1>5. CASE EnqueueFails
  BY <1>5 DEF EnqueueFails
<1>6. CASE FallAsleep("main")
  <2>1. /\ PcType' /\ pc.main = "block" /\ pc'.main = "asleep" /\ UNCHANGED dataVars
        /\ pc'.recv = pc.recv /\ pc'.send = pc.send
    BY <1>6 DEF FallAsleep, PcType
  <2> QED
    BY <2>1 DEF PcType
<1>7. CASE StoreInactive
  BY <1>7 DEF StoreInactive
<1>8. CASE NotifyPrint
  BY <1>8, Notified, Wakes DEF NotifyPrint, PcType
<1>9. CASE NotifySend
  BY <1>9, Notified, Wakes DEF NotifySend, PcType
<1>10. CASE Shutdown
  BY <1>10 DEF Shutdown
<1>11. CASE Drain
  BY <1>11, FramingClientAssumption DEF Drain, FrameWaits
<1>12. CASE Close
  <2>1. /\ PcType' /\ pc.main = "drain" /\ pc'.main = "join" /\ m_socket' = "closed"
        /\ pc'.recv = pc.recv /\ pc'.send = pc.send
    BY <1>12 DEF Close, PcType
  <2> QED
    BY <1>12, <2>1 DEF Close, PcType
<1>13. CASE Join
  <2>1. /\ PcType' /\ pc.main = "join" /\ pc'.main = "returned"
        /\ pc'.recv = pc.recv /\ pc'.send = pc.send
    BY <1>13 DEF Join, PcType
  <2> QED
    BY <1>13, <2>1 DEF Join, PcType
<1> QED
  BY <1>1, <1>2, <1>3, <1>4, <1>5, <1>6, <1>7, <1>8, <1>9, <1>10, <1>11, <1>12, <1>13 DEF Main

LEMMA RecvSteps == ASSUME IInv, Recv PROVE PcStep
<1> USE DEF IInv, TypeOK, Places, PcStep, Onward, SendFailed, Typing, Holding, Past, Goto, AtMostOne,
            dataVars, handVars, flagVars, queueVars, conVars, netVars, RecvLabel
<1>1. CASE RecvCheck
  <2>1. /\ PcType' /\ pc'.main = pc.main /\ pc'.send = pc.send /\ UNCHANGED dataVars
        /\ pc.recv = "check" /\ pc'.recv \in {"recv", "done"}
    BY <1>1 DEF RecvCheck, PcType
  <2> QED
    BY <2>1 DEF PcType
<1>2. CASE RecvFrame
  <2>1. taken + 1 \in 1..MaxFrames /\ taken + 1 \in 0..offered
    <3>1. taken \in 0..offered /\ offered \in 0..MaxFrames /\ MaxFrames \in Nat /\ taken < offered
      BY <1>2, FramingClientAssumption DEF RecvFrame, FrameWaits
    <3> QED
      BY ONLY <3>1
  <2>2. frame' \in AtMostOne(1..MaxFrames) /\ frame' # <<>>
    BY <1>2, <2>1 DEF RecvFrame
  <2>3. PcType' /\ pc'.main = pc.main /\ pc'.recv = "push" /\ pc'.send = pc.send
    BY <1>2 DEF RecvFrame, PcType
  <2> QED
    BY <1>2, <2>1, <2>2, <2>3 DEF RecvFrame, PcType
<1>3. CASE RecvLost \/ RecvInactive
  <2>1. /\ PcType' /\ pc'.main = pc.main /\ pc'.send = pc.send
        /\ pc.recv \in {"recv", "lost"} /\ pc'.recv \in {"lost", "wakePrint"}
        /\ m_isActive' \in BOOLEAN
    BY <1>3 DEF RecvLost, RecvInactive, PcType
  <2>2. UNCHANGED <<handVars, m_socket, queueVars, conVars, tries, netVars, taken>>
    BY <1>3 DEF RecvLost, RecvInactive
  <2> QED
    BY <2>1, <2>2 DEF PcType
<1>4. CASE RecvNotify
  <2>1. PcType' /\ pc'.recv = "hungup" /\ pc.recv = "wakePrint" /\ pc'.main = pc.main /\ pc'.send = pc.send
    BY <1>4, Wakes DEF RecvNotify, PcType
  <2> QED
    BY <1>4, <2>1 DEF RecvNotify, PcType
<1>5. CASE RecvPush
  <2>1. PICK k \in 1..MaxFrames : frame = <<k>>
    BY <1>5 DEF RecvPush
  <2>2. m_rxQueue' \in Seq(1..MaxFrames) /\ Len(m_rxQueue') <= MAX_RX_QUEUE_SIZE
    <3>1. CASE RxFull
      BY <1>5, <3>1 DEF RecvPush
    <3>2. CASE ~RxFull
      <4>1. m_rxQueue' = m_rxQueue \o <<k>>
        BY <1>5, <2>1, <3>2 DEF RecvPush
      <4>2. <<k>> \in Seq(1..MaxFrames) /\ Len(<<k>>) = 1
        OBVIOUS
      <4> QED
        BY <4>1, <4>2, <3>2, ConcatFacts, FramingClientAssumption DEF RxFull
    <3> QED
      BY <3>1, <3>2
  <2>3. /\ pc'.recv = "check" /\ pc'.main = pc.main /\ pc'.send = pc.send
        /\ pc' \in [main : MainLabel, recv : RecvLabel, print : WaitLabel, send : WaitLabel]
        /\ pc.recv = "push" /\ frame' = <<>>
    BY <1>5 DEF RecvPush, GotoWake, Woken, WaitLabel
  <2>4. UNCHANGED <<line, msg, flagVars, m_txQueue, m_txBytesQueued, conVars, tries, netVars, taken>>
    BY <1>5 DEF RecvPush
  <2>5. Places' /\ Onward
    BY <2>3, <2>4
  <2> QED
    BY <2>2, <2>3, <2>4, <2>5
<1> QED
  BY <1>1, <1>2, <1>3, <1>4, <1>5 DEF Recv

LEMMA PrinterSteps == ASSUME IInv, Printer PROVE PcStep
<1> USE DEF IInv, TypeOK, Places, PcStep, Onward, SendFailed, Typing, Holding, Past, Goto, AtMostOne,
            dataVars, handVars, flagVars, queueVars, conVars, netVars, WaitLabel
<1>1. CASE PrintFrame
  <2>1. /\ Head(m_rxQueue) \in 1..MaxFrames /\ Tail(m_rxQueue) \in Seq(1..MaxFrames)
        /\ Len(Tail(m_rxQueue)) <= MAX_RX_QUEUE_SIZE
    <3>1. m_rxQueue \in Seq(1..MaxFrames) /\ m_rxQueue # <<>> /\ Len(m_rxQueue) <= MAX_RX_QUEUE_SIZE
          /\ MAX_RX_QUEUE_SIZE \in Nat
      BY <1>1, FramingClientAssumption DEF PrintFrame
    <3> HIDE DEF IInv, TypeOK
    <3>2. /\ Head(m_rxQueue) \in 1..MaxFrames /\ Tail(m_rxQueue) \in Seq(1..MaxFrames)
          /\ Len(Tail(m_rxQueue)) = Len(m_rxQueue) - 1 /\ Len(m_rxQueue) \in Nat
      BY ONLY <3>1, HeadMoves
    <3> QED
      BY ONLY <3>1, <3>2
  <2> QED
    BY <1>1, <2>1 DEF PrintFrame
<1>2. CASE PrintWaits \/ FallAsleep("print")
  <2>1. PcType' /\ pc'.main = pc.main /\ pc'.recv = pc.recv /\ pc'.send = pc.send
    BY <1>2 DEF PrintWaits, FallAsleep, PcType
  <2> QED
    BY <1>2, <2>1 DEF PrintWaits, FallAsleep, PcType
<1> QED
  BY <1>1, <1>2 DEF Printer

\* AfterPop is not negative, since the sizes in the queue add up.
LEMMA PopWeighs ==
    ASSUME IInv, m_txQueue # <<>>
    PROVE  /\ AfterPop \in 0..TX_HWM
           /\ Weighs(Tail(m_txQueue), AfterPop)
<1> DEFINE q == m_txQueue
           n == Len(q)
<1>1. PICK f : Sums(f, q) /\ f[n] = m_txBytesQueued
  BY DEF IInv, Weighs
<1>2. /\ n \in Nat \ {0} /\ Head(q) = q[1] /\ Len(Tail(q)) = n - 1
      /\ \A i \in 1..n - 1 : Tail(q)[i] = q[i + 1]
  BY HeadMoves DEF IInv, TypeOK
<1>3. \A i \in 1..n : Size(q[i]) \in Nat
  <2>1. \A i \in 1..n : q[i] \in Line
    BY ElementOfSeq DEF IInv, TypeOK
  <2> QED
    BY <2>1, Sized
<1> HIDE DEF q, n
<1>4. /\ \A i \in 0..n : f[i] \in Nat
      /\ f[1] = Size(q[1]) /\ f[1] <= f[n]
      /\ \A i \in 1..n : f[1] <= f[i]
  <2>1. /\ f \in [0..n -> Nat] /\ f[0] = 0
        /\ \A i \in 1..n : f[i] = f[i - 1] + Size(q[i])
        /\ \A i, j \in 0..n : i <= j => f[i] <= f[j]
    BY <1>1 DEF Sums, n
  <2>2. \A i \in 0..n : f[i] \in Nat
    BY ONLY <2>1
  <2>3. f[1] = Size(q[1])
    BY ONLY <1>2, <1>3, <2>1
  <2>4. \A i \in 1..n : f[1] <= f[i]
    BY ONLY <1>2, <2>1
  <2> QED
    BY ONLY <1>2, <2>2, <2>3, <2>4
<1>5. AfterPop = f[n] - f[1]
  BY <1>1, <1>2, <1>4 DEF AfterPop, q
<1>6. AfterPop \in 0..TX_HWM
  <2>1. m_txBytesQueued \in 0..TX_HWM /\ TX_HWM \in Nat /\ f[n] = m_txBytesQueued
    BY <1>1, FramingClientAssumption DEF IInv, TypeOK, n
  <2> QED
    BY ONLY <1>2, <1>4, <1>5, <2>1
<1>7. Weighs(Tail(q), AfterPop)
  <2> DEFINE g == [i \in 0..n - 1 |-> f[i + 1] - f[1]]
  <2>1. g \in [0..n - 1 -> Nat] /\ g[0] = 0 /\ g[n - 1] = AfterPop
    BY <1>2, <1>4, <1>5
  <2>2. ASSUME NEW i \in 1..n - 1 PROVE g[i] = g[i - 1] + Size(Tail(q)[i])
    <3>1. f[i + 1] = f[i] + Size(q[i + 1])
      BY <1>1, <1>2 DEF Sums, n
    <3>2. Size(q[i + 1]) \in Nat /\ f[i] \in Nat /\ f[1] \in Nat
      BY <1>2, <1>3, <1>4
    <3> QED
      BY <1>2, <3>1, <3>2
  <2>3. \A i, j \in 0..n - 1 : i <= j => g[i] <= g[j]
    <3>1. \A i, j \in 0..n : i <= j => f[i] <= f[j]
      BY <1>1 DEF Sums, n
    <3> QED
      BY <1>2, <1>4, <3>1
  <2>4. Sums(g, Tail(q))
    BY <1>2, <2>1, <2>2, <2>3 DEF Sums
  <2> QED
    BY <1>2, <2>1, <2>4 DEF Weighs
<1> QED
  BY <1>6, <1>7 DEF q

LEMMA SenderSteps == ASSUME IInv, Sender PROVE PcStep
<1>1. CASE SendPop
  <2>1. AfterPop \in 0..TX_HWM
    BY <1>1, PopWeighs DEF SendPop
  <2>2. Head(m_txQueue) \in Line /\ Tail(m_txQueue) \in Seq(Line)
    BY <1>1, HeadMoves DEF SendPop, IInv, TypeOK
  <2>3. /\ pc'.send = "send" /\ pc'.recv = pc.recv /\ pc'.print = pc.print /\ pc.send = "lock"
        /\ pc'.main = pc.main \/ (pc.main = "asleep" /\ pc'.main = "enqueue")
        /\ pc' \in [main : MainLabel, recv : RecvLabel, print : WaitLabel, send : WaitLabel]
    BY <1>1 DEF SendPop, GotoWake, Goto, Woken, WaitLabel, MainLabel, IInv, TypeOK
  <2> QED
    BY <1>1, <2>1, <2>2, <2>3
       DEF SendPop, IInv, TypeOK, Places, PcStep, Onward, SendFailed, Typing, Holding, Past, AtMostOne,
           flagVars, conVars, netVars
<1> USE DEF IInv, TypeOK, Places, PcStep, Onward, SendFailed, Typing, Holding, Past, Goto, AtMostOne,
            dataVars, handVars, flagVars, queueVars, conVars, netVars, WaitLabel
<1>2. CASE SendWaits \/ FallAsleep("send")
  <2>1. /\ PcType' /\ pc'.main = pc.main /\ pc'.recv = pc.recv
        /\ pc.send \in {"lock", "block"} /\ pc'.send \in {"block", "done", "asleep"}
    BY <1>2 DEF SendWaits, FallAsleep, PcType
  <2> QED
    BY <1>2, <2>1 DEF SendWaits, FallAsleep, PcType
<1>3. CASE SendFrame
  <2>1. PICK x \in Line : msg = <<x>>
    BY <1>3 DEF SendFrame
  <2>2. wire' \in Seq(Line) /\ Len(wire') <= WireCap
    <3>1. CASE wire' = wire \o <<x>> /\ Len(wire) < WireCap
      <4>1. <<x>> \in Seq(Line) /\ Len(<<x>>) = 1
        OBVIOUS
      <4> QED
        BY <3>1, <4>1, ConcatFacts, FramingClientAssumption
    <3>2. CASE wire' = wire
      BY <3>2
    <3> QED
      BY <1>3, <2>1, <3>1, <3>2 DEF SendFrame
  <2> QED
    BY <1>3, <2>2 DEF SendFrame
<1>4. CASE SendFails
  <2>1. /\ PcType' /\ pc.send = "send" /\ pc'.send = "inactive" /\ msg' = <<>>
        /\ pc'.main = pc.main /\ pc'.recv = pc.recv
    BY <1>4 DEF SendFails, PcType
  <2>2. UNCHANGED <<line, frame, flagVars, queueVars, conVars, tries, netVars, taken>>
    BY <1>4 DEF SendFails
  <2> QED
    BY <2>1, <2>2 DEF PcType
<1>5. CASE SendInactive
  BY <1>5 DEF SendInactive
<1>6. CASE SendNotify
  <2>1. /\ PcType' /\ pc'.send = "done" /\ pc.send = "wakeMain" /\ pc'.recv = pc.recv
        /\ pc'.main = pc.main \/ (pc.main = "asleep" /\ pc'.main = "enqueue")
    BY <1>6, Wakes DEF SendNotify, PcType
  <2> QED
    BY <1>6, <2>1 DEF SendNotify, PcType
<1> QED
  BY <1>1, <1>2, <1>3, <1>4, <1>5, <1>6 DEF Sender

LEMMA ServerSteps == ASSUME IInv, Server PROVE PcStep
<1> USE DEF IInv, TypeOK, Places, PcStep, Onward, SendFailed,
            dataVars, handVars, flagVars, queueVars, conVars, netVars
<1>1. CASE ServerSends
  BY <1>1, FramingClientAssumption DEF ServerSends
<1>2. CASE ServerReads
  <2>1. Head(wire) \in Line /\ Tail(wire) \in Seq(Line) /\ Len(Tail(wire)) <= WireCap
    BY <1>2, HeadMoves, FramingClientAssumption DEF ServerReads
  <2> QED
    BY <1>2, <2>1 DEF ServerReads
<1>3. CASE ServerCloses
  BY <1>3 DEF ServerCloses, Connected
<1> QED
  BY <1>1, <1>2, <1>3 DEF Server

-----------------------------------------------------------------------------
(* The lines. *)

LineTypes ==
    /\ heard \in Seq(Line) /\ wire \in Seq(Line) /\ msg \in Seq(Line)
    /\ m_txQueue \in Seq(Line) /\ line \in Seq(Line) /\ typed \in Nat

LEMMA LineTyping == ASSUME TypeOK PROVE LineTypes
<1>1. ASSUME NEW h \in AtMostOne(Line) PROVE h \in Seq(Line)
  <2>1. <<>> \in Seq(Line)
    BY EmptySeq
  <2>2. \A x \in Line : <<x>> \in Seq(Line)
    OBVIOUS
  <2> QED
    BY <2>1, <2>2 DEF AtMostOne
<1>2. heard \in Seq(Line) /\ wire \in Seq(Line) /\ m_txQueue \in Seq(Line)
  BY DEF TypeOK
<1>3. line \in Seq(Line) /\ msg \in Seq(Line)
  BY <1>1 DEF TypeOK
<1>4. typed \in Nat
  BY FramingClientAssumption DEF TypeOK
<1> QED
  BY <1>2, <1>3, <1>4 DEF LineTypes

LEMMA LinesSame == ASSUME LinesKept, Onward, Lines' = Lines, typed' = typed PROVE LinesKept'
BY DEF LinesKept, Onward

\* Each step of the sender and the server loses a line, or leaves all in place.
LEMMA LinesSent ==
    ASSUME IInv, Onward, SendPop \/ SendFrame \/ SendFails \/ ServerReads
    PROVE  LinesKept'
<1> DEFINE a == heard \o wire
           q == m_txQueue
           b == q \o line
<1>1. LineTypes /\ Rising(Lines, typed)
  BY LineTyping DEF IInv, LinesKept
<1>2. a \in Seq(Line) /\ b \in Seq(Line) /\ q \in Seq(Line)
  BY <1>1, ConcatFacts DEF LineTypes
<1>3. \A m \in Seq(Line) : ((a \o m) \o q) \o line = (a \o m) \o b
  <2> TAKE m \in Seq(Line)
  <2> DEFINE am == a \o m
  <2>1. am \in Seq(Line)
    BY <1>2, ConcatFacts
  <2>2. line \in Seq(Line)
    BY <1>1 DEF LineTypes
  <2> HIDE DEF am, a, q
  <2>3. (am \o q) \o line = am \o (q \o line)
    BY ONLY <1>2, <2>1, <2>2, Assoc
  <2> QED
    BY <2>3 DEF am
<1>4. Lines = (a \o msg) \o b
  BY <1>1, <1>3 DEF Lines, LineTypes
<1>5. CASE SendPop
  <2>1. /\ msg = <<>> /\ q # <<>> /\ msg' = <<Head(q)>> /\ m_txQueue' = Tail(q)
        /\ UNCHANGED <<line, typed, heard, wire>>
    BY <1>5 DEF SendPop, IInv, Places, conVars, netVars
  <2>2. <<Head(q)>> \in Seq(Line) /\ Tail(q) \in Seq(Line) /\ <<Head(q)>> \o Tail(q) = q
    BY <1>2, <2>1, HeadMoves
  <2>3. Lines' = ((a \o <<Head(q)>>) \o Tail(q)) \o line
    BY <2>1 DEF Lines
  <2> HIDE DEF a, q
  <2>4. (a \o <<Head(q)>>) \o Tail(q) = a \o q
    BY <1>2, <2>2, Assoc
  <2>5. a \o <<>> = a
    BY <1>2, NoneMore
  <2>6. Lines = (a \o q) \o line
    BY <2>1, <2>5 DEF Lines, a, q
  <2> QED
    BY <2>1, <2>3, <2>4, <2>6, LinesSame DEF IInv
<1>6. ASSUME msg' = <<>>, UNCHANGED <<line, m_txQueue, typed, wire, heard>>,
             server # "open" \/ SendFailed'
      PROVE  LinesKept'
  <2>1. Rising(a \o b, typed)
    <3> HIDE DEF a, b
    <3> QED
      BY <1>1, <1>2, <1>4, RisingGap DEF LineTypes
  <2>2. Lines' = (a \o <<>>) \o b
    <3>1. Lines' = ((a \o <<>>) \o q) \o line
      BY <1>6 DEF Lines
    <3>2. <<>> \in Seq(Line)
      OBVIOUS
    <3> QED
      BY <1>3, <3>1, <3>2
  <2>3. a \o <<>> = a
    BY <1>2, NoneMore
  <2> QED
    BY <1>6, <2>1, <2>2, <2>3 DEF LinesKept, Onward
<1>7. ASSUME wire' = wire \o msg, msg' = <<>>, UNCHANGED <<line, m_txQueue, typed, heard>>
      PROVE  LinesKept'
  <2>1. Lines' = (((heard \o (wire \o msg)) \o <<>>) \o q) \o line
    BY <1>7 DEF Lines
  <2>2. heard \o (wire \o msg) = a \o msg
    <3>1. heard \in Seq(Line) /\ wire \in Seq(Line) /\ msg \in Seq(Line)
      BY <1>1 DEF LineTypes
    <3> QED
      BY ONLY <3>1, Assoc
  <2>3. a \o msg \in Seq(Line)
    BY <1>1, <1>2, ConcatFacts DEF LineTypes
  <2>4. (a \o msg) \o <<>> = a \o msg
    BY <2>3, NoneMore
  <2>5. Lines' = Lines
    BY <2>1, <2>2, <2>4 DEF Lines
  <2> QED
    BY <1>7, <2>5, LinesSame DEF IInv
<1>8. CASE SendFrame
  BY <1>6, <1>7, <1>8 DEF SendFrame, queueVars, conVars
<1>9. CASE SendFails
  <2>1. SendFailed'
    BY <1>9 DEF SendFails, Goto, SendFailed, IInv, TypeOK
  <2> QED
    BY <1>6, <1>9, <2>1 DEF SendFails, queueVars, conVars, netVars
<1>10. CASE ServerReads
  <2>1. /\ wire # <<>> /\ heard' = Append(heard, Head(wire)) /\ wire' = Tail(wire)
        /\ UNCHANGED <<line, msg, m_txQueue, typed>>
    BY <1>10 DEF ServerReads, handVars, queueVars, conVars
  <2>2. <<Head(wire)>> \in Seq(Line) /\ Tail(wire) \in Seq(Line) /\ <<Head(wire)>> \o Tail(wire) = wire
        /\ Head(wire) \in Line
    BY <1>1, <2>1, HeadMoves DEF LineTypes
  <2>3. heard' = heard \o <<Head(wire)>>
    BY <1>1, <2>1, <2>2, AppendProperties DEF LineTypes
  <2>4. heard' \o wire' = a
    <3>1. heard \in Seq(Line)
      BY <1>1 DEF LineTypes
    <3>2. (heard \o <<Head(wire)>>) \o Tail(wire) = heard \o (<<Head(wire)>> \o Tail(wire))
      BY ONLY <2>2, <3>1, Assoc
    <3> QED
      BY <2>1, <2>2, <2>3, <3>2
  <2>5. Lines' = Lines
    BY <2>1, <2>4 DEF Lines
  <2> QED
    BY <2>1, <2>5, LinesSame DEF IInv
<1> QED
  BY <1>5, <1>8, <1>9, <1>10

\* main's steps append a line, move the last one, or lose it.
LEMMA LinesTyped ==
    ASSUME IInv, Onward, Enqueue \/ EnqueueFails \/ (\E n \in Sizes : Type(n))
    PROVE  LinesKept'
<1> DEFINE a == (heard \o wire) \o msg
           q == m_txQueue
           x == a \o q
<1>1. LineTypes /\ LinesKept
  BY LineTyping DEF IInv
<1>2. a \in Seq(Line) /\ q \in Seq(Line) /\ x \in Seq(Line) /\ Lines = x \o line
  <2>1. heard \o wire \in Seq(Line)
    BY <1>1, ConcatFacts DEF LineTypes
  <2>2. a \in Seq(Line)
    BY <1>1, <2>1, ConcatFacts DEF LineTypes
  <2>3. q \in Seq(Line) /\ x \in Seq(Line)
    BY <1>1, <2>2, ConcatFacts DEF LineTypes
  <2> QED
    BY <2>2, <2>3 DEF Lines
<1>3. x \o <<>> = x
  BY <1>2, NoneMore
<1>4. CASE Enqueue
  <2>1. /\ m_txQueue' = q \o line /\ line' = <<>>
        /\ UNCHANGED <<msg, wire, heard, typed>>
    BY <1>4 DEF Enqueue, conVars, netVars
  <2>2. Lines' = (a \o (q \o line)) \o <<>>
    BY <2>1 DEF Lines
  <2>3. a \o (q \o line) = x \o line
    <3>1. a \in Seq(Line) /\ q \in Seq(Line) /\ line \in Seq(Line)
      BY <1>1, <1>2 DEF LineTypes
    <3> HIDE DEF a, q
    <3>2. (a \o q) \o line = a \o (q \o line)
      BY ONLY <3>1, Assoc
    <3> QED
      BY ONLY <3>2
  <2>4. x \o line \in Seq(Line)
    BY <1>1, <1>2, ConcatFacts DEF LineTypes
  <2>5. (x \o line) \o <<>> = x \o line
    BY <2>4, NoneMore
  <2> QED
    BY <1>2, <2>1, <2>2, <2>3, <2>5, LinesSame DEF IInv
<1>5. CASE EnqueueFails
  <2>1. /\ line' = <<>> /\ pc'.main = "inactive"
        /\ UNCHANGED <<msg, m_txQueue, wire, heard, typed>>
    BY <1>5 DEF EnqueueFails, Goto, queueVars, conVars, netVars, IInv, TypeOK
  <2>2. Lines' = x
    BY <2>1, <1>3 DEF Lines
  <2>3. /\ Rising(x \o line, typed) => Rising(x, typed)
        /\ Counted(x \o line) => Counted(x)
    <3> HIDE DEF x
    <3> QED
      BY <1>1, <1>2, RisingCut DEF LineTypes
  <2> QED
    BY <1>1, <1>2, <2>1, <2>2, <2>3 DEF LinesKept, Onward, Typing
<1>6. ASSUME NEW n \in Sizes, Type(n) PROVE LinesKept'
  <2> DEFINE l == <<typed + 1, n>>
  <2>1. /\ typed' = typed + 1 /\ typed < MaxLines /\ pc.main = "getline" /\ line = <<>>
        /\ UNCHANGED <<msg, m_txQueue, wire, heard>>
    BY <1>6 DEF Type, queueVars, netVars, IInv, Places, Holding
  <2>2. Lines = x /\ Lines' = x \o line'
    BY <1>2, <1>3, <2>1 DEF Lines
  <2>3. Rising(x, typed) /\ (server = "open" /\ ~SendFailed => Counted(x) /\ Len(x) = typed)
    BY <1>1, <2>1, <2>2 DEF LinesKept, Typing
  <2>4. l \in Line /\ Number(l) = typed + 1 /\ typed \in Nat
    <3>1. typed \in Nat /\ MaxLines \in Nat
      BY <1>1, FramingClientAssumption DEF LineTypes
    <3>2. typed + 1 \in 1..MaxLines
      BY <3>1, <2>1
    <3> QED
      BY <3>1, <3>2 DEF Line, Number
  <2>5. CASE n > TX_HWM
    <3>1. line' = <<>> /\ pc'.main = "inactive"
      BY <1>6, <2>1, <2>5 DEF Type, Goto, IInv, TypeOK
    <3>2. Rising(x, typed + 1)
      <4>1. \A i \in 1..Len(x) : Number(x[i]) \in Nat
        <5>1. \A i \in 1..Len(x) : x[i] \in Line
          BY <1>2, ElementOfSeq
        <5> QED
          BY <5>1, Sized
      <4> HIDE DEF x
      <4> QED
        BY <2>3, <2>4, <4>1 DEF Rising
    <3>3. Lines' = x
      BY <1>3, <2>2, <3>1
    <3> QED
      BY <2>1, <2>3, <3>1, <3>2, <3>3 DEF LinesKept, Onward, Typing
  <2>6. CASE ~(n > TX_HWM)
    <3>1. line' = <<l>>
      BY <1>6, <2>6 DEF Type
    <3> HIDE DEF x, l
    <3>2. /\ Rising(x \o <<l>>, typed + 1)
          /\ Counted(x) /\ Len(x) = typed => Counted(x \o <<l>>) /\ Len(x \o <<l>>) = typed + 1
      BY <1>2, <2>3, <2>4, RisingMore
    <3> QED
      BY <2>1, <2>2, <2>3, <3>1, <3>2 DEF LinesKept, Onward
  <2> QED
    BY <2>5, <2>6
<1> QED
  BY <1>4, <1>5, <1>6

-----------------------------------------------------------------------------
(* What the other steps leave alone. *)

LinesQuiet == UNCHANGED <<line, msg, m_txQueue, m_txBytesQueued, wire, heard, typed>>
FramesQuiet == UNCHANGED <<frame, m_rxQueue, printed, taken>>

LEMMA Parts ==
    ASSUME Next
    PROVE  /\ \/ LinesQuiet \/ Enqueue \/ EnqueueFails \/ \E n \in Sizes : Type(n)
              \/ SendPop \/ SendFrame \/ SendFails \/ ServerReads
           /\ FramesQuiet \/ RecvFrame \/ RecvPush \/ PrintFrame \/ Drain
<1> USE DEF LinesQuiet, FramesQuiet,
            dataVars, handVars, flagVars, queueVars, conVars, netVars
<1>1. CASE Console
  BY <1>1 DEF Console, Type, Leave
<1>2. CASE Main
  BY <1>2 DEF Main, TryAddress, Start, Enqueue, EnqueueWaits, FallAsleep, EnqueueFails,
              StoreInactive, NotifyPrint, NotifySend, Shutdown, Drain, Close, Join
<1>3. CASE Recv
  BY <1>3 DEF Recv, RecvCheck, RecvFrame, RecvLost, RecvInactive, RecvNotify, RecvPush
<1>4. CASE Printer
  BY <1>4 DEF Printer, PrintFrame, PrintWaits, FallAsleep
<1>5. CASE Sender
  BY <1>5 DEF Sender, SendPop, SendWaits, FallAsleep, SendFrame, SendFails, SendInactive, SendNotify
<1>6. CASE Server
  BY <1>6 DEF Server, ServerSends, ServerReads, ServerCloses
<1> QED
  BY <1>1, <1>2, <1>3, <1>4, <1>5, <1>6 DEF Next

LEMMA LinesStep == ASSUME IInv, Onward, Next PROVE LinesKept'
<1>1. CASE LinesQuiet
  BY <1>1, LinesSame DEF LinesQuiet, Lines, IInv
<1> QED
  BY <1>1, Parts, LinesSent, LinesTyped

LEMMA WeighedStep == ASSUME IInv, Next PROVE Weighs(m_txQueue, m_txBytesQueued)'
<1> DEFINE q == m_txQueue
           n == Len(q)
<1>1. PICK f : Sums(f, q) /\ f[n] = m_txBytesQueued
  BY DEF IInv, Weighs
<1>2. CASE UNCHANGED <<m_txQueue, m_txBytesQueued>>
  BY <1>2 DEF IInv, Weighs
<1>3. CASE SendPop
  BY <1>3, PopWeighs DEF SendPop, Weighs
<1>4. CASE Enqueue
  <2>1. PICK x \in Line : line = <<x>>
    BY <1>4 DEF Enqueue, IInv, TypeOK, Places, Holding, AtMostOne
  <2>2. m_txQueue' = q \o <<x>> /\ m_txBytesQueued' = f[n] + Size(x)
    BY <1>1, <1>4, <2>1 DEF Enqueue
  <2>3. /\ n \in Nat /\ Len(q \o <<x>>) = n + 1
        /\ \A i \in 1..n : (q \o <<x>>)[i] = q[i]
        /\ (q \o <<x>>)[n + 1] = x
    <3>1. <<x>> \in Seq(Line) /\ Len(<<x>>) = 1 /\ <<x>>[1] = x
      BY <2>1
    <3>2. q \in Seq(Line)
      BY DEF IInv, TypeOK
    <3> QED
      BY <3>1, <3>2, ConcatFacts
  <2>4. Size(x) \in Nat
    BY <2>1, Sized
  <2> DEFINE c == q \o <<x>>
             g == [i \in 0..n + 1 |-> IF i = n + 1 THEN f[n] + Size(x) ELSE f[i]]
  <2> HIDE DEF c, n
  <2>5. /\ \A i \in 0..n : f[i] \in Nat /\ f[i] <= f[n]
        /\ f[0] = 0 /\ n \in Nat
        /\ \A i, j \in 0..n : i <= j => f[i] <= f[j]
        /\ \A i \in 1..n : f[i] = f[i - 1] + Size(q[i])
    BY <1>1, <2>3 DEF Sums, n
  <2>6. g \in [0..n + 1 -> Nat] /\ g[0] = 0 /\ g[n + 1] = f[n] + Size(x)
    BY <2>4, <2>5
  <2>7. ASSUME NEW i \in 1..n + 1 PROVE g[i] = g[i - 1] + Size(c[i])
    <3>1. CASE i = n + 1
      BY <2>3, <2>5, <3>1 DEF c, n
    <3>2. CASE i # n + 1
      BY <2>3, <2>5, <3>2 DEF c, n
    <3> QED
      BY <3>1, <3>2
  <2>8. ASSUME NEW i \in 0..n + 1, NEW j \in 0..n + 1, i <= j PROVE g[i] <= g[j]
    BY <2>4, <2>5, <2>8
  <2>9. Len(c) = n + 1
    BY <2>3 DEF c, n
  <2> HIDE DEF g
  <2>10. Sums(g, c) /\ g[Len(c)] = f[n] + Size(x)
    BY <2>6, <2>7, <2>8, <2>9 DEF Sums
  <2> QED
    BY <2>2, <2>10 DEF Weighs, c
<1>5. UNCHANGED <<m_txQueue, m_txBytesQueued>> \/ SendPop \/ Enqueue
  BY Parts DEF LinesQuiet, EnqueueFails, Type, SendFrame, SendFails, ServerReads, queueVars
<1> QED
  BY <1>2, <1>3, <1>4, <1>5

-----------------------------------------------------------------------------
(* The frames. *)

Numbers == 1..MaxFrames

LEMMA Naturals == ASSUME NEW s \in Seq(Numbers) PROVE \A i \in 1..Len(s) : s[i] \in Nat
<1>1. \A i \in 1..Len(s) : s[i] \in Numbers
  BY ElementOfSeq
<1> QED
  BY <1>1 DEF Numbers

LEMMA GrownMore ==
    ASSUME NEW s \in Seq(Numbers), NEW t \in Nat, Grown(s, t), t + 1 \in Numbers
    PROVE  /\ Grown(s \o <<t + 1>>, t + 1)
           /\ Covers(s, t) => Covers(s \o <<t + 1>>, t + 1)
<1> DEFINE n == Len(s)
           x == t + 1
           c == s \o <<x>>
<1>1. /\ n \in Nat /\ Len(c) = n + 1
      /\ \A i \in 1..n : c[i] = s[i]
      /\ c[n + 1] = x
  <2>1. <<x>> \in Seq(Numbers) /\ Len(<<x>>) = 1 /\ <<x>>[1] = x
    OBVIOUS
  <2> HIDE DEF x
  <2> QED
    BY <2>1, ConcatFacts
<1>2. \A i \in 1..n : s[i] \in Nat
  BY Naturals
<1> HIDE DEF c, n
<1>3. n <= t
  BY <1>1, <1>2 DEF Grown, n
<1>4. Grown(c, x)
  BY <1>1, <1>2, <1>3 DEF Grown, n
<1>5. ASSUME Covers(s, t) PROVE Covers(c, x)
  BY <1>1, <1>5, FramingClientAssumption DEF Covers, n
<1> QED
  BY <1>4, <1>5 DEF c

\* A frame that the full queue drops has a number above its size.
LEMMA GrownCut ==
    ASSUME NEW s \in Seq(Numbers), NEW m \in Seq(Numbers), Len(m) <= 1, NEW t \in Nat,
           Grown(s \o m, t)
    PROVE  /\ Grown(s, t)
           /\ Len(s) >= MAX_RX_QUEUE_SIZE /\ Covers(s \o m, t) => Covers(s, t)
<1> DEFINE c == s \o m
<1>1. /\ Len(s) \in Nat /\ Len(m) \in Nat /\ Len(c) = Len(s) + Len(m)
      /\ \A i \in 1..Len(s) : c[i] = s[i]
      /\ c \in Seq(Numbers)
  BY ConcatFacts
<1>2. \A i \in 1..Len(c) : c[i] \in Nat
  BY <1>1, Naturals
<1>3. Grown(c, t)
  OBVIOUS
<1> HIDE DEF c
<1>4. Grown(s, t)
  BY <1>1, <1>3 DEF Grown
<1>5. ASSUME Len(s) >= MAX_RX_QUEUE_SIZE, Covers(c, t) PROVE Covers(s, t)
  <2> SUFFICES ASSUME NEW k \in 1..t, k <= MAX_RX_QUEUE_SIZE
               PROVE  \E i \in 1..Len(s) : s[i] = k
    BY FramingClientAssumption DEF Covers
  <2>1. PICK i \in 1..Len(c) : c[i] = k
    BY <1>5, FramingClientAssumption DEF Covers
  <2>2. i <= k
    BY <1>3, <2>1 DEF Grown
  <2>3. i \in 1..Len(s)
    BY <1>1, <1>5, <2>2, FramingClientAssumption
  <2> QED
    BY <1>1, <2>1, <2>3
<1> QED
  BY <1>4, <1>5 DEF c

LEMMA FrameTyping ==
    ASSUME TypeOK
    PROVE  /\ printed \in Seq(Numbers) /\ m_rxQueue \in Seq(Numbers)
           /\ frame \in Seq(Numbers) /\ Len(frame) <= 1 /\ taken \in Nat
<1>1. ASSUME NEW h \in AtMostOne(Numbers) PROVE h \in Seq(Numbers) /\ Len(h) <= 1
  <2>1. <<>> \in Seq(Numbers) /\ Len(<<>>) = 0
    BY EmptySeq
  <2>2. \A x \in Numbers : <<x>> \in Seq(Numbers) /\ Len(<<x>>) = 1
    OBVIOUS
  <2>3. h = <<>> \/ \E x \in Numbers : h = <<x>>
    BY DEF AtMostOne
  <2>4. CASE h = <<>>
    BY ONLY <2>1, <2>4
  <2>5. ASSUME NEW x \in Numbers, h = <<x>> PROVE h \in Seq(Numbers) /\ Len(h) <= 1
    BY ONLY <2>2, <2>5, x \in Numbers
  <2> QED
    BY <2>3, <2>4, <2>5
<1>2. frame \in AtMostOne(Numbers)
  BY DEF TypeOK, Numbers
<1>3. printed \in Seq(Numbers) /\ m_rxQueue \in Seq(Numbers)
  BY DEF TypeOK, Numbers
<1>4. taken \in Nat
  BY FramingClientAssumption DEF TypeOK
<1> QED
  BY <1>1, <1>2, <1>3, <1>4

LEMMA FramesSame == ASSUME FramesKept, Onward, Frames' = Frames, taken' = taken PROVE FramesKept'
BY DEF FramesKept, Onward

LEMMA FramesStep == ASSUME IInv, TypeOK', Onward, Next PROVE FramesKept'
<1> DEFINE r == m_rxQueue
           x == printed \o r
<1>1. /\ printed \in Seq(Numbers) /\ r \in Seq(Numbers) /\ frame \in Seq(Numbers)
      /\ Len(frame) <= 1 /\ taken \in Nat
  BY FrameTyping DEF IInv
<1>2. x \in Seq(Numbers) /\ Len(x) = Len(printed) + Len(r) /\ Len(printed) \in Nat /\ Len(r) \in Nat
  BY <1>1, ConcatFacts
<1>3. Frames = x \o frame /\ FramesKept
  BY DEF Frames, IInv
<1>4. x \o <<>> = x
  BY <1>2, NoneMore
<1>5. CASE FramesQuiet
  BY <1>5, FramesSame DEF FramesQuiet, Frames, IInv
<1>6. CASE RecvFrame
  <2>1. /\ frame = <<>> /\ frame' = <<taken + 1>> /\ taken' = taken + 1
        /\ UNCHANGED <<printed, m_rxQueue>>
    BY <1>6 DEF RecvFrame, IInv, Places, queueVars, conVars
  <2>2. Frames = x /\ Frames' = x \o <<taken + 1>>
    BY <1>3, <1>4, <2>1 DEF Frames
  <2>3. taken + 1 \in Numbers
    BY <1>1, <2>1, FramingClientAssumption DEF TypeOK, Numbers
  <2>4. Grown(x, taken)
    BY <1>3, <2>2 DEF FramesKept
  <2> HIDE DEF x
  <2>5. /\ Grown(x \o <<taken + 1>>, taken + 1)
        /\ Covers(x, taken) => Covers(x \o <<taken + 1>>, taken + 1)
    BY <1>1, <1>2, <2>3, <2>4, GrownMore
  <2> QED
    BY <1>3, <2>1, <2>2, <2>5 DEF FramesKept, Onward
<1>7. CASE RecvPush
  <2>1. CASE RxFull
    <3>1. frame' = <<>> /\ UNCHANGED <<printed, m_rxQueue, taken>>
      BY <1>7, <2>1 DEF RecvPush, conVars
    <3>2. Frames' = x
      BY <1>4, <3>1 DEF Frames
    <3>3. Len(x) >= MAX_RX_QUEUE_SIZE
      BY <1>2, <2>1, FramingClientAssumption DEF RxFull
    <3> HIDE DEF x
    <3>4. /\ Grown(x, taken)
          /\ Covers(Frames, taken) => Covers(x, taken)
      BY <1>1, <1>2, <1>3, <3>3, GrownCut DEF FramesKept
    <3> QED
      BY <1>3, <3>1, <3>2, <3>4 DEF FramesKept, Onward
  <2>2. CASE ~RxFull
    <3>1. frame' = <<>> /\ m_rxQueue' = r \o frame /\ UNCHANGED <<printed, taken>>
      BY <1>7, <2>2 DEF RecvPush, conVars
    <3>2. Frames' = (printed \o (r \o frame)) \o <<>>
      BY <3>1 DEF Frames
    <3>3. printed \o (r \o frame) = x \o frame /\ x \o frame \in Seq(Numbers)
      <4>1. x \o frame \in Seq(Numbers)
        BY <1>1, <1>2, ConcatFacts
      <4> HIDE DEF r
      <4>2. (printed \o r) \o frame = printed \o (r \o frame)
        BY ONLY <1>1, Assoc
      <4> QED
        BY ONLY <4>1, <4>2
    <3>4. (x \o frame) \o <<>> = x \o frame
      BY <3>3, NoneMore
    <3> QED
      BY <1>3, <3>1, <3>2, <3>3, <3>4, FramesSame
  <2> QED
    BY <2>1, <2>2
<1>8. CASE PrintFrame
  <2>1. /\ r # <<>> /\ printed' = Append(printed, Head(r)) /\ m_rxQueue' = Tail(r)
        /\ UNCHANGED <<frame, taken>>
    BY <1>8 DEF PrintFrame, handVars
  <2>2. <<Head(r)>> \in Seq(Numbers) /\ Tail(r) \in Seq(Numbers) /\ <<Head(r)>> \o Tail(r) = r
        /\ Head(r) \in Numbers
    BY <1>1, <2>1, HeadMoves
  <2>3. printed' = printed \o <<Head(r)>>
    BY <1>1, <2>1, <2>2, AppendProperties
  <2>4. (printed \o <<Head(r)>>) \o Tail(r) = printed \o (<<Head(r)>> \o Tail(r))
    BY ONLY <1>1, <2>2, Assoc
  <2>5. Frames' = Frames
    BY <2>1, <2>2, <2>3, <2>4 DEF Frames
  <2> QED
    BY <1>3, <2>1, <2>5, FramesSame
<1>9. CASE Drain
  <2>1. taken' = taken + 1 /\ UNCHANGED <<pc, frame, m_rxQueue, printed>> /\ pc.main \in Past
    BY <1>9 DEF Drain, Past, handVars, queueVars, conVars
  <2>2. Frames' = Frames
    BY <2>1 DEF Frames
  <2>3. Grown(Frames, taken + 1)
    <3>1. \A i \in 1..Len(Frames) : Frames[i] \in Nat
      <4>1. Frames \in Seq(Numbers)
        BY <1>1, <1>2, <1>3, ConcatFacts
      <4> QED
        BY <4>1, Naturals
    <3>2. Grown(Frames, taken)
      BY <1>3 DEF FramesKept
    <3> QED
      BY ONLY <1>1, <3>1, <3>2 DEF Grown
  <2> QED
    BY <2>1, <2>2, <2>3 DEF FramesKept
<1> QED
  BY <1>5, <1>6, <1>7, <1>8, <1>9, Parts

-----------------------------------------------------------------------------
(* The invariant. *)

LEMMA InitIInv == ASSUME Init PROVE IInv
<1> USE DEF Init
<1>1. <<>> \in Seq(Line) /\ <<>> \in Seq(Numbers) /\ Len(<<>>) = 0
  BY EmptySeq
<1>2. TypeOK
  <2>1. pc \in [main : MainLabel, recv : RecvLabel, print : WaitLabel, send : WaitLabel]
    BY DEF MainLabel, RecvLabel, WaitLabel
  <2>2. <<>> \in AtMostOne(Line) /\ <<>> \in AtMostOne(Numbers)
    BY DEF AtMostOne
  <2>3. m_txBytesQueued \in 0..TX_HWM /\ typed \in 0..MaxLines /\ tries \in 0..MaxAddrs
        /\ offered \in 0..MaxFrames /\ taken \in 0..offered
    BY FramingClientAssumption
  <2>4. /\ wire \in Seq(Line) /\ Len(wire) <= WireCap /\ heard \in Seq(Line) /\ m_txQueue \in Seq(Line)
        /\ m_rxQueue \in Seq(Numbers) /\ Len(m_rxQueue) <= MAX_RX_QUEUE_SIZE
        /\ printed \in Seq(Numbers)
    BY <1>1, FramingClientAssumption
  <2>5. m_isActive \in BOOLEAN /\ eof \in BOOLEAN
    OBVIOUS
  <2>6. m_socket = "invalid" /\ server = "open" /\ line = <<>> /\ msg = <<>> /\ frame = <<>>
    OBVIOUS
  <2> QED
    BY ONLY <2>1, <2>2, <2>3, <2>4, <2>5, <2>6 DEF TypeOK, Numbers
<1>3. Places
  BY DEF Places, Holding
<1>4. Weighs(m_txQueue, m_txBytesQueued)
  <2> DEFINE f == [i \in 0..0 |-> 0]
  <2>1. f \in [0..0 -> Nat] /\ f[0] = 0 /\ \A i, j \in 0..0 : f[i] <= f[j]
    OBVIOUS
  <2> HIDE DEF f
  <2>2. Sums(f, <<>>) /\ f[Len(<<>>)] = 0
    BY <1>1, <2>1 DEF Sums
  <2> QED
    BY <2>2 DEF Weighs
<1>5. <<>> \o <<>> = <<>>
  BY <1>1, NoneMore
<1>6. Lines = <<>> /\ Frames = <<>>
  BY <1>5 DEF Lines, Frames
<1>7. LinesKept
  BY <1>1, <1>6 DEF LinesKept, Rising, Counted
<1>8. FramesKept
  BY <1>1, <1>6 DEF FramesKept, Grown, Covers
<1> QED
  BY <1>2, <1>3, <1>4, <1>7, <1>8 DEF IInv

LEMMA NextIInv == ASSUME IInv, Next PROVE IInv'
<1>1. PcStep
  BY ConsoleSteps, MainSteps, RecvSteps, PrinterSteps, SenderSteps, ServerSteps DEF Next
<1> QED
  BY <1>1, LinesStep, WeighedStep, FramesStep DEF IInv, PcStep

(* Types, what the threads hold, the sum of the queued sizes, and where each line
   and frame is, in every reachable state (ChatClient.cpp, all four threads). *)
THEOREM Inductive == Spec => []IInv
<1>1. ASSUME IInv, UNCHANGED vars PROVE IInv'
  BY <1>1 DEF IInv, TypeOK, Places, Weighs, LinesKept, Lines, SendFailed, FramesKept, Frames,
              vars, dataVars, handVars, flagVars, queueVars, conVars, netVars
<1> QED
  BY <1>1, InitIInv, NextIInv, PTL DEF Spec

LEMMA IInvLines == ASSUME IInv PROVE LinesInOrder
<1>1. Lines \in Seq(Line)
  <2>1. LineTypes
    BY LineTyping DEF IInv
  <2>2. heard \o wire \in Seq(Line)
    BY <2>1, ConcatFacts DEF LineTypes
  <2>3. heard \o wire \o msg \in Seq(Line)
    BY <2>1, <2>2, ConcatFacts DEF LineTypes
  <2>4. heard \o wire \o msg \o m_txQueue \in Seq(Line)
    BY <2>1, <2>3, ConcatFacts DEF LineTypes
  <2> QED
    BY <2>1, <2>4, ConcatFacts DEF LineTypes, Lines
<1>2. DOMAIN Lines = 1..Len(Lines)
  BY <1>1, LenProperties
<1> QED
  BY <1>2 DEF LinesInOrder, IInv, LinesKept, Rising, Counted, Lines

LEMMA IInvFrames == ASSUME IInv PROVE FramesInOrder
<1>1. Frames \in Seq(Numbers)
  <2>1. printed \o m_rxQueue \in Seq(Numbers)
    BY FrameTyping, ConcatFacts DEF IInv
  <2> QED
    BY <2>1, FrameTyping, ConcatFacts DEF IInv, Frames
<1>2. DOMAIN Frames = 1..Len(Frames)
  BY <1>1, LenProperties
<1>3. FramesKept
  BY DEF IInv
<1>4. \A i, j \in DOMAIN Frames : i < j => Frames[i] < Frames[j]
  BY <1>2, <1>3 DEF FramesKept, Grown
<1>5. pc.main \notin {"drain", "join", "returned"} =>
        \A k \in 1..taken : k \in Elements(Frames) \/ k > MAX_RX_QUEUE_SIZE
  BY <1>2, <1>3 DEF FramesKept, Covers, Past, Elements
<1> QED
  BY <1>4, <1>5 DEF FramesInOrder, Frames

(* Lines reach the server and frames the console in order, none twice, and none
   is missing but those that a full queue, or a failed or ended connection, has
   dropped: for every choice of the sizes and bounds. *)
THEOREM Invariant == Spec => []Inv
<1>1. IInv => Inv
  BY IInvLines, IInvFrames DEF Inv, IInv
<1> QED
  BY <1>1, Inductive, PTL

-----------------------------------------------------------------------------
(* IocpServer.  The inductive invariant: who has which session, which completions
   wait for whom, and, until a completion reaches a stranger, what is in flight and
   how what has left a session and what is queued there repeat what was broadcast. *)

\* How many elements of a sequence are in a set.
Holders(s, K) == {i \in DOMAIN s : s[i] \in K}
Count(s, K) == Cardinality(Holders(s, K))

Accepts == {c \in Completion : c.kind = "Accept"}
AcceptOf(p) == {c \in Completion : c.kind = "Accept" /\ c.of = p}
MessageOf(p, k) == {c \in Completion : c.kind = "Recv" /\ c.ok /\ c.of = p /\ c.count = k}
SendOf(a, p) == {c \in Completion : c.kind = "Send" /\ c.key = a /\ c.of = p}

\* A peer has one session, and what is in the port for it has its address.
Owners ==
    /\ \A a, b \in Addr : session[a] = session[b] /\ session[a] # NoPeer => a = b
    /\ \A c \in ToSet(port) : c.kind # "Accept" => \A a \in Addr : session[a] = c.of => c.key = a

Waiting(p) == peer[p] = "idle" \/ p \in backlog \/ Count(port, AcceptOf(p)) > 0

\* Nothing has been done for p yet.
Untouched(p) ==
    /\ ~HasSession(p)
    /\ sendOps[p] = <<>> /\ posted[p] = <<>> /\ first[p] = <<>> /\ toPeer[p] = <<>>
    /\ \A c \in ToSet(port) : c.of = p => c.kind = "Accept"

\* A client waits to be accepted in one place at most.
OnePlace ==
    \A p \in Peer :
        /\ Waiting(p) => Untouched(p)
        /\ peer[p] = "idle" => p \notin backlog
        /\ peer[p] = "idle" \/ p \in backlog => Count(port, AcceptOf(p)) = 0
        /\ Count(port, AcceptOf(p)) <= 1

\* A message that waits in the port is of a talker, and has not been posted to anybody.
Fresh ==
    /\ \A p \in Peer : said[p] > 0 => p \in Talker
    /\ \A c \in ToSet(port) : c.kind = "Recv" /\ c.ok =>
        /\ c.count \in 1..rcvd[c.of]
        /\ \A p \in Peer : <<c.of, c.count>> \notin ToSet(posted[p])
    /\ \A p \in Peer, k \in 1..MaxMsgs : Count(port, MessageOf(p, k)) <= 1
    /\ \A p \in Peer : \A m \in ToSet(posted[p]) : m[2] <= rcvd[m[1]]

NoDup(s) == \A i, j \in 1..Len(s) : s[i] = s[j] => i = j

\* The first occurrences in s are the elements of t, or the first of them, in their order.
Ordered(s, t) ==
    \A i \in 1..Len(s) :
        \E k \in 1..Len(t) :
            /\ s[i] = t[k]
            /\ \A l \in 1..(k - 1) : \E j \in 1..(i - 1) : s[j] = t[l]

Spans(s, t) == Ordered(s, t) /\ ToSet(t) \subseteq ToSet(s)

\* Of the messages ops of the pending WSASend calls, the number n of those that are done
\* and the queue q: one is in flight at most, if the flag f says so, and it is the first of q.
Flight(n, ops, f, q) ==
    /\ Len(ops) + n = (IF f THEN 1 ELSE 0)
    /\ f => q # <<>>
    /\ ops # <<>> => Head(ops) = Head(q)

\* What has left, w, and what is queued are, with repetitions, what was broadcast, t.
Flow(w, q, f, ops, t) ==
    /\ Spans(w \o q, t)
    /\ f /\ ops = <<>> => Head(q) \in ToSet(w)

Flights ==
    \A a \in Addr : session[a] # NoPeer =>
        Flight(Count(port, SendOf(a, session[a])), sendOps[session[a]], m_sendInFlight[a],
               m_sendQueue[a])

\* What has left the server for p.
Way(p) == first[p] \o toPeer[p]

Streams ==
    \A p \in Peer :
        /\ IsPrefix(first[p], posted[p])
        /\ peer[p] # "reset" => Ordered(Way(p), posted[p])
        /\ peer[p] # "reset" =>
               \A a \in Addr : session[a] = p =>
                   Flow(Way(p), m_sendQueue[a], m_sendInFlight[a], sendOps[p], posted[p])

Shape == IocpTypeOK /\ Owners /\ OnePlace /\ Fresh /\ \A p \in Peer : NoDup(posted[p])

IocpIInv == Shape /\ (~astray => Flights /\ Streams)

-----------------------------------------------------------------------------
(* Sequences: their elements, and what one that repeats elements covers. *)

LEMMA InToSet ==
    ASSUME NEW S, NEW s \in Seq(S)
    PROVE  /\ Len(s) \in Nat /\ DOMAIN s = 1..Len(s)
           /\ \A x : x \in ToSet(s) <=> \E i \in 1..Len(s) : s[i] = x
           /\ ToSet(s) \subseteq S
<1>1. Len(s) \in Nat /\ DOMAIN s = 1..Len(s) /\ \A i \in 1..Len(s) : s[i] \in S
  BY LenProperties
<1> QED
  BY <1>1 DEF ToSet

LEMMA Appended ==
    ASSUME NEW S, NEW s \in Seq(S), NEW x \in S
    PROVE  /\ Append(s, x) \in Seq(S) /\ Len(Append(s, x)) = Len(s) + 1
           /\ Append(s, x)[Len(s) + 1] = x /\ \A i \in 1..Len(s) : Append(s, x)[i] = s[i]
           /\ ToSet(Append(s, x)) = ToSet(s) \union {x}
           /\ Append(s, x) # <<>>
           /\ Head(Append(s, x)) = IF s = <<>> THEN x ELSE Head(s)
<1>1. /\ Append(s, x) \in Seq(S) /\ Len(Append(s, x)) = Len(s) + 1 /\ Append(s, x) # <<>>
      /\ Append(s, x)[Len(s) + 1] = x /\ \A i \in 1..Len(s) : Append(s, x)[i] = s[i]
  BY AppendProperties
<1>2. Len(s) \in Nat /\ DOMAIN s = 1..Len(s) /\ DOMAIN Append(s, x) = 1..Len(s) + 1
  BY <1>1, InToSet
<1>3. ToSet(Append(s, x)) = ToSet(s) \union {x}
  BY <1>1, <1>2 DEF ToSet
<1> QED
  BY <1>1, <1>3, HeadTailAppend

LEMMA Shortened ==
    ASSUME NEW S, NEW s \in Seq(S), s # <<>>
    PROVE  /\ Head(s) \in S /\ Tail(s) \in Seq(S) /\ Len(s) \in Nat \ {0}
           /\ Head(s) = s[1] /\ Len(Tail(s)) = Len(s) - 1
           /\ \A i \in 1..Len(Tail(s)) : Tail(s)[i] = s[i + 1]
           /\ ToSet(Tail(s)) \subseteq ToSet(s) /\ Head(s) \in ToSet(s)
<1>1. /\ Head(s) \in S /\ Tail(s) \in Seq(S) /\ Len(s) \in Nat \ {0}
      /\ Head(s) = s[1] /\ Len(Tail(s)) = Len(s) - 1
      /\ \A i \in 1..Len(Tail(s)) : Tail(s)[i] = s[i + 1]
  BY HeadTailProperties, EmptySeq
<1>2. DOMAIN s = 1..Len(s) /\ DOMAIN Tail(s) = 1..Len(s) - 1
  BY <1>1, InToSet
<1>3. \A i \in 1..Len(s) - 1 : i + 1 \in 1..Len(s)
  BY <1>1
<1>4. 1 \in 1..Len(s)
  BY <1>1
<1> QED
  BY <1>1, <1>2, <1>3, <1>4 DEF ToSet

LEMMA Joined ==
    ASSUME NEW S, NEW s \in Seq(S), NEW t \in Seq(S)
    PROVE  /\ s \o t \in Seq(S) /\ Len(s \o t) = Len(s) + Len(t)
           /\ Len(s) \in Nat /\ Len(t) \in Nat
           /\ \A i \in 1..Len(s) : (s \o t)[i] = s[i]
           /\ \A i \in 1..Len(t) : (s \o t)[Len(s) + i] = t[i]
<1>1. /\ s \o t \in Seq(S) /\ Len(s \o t) = Len(s) + Len(t)
      /\ \A i \in 1..Len(s) + Len(t) : (s \o t)[i] = IF i <= Len(s) THEN s[i] ELSE t[i - Len(s)]
  BY ConcatProperties
<1>2. Len(s) \in Nat /\ Len(t) \in Nat
  BY InToSet
<1> HIDE DEF ToSet
<1>3. ASSUME NEW i \in 1..Len(s) PROVE (s \o t)[i] = s[i]
  BY <1>1, <1>2
<1>4. ASSUME NEW i \in 1..Len(t) PROVE (s \o t)[Len(s) + i] = t[i]
  <2>1. Len(s) + i \in 1..Len(s) + Len(t) /\ ~(Len(s) + i <= Len(s)) /\ (Len(s) + i) - Len(s) = i
    BY <1>2
  <2> QED
    BY <1>1, <2>1
<1> QED
  BY <1>1, <1>2, <1>3, <1>4

LEMMA NoDoubles ==
    ASSUME NEW S, NEW s \in Seq(S), NEW x \in S, NoDup(s), x \notin ToSet(s)
    PROVE  NoDup(Append(s, x))
<1>1. Len(s) \in Nat /\ \A i \in 1..Len(s) : s[i] # x
  BY InToSet
<1> QED
  BY <1>1, Appended DEF NoDup

\* The other messages are where they were.
LEMMA OrderedGrows ==
    ASSUME NEW S, NEW s \in Seq(S), NEW t \in Seq(S), NEW m \in S, Ordered(s, t)
    PROVE  Ordered(s, Append(t, m))
<1> SUFFICES ASSUME NEW i \in 1..Len(s)
             PROVE  \E k \in 1..Len(Append(t, m)) :
                        /\ s[i] = Append(t, m)[k]
                        /\ \A l \in 1..(k - 1) : \E j \in 1..(i - 1) : s[j] = Append(t, m)[l]
  BY DEF Ordered
<1>1. PICK k \in 1..Len(t) : s[i] = t[k] /\ \A l \in 1..(k - 1) : \E j \in 1..(i - 1) : s[j] = t[l]
  BY DEF Ordered
<1>2. /\ Len(t) \in Nat /\ Len(Append(t, m)) = Len(t) + 1
      /\ \A l \in 1..Len(t) : Append(t, m)[l] = t[l]
  BY Appended, InToSet
<1>3. k \in 1..Len(Append(t, m)) /\ \A l \in 1..(k - 1) : l \in 1..Len(t)
  BY <1>2
<1> QED
  BY <1>1, <1>2, <1>3

\* An element more, whose predecessors in t have been.
LEMMA OrderedNext ==
    ASSUME NEW S, NEW s \in Seq(S), NEW t \in Seq(S), NEW x \in S, Ordered(s, t),
           NEW k \in 1..Len(t), t[k] = x, \A l \in 1..(k - 1) : t[l] \in ToSet(s)
    PROVE  Ordered(Append(s, x), t)
<1> DEFINE r == Append(s, x)
<1>1. /\ Len(s) \in Nat /\ Len(r) = Len(s) + 1 /\ r[Len(s) + 1] = x
      /\ \A i \in 1..Len(s) : r[i] = s[i]
  BY Appended, InToSet
<1>2. \A l \in 1..(k - 1) : \E j \in 1..Len(s) : s[j] = t[l]
  BY InToSet
<1> HIDE DEF r
<1>3. ASSUME NEW i \in 1..Len(r)
      PROVE  \E n \in 1..Len(t) :
                 r[i] = t[n] /\ \A l \in 1..(n - 1) : \E j \in 1..(i - 1) : r[j] = t[l]
  <2>1. CASE i = Len(s) + 1
    <3>1. \A l \in 1..(k - 1) : \E j \in 1..(i - 1) : r[j] = t[l]
      BY <1>1, <1>2, <2>1
    <3> QED
      BY <1>1, <2>1, <3>1
  <2>2. CASE i # Len(s) + 1
    <3>1. i \in 1..Len(s) /\ \A j \in 1..(i - 1) : j \in 1..Len(s)
      BY <1>1, <2>2
    <3>2. PICK n \in 1..Len(t) :
              s[i] = t[n] /\ \A l \in 1..(n - 1) : \E j \in 1..(i - 1) : s[j] = t[l]
      BY <3>1 DEF Ordered
    <3>3. \A l \in 1..(n - 1) : \E j \in 1..(i - 1) : r[j] = t[l]
      BY <1>1, <3>1, <3>2
    <3> QED
      BY <1>1, <3>1, <3>2, <3>3
  <2> QED
    BY <2>1, <2>2
<1> QED
  BY <1>3 DEF Ordered, r

LEMMA CoversNew ==
    ASSUME NEW S, NEW s \in Seq(S), NEW t \in Seq(S), NEW m \in S, Spans(s, t)
    PROVE  Spans(Append(s, m), Append(t, m))
<1> DEFINE u == Append(t, m)
<1>1. /\ u \in Seq(S) /\ Len(t) \in Nat /\ Len(u) = Len(t) + 1 /\ u[Len(t) + 1] = m
      /\ \A l \in 1..Len(t) : u[l] = t[l] /\ t[l] \in ToSet(t)
      /\ ToSet(u) = ToSet(t) \union {m} /\ ToSet(Append(s, m)) = ToSet(s) \union {m}
  BY Appended, InToSet
<1>2. Ordered(s, u) /\ ToSet(t) \subseteq ToSet(s)
  BY OrderedGrows DEF Spans
<1> HIDE DEF u
<1>3. Len(t) + 1 \in 1..Len(u) /\ \A l \in 1..((Len(t) + 1) - 1) : u[l] \in ToSet(s)
  BY <1>1, <1>2
<1>4. Ordered(Append(s, m), u)
  BY <1>1, <1>2, <1>3, OrderedNext
<1> QED
  BY <1>1, <1>2, <1>4 DEF Spans, u

LEMMA CoversOld ==
    ASSUME NEW S, NEW s \in Seq(S), NEW t \in Seq(S), NEW x \in S, x \in ToSet(t), Spans(s, t)
    PROVE  Spans(Append(s, x), t)
<1>1. /\ ToSet(Append(s, x)) = ToSet(s) \union {x} /\ Ordered(s, t) /\ ToSet(t) \subseteq ToSet(s)
  BY Appended DEF Spans
<1>2. PICK k \in 1..Len(t) : t[k] = x
  BY InToSet
<1>3. \A l \in 1..(k - 1) : t[l] \in ToSet(s)
  <2>1. Len(t) \in Nat /\ \A l \in 1..Len(t) : t[l] \in ToSet(t)
    BY InToSet
  <2>2. \A l \in 1..(k - 1) : l \in 1..Len(t)
    BY <2>1
  <2> QED
    BY <1>1, <2>1, <2>2
<1> QED
  BY <1>1, <1>2, <1>3, OrderedNext DEF Spans

LEMMA OrderedBegin ==
    ASSUME NEW S, NEW s \in Seq(S), NEW u \in Seq(S), NEW t, Ordered(s \o u, t)
    PROVE  Ordered(s, t)
<1> DEFINE r == s \o u
<1>1. /\ Len(s) \in Nat /\ Len(u) \in Nat /\ Len(r) = Len(s) + Len(u)
      /\ \A i \in 1..Len(s) : r[i] = s[i]
  BY Joined
<1>2. Ordered(r, t)
  OBVIOUS
<1> HIDE DEF r
<1>3. \A i \in 1..Len(s) : i \in 1..Len(r) /\ \A j \in 1..(i - 1) : j \in 1..Len(s)
  BY <1>1
<1> SUFFICES ASSUME NEW i \in 1..Len(s)
             PROVE  \E k \in 1..Len(t) :
                        s[i] = t[k] /\ \A l \in 1..(k - 1) : \E j \in 1..(i - 1) : s[j] = t[l]
  BY DEF Ordered
<1>4. PICK k \in 1..Len(t) :
          r[i] = t[k] /\ \A l \in 1..(k - 1) : \E j \in 1..(i - 1) : r[j] = t[l]
  BY <1>2, <1>3 DEF Ordered
<1> QED
  BY <1>1, <1>3, <1>4

\* r is s and, after the first n elements, one of them once more.
Again(s, r, n) ==
    /\ Len(s) \in Nat /\ n \in 0..Len(s) /\ Len(r) = Len(s) + 1
    /\ \A i \in 1..n : r[i] = s[i]
    /\ \A i \in (n + 1)..Len(s) : r[i + 1] = s[i]
    /\ \E j \in 1..n : s[j] = r[n + 1]

LEMMA AgainOrdered ==
    ASSUME NEW s, NEW r, NEW t, NEW n, Again(s, r, n)
    PROVE  Ordered(s, t) <=> Ordered(r, t)
<1>1. /\ Len(s) \in Nat /\ n \in 0..Len(s) /\ Len(r) = Len(s) + 1
      /\ \A i \in 1..n : r[i] = s[i]
      /\ \A i \in (n + 1)..Len(s) : r[i + 1] = s[i]
  BY DEF Again
<1>2. PICK e \in 1..n : s[e] = r[n + 1]
  BY DEF Again
<1>3. ASSUME Ordered(s, t), NEW i \in 1..Len(r)
      PROVE  \E k \in 1..Len(t) :
                 r[i] = t[k] /\ \A l \in 1..(k - 1) : \E j \in 1..(i - 1) : r[j] = t[l]
  <2> DEFINE o == IF i <= n THEN i ELSE IF i = n + 1 THEN e ELSE i - 1
  <2>1. o \in 1..Len(s) /\ s[o] = r[i]
    <3>1. CASE i <= n
      BY <1>1, <3>1
    <3>2. CASE i = n + 1
      BY <1>1, <1>2, <3>2
    <3>3. CASE ~(i <= n) /\ i # n + 1
      <4>1. i - 1 \in (n + 1)..Len(s) /\ (i - 1) + 1 = i
        BY <1>1, <3>3
      <4>2. r[(i - 1) + 1] = s[i - 1]
        BY <1>1, <4>1
      <4> QED
        BY <1>1, <3>3, <4>1, <4>2
    <3> QED
      BY <3>1, <3>2, <3>3
  <2>2. \A j \in 1..(o - 1) : \E h \in 1..(i - 1) : r[h] = s[j]
    <3> SUFFICES ASSUME NEW j \in 1..(o - 1) PROVE \E h \in 1..(i - 1) : r[h] = s[j]
      OBVIOUS
    <3>1. j \in 1..Len(s) /\ j < i
      BY <1>1, <1>2
    <3>2. CASE j <= n
      BY <1>1, <3>1, <3>2
    <3>3. CASE ~(j <= n)
      <4>1. j + 1 \in 1..(i - 1) /\ j \in (n + 1)..Len(s)
        BY <1>1, <1>2, <3>1, <3>3
      <4> QED
        BY <1>1, <4>1
    <3> QED
      BY <3>2, <3>3
  <2> HIDE DEF o
  <2>3. PICK k \in 1..Len(t) : s[o] = t[k] /\ \A l \in 1..(k - 1) : \E j \in 1..(o - 1) : s[j] = t[l]
    BY <1>3, <2>1 DEF Ordered
  <2> QED
    BY <2>1, <2>2, <2>3
<1>4. ASSUME Ordered(r, t), NEW i \in 1..Len(s)
      PROVE  \E k \in 1..Len(t) :
                 s[i] = t[k] /\ \A l \in 1..(k - 1) : \E j \in 1..(i - 1) : s[j] = t[l]
  <2> DEFINE o == IF i <= n THEN i ELSE i + 1
  <2>1. o \in 1..Len(r) /\ r[o] = s[i]
    BY <1>1
  <2>2. \A j \in 1..(o - 1) : \E h \in 1..(i - 1) : s[h] = r[j]
    <3> SUFFICES ASSUME NEW j \in 1..(o - 1) PROVE \E h \in 1..(i - 1) : s[h] = r[j]
      OBVIOUS
    <3>1. CASE j <= n
      <4>1. j \in 1..n
        BY <1>1, <3>1
      <4>2. CASE j < i
        BY <1>1, <4>1, <4>2
      <4>3. CASE ~(j < i)
        BY <1>1, <3>1, <4>3
      <4> QED
        BY <4>2, <4>3
    <3>2. CASE j = n + 1
      <4>1. e \in 1..(i - 1)
        BY <1>1, <1>2, <3>2
      <4> QED
        BY <1>2, <3>2, <4>1
    <3>3. CASE ~(j <= n) /\ j # n + 1
      <4>1. j - 1 \in 1..(i - 1) /\ j - 1 \in (n + 1)..Len(s) /\ (j - 1) + 1 = j
        BY <1>1, <3>3
      <4>2. r[(j - 1) + 1] = s[j - 1]
        BY <1>1, <4>1
      <4> QED
        BY <4>1, <4>2
    <3> QED
      BY <3>1, <3>2, <3>3
  <2> HIDE DEF o
  <2>3. PICK k \in 1..Len(t) : r[o] = t[k] /\ \A l \in 1..(k - 1) : \E j \in 1..(o - 1) : r[j] = t[l]
    BY <1>4, <2>1 DEF Ordered
  <2> QED
    BY <2>1, <2>2, <2>3
<1> QED
  BY <1>3, <1>4 DEF Ordered

LEMMA AgainElements ==
    ASSUME NEW S, NEW s \in Seq(S), NEW r \in Seq(S), NEW n, Again(s, r, n)
    PROVE  ToSet(s) = ToSet(r)
<1>1. /\ Len(s) \in Nat /\ n \in 0..Len(s) /\ Len(r) = Len(s) + 1
      /\ \A i \in 1..n : r[i] = s[i]
      /\ \A i \in (n + 1)..Len(s) : r[i + 1] = s[i]
      /\ \E j \in 1..n : s[j] = r[n + 1]
  BY DEF Again
<1>2. ASSUME NEW i \in 1..Len(s) PROVE \E j \in 1..Len(r) : r[j] = s[i]
  <2>1. CASE i <= n
    BY <1>1, <2>1
  <2>2. CASE ~(i <= n)
    <3>1. i \in (n + 1)..Len(s) /\ i + 1 \in 1..Len(r)
      BY <1>1, <2>2
    <3> QED
      BY <1>1, <3>1
  <2> QED
    BY <2>1, <2>2
<1>3. ASSUME NEW i \in 1..Len(r) PROVE \E j \in 1..Len(s) : s[j] = r[i]
  <2>1. CASE i <= n
    BY <1>1, <2>1
  <2>2. CASE i = n + 1
    BY <1>1, <2>2
  <2>3. CASE ~(i <= n) /\ i # n + 1
    <3>1. i - 1 \in (n + 1)..Len(s) /\ (i - 1) + 1 = i /\ i - 1 \in 1..Len(s)
      BY <1>1, <2>3
    <3>2. r[(i - 1) + 1] = s[i - 1]
      BY <1>1, <3>1
    <3> QED
      BY <3>1, <3>2
  <2> QED
    BY <2>1, <2>2, <2>3
<1>4. /\ \A x : x \in ToSet(s) <=> \E i \in 1..Len(s) : s[i] = x
      /\ \A x : x \in ToSet(r) <=> \E i \in 1..Len(r) : r[i] = x
  BY InToSet
<1> QED
  BY <1>2, <1>3, <1>4

LEMMA AgainJoined ==
    ASSUME NEW S, NEW s \in Seq(S), NEW r \in Seq(S), NEW q \in Seq(S), NEW n, Again(s, r, n)
    PROVE  Again(s \o q, r \o q, n)
<1> DEFINE sq == s \o q
           rq == r \o q
<1>1. /\ Len(s) \in Nat /\ n \in 0..Len(s) /\ Len(r) = Len(s) + 1
      /\ \A i \in 1..n : r[i] = s[i]
      /\ \A i \in (n + 1)..Len(s) : r[i + 1] = s[i]
  BY DEF Again
<1>0. PICK e \in 1..n : s[e] = r[n + 1]
  BY DEF Again
<1>2. /\ Len(q) \in Nat /\ Len(sq) = Len(s) + Len(q) /\ Len(rq) = Len(r) + Len(q)
      /\ \A i \in 1..Len(s) : sq[i] = s[i]
      /\ \A i \in 1..Len(q) : sq[Len(s) + i] = q[i]
      /\ \A i \in 1..Len(r) : rq[i] = r[i]
      /\ \A i \in 1..Len(q) : rq[Len(r) + i] = q[i]
  BY Joined
<1> HIDE DEF sq, rq
<1>3. ASSUME NEW i \in (n + 1)..Len(sq) PROVE rq[i + 1] = sq[i]
  <2>1. CASE i <= Len(s)
    <3>1. i \in 1..Len(s) /\ i + 1 \in 1..Len(r) /\ i \in (n + 1)..Len(s)
      BY <1>1, <1>2, <2>1
    <3>2. rq[i + 1] = r[i + 1] /\ sq[i] = s[i] /\ r[i + 1] = s[i]
      BY <1>1, <1>2, <3>1
    <3> QED
      BY <3>2
  <2>2. CASE ~(i <= Len(s))
    <3>1. i - Len(s) \in 1..Len(q) /\ Len(s) + (i - Len(s)) = i /\ Len(r) + (i - Len(s)) = i + 1
      BY <1>1, <1>2, <2>2
    <3>2. /\ sq[Len(s) + (i - Len(s))] = q[i - Len(s)]
          /\ rq[Len(r) + (i - Len(s))] = q[i - Len(s)]
      BY <1>2, <3>1
    <3> QED
      BY <3>1, <3>2
  <2> QED
    BY <2>1, <2>2
<1>4. \A i \in 1..n : rq[i] = sq[i]
  BY <1>1, <1>2
<1>5. Len(sq) \in Nat /\ n \in 0..Len(sq) /\ Len(rq) = Len(sq) + 1 /\ rq[n + 1] = r[n + 1]
  BY <1>1, <1>2
<1>6. e \in 1..n /\ sq[e] = rq[n + 1]
  BY <1>0, <1>1, <1>2, <1>5
<1> QED
  BY <1>3, <1>4, <1>5, <1>6 DEF Again, sq, rq

-----------------------------------------------------------------------------
(* Counting the elements of a sequence that are in a set. *)

LEMMA NumberType ==
    ASSUME NEW S, NEW s \in Seq(S), NEW K
    PROVE  IsFiniteSet(Holders(s, K)) /\ Count(s, K) \in Nat
<1>1. DOMAIN s = 1..Len(s) /\ Len(s) \in Nat
  BY InToSet
<1>2. IsFiniteSet(1..Len(s))
  BY <1>1, FS_Interval
<1>3. Holders(s, K) \subseteq 1..Len(s)
  BY <1>1 DEF Holders
<1> QED
  BY <1>2, <1>3, FS_Subset, FS_CardinalityType DEF Count

LEMMA NumberNone == ASSUME NEW K PROVE Count(<<>>, K) = 0
BY FS_EmptySet DEF Count, Holders

\* None of t counts.
LEMMA NumberJoined ==
    ASSUME NEW S, NEW s \in Seq(S), NEW t \in Seq(S), NEW K, ToSet(t) \intersect K = {}
    PROVE  Count(s \o t, K) = Count(s, K)
<1> DEFINE r == s \o t
<1>1. /\ r \in Seq(S) /\ Len(r) = Len(s) + Len(t) /\ Len(s) \in Nat /\ Len(t) \in Nat
      /\ \A i \in 1..Len(s) : r[i] = s[i]
      /\ \A i \in 1..Len(t) : r[Len(s) + i] = t[i]
  BY Joined
<1>2. /\ DOMAIN s = 1..Len(s) /\ DOMAIN r = 1..Len(s) + Len(t)
      /\ \A i \in 1..Len(t) : t[i] \notin K
  BY <1>1, InToSet
<1> HIDE DEF r
<1>3. ASSUME NEW i \in 1..Len(s) + Len(t), r[i] \in K PROVE i \in 1..Len(s)
  <2> SUFFICES ASSUME ~(i <= Len(s)) PROVE FALSE
    BY <1>1
  <2>1. i - Len(s) \in 1..Len(t) /\ Len(s) + (i - Len(s)) = i
    BY <1>1
  <2>2. r[Len(s) + (i - Len(s))] = t[i - Len(s)]
    BY <1>1, <2>1
  <2> QED
    BY <1>2, <1>3, <2>1, <2>2
<1>4. \A i \in 1..Len(s) : i \in 1..Len(s) + Len(t)
  BY <1>1
<1>5. Holders(r, K) = Holders(s, K)
  BY <1>1, <1>2, <1>3, <1>4 DEF Holders
<1> QED
  BY <1>5 DEF Count, r

LEMMA NumberAppended ==
    ASSUME NEW S, NEW s \in Seq(S), NEW x \in S, NEW K
    PROVE  Count(Append(s, x), K) = Count(s, K) + (IF x \in K THEN 1 ELSE 0)
<1> DEFINE r == Append(s, x)
<1>1. /\ Len(r) = Len(s) + 1 /\ r[Len(s) + 1] = x /\ Len(s) \in Nat
      /\ \A i \in 1..Len(s) : r[i] = s[i]
      /\ DOMAIN s = 1..Len(s) /\ DOMAIN r = 1..Len(s) + 1
  BY Appended, InToSet
<1> HIDE DEF r
<1>2. Len(s) + 1 \notin Holders(s, K)
  BY <1>1 DEF Holders
<1>3. CASE x \in K
  <2>1. Holders(r, K) = Holders(s, K) \union {Len(s) + 1}
    BY <1>1, <1>3 DEF Holders
  <2>2. Cardinality(Holders(r, K)) = Cardinality(Holders(s, K)) + 1
    BY <1>2, <2>1, NumberType, FS_AddElement
  <2> QED
    BY <1>3, <2>2 DEF Count, r
<1>4. CASE x \notin K
  <2>1. Holders(r, K) = Holders(s, K)
    BY <1>1, <1>4 DEF Holders
  <2> QED
    BY <1>4, <2>1, NumberType DEF Count, r
<1> QED
  BY <1>3, <1>4

LEMMA NumberShortened ==
    ASSUME NEW S, NEW s \in Seq(S), s # <<>>, NEW K
    PROVE  Count(s, K) = Count(Tail(s), K) + (IF Head(s) \in K THEN 1 ELSE 0)
<1> DEFINE r == Tail(s)
           Later == {i \in 2..Len(s) : s[i] \in K}
           f == [i \in Holders(r, K) |-> i + 1]
<1>1. /\ r \in Seq(S) /\ Len(s) \in Nat \ {0} /\ Head(s) = s[1] /\ Len(r) = Len(s) - 1
      /\ \A i \in 1..Len(r) : r[i] = s[i + 1]
      /\ DOMAIN s = 1..Len(s) /\ DOMAIN r = 1..Len(s) - 1
  BY Shortened, InToSet
<1> HIDE DEF r
<1>2. f \in Bijection(Holders(r, K), Later)
  <2>1. f \in [Holders(r, K) -> Later]
    BY <1>1 DEF Holders
  <2>2. \A i, j \in Holders(r, K) : f[i] = f[j] => i = j
    BY <1>1 DEF Holders
  <2>3. ASSUME NEW i \in Later PROVE \E j \in Holders(r, K) : f[j] = i
    <3>1. i - 1 \in 1..Len(r) /\ (i - 1) + 1 = i
      BY <1>1
    <3>2. i - 1 \in Holders(r, K)
      BY <1>1, <3>1 DEF Holders
    <3> QED
      BY <3>1, <3>2
  <2> HIDE DEF f
  <2> QED
    BY <2>1, <2>2, <2>3 DEF Bijection, Injection, Surjection, IsInjective
<1>3. IsFiniteSet(Holders(r, K)) /\ Count(r, K) \in Nat
  BY <1>1, NumberType
<1> HIDE DEF f
<1>4. IsFiniteSet(Later) /\ Cardinality(Later) = Count(r, K)
  BY <1>2, <1>3, FS_Bijection DEF Count, ExistsBijection
<1>5. 1 \notin Later
  OBVIOUS
<1>6. CASE Head(s) \in K
  <2>1. Holders(s, K) = Later \union {1}
    BY <1>1, <1>6 DEF Holders
  <2>2. Cardinality(Later \union {1}) = Cardinality(Later) + 1
    BY <1>4, <1>5, FS_AddElement
  <2> QED
    BY <1>4, <1>6, <2>1, <2>2 DEF Count, r
<1>7. CASE Head(s) \notin K
  <2>1. Holders(s, K) = Later
    BY <1>1, <1>7 DEF Holders
  <2> QED
    BY <1>3, <1>4, <1>7, <2>1 DEF Count, r
<1> QED
  BY <1>6, <1>7

-----------------------------------------------------------------------------
(* A send in flight, and the stream of messages of a session. *)

\* What StartSends makes of a queue r of the session of a peer in state st.
Begun(r, f, ops, st, newQ, newF, newOps) ==
    \/ f /\ newF /\ newQ = r /\ newOps = ops
    \/ ~f /\ newF /\ newQ = r /\ newOps = Append(ops, Head(r))
    \/ ~f /\ ~newF /\ newQ = Tail(r) /\ newOps = ops /\ st = "reset"

LEMMA OneOfTwo ==
    ASSUME NEW x \in Nat, NEW n \in Nat, x + n = 1
    PROVE  (x = 0 /\ n = 1) \/ (x = 1 /\ n = 0)
OBVIOUS

LEMMA FlightFacts ==
    ASSUME NEW S, NEW ops \in Seq(S), NEW n \in Nat, NEW q, NEW f \in BOOLEAN, Flight(n, ops, f, q)
    PROVE  /\ ~f => ops = <<>> /\ n = 0
           /\ ops # <<>> => f /\ n = 0 /\ Len(ops) = 1
           /\ n > 0 => f /\ n = 1 /\ ops = <<>>
<1>1. Len(ops) \in Nat /\ (ops # <<>> => Len(ops) \in Nat \ {0}) /\ Len(ops) + n = (IF f THEN 1 ELSE 0)
  BY EmptySeq DEF Flight
<1>2. CASE f
  <2>1. Len(ops) + n = 1
    BY <1>1, <1>2
  <2>0. Len(ops) \in Nat
    BY <1>1
  <2>5. (Len(ops) = 0 /\ n = 1) \/ (Len(ops) = 1 /\ n = 0)
    BY <2>0, <2>1, OneOfTwo
  <2>2. ops # <<>> => n = 0 /\ Len(ops) = 1
    BY <1>1, <2>5
  <2>3. n > 0 => n = 1 /\ Len(ops) = 0
    BY <2>5
  <2>4. n > 0 => ops = <<>>
    BY <1>1, <2>3
  <2> QED
    BY <1>2, <2>2, <2>3, <2>4
<1>3. CASE ~f
  <2>1. Len(ops) + n = 0
    BY <1>1, <1>3
  <2> QED
    BY <1>1, <1>3, <2>1
<1> QED
  BY <1>2, <1>3

LEMMA AppendJoined ==
    ASSUME NEW S, NEW s \in Seq(S), NEW t \in Seq(S), NEW x \in S
    PROVE  s \o Append(t, x) = Append(s \o t, x)
<1>1. Append(t, x) = t \o <<x>> /\ Append(s \o t, x) = (s \o t) \o <<x>> /\ <<x>> \in Seq(S)
  BY AppendIsConcat, Joined
<1> QED
  BY <1>1, ConcatAssociative

LEMMA Posted ==
    ASSUME NEW S, NEW w \in Seq(S), NEW q \in Seq(S), NEW ops \in Seq(S), NEW t \in Seq(S),
           NEW n \in Nat, NEW f \in BOOLEAN, NEW m \in S, Flight(n, ops, f, q)
    PROVE  /\ Flight(n, ops, f, Append(q, m))
           /\ Flow(w, q, f, ops, t) => Flow(w, Append(q, m), f, ops, Append(t, m))
<1>1. /\ Append(q, m) # <<>> /\ Head(Append(q, m)) = IF q = <<>> THEN m ELSE Head(q)
  BY Appended
<1>2. (f => q # <<>>) /\ (ops # <<>> => q # <<>>)
  BY FlightFacts DEF Flight
<1>3. Flight(n, ops, f, Append(q, m))
  BY <1>1, <1>2 DEF Flight
<1>4. ASSUME Flow(w, q, f, ops, t) PROVE Flow(w, Append(q, m), f, ops, Append(t, m))
  <2>1. w \o q \in Seq(S) /\ w \o Append(q, m) = Append(w \o q, m)
    BY Joined, AppendJoined
  <2>2. Spans(Append(w \o q, m), Append(t, m))
    BY <1>4, <2>1, CoversNew DEF Flow
  <2> QED
    BY <1>1, <1>2, <1>4, <2>1, <2>2 DEF Flow
<1> QED
  BY <1>3, <1>4

LEMMA Beginning ==
    ASSUME NEW S, NEW w \in Seq(S), NEW r \in Seq(S), NEW ops \in Seq(S), NEW t,
           NEW n \in Nat, NEW f \in BOOLEAN, NEW st,
           NEW newQ, NEW newF \in BOOLEAN, NEW newOps,
           r # <<>>, Flight(n, ops, f, r), Begun(r, f, ops, st, newQ, newF, newOps)
    PROVE  /\ Flight(n, newOps, newF, newQ)
           /\ st # "reset" /\ Flow(w, r, f, ops, t) => Flow(w, newQ, newF, newOps, t)
<1>1. ~f => ops = <<>> /\ n = 0
  BY FlightFacts
<1>2. CASE f /\ newF /\ newQ = r /\ newOps = ops
  BY <1>2 DEF Flight, Flow
<1>3. CASE ~f /\ newF /\ newQ = r /\ newOps = Append(ops, Head(r))
  <2>1. Head(r) \in S /\ <<>> \in Seq(S) /\ Len(<<>>) = 0
    BY Shortened, EmptySeq
  <2>2. /\ newOps # <<>> /\ Len(newOps) = 1 /\ Head(newOps) = Head(r)
    BY <1>1, <1>3, <2>1, Appended
  <2> QED
    BY <1>1, <1>3, <2>2 DEF Flight, Flow
<1>4. CASE ~f /\ ~newF /\ newQ = Tail(r) /\ newOps = ops /\ st = "reset"
  BY <1>1, <1>4, EmptySeq DEF Flight
<1> QED
  BY <1>2, <1>3, <1>4 DEF Begun

\* The queue q when its front message has been sent: the next one is queued again.
Requeued(q) == IF Tail(q) = <<>> THEN <<>> ELSE Append(Tail(q), Head(Tail(q)))

LEMMA Completed ==
    ASSUME NEW S, NEW w \in Seq(S), NEW q \in Seq(S), NEW ops \in Seq(S), NEW t \in Seq(S),
           NEW n \in Nat, NEW f \in BOOLEAN, NEW g \in BOOLEAN, n > 0, ~g, Flight(n, ops, f, q)
    PROVE  /\ q # <<>> /\ n = 1
           /\ Flight(0, ops, g, Requeued(q))
           /\ Flow(w, q, f, ops, t) => Flow(w, Requeued(q), g, ops, t)
<1>1. f /\ n = 1 /\ ops = <<>> /\ q # <<>>
  BY FlightFacts DEF Flight
<1>2. Head(q) \in S /\ Tail(q) \in Seq(S) /\ Len(q) \in Nat \ {0} /\ Head(q) = q[1]
      /\ Len(Tail(q)) = Len(q) - 1 /\ \A i \in 1..Len(Tail(q)) : Tail(q)[i] = q[i + 1]
  BY <1>1, Shortened
<1>3. Len(<<>>) = 0 /\ <<>> \in Seq(S)
  BY EmptySeq
\* The front of the queue has left already.
<1>4. ASSUME Flow(w, q, f, ops, t) PROVE Spans(w \o Tail(q), t)
  <2> DEFINE s == w \o Tail(q)
             v == w \o q
  <2>1. /\ s \in Seq(S) /\ v \in Seq(S) /\ Len(w) \in Nat
        /\ Len(s) = Len(w) + Len(Tail(q)) /\ Len(v) = Len(w) + Len(q)
        /\ \A i \in 1..Len(w) : s[i] = w[i]
        /\ \A i \in 1..Len(Tail(q)) : s[Len(w) + i] = Tail(q)[i]
        /\ \A i \in 1..Len(w) : v[i] = w[i]
        /\ \A i \in 1..Len(q) : v[Len(w) + i] = q[i]
    BY <1>2, Joined
  <2>2. Spans(v, t) /\ Head(q) \in ToSet(w)
    BY <1>1, <1>4 DEF Flow
  <2>3. PICK j \in 1..Len(w) : w[j] = Head(q)
    BY <2>2, InToSet
  <2> HIDE DEF s, v
  <2>4. Again(s, v, Len(w))
    <3>1. Len(s) \in Nat /\ Len(w) \in 0..Len(s) /\ Len(v) = Len(s) + 1
      BY <1>2, <2>1
    <3>2. \A i \in 1..Len(w) : v[i] = s[i]
      BY <2>1
    <3>3. ASSUME NEW i \in (Len(w) + 1)..Len(s) PROVE v[i + 1] = s[i]
      <4> DEFINE k == i - Len(w)
      <4>1. k \in 1..Len(Tail(q)) /\ k + 1 \in 1..Len(q) /\ i = Len(w) + k /\ i + 1 = Len(w) + (k + 1)
        BY <1>2, <2>1
      <4> HIDE DEF k
      <4>2. s[Len(w) + k] = Tail(q)[k] /\ v[Len(w) + (k + 1)] = q[k + 1] /\ Tail(q)[k] = q[k + 1]
        BY <1>2, <2>1, <4>1
      <4> QED
        BY <4>1, <4>2
    <3>4. s[j] = v[Len(w) + 1]
      <4>1. 1 \in 1..Len(q)
        BY <1>2
      <4> QED
        BY <1>2, <2>1, <2>3, <4>1
    <3> QED
      BY <3>1, <3>2, <3>3, <3>4 DEF Again
  <2>5. Spans(s, t)
    BY <2>1, <2>2, <2>4, AgainOrdered, AgainElements DEF Spans
  <2> QED
    BY <2>5 DEF s
<1>5. CASE Tail(q) = <<>>
  <2>1. Flight(0, ops, g, <<>>)
    BY <1>1, <1>3 DEF Flight
  <2>2. Flow(w, q, f, ops, t) => Flow(w, <<>>, g, ops, t)
    BY <1>4, <1>5 DEF Flow
  <2>3. Requeued(q) = <<>>
    BY <1>5 DEF Requeued
  <2> QED
    BY <1>1, <2>1, <2>2, <2>3
<1>6. CASE Tail(q) # <<>>
  <2> DEFINE x == Head(Tail(q))
             r == Requeued(q)
  <2>1. x \in S /\ x \in ToSet(Tail(q))
    BY <1>2, <1>6, Shortened
  <2>5. r = Append(Tail(q), x)
    BY <1>6 DEF Requeued
  <2> HIDE DEF x, r
  <2>2. r \in Seq(S) /\ r # <<>>
    <3>1. Tail(q) \in Seq(S) /\ x \in S
      BY <1>2, <2>1
    <3>2. Append(Tail(q), x) \in Seq(S) /\ Append(Tail(q), x) # <<>>
      BY ONLY <3>1, Appended
    <3> QED
      BY <2>5, <3>2
  <2>3. Flight(0, ops, g, r)
    BY <1>1, <1>3, <2>2 DEF Flight
  <2>4. ASSUME Flow(w, q, f, ops, t) PROVE Flow(w, r, g, ops, t)
    <3> DEFINE s == w \o Tail(q)
    <3>1. Spans(s, t) /\ s \in Seq(S)
      BY <1>2, <1>4, <2>4, Joined
    <3>2. x \in ToSet(t)
      <4>1. PICK i \in 1..Len(q) : q[i] = x
        <5>1. 1 \in 1..Len(Tail(q)) /\ Tail(q)[1] = x
          BY <1>2, <1>6, Shortened DEF x
        <5>2. 2 \in 1..Len(q) /\ q[1 + 1] = x
          BY <1>2, <5>1
        <5> QED
          BY <5>2
      <4>2. Ordered(w \o q, t)
        BY <2>4 DEF Flow, Spans
      <4>3. Len(w) + i \in 1..Len(w \o q) /\ (w \o q)[Len(w) + i] = x
        BY <4>1, Joined
      <4>4. PICK k \in 1..Len(t) : t[k] = x
        BY <4>2, <4>3 DEF Ordered
      <4> QED
        BY <4>4, InToSet
    <3>3. Spans(Append(s, x), t)
      BY <2>1, <3>1, <3>2, CoversOld
    <3>4. w \o r = Append(s, x)
      <4>1. w \o Append(Tail(q), x) = Append(w \o Tail(q), x)
        BY <1>2, <2>1, AppendJoined
      <4> QED
        BY <2>5, <4>1
    <3> QED
      BY <3>3, <3>4 DEF Flow
  <2> QED
    BY <1>1, <2>3, <2>4 DEF r
<1> QED
  BY <1>5, <1>6

\* The send in flight completes: its message has left.
Departs(n, w, q, f, ops, t) ==
    /\ Flight(n + 1, Tail(ops), f, q)
    /\ Flow(w, q, f, ops, t) => Flow(Append(w, Head(ops)), q, f, Tail(ops), t)

LEMMA Left ==
    ASSUME NEW S, NEW w \in Seq(S), NEW q \in Seq(S), NEW ops \in Seq(S), NEW t,
           NEW n \in Nat, NEW f \in BOOLEAN, ops # <<>>, Flight(n, ops, f, q)
    PROVE  Departs(n, w, q, f, ops, t)
<1>1. f /\ n = 0 /\ Len(ops) = 1 /\ q # <<>> /\ Head(ops) = Head(q)
  BY FlightFacts DEF Flight
<1>2. /\ Head(ops) \in S /\ Tail(ops) \in Seq(S) /\ Len(Tail(ops)) = 0
      /\ Len(q) \in Nat \ {0} /\ Head(q) = q[1]
  BY <1>1, Shortened
<1>3. Tail(ops) = <<>>
  BY <1>2, EmptySeq
<1>4. Flight(n + 1, Tail(ops), f, q)
  BY <1>1, <1>2, <1>3 DEF Flight
<1>5. ASSUME Flow(w, q, f, ops, t) PROVE Flow(Append(w, Head(ops)), q, f, Tail(ops), t)
  <2> DEFINE x == Head(ops)
             v == Append(w, x)
             s == w \o q
             r == v \o q
  <2>1. /\ v \in Seq(S) /\ Len(v) = Len(w) + 1 /\ v[Len(w) + 1] = x
        /\ \A i \in 1..Len(w) : v[i] = w[i]
        /\ ToSet(v) = ToSet(w) \union {x}
    BY <1>2, Appended
  <2> HIDE DEF v
  <2>2. /\ s \in Seq(S) /\ Len(w) \in Nat /\ Len(s) = Len(w) + Len(q)
        /\ \A i \in 1..Len(w) : s[i] = w[i]
        /\ \A i \in 1..Len(q) : s[Len(w) + i] = q[i]
    BY Joined
  <2>3. /\ r \in Seq(S) /\ Len(r) = Len(v) + Len(q)
        /\ \A i \in 1..Len(v) : r[i] = v[i]
        /\ \A i \in 1..Len(q) : r[Len(v) + i] = q[i]
    <3>1. v \in Seq(S)
      BY <2>1
    <3> QED
      BY <3>1, Joined
  <2> HIDE DEF s, r
  <2>4. Again(s, r, Len(w) + 1)
    <3>0. x = q[1] /\ 1 \in 1..Len(q)
      BY <1>1, <1>2
    <3>1. Len(s) \in Nat /\ Len(w) + 1 \in 0..Len(s) /\ Len(r) = Len(s) + 1
      BY <1>2, <2>1, <2>2, <2>3
    <3>2. s[Len(w) + 1] = x /\ r[Len(w) + 1] = x
      BY <2>1, <2>2, <2>3, <3>0
    <3>3. \A i \in 1..Len(w) + 1 : r[i] = s[i]
      <4>1. ASSUME NEW i \in 1..Len(w) PROVE r[i] = s[i]
        BY <2>1, <2>2, <2>3
      <4> QED
        BY <2>2, <3>2, <4>1
    <3>4. ASSUME NEW i \in ((Len(w) + 1) + 1)..Len(s) PROVE r[i + 1] = s[i]
      <4> DEFINE k == i - Len(w)
      <4>1. k \in 1..Len(q) /\ i = Len(w) + k /\ i + 1 = Len(v) + k
        <5>1. /\ Len(w) \in Nat /\ Len(q) \in Nat /\ Len(v) = Len(w) + 1
              /\ Len(s) = Len(w) + Len(q) /\ i \in ((Len(w) + 1) + 1)..Len(s)
          BY <2>1, <2>2
        <5> QED
          BY ONLY <5>1 DEF k
      <4> HIDE DEF k
      <4>2. s[Len(w) + k] = q[k] /\ r[Len(v) + k] = q[k]
        BY <2>2, <2>3, <4>1
      <4> QED
        BY <4>1, <4>2
    <3>5. s[Len(w) + 1] = r[(Len(w) + 1) + 1] /\ Len(w) + 1 \in 1..Len(w) + 1
      <4>1. r[Len(v) + 1] = q[1]
        BY <2>3, <3>0
      <4> QED
        BY <2>1, <2>2, <3>0, <3>2, <4>1
    <3> QED
      BY <3>1, <3>3, <3>4, <3>5 DEF Again
  <2>5. Spans(s, t)
    BY <1>5 DEF Flow, s
  <2>6. Spans(r, t)
    BY <2>2, <2>3, <2>4, <2>5, AgainOrdered, AgainElements DEF Spans
  <2>7. Head(q) \in ToSet(v)
    BY <1>1, <2>1
  <2> QED
    BY <2>6, <2>7 DEF Flow, r, v
<1> QED
  BY <1>4, <1>5 DEF Departs

\* The client drops a message that it has got already.
LEMMA Dropped ==
    ASSUME NEW S, NEW w \in Seq(S), NEW v \in Seq(S), NEW k, Again(v, w, k),
           NEW q \in Seq(S), NEW ops, NEW t, NEW f \in BOOLEAN
    PROVE  /\ Ordered(w, t) => Ordered(v, t)
           /\ Flow(w, q, f, ops, t) => Flow(v, q, f, ops, t)
<1>1. Again(v \o q, w \o q, k) /\ v \o q \in Seq(S) /\ w \o q \in Seq(S)
  BY AgainJoined, Joined
<1>2. ToSet(v) = ToSet(w) /\ ToSet(v \o q) = ToSet(w \o q)
  BY <1>1, AgainElements
<1>3. (Ordered(v, t) <=> Ordered(w, t)) /\ (Ordered(v \o q, t) <=> Ordered(w \o q, t))
  BY <1>1, AgainOrdered
<1> QED
  BY <1>2, <1>3 DEF Flow, Spans

-----------------------------------------------------------------------------
(* The completions in the port, and how their numbers change. *)

LEMMA Fields ==
    ASSUME NEW c \in Completion
    PROVE  /\ c.of \in Peer /\ c.ok \in BOOLEAN /\ c.kind \in {"Accept", "Recv", "Send"}
           /\ c.kind # "Accept" => c.key \in Addr
           /\ c.kind = "Recv" => c.count \in 0..MaxMsgs
BY DEF Completion

LEMMA Made ==
    ASSUME NEW p \in Peer, NEW a \in Addr, NEW ok \in BOOLEAN, NEW n \in 0..MaxMsgs
    PROVE  /\ [kind |-> "Accept", of |-> p, ok |-> ok] \in Completion
           /\ [kind |-> "Recv", key |-> a, of |-> p, ok |-> ok, count |-> n] \in Completion
           /\ [kind |-> "Send", key |-> a, of |-> p, ok |-> ok] \in Completion
BY DEF Completion

LEMMA AcceptsCounted ==
    ASSUME NEW s \in Seq(Completion)
    PROVE  Cardinality({i \in DOMAIN s : s[i].kind = "Accept"}) = Count(s, Accepts)
<1>1. \A i \in DOMAIN s : s[i] \in Completion
  BY ElementOfSeq, LenProperties
<1> QED
  BY <1>1 DEF Count, Holders, Accepts

LEMMA SendsCounted ==
    ASSUME NEW s \in Seq(Completion), NEW a, NEW p
    PROVE  Cardinality({i \in DOMAIN s : s[i].kind = "Send" /\ s[i].key = a /\ s[i].of = p})
               = Count(s, SendOf(a, p))
<1>1. \A i \in DOMAIN s : s[i] \in Completion
  BY ElementOfSeq, LenProperties
<1> QED
  BY <1>1 DEF Count, Holders, SendOf

LEMMA NumberZero ==
    ASSUME NEW S, NEW s \in Seq(S), NEW K, \A c \in ToSet(s) : c \notin K
    PROVE  Count(s, K) = 0
<1>1. \A i \in DOMAIN s : s[i] \in ToSet(s)
  BY InToSet
<1>2. Holders(s, K) = {}
  BY <1>1 DEF Holders
<1> QED
  BY <1>2, FS_EmptySet DEF Count

LEMMA NumberSeen ==
    ASSUME NEW S, NEW s \in Seq(S), NEW K, NEW x \in ToSet(s), x \in K
    PROVE  Count(s, K) # 0
<1>1. PICK i \in DOMAIN s : s[i] = x
  BY DEF ToSet
<1>2. i \in Holders(s, K)
  BY <1>1 DEF Holders
<1>3. IsFiniteSet(Holders(s, K))
  BY NumberType
<1> QED
  BY <1>2, <1>3, FS_EmptySet DEF Count

\* s is r with c.
More(s, r, c) ==
    /\ s \in Seq(Completion) /\ r \in Seq(Completion) /\ c \in Completion
    /\ ToSet(s) = ToSet(r) \union {c}
    /\ \A K : Count(s, K) = Count(r, K) + (IF c \in K THEN 1 ELSE 0)

LEMMA TailMore ==
    ASSUME NEW s \in Seq(Completion), s # <<>>
    PROVE  More(s, Tail(s), Head(s))
<1> DEFINE r == Tail(s)
<1>1. /\ r \in Seq(Completion) /\ Head(s) \in Completion /\ Len(s) \in Nat \ {0} /\ Head(s) = s[1]
      /\ Len(r) = Len(s) - 1
      /\ \A i \in 1..Len(r) : r[i] = s[i + 1]
      /\ ToSet(r) \subseteq ToSet(s) /\ Head(s) \in ToSet(s)
  BY Shortened
<1>2. ASSUME NEW x \in ToSet(s), x # Head(s) PROVE x \in ToSet(r)
  <2>1. PICK i \in 1..Len(s) : s[i] = x
    BY <1>2, InToSet
  <2>2. i - 1 \in 1..Len(r) /\ (i - 1) + 1 = i
    BY <1>1, <1>2, <2>1
  <2>3. r[i - 1] = x
    BY <1>1, <2>1, <2>2
  <2> HIDE DEF r
  <2> QED
    BY <1>1, <2>2, <2>3, InToSet
<1>3. ToSet(s) = ToSet(r) \union {Head(s)}
  BY <1>1, <1>2
<1>4. \A K : Count(s, K) = Count(r, K) + (IF Head(s) \in K THEN 1 ELSE 0)
  BY NumberShortened
<1> QED
  BY <1>1, <1>3, <1>4 DEF More

LEMMA AppendMore ==
    ASSUME NEW s \in Seq(Completion), NEW c \in Completion
    PROVE  More(Append(s, c), s, c)
BY Appended, NumberAppended DEF More

LEMMA MoreFacts ==
    ASSUME NEW s, NEW r, NEW c, More(s, r, c)
    PROVE  /\ \A K : Count(s, K) \in Nat /\ Count(r, K) \in Nat
           /\ \A x \in ToSet(s) : x \in ToSet(r) \/ x = c
           /\ c \in ToSet(s) /\ ToSet(r) \subseteq ToSet(s) /\ ToSet(s) \subseteq Completion
           /\ c.kind = "Accept" => Count(s, Accepts) = Count(r, Accepts) + 1
           /\ c.kind # "Accept" => Count(s, Accepts) = Count(r, Accepts)
           /\ \A p : c.kind = "Accept" /\ c.of = p =>
                  Count(s, AcceptOf(p)) = Count(r, AcceptOf(p)) + 1
           /\ \A p : c.kind # "Accept" \/ c.of # p => Count(s, AcceptOf(p)) = Count(r, AcceptOf(p))
           /\ \A p, k : c.kind = "Recv" /\ c.ok /\ c.of = p /\ c.count = k =>
                  Count(s, MessageOf(p, k)) = Count(r, MessageOf(p, k)) + 1
           /\ \A p, k : ~(c.kind = "Recv" /\ c.ok /\ c.of = p /\ c.count = k) =>
                  Count(s, MessageOf(p, k)) = Count(r, MessageOf(p, k))
           /\ \A a, p : c.kind = "Send" /\ c.key = a /\ c.of = p =>
                  Count(s, SendOf(a, p)) = Count(r, SendOf(a, p)) + 1
           /\ \A a, p : ~(c.kind = "Send" /\ c.key = a /\ c.of = p) =>
                  Count(s, SendOf(a, p)) = Count(r, SendOf(a, p))
<1>1. /\ s \in Seq(Completion) /\ r \in Seq(Completion) /\ c \in Completion
      /\ ToSet(s) = ToSet(r) \union {c}
  BY DEF More
<1>2. \A K : Count(s, K) \in Nat /\ Count(r, K) \in Nat
  BY <1>1, NumberType
<1>3. ASSUME NEW K, c \in K PROVE Count(s, K) = Count(r, K) + 1
  BY <1>3 DEF More
<1>4. ASSUME NEW K, c \notin K PROVE Count(s, K) = Count(r, K)
  <2>1. Count(s, K) = Count(r, K) + 0
    BY <1>4 DEF More
  <2> QED
    BY <1>2, <2>1
<1>5. ToSet(s) \subseteq Completion
  BY <1>1, InToSet
<1>6. /\ c.kind = "Accept" <=> c \in Accepts
      /\ \A p : c \in AcceptOf(p) <=> c.kind = "Accept" /\ c.of = p
      /\ \A p, k : c \in MessageOf(p, k) <=> c.kind = "Recv" /\ c.ok /\ c.of = p /\ c.count = k
      /\ \A a, p : c \in SendOf(a, p) <=> c.kind = "Send" /\ c.key = a /\ c.of = p
  BY <1>1 DEF Accepts, AcceptOf, MessageOf, SendOf
<1>7. /\ c.kind = "Accept" => Count(s, Accepts) = Count(r, Accepts) + 1
      /\ c.kind # "Accept" => Count(s, Accepts) = Count(r, Accepts)
  BY <1>3, <1>4, <1>6
<1>8. /\ \A p : c.kind = "Accept" /\ c.of = p =>
             Count(s, AcceptOf(p)) = Count(r, AcceptOf(p)) + 1
      /\ \A p : c.kind # "Accept" \/ c.of # p => Count(s, AcceptOf(p)) = Count(r, AcceptOf(p))
  BY <1>3, <1>4, <1>6
<1>9. /\ \A p, k : c.kind = "Recv" /\ c.ok /\ c.of = p /\ c.count = k =>
             Count(s, MessageOf(p, k)) = Count(r, MessageOf(p, k)) + 1
      /\ \A p, k : ~(c.kind = "Recv" /\ c.ok /\ c.of = p /\ c.count = k) =>
             Count(s, MessageOf(p, k)) = Count(r, MessageOf(p, k))
  BY <1>3, <1>4, <1>6
<1>10. /\ \A a, p : c.kind = "Send" /\ c.key = a /\ c.of = p =>
              Count(s, SendOf(a, p)) = Count(r, SendOf(a, p)) + 1
       /\ \A a, p : ~(c.kind = "Send" /\ c.key = a /\ c.of = p) =>
              Count(s, SendOf(a, p)) = Count(r, SendOf(a, p))
  BY <1>3, <1>4, <1>6
<1> QED
  BY <1>1, <1>2, <1>5, <1>7, <1>8, <1>9, <1>10

\* r is s with operations of p that have failed.
Aborted(s, r, p) ==
    /\ s \in Seq(Completion) /\ r \in Seq(Completion)
    /\ ToSet(s) \subseteq ToSet(r)
    /\ \A c \in ToSet(r) \ ToSet(s) : c.kind # "Accept" /\ ~c.ok /\ c.of = p
    /\ Count(r, Accepts) = Count(s, Accepts)
    /\ \A q : Count(r, AcceptOf(q)) = Count(s, AcceptOf(q))
    /\ \A q, k : Count(r, MessageOf(q, k)) = Count(s, MessageOf(q, k))
    /\ \A a, q : q # p => Count(r, SendOf(a, q)) = Count(s, SendOf(a, q))

LEMMA AbortedJoined ==
    ASSUME NEW s \in Seq(Completion), NEW t \in Seq(Completion), NEW p,
           \A c \in ToSet(t) : c.kind # "Accept" /\ ~c.ok /\ c.of = p
    PROVE  Aborted(s, s \o t, p)
<1>1. s \o t \in Seq(Completion) /\ ToSet(t) \subseteq Completion
  BY Joined, InToSet
<1>2. ASSUME NEW K, \A c \in ToSet(t) : c \notin K PROVE Count(s \o t, K) = Count(s, K)
  <2>1. ToSet(t) \intersect K = {}
    BY <1>2
  <2> QED
    BY <2>1, NumberJoined
<1>3. /\ \A c \in ToSet(t) : c \notin Accepts
      /\ \A q : \A c \in ToSet(t) : c \notin AcceptOf(q)
      /\ \A q, k : \A c \in ToSet(t) : c \notin MessageOf(q, k)
      /\ \A a, q : q # p => \A c \in ToSet(t) : c \notin SendOf(a, q)
  BY DEF Accepts, AcceptOf, MessageOf, SendOf
<1>4. ASSUME NEW x PROVE x \in ToSet(s \o t) <=> x \in ToSet(s) \/ x \in ToSet(t)
  <2> DEFINE r == s \o t
  <2>1. /\ r \in Seq(Completion) /\ Len(r) = Len(s) + Len(t) /\ Len(s) \in Nat /\ Len(t) \in Nat
        /\ \A i \in 1..Len(s) : r[i] = s[i]
        /\ \A i \in 1..Len(t) : r[Len(s) + i] = t[i]
    BY Joined
  <2> HIDE DEF r
  <2>2. ASSUME NEW i \in 1..Len(s) PROVE s[i] \in ToSet(r)
    <3>1. i \in 1..Len(r) /\ r[i] = s[i]
      BY <2>1
    <3> QED
      BY <2>1, <3>1, InToSet
  <2>3. ASSUME NEW i \in 1..Len(t) PROVE t[i] \in ToSet(r)
    <3>1. Len(s) + i \in 1..Len(r) /\ r[Len(s) + i] = t[i]
      BY <2>1
    <3> QED
      BY <2>1, <3>1, InToSet
  <2>4. ASSUME NEW i \in 1..Len(r) PROVE r[i] \in ToSet(s) \/ r[i] \in ToSet(t)
    <3>1. CASE i <= Len(s)
      <4>1. i \in 1..Len(s) /\ r[i] = s[i]
        BY <2>1, <3>1
      <4> QED
        BY <4>1, InToSet
    <3>2. CASE ~(i <= Len(s))
      <4> DEFINE j == i - Len(s)
      <4>1. j \in 1..Len(t) /\ i = Len(s) + j
        BY <2>1, <3>2
      <4> HIDE DEF j
      <4>2. r[i] = t[j]
        BY <2>1, <4>1
      <4> QED
        BY <4>1, <4>2, InToSet
    <3> QED
      BY <3>1, <3>2
  <2>5. /\ x \in ToSet(s) <=> \E i \in 1..Len(s) : s[i] = x
        /\ x \in ToSet(t) <=> \E i \in 1..Len(t) : t[i] = x
        /\ x \in ToSet(r) <=> \E i \in 1..Len(r) : r[i] = x
    <3>1. \A z \in Seq(Completion) : x \in ToSet(z) <=> \E i \in 1..Len(z) : z[i] = x
      BY InToSet
    <3> QED
      BY <2>1, <3>1
  <2>6. x \in ToSet(r) <=> x \in ToSet(s) \/ x \in ToSet(t)
    BY <2>2, <2>3, <2>4, <2>5
  <2> QED
    BY <2>6 DEF r
<1>5. /\ ToSet(s) \subseteq ToSet(s \o t)
      /\ \A c \in ToSet(s \o t) \ ToSet(s) : c.kind # "Accept" /\ ~c.ok /\ c.of = p
  BY <1>4
<1>6. /\ Count(s \o t, Accepts) = Count(s, Accepts)
      /\ \A q : Count(s \o t, AcceptOf(q)) = Count(s, AcceptOf(q))
      /\ \A q, k : Count(s \o t, MessageOf(q, k)) = Count(s, MessageOf(q, k))
      /\ \A a, q : q # p => Count(s \o t, SendOf(a, q)) = Count(s, SendOf(a, q))
  BY <1>2, <1>3
<1> QED
  BY <1>1, <1>5, <1>6 DEF Aborted

LEMMA AbortedTwice ==
    ASSUME NEW s, NEW r, NEW t, NEW p, Aborted(s, r, p), Aborted(r, t, p)
    PROVE  Aborted(s, t, p)
BY DEF Aborted

-----------------------------------------------------------------------------
(* Addresses. *)

LEMMA AddrFacts ==
    /\ Addr \subseteq Nat /\ IsFiniteSet(Addr)
    /\ Cardinality(Addr) = Cardinality(Peer) /\ Cardinality(Peer) \in Nat
<1>1. Cardinality(Peer) \in Nat
  BY IocpAssumption, FS_CardinalityType
<1> QED
  BY <1>1, FS_Interval DEF Addr

\* The allocator finds an address for a new session.
LEMMA FreeAddress ==
    ASSUME NEW p \in Peer, session \in [Addr -> Peer \union {NoPeer}], ~HasSession(p),
           \A b, c \in Addr : session[b] = session[c] /\ session[b] # NoPeer => b = c,
           NEW a, a = CHOOSE b \in {c \in Addr : session[c] = NoPeer} :
                          \A c \in {d \in Addr : session[d] = NoPeer} : b <= c
    PROVE  a \in Addr /\ session[a] = NoPeer
<1> DEFINE free == {b \in Addr : session[b] = NoPeer}
           f == [b \in Addr |-> session[b]]
<1>1. free # {}
  <2> SUFFICES ASSUME free = {} PROVE FALSE
    OBVIOUS
  <2>1. f \in [Addr -> Peer \ {p}]
    BY DEF HasSession
  <2>2. IsFiniteSet(Peer \ {p}) /\ Cardinality(Peer \ {p}) = Cardinality(Peer) - 1
    BY IocpAssumption, FS_RemoveElement
  <2>3. Cardinality(Peer \ {p}) < Cardinality(Addr)
    BY <2>2, AddrFacts
  <2> HIDE DEF f
  <2>4. \E x, y \in Addr : x # y /\ f[x] = f[y]
    <3>1. IsFiniteSet(Addr)
      BY AddrFacts
    <3> QED
      BY <2>1, <2>2, <2>3, <3>1, FS_PigeonHole
  <2>5. PICK x \in Addr, y \in Addr : x # y /\ f[x] = f[y]
    BY <2>4
  <2>6. session[x] = session[y] /\ session[x] # NoPeer
    BY <2>1, <2>5 DEF f
  <2> QED
    BY <2>5, <2>6
<1>2. free \subseteq Nat /\ free \subseteq Addr
  BY AddrFacts
<1>3. \E b \in free : \A c \in free : b <= c
  <2> HIDE DEF free
  <2> QED
    BY <1>1, <1>2, Least
<1>4. a \in free
  BY <1>3
<1> QED
  BY <1>4

LEMMA Address ==
    ASSUME NEW a \in Addr, session[a] # NoPeer,
           \A b, c \in Addr : session[b] = session[c] /\ session[b] # NoPeer => b = c
    PROVE  AddressOf(session[a]) = a
BY DEF AddressOf

LEMMA AddressType ==
    ASSUME NEW p, HasSession(p)
    PROVE  AddressOf(p) \in Addr /\ session[AddressOf(p)] = p
BY DEF HasSession, AddressOf

-----------------------------------------------------------------------------
(* The sends that are started. *)

\* What becomes of the queues q of the sessions at S.
Started(S, q, busy) ==
    /\ m_sendQueue' \in [Addr -> Seq(Message)]
    /\ m_sendInFlight' \in [Addr -> BOOLEAN]
    /\ sendOps' \in [Peer -> Seq(Message)]
    /\ \A a \in Addr \ S : m_sendQueue'[a] = q[a] /\ m_sendInFlight'[a] = busy[a]
    /\ \A a \in S : Begun(q[a], busy[a], sendOps[session[a]], peer[session[a]],
                          m_sendQueue'[a], m_sendInFlight'[a], sendOps'[session[a]])
    /\ \A p \in Peer : (\A a \in S : session[a] # p) => sendOps'[p] = sendOps[p]

LEMMA Starting ==
    ASSUME NEW S \in SUBSET Addr, NEW q \in [Addr -> Seq(Message)], NEW busy \in [Addr -> BOOLEAN],
           IocpTypeOK, Owners, \A a \in S : session[a] # NoPeer /\ q[a] # <<>>,
           StartSends(S, q, busy)
    PROVE  Started(S, q, busy)
<1> DEFINE idle == {a \in S : ~Busy(busy[a])}
<1>1. PICK Failed \in SUBSET {a \in idle : peer[session[a]] = "reset"} :
          /\ m_sendQueue' = [a \in Addr |-> IF a \in Failed THEN Tail(q[a]) ELSE q[a]]
          /\ m_sendInFlight' = [a \in Addr |-> a \notin Failed /\ (busy[a] \/ a \in idle)]
          /\ sendOps' = [p \in Peer |->
                 IF \E a \in idle \ Failed : session[a] = p
                 THEN Append(sendOps[p], Head(q[AddressOf(p)])) ELSE sendOps[p]]
  BY DEF StartSends
<1>2. \A a \in S : (a \in idle <=> ~busy[a]) /\ a \in Addr
  BY DEF Busy
<1>3. idle \subseteq S /\ Failed \subseteq idle
  OBVIOUS
<1>4. \A a \in S : /\ Head(q[a]) \in Message /\ Tail(q[a]) \in Seq(Message)
                   /\ session[a] \in Peer /\ AddressOf(session[a]) = a
  <2> SUFFICES ASSUME NEW a \in S
               PROVE  /\ Head(q[a]) \in Message /\ Tail(q[a]) \in Seq(Message)
                      /\ session[a] \in Peer /\ AddressOf(session[a]) = a
    OBVIOUS
  <2>1. q[a] \in Seq(Message) /\ q[a] # <<>>
    BY <1>2
  <2>2. session[a] \in Peer
    BY <1>2 DEF IocpTypeOK
  <2>3. AddressOf(session[a]) = a
    BY <1>2, Address DEF Owners
  <2> QED
    BY <2>1, <2>2, <2>3, Shortened
<1> HIDE DEF idle
<1>5. m_sendQueue' \in [Addr -> Seq(Message)]
  <2>1. \A a \in Addr : (IF a \in Failed THEN Tail(q[a]) ELSE q[a]) \in Seq(Message)
    BY <1>3, <1>4
  <2> QED
    BY <1>1, <2>1
<1>6. m_sendInFlight' \in [Addr -> BOOLEAN]
  <2>1. \A a \in Addr : (a \notin Failed /\ (busy[a] \/ a \in idle)) \in BOOLEAN
    OBVIOUS
  <2> QED
    BY <1>1, <2>1
<1>7. sendOps' \in [Peer -> Seq(Message)]
  <2>1. ASSUME NEW p \in Peer, NEW a \in idle \ Failed, session[a] = p
        PROVE  Append(sendOps[p], Head(q[AddressOf(p)])) \in Seq(Message)
    <3>1. Head(q[AddressOf(p)]) \in Message /\ sendOps[p] \in Seq(Message)
      BY <1>3, <1>4, <2>1 DEF IocpTypeOK
    <3> QED
      BY <3>1, Appended
  <2>2. \A p \in Peer : sendOps[p] \in Seq(Message)
    BY DEF IocpTypeOK
  <2>3. \A p \in Peer : (IF \E a \in idle \ Failed : session[a] = p
                         THEN Append(sendOps[p], Head(q[AddressOf(p)])) ELSE sendOps[p]) \in Seq(Message)
    BY <2>1, <2>2
  <2> QED
    BY <1>1, <2>3
<1>8. \A a \in Addr \ S : m_sendQueue'[a] = q[a] /\ m_sendInFlight'[a] = busy[a]
  BY <1>1, <1>3
<1>9. ASSUME NEW a \in S
      PROVE  Begun(q[a], busy[a], sendOps[session[a]], peer[session[a]],
                   m_sendQueue'[a], m_sendInFlight'[a], sendOps'[session[a]])
  <2> DEFINE p == session[a]
  <2>1. p \in Peer /\ AddressOf(p) = a /\ a \in Addr
    BY <1>2, <1>4
  <2>2. \A b \in S : session[b] = p => b = a
    BY <1>2, <2>1 DEF Owners
  <2>3. m_sendQueue'[a] = IF a \in Failed THEN Tail(q[a]) ELSE q[a]
    BY <1>1, <2>1
  <2>4. m_sendInFlight'[a] = (a \notin Failed /\ (busy[a] \/ a \in idle))
    BY <1>1, <2>1
  <2>5. sendOps'[p] = IF a \in idle \ Failed THEN Append(sendOps[p], Head(q[a])) ELSE sendOps[p]
    BY <1>1, <1>3, <2>1, <2>2
  <2>6. CASE a \in Failed
    <3>1. ~busy[a] /\ peer[p] = "reset" /\ a \in idle
      BY <1>2, <1>3, <2>6
    <3> QED
      BY <2>3, <2>4, <2>5, <2>6, <3>1 DEF Begun
  <2>7. CASE a \notin Failed /\ a \in idle
    BY <1>2, <2>3, <2>4, <2>5, <2>7 DEF Begun
  <2>8. CASE a \notin idle
    BY <1>2, <1>3, <2>3, <2>4, <2>5, <2>8 DEF Begun
  <2> QED
    BY <2>6, <2>7, <2>8
<1>10. ASSUME NEW p \in Peer, \A a \in S : session[a] # p PROVE sendOps'[p] = sendOps[p]
  BY <1>1, <1>3, <1>10
<1> QED
  BY <1>5, <1>6, <1>7, <1>8, <1>9, <1>10 DEF Started

-----------------------------------------------------------------------------
(* What a client has got. *)

LEMMA PrefixFacts ==
    ASSUME NEW S, NEW s \in Seq(S), NEW t \in Seq(S)
    PROVE  IsPrefix(s, t) <=> Len(s) <= Len(t) /\ \A i \in 1..Len(s) : s[i] = t[i]
<1> DEFINE u == SubSeq(s, 1, Len(s))
           v == SubSeq(t, 1, Len(s))
<1>1. Len(s) \in Nat /\ Len(t) \in Nat
  BY LenProperties
<1>2. u \in Seq(S) /\ Len(u) = Len(s) /\ \A i \in 1..Len(s) : u[i] = s[i]
  BY <1>1
<1>3. ASSUME Len(s) <= Len(t)
      PROVE  v \in Seq(S) /\ Len(v) = Len(s) /\ \A i \in 1..Len(s) : v[i] = t[i]
  BY <1>1, <1>3
<1> HIDE DEF u, v
<1>4. ASSUME Len(s) <= Len(t), u = v PROVE \A i \in 1..Len(s) : s[i] = t[i]
  BY <1>2, <1>3, <1>4
<1>5. ASSUME Len(s) <= Len(t), \A i \in 1..Len(s) : s[i] = t[i] PROVE u = v
  BY <1>2, <1>3, <1>5, SeqEqual
<1>6. IsPrefix(s, t) <=> Len(s) <= Len(t) /\ u = v
  BY DEF IsPrefix, u, v
<1> QED
  BY <1>4, <1>5, <1>6

LEMMA PrefixGrows ==
    ASSUME NEW S, NEW s \in Seq(S), NEW t \in Seq(S), NEW m \in S, IsPrefix(s, t)
    PROVE  IsPrefix(s, Append(t, m))
<1> DEFINE u == Append(t, m)
<1>1. u \in Seq(S) /\ Len(u) = Len(t) + 1 /\ \A i \in 1..Len(t) : u[i] = t[i]
  BY Appended
<1>2. Len(s) <= Len(t) /\ \A i \in 1..Len(s) : s[i] = t[i]
  BY PrefixFacts
<1>3. Len(s) \in Nat /\ Len(t) \in Nat
  BY LenProperties
<1> HIDE DEF u
<1>4. Len(s) <= Len(u) /\ \A i \in 1..Len(s) : i \in 1..Len(t)
  BY <1>1, <1>2, <1>3
<1>5. \A i \in 1..Len(s) : s[i] = u[i]
  BY <1>1, <1>2, <1>4
<1>6. IsPrefix(s, u)
  BY <1>1, <1>4, <1>5, PrefixFacts
<1> QED
  BY <1>6 DEF u

\* A message that the client has not got is the next.
LEMMA NextIsNew ==
    ASSUME NEW S, NEW f \in Seq(S), NEW w \in Seq(S), NEW t \in Seq(S), w # <<>>,
           IsPrefix(f, t), NoDup(t), Ordered(f \o w, t), Head(w) \notin ToSet(f)
    PROVE  IsPrefix(Append(f, Head(w)), t)
<1> DEFINE n == Len(f)
           x == Head(w)
           s == f \o w
           g == Append(f, x)
<1>1. x \in S /\ x = w[1] /\ Len(w) \in Nat \ {0}
  BY Shortened
<1>2. n \in Nat /\ Len(t) \in Nat
  BY LenProperties
<1>3. /\ Len(s) = n + Len(w) /\ \A i \in 1..n : s[i] = f[i]
      /\ \A i \in 1..Len(w) : s[n + i] = w[i]
  BY Joined
<1>4. /\ g \in Seq(S) /\ Len(g) = n + 1 /\ g[n + 1] = x /\ \A i \in 1..n : g[i] = f[i]
  BY <1>1, Appended
<1>5. n <= Len(t) /\ \A i \in 1..n : f[i] = t[i]
  BY PrefixFacts
<1>6. \A i \in 1..n : f[i] # x
  BY InToSet
<1>7. Ordered(s, t)
  OBVIOUS
<1> HIDE DEF n, x, s, g
<1>8. n + 1 \in 1..Len(s) /\ s[n + 1] = x
  BY <1>1, <1>2, <1>3
<1>9. PICK k \in 1..Len(t) : /\ x = t[k]
                             /\ \A l \in 1..(k - 1) : \E j \in 1..((n + 1) - 1) : s[j] = t[l]
  BY <1>7, <1>8 DEF Ordered
<1>10. k > n
  <2> SUFFICES ASSUME ~(k > n) PROVE FALSE
    OBVIOUS
  <2>1. k \in 1..n
    BY <1>2, <1>9
  <2> QED
    BY <1>5, <1>6, <1>9, <2>1
<1>11. ~(k > n + 1)
  <2> SUFFICES ASSUME k > n + 1 PROVE FALSE
    OBVIOUS
  <2>1. n + 1 \in 1..(k - 1) /\ n + 1 \in 1..Len(t) /\ (n + 1) - 1 = n
    BY <1>2, <1>9
  <2>2. PICK j \in 1..n : s[j] = t[n + 1]
    BY <1>9, <2>1
  <2>3. s[j] = t[j] /\ j \in 1..Len(t) /\ j # n + 1
    BY <1>2, <1>3, <1>5, <2>2
  <2> QED
    BY <2>1, <2>2, <2>3 DEF NoDup
<1>12. k = n + 1
  BY <1>2, <1>9, <1>10, <1>11
<1>13. n + 1 <= Len(t) /\ t[n + 1] = x
  BY <1>9, <1>12
<1>14. ASSUME NEW i \in 1..(n + 1) PROVE g[i] = t[i]
  <2>1. i \in 1..n \/ i = n + 1
    BY <1>2
  <2> QED
    BY <1>4, <1>5, <1>13, <2>1
<1>15. IsPrefix(g, t)
  BY <1>4, <1>13, <1>14, PrefixFacts
<1> QED
  BY <1>15 DEF g, x

LEMMA HeadOver ==
    ASSUME NEW S, NEW f \in Seq(S), NEW w \in Seq(S), w # <<>>
    PROVE  Append(f, Head(w)) \o Tail(w) = f \o w
<1> DEFINE x == Head(w)
<1>1. x \in S /\ Tail(w) \in Seq(S) /\ w = <<x>> \o Tail(w) /\ <<x>> \in Seq(S)
  BY Shortened, HeadTailProperties
<1> HIDE DEF x
<1>2. Append(f, x) = f \o <<x>>
  BY <1>1, AppendIsConcat
<1>3. (f \o <<x>>) \o Tail(w) = f \o (<<x>> \o Tail(w))
  BY <1>1, ConcatAssociative
<1> QED
  BY <1>1, <1>2, <1>3 DEF x

LEMMA HeadAgain ==
    ASSUME NEW S, NEW f \in Seq(S), NEW w \in Seq(S), w # <<>>, Head(w) \in ToSet(f)
    PROVE  Again(f \o Tail(w), f \o w, Len(f))
<1> DEFINE s == f \o Tail(w)
           r == f \o w
<1>1. /\ Tail(w) \in Seq(S) /\ Len(w) \in Nat \ {0} /\ Head(w) = w[1]
      /\ Len(Tail(w)) = Len(w) - 1 /\ \A i \in 1..Len(Tail(w)) : Tail(w)[i] = w[i + 1]
  BY Shortened
<1>2. /\ s \in Seq(S) /\ r \in Seq(S) /\ Len(f) \in Nat
      /\ Len(s) = Len(f) + Len(Tail(w)) /\ Len(r) = Len(f) + Len(w)
      /\ \A i \in 1..Len(f) : s[i] = f[i]
      /\ \A i \in 1..Len(Tail(w)) : s[Len(f) + i] = Tail(w)[i]
      /\ \A i \in 1..Len(f) : r[i] = f[i]
      /\ \A i \in 1..Len(w) : r[Len(f) + i] = w[i]
  BY <1>1, Joined
<1>3. PICK j \in 1..Len(f) : f[j] = Head(w)
  BY InToSet
<1> HIDE DEF s, r
<1>4. Len(s) \in Nat /\ Len(f) \in 0..Len(s) /\ Len(r) = Len(s) + 1
  BY <1>1, <1>2
<1>5. \A i \in 1..Len(f) : r[i] = s[i]
  BY <1>2
<1>6. ASSUME NEW i \in (Len(f) + 1)..Len(s) PROVE r[i + 1] = s[i]
  <2> DEFINE k == i - Len(f)
  <2>1. k \in 1..Len(Tail(w)) /\ k + 1 \in 1..Len(w) /\ i = Len(f) + k /\ i + 1 = Len(f) + (k + 1)
    BY <1>1, <1>2
  <2> HIDE DEF k
  <2>2. s[Len(f) + k] = Tail(w)[k] /\ r[Len(f) + (k + 1)] = w[k + 1] /\ Tail(w)[k] = w[k + 1]
    BY <1>1, <1>2, <2>1
  <2> QED
    BY <2>1, <2>2
<1>7. s[j] = r[Len(f) + 1]
  <2>1. 1 \in 1..Len(w)
    BY <1>1
  <2> QED
    BY <1>1, <1>2, <1>3, <2>1
<1>8. Again(s, r, Len(f))
  BY <1>4, <1>5, <1>6, <1>7 DEF Again
<1> QED
  BY <1>8 DEF s, r

-----------------------------------------------------------------------------
(* Sends and streams: steps of several actions. *)

LEMMA OneInFlightIs == ASSUME IocpTypeOK PROVE OneInFlight <=> (~astray => Flights)
<1>1. \A a \in Addr :
         Cardinality({i \in DOMAIN port : port[i].kind = "Send" /\ port[i].key = a /\ port[i].of = session[a]})
             = Count(port, SendOf(a, session[a]))
  BY SendsCounted DEF IocpTypeOK
<1> QED
  BY <1>1 DEF OneInFlight, Flights, Flight

SendsKept ==
    \A a \in Addr : session[a] # NoPeer =>
        Count(port', SendOf(a, session[a])) = Count(port, SendOf(a, session[a]))

LEMMA Quiet ==
    ASSUME Flights, Streams, SendsKept,
           UNCHANGED <<session, m_sendQueue, m_sendInFlight, sendOps, first, toPeer, posted>>,
           \A p \in Peer : peer[p] = "reset" => peer'[p] = "reset"
    PROVE  Flights' /\ Streams'
<1>1. Flights'
  BY DEF Flights, SendsKept
<1>2. Streams'
  BY DEF Streams, Way
<1> QED
  BY <1>1, <1>2

\* BroadcastMsg(c), with m for its message.
Spread(k, m) ==
    /\ m_sendQueue' \in [Addr -> Seq(Message)]
    /\ m_sendInFlight' \in [Addr -> BOOLEAN]
    /\ sendOps' \in [Peer -> Seq(Message)]
    /\ posted' \in [Peer -> Seq(Message)]
    /\ \A a \in Addr : session[a] = NoPeer \/ a = k =>
           m_sendQueue'[a] = m_sendQueue[a] /\ m_sendInFlight'[a] = m_sendInFlight[a]
    /\ \A a \in Addr : session[a] # NoPeer /\ a # k =>
           /\ Begun(Append(m_sendQueue[a], m), m_sendInFlight[a], sendOps[session[a]],
                    peer[session[a]], m_sendQueue'[a], m_sendInFlight'[a],
                    sendOps'[session[a]])
           /\ posted'[session[a]] = Append(posted[session[a]], m)
    /\ \A p \in Peer : (\A a \in Addr : session[a] = p => a = k) =>
           sendOps'[p] = sendOps[p] /\ posted'[p] = posted[p]

LEMMA BroadcastSpreads ==
    ASSUME NEW c, <<c.of, c.count>> \in Message, IocpTypeOK, Owners, BroadcastMsg(c)
    PROVE  Spread(c.key, <<c.of, c.count>>)
<1> DEFINE m == <<c.of, c.count>>
           S == {a \in Addr : session[a] # NoPeer /\ a # c.key}
           q == [a \in Addr |-> IF a \in S THEN Push(m_sendQueue[a], m) ELSE m_sendQueue[a]]
<1>1. /\ StartSends(S, q, m_sendInFlight)
      /\ posted' = [p \in Peer |-> IF \E a \in S : session[a] = p
                                   THEN Append(posted[p], m) ELSE posted[p]]
  BY DEF BroadcastMsg
<1>2. S \in SUBSET Addr /\ m \in Message /\ \A a \in S : session[a] \in Peer
  BY DEF IocpTypeOK
<1>3. \A a \in Addr : a \in S <=> session[a] # NoPeer /\ a # c.key
  OBVIOUS
<1> HIDE DEF S, m
<1>4. ASSUME NEW a \in Addr PROVE Append(m_sendQueue[a], m) \in Seq(Message) /\ Append(m_sendQueue[a], m) # <<>>
  <2>1. m_sendQueue[a] \in Seq(Message)
    BY DEF IocpTypeOK
  <2> QED
    BY <1>2, <2>1, Appended
<1>5. /\ \A a \in Addr : q[a] = IF a \in S THEN Append(m_sendQueue[a], m) ELSE m_sendQueue[a]
      /\ q \in [Addr -> Seq(Message)]
  BY <1>4 DEF Push, IocpTypeOK
<1> HIDE DEF q
<1>6. Started(S, q, m_sendInFlight)
  <2>1. \A a \in S : session[a] # NoPeer /\ q[a] # <<>>
    BY <1>2, <1>3, <1>4, <1>5
  <2>2. m_sendInFlight \in [Addr -> BOOLEAN]
    BY DEF IocpTypeOK
  <2> QED
    BY <1>1, <1>2, <1>5, <2>1, <2>2, Starting
<1>7. posted' \in [Peer -> Seq(Message)]
  <2>1. ASSUME NEW p \in Peer PROVE Append(posted[p], m) \in Seq(Message) /\ posted[p] \in Seq(Message)
    <3>1. posted[p] \in Seq(Message)
      BY DEF IocpTypeOK
    <3> QED
      BY <1>2, <3>1, Appended
  <2> QED
    BY <1>1, <2>1
<1>8. \A a \in Addr : session[a] = NoPeer \/ a = c.key =>
          m_sendQueue'[a] = m_sendQueue[a] /\ m_sendInFlight'[a] = m_sendInFlight[a]
  BY <1>3, <1>5, <1>6 DEF Started
<1>9. ASSUME NEW a \in Addr, session[a] # NoPeer /\ a # c.key
      PROVE  /\ Begun(Append(m_sendQueue[a], m), m_sendInFlight[a], sendOps[session[a]],
                      peer[session[a]], m_sendQueue'[a], m_sendInFlight'[a],
                      sendOps'[session[a]])
             /\ posted'[session[a]] = Append(posted[session[a]], m)
  <2>1. a \in S /\ q[a] = Append(m_sendQueue[a], m) /\ session[a] \in Peer
    BY <1>2, <1>3, <1>5, <1>9
  <2> QED
    BY <1>1, <1>6, <2>1 DEF Started
<1>10. ASSUME NEW p \in Peer, \A a \in Addr : session[a] = p => a = c.key
       PROVE  sendOps'[p] = sendOps[p] /\ posted'[p] = posted[p]
  <2>1. \A a \in S : session[a] # p
    BY <1>2, <1>3, <1>10
  <2> QED
    BY <1>1, <1>6, <2>1 DEF Started
<1> QED
  BY <1>6, <1>7, <1>8, <1>9, <1>10 DEF Started, Spread, m

LEMMA SpreadFlows ==
    ASSUME NEW k, NEW m \in Message, Spread(k, m), IocpTypeOK, Owners, Flights, Streams, SendsKept,
           UNCHANGED <<session, first, toPeer, peer>>
    PROVE  Flights' /\ Streams'
<1> DEFINE N(a) == Count(port, SendOf(a, session[a]))
<1>0. \A p \in Peer : /\ first[p] \in Seq(Message) /\ toPeer[p] \in Seq(Message)
                      /\ posted[p] \in Seq(Message) /\ sendOps[p] \in Seq(Message)
                      /\ Way(p) \in Seq(Message)
  <2> SUFFICES ASSUME NEW p \in Peer
               PROVE  /\ first[p] \in Seq(Message) /\ toPeer[p] \in Seq(Message)
                      /\ posted[p] \in Seq(Message) /\ sendOps[p] \in Seq(Message)
                      /\ Way(p) \in Seq(Message)
    OBVIOUS
  <2>1. /\ first[p] \in Seq(Message) /\ toPeer[p] \in Seq(Message)
        /\ posted[p] \in Seq(Message) /\ sendOps[p] \in Seq(Message)
    BY DEF IocpTypeOK
  <2> QED
    BY <2>1, Joined DEF Way
<1>1. ASSUME NEW a \in Addr, session[a] # NoPeer
      PROVE  /\ session[a] \in Peer /\ N(a) \in Nat
             /\ m_sendQueue[a] \in Seq(Message) /\ m_sendInFlight[a] \in BOOLEAN
             /\ Flight(N(a), sendOps[session[a]], m_sendInFlight[a], m_sendQueue[a])
             /\ Count(port', SendOf(a, session[a])) = N(a)
  BY <1>1, NumberType DEF IocpTypeOK, Flights, SendsKept
\* A session that gets the message.
<1>2. ASSUME NEW a \in Addr, session[a] # NoPeer, a # k
      PROVE  LET p == session[a] IN
             /\ Flight(N(a), sendOps'[p], m_sendInFlight'[a], m_sendQueue'[a])
             /\ posted'[p] = Append(posted[p], m)
             /\ peer[p] # "reset" =>
                    (Flow(Way(p), m_sendQueue[a], m_sendInFlight[a], sendOps[p], posted[p]) =>
                     Flow(Way(p), m_sendQueue'[a], m_sendInFlight'[a], sendOps'[p], posted'[p]))
  <2> DEFINE p == session[a]
             r == Append(m_sendQueue[a], m)
  <2>1. /\ p \in Peer /\ N(a) \in Nat
        /\ m_sendQueue[a] \in Seq(Message) /\ m_sendInFlight[a] \in BOOLEAN
        /\ Flight(N(a), sendOps[p], m_sendInFlight[a], m_sendQueue[a])
    BY <1>1, <1>2
  <2>2. /\ sendOps[p] \in Seq(Message) /\ posted[p] \in Seq(Message) /\ Way(p) \in Seq(Message)
    BY <1>0, <2>1
  <2>3. r \in Seq(Message) /\ r # <<>>
    BY <2>1, Appended
  <2>4. /\ Begun(r, m_sendInFlight[a], sendOps[p], peer[p],
                 m_sendQueue'[a], m_sendInFlight'[a], sendOps'[p])
        /\ posted'[p] = Append(posted[p], m)
        /\ m_sendInFlight'[a] \in BOOLEAN
    BY <1>2 DEF Spread
  <2> HIDE DEF N, p
  <2>5. /\ Flight(N(a), sendOps[p], m_sendInFlight[a], r)
        /\ Flow(Way(p), m_sendQueue[a], m_sendInFlight[a], sendOps[p], posted[p]) =>
               Flow(Way(p), r, m_sendInFlight[a], sendOps[p], Append(posted[p], m))
    BY <2>1, <2>2, Posted
  <2> HIDE DEF r
  <2>6. /\ Flight(N(a), sendOps'[p], m_sendInFlight'[a], m_sendQueue'[a])
        /\ peer[p] # "reset" =>
               (Flow(Way(p), r, m_sendInFlight[a], sendOps[p], posted'[p]) =>
                Flow(Way(p), m_sendQueue'[a], m_sendInFlight'[a], sendOps'[p], posted'[p]))
    <3> DEFINE w == Way(p)
               n == N(a)
               st == peer[p]
               f == m_sendInFlight[a]
               ops == sendOps[p]
               t == posted'[p]
               newQ == m_sendQueue'[a]
               newF == m_sendInFlight'[a]
               newOps == sendOps'[p]
    <3>1. /\ w \in Seq(Message) /\ ops \in Seq(Message) /\ n \in Nat
          /\ f \in BOOLEAN /\ newF \in BOOLEAN /\ r \in Seq(Message) /\ r # <<>>
      BY <2>1, <2>2, <2>3, <2>4
    <3>2. Flight(n, ops, f, r) /\ Begun(r, f, ops, st, newQ, newF, newOps)
      BY <2>4, <2>5
    <3> HIDE DEF w, n, st, f, ops, t, newQ, newF, newOps
    <3>3. /\ Flight(n, newOps, newF, newQ)
          /\ st # "reset" /\ Flow(w, r, f, ops, t) => Flow(w, newQ, newF, newOps, t)
      BY ONLY <3>1, <3>2, Beginning
    <3> QED
      BY <3>3 DEF w, n, st, f, ops, t, newQ, newF, newOps
  <2> QED
    BY <2>4, <2>5, <2>6 DEF p
\* The others.
<1>3. ASSUME NEW p \in Peer, \A a \in Addr : session[a] = p => a = k
      PROVE  /\ sendOps'[p] = sendOps[p] /\ posted'[p] = posted[p]
             /\ \A a \in Addr : session[a] = p =>
                    m_sendQueue'[a] = m_sendQueue[a] /\ m_sendInFlight'[a] = m_sendInFlight[a]
  BY <1>3 DEF Spread
<1>4. \A a, b \in Addr : session[a] = session[b] /\ session[a] # NoPeer => a = b
  BY DEF Owners
<1>5. ASSUME NEW a \in Addr, session[a] # NoPeer
      PROVE  Flight(N(a), sendOps'[session[a]], m_sendInFlight'[a], m_sendQueue'[a])
  <2>1. CASE a # k
    BY <1>2, <1>5, <2>1
  <2>2. CASE a = k
    <3>1. session[a] \in Peer /\ \A b \in Addr : session[b] = session[a] => b = k
      BY <1>1, <1>4, <1>5, <2>2
    <3> QED
      BY <1>1, <1>3, <1>5, <3>1
  <2> QED
    BY <2>1, <2>2
<1>6. Flights'
  BY <1>1, <1>5 DEF Flights
<1>7. ASSUME NEW p \in Peer
      PROVE  /\ IsPrefix(first[p], posted'[p])
             /\ peer[p] # "reset" => Ordered(Way(p), posted'[p])
             /\ peer[p] # "reset" =>
                    \A a \in Addr : session[a] = p =>
                        Flow(Way(p), m_sendQueue'[a], m_sendInFlight'[a], sendOps'[p], posted'[p])
  <2>1. /\ IsPrefix(first[p], posted[p])
        /\ peer[p] # "reset" => Ordered(Way(p), posted[p])
        /\ peer[p] # "reset" =>
               \A a \in Addr : session[a] = p =>
                   Flow(Way(p), m_sendQueue[a], m_sendInFlight[a], sendOps[p], posted[p])
    BY DEF Streams
  <2>2. CASE \A a \in Addr : session[a] = p => a = k
    BY <1>3, <2>1, <2>2
  <2>3. CASE \E a \in Addr : session[a] = p /\ a # k
    <3>1. PICK a \in Addr : session[a] = p /\ a # k
      BY <2>3
    <3>2. p # NoPeer
      BY IocpAssumption
    <3>3. /\ posted'[p] = Append(posted[p], m)
          /\ peer[p] # "reset" =>
                 (Flow(Way(p), m_sendQueue[a], m_sendInFlight[a], sendOps[p], posted[p]) =>
                  Flow(Way(p), m_sendQueue'[a], m_sendInFlight'[a], sendOps'[p], posted'[p]))
      BY <1>2, <3>1, <3>2
    <3>4. \A b \in Addr : session[b] = p => b = a
      BY <1>4, <3>1, <3>2
    <3>5. IsPrefix(first[p], posted'[p])
      BY <1>0, <2>1, <3>3, PrefixGrows
    <3>6. peer[p] # "reset" => Ordered(Way(p), posted'[p])
      BY <1>0, <2>1, <3>3, OrderedGrows
    <3>7. peer[p] # "reset" =>
              Flow(Way(p), m_sendQueue'[a], m_sendInFlight'[a], sendOps'[p], posted'[p])
      BY <2>1, <3>1, <3>3
    <3> QED
      BY <3>4, <3>5, <3>6, <3>7
  <2> QED
    BY <2>2, <2>3
<1>8. Streams'
  BY <1>7 DEF Streams, Way
<1> QED
  BY <1>6, <1>8

-----------------------------------------------------------------------------
(* The clients. *)

LEMMA ConnectKeeps == ASSUME IocpIInv, NEW p \in Peer, Connect(p) PROVE IocpIInv'
<1> USE DEF Connect, peerVars, opVars, sessVars
<1>1. IocpTypeOK'
  BY DEF IocpIInv, Shape, IocpTypeOK
<1>2. Owners'
  BY DEF IocpIInv, Shape, Owners
<1>3. OnePlace'
  BY DEF IocpIInv, Shape, OnePlace, Waiting, Untouched, HasSession, IocpTypeOK
<1>4. Fresh' /\ \A q \in Peer : NoDup(posted'[q])
  BY DEF IocpIInv, Shape, Fresh
<1>5. ASSUME ~astray PROVE Flights' /\ Streams'
  <2>1. SendsKept /\ \A q \in Peer : peer[q] = "reset" => peer'[q] = "reset"
    BY DEF SendsKept, IocpIInv, Shape, IocpTypeOK
  <2> QED
    BY <1>5, <2>1, Quiet DEF IocpIInv
<1> QED
  BY <1>1, <1>2, <1>3, <1>4, <1>5 DEF IocpIInv, Shape

LEMMA TalkKeeps == ASSUME IocpIInv, NEW p \in Peer, Talk(p) PROVE IocpIInv'
<1> USE DEF Talk, opVars, sessVars
<1>0. MaxMsgs \in Nat
  BY IocpAssumption
<1>1. IocpTypeOK'
  <2>1. said' \in [Peer -> 0..MaxMsgs] /\ \A q \in Peer : rcvd[q] <= said'[q]
    BY <1>0 DEF IocpIInv, Shape, IocpTypeOK
  <2> QED
    BY <2>1 DEF IocpIInv, Shape, IocpTypeOK
<1>2. Owners'
  BY DEF IocpIInv, Shape, Owners
<1>3. OnePlace'
  BY DEF IocpIInv, Shape, OnePlace, Waiting, Untouched, HasSession
<1>4. Fresh' /\ \A q \in Peer : NoDup(posted'[q])
  BY DEF IocpIInv, Shape, Fresh, IocpTypeOK
<1>5. ASSUME ~astray PROVE Flights' /\ Streams'
  BY <1>5, Quiet DEF IocpIInv, SendsKept
<1> QED
  BY <1>1, <1>2, <1>3, <1>4, <1>5 DEF IocpIInv, Shape

LEMMA HangUpKeeps == ASSUME IocpIInv, NEW p \in Peer, HangUp(p) PROVE IocpIInv'
<1> USE DEF HangUp, opVars, sessVars
<1>0. /\ \A q \in Peer : peer'[q] = "idle" <=> peer[q] = "idle"
      /\ \A q \in Peer : peer[q] = "reset" => peer'[q] = "reset"
      /\ peer' \in [Peer -> {"idle", "open", "shut", "reset"}]
  BY DEF IocpIInv, Shape, IocpTypeOK
<1>1. IocpTypeOK'
  BY <1>0 DEF IocpIInv, Shape, IocpTypeOK
<1>2. Owners'
  BY DEF IocpIInv, Shape, Owners
<1>3. OnePlace'
  BY <1>0 DEF IocpIInv, Shape, OnePlace, Waiting, Untouched, HasSession
<1>4. Fresh' /\ \A q \in Peer : NoDup(posted'[q])
  BY DEF IocpIInv, Shape, Fresh
<1>5. ASSUME ~astray PROVE Flights' /\ Streams'
  BY <1>0, <1>5, Quiet DEF IocpIInv, SendsKept
<1> QED
  BY <1>1, <1>2, <1>3, <1>4, <1>5 DEF IocpIInv, Shape

LEMMA ListenKeeps == ASSUME IocpIInv, NEW p \in Peer, Listen(p) PROVE IocpIInv'
<1> DEFINE f == first[p]
           w == toPeer[p]
           t == posted[p]
<1>0. /\ f \in Seq(Message) /\ w \in Seq(Message) /\ t \in Seq(Message) /\ w # <<>>
      /\ first' = [first EXCEPT ![p] = IF Contains(f, Head(w)) THEN f ELSE Append(f, Head(w))]
      /\ toPeer' = [toPeer EXCEPT ![p] = Tail(w)]
      /\ first \in [Peer -> Seq(Message)] /\ toPeer \in [Peer -> Seq(Message)] /\ NoDup(t)
      /\ UNCHANGED <<peer, backlog, said, rcvd, opVars, sessVars, astray, crashed>>
      /\ peer[p] # "reset"
  <2>1. /\ f \in Seq(Message) /\ w \in Seq(Message) /\ t \in Seq(Message) /\ NoDup(t)
        /\ first \in [Peer -> Seq(Message)] /\ toPeer \in [Peer -> Seq(Message)]
    BY DEF IocpIInv, Shape, IocpTypeOK
  <2>2. /\ w # <<>> /\ toPeer' = [toPeer EXCEPT ![p] = Tail(w)] /\ peer[p] # "reset"
        /\ UNCHANGED <<peer, backlog, said, rcvd, opVars, sessVars, astray, crashed>>
    BY DEF Listen
  <2>3. first' = [first EXCEPT ![p] = IF Contains(f, Head(w)) THEN f ELSE Append(f, Head(w))]
    BY DEF Listen
  <2> QED
    BY <2>1, <2>2, <2>3
<1> USE DEF opVars, sessVars
<1>00. Contains(f, Head(w)) <=> Head(w) \in ToSet(f)
  BY <1>0, InToSet DEF Contains
<1>1. /\ Head(w) \in Message /\ Tail(w) \in Seq(Message) /\ Len(Tail(w)) <= SndBuf
      /\ Append(f, Head(w)) \in Seq(Message)
  <2>1. Head(w) \in Message /\ Tail(w) \in Seq(Message) /\ Len(Tail(w)) = Len(w) - 1 /\ Len(w) \in Nat
    BY <1>0, Shortened
  <2>2. Len(w) <= SndBuf /\ SndBuf \in Nat
    BY IocpAssumption DEF IocpIInv, Shape, IocpTypeOK
  <2> QED
    BY <1>0, <2>1, <2>2, Appended
<1>2. /\ toPeer'[p] = Tail(w) /\ \A q \in Peer : q # p => toPeer'[q] = toPeer[q] /\ first'[q] = first[q]
      /\ Head(w) \in ToSet(f) => first'[p] = f
      /\ Head(w) \notin ToSet(f) => first'[p] = Append(f, Head(w))
  BY <1>0, <1>00 DEF IocpIInv, Shape, IocpTypeOK
<1>3. first' \in [Peer -> Seq(Message)]
  BY <1>0, <1>1
<1> HIDE DEF f, w, t
<1>4. IocpTypeOK'
  <2>1. toPeer' \in [Peer -> Seq(Message)] /\ \A q \in Peer : Len(toPeer'[q]) <= SndBuf
    <3>1. toPeer' \in [Peer -> Seq(Message)]
      BY <1>0, <1>1
    <3> QED
      BY <1>1, <1>2, <3>1 DEF IocpIInv, Shape, IocpTypeOK
  <2> QED
    BY <1>0, <1>3, <2>1 DEF IocpIInv, Shape, IocpTypeOK
<1>5. Owners'
  BY <1>0 DEF IocpIInv, Shape, Owners
<1>6. OnePlace'
  BY <1>0, <1>2 DEF IocpIInv, Shape, OnePlace, Waiting, Untouched, HasSession, w
<1>7. Fresh' /\ \A q \in Peer : NoDup(posted'[q])
  BY <1>0 DEF IocpIInv, Shape, Fresh
<1>8. ASSUME ~astray PROVE Flights' /\ Streams'
  <2> DEFINE v == first'[p] \o toPeer'[p]
             u == f \o w
             Flows(x) == \A a \in Addr : session[a] = p =>
                             Flow(x, m_sendQueue[a], m_sendInFlight[a], sendOps[p], t)
  <2>1. IsPrefix(f, t) /\ Ordered(u, t) /\ Flows(u)
    BY <1>0, <1>8 DEF IocpIInv, Streams, Way, f, w, t
  <2>2. IsPrefix(first'[p], t) /\ Ordered(v, t) /\ Flows(v)
    <3>1. CASE Head(w) \in ToSet(f)
      <4>1. first'[p] = f /\ v = f \o Tail(w)
        BY <1>2, <3>1
      <4>2. v \in Seq(Message) /\ u \in Seq(Message) /\ Again(v, u, Len(f))
        BY <1>0, <1>1, <3>1, <4>1, HeadAgain, Joined
      <4> HIDE DEF u, v
      <4>3. Ordered(v, t)
        BY <2>1, <4>2, AgainOrdered
      <4>4. ASSUME NEW a \in Addr, session[a] = p
            PROVE  Flow(v, m_sendQueue[a], m_sendInFlight[a], sendOps[p], t)
        <5>1. m_sendQueue[a] \in Seq(Message) /\ m_sendInFlight[a] \in BOOLEAN
          BY DEF IocpIInv, Shape, IocpTypeOK
        <5>2. Flow(u, m_sendQueue[a], m_sendInFlight[a], sendOps[p], t)
          BY <2>1, <4>4
        <5> QED
          BY <4>2, <5>1, <5>2, Dropped
      <4> QED
        BY <2>1, <4>1, <4>3, <4>4
    <3>2. CASE Head(w) \notin ToSet(f)
      <4>1. first'[p] = Append(f, Head(w)) /\ v = Append(f, Head(w)) \o Tail(w)
        BY <1>2, <3>2
      <4>2. v = u
        BY <1>0, <4>1, HeadOver
      <4>3. IsPrefix(first'[p], t)
        BY <1>0, <2>1, <3>2, <4>1, NextIsNew
      <4> QED
        BY <2>1, <4>2, <4>3
    <3> QED
      BY <3>1, <3>2
  <2>3. ASSUME NEW q \in Peer
        PROVE  /\ IsPrefix(first'[q], posted[q])
               /\ peer[q] # "reset" => Ordered(first'[q] \o toPeer'[q], posted[q])
               /\ peer[q] # "reset" =>
                      \A a \in Addr : session[a] = q =>
                          Flow(first'[q] \o toPeer'[q], m_sendQueue[a], m_sendInFlight[a], sendOps[q],
                               posted[q])
    <3>1. CASE q = p
      BY <2>2, <3>1 DEF t
    <3>2. CASE q # p
      <4>1. first'[q] = first[q] /\ toPeer'[q] = toPeer[q]
        BY <1>2, <3>2
      <4> QED
        BY <1>8, <4>1 DEF IocpIInv, Streams, Way
    <3> QED
      BY <3>1, <3>2
  <2>4. Streams'
    BY <1>0, <2>3 DEF Streams, Way
  <2>5. Flights'
    BY <1>0, <1>8 DEF IocpIInv, Flights
  <2> QED
    BY <2>4, <2>5
<1> QED
  BY <1>0, <1>4, <1>5, <1>6, <1>7, <1>8 DEF IocpIInv, Shape

-----------------------------------------------------------------------------
(* The kernel. *)

LEMMA PortFacts ==
    ASSUME IocpTypeOK
    PROVE  /\ port \in Seq(Completion) /\ accepts \in Nat /\ Count(port, Accepts) \in Nat
           /\ accepts + Count(port, Accepts) <= Depth
BY AcceptsCounted, NumberType DEF IocpTypeOK

LEMMA AcceptDoneKeeps == ASSUME IocpIInv, NEW p \in Peer, AcceptDone(p) PROVE IocpIInv'
<1> DEFINE c == [kind |-> "Accept", of |-> p, ok |-> peer[p] # "reset"]
<1>0. /\ port' = Append(port, c) /\ accepts > 0 /\ accepts' = accepts - 1
      /\ p \in backlog /\ backlog' = backlog \ {p}
      /\ UNCHANGED <<peer, said, first, rcvd, toPeer, recvOps, sendOps, sessVars, astray, crashed>>
  BY DEF AcceptDone
<1> USE DEF sessVars
<1>1. /\ port \in Seq(Completion) /\ accepts \in Nat /\ Count(port, Accepts) \in Nat
      /\ accepts + Count(port, Accepts) <= Depth
  BY PortFacts DEF IocpIInv, Shape
<1>2. c \in Completion /\ c.kind = "Accept" /\ c.of = p
  <2>1. (peer[p] # "reset") \in BOOLEAN
    OBVIOUS
  <2> QED
    BY <2>1 DEF Completion
<1> HIDE DEF c
<1>3. More(port', port, c)
  BY <1>0, <1>1, <1>2, AppendMore
<1>4. /\ port' \in Seq(Completion)
      /\ Count(port', Accepts) = Count(port, Accepts) + 1
      /\ \A x \in ToSet(port') : x \in ToSet(port) \/ x = c
      /\ \A q, k : Count(port', MessageOf(q, k)) = Count(port, MessageOf(q, k))
      /\ \A a, q : Count(port', SendOf(a, q)) = Count(port, SendOf(a, q))
  <2>1. port' \in Seq(Completion)
    BY <1>3 DEF More
  <2>2. /\ Count(port', Accepts) = Count(port, Accepts) + 1
        /\ \A x \in ToSet(port') : x \in ToSet(port) \/ x = c
    BY <1>2, <1>3, MoreFacts
  <2>3. \A q, k : Count(port', MessageOf(q, k)) = Count(port, MessageOf(q, k))
    BY <1>2, <1>3, MoreFacts
  <2>4. \A a, q : Count(port', SendOf(a, q)) = Count(port, SendOf(a, q))
    BY <1>2, <1>3, MoreFacts
  <2> QED
    BY <2>1, <2>2, <2>3, <2>4
<1>5. /\ Count(port', AcceptOf(p)) = Count(port, AcceptOf(p)) + 1
      /\ \A q \in Peer : q # p => Count(port', AcceptOf(q)) = Count(port, AcceptOf(q))
  BY <1>2, <1>3, MoreFacts
<1>6. IocpTypeOK'
  <2>1. accepts' \in Nat /\ accepts' + Count(port', Accepts) <= Depth
    BY <1>0, <1>1, <1>4
  <2>2. accepts' + Cardinality({i \in DOMAIN port' : port'[i].kind = "Accept"}) <= Depth
    BY <1>4, <2>1, AcceptsCounted
  <2> QED
    BY <1>0, <1>4, <2>1, <2>2 DEF IocpIInv, Shape, IocpTypeOK
<1>7. Owners'
  BY <1>0, <1>2, <1>4 DEF IocpIInv, Shape, Owners
<1>8. OnePlace'
  <2>1. p \in backlog /\ peer[p] # "idle" /\ Count(port, AcceptOf(p)) = 0 /\ Waiting(p)
    BY <1>0 DEF IocpIInv, Shape, OnePlace, Waiting
  <2>2. Count(port', AcceptOf(p)) = 1
    BY <1>5, <2>1
  <2>3. ASSUME NEW q \in Peer, Waiting(q) PROVE Untouched(q)'
    <3>1. Untouched(q)
      BY <2>3 DEF IocpIInv, Shape, OnePlace
    <3> QED
      BY <1>0, <1>2, <1>4, <3>1 DEF Untouched, HasSession
  <2>4. ASSUME NEW q \in Peer, Waiting(q)' PROVE Waiting(q)
    BY <1>0, <1>5, <2>1, <2>4 DEF Waiting
  <2> QED
    BY <1>0, <1>5, <2>1, <2>2, <2>3, <2>4 DEF IocpIInv, Shape, OnePlace
<1>9. Fresh' /\ \A q \in Peer : NoDup(posted'[q])
  BY <1>0, <1>2, <1>4 DEF IocpIInv, Shape, Fresh
<1>10. ASSUME ~astray PROVE Flights' /\ Streams'
  BY <1>0, <1>4, <1>10, Quiet DEF IocpIInv, SendsKept
<1> QED
  BY <1>0, <1>6, <1>7, <1>8, <1>9, <1>10 DEF IocpIInv, Shape

LEMMA RecvDoneKeeps == ASSUME IocpIInv, NEW p \in Peer, RecvDone(p) PROVE IocpIInv'
<1> DEFINE ok == rcvd[p] < said[p] /\ peer[p] # "reset"
           n == IF ok THEN rcvd[p] + 1 ELSE 0
           c == [kind |-> "Recv", key |-> AddressOf(p), of |-> p, ok |-> ok, count |-> n]
<1>0. /\ HasSession(p) /\ recvOps[p] > 0
      /\ rcvd' = [rcvd EXCEPT ![p] = IF ok THEN n ELSE @]
      /\ port' = Append(port, c)
      /\ recvOps' = [recvOps EXCEPT ![p] = @ - 1]
      /\ UNCHANGED <<peerVars, toPeer, accepts, sendOps, sessVars, astray, crashed>>
  BY DEF RecvDone
<1> USE DEF sessVars, peerVars
<1>1. /\ port \in Seq(Completion) /\ accepts \in Nat /\ Count(port, Accepts) \in Nat
      /\ accepts + Count(port, Accepts) <= Depth
  BY PortFacts DEF IocpIInv, Shape
<1>2. /\ rcvd \in [Peer -> Nat] /\ recvOps \in [Peer -> Nat] /\ rcvd[p] <= said[p]
      /\ said[p] \in 0..MaxMsgs /\ MaxMsgs \in Nat
  BY IocpAssumption DEF IocpIInv, Shape, IocpTypeOK
<1>3. AddressOf(p) \in Addr /\ session[AddressOf(p)] = p /\ p # NoPeer
  BY <1>0, AddressType, IocpAssumption
<1>4. ok \in BOOLEAN /\ n \in 0..MaxMsgs /\ n \in Nat
  BY <1>2
<1>5. /\ c \in Completion /\ c.kind = "Recv" /\ c.of = p /\ c.key = AddressOf(p)
      /\ c.ok = ok /\ c.count = n
  BY <1>3, <1>4, Made
<1> HIDE DEF c
<1>6. /\ \A q \in Peer : q # p => rcvd'[q] = rcvd[q]
      /\ rcvd' \in [Peer -> Nat] /\ recvOps' \in [Peer -> Nat]
      /\ rcvd[p] <= rcvd'[p] /\ rcvd'[p] <= said[p]
      /\ ok => n = rcvd[p] + 1 /\ rcvd'[p] = n
  BY <1>0, <1>2
<1> HIDE DEF ok, n
<1>7. More(port', port, c)
  BY <1>0, <1>1, <1>5, AppendMore
<1>8. /\ port' \in Seq(Completion)
      /\ Count(port', Accepts) = Count(port, Accepts)
      /\ \A x \in ToSet(port') : x \in ToSet(port) \/ x = c
      /\ \A q : Count(port', AcceptOf(q)) = Count(port, AcceptOf(q))
      /\ \A a, q : Count(port', SendOf(a, q)) = Count(port, SendOf(a, q))
  <2>1. port' \in Seq(Completion)
    BY <1>7 DEF More
  <2>2. /\ Count(port', Accepts) = Count(port, Accepts)
        /\ \A x \in ToSet(port') : x \in ToSet(port) \/ x = c
    BY <1>5, <1>7, MoreFacts
  <2>3. \A q : Count(port', AcceptOf(q)) = Count(port, AcceptOf(q))
    BY <1>5, <1>7, MoreFacts
  <2>4. \A a, q : Count(port', SendOf(a, q)) = Count(port, SendOf(a, q))
    BY <1>5, <1>7, MoreFacts
  <2> QED
    BY <2>1, <2>2, <2>3, <2>4
<1>9. IocpTypeOK'
  <2>1. accepts' + Cardinality({i \in DOMAIN port' : port'[i].kind = "Accept"}) <= Depth
    BY <1>0, <1>1, <1>8, AcceptsCounted
  <2>2. \A q \in Peer : rcvd'[q] <= said[q]
    BY <1>6 DEF IocpIInv, Shape, IocpTypeOK
  <2> QED
    BY <1>0, <1>6, <1>8, <2>1, <2>2 DEF IocpIInv, Shape, IocpTypeOK
<1>10. Owners'
  <2>1. \A a \in Addr : session[a] = p => a = AddressOf(p)
    BY <1>3 DEF IocpIInv, Shape, Owners
  <2> QED
    BY <1>0, <1>5, <1>8, <2>1 DEF IocpIInv, Shape, Owners
<1>11. OnePlace'
  <2>1. ~Waiting(p)
    BY <1>0 DEF IocpIInv, Shape, OnePlace, Untouched
  <2>2. ASSUME NEW q \in Peer, Waiting(q) PROVE Untouched(q)'
    <3>1. Untouched(q) /\ q # p
      BY <2>1, <2>2 DEF IocpIInv, Shape, OnePlace
    <3> QED
      BY <1>0, <1>5, <1>8, <3>1 DEF Untouched, HasSession
  <2>3. ASSUME NEW q \in Peer PROVE Waiting(q)' => Waiting(q)
    BY <1>0, <1>8 DEF Waiting
  <2> QED
    BY <1>0, <1>8, <2>2, <2>3 DEF IocpIInv, Shape, OnePlace
<1>12. Fresh' /\ \A q \in Peer : NoDup(posted'[q])
  <2>1. \A q \in Peer : said'[q] > 0 => q \in Talker
    BY <1>0 DEF IocpIInv, Shape, Fresh
  <2>2. \A q \in Peer : rcvd[q] \in Nat /\ rcvd'[q] \in Nat /\ rcvd[q] <= rcvd'[q]
    BY <1>2, <1>6
  <2>3. \A q \in Peer : \A m \in ToSet(posted[q]) : m[2] <= rcvd[m[1]] /\ m[1] \in Peer /\ m[2] \in Nat
    <3>1. ASSUME NEW q \in Peer, NEW m \in ToSet(posted[q]) PROVE m \in Message
      <4>1. posted[q] \in Seq(Message)
        BY DEF IocpIInv, Shape, IocpTypeOK
      <4> QED
        BY <4>1, InToSet
    <3>2. ASSUME NEW m \in Message PROVE m[1] \in Peer /\ m[2] \in Nat
      BY <1>2, IocpAssumption DEF Message
    <3> QED
      BY <3>1, <3>2 DEF IocpIInv, Shape, Fresh
  <2>4. ASSUME NEW q \in Peer, NEW m \in ToSet(posted'[q]) PROVE m[2] <= rcvd'[m[1]]
    <3>1. m[2] <= rcvd[m[1]] /\ m[1] \in Peer /\ m[2] \in Nat
      BY <1>0, <2>3, <2>4
    <3>2. rcvd[m[1]] \in Nat /\ rcvd'[m[1]] \in Nat /\ rcvd[m[1]] <= rcvd'[m[1]]
      BY <2>2, <3>1
    <3> QED
      BY <3>1, <3>2
  <2>5. ASSUME NEW x \in ToSet(port'), x.kind = "Recv" /\ x.ok
        PROVE  /\ x.count \in 1..rcvd'[x.of]
               /\ \A q \in Peer : <<x.of, x.count>> \notin ToSet(posted'[q])
    <3>1. CASE x = c
      <4>1. ok /\ x.of = p /\ x.count = n
        BY <1>5, <2>5, <3>1
      <4>2. n \in 1..rcvd'[p] /\ n > rcvd[p]
        BY <1>2, <1>4, <1>6, <4>1
      <4>3. ASSUME NEW q \in Peer, <<p, n>> \in ToSet(posted[q]) PROVE FALSE
        BY <1>2, <1>4, <2>3, <4>2, <4>3
      <4> QED
        BY <1>0, <4>1, <4>2, <4>3
    <3>2. CASE x # c
      <4>1. x \in ToSet(port) /\ x \in Completion /\ x.of \in Peer
        BY <1>1, <1>8, <3>2, InToSet, Fields
      <4>2. /\ x.count \in 1..rcvd[x.of]
            /\ \A q \in Peer : <<x.of, x.count>> \notin ToSet(posted[q])
        BY <2>5, <4>1 DEF IocpIInv, Shape, Fresh
      <4>3. rcvd[x.of] \in Nat /\ rcvd'[x.of] \in Nat /\ rcvd[x.of] <= rcvd'[x.of]
        BY <2>2, <4>1
      <4>4. x.count \in 1..rcvd'[x.of]
        BY <4>2, <4>3
      <4> QED
        BY <1>0, <4>2, <4>4
    <3> QED
      BY <3>1, <3>2
  <2>6. ASSUME NEW q \in Peer, NEW k \in 1..MaxMsgs PROVE Count(port', MessageOf(q, k)) <= 1
    <3>1. Count(port, MessageOf(q, k)) <= 1 /\ Count(port, MessageOf(q, k)) \in Nat
      BY <1>1, NumberType DEF IocpIInv, Shape, Fresh
    <3>2. CASE c.ok /\ c.of = q /\ c.count = k
      <4>1. q = p /\ k = rcvd[p] + 1
        BY <1>5, <1>6, <3>2
      <4>2. \A x \in ToSet(port) : x \notin MessageOf(p, k)
        <5> SUFFICES ASSUME NEW x \in ToSet(port), x \in MessageOf(p, k) PROVE FALSE
          OBVIOUS
        <5>1. x.kind = "Recv" /\ x.ok /\ x.of = p /\ x.count = rcvd[p] + 1
          BY <4>1 DEF MessageOf
        <5>2. x.count \in 1..rcvd[x.of]
          BY <5>1 DEF IocpIInv, Shape, Fresh
        <5> QED
          BY <1>2, <5>1, <5>2
      <4>3. Count(port, MessageOf(q, k)) = 0
        BY <1>1, <4>1, <4>2, NumberZero
      <4>4. Count(port', MessageOf(q, k)) = Count(port, MessageOf(q, k)) + 1
        BY <1>5, <1>7, <3>2, MoreFacts
      <4> QED
        BY <4>3, <4>4
    <3>3. CASE ~(c.ok /\ c.of = q /\ c.count = k)
      <4>1. Count(port', MessageOf(q, k)) = Count(port, MessageOf(q, k))
        BY <1>5, <1>7, <3>3, MoreFacts
      <4> QED
        BY <3>1, <4>1
    <3> QED
      BY <3>2, <3>3
  <2>7. Fresh'
    BY <2>1, <2>4, <2>5, <2>6 DEF Fresh
  <2> QED
    BY <1>0, <2>7 DEF IocpIInv, Shape
<1>13. ASSUME ~astray PROVE Flights' /\ Streams'
  BY <1>0, <1>8, <1>13, Quiet DEF IocpIInv, SendsKept
<1> QED
  BY <1>0, <1>9, <1>10, <1>11, <1>12, <1>13 DEF IocpIInv, Shape

LEMMA SendDoneKeeps == ASSUME IocpIInv, NEW p \in Peer, SendDone(p) PROVE IocpIInv'
<1> DEFINE a == AddressOf(p)
           ok == peer[p] # "reset"
           c == [kind |-> "Send", key |-> a, of |-> p, ok |-> ok]
           x == Head(sendOps[p])
<1>0. /\ HasSession(p) /\ sendOps[p] # <<>>
      /\ toPeer' = [toPeer EXCEPT ![p] = IF peer[p] = "reset" THEN @ ELSE Append(@, x)]
      /\ sendOps' = [sendOps EXCEPT ![p] = Tail(@)]
      /\ port' = Append(port, c)
      /\ UNCHANGED <<peerVars, rcvd, accepts, recvOps, sessVars, astray, crashed>>
  BY DEF SendDone
<1>00. ok => Len(toPeer[p]) < SndBuf
  BY DEF SendDone
<1> USE DEF sessVars, peerVars
<1>1. /\ port \in Seq(Completion) /\ accepts \in Nat /\ Count(port, Accepts) \in Nat
      /\ accepts + Count(port, Accepts) <= Depth
  BY PortFacts DEF IocpIInv, Shape
<1>2. /\ sendOps \in [Peer -> Seq(Message)] /\ toPeer \in [Peer -> Seq(Message)]
      /\ toPeer[p] \in Seq(Message) /\ sendOps[p] \in Seq(Message) /\ first[p] \in Seq(Message)
      /\ posted[p] \in Seq(Message) /\ Len(toPeer[p]) <= SndBuf /\ SndBuf \in Nat
  BY IocpAssumption DEF IocpIInv, Shape, IocpTypeOK
<1>3. a \in Addr /\ session[a] = p /\ p # NoPeer
  BY <1>0, AddressType, IocpAssumption
<1>4. \A b \in Addr : session[b] = p => b = a
  BY <1>3 DEF IocpIInv, Shape, Owners
<1>5. c \in Completion /\ c.kind = "Send" /\ c.of = p /\ c.key = a /\ c.ok = ok
  <2>1. ok \in BOOLEAN
    OBVIOUS
  <2> QED
    BY <1>3, <2>1 DEF Completion
<1>6. x \in Message /\ Tail(sendOps[p]) \in Seq(Message)
  BY <1>0, <1>2, Shortened
<1>7. /\ Append(toPeer[p], x) \in Seq(Message) /\ Len(Append(toPeer[p], x)) = Len(toPeer[p]) + 1
      /\ Len(toPeer[p]) \in Nat
  BY <1>2, <1>6, Appended
<1>8. /\ toPeer' \in [Peer -> Seq(Message)] /\ sendOps' \in [Peer -> Seq(Message)]
      /\ \A q \in Peer : q # p => toPeer'[q] = toPeer[q] /\ sendOps'[q] = sendOps[q]
      /\ sendOps'[p] = Tail(sendOps[p])
      /\ ok => toPeer'[p] = Append(toPeer[p], x)
      /\ ~ok => toPeer'[p] = toPeer[p]
  BY <1>0, <1>2, <1>6, <1>7
<1> HIDE DEF c, x, a, ok
<1>9. More(port', port, c)
  BY <1>0, <1>1, <1>5, AppendMore
<1>10. /\ port' \in Seq(Completion)
       /\ Count(port', Accepts) = Count(port, Accepts)
       /\ \A y \in ToSet(port') : y \in ToSet(port) \/ y = c
       /\ \A q : Count(port', AcceptOf(q)) = Count(port, AcceptOf(q))
       /\ \A q, k : Count(port', MessageOf(q, k)) = Count(port, MessageOf(q, k))
       /\ \A b, q : q # p => Count(port', SendOf(b, q)) = Count(port, SendOf(b, q))
       /\ Count(port', SendOf(a, p)) = Count(port, SendOf(a, p)) + 1
       /\ Count(port, SendOf(a, p)) \in Nat
  <2>1. port' \in Seq(Completion)
    BY <1>9 DEF More
  <2>2. /\ Count(port', Accepts) = Count(port, Accepts)
        /\ \A y \in ToSet(port') : y \in ToSet(port) \/ y = c
    BY <1>5, <1>9, MoreFacts
  <2>3. \A q : Count(port', AcceptOf(q)) = Count(port, AcceptOf(q))
    BY <1>5, <1>9, MoreFacts
  <2>4. \A q, k : Count(port', MessageOf(q, k)) = Count(port, MessageOf(q, k))
    BY <1>5, <1>9, MoreFacts
  <2>5. \A b, q : q # p => Count(port', SendOf(b, q)) = Count(port, SendOf(b, q))
    BY <1>5, <1>9, MoreFacts
  <2>6. /\ Count(port', SendOf(a, p)) = Count(port, SendOf(a, p)) + 1
        /\ Count(port, SendOf(a, p)) \in Nat
    BY <1>5, <1>9, MoreFacts
  <2> QED
    BY <2>1, <2>2, <2>3, <2>4, <2>5, <2>6
<1>11. IocpTypeOK'
  <2>1. accepts' + Cardinality({i \in DOMAIN port' : port'[i].kind = "Accept"}) <= Depth
    BY <1>0, <1>1, <1>10, AcceptsCounted
  <2>2. Len(toPeer'[p]) <= SndBuf
    <3>1. CASE ok
      BY <1>00, <1>2, <1>7, <1>8, <3>1
    <3>2. CASE ~ok
      BY <1>2, <1>8, <3>2
    <3> QED
      BY <3>1, <3>2
  <2>3. \A q \in Peer : Len(toPeer'[q]) <= SndBuf
    BY <1>8, <2>2 DEF IocpIInv, Shape, IocpTypeOK
  <2> QED
    BY <1>0, <1>8, <1>10, <2>1, <2>3 DEF IocpIInv, Shape, IocpTypeOK
<1>12. Owners'
  BY <1>0, <1>4, <1>5, <1>10 DEF IocpIInv, Shape, Owners
<1>13. OnePlace'
  <2>1. ~Waiting(p)
    BY <1>0 DEF IocpIInv, Shape, OnePlace, Untouched
  <2>2. ASSUME NEW q \in Peer, Waiting(q) PROVE Untouched(q)'
    <3>1. Untouched(q) /\ q # p
      BY <2>1, <2>2 DEF IocpIInv, Shape, OnePlace
    <3> QED
      BY <1>0, <1>5, <1>8, <1>10, <3>1 DEF Untouched, HasSession
  <2>3. ASSUME NEW q \in Peer PROVE Waiting(q)' => Waiting(q)
    BY <1>0, <1>10 DEF Waiting
  <2> QED
    BY <1>0, <1>10, <2>2, <2>3 DEF IocpIInv, Shape, OnePlace
<1>14. Fresh' /\ \A q \in Peer : NoDup(posted'[q])
  BY <1>0, <1>5, <1>10 DEF IocpIInv, Shape, Fresh
<1>15. ASSUME ~astray PROVE Flights' /\ Streams'
  <2> DEFINE n == Count(port, SendOf(a, p))
             ops == sendOps[p]
             f == m_sendInFlight[a]
             q == m_sendQueue[a]
             w == Way(p)
             t == posted[p]
  <2>1. /\ n \in Nat /\ ops \in Seq(Message) /\ ops # <<>> /\ f \in BOOLEAN /\ q \in Seq(Message)
        /\ w \in Seq(Message) /\ Flight(n, ops, f, q) /\ t \in Seq(Message)
    <3>1. n \in Nat /\ ops \in Seq(Message) /\ ops # <<>> /\ t \in Seq(Message)
      BY <1>0, <1>2, <1>10
    <3>2. f \in BOOLEAN /\ q \in Seq(Message)
      BY <1>3 DEF IocpIInv, Shape, IocpTypeOK
    <3>3. w \in Seq(Message)
      BY <1>2, Joined DEF Way
    <3>4. Flight(n, ops, f, q)
      BY <1>3, <1>15 DEF IocpIInv, Flights
    <3> QED
      BY <3>1, <3>2, <3>3, <3>4
  <2>2. /\ IsPrefix(first[p], t)
        /\ ok => Flow(w, q, f, ops, t)
    BY <1>3, <1>15 DEF IocpIInv, Streams, ok
  <2>3. x = Head(ops)
    BY DEF x
  <2>4. ok => Way(p)' = Append(w, x)
    <3> DEFINE u == first[p]
               v == toPeer[p]
    <3>1. u \in Seq(Message) /\ v \in Seq(Message) /\ x \in Message
      BY <1>2, <1>6
    <3> HIDE DEF u, v
    <3>2. u \o Append(v, x) = Append(u \o v, x)
      BY <3>1, AppendJoined
    <3> QED
      BY <1>0, <1>8, <3>2 DEF Way, u, v
  <2> HIDE DEF n, ops, f, q, w, t
  <2>5. /\ Flight(n + 1, Tail(ops), f, q)
        /\ Flow(w, q, f, ops, t) => Flow(Append(w, x), q, f, Tail(ops), t)
    <3>1. Departs(n, w, q, f, ops, t)
      BY ONLY <2>1, Left
    <3> QED
      BY <2>3, <3>1 DEF Departs
  <2>6. ASSUME ok PROVE Ordered(Append(w, x), t) /\ Flow(Append(w, x), q, f, Tail(ops), t)
    <3>1. Flow(Append(w, x), q, f, Tail(ops), t) /\ Append(w, x) \in Seq(Message)
      BY <1>6, <2>1, <2>2, <2>5, <2>6, Appended
    <3>2. Ordered(Append(w, x) \o q, t)
      BY <3>1 DEF Flow, Spans
    <3> QED
      BY <2>1, <3>1, <3>2, OrderedBegin
  <2>7. Flights'
    <3> SUFFICES ASSUME NEW b \in Addr, session[b] # NoPeer
                 PROVE  Flight(Count(port', SendOf(b, session[b])), sendOps'[session[b]],
                               m_sendInFlight[b], m_sendQueue[b])
      BY <1>0 DEF Flights
    <3>1. CASE b = a
      BY <1>3, <1>8, <1>10, <2>5, <3>1 DEF n, ops, f, q
    <3>2. CASE b # a
      <4>1. session[b] # p /\ session[b] \in Peer
        BY <1>4, <3>2 DEF IocpIInv, Shape, IocpTypeOK
      <4>2. /\ sendOps'[session[b]] = sendOps[session[b]]
            /\ Count(port', SendOf(b, session[b])) = Count(port, SendOf(b, session[b]))
        BY <1>8, <1>10, <4>1
      <4> QED
        BY <1>15, <4>2 DEF IocpIInv, Flights
    <3> QED
      BY <3>1, <3>2
  <2>8. Streams'
    <3> SUFFICES ASSUME NEW r \in Peer
                 PROVE  /\ IsPrefix(first[r], posted[r])
                        /\ peer[r] # "reset" => Ordered(Way(r)', posted[r])
                        /\ peer[r] # "reset" =>
                               \A b \in Addr : session[b] = r =>
                                   Flow(Way(r)', m_sendQueue[b], m_sendInFlight[b], sendOps'[r], posted[r])
      BY <1>0 DEF Streams
    <3>1. CASE r = p
      BY <1>4, <1>8, <2>2, <2>4, <2>6, <3>1 DEF ops, f, q, t, ok
    <3>2. CASE r # p
      <4>1. Way(r)' = Way(r) /\ sendOps'[r] = sendOps[r]
        BY <1>0, <1>8, <3>2 DEF Way
      <4> QED
        BY <1>15, <4>1 DEF IocpIInv, Streams
    <3> QED
      BY <3>1, <3>2
  <2> QED
    BY <2>7, <2>8
<1> QED
  BY <1>0, <1>11, <1>12, <1>13, <1>14, <1>15 DEF IocpIInv, Shape

-----------------------------------------------------------------------------
(* RunLoop: what a completion leaves in the port. *)

LEMMA TakenFacts ==
    ASSUME IocpTypeOK, port # <<>>, port' = Tail(port)
    PROVE  LET c == Head(port) IN
           /\ c \in Completion /\ c \in ToSet(port) /\ port' \in Seq(Completion)
           /\ ToSet(port') \subseteq ToSet(port) /\ ToSet(port) \subseteq Completion
           /\ More(port, port', c)
           /\ Count(port', Accepts) \in Nat /\ Count(port', Accepts) <= Count(port, Accepts)
           /\ c.kind = "Accept" => Count(port, Accepts) = Count(port', Accepts) + 1
           /\ \A p : /\ Count(port', AcceptOf(p)) \in Nat /\ Count(port, AcceptOf(p)) \in Nat
                     /\ Count(port', AcceptOf(p)) <= Count(port, AcceptOf(p))
           /\ \A p, k : /\ Count(port', MessageOf(p, k)) \in Nat /\ Count(port, MessageOf(p, k)) \in Nat
                        /\ Count(port', MessageOf(p, k)) <= Count(port, MessageOf(p, k))
<1> DEFINE c == Head(port)
<1>1. port \in Seq(Completion) /\ More(port, port', c)
  BY TailMore DEF IocpTypeOK
<1>2. c \in Completion /\ port' \in Seq(Completion)
  BY <1>1 DEF More
<1> HIDE DEF c
<1>3. /\ c \in ToSet(port) /\ ToSet(port') \subseteq ToSet(port) /\ ToSet(port) \subseteq Completion
      /\ c.kind = "Accept" => Count(port, Accepts) = Count(port', Accepts) + 1
      /\ c.kind # "Accept" => Count(port, Accepts) = Count(port', Accepts)
  BY <1>1, MoreFacts
<1>4. \A K : Count(port', K) \in Nat /\ Count(port, K) \in Nat
  BY <1>1, MoreFacts
<1>5. Count(port', Accepts) \in Nat /\ Count(port', Accepts) <= Count(port, Accepts)
  BY <1>3, <1>4
<1>6. ASSUME NEW p PROVE Count(port', AcceptOf(p)) <= Count(port, AcceptOf(p))
  <2>1. \/ Count(port, AcceptOf(p)) = Count(port', AcceptOf(p)) + 1
        \/ Count(port, AcceptOf(p)) = Count(port', AcceptOf(p))
    BY <1>1, MoreFacts
  <2> QED
    BY <1>4, <2>1
<1>7. ASSUME NEW p, NEW k PROVE Count(port', MessageOf(p, k)) <= Count(port, MessageOf(p, k))
  <2>1. \/ Count(port, MessageOf(p, k)) = Count(port', MessageOf(p, k)) + 1
        \/ Count(port, MessageOf(p, k)) = Count(port', MessageOf(p, k))
    BY <1>1, MoreFacts
  <2> QED
    BY <1>4, <2>1
<1> QED
  BY <1>1, <1>2, <1>3, <1>4, <1>5, <1>6, <1>7 DEF c

\* What is in the port becomes less: what is said of all of it remains.
LEMMA LessKeeps ==
    ASSUME IocpIInv, port # <<>>, port' = Tail(port),
           UNCHANGED <<peer, backlog, session, first, toPeer, posted, said, rcvd>>,
           \A p \in Peer : HasSession(p) \/ sendOps'[p] = sendOps[p]
    PROVE  Owners' /\ OnePlace' /\ Fresh' /\ \A p \in Peer : NoDup(posted'[p])
<1> DEFINE c == Head(port)
<1>1. /\ ToSet(port') \subseteq ToSet(port)
      /\ \A p : /\ Count(port', AcceptOf(p)) \in Nat /\ Count(port, AcceptOf(p)) \in Nat
                /\ Count(port', AcceptOf(p)) <= Count(port, AcceptOf(p))
      /\ \A p, k : /\ Count(port', MessageOf(p, k)) \in Nat /\ Count(port, MessageOf(p, k)) \in Nat
                   /\ Count(port', MessageOf(p, k)) <= Count(port, MessageOf(p, k))
  BY TakenFacts DEF IocpIInv, Shape
<1>2. Owners'
  BY <1>1 DEF IocpIInv, Shape, Owners
<1>3. OnePlace'
  <2>1. ASSUME NEW q \in Peer, Waiting(q)' PROVE Waiting(q)
    <3>1. Count(port', AcceptOf(q)) > 0 => Count(port, AcceptOf(q)) > 0
      BY <1>1
    <3> QED
      BY <2>1, <3>1 DEF Waiting
  <2>2. ASSUME NEW q \in Peer, Waiting(q) PROVE Untouched(q)'
    BY <1>1, <2>2 DEF IocpIInv, Shape, OnePlace, Untouched, HasSession
  <2>3. ASSUME NEW q \in Peer
        PROVE  /\ peer'[q] = "idle" => q \notin backlog'
               /\ peer'[q] = "idle" \/ q \in backlog' => Count(port', AcceptOf(q)) = 0
               /\ Count(port', AcceptOf(q)) <= 1
    <3>1. /\ peer[q] = "idle" => q \notin backlog
          /\ peer[q] = "idle" \/ q \in backlog => Count(port, AcceptOf(q)) = 0
          /\ Count(port, AcceptOf(q)) <= 1
      BY DEF IocpIInv, Shape, OnePlace
    <3>2. /\ Count(port', AcceptOf(q)) \in Nat /\ Count(port, AcceptOf(q)) \in Nat
          /\ Count(port', AcceptOf(q)) <= Count(port, AcceptOf(q))
      BY <1>1
    <3> QED
      BY <3>1, <3>2
  <2> QED
    BY <2>1, <2>2, <2>3 DEF OnePlace
<1>4. Fresh' /\ \A q \in Peer : NoDup(posted'[q])
  <2>1. ASSUME NEW p \in Peer, NEW k \in 1..MaxMsgs PROVE Count(port', MessageOf(p, k)) <= 1
    <3>1. Count(port, MessageOf(p, k)) <= 1
      BY DEF IocpIInv, Shape, Fresh
    <3>2. /\ Count(port', MessageOf(p, k)) \in Nat /\ Count(port, MessageOf(p, k)) \in Nat
          /\ Count(port', MessageOf(p, k)) <= Count(port, MessageOf(p, k))
      BY <1>1
    <3> QED
      BY <3>1, <3>2
  <2> QED
    BY <1>1, <2>1 DEF IocpIInv, Shape, Fresh
<1> QED
  BY <1>2, <1>3, <1>4

LEMMA AcceptFailsKeeps == ASSUME IocpIInv, AcceptFails PROVE IocpIInv'
<1>1. /\ port # <<>> /\ port' = Tail(port) /\ Head(port).kind = "Accept"
      /\ UNCHANGED <<peerVars, rcvd, toPeer, accepts, recvOps, sendOps, sessVars, astray, crashed>>
  BY DEF AcceptFails, Taken
<1> USE DEF peerVars, sessVars
<1>2. IocpTypeOK'
  <2>1. /\ port' \in Seq(Completion) /\ Count(port', Accepts) \in Nat
        /\ Count(port', Accepts) <= Count(port, Accepts)
    BY <1>1, TakenFacts DEF IocpIInv, Shape
  <2>2. /\ accepts \in Nat /\ Count(port, Accepts) \in Nat /\ accepts + Count(port, Accepts) <= Depth
    BY PortFacts DEF IocpIInv, Shape
  <2>3. Depth \in Nat
    BY IocpAssumption
  <2>4. accepts' + Cardinality({i \in DOMAIN port' : port'[i].kind = "Accept"}) <= Depth
    <3>1. accepts' + Count(port', Accepts) <= Depth
      BY <1>1, <2>1, <2>2, <2>3
    <3> QED
      BY <2>1, <3>1, AcceptsCounted
  <2> QED
    BY <1>1, <2>1, <2>4 DEF IocpIInv, Shape, IocpTypeOK
<1>3. Owners' /\ OnePlace' /\ Fresh' /\ \A p \in Peer : NoDup(posted'[p])
  BY <1>1, LessKeeps
<1>4. ASSUME ~astray PROVE Flights' /\ Streams'
  <2>1. SendsKept
    <3>1. More(port, port', Head(port))
      BY <1>1, TakenFacts DEF IocpIInv, Shape
    <3> QED
      BY <1>1, <3>1, MoreFacts DEF SendsKept
  <2> QED
    BY <1>1, <1>4, <2>1, Quiet DEF IocpIInv
<1> QED
  BY <1>1, <1>2, <1>3, <1>4 DEF IocpIInv, Shape

LEMMA OnAcceptKeeps == ASSUME IocpIInv, OnAcceptComplete PROVE IocpIInv'
<1> DEFINE p == Head(port).of
           free == {b \in Addr : session[b] = NoPeer}
           a == CHOOSE b \in free : \A c \in free : b <= c
<1>1. /\ port # <<>> /\ port' = Tail(port) /\ Head(port).kind = "Accept"
      /\ session' = [session EXCEPT ![a] = p]
      /\ m_sendQueue' = [m_sendQueue EXCEPT ![a] = <<>>]
      /\ m_sendInFlight' = [m_sendInFlight EXCEPT ![a] = FALSE]
      /\ recvOps' = [recvOps EXCEPT ![p] = 1]
      /\ accepts' \in {accepts, accepts + 1}
      /\ UNCHANGED <<peerVars, rcvd, toPeer, sendOps, posted, astray, crashed>>
  BY DEF OnAcceptComplete, Taken, Reposted
<1> USE DEF peerVars
<1>2. /\ port' \in Seq(Completion) /\ Count(port', Accepts) \in Nat /\ Head(port) \in Completion
      /\ Count(port, Accepts) = Count(port', Accepts) + 1
      /\ ToSet(port') \subseteq ToSet(port) /\ ToSet(port) \subseteq Completion
      /\ More(port, port', Head(port))
  BY <1>1, TakenFacts DEF IocpIInv, Shape
<1>3. p \in Peer /\ p # NoPeer
  BY <1>2, Fields, IocpAssumption
<1>4. /\ \A q : Count(port', AcceptOf(q)) \in Nat /\ Count(port, AcceptOf(q)) \in Nat
      /\ \A q : q # p => Count(port', AcceptOf(q)) = Count(port, AcceptOf(q))
      /\ Count(port, AcceptOf(p)) = Count(port', AcceptOf(p)) + 1
      /\ \A q, k : Count(port', MessageOf(q, k)) = Count(port, MessageOf(q, k))
      /\ \A b, q : Count(port', SendOf(b, q)) = Count(port, SendOf(b, q))
  <2>1. \A q : Count(port', AcceptOf(q)) \in Nat /\ Count(port, AcceptOf(q)) \in Nat
    BY <1>2, MoreFacts
  <2>2. /\ \A q : q # p => Count(port', AcceptOf(q)) = Count(port, AcceptOf(q))
        /\ Count(port, AcceptOf(p)) = Count(port', AcceptOf(p)) + 1
    BY <1>1, <1>2, MoreFacts
  <2>3. \A q, k : Count(port', MessageOf(q, k)) = Count(port, MessageOf(q, k))
    BY <1>1, <1>2, MoreFacts
  <2>4. \A b, q : Count(port', SendOf(b, q)) = Count(port, SendOf(b, q))
    BY <1>1, <1>2, MoreFacts
  <2> QED
    BY <2>1, <2>2, <2>3, <2>4
\* Until now p was nobody.
<1>5. /\ Count(port, AcceptOf(p)) = 1 /\ Count(port', AcceptOf(p)) = 0
      /\ Untouched(p) /\ peer[p] # "idle" /\ p \notin backlog
  <2>1. Count(port, AcceptOf(p)) <= 1 /\ Count(port, AcceptOf(p)) > 0
    BY <1>3, <1>4 DEF IocpIInv, Shape, OnePlace
  <2>2. Count(port, AcceptOf(p)) = 1 /\ Count(port', AcceptOf(p)) = 0
    BY <1>4, <2>1
  <2> QED
    BY <1>3, <2>1, <2>2 DEF IocpIInv, Shape, OnePlace, Waiting
<1>6. a \in Addr /\ session[a] = NoPeer
  <2>1. session \in [Addr -> Peer \union {NoPeer}]
    BY DEF IocpIInv, Shape, IocpTypeOK
  <2>2. \A b, c \in Addr : session[b] = session[c] /\ session[b] # NoPeer => b = c
    BY DEF IocpIInv, Shape, Owners
  <2>3. ~HasSession(p)
    BY <1>5 DEF Untouched
  <2> HIDE DEF p
  <2> QED
    BY <1>3, <2>1, <2>2, <2>3, FreeAddress
<1>7. /\ \A b \in Addr : session[b] # p
      /\ sendOps[p] = <<>> /\ posted[p] = <<>> /\ first[p] = <<>> /\ toPeer[p] = <<>>
      /\ \A c \in ToSet(port) : c.of = p => c.kind = "Accept"
  BY <1>5 DEF Untouched, HasSession
<1> HIDE DEF p, a
<1>8. /\ session'[a] = p /\ m_sendQueue'[a] = <<>> /\ m_sendInFlight'[a] = FALSE
      /\ \A b \in Addr : b # a => /\ session'[b] = session[b]
                                  /\ m_sendQueue'[b] = m_sendQueue[b]
                                  /\ m_sendInFlight'[b] = m_sendInFlight[b]
      /\ session' \in [Addr -> Peer \union {NoPeer}]
      /\ m_sendQueue' \in [Addr -> Seq(Message)]
      /\ m_sendInFlight' \in [Addr -> BOOLEAN]
      /\ recvOps' \in [Peer -> Nat]
  <2>1. <<>> \in Seq(Message)
    BY EmptySeq
  <2> QED
    BY <1>1, <1>3, <1>6, <2>1 DEF IocpIInv, Shape, IocpTypeOK
<1>9. IocpTypeOK'
  <2>1. /\ accepts \in Nat /\ Count(port, Accepts) \in Nat /\ accepts + Count(port, Accepts) <= Depth
        /\ Depth \in Nat
    BY PortFacts, IocpAssumption DEF IocpIInv, Shape
  <2>2. accepts' \in Nat /\ accepts' + Count(port', Accepts) <= Depth
    <3>1. Count(port', Accepts) \in Nat /\ Count(port, Accepts) = Count(port', Accepts) + 1
      BY <1>2
    <3>2. CASE accepts' = accepts
      BY ONLY <2>1, <3>1, <3>2
    <3>3. CASE accepts' = accepts + 1
      BY ONLY <2>1, <3>1, <3>3
    <3> QED
      BY <1>1, <3>2, <3>3
  <2>3. accepts' + Cardinality({i \in DOMAIN port' : port'[i].kind = "Accept"}) <= Depth
    BY <1>2, <2>2, AcceptsCounted
  <2> QED
    BY <1>1, <1>2, <1>8, <2>2, <2>3 DEF IocpIInv, Shape, IocpTypeOK
<1>10. Owners'
  <2>1. ASSUME NEW b \in Addr, NEW d \in Addr, session'[b] = session'[d], session'[b] # NoPeer
        PROVE  b = d
    <3>1. CASE b # a /\ d # a
      <4>1. session[b] = session[d] /\ session[b] # NoPeer
        BY <1>8, <2>1, <3>1
      <4> QED
        BY <4>1 DEF IocpIInv, Shape, Owners
    <3>2. CASE b = a \/ d = a
      BY <1>7, <1>8, <2>1, <3>2
    <3> QED
      BY <3>1, <3>2
  <2>2. ASSUME NEW c \in ToSet(port'), c.kind # "Accept", NEW b \in Addr, session'[b] = c.of
        PROVE  c.key = b
    <3>1. c \in ToSet(port) /\ c.of # p
      BY <1>2, <1>7, <2>2
    <3>2. session[b] = c.of
      BY <1>8, <2>2, <3>1
    <3> QED
      BY <2>2, <3>1, <3>2 DEF IocpIInv, Shape, Owners
  <2> QED
    BY <2>1, <2>2 DEF Owners
<1>11. OnePlace'
  <2>1. ASSUME NEW q \in Peer, Waiting(q)' PROVE Waiting(q) /\ q # p
    <3>1. q # p
      BY <1>1, <1>5, <2>1 DEF Waiting
    <3> QED
      BY <1>1, <1>4, <2>1, <3>1 DEF Waiting
  <2>2. ASSUME NEW q \in Peer, Waiting(q), q # p PROVE Untouched(q)'
    <3>1. Untouched(q)
      BY <2>2 DEF IocpIInv, Shape, OnePlace
    <3>2. ~HasSession(q)'
      BY <1>8, <2>2, <3>1 DEF Untouched, HasSession
    <3> QED
      BY <1>1, <1>2, <3>1, <3>2 DEF Untouched
  <2>3. ASSUME NEW q \in Peer
        PROVE  /\ peer'[q] = "idle" => q \notin backlog'
               /\ peer'[q] = "idle" \/ q \in backlog' => Count(port', AcceptOf(q)) = 0
               /\ Count(port', AcceptOf(q)) <= 1
    <3>1. CASE q = p
      BY <1>1, <1>5, <3>1
    <3>2. CASE q # p
      BY <1>1, <1>4, <3>2 DEF IocpIInv, Shape, OnePlace
    <3> QED
      BY <3>1, <3>2
  <2> QED
    BY <2>1, <2>2, <2>3 DEF OnePlace
<1>12. Fresh' /\ \A q \in Peer : NoDup(posted'[q])
  BY <1>1, <1>2, <1>4 DEF IocpIInv, Shape, Fresh
<1>13. ASSUME ~astray PROVE Flights' /\ Streams'
  <2>1. <<>> \in Seq(Message) /\ Len(<<>>) = 0 /\ ToSet(<<>>) = {} /\ <<>> \o <<>> = <<>>
    <3>1. <<>> \in Seq(Message) /\ Len(<<>>) = 0
      BY EmptySeq
    <3>2. <<>> \o <<>> = <<>>
      BY <3>1, ConcatEmptySeq
    <3>3. ToSet(<<>>) = {}
      BY DEF ToSet
    <3> QED
      BY <3>1, <3>2, <3>3
  <2>2. Count(port', SendOf(a, p)) = 0
    <3>1. \A c \in ToSet(port') : c \notin SendOf(a, p)
      BY <1>2, <1>7 DEF SendOf
    <3> QED
      BY <1>2, <3>1, NumberZero
  <2>3. Flight(0, <<>>, FALSE, <<>>) /\ Flow(<<>>, <<>>, FALSE, <<>>, <<>>)
    BY <2>1 DEF Flight, Flow, Spans, Ordered
  <2>4. Flights'
    <3> SUFFICES ASSUME NEW b \in Addr, session'[b] # NoPeer
                 PROVE  Flight(Count(port', SendOf(b, session'[b])), sendOps[session'[b]],
                               m_sendInFlight'[b], m_sendQueue'[b])
      BY <1>1 DEF Flights
    <3>1. CASE b = a
      BY <1>7, <1>8, <2>2, <2>3, <3>1
    <3>2. CASE b # a
      <4>1. /\ session'[b] = session[b] /\ m_sendQueue'[b] = m_sendQueue[b]
            /\ m_sendInFlight'[b] = m_sendInFlight[b]
            /\ Count(port', SendOf(b, session[b])) = Count(port, SendOf(b, session[b]))
        BY <1>4, <1>8, <3>2
      <4> QED
        BY <1>13, <4>1 DEF IocpIInv, Flights
    <3> QED
      BY <3>1, <3>2
  <2>5. Streams'
    <3> SUFFICES ASSUME NEW q \in Peer
                 PROVE  /\ IsPrefix(first[q], posted[q])
                        /\ peer[q] # "reset" => Ordered(Way(q), posted[q])
                        /\ peer[q] # "reset" =>
                               \A b \in Addr : session'[b] = q =>
                                   Flow(Way(q), m_sendQueue'[b], m_sendInFlight'[b], sendOps[q], posted[q])
      BY <1>1 DEF Streams, Way
    <3>1. /\ IsPrefix(first[q], posted[q])
          /\ peer[q] # "reset" => Ordered(Way(q), posted[q])
          /\ peer[q] # "reset" =>
                 \A b \in Addr : session[b] = q =>
                     Flow(Way(q), m_sendQueue[b], m_sendInFlight[b], sendOps[q], posted[q])
      BY <1>13 DEF IocpIInv, Streams
    <3>2. ASSUME NEW b \in Addr, session'[b] = q, peer[q] # "reset"
          PROVE  Flow(Way(q), m_sendQueue'[b], m_sendInFlight'[b], sendOps[q], posted[q])
      <4>1. CASE b = a
        <5>1. q = p /\ Way(q) = <<>>
          BY <1>7, <1>8, <2>1, <3>2, <4>1 DEF Way
        <5> QED
          BY <1>7, <1>8, <2>3, <4>1, <5>1
      <4>2. CASE b # a
        BY <1>8, <3>1, <3>2, <4>2
      <4> QED
        BY <4>1, <4>2
    <3> QED
      BY <3>1, <3>2
  <2> QED
    BY <2>4, <2>5
<1> QED
  BY <1>1, <1>9, <1>10, <1>11, <1>12, <1>13 DEF IocpIInv, Shape

\* A message is taken and broadcast.
LEMMA MessageKeeps ==
    ASSUME IocpIInv, port # <<>>, port' = Tail(port), Head(port).kind = "Recv", Head(port).ok,
           BroadcastMsg(Head(port)), recvOps' \in [Peer -> Nat], {astray', crashed'} \subseteq BOOLEAN,
           UNCHANGED <<peerVars, rcvd, toPeer, accepts, session>>
    PROVE  Shape' /\ (~astray => Flights' /\ Streams')
<1> DEFINE c == Head(port)
           s == c.of
           n == c.count
           k == c.key
           m == <<s, n>>
<1> USE DEF peerVars
<1>1. /\ c \in Completion /\ c \in ToSet(port) /\ port' \in Seq(Completion)
      /\ ToSet(port') \subseteq ToSet(port) /\ ToSet(port) \subseteq Completion
      /\ More(port, port', c)
      /\ Count(port', Accepts) \in Nat /\ Count(port', Accepts) <= Count(port, Accepts)
      /\ \A p : /\ Count(port', AcceptOf(p)) \in Nat /\ Count(port, AcceptOf(p)) \in Nat
                /\ Count(port', AcceptOf(p)) <= Count(port, AcceptOf(p))
  BY TakenFacts DEF IocpIInv, Shape
<1>2. \A p, i : /\ Count(port', MessageOf(p, i)) \in Nat /\ Count(port, MessageOf(p, i)) \in Nat
                /\ Count(port', MessageOf(p, i)) <= Count(port, MessageOf(p, i))
  BY TakenFacts DEF IocpIInv, Shape
<1>3. s \in Peer /\ k \in Addr /\ n \in 0..MaxMsgs /\ c.kind = "Recv" /\ c.ok
  BY <1>1, Fields
<1> HIDE DEF c
<1>4. n \in 1..rcvd[s] /\ \A p \in Peer : m \notin ToSet(posted[p])
  BY <1>1, <1>3 DEF IocpIInv, Shape, Fresh
<1>5. /\ rcvd[s] \in Nat /\ rcvd[s] <= said[s] /\ said[s] \in 0..MaxMsgs /\ MaxMsgs \in Nat
  BY <1>3, IocpAssumption DEF IocpIInv, Shape, IocpTypeOK
<1>6. s \in Talker /\ n \in 1..MaxMsgs /\ m \in Message
  <2>1. said[s] > 0 /\ n \in 1..MaxMsgs
    BY <1>4, <1>5
  <2>2. s \in Talker
    BY <1>3, <2>1 DEF IocpIInv, Shape, Fresh
  <2> QED
    BY <2>1, <2>2 DEF Message
<1>7. Spread(k, m)
  <2>1. BroadcastMsg(c)
    BY DEF c
  <2>2. m = <<c.of, c.count>> /\ k = c.key
    OBVIOUS
  <2> QED
    BY <1>6, <2>1, <2>2, BroadcastSpreads DEF IocpIInv, Shape
<1>8. ASSUME NEW p \in Peer
      PROVE  \/ posted'[p] = posted[p] /\ sendOps'[p] = sendOps[p]
             \/ HasSession(p) /\ posted'[p] = Append(posted[p], m)
  <2>1. CASE \A a \in Addr : session[a] = p => a = k
    BY <1>7, <2>1 DEF Spread
  <2>2. CASE \E a \in Addr : session[a] = p /\ a # k
    <3>1. PICK a \in Addr : session[a] = p /\ a # k
      BY <2>2
    <3>2. p # NoPeer
      BY IocpAssumption
    <3> QED
      BY <1>7, <3>1, <3>2 DEF Spread, HasSession
  <2> QED
    BY <2>1, <2>2
<1> HIDE DEF s, n, k, m
<1>9. ASSUME NEW p \in Peer
      PROVE  /\ posted[p] \in Seq(Message)
             /\ ToSet(posted'[p]) \subseteq ToSet(posted[p]) \union {m}
             /\ NoDup(posted'[p])
  <2>1. posted[p] \in Seq(Message) /\ NoDup(posted[p])
    BY DEF IocpIInv, Shape, IocpTypeOK
  <2>2. CASE posted'[p] = posted[p]
    BY <2>1, <2>2
  <2>3. CASE posted'[p] = Append(posted[p], m)
    <3>1. m \notin ToSet(posted[p])
      BY <1>4
    <3>2. ToSet(Append(posted[p], m)) = ToSet(posted[p]) \union {m}
      BY <1>6, <2>1, Appended
    <3>3. NoDup(Append(posted[p], m))
      BY <1>6, <2>1, <3>1, NoDoubles
    <3> QED
      BY <2>1, <2>3, <3>2, <3>3
  <2> QED
    BY <1>8, <2>2, <2>3
<1>10. IocpTypeOK'
  <2>1. /\ accepts \in Nat /\ Count(port, Accepts) \in Nat /\ accepts + Count(port, Accepts) <= Depth
        /\ Depth \in Nat
    BY PortFacts, IocpAssumption DEF IocpIInv, Shape
  <2>2. accepts' + Count(port', Accepts) <= Depth
    BY <1>1, <2>1
  <2>3. accepts' + Cardinality({i \in DOMAIN port' : port'[i].kind = "Accept"}) <= Depth
    BY <1>1, <2>2, AcceptsCounted
  <2> QED
    BY <1>1, <1>7, <2>3 DEF IocpIInv, Shape, IocpTypeOK, Spread
<1>11. Owners'
  BY <1>1 DEF IocpIInv, Shape, Owners
<1>12. OnePlace'
  <2>1. ASSUME NEW q \in Peer, Waiting(q)' PROVE Waiting(q)
    <3>1. Count(port', AcceptOf(q)) > 0 => Count(port, AcceptOf(q)) > 0
      BY <1>1
    <3> QED
      BY <2>1, <3>1 DEF Waiting
  <2>2. ASSUME NEW q \in Peer, Waiting(q) PROVE Untouched(q)'
    <3>1. Untouched(q)
      BY <2>2 DEF IocpIInv, Shape, OnePlace
    <3>2. posted'[q] = posted[q] /\ sendOps'[q] = sendOps[q]
      BY <1>8, <3>1 DEF Untouched
    <3> QED
      BY <1>1, <3>1, <3>2 DEF Untouched, HasSession
  <2>3. ASSUME NEW q \in Peer
        PROVE  /\ peer'[q] = "idle" => q \notin backlog'
               /\ peer'[q] = "idle" \/ q \in backlog' => Count(port', AcceptOf(q)) = 0
               /\ Count(port', AcceptOf(q)) <= 1
    <3>1. /\ peer[q] = "idle" => q \notin backlog
          /\ peer[q] = "idle" \/ q \in backlog => Count(port, AcceptOf(q)) = 0
          /\ Count(port, AcceptOf(q)) <= 1
      BY DEF IocpIInv, Shape, OnePlace
    <3>2. /\ Count(port', AcceptOf(q)) \in Nat /\ Count(port, AcceptOf(q)) \in Nat
          /\ Count(port', AcceptOf(q)) <= Count(port, AcceptOf(q))
      BY <1>1
    <3> QED
      BY <3>1, <3>2
  <2> QED
    BY <2>1, <2>2, <2>3 DEF OnePlace
<1>13. Fresh'
  <2>1. \A q \in Peer : said'[q] > 0 => q \in Talker
    BY DEF IocpIInv, Shape, Fresh
  <2>2. ASSUME NEW x \in ToSet(port'), x.kind = "Recv" /\ x.ok
        PROVE  /\ x.count \in 1..rcvd[x.of]
               /\ \A p \in Peer : <<x.of, x.count>> \notin ToSet(posted'[p])
    <3>1. /\ x \in ToSet(port) /\ x \in Completion /\ x.of \in Peer
          /\ x.count \in 1..rcvd[x.of]
          /\ \A p \in Peer : <<x.of, x.count>> \notin ToSet(posted[p])
      BY <1>1, <2>2, Fields DEF IocpIInv, Shape, Fresh
    \* Another one with this message would count twice.
    <3>2. <<x.of, x.count>> # m
      <4> SUFFICES ASSUME x.of = s, x.count = n PROVE FALSE
        BY DEF m
      <4>1. Count(port, MessageOf(s, n)) = Count(port', MessageOf(s, n)) + 1
        BY <1>1, <1>3, MoreFacts DEF s, n
      <4>2. Count(port, MessageOf(s, n)) <= 1
        BY <1>3, <1>6 DEF IocpIInv, Shape, Fresh
      <4>3. Count(port', MessageOf(s, n)) # 0
        <5>1. x \in MessageOf(s, n)
          BY <2>2, <3>1 DEF MessageOf
        <5> QED
          BY <1>1, <2>2, <5>1, NumberSeen
      <4> QED
        BY <1>2, <4>1, <4>2, <4>3
    <3> QED
      BY <1>9, <3>1, <3>2
  <2>3. ASSUME NEW p \in Peer, NEW i \in 1..MaxMsgs PROVE Count(port', MessageOf(p, i)) <= 1
    <3>1. Count(port, MessageOf(p, i)) <= 1
      BY DEF IocpIInv, Shape, Fresh
    <3>2. /\ Count(port', MessageOf(p, i)) \in Nat /\ Count(port, MessageOf(p, i)) \in Nat
          /\ Count(port', MessageOf(p, i)) <= Count(port, MessageOf(p, i))
      BY <1>2
    <3> QED
      BY <3>1, <3>2
  <2>4. ASSUME NEW p \in Peer, NEW x \in ToSet(posted'[p]) PROVE x[2] <= rcvd[x[1]]
    <3>1. CASE x = m
      BY <1>4, <1>5, <3>1 DEF m
    <3>2. CASE x # m
      BY <1>9, <2>4, <3>2 DEF IocpIInv, Shape, Fresh
    <3> QED
      BY <3>1, <3>2
  <2> QED
    BY <2>1, <2>2, <2>3, <2>4 DEF Fresh
<1>14. ASSUME ~astray PROVE Flights' /\ Streams'
  <2>1. SendsKept
    BY <1>1, <1>3, MoreFacts DEF SendsKept
  <2> QED
    BY <1>6, <1>7, <1>14, <2>1, SpreadFlows DEF IocpIInv, Shape
<1> QED
  BY <1>9, <1>10, <1>11, <1>12, <1>13, <1>14 DEF Shape

LEMMA OnRecvKeeps == ASSUME IocpIInv, OnRecvComplete PROVE IocpIInv'
<1>1. /\ port # <<>> /\ port' = Tail(port) /\ Head(port).kind = "Recv" /\ Head(port).ok
      /\ BroadcastMsg(Head(port)) /\ Reaches(Head(port))
      /\ \/ UNCHANGED recvOps
         \/ recvOps' = [recvOps EXCEPT ![session[Head(port).key]] = @ + 1]
      /\ UNCHANGED <<peerVars, rcvd, toPeer, accepts, session, crashed>>
  BY DEF OnRecvComplete, Taken
<1>2. Head(port) \in Completion
  BY <1>1, TakenFacts DEF IocpIInv, Shape
<1>3. Head(port).key \in Addr /\ session[Head(port).key] \in Peer
  BY <1>1, <1>2, Fields DEF Reaches, IocpIInv, Shape, IocpTypeOK
<1>4. recvOps' \in [Peer -> Nat]
  <2>1. recvOps \in [Peer -> Nat]
    BY DEF IocpIInv, Shape, IocpTypeOK
  <2> QED
    BY <1>1, <1>3, <2>1
<1>5. {astray', crashed'} \subseteq BOOLEAN /\ (~astray' => ~astray)
  BY <1>1 DEF Reaches, IocpIInv, Shape, IocpTypeOK
<1> QED
  BY <1>1, <1>4, <1>5, MessageKeeps DEF IocpIInv

LEMMA OnFreedKeeps == ASSUME IocpIInv, OnFreedSession PROVE IocpIInv'
<1> DEFINE c == Head(port)
<1>1. /\ port # <<>> /\ port' = Tail(port) /\ c.kind \in {"Recv", "Send"}
      /\ session[c.key] = NoPeer /\ crashed' \in BOOLEAN
      /\ UNCHANGED <<peerVars, rcvd, toPeer, accepts, recvOps, session, astray>>
  BY DEF OnFreedSession, Taken
<1>2. CASE c.kind = "Recv" /\ c.ok /\ BroadcastMsg(c)
  <2>1. recvOps' \in [Peer -> Nat] /\ {astray', crashed'} \subseteq BOOLEAN
    BY <1>1 DEF IocpIInv, Shape, IocpTypeOK
  <2> QED
    BY <1>1, <1>2, <2>1, MessageKeeps DEF IocpIInv
<1>3. CASE UNCHANGED <<m_sendQueue, m_sendInFlight, sendOps, posted>>
  <2> USE DEF peerVars
  <2>1. /\ c \in Completion /\ port' \in Seq(Completion) /\ More(port, port', c)
        /\ Count(port', Accepts) \in Nat /\ Count(port', Accepts) <= Count(port, Accepts)
    BY <1>1, TakenFacts DEF IocpIInv, Shape
  <2>2. IocpTypeOK'
    <3>1. /\ accepts \in Nat /\ Count(port, Accepts) \in Nat /\ accepts + Count(port, Accepts) <= Depth
          /\ Depth \in Nat
      BY PortFacts, IocpAssumption DEF IocpIInv, Shape
    <3>2. accepts' + Count(port', Accepts) <= Depth
      BY <1>1, <2>1, <3>1
    <3>3. accepts' + Cardinality({i \in DOMAIN port' : port'[i].kind = "Accept"}) <= Depth
      BY <2>1, <3>2, AcceptsCounted
    <3> QED
      BY <1>1, <1>3, <2>1, <3>3 DEF IocpIInv, Shape, IocpTypeOK
  <2>3. Owners' /\ OnePlace' /\ Fresh' /\ \A p \in Peer : NoDup(posted'[p])
    BY <1>1, <1>3, LessKeeps
  <2>4. ASSUME ~astray PROVE Flights' /\ Streams'
    <3>1. SendsKept
      BY <1>1, <2>1, MoreFacts DEF SendsKept
    <3> QED
      BY <1>1, <1>3, <2>4, <3>1, Quiet DEF IocpIInv
  <2> QED
    BY <1>1, <2>2, <2>3, <2>4 DEF IocpIInv, Shape
<1> QED
  BY <1>2, <1>3 DEF OnFreedSession

LEMMA OnSendKeeps == ASSUME IocpIInv, OnSendComplete PROVE IocpIInv'
<1> DEFINE c == Head(port)
           a == c.key
           p == session[a]
           q0 == m_sendQueue[a]
           q == IF q0 = <<>> THEN <<>> ELSE Tail(q0)
           r == Append(q, Head(q))
           busy == [m_sendInFlight EXCEPT ![a] = FALSE]
           Q == [m_sendQueue EXCEPT ![a] = r]
<1> USE DEF peerVars
<1>1. /\ port # <<>> /\ port' = Tail(port) /\ c.kind = "Send" /\ c.ok /\ Reaches(c)
      /\ UNCHANGED <<peerVars, rcvd, toPeer, accepts, recvOps, session, posted, crashed>>
      /\ \/ q # <<>> /\ StartSends({a}, Q, busy)
         \/ /\ q = <<>> /\ m_sendQueue' = [m_sendQueue EXCEPT ![a] = q]
            /\ m_sendInFlight' = busy /\ UNCHANGED sendOps
  BY DEF OnSendComplete, Taken, HasNext, Push
<1>2. /\ c \in Completion /\ c \in ToSet(port) /\ port' \in Seq(Completion) /\ More(port, port', c)
      /\ Count(port', Accepts) \in Nat /\ Count(port', Accepts) <= Count(port, Accepts)
  BY <1>1, TakenFacts DEF IocpIInv, Shape
<1>3. a \in Addr /\ p \in Peer /\ p # NoPeer
  BY <1>1, <1>2, Fields DEF Reaches, IocpIInv, Shape, IocpTypeOK
<1>4. /\ q0 \in Seq(Message) /\ q \in Seq(Message)
      /\ busy \in [Addr -> BOOLEAN] /\ ~busy[a] /\ \A b \in Addr : b # a => busy[b] = m_sendInFlight[b]
  <2>1. q0 \in Seq(Message) /\ m_sendInFlight \in [Addr -> BOOLEAN] /\ <<>> \in Seq(Message)
    BY <1>3, EmptySeq DEF IocpIInv, Shape, IocpTypeOK
  <2> QED
    BY <1>3, <2>1, Shortened
<1>5. q # <<>> => r \in Seq(Message) /\ r # <<>>
  <2> HIDE DEF q
  <2> QED
    BY <1>4, Shortened, Appended
<1>6. q # <<>> => /\ Q \in [Addr -> Seq(Message)] /\ Q[a] = r
                  /\ \A b \in Addr : b # a => Q[b] = m_sendQueue[b]
  BY <1>3, <1>5 DEF IocpIInv, Shape, IocpTypeOK
<1> HIDE DEF c, a, p, q0, q, r, busy, Q
\* What becomes of the queue.
<1>7. /\ m_sendQueue' \in [Addr -> Seq(Message)] /\ m_sendInFlight' \in [Addr -> BOOLEAN]
      /\ sendOps' \in [Peer -> Seq(Message)]
      /\ \A b \in Addr : b # a => m_sendQueue'[b] = m_sendQueue[b] /\ m_sendInFlight'[b] = m_sendInFlight[b]
      /\ \A s \in Peer : s # p => sendOps'[s] = sendOps[s]
      /\ q # <<>> => Begun(r, busy[a], sendOps[p], peer[p], m_sendQueue'[a], m_sendInFlight'[a], sendOps'[p])
      /\ q = <<>> => m_sendQueue'[a] = <<>> /\ m_sendInFlight'[a] = busy[a] /\ sendOps' = sendOps
  <2>1. CASE q # <<>> /\ StartSends({a}, Q, busy)
    <3>1. {a} \in SUBSET Addr /\ Q \in [Addr -> Seq(Message)] /\ busy \in [Addr -> BOOLEAN]
      BY <1>3, <1>4, <1>6, <2>1
    <3>2. \A b \in {a} : session[b] # NoPeer /\ Q[b] # <<>>
      BY <1>3, <1>5, <1>6, <2>1 DEF p
    <3>3. Started({a}, Q, busy)
      BY <2>1, <3>1, <3>2, Starting DEF IocpIInv, Shape
    <3>4. Begun(r, busy[a], sendOps[p], peer[p], m_sendQueue'[a], m_sendInFlight'[a], sendOps'[p])
      BY <1>4, <1>6, <2>1, <3>3 DEF Started, p
    <3>5. \A s \in Peer : s # p => sendOps'[s] = sendOps[s]
      BY <3>3 DEF Started, p
    <3> QED
      BY <1>4, <1>6, <2>1, <3>3, <3>4, <3>5 DEF Started
  <2>2. CASE q = <<>> /\ m_sendQueue' = [m_sendQueue EXCEPT ![a] = q]
             /\ m_sendInFlight' = busy /\ UNCHANGED sendOps
    BY <1>3, <1>4, <2>2 DEF IocpIInv, Shape, IocpTypeOK
  <2> QED
    BY <1>1, <2>1, <2>2
<1>8. \A s \in Peer : HasSession(s) \/ sendOps'[s] = sendOps[s]
  BY <1>3, <1>7 DEF HasSession, p
<1>9. IocpTypeOK'
  <2>1. /\ accepts \in Nat /\ Count(port, Accepts) \in Nat /\ accepts + Count(port, Accepts) <= Depth
        /\ Depth \in Nat
    BY PortFacts, IocpAssumption DEF IocpIInv, Shape
  <2>2. accepts' + Count(port', Accepts) <= Depth
    BY <1>1, <1>2, <2>1
  <2>3. accepts' + Cardinality({i \in DOMAIN port' : port'[i].kind = "Accept"}) <= Depth
    BY <1>2, <2>2, AcceptsCounted
  <2>4. astray' \in BOOLEAN
    BY <1>1 DEF Reaches, IocpIInv, Shape, IocpTypeOK
  <2> QED
    BY <1>1, <1>2, <1>7, <2>3, <2>4 DEF IocpIInv, Shape, IocpTypeOK
<1>10. Owners' /\ OnePlace' /\ Fresh' /\ \A s \in Peer : NoDup(posted'[s])
  BY <1>1, <1>8, LessKeeps
<1>11. ASSUME ~astray' PROVE Flights' /\ Streams'
  <2>1. ~astray /\ c.of = p
    BY <1>1, <1>11 DEF Reaches, p, a
  <2> DEFINE n == Count(port, SendOf(a, p))
             ops == sendOps[p]
             f == m_sendInFlight[a]
             w == Way(p)
             t == posted[p]
             newQ == m_sendQueue'[a]
             newF == m_sendInFlight'[a]
             newOps == sendOps'[p]
             st == peer[p]
             g == busy[a]
  <2>2. n \in Nat /\ n > 0 /\ Count(port', SendOf(a, p)) = n - 1
    <3>1. n \in Nat /\ n = Count(port', SendOf(a, p)) + 1 /\ Count(port', SendOf(a, p)) \in Nat
      BY <1>1, <1>2, <2>1, MoreFacts DEF a
    <3> QED
      BY <3>1
  <2>3. /\ ops \in Seq(Message) /\ f \in BOOLEAN /\ w \in Seq(Message) /\ t \in Seq(Message)
        /\ newF \in BOOLEAN /\ g \in BOOLEAN /\ ~g
    <3>1. /\ ops \in Seq(Message) /\ f \in BOOLEAN /\ t \in Seq(Message)
          /\ first[p] \in Seq(Message) /\ toPeer[p] \in Seq(Message)
      BY <1>3 DEF IocpIInv, Shape, IocpTypeOK
    <3> QED
      BY <1>3, <1>4, <1>7, <3>1, Joined DEF Way
  <2>4. /\ Flight(n, ops, f, q0)
        /\ st # "reset" => Flow(w, q0, f, ops, t)
    <3>1. Flight(n, ops, f, q0)
      BY <1>3, <2>1 DEF IocpIInv, Flights, p, q0
    <3>2. st # "reset" => Flow(w, q0, f, ops, t)
      BY <1>3, <2>1 DEF IocpIInv, Streams, p, q0
    <3> QED
      BY <3>1, <3>2
  <2>5. /\ q # <<>> => Begun(r, g, ops, st, newQ, newF, newOps)
        /\ q = <<>> => newQ = <<>> /\ newF = g /\ newOps = ops
    BY <1>7
  <2> HIDE DEF n, ops, f, w, t, newQ, newF, newOps, st, g
  <2>6. /\ q0 # <<>> /\ n = 1
        /\ Flight(0, ops, g, Requeued(q0))
        /\ Flow(w, q0, f, ops, t) => Flow(w, Requeued(q0), g, ops, t)
    <3>1. /\ w \in Seq(Message) /\ q0 \in Seq(Message) /\ ops \in Seq(Message) /\ t \in Seq(Message)
          /\ n \in Nat /\ f \in BOOLEAN /\ g \in BOOLEAN /\ ~g /\ n > 0 /\ Flight(n, ops, f, q0)
      BY <1>4, <2>2, <2>3, <2>4
    <3> QED
      BY ONLY <3>1, Completed
  <2>7. q = Tail(q0)
    BY <2>6 DEF q
  <2>8. /\ q = <<>> => Requeued(q0) = <<>>
        /\ q # <<>> => Requeued(q0) = r
    BY <2>7 DEF Requeued, r
  <2>9. /\ Flight(0, newOps, newF, newQ)
        /\ st # "reset" => Flow(w, newQ, newF, newOps, t)
    <3>1. CASE q = <<>>
      BY <2>4, <2>5, <2>6, <2>8, <3>1
    <3>2. CASE q # <<>>
      <4>1. /\ r \in Seq(Message) /\ r # <<>> /\ Flight(0, ops, g, r)
            /\ Begun(r, g, ops, st, newQ, newF, newOps) /\ 0 \in Nat
            /\ st # "reset" => Flow(w, r, g, ops, t)
        BY <1>5, <2>4, <2>5, <2>6, <2>8, <3>2
      <4>2. /\ Flight(0, newOps, newF, newQ)
            /\ st # "reset" /\ Flow(w, r, g, ops, t) => Flow(w, newQ, newF, newOps, t)
        <5>1. w \in Seq(Message) /\ ops \in Seq(Message) /\ newF \in BOOLEAN /\ g \in BOOLEAN
          BY <2>3
        <5> QED
          BY ONLY <4>1, <5>1, Beginning
      <4> QED
        BY <4>1, <4>2
    <3> QED
      BY <3>1, <3>2
  <2>10. \A b \in Addr : session[b] = p => b = a
    BY <1>3 DEF IocpIInv, Shape, Owners, p
  <2>11. Flights'
    <3> SUFFICES ASSUME NEW b \in Addr, session[b] # NoPeer
                 PROVE  Flight(Count(port', SendOf(b, session[b])), sendOps'[session[b]],
                               m_sendInFlight'[b], m_sendQueue'[b])
      BY <1>1 DEF Flights
    <3>1. CASE b = a
      <4>1. Count(port', SendOf(a, p)) = 0
        BY <2>2, <2>6
      <4> QED
        BY <2>9, <3>1, <4>1 DEF p, n, newOps, newF, newQ
    <3>2. CASE b # a
      <4>1. session[b] # p /\ session[b] \in Peer
        BY <2>10, <3>2 DEF IocpIInv, Shape, IocpTypeOK
      <4>2. /\ sendOps'[session[b]] = sendOps[session[b]]
            /\ m_sendQueue'[b] = m_sendQueue[b] /\ m_sendInFlight'[b] = m_sendInFlight[b]
        BY <1>7, <3>2, <4>1
      <4>3. Count(port', SendOf(b, session[b])) = Count(port, SendOf(b, session[b]))
        BY <1>2, <2>1, <4>1, MoreFacts
      <4> QED
        BY <2>1, <4>2, <4>3 DEF IocpIInv, Flights
    <3> QED
      BY <3>1, <3>2
  <2>12. Streams'
    <3> SUFFICES ASSUME NEW s \in Peer
                 PROVE  /\ IsPrefix(first[s], posted[s])
                        /\ peer[s] # "reset" => Ordered(Way(s), posted[s])
                        /\ peer[s] # "reset" =>
                               \A b \in Addr : session[b] = s =>
                                   Flow(Way(s), m_sendQueue'[b], m_sendInFlight'[b], sendOps'[s], posted[s])
      BY <1>1 DEF Streams, Way
    <3>1. /\ IsPrefix(first[s], posted[s])
          /\ peer[s] # "reset" => Ordered(Way(s), posted[s])
          /\ peer[s] # "reset" =>
                 \A b \in Addr : session[b] = s =>
                     Flow(Way(s), m_sendQueue[b], m_sendInFlight[b], sendOps[s], posted[s])
      BY <2>1 DEF IocpIInv, Streams
    <3>2. ASSUME NEW b \in Addr, session[b] = s, peer[s] # "reset"
          PROVE  Flow(Way(s), m_sendQueue'[b], m_sendInFlight'[b], sendOps'[s], posted[s])
      <4>1. CASE b = a
        <5>1. s = p
          BY <3>2, <4>1 DEF p
        <5> QED
          BY <2>9, <3>2, <4>1, <5>1 DEF st, w, newQ, newF, newOps, t
      <4>2. CASE b # a
        <5>1. s # p
          BY <2>10, <3>2, <4>2
        <5> QED
          BY <1>7, <3>1, <3>2, <4>2, <5>1
      <4> QED
        BY <4>1, <4>2
    <3> QED
      BY <3>1, <3>2
  <2> QED
    BY <2>11, <2>12
<1> QED
  BY <1>1, <1>9, <1>10, <1>11 DEF IocpIInv, Shape

LEMMA OnFailedKeeps == ASSUME IocpIInv, OnFailedComplete PROVE IocpIInv'
<1> DEFINE c == Head(port)
           a == c.key
           p == session[a]
           rest == Tail(port)
           lost(kind) == IF kind = "Recv"
                         THEN [kind |-> "Recv", key |-> a, of |-> p, ok |-> FALSE, count |-> 0]
                         ELSE [kind |-> "Send", key |-> a, of |-> p, ok |-> FALSE]
           recvs == [i \in 1..recvOps[p] |-> lost("Recv")]
           sends == [i \in 1..Len(sendOps[p]) |-> lost("Send")]
<1> USE DEF peerVars
<1> HIDE DEF lost, recvs, sends
<1>1. /\ port # <<>> /\ c.kind \in {"Recv", "Send"} /\ Reaches(c)
      /\ port' = rest \o recvs \o sends
      /\ recvOps' = [recvOps EXCEPT ![p] = 0]
      /\ sendOps' = [sendOps EXCEPT ![p] = <<>>]
      /\ session' = [session EXCEPT ![a] = NoPeer]
      /\ UNCHANGED <<peerVars, rcvd, toPeer, accepts, m_sendQueue, m_sendInFlight, posted, crashed>>
  <2>1. /\ Taken("Recv") \/ Taken("Send")
        /\ Reaches(c) /\ CloseSession(a, rest)
        /\ UNCHANGED <<peerVars, rcvd, toPeer, accepts, m_sendQueue, m_sendInFlight, posted, crashed>>
    BY DEF OnFailedComplete
  <2>2. port # <<>> /\ c.kind \in {"Recv", "Send"}
    BY <2>1 DEF Taken
  <2>3. /\ port' = rest \o recvs \o sends
        /\ recvOps' = [recvOps EXCEPT ![p] = 0]
        /\ sendOps' = [sendOps EXCEPT ![p] = <<>>]
        /\ session' = [session EXCEPT ![a] = NoPeer]
    <3> HIDE DEF a, rest
    <3> QED
      BY <2>1 DEF CloseSession, lost, recvs, sends
  <2> QED
    BY <2>1, <2>2, <2>3
<1>2. port \in Seq(Completion)
  BY DEF IocpIInv, Shape, IocpTypeOK
<1>3. c \in Completion /\ rest \in Seq(Completion) /\ More(port, rest, c)
  <2>1. More(port, rest, c)
    BY <1>1, <1>2, TailMore
  <2> QED
    BY <2>1 DEF More
<1>4. a \in Addr /\ p \in Peer /\ p # NoPeer
  <2>1. a \in Addr
    <3>1. c \in Completion /\ c.kind # "Accept"
      BY <1>1, <1>3
    <3> HIDE DEF c
    <3> QED
      BY <3>1, Fields
  <2>2. p # NoPeer /\ session \in [Addr -> Peer \union {NoPeer}]
    BY <1>1 DEF Reaches, IocpIInv, Shape, IocpTypeOK
  <2> HIDE DEF a
  <2> QED
    BY <2>1, <2>2
<1>5. Aborted(rest, port', p)
  <2>1. /\ lost("Recv") \in Completion /\ lost("Send") \in Completion
        /\ \A k \in {"Recv", "Send"} : lost(k).kind # "Accept" /\ ~lost(k).ok /\ lost(k).of = p
    <3>1. 0 \in 0..MaxMsgs
      BY IocpAssumption
    <3> HIDE DEF a, p
    <3> QED
      BY <1>4, <3>1 DEF Completion, lost
  <2>2. recvOps[p] \in Nat /\ sendOps[p] \in Seq(Message) /\ Len(sendOps[p]) \in Nat
    BY <1>4 DEF IocpIInv, Shape, IocpTypeOK
  <2>3. recvs \in Seq(Completion) /\ sends \in Seq(Completion)
    BY <2>1, <2>2, IsASeq DEF recvs, sends
  <2>4. \A x \in ToSet(recvs) : x = lost("Recv")
    BY DEF ToSet, recvs
  <2>5. \A x \in ToSet(sends) : x = lost("Send")
    BY DEF ToSet, sends
  <2> HIDE DEF rest, p
  <2>6. Aborted(rest, rest \o recvs, p) /\ rest \o recvs \in Seq(Completion)
    BY <1>3, <2>1, <2>3, <2>4, AbortedJoined, Joined
  <2>7. Aborted(rest \o recvs, rest \o recvs \o sends, p)
    BY <2>1, <2>3, <2>5, <2>6, AbortedJoined
  <2> QED
    BY <1>1, <2>6, <2>7, AbortedTwice
<1> HIDE DEF c, a, p, rest
<1>6. /\ \A q : Count(port', AcceptOf(q)) = Count(port, AcceptOf(q))
      /\ \A q, k : /\ Count(port', MessageOf(q, k)) \in Nat /\ Count(port, MessageOf(q, k)) \in Nat
                   /\ Count(port', MessageOf(q, k)) <= Count(port, MessageOf(q, k))
      /\ \A b, q : q # p /\ b # a => Count(port', SendOf(b, q)) = Count(port, SendOf(b, q))
      /\ Count(port', Accepts) = Count(port, Accepts)
  <2>1. \A q : Count(port', AcceptOf(q)) = Count(port, AcceptOf(q))
    BY <1>1, <1>3, <1>5, MoreFacts DEF Aborted
  <2>2. ASSUME NEW q, NEW k
        PROVE  /\ Count(port', MessageOf(q, k)) \in Nat /\ Count(port, MessageOf(q, k)) \in Nat
               /\ Count(port', MessageOf(q, k)) <= Count(port, MessageOf(q, k))
    <3>1. /\ Count(rest, MessageOf(q, k)) \in Nat /\ Count(port, MessageOf(q, k)) \in Nat
          /\ \/ Count(port, MessageOf(q, k)) = Count(rest, MessageOf(q, k)) + 1
             \/ Count(port, MessageOf(q, k)) = Count(rest, MessageOf(q, k))
      BY <1>3, MoreFacts
    <3>2. Count(port', MessageOf(q, k)) = Count(rest, MessageOf(q, k))
      BY <1>5 DEF Aborted
    <3> QED
      BY <3>1, <3>2
  <2>3. ASSUME NEW b, NEW q, q # p, b # a PROVE Count(port', SendOf(b, q)) = Count(port, SendOf(b, q))
    <3>1. Count(port', SendOf(b, q)) = Count(rest, SendOf(b, q))
      BY <1>5, <2>3 DEF Aborted
    <3>2. Count(port, SendOf(b, q)) = Count(rest, SendOf(b, q))
      BY <1>3, <2>3, MoreFacts DEF a
    <3> QED
      BY <3>1, <3>2
  <2>4. Count(port', Accepts) = Count(port, Accepts)
    BY <1>1, <1>3, <1>5, MoreFacts DEF Aborted
  <2> QED
    BY <2>1, <2>2, <2>3, <2>4
<1>7. /\ port' \in Seq(Completion)
      /\ \A x \in ToSet(port') : x \in ToSet(port) \/ (x.kind # "Accept" /\ ~x.ok /\ x.of = p)
  BY <1>3, <1>5, MoreFacts DEF Aborted
<1>8. /\ session'[a] = NoPeer /\ sendOps'[p] = <<>>
      /\ \A b \in Addr : b # a => session'[b] = session[b]
      /\ \A q \in Peer : q # p => sendOps'[q] = sendOps[q]
      /\ session' \in [Addr -> Peer \union {NoPeer}]
      /\ sendOps' \in [Peer -> Seq(Message)]
      /\ recvOps' \in [Peer -> Nat]
  <2>1. <<>> \in Seq(Message)
    BY EmptySeq
  <2> QED
    BY <1>1, <1>4, <2>1 DEF IocpIInv, Shape, IocpTypeOK
<1>9. /\ \A b \in Addr : session[b] = p => b = a
      /\ \A b \in Addr : session'[b] # p
  <2>1. session[a] = p
    BY DEF p
  <2>2. \A b \in Addr : session[b] = p => b = a
    BY <1>4, <2>1 DEF IocpIInv, Shape, Owners
  <2> QED
    BY <1>4, <1>8, <2>2
<1>10. IocpTypeOK'
  <2>1. /\ accepts \in Nat /\ Count(port, Accepts) \in Nat /\ accepts + Count(port, Accepts) <= Depth
    BY PortFacts DEF IocpIInv, Shape
  <2>2. accepts' + Count(port', Accepts) <= Depth
    BY <1>1, <1>6, <2>1
  <2>3. accepts' + Cardinality({i \in DOMAIN port' : port'[i].kind = "Accept"}) <= Depth
    BY <1>7, <2>2, AcceptsCounted
  <2>4. astray' \in BOOLEAN
    BY <1>1 DEF Reaches, IocpIInv, Shape, IocpTypeOK
  <2> QED
    BY <1>1, <1>7, <1>8, <2>3, <2>4 DEF IocpIInv, Shape, IocpTypeOK
<1>11. Owners'
  <2>1. ASSUME NEW b \in Addr, NEW d \in Addr, session'[b] = session'[d], session'[b] # NoPeer
        PROVE  b = d
    <3>1. session[b] = session[d] /\ session[b] # NoPeer
      BY <1>8, <2>1
    <3> QED
      BY <3>1 DEF IocpIInv, Shape, Owners
  <2>2. ASSUME NEW x \in ToSet(port'), x.kind # "Accept", NEW b \in Addr, session'[b] = x.of
        PROVE  x.key = b
    <3>1. x.of \in Peer /\ x.of # NoPeer
      BY <1>7, <2>2, InToSet, Fields, IocpAssumption
    <3>2. b # a /\ session[b] = x.of
      BY <1>8, <2>2, <3>1
    <3>3. x.of # p
      BY <1>9, <3>2
    <3>4. x \in ToSet(port)
      BY <1>7, <2>2, <3>3
    <3> QED
      BY <2>2, <3>2, <3>4 DEF IocpIInv, Shape, Owners
  <2> QED
    BY <2>1, <2>2 DEF Owners
<1>12. OnePlace'
  <2>1. ASSUME NEW q \in Peer, Waiting(q)' PROVE Waiting(q)
    BY <1>1, <1>6, <2>1 DEF Waiting
  <2>2. ASSUME NEW q \in Peer, Waiting(q) PROVE Untouched(q)'
    <3>1. Untouched(q)
      BY <2>2 DEF IocpIInv, Shape, OnePlace
    <3>2. q # p /\ q # NoPeer
      BY <1>4, <3>1, IocpAssumption DEF Untouched, HasSession, p
    <3>3. ~HasSession(q)'
      BY <1>8, <3>1, <3>2 DEF Untouched, HasSession
    <3> QED
      BY <1>1, <1>7, <1>8, <3>1, <3>2, <3>3 DEF Untouched
  <2> QED
    BY <1>1, <1>6, <2>1, <2>2 DEF IocpIInv, Shape, OnePlace
<1>13. Fresh' /\ \A q \in Peer : NoDup(posted'[q])
  <2>1. ASSUME NEW q \in Peer, NEW k \in 1..MaxMsgs PROVE Count(port', MessageOf(q, k)) <= 1
    <3>1. Count(port, MessageOf(q, k)) <= 1
      BY DEF IocpIInv, Shape, Fresh
    <3>2. /\ Count(port', MessageOf(q, k)) \in Nat /\ Count(port, MessageOf(q, k)) \in Nat
          /\ Count(port', MessageOf(q, k)) <= Count(port, MessageOf(q, k))
      BY <1>6
    <3> QED
      BY <3>1, <3>2
  <2>2. \A x \in ToSet(port') : x.ok => x \in ToSet(port)
    BY <1>7
  <2> QED
    BY <1>1, <2>1, <2>2 DEF IocpIInv, Shape, Fresh
<1>14. ASSUME ~astray' PROVE Flights' /\ Streams'
  <2>1. ~astray
    BY <1>1, <1>14 DEF Reaches, IocpIInv, Shape, IocpTypeOK
  <2>2. Flights'
    <3> SUFFICES ASSUME NEW b \in Addr, session'[b] # NoPeer
                 PROVE  Flight(Count(port', SendOf(b, session'[b])), sendOps'[session'[b]],
                               m_sendInFlight[b], m_sendQueue[b])
      BY <1>1 DEF Flights
    <3>1. b # a /\ session'[b] = session[b]
      BY <1>8
    <3>2. session[b] # p /\ session[b] \in Peer
      BY <1>9, <3>1 DEF IocpIInv, Shape, IocpTypeOK
    <3>3. /\ sendOps'[session[b]] = sendOps[session[b]]
          /\ Count(port', SendOf(b, session[b])) = Count(port, SendOf(b, session[b]))
      BY <1>6, <1>8, <3>1, <3>2
    <3> QED
      BY <2>1, <3>1, <3>3 DEF IocpIInv, Flights
  <2>3. Streams'
    <3> SUFFICES ASSUME NEW q \in Peer
                 PROVE  /\ IsPrefix(first[q], posted[q])
                        /\ peer[q] # "reset" => Ordered(Way(q), posted[q])
                        /\ peer[q] # "reset" =>
                               \A b \in Addr : session'[b] = q =>
                                   Flow(Way(q), m_sendQueue[b], m_sendInFlight[b], sendOps'[q], posted[q])
      BY <1>1 DEF Streams, Way
    <3>1. /\ IsPrefix(first[q], posted[q])
          /\ peer[q] # "reset" => Ordered(Way(q), posted[q])
          /\ peer[q] # "reset" =>
                 \A b \in Addr : session[b] = q =>
                     Flow(Way(q), m_sendQueue[b], m_sendInFlight[b], sendOps[q], posted[q])
      BY <2>1 DEF IocpIInv, Streams
    <3>2. ASSUME NEW b \in Addr, session'[b] = q, peer[q] # "reset"
          PROVE  Flow(Way(q), m_sendQueue[b], m_sendInFlight[b], sendOps'[q], posted[q])
      <4>1. q # p /\ q # NoPeer
        BY <1>9, <3>2, IocpAssumption
      <4>2. session[b] = q /\ sendOps'[q] = sendOps[q]
        BY <1>8, <3>2, <4>1
      <4> QED
        BY <3>1, <3>2, <4>2
    <3> QED
      BY <3>1, <3>2
  <2> QED
    BY <2>2, <2>3
<1> QED
  BY <1>1, <1>10, <1>11, <1>12, <1>13, <1>14 DEF IocpIInv, Shape

-----------------------------------------------------------------------------
(* The theorems. *)

LEMMA InitKeeps == ASSUME IocpInit PROVE IocpIInv
<1>0. /\ \A p \in Peer : p # NoPeer
      /\ <<>> \in Seq(Message) /\ <<>> \in Seq(Completion) /\ Len(<<>>) = 0 /\ ToSet(<<>>) = {}
      /\ \A K : Count(<<>>, K) = 0
  BY IocpAssumption, EmptySeq, NumberNone DEF ToSet
<1>1. IocpTypeOK
  <2>1. /\ MaxMsgs \in Nat /\ Depth \in Nat /\ SndBuf \in Nat
    BY IocpAssumption
  <2>2. Cardinality({i \in DOMAIN port : port[i].kind = "Accept"}) = 0
    BY <1>0, AcceptsCounted DEF IocpInit
  <2>3. /\ peer \in [Peer -> {"idle", "open", "shut", "reset"}] /\ backlog \subseteq Peer
        /\ {astray, crashed} \subseteq BOOLEAN /\ port \in Seq(Completion)
    BY <1>0 DEF IocpInit
  <2>4. /\ said \in [Peer -> 0..MaxMsgs] /\ rcvd \in [Peer -> Nat]
        /\ recvOps \in [Peer -> Nat] /\ \A p \in Peer : rcvd[p] <= said[p]
    BY <2>1 DEF IocpInit
  <2>5. /\ toPeer \in [Peer -> Seq(Message)] /\ first \in [Peer -> Seq(Message)]
        /\ sendOps \in [Peer -> Seq(Message)] /\ posted \in [Peer -> Seq(Message)]
        /\ m_sendQueue \in [Addr -> Seq(Message)]
    BY <1>0 DEF IocpInit
  <2>6. \A p \in Peer : Len(toPeer[p]) <= SndBuf
    BY <1>0, <2>1 DEF IocpInit
  <2>7. accepts \in Nat /\ accepts + Cardinality({i \in DOMAIN port : port[i].kind = "Accept"}) <= Depth
    BY <2>1, <2>2 DEF IocpInit
  <2>8. session \in [Addr -> Peer \union {NoPeer}] /\ m_sendInFlight \in [Addr -> BOOLEAN]
    BY DEF IocpInit
  <2> QED
    BY <2>3, <2>4, <2>5, <2>6, <2>7, <2>8 DEF IocpTypeOK
<1>2. Owners
  BY <1>0 DEF IocpInit, Owners
<1>3. OnePlace
  BY <1>0 DEF IocpInit, OnePlace, Waiting, Untouched, HasSession
<1>4. Fresh /\ \A p \in Peer : NoDup(posted[p])
  BY <1>0 DEF IocpInit, Fresh, NoDup
<1>5. Flights
  BY DEF IocpInit, Flights
<1>6. Streams
  <2>1. <<>> \o <<>> = <<>> /\ IsPrefix(<<>>, <<>>)
    <3> DEFINE e == <<>>
    <3>1. e \in Seq(Message) /\ Len(e) = 0 /\ e \o e = e
      BY <1>0, ConcatEmptySeq
    <3> HIDE DEF e
    <3>2. IsPrefix(e, e) <=> Len(e) <= Len(e) /\ \A i \in 1..Len(e) : e[i] = e[i]
      BY ONLY <3>1, PrefixFacts, Zenon
    <3>3. IsPrefix(e, e)
      BY <3>1, <3>2
    <3> QED
      BY <3>1, <3>3 DEF e
  <2>2. Ordered(<<>>, <<>>)
    BY <1>0 DEF Ordered
  <2> QED
    BY <1>0, <2>1, <2>2 DEF IocpInit, Streams, Way
<1> QED
  BY <1>1, <1>2, <1>3, <1>4, <1>5, <1>6 DEF IocpIInv, Shape

LEMMA StepKeeps == ASSUME IocpIInv, [IocpNext]_iocpVars PROVE IocpIInv'
<1>1. CASE UNCHANGED iocpVars
  <2> USE <1>1 DEF iocpVars, peerVars, opVars, sessVars
  <2>1. IocpTypeOK'
    BY DEF IocpIInv, Shape, IocpTypeOK
  <2>2. Owners' /\ OnePlace'
    BY DEF IocpIInv, Shape, Owners, OnePlace, Waiting, Untouched, HasSession
  <2>3. Fresh' /\ \A p \in Peer : NoDup(posted'[p])
    BY DEF IocpIInv, Shape, Fresh
  <2>4. ASSUME ~astray PROVE Flights' /\ Streams'
    BY <2>4, Quiet DEF IocpIInv, SendsKept
  <2> QED
    BY <2>1, <2>2, <2>3, <2>4 DEF IocpIInv, Shape
<1>2. CASE \E p \in Peer : Connect(p) \/ Talk(p) \/ HangUp(p) \/ Listen(p)
  BY <1>2, ConnectKeeps, TalkKeeps, HangUpKeeps, ListenKeeps
<1>3. CASE \E p \in Peer : AcceptDone(p) \/ RecvDone(p) \/ SendDone(p)
  BY <1>3, AcceptDoneKeeps, RecvDoneKeeps, SendDoneKeeps
<1>4. CASE RunLoop
  BY <1>4, AcceptFailsKeeps, OnAcceptKeeps, OnRecvKeeps, OnSendKeeps, OnFailedKeeps, OnFreedKeeps
     DEF RunLoop
<1> QED
  BY <1>1, <1>2, <1>3, <1>4 DEF IocpNext

(* The inductive invariant of RunLoop, OnAcceptComplete and the other handlers. *)
THEOREM IocpInductive == IocpSpec => []IocpIInv
<1>1. IocpInit => IocpIInv
  BY InitKeeps
<1>2. IocpIInv /\ [IocpNext]_iocpVars => IocpIInv'
  BY StepKeeps
<1> QED
  BY <1>1, <1>2, PTL DEF IocpSpec

(* PostSend and OnSendComplete: one WSASend of a session is in flight at most, of
   the message at the front of its queue, exactly if m_sendInFlight says so. *)
THEOREM IocpInvariant == IocpSpec => []IocpInv
<1>1. IocpIInv => IocpInv
  BY OneInFlightIs DEF IocpIInv, Shape, IocpInv
<1> QED
  BY <1>1, IocpInductive, PTL

(* What BroadcastMsg gives to a session arrives in that order and without holes,
   however often OnSendComplete posts a message again. *)
THEOREM DeliversInOrder == IocpSpec => []InOrder
<1>1. IocpIInv => InOrder
  BY DEF IocpIInv, Streams, InOrder
<1> QED
  BY <1>1, IocpInductive, PTL
=============================================================================
