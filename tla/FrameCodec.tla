----------------------------- MODULE FrameCodec -----------------------------
(***************************************************************************)
(* Protocols/Framing/Shared: a frame is a big-endian length of HeaderLen   *)
(* bytes and a payload.  send_frame and recv_frame are loops over send and *)
(* recv, which take and give as many bytes as they like.  One direction of *)
(* one connection, one thread at each end.                                 *)
(***************************************************************************)
EXTENDS Integers, Sequences

CONSTANTS
    Base,           \* values of a byte: 256
    HeaderLen,      \* sizeof(uint32_t)
    MAX_PAYLOAD,
    Payload,        \* bound: the payloads offered to send_frame
    MaxPayloads,      \* bound: frames sent
    LinkCap         \* room in the connection's buffers

Byte == 0..(Base - 1)

\* How many lengths a header tells apart.
Limit ==
    LET power[i \in 0..HeaderLen] == IF i = 0 THEN 1 ELSE power[i - 1] * Base
    IN  power[HeaderLen]

ASSUME CodecAssumption ==
    /\ Base \in Nat \ {0, 1}
    /\ HeaderLen \in Nat \ {0}
    /\ MAX_PAYLOAD \in Nat
    /\ Payload \subseteq Seq(Byte)
    /\ \A payload \in Payload : Len(payload) < Limit
    /\ MaxPayloads \in Nat
    /\ LinkCap \in Nat \ {0}

VARIABLES
    sent,       \* the payloads of the frames begun
    part,       \* the part send_frame is sending: none, header, payload
    out,        \* the bytes of that part not yet accepted by send
    onWire,       \* bytes on their way
    link,       \* up; ended (FIN after the bytes on the wire); broken
    want,       \* the part recv_frame is reading: header, payload; or failed
    size,       \* the length of the payload that is being read
    in,         \* the bytes of that part read so far
    received    \* the payloads returned

codecVars == <<sent, part, out, onWire, link, want, size, in, received>>

CodecTypeOK ==
    /\ sent \in Seq(Payload)
    /\ part \in {"none", "header", "payload"}
    /\ out \in Seq(Byte) /\ (part = "none" <=> out = <<>>)
    /\ onWire \in Seq(Byte) /\ Len(onWire) <= LinkCap
    /\ link \in {"up", "ended", "broken"}
    /\ want \in {"header", "payload", "failed"}
    /\ size \in 0..MAX_PAYLOAD
    /\ in \in Seq(Byte)
    /\ Len(in) < (IF want = "payload" THEN size ELSE HeaderLen)
    /\ received \in Seq(Seq(Byte))

CodecInit ==
    /\ sent = <<>> /\ part = "none" /\ out = <<>>
    /\ onWire = <<>> /\ link = "up"
    /\ want = "header" /\ size = 0 /\ in = <<>> /\ received = <<>>

-----------------------------------------------------------------------------
(* The header: htonl and ntohl of a length.  rest[i] is n without its i lowest
   digits. *)

Header(n) ==
    LET rest[i \in 0..HeaderLen] == IF i = 0 THEN n ELSE rest[i - 1] \div Base
    IN  [i \in 1..HeaderLen |-> rest[HeaderLen - i] % Base]

Length(header) ==
    LET value[i \in 0..HeaderLen] == IF i = 0 THEN 0 ELSE value[i - 1] * Base + header[i]
    IN  value[HeaderLen]

-----------------------------------------------------------------------------
(* send_frame. *)

\* An empty payload is refused: nothing is sent.
BeginFrame(payload) ==
    /\ part = "none" /\ link = "up"
    /\ Len(sent) < MaxPayloads
    /\ payload # <<>>
    /\ sent' = Append(sent, payload)
    /\ part' = "header"
    /\ out' = Header(Len(payload))
    /\ UNCHANGED <<onWire, link, want, size, in, received>>

\* send_all: one send takes n bytes.  After the header comes the payload.
SendBytes(n) ==
    /\ link = "up"
    /\ n \in 1..Len(out) /\ Len(onWire) + n <= LinkCap
    /\ onWire' = onWire \o SubSeq(out, 1, n)
    /\ IF n < Len(out)
       THEN out' = SubSeq(out, n + 1, Len(out)) /\ UNCHANGED part
       ELSE IF part = "header"
       THEN out' = sent[Len(sent)] /\ part' = "payload"
       ELSE out' = <<>> /\ part' = "none"
    /\ UNCHANGED <<sent, link, want, size, in, received>>

\* The connection ends, in the middle of a frame or not, or breaks.
EndLink ==
    /\ link = "up"
    /\ link' \in {"ended", "broken"}
    /\ part' = "none" /\ out' = <<>>
    /\ onWire' \in IF link' = "ended" THEN {onWire} ELSE {onWire, <<>>}
    /\ UNCHANGED <<sent, want, size, in, received>>

-----------------------------------------------------------------------------
(* recv_frame. *)

\* Mutated form of Complete: a payload is done after the first recv.
CompleteAtOnce(bytes) == IF want = "header" THEN Len(bytes) = HeaderLen ELSE bytes # <<>>

\* recv_all has all it was asked for.
Complete(bytes) == Len(bytes) = IF want = "header" THEN HeaderLen ELSE size

\* Mutated forms of TooLarge: no sanity check; one byte too strict.
NeverTooLarge(n) == FALSE
TooLargeAtLimit(n) == n >= MAX_PAYLOAD

TooLarge(n) == n > MAX_PAYLOAD

\* The header is read: n is the length of the payload.
Measured(n) ==
    /\ size' = IF TooLarge(n) THEN 0 ELSE n
    /\ want' = IF TooLarge(n) THEN "failed" ELSE IF n = 0 THEN "header" ELSE "payload"
    /\ received' = IF n = 0 THEN Append(received, <<>>) ELSE received

\* One recv gives n bytes.
RecvBytes(n) ==
    LET need == (IF want = "header" THEN HeaderLen ELSE size) - Len(in)
        bytes == in \o SubSeq(onWire, 1, n)
    IN  /\ want # "failed"
        /\ n \in 1..Len(onWire) /\ n <= need
        /\ onWire' = SubSeq(onWire, n + 1, Len(onWire))
        /\ IF ~Complete(bytes)
           THEN in' = bytes /\ UNCHANGED <<want, size, received>>
           ELSE /\ in' = <<>>
                /\ IF want = "header"
                   THEN Measured(Length(bytes))
                   ELSE /\ received' = Append(received, bytes)
                        /\ want' = "header" /\ size' = 0
        /\ UNCHANGED <<sent, part, out, link>>

\* 0 or an error from recv.
RecvEnds ==
    /\ want # "failed"
    /\ link = "broken" \/ (link = "ended" /\ onWire = <<>>)
    /\ want' = "failed" /\ size' = 0 /\ in' = <<>>
    /\ UNCHANGED <<sent, part, out, onWire, link, received>>

-----------------------------------------------------------------------------

RecvAll == (\E n \in 1..LinkCap : RecvBytes(n)) \/ RecvEnds
SendAll == \E n \in 1..LinkCap : SendBytes(n)

CodecNext ==
    \/ \E payload \in Payload : BeginFrame(payload)
    \/ SendAll \/ EndLink \/ RecvAll

CodecSpec == CodecInit /\ [][CodecNext]_codecVars

\* Both ends keep calling.
FairCodec == CodecSpec /\ WF_codecVars(SendAll) /\ WF_codecVars(RecvAll)

Channel == INSTANCE FrameChannel

(* Whatever pieces send and recv make of the bytes, recv_frame returns the
   payloads given to send_frame, whole and in order. *)
ImplementsChannel == Channel!Spec

(* A frame is received while the connection stands, unless it or one before it is
   longer than MAX_PAYLOAD: recv_frame refuses nothing else, and runs into no
   other frame. *)
AllReceived ==
    \A k \in 1..MaxPayloads :
        Len(sent) >= k
            ~> \/ Len(received) >= k
               \/ link # "up"
               \/ \E i \in DOMAIN sent : i <= k /\ Len(sent[i]) > MAX_PAYLOAD
=============================================================================
