---------------------------- MODULE MCFrameCodec ----------------------------
EXTENDS FrameCodec

\* All payloads of up to three bytes; the longest exceed MAX_PAYLOAD.
ShortPayloads == UNION {[1..n -> Byte] : n \in 0..3}
=============================================================================
