-------------------------- MODULE MCDirectServer --------------------------
EXTENDS DirectServer, TLC

CONSTANTS p1, p2, p3

Two == {p1, p2}
Three == {p1, p2, p3}
Both == {"select", "blocking"}

\* Two clients that send two bytes, p2 only among threads and before they are
\* stopped; or three, of which p1 has sent a byte, and only p2 hangs up.
FewBytes ==
    \/ /\ peer[p3] = "idle"
       /\ sent[p2] = 0 \/ (sent[p1] <= 1 /\ sent[p2] = 1 /\ kind = "blocking" /\ owner = "run")
    \/ /\ peer[p1] = "open" /\ peer[p3] = "open"
       /\ sent[p1] <= 1 /\ sent[p2] = 0
       /\ owner = "run"
=============================================================================
