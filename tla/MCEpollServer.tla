--------------------------- MODULE MCEpollServer ---------------------------
EXTENDS EpollServer, TLC

CONSTANTS p1, p2, p3, f1, f2, f3

Two == {p1, p2}
Three == {p1, p2, p3}
One == {p1}
Fds2 == {f1, f2}
Fds3 == {f1, f2, f3}

\* Two clients that talk at length; or three, one of which has sent a byte, and
\* the third of which stays.
FewBytes ==
    \/ peer[p3] = "idle"
    \/ peer[p3] = "open" /\ sent[p1] + sent[p2] <= 1

\* p1 and p2 are interchangeable, and so are the descriptors.
Symmetry == {f @@ g : f \in Permutations(Two), g \in Permutations(Fds)}
=============================================================================
