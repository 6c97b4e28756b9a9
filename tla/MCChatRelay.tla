---------------------------- MODULE MCChatRelay ----------------------------
EXTENDS ChatRelay, TLC

CONSTANTS p1, p2, p3, p4

Four == {p1, p2, p3, p4}
Talkers == {p1, p2}
Listeners == {p3, p4}

\* Talkers and listeners are each interchangeable among themselves.
Symmetry == {f @@ g : f \in Permutations(Talkers), g \in Permutations(Listeners)}

\* Four peers when one byte of each talker is read; three for one byte more.
FewTokens ==
    \/ \A s \in Talkers : said[s] <= 1
    \/ said[p1] + said[p2] <= 3 /\ \E p \in Listeners : state[p] = "out"

SpecFew == Init /\ [][Next /\ FewTokens']_vars
=============================================================================
