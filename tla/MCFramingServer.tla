-------------------------- MODULE MCFramingServer --------------------------
EXTENDS FramingServer, FiniteSets, TLC

CONSTANTS a, b, c, d, e

Two == {a, b}

\* Frames of a and b fit into a queue, of c only in what recv_frame takes, of e not
\* even in that; d sends empty ones.
Sizes == (a :> 1) @@ (b :> 2) @@ (c :> 3) @@ (d :> 0) @@ (e :> 4)
SizesOfPeers == [p \in Peer |-> Sizes[p]]

\* Two clients that send three frames and hang up; or three that stay, where b and
\* one other send a frame; or one that sends too long a frame to two; or Stop with
\* two clients, of which b talks and a hangs up.
FewEvents ==
    \/ owner = "idle" /\ peer[d] = "idle" /\ peer[e] = "idle" /\ sent[a] + sent[b] <= 3
    \/ /\ owner = "idle" /\ peer[e] = "idle"
       /\ \A p \in Peer : sent[p] <= 1 /\ peer[p] \in {"idle", "open"}
       /\ sent[a] = 0 \/ sent[d] = 0
    \/ /\ owner = "idle" /\ peer[d] = "idle" /\ sent[a] = 0 /\ sent[b] <= 1 /\ sent[e] <= 1
       /\ \A p \in Peer : peer[p] \in {"idle", "open"}
    \/ peer[d] = "idle" /\ peer[e] = "idle" /\ sent[a] = 0 /\ peer[b] \in {"idle", "open"}

SpecFew == Init /\ [][Next /\ FewEvents']_vars

\* One client that talks, to a; c sends only one frame.
OneTalker ==
    /\ Cardinality({p \in Peer \ {a} : peer[p] # "idle"}) <= 1
    /\ sent[c] <= 1

FairFew == Init /\ [][Next /\ OneTalker']_vars /\ Fairness
=============================================================================
