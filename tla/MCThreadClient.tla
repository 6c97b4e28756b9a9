-------------------------- MODULE MCThreadClient --------------------------
EXTENDS ThreadClient

\* Three lines, or less and a word or two of the server; two lines of the iocp client
\* to a server that stays silent, or less.
Few ==
    /\ typed + said <= (CASE kind \in {"poll", "epoll"} -> 4 [] kind = "iocp" -> 2 [] OTHER -> 3)
    /\ kind = "iocp" => typed <= 1 \/ server = "open"
=============================================================================
