------------------------------ MODULE MCWgConf ------------------------------
(* A small instance of WgConf for TLC. *)
EXTENDS WgConf, TLC

CONSTANTS n1, n2

TwoNames == {n1, n2}

\* Of sixteen addresses: all, the upper half, and four with room for one peer; the
\* server has the first host.
Subnets == {[server |-> 1, size |-> 16], [server |-> 9, size |-> 8],
            [server |-> 5, size |-> 4]}

F(i) == Key(Foreign, i)
Host(a, i) == a.server + i

Interface == <<Text("[Interface]"), Text("text"), Text("")>>

\* A foreign peer, its address above its key; and one that is commented out.
Upside(a, i, k) == <<Text("[Peer]"), IPLine("AllowedIPs", Host(a, i)), KeyLine("PublicKey", F(k))>>
CommentedOut(a, i, k) == <<Text("#text"), KeyLine("#PublicKey", F(k)), IPLine("#AllowedIPs", Host(a, i))>>

\* With and without a newline at the end; a foreign peer after [Interface] or before;
\* a section of another kind.
MCHandWritten == [a \in Subnets |->
    {Interface,
     Interface \o Upside(a, 2, 1),
     <<Text("[Peer]"), KeyLine("PublicKey", F(1)), IPLine("AllowedIPs", Host(a, 1))>>
        \o CommentedOut(a, 1, 2) \o <<Text("")>> \o Interface \o <<Text("[Other]"), Text("text")>>}]

MCEdits == [a \in Subnets |->
    {Upside(a, 3, 3) \o <<Text("")>>, CommentedOut(a, 2, 4) \o <<Text("")>>}]

Interchangeable == Permutations(Names)
=============================================================================
