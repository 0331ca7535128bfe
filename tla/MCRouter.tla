------------------------------ MODULE MCRouter ------------------------------
(* An instance of Router for TLC: addresses of two octets of two bits. *)
EXTENDS Router, TLC

Net(a, hop, i) == [prefix |-> <<a, 0>>, next_hop |-> hop, mask |-> <<3, 0>>, interface |-> i]

\* Two networks with a host each, and a third behind the second's host.
Remote == <<Net(1, <<1, 1>>, 0), Net(2, <<2, 1>>, 1), Net(3, <<2, 1>>, 1)>>
\* A host's own line after its networks', as rtable0.txt and rtable1.txt of pc pirvu end.
Host(a, b, i) == [prefix |-> <<a, b>>, next_hop |-> <<a, b>>, mask |-> <<3, 3>>, interface |-> i]
WithHost == Append(Remote, Host(1, 1, 0))
\* A host's line whose prefix is too far from its network's to be sorted.
Unsorted == <<Net(1, <<1, 1>>, 0), Host(1, 3, 1)>>
\* Only networks, of one host.
OneHop == SubSeq(Remote, 2, 3)
SomeFiles == {WithHost, Unsorted, OneHop}

At(a, b) == a + 4 * b
OwnIps == 0 :> At(1, 2) @@ 1 :> At(2, 2)
TheHosts == {At(1, 1), At(2, 1)}
SomeDests == {At(1, 1), At(2, 1), At(3, 1), At(0, 1), At(1, 2)}
=============================================================================
