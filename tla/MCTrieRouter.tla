---------------------------- MODULE MCTrieRouter ----------------------------
(* An instance of TrieRouter for TLC: addresses of two octets of two bits. *)
EXTENDS TrieRouter, TLC

Net(a, i) == [prefix |-> <<a, 0>>, next_hop |-> <<a, 1>>, mask |-> <<3, 0>>, interface |-> i]

\* Three networks, two on the interfaces.
Networks == <<Net(1, 0), Net(3, 1), Net(2, 1)>>
\* A host's own line within a network, another network, and a host in none.
Host(a, b, i) == [prefix |-> <<a, b>>, next_hop |-> <<a, b>>, mask |-> <<3, 3>>, interface |-> i]
Nested == <<Net(1, 0), Host(1, 3, 1), Net(2, 1), Host(3, 1, 0)>>
TwoFiles == {Networks, Nested}

\* With three octets: one prefix with two masks.
Wide(mask, i) == [prefix |-> <<1, 0, 0>>, next_hop |-> <<1, 1, 1>>, mask |-> mask, interface |-> i]
TwoMasks == {<<Wide(<<3, 0, 0>>, 0), Wide(<<3, 3, 0>>, 1)>>}

At(a, b) == a + 4 * b
OwnIps == 0 :> At(1, 2) @@ 1 :> At(2, 2)
TheHosts == {At(1, 1), At(2, 1)}
SomeDests == {At(1, 1), At(2, 1), At(3, 1), At(0, 1), At(1, 2)}
=============================================================================
