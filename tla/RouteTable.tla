----------------------------- MODULE RouteTable -----------------------------
(***************************************************************************)
(* Addresses and routing tables, as the routers of Teme/Tema1 and pc pirvu *)
(* keep them: an address is the unsigned int a little-endian processor     *)
(* loads from its octets in network order, so the first octet is the least *)
(* significant one.                                                        *)
(***************************************************************************)
EXTENDS Integers, Sequences, FiniteSets

CONSTANTS
  Octets,          \* octets of an address: 4
  OctetBits,       \* bits of an octet: 8
  Iface            \* interfaces

ASSUME RouteTableAssumption == /\ Octets \in Nat \ {0} /\ OctetBits \in Nat \ {0}
                               /\ Iface \subseteq Nat

W == Octets * OctetBits
Addr == 0 .. 2^W - 1
Octet == 0 .. 2^OctetBits - 1
Dotted == [1..Octets -> Octet]     \* a.b.c.d

\* A line of a routing table's file.
Line == [prefix : Dotted, next_hop : Dotted, mask : Dotted, interface : Iface]

Bit(a, i) == (a \div 2^i) % 2
\* The place in memory of the bit that is the n-th from the left in a.b.c.d.
NetBit(n) == (n \div OctetBits) * OctetBits + (OctetBits - 1 - (n % OctetBits))

\* htonl(ipToInt(s)), or inet_aton.
InMemory(d) ==
  LET sum[k \in 0..Octets] == IF k = 0 THEN 0 ELSE sum[k - 1] + d[k] * 2^(OctetBits * (k - 1))
  IN  sum[Octets]

\* a & b.
And(a, b) ==
  LET sum[i \in 0..W] == IF i = 0 THEN 0 ELSE sum[i - 1] + Bit(a, i - 1) * Bit(b, i - 1) * 2^(i - 1)
  IN  sum[W]

\* One line of the file read.
Parsed(line) == [line EXCEPT !.prefix = InMemory(@), !.next_hop = InMemory(@), !.mask = InMemory(@)]

-----------------------------------------------------------------------------
(* What a lookup goes by. *)

Matches(e, a) == And(a, e.mask) = e.prefix
=============================================================================
