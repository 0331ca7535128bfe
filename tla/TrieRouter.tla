----------------------------- MODULE TrieRouter -----------------------------
(***************************************************************************)
(* The IPv4 router of "pc pirvu"/router.cpp.  It takes a packet at a time  *)
(* and forwards it, answers it or drops it; the first packet for an        *)
(* address not yet in arpTable waits for an ARP reply, with an empty entry *)
(* in the table.  The next packet for the address finds that entry and     *)
(* goes out to an empty MAC; and any reply empties the whole queue.        *)
(***************************************************************************)
EXTENDS RouteTable

CONSTANTS
  Files,           \* the routing tables' files: sequences of Line
  MyIp,            \* [Iface -> Addr]
  Hosts,           \* addresses that answer ARP requests
  Mac, Empty,      \* what a host may announce; 00:00:00:00:00:00
  Dests, Ttls,     \* what packets arrive with
  MaxPackets,      \* bound: packets that arrive
  MaxUnasked       \* bound: ARP replies nobody asked for

ASSUME TrieRouterAssumption ==
  /\ Files \subseteq Seq(Line) /\ MyIp \in [Iface -> Addr] /\ Empty \notin Mac
  /\ Hosts \subseteq Addr /\ Dests \subseteq Addr /\ Ttls \subseteq 0..255
  /\ MaxPackets \in Nat /\ MaxUnasked \in Nat

VARIABLES
  rt,              \* the lines of the table's file
  arpTable,        \* ip -> mac, or Empty
  q,               \* packets that wait
  asked,           \* addresses an ARP request is out for
  out,             \* frames sent, ARP requests left out
  received,        \* packets received
  unasked,         \* ARP replies nobody asked for
  latest           \* ip -> the MAC it announced last, or Empty

vars == <<rt, arpTable, q, asked, out, received, unasked, latest>>

NoEntry == [prefix |-> 0, next_hop |-> 0, mask |-> 0, interface |-> 0]

-----------------------------------------------------------------------------
(* The trie: a node is the path of bits that leads to it.                    *)

parseRTable(file) == [k \in DOMAIN file |-> Parsed(file[k])]
Tables == {parseRTable(file) : file \in Files}

\* Ones from the left; the last bit is never looked at.
MaskLength(mask) == Cardinality({n \in 0..W-2 : \A j \in 0..n : Bit(mask, NetBit(j)) = 1})

\* Where insert puts an entry; an empty path is not put anywhere.
PathFromTheOtherEnd(e) == [i \in 1..MaskLength(e.mask) |-> Bit(e.prefix, W - i)]
Path(e) == [i \in 1..MaskLength(e.mask) |-> Bit(e.prefix, i - 1)]
Nodes(t) == UNION {{SubSeq(Path(t[k]), 1, n) : n \in 0..Len(Path(t[k]))} : k \in DOMAIN t}

\* The entry a node holds: the last that was put there.
Data(t, node) ==
  LET there == {k \in DOMAIN t : Path(t[k]) = node}
  IN  IF node = << >> \/ there = {} THEN NoEntry
      ELSE t[CHOOSE k \in there : \A j \in there : j <= k]

\* The child that next goes to, if there is one: below the root, for a 1 that
\* is missing, the 0.
Child(nodes, node, bit) ==
  IF node # << >> /\ bit = 1 /\ Append(node, 1) \notin nodes THEN Append(node, 0) ELSE Append(node, bit)

\* getPrefix: the entry of the last node reached, whether it has one or not.
FindIn(t, elem) ==
  LET nodes == Nodes(t)
      walk[n \in 0..W] ==
        IF n = 0 THEN << >>
        ELSE LET node == walk[n - 1]
                 child == Child(nodes, node, Bit(elem, n - 1))
             IN  IF Len(node) = n - 1 /\ child \in nodes THEN child ELSE node
  IN  IF elem = 0 THEN NoEntry ELSE Data(t, walk[W])

\* Every lookup there can be.
Entries == [t \in Tables |-> [a \in Addr |-> FindIn(t, a)]]
findBestEntry(ip) == Entries[rt][ip]

Init == /\ rt \in Tables
        /\ arpTable = << >> /\ q = << >>
        /\ asked = {} /\ out = << >>
        /\ received = 0 /\ unasked = 0
        /\ latest = [ip \in Addr |-> Empty]

-----------------------------------------------------------------------------
(* Frames. *)

Sent(frames) == out' = out \o frames

\* p goes out, its TTL one less, to mac.
Forwarded(p, mac) == [what |-> "forward", id |-> p.id, ttl |-> (p.ttl - 1) % 256, daddr |-> p.daddr,
                      dhost |-> mac, interface |-> findBestEntry(p.daddr).interface]

Receive == received' = received + 1
Id == received + 1

-----------------------------------------------------------------------------
(* ARP. *)

\* sendARPReply: for the router itself, or for another host in its table.
ArpAnswer(i, ip, mac) ==
  Sent(<<[what |-> "arp", id |-> Id, daddr |-> ip, dhost |-> mac, interface |-> i]>>)

ArpRequest(i, tpa) ==
  /\ Receive
  /\ \/ tpa = MyIp[i] /\ Sent(<<[what |-> "mine", id |-> Id, interface |-> i]>>)
     \/ tpa # MyIp[i] /\ tpa \in DOMAIN arpTable /\ ArpAnswer(i, tpa, arpTable[tpa])
     \/ tpa # MyIp[i] /\ tpa \notin DOMAIN arpTable /\ UNCHANGED out
  /\ UNCHANGED <<rt, arpTable, q, asked, unasked, latest>>

\* arpTable[ip] = mac, an older entry being overwritten.
Entered(ip, mac) == [x \in DOMAIN arpTable \cup {ip} |-> IF x = ip THEN mac ELSE arpTable[x]]

\* How many packets a reply lets out of the queue.
One(waiting) == IF waiting = << >> THEN 0 ELSE 1
Released(waiting) == Len(waiting)

\* The MAC a packet that waited gets when ip answers.
Replied(p, ip, mac) == mac
Looked(p, ip, mac) == Entered(ip, mac)[p.daddr]

ArpReply(ip, mac) ==
  /\ arpTable' = Entered(ip, mac)
  /\ Sent([k \in 1..Released(q) |-> Forwarded(q[k], Looked(q[k], ip, mac))])
  /\ q' = SubSeq(q, Released(q) + 1, Len(q))
  /\ asked' = asked \ {ip}
  /\ latest' = [latest EXCEPT ![ip] = mac]
  /\ UNCHANGED <<rt, received>>

HostReplies(ip, mac) == ip \in asked /\ ArpReply(ip, mac) /\ UNCHANGED unasked
HostAnnounces(ip, mac) == /\ unasked < MaxUnasked /\ unasked' = unasked + 1
                          /\ ArpReply(ip, mac)

-----------------------------------------------------------------------------
(* IP: the tests in the order the code makes them.  m.sum says whether the    *)
(* checksum is right, m.echo whether it is an ICMP echo request.              *)

Drop(m) == /\ Receive /\ (~m.sum \/ m.ttl < 1)
           /\ UNCHANGED <<rt, arpTable, q, asked, out, unasked, latest>>

\* sendICMPReply and sendICMPscratch: to where m came from.
Reply(m, what) == /\ Sent(<<[what |-> what, id |-> m.id, interface |-> m.interface]>>)
                  /\ UNCHANGED <<rt, arpTable, q, asked, unasked, latest>>

Alive(m) == m.sum /\ m.ttl > 1
HasEntry(m) == findBestEntry(m.daddr).prefix # 0
ForMe(m) == m.echo /\ m.daddr = MyIp[m.interface]

TimeExceeded(m) == Receive /\ m.sum /\ m.ttl = 1 /\ Reply(m, "exceeded")
Unreachable(m) == Receive /\ Alive(m) /\ ~HasEntry(m) /\ Reply(m, "unreachable")
Echo(m) == Receive /\ Alive(m) /\ HasEntry(m) /\ ForMe(m) /\ Reply(m, "echo")

KeptAndSent(m) == Sent(<<Forwarded(m, Empty)>>)
Kept(m) == UNCHANGED out

\* The first packet for its destination.
Ask(m) == /\ Receive /\ Alive(m) /\ HasEntry(m) /\ ~ForMe(m)
          /\ m.daddr \notin DOMAIN arpTable
          /\ arpTable' = Entered(m.daddr, Empty)
          /\ asked' = asked \cup {m.daddr}
          /\ q' = Append(q, [id |-> m.id, daddr |-> m.daddr, ttl |-> m.ttl])
          /\ Kept(m)
          /\ UNCHANGED <<rt, unasked, latest>>

\* Any other, whether the entry is empty or not.
Forward(m) == /\ Receive /\ Alive(m) /\ HasEntry(m) /\ ~ForMe(m)
              /\ m.daddr \in DOMAIN arpTable
              /\ Sent(<<Forwarded(m, arpTable[m.daddr])>>)
              /\ UNCHANGED <<rt, arpTable, q, asked, unasked, latest>>

Arriving == [id : {Id}, daddr : Dests, ttl : Ttls, sum : BOOLEAN, echo : BOOLEAN, interface : Iface]

Arrival == /\ received < MaxPackets
           /\ \/ \E i \in Iface, tpa \in Dests : ArpRequest(i, tpa)
              \/ \E m \in Arriving :
                   Drop(m) \/ TimeExceeded(m) \/ Unreachable(m) \/ Echo(m) \/ Ask(m) \/ Forward(m)

Next == \/ Arrival
        \/ \E ip \in Hosts, mac \in Mac : HostReplies(ip, mac) \/ HostAnnounces(ip, mac)

Spec == Init /\ [][Next]_vars

\* A host that is there answers what it is asked.
Fairness == \A ip \in Hosts : WF_vars(\E mac \in Mac : HostReplies(ip, mac))
FairSpec == Spec /\ Fairness

-----------------------------------------------------------------------------
(* Type invariant. *)

WaitingPacket == [id : 1..MaxPackets, daddr : Addr, ttl : 2..255]

\* The queue, tables and frames of router.cpp hold values of the code's types.
TypeOK ==
  /\ rt \in Tables
  /\ DOMAIN arpTable \subseteq Addr /\ arpTable \in [DOMAIN arpTable -> Mac \cup {Empty}]
  /\ q \in Seq(WaitingPacket)
  /\ asked \subseteq Addr
  /\ received \in 0..MaxPackets /\ unasked \in 0..MaxUnasked
  /\ latest \in [Addr -> Mac \cup {Empty}]

-----------------------------------------------------------------------------
(* Safety. *)

\* The empty entry that Ask leaves (router.cpp:319) stands for one packet and
\* its request: no other packet for that address joins the queue before the
\* answer, and none is in the queue after it.
EmptyMeansAsked ==
  /\ \A k \in DOMAIN q : q[k].daddr \in DOMAIN arpTable
  /\ \A i, j \in DOMAIN q : q[i].daddr = q[j].daddr => i = j
  /\ \A ip \in DOMAIN arpTable : arpTable[ip] = Empty => ip \in asked
  /\ \A k \in DOMAIN q : arpTable[q[k].daddr] = Empty

\* The table is up to date: an entry is what its host announced last, and
\* neither the empty entry nor a flush takes that back (router.cpp:242-247, 319).
TableIsLatest ==
  \A ip \in Addr : IF ip \in DOMAIN arpTable THEN arpTable[ip] = latest[ip] ELSE latest[ip] = Empty

\* A frame goes to what the host it is for announced last, or to the empty MAC
\* if it never did, though it may be another host's reply that lets it out of the
\* queue (router.cpp:250-272); the same of the answers given for other hosts.
SentToOwner ==
  [][\A k \in DOMAIN out' \ DOMAIN out : out'[k].what \in {"forward", "arp"} =>
       out'[k].dhost = latest'[out'[k].daddr]]_vars

\* A network under a mask of whole octets, not of all.
OctetMask(mask, k) == \A n \in 0..W-1 : (Bit(mask, NetBit(n)) = 1) <=> (n < k * OctetBits)
Network(e) == Matches(e, e.prefix) /\ \E k \in 1..Octets-1 : OctetMask(e.mask, k)

\* Nothing else in the table lies within entry j's network.
Within(e, f) == /\ \A b \in 0..W-1 : Bit(f.mask, b) = 1 => Bit(e.mask, b) = 1
                /\ Matches(f, e.prefix)
Alone(t, j) == \A i \in DOMAIN t \ {j} : ~Within(t[i], t[j])

\* An address gets the entry of the network it is in, though the walk goes by
\* bits in memory order and may turn to a 0 for a 1 (trie.h:46-93): whenever the
\* network is of whole octets and no other entry lies within it.  Every network
\* in the tables of pc pirvu is such a one (a host's line has no network there).
LookupFindsEntry ==
  \A j \in DOMAIN rt : Network(rt[j]) /\ Alone(rt, j) =>
    \A a \in Addr \ {0} : Matches(rt[j], a) => findBestEntry(a) = rt[j]

-----------------------------------------------------------------------------
(* "received IP packet, get header and find longest prefix match"             *)
(* (router.cpp:275).                                                           *)

Ones(mask) == Cardinality({i \in 0..W-1 : Bit(mask, i) = 1})

\* The entries that match a with the longest mask.
LongestMatches(t, a) ==
  {t[k] : k \in {j \in DOMAIN t :
     /\ Matches(t[j], a)
     /\ \A i \in DOMAIN t : Matches(t[i], a) => Ones(t[i].mask) <= Ones(t[j].mask)}}

\* An address that entries match gets the one of them with the longest mask.
LongestWins == \A a \in Addr : LongestMatches(rt, a) # {} => findBestEntry(a) \in LongestMatches(rt, a)

-----------------------------------------------------------------------------
(* Refinement: every packet has one fate. *)

Frames(id) == {k \in DOMAIN out : out[k].id = id}
Waits(id) == {k \in DOMAIN q : q[k].id = id}

FateOf(id) ==
  IF id > received THEN "new"
  ELSE IF Frames(id) = {} THEN IF Waits(id) = {} THEN "dropped" ELSE "waiting"
  ELSE IF Waits(id) # {} \/ Cardinality(Frames(id)) > 1 THEN "twice"
  ELSE IF \E k \in Frames(id) : out[k].what = "forward" THEN "forwarded" ELSE "answered"

OneFate == INSTANCE Forwarding WITH
             Packet <- 1..MaxPackets, fate <- [id \in 1..MaxPackets |-> FateOf(id)]

\* Every packet is dropped, answered, or forwarded once, at once or when its
\* wait is over.
ImplementsForwarding == OneFate!Spec

-----------------------------------------------------------------------------
(* Liveness, under Fairness. *)

WaitsFor(ip) == \E k \in DOMAIN q : q[k].daddr = ip

\* What waits for a host that is there leaves.
QueueDrains == \A ip \in Hosts : WaitsFor(ip) ~> ~WaitsFor(ip)
=============================================================================
