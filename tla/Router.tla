------------------------------- MODULE Router -------------------------------
(***************************************************************************)
(* The IPv4 router of Teme/Tema1/router.c: one thread that takes a packet  *)
(* at a time and forwards it, answers it, drops it, or keeps it until its  *)
(* next hop has answered an ARP request.  Hosts answer the requests; they  *)
(* may also announce themselves unasked.                                   *)
(***************************************************************************)
EXTENDS RouteTable

CONSTANTS
  Files,           \* the routing tables' files: sequences of Line
  MyIp,            \* [Iface -> Addr]
  Hosts,           \* addresses that answer ARP requests
  Mac,             \* what a host may announce
  Dests, Ttls,     \* what packets arrive with
  MaxPackets,      \* bound: packets that arrive
  MaxUnasked       \* bound: ARP replies nobody asked for

ASSUME RouterAssumption ==
  /\ Files \subseteq Seq(Line) /\ MyIp \in [Iface -> Addr]
  /\ Hosts \subseteq Addr /\ Dests \subseteq Addr /\ Ttls \subseteq 0..255
  /\ MaxPackets \in Nat /\ MaxUnasked \in Nat

VARIABLES
  rtable,          \* the sorted table
  arp_table,       \* ip -> mac: of several entries of one ip, the first
  dups, slot,      \* q: first dups pointers to the loop's firstPacket ...
  own,             \* ... then packets with memory of their own
  asked,           \* addresses an ARP request is out for
  out,             \* frames sent, ARP requests left out
  received,        \* packets received
  unasked,         \* ARP replies nobody asked for
  dropped,         \* packets dropped
  mixed            \* packets that shared firstPacket with another

table == <<rtable, arp_table>>
queue == <<dups, slot, own>>
ghosts == <<dropped, mixed>>
vars == <<rtable, arp_table, dups, slot, own, asked, out, received, unasked, dropped, mixed>>

NoPacket == [id |-> 0, daddr |-> 0, ttl |-> 0]
NoRoute == [prefix |-> 0, next_hop |-> 0, mask |-> 0, interface |-> -1]

-----------------------------------------------------------------------------
(* The routing table. *)

\* An int, as the processor subtracts.
Int32(x) == LET u == x % 2^W IN IF u < 2^(W - 1) THEN u ELSE u - 2^W
Ascending(o1, o2) == Int32(o1.prefix - o2.prefix)
comparator(o1, o2) == Int32(o2.prefix - o1.prefix)

\* What qsort may leave: where the comparator is no order, anything.
Permuted(file) ==
  {[k \in DOMAIN file |-> file[p[k]]] : p \in {f \in [DOMAIN file -> DOMAIN file] :
                                                 \A i, j \in DOMAIN file : f[i] = f[j] => i = j}}
Sorted(file) ==
  LET all == Permuted(file)
      ordered == {s \in all : \A i, j \in DOMAIN file : i < j => comparator(s[i], s[j]) <= 0}
  IN  IF ordered = {} THEN all ELSE ordered

readRtable(file) == [k \in DOMAIN file |-> Parsed(file[k])]

Tables == UNION {Sorted(readRtable(file)) : file \in Files}

\* The binary search in table t, on indices from 0.
BinarySearch(t, dest) ==
  LET n == Len(t)
      search[span \in (0..n) \X (-1..n-1)] ==
        LET left == span[1]
            right == span[2]
            mid == (left + right) \div 2
            e == t[mid + 1]
            net == And(dest, e.mask)
        IN  IF left > right THEN NoRoute
            ELSE IF net = e.prefix THEN e
            ELSE IF net > e.prefix THEN search[<<left, mid - 1>>]
            ELSE search[<<mid + 1, right>>]
  IN  search[<<0, n - 1>>]

\* Every lookup there can be.
Routes == [t \in Tables |-> [dest \in Addr |-> BinarySearch(t, dest)]]
get_best_route(dest) == Routes[rtable][dest]

Init == /\ rtable \in Tables
        /\ arp_table = << >>
        /\ dups = 0 /\ slot = NoPacket /\ own = << >>
        /\ asked = {} /\ out = << >>
        /\ received = 0 /\ unasked = 0 /\ dropped = 0 /\ mixed = {}

-----------------------------------------------------------------------------
(* Frames. *)

\* p goes out, its TTL one less (in a byte), to mac.
Forwarded(p, mac) ==
  [what |-> "forward", id |-> p.id, ttl |-> (p.ttl - 1) % 256, daddr |-> p.daddr,
   dhost |-> mac, interface |-> get_best_route(p.daddr).interface]
Sent(frames) == out' = out \o frames

\* The q of the code.
q == [k \in 1..dups + Len(own) |-> IF k <= dups THEN slot ELSE own[k - dups]]

-----------------------------------------------------------------------------
(* ARP. *)

\* A request: whoever is asked for, the router answers with its own address.
AnswerArp(i) ==
  /\ received' = received + 1
  /\ Sent(<<[what |-> "arp", id |-> received + 1, interface |-> i]>>)
  /\ UNCHANGED <<table, queue, asked, unasked, ghosts>>

\* Whether q's packet p leaves when ip has answered.
AnsweredAny(p, ip) == TRUE
Answered(p, ip) == get_best_route(p.daddr).next_hop = ip

\* Where in own the packets are that ip's answer leaves waiting.
EveryOne(ip) == DOMAIN own
Others(ip) == {k \in DOMAIN own : ~Answered(own[k], ip)}

\* What the n copies of slot that wait on, and the packets in rest, become: all are the last one.
Requeued(n, rest) ==
  /\ dups' = n + Cardinality(rest)
  /\ IF rest = {} THEN slot' = (IF n > 0 THEN slot ELSE NoPacket)
     ELSE \E last \in rest : (\A k \in rest : k <= last) /\ slot' = own[last]
  /\ own' = << >>

\* A reply.  The packets that leave do so in their turn, and are changed where they lie, so a
\* copy of slot counts down what the ones before it left.
ArpReply(ip, mac) ==
  LET gone == IF dups > 0 /\ Answered(slot, ip) THEN dups ELSE 0
      ours == {k \in DOMAIN own : Answered(own[k], ip)}
      rest == Others(ip)
  IN  /\ arp_table' = [x \in DOMAIN arp_table \cup {ip} |->
                         IF x \in DOMAIN arp_table THEN arp_table[x] ELSE mac]
      /\ \E turn \in [1..Cardinality(ours) -> ours] :
           /\ \A j, k \in DOMAIN turn : j < k => turn[j] < turn[k]
           /\ Sent([k \in 1..gone + Cardinality(ours) |->
                      Forwarded(IF k > gone THEN own[turn[k - gone]]
                                ELSE [slot EXCEPT !.ttl = (@ - (k - 1)) % 256],
                                [ip |-> ip, mac |-> mac])])
      /\ Requeued(dups - gone, rest)
      /\ mixed' = IF dups - gone + Cardinality(rest) < 2 THEN mixed
                  ELSE mixed \cup {own[k].id : k \in rest}
                             \cup (IF dups > gone THEN {slot.id} ELSE {})
      /\ asked' = asked \ {ip}
      /\ UNCHANGED <<rtable, received, dropped>>

HostReplies(ip, mac) == ip \in asked /\ ArpReply(ip, mac) /\ UNCHANGED unasked
HostAnnounces(ip, mac) == /\ unasked < MaxUnasked /\ unasked' = unasked + 1
                          /\ ArpReply(ip, mac)

-----------------------------------------------------------------------------
(* IP: the tests in the order the code makes them.  m.sum says whether the    *)
(* checksum is right, m.echo whether it is an ICMP echo request.              *)

Receive(m) == received' = received + 1 /\ m.id = received + 1

Drop(m) == /\ Receive(m) /\ ~m.sum
           /\ dropped' = dropped + 1
           /\ UNCHANGED <<table, queue, asked, out, unasked, mixed>>

\* send_icmp and send_icmp_error: to where m came from.
Reply(m, what) == /\ Sent(<<[what |-> what, id |-> m.id, interface |-> m.interface]>>)
                  /\ UNCHANGED <<table, queue, asked, unasked, ghosts>>

Expired(m) == m.ttl <= 1
Routed(m) == m.sum /\ ~Expired(m) /\ get_best_route(m.daddr) # NoRoute
ForMe(m) == m.echo /\ m.daddr = MyIp[m.interface]

TimeExceeded(m) == Receive(m) /\ m.sum /\ Expired(m) /\ Reply(m, "exceeded")
Unreachable(m) == /\ Receive(m) /\ m.sum /\ ~Expired(m) /\ get_best_route(m.daddr) = NoRoute
                  /\ Reply(m, "unreachable")
Echo(m) == Receive(m) /\ Routed(m) /\ ForMe(m) /\ Reply(m, "echo")

Packet(m) == [id |-> m.id, daddr |-> m.daddr, ttl |-> m.ttl]

\* Whose MAC is asked for.
Destination(m) == m.daddr
NextHop(m) == get_best_route(m.daddr).next_hop

\* The MAC of the destination itself is looked for, and the next hop's asked for.
Ask(m) == /\ Receive(m) /\ Routed(m) /\ ~ForMe(m)
          /\ m.daddr \notin DOMAIN arp_table
          /\ own' = Append(own, Packet(m))
          /\ asked' = asked \cup {NextHop(m)}
          /\ UNCHANGED <<table, dups, slot, out, unasked, ghosts>>

Forward(m) == /\ Receive(m) /\ Routed(m) /\ ~ForMe(m)
              /\ m.daddr \in DOMAIN arp_table
              /\ Sent(<<Forwarded(m, [ip |-> m.daddr, mac |-> arp_table[m.daddr]])>>)
              /\ UNCHANGED <<table, queue, asked, unasked, ghosts>>

Arriving == [id : {received + 1}, daddr : Dests, ttl : Ttls, sum : BOOLEAN, echo : BOOLEAN,
             interface : Iface]

Arrival == /\ received < MaxPackets
           /\ \/ \E i \in Iface : AnswerArp(i)
              \/ \E m \in Arriving :
                   Drop(m) \/ TimeExceeded(m) \/ Unreachable(m) \/ Echo(m) \/ Ask(m) \/ Forward(m)

Next == \/ Arrival
        \/ \E ip \in Hosts, mac \in Mac : HostReplies(ip, mac) \/ HostAnnounces(ip, mac)

Spec == Init /\ [][Next]_vars

\* A host that is there answers what it is asked.
Fairness == \A ip \in Hosts : WF_vars(\E mac \in Mac : HostReplies(ip, mac))
FairSpec == Spec /\ Fairness

-----------------------------------------------------------------------------
(* Type invariant. *)

WaitingPacket == [id : 0..MaxPackets, daddr : Addr, ttl : 0..255]

\* The queue and the tables of router.c hold values of the code's types, and only next hops
\* are asked for.
TypeOK ==
  /\ rtable \in Tables
  /\ DOMAIN arp_table \subseteq Hosts /\ arp_table \in [DOMAIN arp_table -> Mac]
  /\ dups \in Nat /\ slot \in WaitingPacket \cup {NoPacket} /\ own \in Seq(WaitingPacket)
  /\ asked \subseteq {get_best_route(a).next_hop : a \in Addr}
  /\ received \in 0..MaxPackets /\ unasked \in 0..MaxUnasked
  /\ dropped \in Nat /\ mixed \subseteq 0..MaxPackets

-----------------------------------------------------------------------------
(* Safety. *)

Frames(id) == {k \in DOMAIN out : out[k].id = id}
Waiting(id) == {k \in DOMAIN q : q[k].id = id}

\* Every packet has at most one fate: it waits, or one frame answers or forwards
\* it.  The pointers to firstPacket (router.c:169-172) make an exception of
\* packets that a reply left waiting together, and of no others.  And none
\* vanishes: what was received was dropped for its checksum, waits, or has its
\* frame, in number even after router.c:169-172.
OneFate ==
  /\ \A id \in 1..received \ mixed : Cardinality(Frames(id)) + Cardinality(Waiting(id)) <= 1
  /\ received = dropped + Len(q) + Len(out)

\* A frame that forwards a packet leaves as its route says, to the MAC of its
\* destination or of its next hop, with a TTL left, also when it waited while
\* replies of other hosts came (router.c:144-172, 230-236).
SentByRoute ==
  \A k \in DOMAIN out : out[k].what = "forward" =>
    LET r == get_best_route(out[k].daddr)
    IN  /\ r # NoRoute /\ out[k].interface = r.interface
        /\ out[k].dhost.ip \in {out[k].daddr, r.next_hop}
        /\ out[k].id \notin mixed => out[k].ttl >= 1

\* A packet that waits has its next hop's reply still to come: none is left
\* behind by the reply it waited for (router.c:144-166) or waits for a request
\* that was not sent (router.c:227).
WaitingIsAsked == \A k \in DOMAIN q : get_best_route(q[k].daddr).next_hop \in asked

\* The comparator orders the table: no difference of prefixes overflows, as
\* with last octets below 128, and no two are the same.
Sortable(t) == /\ \A i \in DOMAIN t : t[i].prefix < 2^(W - 1)
               /\ \A i, j \in DOMAIN t : t[i].prefix = t[j].prefix => i = j

\* A line with another mask stands less than half as far down as line j.
OneMaskBy(t, j) == \A i \in DOMAIN t : 2 * i >= j => t[i].mask = t[j].mask

Matching == [t \in Tables |-> [a \in Addr |-> {j \in DOMAIN t : Matches(t[j], a)}]]

\* Of a table that qsort can sort, the binary search (router.c:56-77) finds an
\* entry for every address it matches, if no line with another mask stands half
\* as far down or further.  In the tables of pc pirvu, networks of 24 bits and
\* one line for a host, these are all entries but the host's own and the
\* largest network's: at the host's line the search takes the wrong half, and
\* the two may be missed.  And no address gets an entry that does not match it.
LookupFindsRoute ==
  \A a \in Addr :
    /\ \/ get_best_route(a) = NoRoute
       \/ \E j \in Matching[rtable][a] : get_best_route(a) = rtable[j]
    /\ Sortable(rtable) =>
         \A j \in Matching[rtable][a] : OneMaskBy(rtable, j) => get_best_route(a) = rtable[j]

-----------------------------------------------------------------------------
(* "pastrez in coada restul pachetelor pentru care inca nu este MACul          *)
(* cunoscut" (README of Teme/Tema1).                                           *)

\* A packet that waits for another host's reply is still there after this one's.
RestIsKept ==
  [][\A ip \in Hosts : (\E mac \in Mac : ArpReply(ip, mac)) =>
       \A k \in DOMAIN q : ~Answered(q[k], ip) => \E j \in DOMAIN q' : q'[j] = q[k]]_vars

-----------------------------------------------------------------------------
(* Liveness, under Fairness. *)

WaitsFor(ip) == \E k \in DOMAIN q : get_best_route(q[k].daddr).next_hop = ip

\* What waits for a host that is there leaves, one way or another.
QueueDrains == \A ip \in Hosts : WaitsFor(ip) ~> ~WaitsFor(ip)
=============================================================================
