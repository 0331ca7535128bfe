---------------------------- MODULE RouterProofs ----------------------------
(***************************************************************************)
(* Proofs about Router: its types; that no packet waits in vain for a      *)
(* request that was not sent or for a reply that has come; that a packet   *)
(* has one fate; that what is forwarded leaves as its route says; and      *)
(* that the binary search finds the longest match.                         *)
(***************************************************************************)
EXTENDS Router, RouteTableProofs

LEMMA AppendElements ==
  ASSUME NEW S, NEW s \in Seq(S), NEW x \in S
  PROVE  /\ Append(s, x) \in Seq(S)
         /\ \A k \in DOMAIN Append(s, x) : (k \in DOMAIN s /\ Append(s, x)[k] = s[k]) \/ Append(s, x)[k] = x
  OBVIOUS

-----------------------------------------------------------------------------
(* Types. *)

\* What an ARP reply leaves of the queue.
LEMMA Rest ==
  ASSUME TypeOK, NEW ip
  PROVE  /\ IsFiniteSet(Others(ip)) /\ Cardinality(Others(ip)) \in Nat
         /\ Cardinality(Others(ip)) = 0 => Others(ip) = {}
         /\ \A k \in Others(ip) : own[k] \in WaitingPacket /\ ~Answered(own[k], ip)
<1>1. DOMAIN own = 1 .. Len(own) /\ Len(own) \in Nat /\ \A k \in DOMAIN own : own[k] \in WaitingPacket
  BY DEF TypeOK
<1>2. IsFiniteSet(DOMAIN own)
  BY <1>1, FS_Interval
<1>3. Others(ip) \subseteq DOMAIN own
  BY DEF Others
<1>4. IsFiniteSet(Others(ip))
  BY <1>2, <1>3, FS_Subset
<1> QED
  BY <1>1, <1>4, FS_CardinalityType, FS_EmptySet DEF Others

\* The parts of a reply that concern the queue.
Gone(ip) == IF dups > 0 /\ Answered(slot, ip) THEN dups ELSE 0

LEMMA ReplyParts ==
  ASSUME NEW ip, NEW mac, ArpReply(ip, mac)
  PROVE  /\ Requeued(dups - Gone(ip), Others(ip))
         /\ asked' = asked \ {ip} /\ UNCHANGED <<rtable, received, dropped>>
         /\ arp_table' = [x \in DOMAIN arp_table \cup {ip} |->
                            IF x \in DOMAIN arp_table THEN arp_table[x] ELSE mac]
         /\ mixed' \subseteq mixed \cup {own[k].id : k \in Others(ip)} \cup {slot.id}
  BY DEF ArpReply, Gone

\* The queue after a reply.
LEMMA QueueAfter ==
  ASSUME TypeOK, NEW ip, NEW mac, ArpReply(ip, mac)
  PROVE  /\ dups' \in Nat /\ own' = << >> /\ slot' \in WaitingPacket \cup {NoPacket}
         /\ dups' > 0 => \/ dups > 0 /\ slot' = slot /\ ~Answered(slot, ip)
                         \/ \E k \in DOMAIN own : slot' = own[k] /\ ~Answered(own[k], ip)
<1> DEFINE n == dups - Gone(ip)
<1>1. n \in Nat /\ (n > 0 => dups > 0 /\ ~Answered(slot, ip))
  BY DEF TypeOK, Gone
<1>2. Requeued(n, Others(ip))
  BY ReplyParts
<1> HIDE DEF n
<1>3. /\ Cardinality(Others(ip)) \in Nat /\ (Cardinality(Others(ip)) = 0 => Others(ip) = {})
      /\ \A k \in Others(ip) : own[k] \in WaitingPacket /\ ~Answered(own[k], ip)
  BY Rest
<1>4. dups' \in Nat /\ own' = << >> /\ dups' = n + Cardinality(Others(ip))
  BY <1>1, <1>2, <1>3 DEF Requeued
<1>5. CASE Others(ip) = {}
  <2>1. slot' = (IF n > 0 THEN slot ELSE NoPacket)
    BY <1>2, <1>5 DEF Requeued
  <2>2. slot \in WaitingPacket \cup {NoPacket}
    BY DEF TypeOK
  <2>3. Cardinality(Others(ip)) = 0
    BY <1>5, FS_EmptySet
  <2> QED
    BY <1>1, <1>4, <2>1, <2>2, <2>3
<1>6. CASE Others(ip) # {}
  <2>1. \E k \in Others(ip) : slot' = own[k]
    BY <1>2, <1>6 DEF Requeued
  <2>2. Others(ip) \subseteq DOMAIN own
    BY DEF Others
  <2> QED
    BY <1>3, <1>4, <2>1, <2>2
<1> QED
  BY <1>5, <1>6

\* The steps that leave the tables, the queue and the requests alone.
Quiet == UNCHANGED <<rtable, arp_table, dups, slot, own, asked, unasked, mixed>>

LEMMA QuietSteps ==
  ASSUME NEW m \in Arriving, Drop(m) \/ TimeExceeded(m) \/ Unreachable(m) \/ Echo(m) \/ Forward(m)
  PROVE  Quiet /\ received' = received + 1 /\ (dropped' = dropped \/ dropped' = dropped + 1)
  BY DEF Drop, TimeExceeded, Unreachable, Echo, Forward, Reply, Receive, Quiet, table, queue, ghosts

LEMMA QuietAnswer ==
  ASSUME NEW i, AnswerArp(i)
  PROVE  Quiet /\ received' = received + 1 /\ dropped' = dropped
  BY DEF AnswerArp, Quiet, table, queue, ghosts

\* A packet that is to wait.
LEMMA AskParts ==
  ASSUME TypeOK, received < MaxPackets, NEW m \in Arriving, Ask(m)
  PROVE  /\ Packet(m) \in WaitingPacket /\ own' = Append(own, Packet(m))
         /\ asked' = asked \cup {NextHop(m)} /\ NextHop(m) = get_best_route(Packet(m).daddr).next_hop
         /\ NextHop(m) \in {get_best_route(a).next_hop : a \in Addr}
         /\ received' = received + 1
         /\ UNCHANGED <<rtable, arp_table, dups, slot, unasked, dropped, mixed>>
<1>1. m.id = received + 1 /\ m.daddr \in Addr /\ m.ttl \in 0 .. 255
  BY RouterAssumption DEF Arriving, RouterAssumption
<1>2. m.id \in 0 .. MaxPackets
  BY <1>1, RouterAssumption DEF TypeOK, RouterAssumption
<1>3. Packet(m) \in WaitingPacket /\ Packet(m).daddr = m.daddr
  BY <1>1, <1>2 DEF Packet, WaitingPacket
<1>4. NextHop(m) = get_best_route(m.daddr).next_hop
  BY DEF NextHop
<1> QED
  BY <1>1, <1>3, <1>4 DEF Ask, Receive, table, ghosts

LEMMA InitTypes == Init => TypeOK
<1> SUFFICES ASSUME Init PROVE TypeOK
  OBVIOUS
<1>1. DOMAIN arp_table = {} /\ arp_table \in [DOMAIN arp_table -> Mac]
  BY DEF Init
<1>2. own \in Seq(WaitingPacket) /\ received \in 0 .. MaxPackets /\ unasked \in 0 .. MaxUnasked
  BY RouterAssumption DEF Init, RouterAssumption
<1> QED
  BY <1>1, <1>2 DEF Init, TypeOK

LEMMA TypesStep == TypeOK /\ [Next]_vars => TypeOK'
<1> SUFFICES ASSUME TypeOK, [Next]_vars PROVE TypeOK'
  OBVIOUS
<1>0. ASSUME rtable' = rtable
      PROVE  {get_best_route(a).next_hop : a \in Addr}' = {get_best_route(a).next_hop : a \in Addr}
  BY <1>0 DEF get_best_route
<1>1. ASSUME Quiet, received < MaxPackets, received' = received + 1,
             dropped' = dropped \/ dropped' = dropped + 1
      PROVE  TypeOK'
  <2>1. received' \in 0 .. MaxPackets /\ dropped' \in Nat
    BY <1>1, RouterAssumption DEF TypeOK, RouterAssumption
  <2> QED
    BY <1>0, <1>1, <2>1 DEF Quiet, TypeOK
<1>2. ASSUME Arrival PROVE TypeOK'
  <2>1. ASSUME NEW m \in Arriving, Ask(m), received < MaxPackets PROVE TypeOK'
    <3>1. own' \in Seq(WaitingPacket)
      BY <2>1, AskParts, AppendElements DEF TypeOK
    <3>2. received' \in 0 .. MaxPackets
      BY <2>1, AskParts, RouterAssumption DEF TypeOK, RouterAssumption
    <3>3. asked' \subseteq {get_best_route(a).next_hop : a \in Addr} /\ rtable' = rtable
      BY <2>1, AskParts DEF TypeOK
    <3> QED
      BY <1>0, <2>1, <3>1, <3>2, <3>3, AskParts DEF TypeOK
  <2> QED
    BY <1>1, <1>2, <2>1, QuietSteps, QuietAnswer DEF Arrival
<1>3. ASSUME NEW ip \in Hosts, NEW mac \in Mac, HostReplies(ip, mac) \/ HostAnnounces(ip, mac)
      PROVE  TypeOK'
  <2>1. ArpReply(ip, mac) /\ unasked' \in 0 .. MaxUnasked
    BY <1>3, RouterAssumption DEF HostReplies, HostAnnounces, TypeOK, RouterAssumption
  <2>2. /\ asked' = asked \ {ip} /\ UNCHANGED <<rtable, received, dropped>>
        /\ arp_table' = [x \in DOMAIN arp_table \cup {ip} |->
                           IF x \in DOMAIN arp_table THEN arp_table[x] ELSE mac]
        /\ mixed' \subseteq mixed \cup {own[k].id : k \in Others(ip)} \cup {slot.id}
    BY <2>1, ReplyParts
  <2>3. dups' \in Nat /\ slot' \in WaitingPacket \cup {NoPacket} /\ own' \in Seq(WaitingPacket)
    <3>1. dups' \in Nat /\ slot' \in WaitingPacket \cup {NoPacket} /\ own' = << >>
      BY ONLY TypeOK, <2>1, QueueAfter, Zenon
    <3>2. << >> \in Seq(WaitingPacket)
      OBVIOUS
    <3> QED
      BY ONLY <3>1, <3>2, Zenon
  <2>4. DOMAIN arp_table' \subseteq Hosts /\ arp_table' \in [DOMAIN arp_table' -> Mac]
    BY <2>2, Zenon DEF TypeOK
  <2>5. mixed' \subseteq 0 .. MaxPackets
    <3>1. \A k \in Others(ip) : own[k].id \in 0 .. MaxPackets
      BY Rest DEF WaitingPacket
    <3>2. slot.id \in 0 .. MaxPackets
      BY RouterAssumption DEF TypeOK, WaitingPacket, NoPacket, RouterAssumption
    <3> QED
      BY <2>2, <3>1, <3>2 DEF TypeOK
  <2>6. asked' \subseteq {get_best_route(a).next_hop : a \in Addr}'
    BY <1>0, <2>2, Zenon DEF TypeOK
  <2>7. /\ rtable' \in Tables' /\ received' \in 0 .. MaxPackets /\ dropped' \in Nat
    BY <2>2 DEF TypeOK
  <2> QED
    BY ONLY <2>1, <2>3, <2>4, <2>5, <2>6, <2>7, Zenon DEF TypeOK, WaitingPacket
<1>4. CASE UNCHANGED vars
  BY <1>0, <1>4 DEF TypeOK, vars
<1> QED
  BY <1>2, <1>3, <1>4 DEF Next

\* For any routing tables, hosts and packets the queue and the tables keep the types of the
\* code, and only next hops are asked for.
THEOREM TypesKept == Spec => []TypeOK
  BY InitTypes, TypesStep, PTL DEF Spec

-----------------------------------------------------------------------------
(* Who waits. *)

Hop(p) == get_best_route(p.daddr).next_hop
Awaited == /\ dups > 0 => Hop(slot) \in asked
           /\ \A k \in DOMAIN own : Hop(own[k]) \in asked

LEMMA AwaitedIsAsked == TypeOK /\ Awaited => WaitingIsAsked
<1> SUFFICES ASSUME TypeOK, Awaited, NEW k \in DOMAIN q PROVE Hop(q[k]) \in asked
  BY DEF WaitingIsAsked, Hop
<1>1. dups \in Nat /\ Len(own) \in Nat /\ DOMAIN own = 1 .. Len(own)
  BY DEF TypeOK
<1>2. k \in 1 .. dups + Len(own) /\ q[k] = IF k <= dups THEN slot ELSE own[k - dups]
  BY DEF q
<1>3. CASE k <= dups
  BY <1>1, <1>2, <1>3 DEF Awaited
<1>4. CASE ~(k <= dups)
  <2>1. k - dups \in DOMAIN own
    BY <1>1, <1>2, <1>4
  <2> QED
    BY <1>2, <1>4, <2>1 DEF Awaited
<1> QED
  BY <1>3, <1>4

LEMMA AwaitedStep == TypeOK /\ Awaited /\ [Next]_vars => Awaited'
<1> SUFFICES ASSUME TypeOK, Awaited, [Next]_vars PROVE Awaited'
  OBVIOUS
<1>1. ASSUME UNCHANGED <<rtable, dups, slot, own, asked>> PROVE Awaited'
  BY <1>1 DEF Awaited, Hop, get_best_route
<1>2. ASSUME NEW m \in Arriving, Ask(m), received < MaxPackets PROVE Awaited'
  <2>1. /\ Packet(m) \in WaitingPacket /\ own' = Append(own, Packet(m))
        /\ asked' = asked \cup {Hop(Packet(m))} /\ UNCHANGED <<rtable, dups, slot>>
    BY <1>2, AskParts DEF Hop
  <2>2. \A p : Hop(p)' = Hop(p)
    BY <2>1 DEF Hop, get_best_route
  <2>3. \A k \in DOMAIN own' : (k \in DOMAIN own /\ own'[k] = own[k]) \/ own'[k] = Packet(m)
    BY <2>1, AppendElements DEF TypeOK
  <2>4. \A k \in DOMAIN own' : Hop(own'[k]) \in asked'
    BY <2>1, <2>3 DEF Awaited
  <2>5. dups' > 0 => Hop(slot') \in asked'
    BY <2>1 DEF Awaited
  <2> QED
    BY <2>1, <2>4, <2>5 DEF Awaited, Hop, get_best_route
<1>3. ASSUME NEW ip \in Hosts, NEW mac \in Mac, ArpReply(ip, mac) PROVE Awaited'
  <2>1. own' = << >> /\ asked' = asked \ {ip} /\ rtable' = rtable
    BY <1>3, QueueAfter, ReplyParts
  <2>2. dups' > 0 => Hop(slot') \in asked /\ Hop(slot') # ip
    BY <1>3, QueueAfter DEF Awaited, Answered, Hop
  <2> QED
    BY <2>1, <2>2 DEF Awaited, Hop, get_best_route
<1>4. CASE UNCHANGED vars
  BY <1>1, <1>4 DEF vars
<1>5. ASSUME Arrival PROVE Awaited'
  BY <1>1, <1>2, <1>5, QuietSteps, QuietAnswer DEF Arrival, Quiet
<1> QED
  BY <1>3, <1>4, <1>5 DEF Next, HostReplies, HostAnnounces

\* Whatever the order of packets, replies and announcements, a packet in the queue of router.c
\* has its next hop asked, and that answer still to come.
THEOREM NoneWaitsInVain == Spec => []WaitingIsAsked
<1>1. Init => Awaited
  BY DEF Init, Awaited
<1> QED
  BY <1>1, InitTypes, TypesStep, AwaitedStep, AwaitedIsAsked, PTL DEF Spec

-----------------------------------------------------------------------------
(* What becomes of a packet. *)

Routable(p) == get_best_route(p.daddr) # NoRoute

\* A frame that forwards a packet, as its route says.
ByRoute(f) == f.what = "forward" =>
  LET r == get_best_route(f.daddr)
  IN  /\ r # NoRoute /\ f.interface = r.interface
      /\ f.dhost.ip \in {f.daddr, r.next_hop}
      /\ f.id \notin mixed => f.ttl >= 1

\* The inductive invariant.  What waits has a route and a TTL to lose, unless it shared the slot ...
Queued ==
  /\ \A k \in DOMAIN own : own[k].id \in 1 .. received /\ Routable(own[k]) /\ own[k].ttl >= 2
  /\ dups > 0 => slot.id \in 1 .. received /\ Routable(slot) /\ (slot.id \notin mixed => slot.ttl >= 2)
  /\ dups > 1 => slot.id \in mixed

\* ... a packet is in one place, the slot or own or out, and there once, unless it shared the slot ...
OnePlace ==
  /\ \A k \in DOMAIN out : out[k].id \in 1 .. received
  /\ \A j, k \in DOMAIN own : own[j].id = own[k].id => j = k
  /\ \A j, k \in DOMAIN out : out[j].id = out[k].id /\ out[j].id \notin mixed => j = k
  /\ \A j \in DOMAIN out, k \in DOMAIN own : out[j].id # own[k].id
  /\ dups > 0 => /\ \A k \in DOMAIN own : own[k].id # slot.id
                 /\ slot.id \notin mixed => \A j \in DOMAIN out : out[j].id # slot.id

\* ... and each received one is counted in one of them, or as dropped.
CountedOnce == received = dropped + dups + Len(own) + Len(out)

IsSequence == \E S : out \in Seq(S)
FInv == TypeOK /\ IsSequence /\ Queued /\ OnePlace /\ CountedOnce /\ SentByRoute

\* Frames sent follow those sent before.
LEMMA Following ==
  ASSUME NEW S, NEW s \in Seq(S), NEW T, NEW f \in Seq(T)
  PROVE  /\ s \o f \in Seq(S \cup T) /\ Len(s \o f) = Len(s) + Len(f) /\ Len(s) \in Nat
         /\ DOMAIN s = 1 .. Len(s) /\ DOMAIN (s \o f) = 1 .. Len(s) + Len(f)
         /\ \A k \in 1 .. Len(s) : (s \o f)[k] = s[k]
         /\ \A k \in 1 .. Len(s) + Len(f) :
              k > Len(s) => k - Len(s) \in 1 .. Len(f) /\ (s \o f)[k] = f[k - Len(s)]
<1>1. s \in Seq(S \cup T) /\ f \in Seq(S \cup T) /\ Len(s) \in Nat /\ DOMAIN s = 1 .. Len(s)
      /\ Len(f) \in Nat
  OBVIOUS
<1>2. /\ s \o f \in Seq(S \cup T) /\ Len(s \o f) = Len(s) + Len(f)
      /\ \A k \in 1 .. Len(s) + Len(f) : (s \o f)[k] = IF k <= Len(s) THEN s[k] ELSE f[k - Len(s)]
  BY <1>1
<1>3. DOMAIN (s \o f) = 1 .. Len(s) + Len(f)
  BY <1>2
<1>4. \A k \in 1 .. Len(s) : k \in 1 .. Len(s) + Len(f) /\ k <= Len(s)
  BY <1>1
<1>5. \A k \in 1 .. Len(s) + Len(f) : k > Len(s) => k - Len(s) \in 1 .. Len(f) /\ ~(k <= Len(s))
  BY <1>1
<1> QED
  BY <1>1, <1>2, <1>3, <1>4, <1>5, Zenon

\* The packets that have memory of their own: those that leave and those that stay.
Ours(ip) == {k \in DOMAIN own : Answered(own[k], ip)}

LEMMA Parted ==
  ASSUME TypeOK, NEW ip
  PROVE  /\ Cardinality(Ours(ip)) \in Nat /\ Cardinality(Others(ip)) \in Nat
         /\ Cardinality(Ours(ip)) + Cardinality(Others(ip)) = Len(own)
<1>1. Len(own) \in Nat /\ DOMAIN own = 1 .. Len(own)
  BY DEF TypeOK
<1>2. IsFiniteSet(DOMAIN own) /\ Cardinality(DOMAIN own) = Len(own)
  <2>1. /\ IsFiniteSet(1 .. Len(own))
        /\ Cardinality(1 .. Len(own)) = IF 1 > Len(own) THEN 0 ELSE Len(own) - 1 + 1
    BY <1>1, FS_Interval
  <2>2. (IF 1 > Len(own) THEN 0 ELSE Len(own) - 1 + 1) = Len(own)
    BY <1>1
  <2> QED
    BY <1>1, <2>1, <2>2, Zenon
<1>3. Others(ip) = DOMAIN own \ Ours(ip) /\ Ours(ip) \subseteq DOMAIN own
      /\ DOMAIN own \cap Ours(ip) = Ours(ip)
  BY DEF Others, Ours
<1>4. IsFiniteSet(Ours(ip)) /\ IsFiniteSet(Others(ip))
  BY <1>2, <1>3, FS_Subset
<1>5. Cardinality(Others(ip)) = Cardinality(DOMAIN own) - Cardinality(Ours(ip))
  BY <1>2, <1>3, FS_Difference
<1>6. Cardinality(Ours(ip)) \in Nat /\ Cardinality(Others(ip)) \in Nat
  BY <1>4, FS_CardinalityType
<1> QED
  BY <1>1, <1>2, <1>5, <1>6

Reached(ip, mac) == [ip |-> ip, mac |-> mac]
Copy(k) == [slot EXCEPT !.ttl = (@ - (k - 1)) % 256]

\* The frames of a reply: copies of the slot, then packets of own, each once.
FromSlot(k, ip) == k > Len(out) /\ k <= Len(out) + Gone(ip)
FromOwn(k, ip) == k > Len(out) + Gone(ip)
               /\ k - (Len(out) + Gone(ip)) \in 1 .. Cardinality(Ours(ip))

LEMMA ReplyFrames ==
  ASSUME TypeOK, IsSequence, NEW ip, NEW mac, ArpReply(ip, mac)
  PROVE  /\ IsSequence' /\ Len(out) \in Nat /\ Gone(ip) \in Nat /\ DOMAIN out = 1 .. Len(out)
         /\ Len(out') = Len(out) + Gone(ip) + Cardinality(Ours(ip))
         /\ \E turn \in [1 .. Cardinality(Ours(ip)) -> Ours(ip)] :
              /\ \A j, k \in 1 .. Cardinality(Ours(ip)) : turn[j] = turn[k] => j = k
              /\ \A k \in DOMAIN out' :
                   \/ k \in DOMAIN out /\ out'[k] = out[k]
                   \/ FromSlot(k, ip) /\ out'[k] = Forwarded(Copy(k - Len(out)), Reached(ip, mac))
                   \/ FromOwn(k, ip) /\ out'[k] = Forwarded(own[turn[k - (Len(out) + Gone(ip))]], Reached(ip, mac))
<1> DEFINE n == Cardinality(Ours(ip))
           g == Gone(ip)
<1>1. n \in Nat /\ g \in Nat
  BY Parted DEF Gone, TypeOK
<1>2. PICK turn \in [1 .. n -> Ours(ip)] :
        /\ \A j, k \in 1 .. n : j < k => turn[j] < turn[k]
        /\ Sent([k \in 1 .. g + n |-> Forwarded(IF k > g THEN own[turn[k - g]] ELSE Copy(k), Reached(ip, mac))])
  <2>1. \A turn : [k \in 1 .. g + n |-> Forwarded(IF k > g THEN own[turn[k - g]]
                                                  ELSE [slot EXCEPT !.ttl = (@ - (k - 1)) % 256],
                                                  [ip |-> ip, mac |-> mac])]
                = [k \in 1 .. g + n |-> Forwarded(IF k > g THEN own[turn[k - g]] ELSE Copy(k), Reached(ip, mac))]
    BY DEF Copy, Reached
  <2>2. PICK turn \in [1 .. n -> Ours(ip)] :
          /\ \A j, k \in DOMAIN turn : j < k => turn[j] < turn[k]
          /\ Sent([k \in 1 .. g + n |-> Forwarded(IF k > g THEN own[turn[k - g]]
                                                  ELSE [slot EXCEPT !.ttl = (@ - (k - 1)) % 256],
                                                  [ip |-> ip, mac |-> mac])])
    BY Zenon DEF ArpReply, Gone, Ours
  <2> QED
    BY <2>1, <2>2
<1>3. \A j, k \in 1 .. n : turn[j] = turn[k] => j = k
  <2>1. \A k \in 1 .. n : turn[k] \in Nat
    <3>1. Ours(ip) \subseteq DOMAIN own /\ DOMAIN own = 1 .. Len(own) /\ Len(own) \in Nat
      BY DEF Ours, TypeOK
    <3> QED
      BY <3>1
  <2>2. \A j, k \in 1 .. n : j < k \/ k < j \/ j = k
    BY <1>1
  <2> QED
    BY <1>2, <2>1, <2>2
<1>4. PICK f : f = [k \in 1 .. g + n |-> Forwarded(IF k > g THEN own[turn[k - g]] ELSE Copy(k), Reached(ip, mac))]
  OBVIOUS
<1>5. PICK S : out \in Seq(S)
  BY DEF IsSequence
<1>6. PICK T : f \in [1 .. g + n -> T]
  <2>1. f \in [1 .. g + n -> {f[k] : k \in 1 .. g + n}]
    BY <1>4
  <2> QED
    BY <2>1
<1>7. out' = out \o f
  BY <1>2, <1>4 DEF Sent
<1> HIDE DEF n, g
<1>8. g + n \in Nat
  BY <1>1
<1>9. /\ out' \in Seq(S \cup T) /\ Len(out') = Len(out) + (g + n) /\ Len(out) \in Nat
      /\ DOMAIN out = 1 .. Len(out) /\ DOMAIN out' = 1 .. Len(out) + (g + n)
      /\ \A k \in 1 .. Len(out) : out'[k] = out[k]
      /\ \A k \in 1 .. Len(out) + (g + n) :
           k > Len(out) => k - Len(out) \in 1 .. g + n /\ out'[k] = f[k - Len(out)]
  <2>1. f \in Seq(T) /\ Len(f) = g + n
    BY <1>6, <1>8
  <2>2. /\ out \o f \in Seq(S \cup T) /\ Len(out \o f) = Len(out) + Len(f) /\ Len(out) \in Nat
        /\ DOMAIN out = 1 .. Len(out) /\ DOMAIN (out \o f) = 1 .. Len(out) + Len(f)
        /\ \A k \in 1 .. Len(out) : (out \o f)[k] = out[k]
        /\ \A k \in 1 .. Len(out) + Len(f) :
             k > Len(out) => k - Len(out) \in 1 .. Len(f) /\ (out \o f)[k] = f[k - Len(out)]
    <3>1. out \in Seq(S) /\ f \in Seq(T)
      BY <1>5, <2>1
    <3> QED
      BY ONLY <3>1, Following
  <2> QED
    BY ONLY <1>7, <2>1, <2>2, Zenon
<1>10. ASSUME NEW k \in DOMAIN out'
       PROVE  \/ k \in DOMAIN out /\ out'[k] = out[k]
              \/ FromSlot(k, ip) /\ out'[k] = Forwarded(Copy(k - Len(out)), Reached(ip, mac))
              \/ FromOwn(k, ip) /\ out'[k] = Forwarded(own[turn[k - (Len(out) + Gone(ip))]], Reached(ip, mac))
  <2>1. CASE k <= Len(out)
    BY <1>9, <2>1
  <2>2. ASSUME k > Len(out), k <= Len(out) + g
        PROVE  FromSlot(k, ip) /\ out'[k] = Forwarded(Copy(k - Len(out)), Reached(ip, mac))
    <3>1. k - Len(out) \in 1 .. g + n /\ out'[k] = f[k - Len(out)] /\ ~(k - Len(out) > g)
      BY <1>1, <1>9, <2>2
    <3> QED
      BY <1>4, <2>2, <3>1 DEF FromSlot, g
  <2>3. ASSUME k > Len(out) + g
        PROVE  FromOwn(k, ip) /\ out'[k] = Forwarded(own[turn[k - (Len(out) + g)]], Reached(ip, mac))
    <3>1. /\ k - Len(out) \in 1 .. g + n /\ out'[k] = f[k - Len(out)] /\ k - Len(out) > g
          /\ (k - Len(out)) - g = k - (Len(out) + g) /\ k - (Len(out) + g) \in 1 .. n
      BY <1>1, <1>9, <2>3
    <3>2. f[k - Len(out)] = Forwarded(own[turn[(k - Len(out)) - g]], Reached(ip, mac))
      BY <1>4, <3>1
    <3>3. FromOwn(k, ip)
      BY <2>3, <3>1 DEF FromOwn, g, n
    <3> QED
      BY <3>1, <3>2, <3>3
  <2> QED
    BY <1>1, <1>9, <2>1, <2>2, <2>3 DEF g
<1>11. IsSequence'
  BY <1>9 DEF IsSequence
<1>12. Len(out') = Len(out) + Gone(ip) + Cardinality(Ours(ip))
  BY <1>1, <1>9 DEF g, n
<1> QED
  BY <1>1, <1>2, <1>3, <1>9, <1>10, <1>11, <1>12, Zenon DEF g, n

\* Who shares the slot after a reply.
LEMMA MixedAfter ==
  ASSUME TypeOK, NEW ip, NEW mac, ArpReply(ip, mac)
  PROVE  /\ mixed \subseteq mixed' /\ (dups' > 1 => slot'.id \in mixed')
         /\ dups' = dups - Gone(ip) + Cardinality(Others(ip))
<1> DEFINE n == dups - Gone(ip)
<1>1. n \in Nat /\ (n > 0 => dups > Gone(ip)) /\ Gone(ip) \in Nat
  BY DEF TypeOK, Gone
<1>2. Requeued(n, Others(ip))
  BY ReplyParts
<1>3. mixed' = IF n + Cardinality(Others(ip)) < 2 THEN mixed
               ELSE mixed \cup {own[k].id : k \in Others(ip)}
                      \cup (IF dups > Gone(ip) THEN {slot.id} ELSE {})
  BY Zenon DEF ArpReply, Gone
<1> HIDE DEF n
<1>4. Cardinality(Others(ip)) \in Nat /\ dups' = n + Cardinality(Others(ip))
  BY <1>2, Rest DEF Requeued
<1>5. mixed \subseteq mixed'
  BY <1>3
<1>6. ASSUME dups' > 1 PROVE slot'.id \in mixed'
  <2>1. mixed' = mixed \cup {own[k].id : k \in Others(ip)}
                   \cup (IF dups > Gone(ip) THEN {slot.id} ELSE {})
    BY <1>1, <1>3, <1>4, <1>6
  <2>2. CASE Others(ip) = {}
    <3>1. Cardinality(Others(ip)) = 0
      BY <2>2, FS_EmptySet
    <3>2. n > 0 /\ slot' = slot
      BY <1>1, <1>2, <1>4, <1>6, <2>2, <3>1 DEF Requeued
    <3> QED
      BY <1>1, <2>1, <3>2
  <2>3. CASE Others(ip) # {}
    <3>1. \E k \in Others(ip) : slot' = own[k]
      BY <1>2, <2>3 DEF Requeued
    <3> QED
      BY <2>1, <3>1
  <2> QED
    BY <2>2, <2>3
<1> QED
  BY <1>4, <1>5, <1>6 DEF n

\* The frames a reply lets out are copies of the slot or packets of own.
LEMMA ForwardedParts ==
  ASSUME NEW p, NEW mac
  PROVE  LET f == Forwarded(p, mac)
         IN  /\ f.what = "forward" /\ f.id = p.id /\ f.daddr = p.daddr /\ f.dhost = mac
             /\ f.interface = get_best_route(p.daddr).interface /\ f.ttl = (p.ttl - 1) % 256
  BY DEF Forwarded

LEMMA ReplyPlaces ==
  ASSUME FInv, NEW ip, NEW mac, ArpReply(ip, mac)
  PROVE  OnePlace' /\ IsSequence'
<1> DEFINE n == Cardinality(Ours(ip))
           g == Gone(ip)
<1>1. TypeOK /\ IsSequence /\ Queued /\ OnePlace
  BY DEF FInv
<1>2. /\ IsSequence' /\ Len(out) \in Nat /\ g \in Nat /\ DOMAIN out = 1 .. Len(out)
  BY <1>1, ReplyFrames
<1>3. PICK turn \in [1 .. n -> Ours(ip)] :
        /\ \A j, k \in 1 .. n : turn[j] = turn[k] => j = k
        /\ \A k \in DOMAIN out' :
             \/ k \in DOMAIN out /\ out'[k] = out[k]
             \/ FromSlot(k, ip) /\ out'[k] = Forwarded(Copy(k - Len(out)), Reached(ip, mac))
             \/ FromOwn(k, ip) /\ out'[k] = Forwarded(own[turn[k - (Len(out) + g)]], Reached(ip, mac))
  BY <1>1, ReplyFrames
<1>4. /\ own' = << >> /\ received' = received /\ rtable' = rtable /\ mixed \subseteq mixed'
      /\ dups' > 0 => \/ dups > 0 /\ slot' = slot /\ ~Answered(slot, ip)
                      \/ \E k \in DOMAIN own : slot' = own[k] /\ ~Answered(own[k], ip)
  BY <1>1, QueueAfter, ReplyParts, MixedAfter
<1>5. \A k \in Int : FromSlot(k, ip) => dups > 0 /\ Answered(slot, ip) /\ k - Len(out) \in 1 .. dups
  <2>1. g = dups \/ g = 0
    BY DEF Gone
  <2>2. g > 0 => g = dups /\ dups > 0 /\ Answered(slot, ip)
    BY DEF Gone
  <2>3. ASSUME NEW k, FromSlot(k, ip), k \in Int PROVE g > 0 /\ k - Len(out) \in 1 .. g
    BY <1>2, <2>3 DEF FromSlot
  <2> QED
    BY <2>2, <2>3
<1>6. /\ \A j \in 1 .. n : turn[j] \in DOMAIN own /\ Answered(own[turn[j]], ip)
      /\ \A k : FromOwn(k, ip) => k - (Len(out) + g) \in 1 .. n
  BY <1>3 DEF Ours, FromOwn
<1> HIDE DEF n, g
<1>7. \A k : Copy(k).id = slot.id
  BY <1>1 DEF Copy, TypeOK, WaitingPacket, NoPacket
<1>8. ASSUME NEW k \in DOMAIN out'
      PROVE  /\ k \in Int
             /\ \/ k \in DOMAIN out /\ out'[k] = out[k]
                \/ FromSlot(k, ip) /\ out'[k].id = slot.id
                \/ FromOwn(k, ip) /\ out'[k].id = own[turn[k - (Len(out) + g)]].id
  <2>1. k \in Int
    BY <1>2, <1>8 DEF IsSequence
  <2> QED
    BY <1>3, <1>7, <2>1, ForwardedParts
<1>9. \A k \in DOMAIN out' : out'[k].id \in 1 .. received'
  BY <1>1, <1>4, <1>5, <1>6, <1>8 DEF OnePlace, Queued
<1>10. ASSUME NEW j \in DOMAIN out', NEW k \in DOMAIN out', out'[j].id = out'[k].id, out'[j].id \notin mixed'
       PROVE  j = k
  <2>1. out'[j].id \notin mixed
    BY <1>4, <1>10
  <2>2. CASE j \in DOMAIN out /\ out'[j] = out[j]
    BY <1>1, <1>5, <1>6, <1>8, <1>10, <2>1, <2>2 DEF OnePlace
  <2>3. CASE FromSlot(j, ip) /\ out'[j].id = slot.id
    <3>1. dups = 1
      BY <1>1, <1>5, <1>8, <2>1, <2>3 DEF Queued, TypeOK
    <3>2. CASE FromSlot(k, ip)
      <4>1. j - Len(out) \in 1 .. 1 /\ k - Len(out) \in 1 .. 1 /\ j \in Int /\ k \in Int
        BY <1>5, <1>8, <2>3, <3>1, <3>2
      <4> QED
        BY <1>2, <4>1
    <3>3. CASE k \in DOMAIN out /\ out'[k] = out[k]
      <4>1. slot.id \notin mixed /\ dups > 0
        BY <2>1, <2>3, <3>1
      <4>2. \A i \in DOMAIN out : out[i].id # slot.id
        BY <1>1, <4>1 DEF OnePlace
      <4>3. out[k].id = slot.id
        BY <1>10, <2>3, <3>3
      <4> QED
        BY <3>3, <4>2, <4>3
    <3>4. CASE FromOwn(k, ip) /\ out'[k].id = own[turn[k - (Len(out) + g)]].id
      <4>1. own[turn[k - (Len(out) + g)]].id # slot.id
        BY <1>1, <1>6, <3>1, <3>4 DEF OnePlace
      <4> QED
        BY <1>10, <2>3, <3>4, <4>1
    <3> QED
      BY <1>8, <3>2, <3>3, <3>4
  <2>4. CASE FromOwn(j, ip) /\ out'[j].id = own[turn[j - (Len(out) + g)]].id
    <3>1. CASE k \in DOMAIN out /\ out'[k] = out[k]
      BY <1>1, <1>6, <1>10, <2>4, <3>1 DEF OnePlace
    <3>2. CASE FromSlot(k, ip) /\ out'[k].id = slot.id
      BY <1>1, <1>5, <1>6, <1>8, <1>10, <2>4, <3>2 DEF OnePlace
    <3>3. CASE FromOwn(k, ip) /\ out'[k].id = own[turn[k - (Len(out) + g)]].id
      <4>1. /\ j - (Len(out) + g) \in 1 .. n /\ k - (Len(out) + g) \in 1 .. n /\ j \in Int /\ k \in Int
        BY <1>6, <1>8, <2>4, <3>3
      <4>2. turn[j - (Len(out) + g)] = turn[k - (Len(out) + g)]
        BY <1>1, <1>6, <1>10, <2>4, <3>3, <4>1 DEF OnePlace
      <4>3. j - (Len(out) + g) = k - (Len(out) + g)
        BY <1>3, <4>1, <4>2
      <4> QED
        BY <1>2, <4>1, <4>3
    <3> QED
      BY <1>8, <3>1, <3>2, <3>3
  <2> QED
    BY <1>8, <2>2, <2>3, <2>4
<1>11. ASSUME dups' > 0, slot'.id \notin mixed', NEW k \in DOMAIN out' PROVE out'[k].id # slot'.id
  <2>1. slot'.id \notin mixed
    BY <1>4, <1>11
  <2>2. CASE dups > 0 /\ slot' = slot /\ ~Answered(slot, ip)
    <3>1. ~FromSlot(k, ip)
      BY <1>5, <1>8, <2>2
    <3> QED
      BY <1>1, <1>6, <1>8, <2>1, <2>2, <3>1 DEF OnePlace
  <2>3. ASSUME NEW i \in DOMAIN own, slot' = own[i], ~Answered(own[i], ip) PROVE out'[k].id # slot'.id
    <3>1. CASE k \in DOMAIN out /\ out'[k] = out[k]
      BY <1>1, <2>3, <3>1 DEF OnePlace
    <3>2. CASE FromSlot(k, ip) /\ out'[k].id = slot.id
      BY <1>1, <1>5, <1>8, <2>3, <3>2 DEF OnePlace
    <3>3. CASE FromOwn(k, ip) /\ out'[k].id = own[turn[k - (Len(out) + g)]].id
      BY <1>1, <1>6, <2>3, <3>3 DEF OnePlace
    <3> QED
      BY <1>8, <3>1, <3>2, <3>3
  <2> QED
    BY <1>4, <1>11, <2>2, <2>3
<1> QED
  BY <1>2, <1>4, <1>9, <1>10, <1>11 DEF OnePlace

LEMMA ReplyQueue ==
  ASSUME FInv, NEW ip, NEW mac, ArpReply(ip, mac)
  PROVE  Queued' /\ CountedOnce'
<1>1. TypeOK /\ IsSequence /\ Queued /\ CountedOnce
  BY DEF FInv
<1>2. /\ own' = << >> /\ received' = received /\ dropped' = dropped /\ rtable' = rtable
      /\ mixed \subseteq mixed' /\ (dups' > 1 => slot'.id \in mixed')
      /\ dups' = dups - Gone(ip) + Cardinality(Others(ip))
      /\ dups' > 0 => \/ dups > 0 /\ slot' = slot /\ ~Answered(slot, ip)
                      \/ \E k \in DOMAIN own : slot' = own[k] /\ ~Answered(own[k], ip)
  BY <1>1, QueueAfter, ReplyParts, MixedAfter
<1>3. Queued'
  <2>1. \A p : Routable(p)' = Routable(p)
    BY <1>2 DEF Routable, get_best_route
  <2>2. ASSUME dups' > 0
        PROVE  slot'.id \in 1 .. received' /\ Routable(slot') /\ (slot'.id \notin mixed' => slot'.ttl >= 2)
    BY <1>1, <1>2, <2>2 DEF Queued
  <2> QED
    BY <1>2, <2>2 DEF Queued, Routable, get_best_route
<1>4. Len(out') = Len(out) + Gone(ip) + Cardinality(Ours(ip)) /\ Len(out) \in Nat /\ Gone(ip) \in Nat
  BY <1>1, ReplyFrames
<1>5. Cardinality(Ours(ip)) \in Nat /\ Cardinality(Others(ip)) \in Nat
      /\ Cardinality(Ours(ip)) + Cardinality(Others(ip)) = Len(own)
  BY <1>1, Parted
<1>6. dups \in Nat /\ dropped \in Nat /\ Len(own) \in Nat /\ received \in Nat
  BY <1>1, RouterAssumption DEF TypeOK, RouterAssumption
<1>7. received = dropped + (dups - Gone(ip) + Cardinality(Others(ip))) + 0
                   + (Len(out) + Gone(ip) + Cardinality(Ours(ip)))
  <2>1. received = dropped + dups + Len(own) + Len(out)
    BY <1>1 DEF CountedOnce
  <2>2. Len(out) \in Nat /\ Gone(ip) \in Nat
    BY <1>4
  <2> QED
    BY ONLY <1>5, <1>6, <2>1, <2>2, SMTT(60)
<1>8. Len(own') = 0
  BY <1>2
<1>9. CountedOnce'
  BY ONLY <1>2, <1>4, <1>7, <1>8, Zenon DEF CountedOnce
<1> QED
  BY <1>3, <1>9

LEMMA Bytes ==
  ASSUME NEW x \in 0 .. 255, x >= 2, NEW y, y = 0
  PROVE  x \in 2 .. 255 /\ (x - y) % 256 = x
  OBVIOUS

\* What waited leaves by its route: to the next hop that answered, with a TTL left.
LEMMA LeavesByRoute ==
  ASSUME NEW p, NEW ip, NEW mac, Routable(p), Answered(p, ip), p.id \notin mixed => p.ttl \in 2 .. 255
  PROVE  ByRoute(Forwarded(p, Reached(ip, mac)))
<1> DEFINE f == Forwarded(p, Reached(ip, mac))
<1>1. f.id = p.id /\ f.daddr = p.daddr /\ f.dhost = Reached(ip, mac) /\ f.ttl = (p.ttl - 1) % 256
      /\ f.interface = get_best_route(p.daddr).interface
  BY ForwardedParts
<1>2. f.id \notin mixed => f.ttl >= 1
  <2>1. \A x \in 2 .. 255 : (x - 1) % 256 >= 1
    OBVIOUS
  <2> QED
    BY <1>1, <2>1
<1>3. f.dhost.ip = get_best_route(p.daddr).next_hop
  BY <1>1 DEF Reached, Answered
<1> HIDE DEF f
<1> QED
  BY <1>1, <1>2, <1>3 DEF ByRoute, Routable, f

LEMMA RoutedFrames == SentByRoute <=> \A k \in DOMAIN out : ByRoute(out[k])
  BY DEF SentByRoute, ByRoute

LEMMA ReplyRoutes ==
  ASSUME FInv, NEW ip, NEW mac, ArpReply(ip, mac)
  PROVE  SentByRoute'
<1> DEFINE n == Cardinality(Ours(ip))
           g == Gone(ip)
<1>1. TypeOK /\ IsSequence /\ Queued /\ (\A k \in DOMAIN out : ByRoute(out[k]))
  BY RoutedFrames DEF FInv
<1>2. PICK turn \in [1 .. n -> Ours(ip)] :
        \A k \in DOMAIN out' :
             \/ k \in DOMAIN out /\ out'[k] = out[k]
             \/ FromSlot(k, ip) /\ out'[k] = Forwarded(Copy(k - Len(out)), Reached(ip, mac))
             \/ FromOwn(k, ip) /\ out'[k] = Forwarded(own[turn[k - (Len(out) + g)]], Reached(ip, mac))
  BY <1>1, ReplyFrames
<1>3. rtable' = rtable /\ mixed \subseteq mixed'
  BY <1>1, ReplyParts, MixedAfter
<1>4. \A f : ByRoute(f) => ByRoute(f)'
  BY <1>3 DEF ByRoute, get_best_route
<1>5. ASSUME NEW k \in DOMAIN out' PROVE ByRoute(out'[k])
  <2>1. CASE k \in DOMAIN out /\ out'[k] = out[k]
    BY <1>1, <2>1
  <2>2. CASE FromSlot(k, ip) /\ out'[k] = Forwarded(Copy(k - Len(out)), Reached(ip, mac))
    <3>1. Len(out) \in Nat /\ k \in Int
      BY <1>1, <1>5, ReplyFrames DEF IsSequence
    <3>2. dups > 0 /\ Answered(slot, ip) /\ g = dups /\ dups \in Nat
      BY <1>1, <2>2, <3>1 DEF FromSlot, Gone, TypeOK
    <3>3. slot \in WaitingPacket
      BY <1>1, <3>2 DEF Queued, TypeOK, NoPacket
    <3> DEFINE c == Copy(k - Len(out))
    <3>4. c.id = slot.id /\ c.daddr = slot.daddr /\ c.ttl = (slot.ttl - (k - Len(out) - 1)) % 256
      BY <3>3 DEF Copy, WaitingPacket
    <3>5. slot.ttl \in 0 .. 255
      BY <3>3 DEF WaitingPacket
    <3>6. slot.id \notin mixed => slot.ttl >= 2 /\ ~(dups > 1)
      BY <1>1, <3>2 DEF Queued
    <3>7. c.id \notin mixed => c.ttl \in 2 .. 255
      <4>1. ASSUME slot.id \notin mixed PROVE k - Len(out) - 1 = 0
        BY <2>2, <3>1, <3>2, <3>6, <4>1 DEF FromSlot
      <4>2. slot.id \notin mixed => (slot.ttl - (k - Len(out) - 1)) % 256 = slot.ttl /\ slot.ttl \in 2 .. 255
        <5>1. slot.id \notin mixed => slot.ttl \in 0 .. 255 /\ slot.ttl >= 2 /\ k - Len(out) - 1 = 0
          BY <3>5, <3>6, <4>1
        <5> QED
          BY ONLY <5>1, Bytes
      <4> HIDE DEF c
      <4> QED
        BY <3>4, <4>2
    <3>8. Routable(c) /\ Answered(c, ip)
      BY <1>1, <3>2, <3>4 DEF Queued, Routable, Answered
    <3> HIDE DEF c
    <3>9. ByRoute(Forwarded(c, Reached(ip, mac)))
      BY <3>7, <3>8, LeavesByRoute
    <3> QED
      BY <2>2, <3>9 DEF c
  <2>3. CASE FromOwn(k, ip) /\ out'[k] = Forwarded(own[turn[k - (Len(out) + g)]], Reached(ip, mac))
    <3>1. turn[k - (Len(out) + g)] \in Ours(ip)
      BY <1>2, <2>3 DEF FromOwn
    <3>2. PICK j \in Ours(ip) : j = turn[k - (Len(out) + g)]
      BY <3>1
    <3>3. j \in DOMAIN own /\ Answered(own[j], ip)
      BY DEF Ours
    <3>4. own[j] \in WaitingPacket
      BY <1>1, <3>3 DEF TypeOK
    <3>5. Routable(own[j]) /\ own[j].ttl \in 2 .. 255
      <4>1. Routable(own[j]) /\ own[j].ttl >= 2
        BY <1>1, <3>3 DEF Queued
      <4>2. own[j].ttl \in 0 .. 255
        BY <3>4 DEF WaitingPacket
      <4> QED
        BY <4>1, <4>2, Bytes
    <3> QED
      BY <2>3, <3>2, <3>3, <3>5, LeavesByRoute
  <2> QED
    BY <1>2, <2>1, <2>2, <2>3
<1>6. ASSUME NEW k \in DOMAIN out' PROVE \E f : f = out'[k] /\ ByRoute(f)'
  BY <1>4, <1>5, <1>6
<1> QED
  BY <1>6 DEF SentByRoute, ByRoute

\* The rest of the invariant, TypeOK apart.
Fates == IsSequence /\ Queued /\ OnePlace /\ CountedOnce /\ SentByRoute

\* One frame answers or forwards the packet that has come.
LEMMA OneFrameKeeps ==
  ASSUME FInv, Quiet, received' = received + 1, dropped' = dropped,
         NEW x, out' = out \o <<x>>, x.id = received + 1, ByRoute(x)
  PROVE  Fates'
<1> USE DEF Quiet
<1>1. TypeOK /\ IsSequence /\ Queued /\ OnePlace /\ CountedOnce /\ (\A k \in DOMAIN out : ByRoute(out[k]))
  BY RoutedFrames DEF FInv
<1>2. PICK S : out \in Seq(S)
  BY <1>1 DEF IsSequence
<1>3. <<x>> \in Seq({x}) /\ Len(<<x>>) = 1 /\ <<x>>[1] = x
  OBVIOUS
<1>4. /\ out \o <<x>> \in Seq(S \cup {x}) /\ Len(out \o <<x>>) = Len(out) + Len(<<x>>) /\ Len(out) \in Nat
      /\ DOMAIN out = 1 .. Len(out) /\ DOMAIN (out \o <<x>>) = 1 .. Len(out) + Len(<<x>>)
      /\ \A k \in 1 .. Len(out) : (out \o <<x>>)[k] = out[k]
      /\ \A k \in 1 .. Len(out) + Len(<<x>>) :
           k > Len(out) => k - Len(out) \in 1 .. Len(<<x>>) /\ (out \o <<x>>)[k] = <<x>>[k - Len(out)]
  BY ONLY <1>2, <1>3, Following
<1>5. /\ out' \in Seq(S \cup {x}) /\ Len(out') = Len(out) + 1 /\ DOMAIN out' = 1 .. Len(out) + 1
      /\ \A k \in DOMAIN out' : \/ k \in DOMAIN out /\ out'[k] = out[k]
                                \/ k = Len(out) + 1 /\ out'[k] = x
  <2>1. \A k \in 1 .. Len(out) + 1 : k \in 1 .. Len(out) \/ (k = Len(out) + 1 /\ k > Len(out) /\ k - Len(out) = 1)
    BY <1>4
  <2>2. \A k \in 1 .. Len(out) + 1 : \/ k \in DOMAIN out /\ (out \o <<x>>)[k] = out[k]
                                     \/ k = Len(out) + 1 /\ (out \o <<x>>)[k] = x
    BY <1>3, <1>4, <2>1
  <2> QED
    BY <1>3, <1>4, <2>2
<1>6. received \in Nat /\ dropped \in Nat /\ dups \in Nat /\ Len(own) \in Nat /\ Len(out) \in Nat
  BY <1>1, <1>4, RouterAssumption DEF TypeOK, RouterAssumption
<1>7. 1 .. received \subseteq 1 .. received' /\ received + 1 \in 1 .. received' /\ received + 1 \notin 1 .. received
  BY <1>6
<1>8. IsSequence'
  BY <1>5 DEF IsSequence
<1>9. Queued'
  BY <1>1, <1>7 DEF Queued, Routable, get_best_route
<1>10. CountedOnce'
  <2>1. received + 1 = dropped + dups + Len(own) + (Len(out) + 1)
    <3>1. received = dropped + dups + Len(own) + Len(out)
      BY <1>1 DEF CountedOnce
    <3> QED
      BY ONLY <1>6, <3>1, SMTT(30)
  <2> QED
    BY ONLY <1>5, <2>1, Quiet, received' = received + 1, dropped' = dropped, Zenon DEF CountedOnce
<1>11. OnePlace'
  <2>1. \A k \in DOMAIN out' : out'[k].id \in 1 .. received'
    BY <1>1, <1>5, <1>7 DEF OnePlace
  <2>2. \A j \in DOMAIN out', k \in DOMAIN own : out'[j].id # own[k].id
    BY <1>1, <1>5, <1>7 DEF OnePlace, Queued
  <2>3. ASSUME NEW j \in DOMAIN out', NEW k \in DOMAIN out', out'[j].id = out'[k].id, out'[j].id \notin mixed
        PROVE  j = k
    BY <1>1, <1>5, <1>7, <2>3 DEF OnePlace
  <2>4. dups > 0 /\ slot.id \notin mixed => \A j \in DOMAIN out' : out'[j].id # slot.id
    BY <1>1, <1>5, <1>7 DEF OnePlace, Queued
  <2> QED
    BY <1>1, <2>1, <2>2, <2>3, <2>4 DEF OnePlace
<1>12. SentByRoute'
  <2>1. \A f : ByRoute(f) => ByRoute(f)'
    BY DEF ByRoute, get_best_route
  <2>2. ASSUME NEW k \in DOMAIN out' PROVE \E f : f = out'[k] /\ ByRoute(f)'
    BY <1>1, <1>5, <2>1, <2>2
  <2> QED
    BY <2>2 DEF SentByRoute, ByRoute
<1> QED
  BY <1>8, <1>9, <1>10, <1>11, <1>12 DEF Fates

\* What keeps the places of all packets and the frames: a packet dropped, or nothing.
LEMMA NoFrameKeeps ==
  ASSUME FInv, Quiet, out' = out, received' - dropped' = received - dropped, received' >= received,
         received' \in Nat, dropped' \in Nat
  PROVE  Fates'
<1> USE DEF Quiet
<1>1. TypeOK /\ IsSequence /\ Queued /\ OnePlace /\ CountedOnce /\ SentByRoute
  BY DEF FInv
<1>2. received \in Nat /\ dropped \in Nat /\ dups \in Nat /\ Len(own) \in Nat
  BY <1>1, RouterAssumption DEF TypeOK, RouterAssumption
<1>3. PICK S : out \in Seq(S)
  BY <1>1 DEF IsSequence
<1>4. IsSequence' /\ Len(out) \in Nat
  BY <1>3 DEF IsSequence
<1>5. 1 .. received \subseteq 1 .. received'
  BY <1>2
<1>6. Queued' /\ OnePlace' /\ SentByRoute'
  BY <1>1, <1>5 DEF Queued, OnePlace, SentByRoute, Routable, get_best_route
<1>7. CountedOnce'
  <2>1. PICK r \in Nat, d \in Nat : r = received' /\ d = dropped' /\ r - d = received - dropped
    OBVIOUS
  <2>2. r = d + dups + Len(own) + Len(out)
    <3>1. received = dropped + dups + Len(own) + Len(out) /\ r - d = received - dropped
      BY <1>1, <2>1 DEF CountedOnce
    <3> QED
      BY ONLY <1>2, <1>4, <2>1, <3>1, SMTT(30)
  <2> QED
    BY ONLY <2>1, <2>2, Quiet, out' = out, Zenon DEF CountedOnce
<1> QED
  BY <1>4, <1>6, <1>7 DEF Fates

LEMMA AskFates ==
  ASSUME FInv, received < MaxPackets, NEW m \in Arriving, Ask(m)
  PROVE  Fates'
<1>1. TypeOK /\ IsSequence /\ Queued /\ OnePlace /\ CountedOnce /\ SentByRoute
  BY DEF FInv
<1>2. /\ own' = Append(own, Packet(m)) /\ received' = received + 1 /\ Packet(m) \in WaitingPacket
      /\ UNCHANGED <<rtable, arp_table, dups, slot, dropped, mixed, out>>
  BY <1>1, AskParts DEF Ask
<1>3. Packet(m).id = received + 1 /\ Packet(m).ttl >= 2 /\ Routable(Packet(m))
  <2>1. m.id = received + 1 /\ Routed(m) /\ m.ttl \in 0 .. 255
    BY RouterAssumption DEF Ask, Receive, Arriving, RouterAssumption
  <2> QED
    BY <2>1 DEF Packet, Routed, Expired, Routable
<1>4. received \in Nat /\ dropped \in Nat /\ dups \in Nat /\ own \in Seq(WaitingPacket) /\ Len(own) \in Nat
  BY <1>1, RouterAssumption DEF TypeOK, RouterAssumption
<1>5. PICK S : out \in Seq(S)
  BY <1>1 DEF IsSequence
<1>6. IsSequence' /\ Len(out) \in Nat
  BY <1>2, <1>5 DEF IsSequence
<1>7. 1 .. received \subseteq 1 .. received' /\ received + 1 \in 1 .. received' /\ received + 1 \notin 1 .. received
  BY <1>2, <1>4
<1>8. /\ DOMAIN own = 1 .. Len(own) /\ DOMAIN own' = 1 .. Len(own) + 1 /\ Len(own') = Len(own) + 1
      /\ \A k \in DOMAIN own' :
           \/ k \in DOMAIN own /\ own'[k] = own[k]
           \/ k = Len(own) + 1 /\ own'[k] = Packet(m)
  BY <1>2, <1>4
<1>9. Queued'
  <2>1. \A k \in DOMAIN own' : own'[k].id \in 1 .. received' /\ Routable(own'[k]) /\ own'[k].ttl >= 2
    BY <1>1, <1>3, <1>7, <1>8 DEF Queued
  <2> QED
    BY <1>1, <1>2, <1>7, <2>1 DEF Queued, Routable, get_best_route
<1>10. OnePlace'
  <2>1. \A k \in DOMAIN out : out[k].id \in 1 .. received'
    BY <1>1, <1>7 DEF OnePlace
  <2>2. \A j, k \in DOMAIN own' : own'[j].id = own'[k].id => j = k
    BY <1>1, <1>3, <1>7, <1>8 DEF OnePlace, Queued
  <2>3. \A j \in DOMAIN out, k \in DOMAIN own' : out[j].id # own'[k].id
    BY <1>1, <1>3, <1>7, <1>8 DEF OnePlace
  <2>4. dups > 0 => \A k \in DOMAIN own' : own'[k].id # slot.id
    BY <1>1, <1>3, <1>7, <1>8 DEF OnePlace, Queued
  <2> QED
    BY <1>1, <1>2, <2>1, <2>2, <2>3, <2>4 DEF OnePlace
<1>11. CountedOnce'
  <2>1. received + 1 = dropped + dups + (Len(own) + 1) + Len(out)
    <3>1. received = dropped + dups + Len(own) + Len(out)
      BY <1>1 DEF CountedOnce
    <3> QED
      BY ONLY <1>4, <1>6, <3>1, SMTT(30)
  <2> QED
    BY ONLY <1>2, <1>8, <2>1, Zenon DEF CountedOnce
<1>12. SentByRoute'
  BY <1>1, <1>2 DEF SentByRoute, get_best_route
<1> QED
  BY <1>6, <1>9, <1>10, <1>11, <1>12 DEF Fates

LEMMA ArrivalFates ==
  ASSUME FInv, Arrival
  PROVE  Fates'
<1>1. TypeOK /\ received \in Nat /\ dropped \in Nat /\ received < MaxPackets
  BY RouterAssumption DEF FInv, TypeOK, Arrival, RouterAssumption
<1>2. ASSUME NEW i, AnswerArp(i) PROVE Fates'
  <2>1. PICK x : x = [what |-> "arp", id |-> received + 1, interface |-> i]
    OBVIOUS
  <2>2. Quiet /\ received' = received + 1 /\ dropped' = dropped
    BY <1>2, QuietAnswer
  <2>3. out' = out \o <<x>> /\ x.id = received + 1 /\ ByRoute(x)
    BY <1>2, <2>1 DEF AnswerArp, Sent, ByRoute
  <2> QED
    BY <2>2, <2>3, OneFrameKeeps
<1>3. ASSUME NEW m \in Arriving, Drop(m) PROVE Fates'
  <2>1. Quiet /\ received' = received + 1 /\ dropped' = dropped + 1 /\ out' = out
    BY <1>3, QuietSteps DEF Drop, Receive
  <2> QED
    BY <1>1, <2>1, NoFrameKeeps
<1>4. ASSUME NEW m \in Arriving, NEW what \in {"exceeded", "unreachable", "echo"}, Receive(m), Reply(m, what)
      PROVE  Fates'
  <2>1. PICK x : x = [what |-> what, id |-> m.id, interface |-> m.interface]
    OBVIOUS
  <2>2. Quiet /\ received' = received + 1 /\ dropped' = dropped
    BY <1>4 DEF Reply, Receive, Quiet, table, queue, ghosts
  <2>3. out' = out \o <<x>> /\ x.id = received + 1 /\ ByRoute(x)
    BY <1>4, <2>1 DEF Reply, Receive, Sent, ByRoute
  <2> QED
    BY <2>2, <2>3, OneFrameKeeps
<1>5. ASSUME NEW m \in Arriving, Forward(m) PROVE Fates'
  <2>1. PICK x : x = Forwarded(m, [ip |-> m.daddr, mac |-> arp_table[m.daddr]])
    OBVIOUS
  <2>2. Quiet /\ received' = received + 1 /\ dropped' = dropped
    BY <1>5 DEF Forward, Receive, Quiet, table, queue, ghosts
  <2>3. m.ttl \in 0 .. 255 /\ m.ttl >= 2 /\ Routable(m)
    <3>1. Routed(m) /\ m.ttl \in 0 .. 255
      BY <1>5, RouterAssumption DEF Forward, Arriving, RouterAssumption
    <3> QED
      BY <3>1 DEF Routed, Expired, Routable
  <2>4. (m.ttl - 1) % 256 >= 1
    BY <2>3
  <2>5. x.id = m.id /\ x.daddr = m.daddr /\ x.dhost.ip = m.daddr /\ x.ttl = (m.ttl - 1) % 256
        /\ x.interface = get_best_route(m.daddr).interface
    BY <2>1, ForwardedParts
  <2>6. out' = out \o <<x>> /\ x.id = received + 1
    BY <1>5, <2>1, <2>5 DEF Forward, Receive, Sent
  <2>7. ByRoute(x)
    BY <2>3, <2>4, <2>5 DEF ByRoute, Routable
  <2> QED
    BY <2>2, <2>6, <2>7, OneFrameKeeps
<1> QED
  BY <1>1, <1>2, <1>3, <1>4, <1>5, AskFates DEF Arrival, TimeExceeded, Unreachable, Echo

\* Every step keeps the invariant.
LEMMA FatesStep ==
  ASSUME FInv, [Next]_vars
  PROVE  Fates'
<1>1. CASE Arrival
  BY <1>1, ArrivalFates
<1>2. ASSUME NEW ip, NEW mac, ArpReply(ip, mac) PROVE Fates'
  BY <1>2, ReplyPlaces, ReplyQueue, ReplyRoutes DEF Fates
<1>3. CASE UNCHANGED vars
  <2>1. Quiet /\ out' = out /\ received' = received /\ dropped' = dropped
    BY <1>3 DEF vars, Quiet
  <2>2. received \in Nat /\ dropped \in Nat
    BY RouterAssumption DEF FInv, TypeOK, RouterAssumption
  <2>3. received' - dropped' = received - dropped /\ received' >= received /\ received' \in Nat /\ dropped' \in Nat
    BY <2>1, <2>2
  <2> QED
    BY <2>1, <2>3, NoFrameKeeps
<1> QED
  BY <1>1, <1>2, <1>3 DEF Next, HostReplies, HostAnnounces

LEMMA FateSafe == Spec => []FInv
<1>1. Init => FInv
  <2>1. ASSUME Init PROVE IsSequence /\ Queued /\ OnePlace /\ CountedOnce /\ SentByRoute
    <3>1. out = << >> /\ own = << >> /\ dups = 0 /\ received = 0 /\ dropped = 0
      BY <2>1 DEF Init
    <3>2. DOMAIN out = {} /\ DOMAIN own = {} /\ Len(out) = 0 /\ Len(own) = 0
      BY <3>1
    <3>3. out \in Seq({0})
      BY <3>1
    <3> QED
      BY <3>1, <3>2, <3>3 DEF IsSequence, Queued, OnePlace, CountedOnce, SentByRoute
  <2> QED
    BY <2>1, InitTypes DEF FInv
<1>2. FInv /\ [Next]_vars => FInv'
  <2>1. FInv /\ [Next]_vars => TypeOK'
    BY TypesStep DEF FInv
  <2> QED
    BY <2>1, FatesStep DEF FInv, Fates
<1> QED
  BY <1>1, <1>2, PTL DEF Spec

\* A frame of router.c that forwards a packet, also one that waited in the queue while other hosts
\* answered, leaves as its route says.
THEOREM LeaveByRoute == Spec => []SentByRoute
<1>1. FInv => SentByRoute
  BY DEF FInv
<1> QED
  BY <1>1, FateSafe, PTL

-----------------------------------------------------------------------------
(* One fate. *)

LEMMA AtMostOne ==
  ASSUME NEW S, \A a, b \in S : a = b
  PROVE  IF S = {} THEN Cardinality(S) = 0 ELSE Cardinality(S) = 1
<1>1. CASE S = {}
  BY <1>1, FS_EmptySet
<1>2. CASE S # {}
  <2>1. PICK a : S = {a}
    BY <1>2
  <2>2. Cardinality({a}) = 1
    BY FS_Singleton
  <2> QED
    BY <1>2, <2>1, <2>2, Zenon
<1> QED
  BY <1>1, <1>2

LEMMA QueueParts ==
  ASSUME TypeOK
  PROVE  /\ Len(q) = dups + Len(own) /\ DOMAIN q = 1 .. dups + Len(own)
         /\ dups \in Nat /\ Len(own) \in Nat /\ DOMAIN own = 1 .. Len(own)
         /\ \A k \in DOMAIN q : /\ k \in 1 .. dups => q[k] = slot
                                /\ k \notin 1 .. dups => k - dups \in DOMAIN own /\ q[k] = own[k - dups]
<1>1. dups \in Nat /\ Len(own) \in Nat /\ DOMAIN own = 1 .. Len(own)
  BY DEF TypeOK
<1> DEFINE n == dups + Len(own)
<1>2. n \in Nat
  BY <1>1
<1>3. /\ DOMAIN q = 1 .. n
      /\ \A k \in 1 .. n : q[k] = IF k <= dups THEN slot ELSE own[k - dups]
  BY DEF q
<1>4. Len(q) = n
  <2>1. PICK s : s = q
    OBVIOUS
  <2>2. s \in [1 .. n -> {s[k] : k \in 1 .. n}]
    BY <2>1 DEF q
  <2> HIDE DEF n
  <2>3. s \in Seq({s[k] : k \in 1 .. n}) /\ DOMAIN s = 1 .. n
    BY <1>2, <2>2
  <2>4. Len(s) = n
    BY <1>2, <2>3
  <2> QED
    BY <2>1, <2>4
<1>5. ASSUME NEW k \in 1 .. n
      PROVE  /\ k \in 1 .. dups => k <= dups
             /\ k \notin 1 .. dups => ~(k <= dups) /\ k - dups \in 1 .. Len(own)
  BY <1>1
<1> QED
  BY <1>1, <1>3, <1>4, <1>5

LEMMA FInvGivesOneFate ==
  ASSUME FInv
  PROVE  OneFate
<1>1. TypeOK /\ IsSequence /\ Queued /\ OnePlace /\ CountedOnce
  BY DEF FInv
<1>2. ASSUME NEW id \in 1 .. received \ mixed
      PROVE  Cardinality(Frames(id)) + Cardinality(Waiting(id)) <= 1
  <2>1. \A j, k \in Frames(id) : j = k
    BY <1>1 DEF Frames, OnePlace
  <2>2. \A k \in Waiting(id) :
          \/ k \in 1 .. dups /\ slot.id = id
          \/ k \notin 1 .. dups /\ k - dups \in DOMAIN own /\ own[k - dups].id = id
    BY <1>1, QueueParts DEF Waiting
  <2>3. (\E k \in 1 .. dups : TRUE) => dups > 0
    BY <1>1, QueueParts
  <2>4. ASSUME NEW j \in Waiting(id), NEW k \in Waiting(id) PROVE j = k
    <3>1. CASE j \in 1 .. dups /\ slot.id = id
      <4>1. dups = 1
        BY <1>1, <2>3, <3>1, QueueParts DEF Queued
      <4>2. k \in 1 .. dups
        BY <1>1, <2>2, <3>1, <4>1 DEF OnePlace
      <4> QED
        BY <3>1, <4>1, <4>2
    <3>2. CASE j \notin 1 .. dups /\ j - dups \in DOMAIN own /\ own[j - dups].id = id
      <4>1. k \notin 1 .. dups /\ k - dups \in DOMAIN own /\ own[k - dups].id = id
        BY <1>1, <2>2, <2>3, <3>2 DEF OnePlace
      <4>2. j - dups = k - dups
        BY <1>1, <3>2, <4>1 DEF OnePlace
      <4>3. j \in Int /\ k \in Int /\ dups \in Int
        BY <1>1, QueueParts DEF Waiting
      <4> QED
        BY <4>2, <4>3
    <3> QED
      BY <2>2, <3>1, <3>2
  <2>5. Frames(id) = {} \/ Waiting(id) = {}
    <3>1. ASSUME NEW j \in Frames(id), NEW k \in Waiting(id) PROVE FALSE
      <4>1. j \in DOMAIN out /\ out[j].id = id /\ id \notin mixed
        BY DEF Frames
      <4> QED
        BY <1>1, <2>2, <2>3, <4>1 DEF OnePlace
    <3> QED
      BY <3>1
  <2>6. /\ IF Frames(id) = {} THEN Cardinality(Frames(id)) = 0 ELSE Cardinality(Frames(id)) = 1
        /\ IF Waiting(id) = {} THEN Cardinality(Waiting(id)) = 0 ELSE Cardinality(Waiting(id)) = 1
    <3>1. IF Frames(id) = {} THEN Cardinality(Frames(id)) = 0 ELSE Cardinality(Frames(id)) = 1
      BY ONLY <2>1, AtMostOne
    <3>2. IF Waiting(id) = {} THEN Cardinality(Waiting(id)) = 0 ELSE Cardinality(Waiting(id)) = 1
      BY ONLY <2>4, AtMostOne
    <3> QED
      BY <3>1, <3>2
  <2> QED
    BY ONLY <2>5, <2>6
<1>3. received = dropped + Len(q) + Len(out)
  <2>1. dropped \in Nat /\ Len(out) \in Nat
    BY <1>1 DEF TypeOK, IsSequence
  <2>2. received = dropped + dups + Len(own) + Len(out) /\ Len(q) = dups + Len(own)
        /\ dups \in Nat /\ Len(own) \in Nat
    BY <1>1, QueueParts DEF CountedOnce
  <2> QED
    BY ONLY <2>1, <2>2
<1> QED
  BY <1>2, <1>3 DEF OneFate

\* Whatever arrives and whoever answers, no packet that kept its memory in router.c is sent twice,
\* or sent and kept, and none that came is lost from the count.
THEOREM AtMostOneFate == Spec => []OneFate
  BY FateSafe, FInvGivesOneFate, PTL

-----------------------------------------------------------------------------
(* The binary search. *)

\* What one call of the search does, on entries left..right, counted from 0.
Step(f, t, dest, span) ==
  LET left == span[1]
      right == span[2]
      mid == (left + right) \div 2
      e == t[mid + 1]
      net == And(dest, e.mask)
  IN  IF left > right THEN NoRoute
      ELSE IF net = e.prefix THEN e
      ELSE IF net > e.prefix THEN f[<<left, mid - 1>>]
      ELSE f[<<mid + 1, right>>]

Spans(n) == (0..n) \X (-1..n-1)
Size(span) == span[2] - span[1] + 1
Searches(f, t, dest, n) == \A span \in Spans(n) : f[span] = Step(f, t, dest, span)
IsSearch(f, t, dest, n) == f = [span \in Spans(n) |-> Step(f, t, dest, span)]
UpTo(n, m) == {span \in Spans(n) : Size(span) <= m}

\* Where the search goes on.
LEMMA SmallerSpans ==
  ASSUME NEW n \in Nat, NEW left \in 0..n, NEW right \in -1..n-1, left <= right
  PROVE  LET mid == (left + right) \div 2
         IN  /\ mid \in left..right /\ mid + 1 \in 1..n
             /\ <<left, mid - 1>> \in Spans(n) /\ Size(<<left, mid - 1>>) < Size(<<left, right>>)
             /\ <<mid + 1, right>> \in Spans(n) /\ Size(<<mid + 1, right>>) < Size(<<left, right>>)
<1> DEFINE mid == (left + right) \div 2
<1>1. mid \in left..right
  OBVIOUS
<1> HIDE DEF mid
<1>2. mid + 1 \in 1..n /\ mid - 1 \in -1..n-1 /\ mid + 1 \in 0..n
  BY <1>1
<1>3. Size(<<left, mid - 1>>) = mid - left /\ Size(<<left, right>>) = right - left + 1
      /\ Size(<<mid + 1, right>>) = right - mid
  BY <1>1 DEF Size
<1> QED
  BY <1>1, <1>2, <1>3 DEF Spans, mid

\* Each call is of a smaller span, so the search is a function.
LEMMA SearchExists ==
  ASSUME NEW t, NEW dest, NEW n \in Nat
  PROVE  \E f : IsSearch(f, t, dest, n)
<1> DEFINE Is(f, m) == f = [span \in UpTo(n, m) |-> Step(f, t, dest, span)]
           S == {m \in Nat : \E f : Is(f, m)}
<1>0. \A span \in Spans(n) : span[1] \in 0..n /\ span[2] \in -1..n-1 /\ span = <<span[1], span[2]>>
  BY DEF Spans
<1>1. 0 \in S
  <2> DEFINE f == [span \in UpTo(n, 0) |-> NoRoute]
  <2>1. ASSUME NEW span \in UpTo(n, 0) PROVE Step(f, t, dest, span) = NoRoute
    <3>1. span[1] > span[2]
      BY <1>0 DEF UpTo, Size
    <3> QED
      BY <3>1 DEF Step
  <2>2. Is(f, 0)
    BY <2>1
  <2> QED
    BY <2>2
<1>2. ASSUME NEW m \in Nat, m \in S PROVE m + 1 \in S
  <2>1. PICK f : Is(f, m)
    BY <1>2
  <2> DEFINE g == [span \in UpTo(n, m + 1) |-> Step(f, t, dest, span)]
  <2>2. \A span \in UpTo(n, m) : span \in UpTo(n, m + 1) /\ g[span] = f[span]
    <3>1. \A span \in UpTo(n, m) : span \in UpTo(n, m + 1)
      BY <1>0 DEF UpTo, Size
    <3> QED
      BY <2>1, <3>1
  <2>3. ASSUME NEW span \in UpTo(n, m + 1) PROVE Step(g, t, dest, span) = Step(f, t, dest, span)
    <3> DEFINE left == span[1]
               right == span[2]
               mid == (left + right) \div 2
    <3>1. left \in 0..n /\ right \in -1..n-1 /\ span = <<left, right>> /\ Size(span) <= m + 1
      BY <1>0 DEF UpTo
    <3>2. CASE left > right
      BY <3>2 DEF Step
    <3>3. CASE ~(left > right)
      <4>1. left <= right
        BY <3>1, <3>3
      <4>2. /\ <<left, mid - 1>> \in Spans(n) /\ Size(<<left, mid - 1>>) < Size(<<left, right>>)
            /\ <<mid + 1, right>> \in Spans(n) /\ Size(<<mid + 1, right>>) < Size(<<left, right>>)
            /\ mid \in Int
        <5> HIDE DEF left, right
        <5> QED
          BY <3>1, <4>1, SmallerSpans
      <4>3. Size(<<left, right>>) <= m + 1 /\ Size(<<left, right>>) \in Int
            /\ Size(<<left, mid - 1>>) \in Int /\ Size(<<mid + 1, right>>) \in Int
        BY <3>1, <4>2 DEF Size
      <4>4. <<left, mid - 1>> \in UpTo(n, m) /\ <<mid + 1, right>> \in UpTo(n, m)
        <5> HIDE DEF left, right, mid
        <5> QED
          BY <4>2, <4>3 DEF UpTo
      <4>5. g[<<left, mid - 1>>] = f[<<left, mid - 1>>] /\ g[<<mid + 1, right>>] = f[<<mid + 1, right>>]
        <5> HIDE DEF left, right, mid, g
        <5> QED
          BY <2>2, <4>4
      <4> HIDE DEF g
      <4> QED
        BY <4>5 DEF Step
    <3> QED
      BY <3>2, <3>3
  <2>4. Is(g, m + 1)
    BY <2>3
  <2> HIDE DEF g
  <2>5. \E h : Is(h, m + 1)
    BY <2>4
  <2> QED
    BY <2>5
<1> HIDE DEF S
<1>3. n \in S
  BY <1>1, <1>2, Inductive
<1>4. UpTo(n, n) = Spans(n)
  BY <1>0 DEF UpTo, Size
<1> QED
  BY <1>3, <1>4 DEF S, IsSearch

\* Descending prefixes; and an entry that is not missed: the search of
\* left..right, an interval with j - 1 in it, comes to it.
Descends(t, n) == \A i, j \in 1..n : i < j => t[i].prefix > t[j].prefix
Finds(f, t, j, left, right) == left <= j - 1 /\ j - 1 <= right => f[<<left, right>>] = t[j]

\* In a table that descends, the search finds the entry j that matches, if the
\* entries with another mask are less than half as far down: the entries looked
\* at are not among them (router.c:56-77).
LEMMA SearchFinds ==
  ASSUME NEW n \in Nat, NEW t, NEW dest, NEW j \in 1..n,
         \A i \in 1..n : t[i].prefix \in Int, Descends(t, n),
         \A i \in 1..n : 2 * i >= j => And(dest, t[i].mask) = t[j].prefix,
         NEW f, Searches(f, t, dest, n)
  PROVE  \A left \in 0..n, right \in -1..n-1 : Finds(f, t, j, left, right)
<1> USE DEF Descends, Searches, Finds
<1> DEFINE Right(left, right) == Finds(f, t, j, left, right)
           S == {m \in Nat : \A left \in 0..n, right \in -1..n-1 : right - left + 1 <= m => Right(left, right)}
<1>1. 0 \in S
  <2>1. \A left \in 0..n, right \in -1..n-1 : right - left + 1 <= 0 => ~(left <= j - 1 /\ j - 1 <= right)
    OBVIOUS
  <2> QED
    BY <2>1
<1>2. ASSUME NEW m \in Nat, m \in S PROVE m + 1 \in S
  <2>1. SUFFICES ASSUME NEW left \in 0..n, NEW right \in -1..n-1, right - left + 1 <= m + 1,
                        left <= j - 1, j - 1 <= right
                 PROVE  f[<<left, right>>] = t[j]
    OBVIOUS
  <2> DEFINE mid == (left + right) \div 2
  <2>2. left <= right
    BY <2>1
  <2>3. mid \in left..right /\ mid + 1 \in 1..n
    BY <2>2, SmallerSpans
  <2>4. 2 * mid + 1 >= left + right
    <3>1. PICK s \in Int : s = left + right
      OBVIOUS
    <3>2. 2 * (s \div 2) + 1 >= s
      OBVIOUS
    <3> QED
      BY <3>1, <3>2
  <2>5. 2 * (mid + 1) >= j
    <3> HIDE DEF mid
    <3> QED
      BY <2>1, <2>3, <2>4
  <2> HIDE DEF mid
  <2> DEFINE e == t[mid + 1]
  <2>6. e.prefix \in Int /\ t[j].prefix \in Int /\ And(dest, e.mask) = t[j].prefix
    BY <2>3, <2>5
  <2>7. <<left, right>> \in Spans(n)
    BY DEF Spans
  <2>8. f[<<left, right>>] = IF t[j].prefix = e.prefix THEN e
                             ELSE IF t[j].prefix > e.prefix THEN f[<<left, mid - 1>>]
                             ELSE f[<<mid + 1, right>>]
    <3>1. ~(left > right)
      BY <2>2
    <3>2. f[<<left, right>>] = IF And(dest, e.mask) = e.prefix THEN e
                               ELSE IF And(dest, e.mask) > e.prefix THEN f[<<left, mid - 1>>]
                               ELSE f[<<mid + 1, right>>]
      BY <2>7, <3>1 DEF Step, mid
    <3> HIDE DEF e
    <3> QED
      BY <2>6, <3>2
  <2>9. CASE mid + 1 = j
    BY <2>8, <2>9
  <2>10. CASE j < mid + 1
    <3>1. t[j].prefix > e.prefix
      BY <2>3, <2>10
    <3>2. f[<<left, right>>] = f[<<left, mid - 1>>]
      BY <2>6, <2>8, <3>1
    <3>3. mid - 1 \in -1..n-1 /\ mid - 1 - left + 1 <= m /\ j - 1 <= mid - 1
      BY <2>1, <2>3, <2>10
    <3>4. Right(left, mid - 1)
      <4> HIDE DEF Right
      <4> QED
        BY <1>2, <3>3
    <3> QED
      BY <2>1, <3>2, <3>3, <3>4
  <2>11. CASE mid + 1 < j
    <3>1. e.prefix > t[j].prefix
      BY <2>3, <2>11
    <3>2. f[<<left, right>>] = f[<<mid + 1, right>>]
      BY <2>6, <2>8, <3>1
    <3>3. mid + 1 \in 0..n /\ right - (mid + 1) + 1 <= m /\ mid + 1 <= j - 1
      BY <2>1, <2>3, <2>11
    <3>4. Right(mid + 1, right)
      <4> HIDE DEF Right
      <4> QED
        BY <1>2, <3>3
    <3> QED
      BY <2>1, <3>2, <3>3, <3>4
  <2> QED
    BY <2>3, <2>9, <2>10, <2>11
<1> HIDE DEF S
<1>3. Nat \subseteq S
  BY <1>1, <1>2, Inductive
<1>4. ASSUME NEW left \in 0..n, NEW right \in -1..n-1 PROVE Right(left, right)
  <2>1. n \in S /\ right - left + 1 <= n
    BY <1>3
  <2> HIDE DEF Right
  <2> QED
    BY <2>1 DEF S
<1> QED
  BY <1>4

\* What the search finds matches.
Fits(f, t, dest, n, left, right) ==
  \/ f[<<left, right>>] = NoRoute
  \/ \E i \in 1..n : f[<<left, right>>] = t[i] /\ Matches(t[i], dest)

LEMMA SearchFits ==
  ASSUME NEW n \in Nat, NEW t, NEW dest, NEW f, Searches(f, t, dest, n)
  PROVE  \A left \in 0..n, right \in -1..n-1 : Fits(f, t, dest, n, left, right)
<1> DEFINE Right(left, right) == Fits(f, t, dest, n, left, right)
           S == {m \in Nat : \A left \in 0..n, right \in -1..n-1 : right - left + 1 <= m => Right(left, right)}
<1>1. ASSUME NEW left \in 0..n, NEW right \in -1..n-1, left > right
      PROVE  Right(left, right)
  <2>1. <<left, right>> \in Spans(n)
    BY DEF Spans
  <2> QED
    BY <1>1, <2>1 DEF Step, Searches, Fits
<1>2. 0 \in S
  <2>1. \A left \in 0..n, right \in -1..n-1 : right - left + 1 <= 0 => left > right
    OBVIOUS
  <2> HIDE DEF Right
  <2> QED
    BY <1>1, <2>1
<1>3. ASSUME NEW m \in Nat, m \in S PROVE m + 1 \in S
  <2>1. SUFFICES ASSUME NEW left \in 0..n, NEW right \in -1..n-1, right - left + 1 <= m + 1, left <= right
                 PROVE  Right(left, right)
    <3>1. \A left \in 0..n, right \in -1..n-1 : left <= right \/ left > right
      OBVIOUS
    <3> HIDE DEF Right
    <3> QED
      BY <1>1, <3>1
  <2> DEFINE mid == (left + right) \div 2
  <2>2. mid \in left..right /\ mid + 1 \in 1..n
    BY <2>1, SmallerSpans
  <2> HIDE DEF mid
  <2>3. mid - 1 \in -1..n-1 /\ mid + 1 \in 0..n /\ mid - 1 - left + 1 <= m /\ right - (mid + 1) + 1 <= m
    BY <2>1, <2>2
  <2>4. Right(left, mid - 1) /\ Right(mid + 1, right)
    <3> HIDE DEF Right
    <3> QED
      BY <1>3, <2>3
  <2>5. <<left, right>> \in Spans(n)
    BY DEF Spans
  <2> DEFINE e == t[mid + 1]
  <2>6. f[<<left, right>>] = IF And(dest, e.mask) = e.prefix THEN e
                             ELSE IF And(dest, e.mask) > e.prefix THEN f[<<left, mid - 1>>]
                             ELSE f[<<mid + 1, right>>]
    BY <2>1, <2>5 DEF Step, Searches, mid
  <2> QED
    BY <2>2, <2>4, <2>6 DEF Fits, Matches
<1> HIDE DEF S
<1>4. Nat \subseteq S
  BY <1>2, <1>3, Inductive
<1>5. ASSUME NEW left \in 0..n, NEW right \in -1..n-1 PROVE Right(left, right)
  <2>1. n \in S /\ right - left + 1 <= n
    BY <1>4
  <2> HIDE DEF Right
  <2> QED
    BY <2>1 DEF S
<1> QED
  BY <1>5

LEMMA BinarySearchIs ==
  ASSUME NEW t, NEW dest, Len(t) \in Nat
  PROVE  \E f : /\ Searches(f, t, dest, Len(t))
                /\ BinarySearch(t, dest) = f[<<0, Len(t) - 1>>]
<1> DEFINE n == Len(t)
           Is(f) == f = [span \in (0..n) \X (-1..n-1) |->
                           LET left == span[1]
                               right == span[2]
                               mid == (left + right) \div 2
                               e == t[mid + 1]
                               net == And(dest, e.mask)
                           IN  IF left > right THEN NoRoute
                               ELSE IF net = e.prefix THEN e
                               ELSE IF net > e.prefix THEN f[<<left, mid - 1>>]
                               ELSE f[<<mid + 1, right>>]]
           search == CHOOSE f : Is(f)
<1>1. \A f : Is(f) <=> IsSearch(f, t, dest, n)
  BY DEF Spans, Step, IsSearch
<1>2. \E f : IsSearch(f, t, dest, n)
  <2> HIDE DEF n
  <2>1. n \in Nat
    BY DEF n
  <2> QED
    BY <2>1, SearchExists
<1>3. \E f : Is(f)
  <2> HIDE DEF Is
  <2> QED
    BY <1>1, <1>2
<1>4. Is(search)
  <2> HIDE DEF Is
  <2> QED
    BY <1>3
<1>5. IsSearch(search, t, dest, n)
  <2> HIDE DEF Is, search
  <2> QED
    BY <1>1, <1>4
<1>6. BinarySearch(t, dest) = search[<<0, n - 1>>]
  BY DEF BinarySearch
<1> HIDE DEF search, Is
<1>7. Searches(search, t, dest, n)
  BY <1>5 DEF IsSearch, Searches
<1> QED
  BY <1>6, <1>7

-----------------------------------------------------------------------------
(* The table is sorted. *)

\* What an int's subtraction does to small numbers: nothing.
LEMMA SmallDifference ==
  ASSUME NEW x \in Nat, NEW y \in Nat, x < 2^(W - 1), y < 2^(W - 1)
  PROVE  Int32(x - y) = x - y
<1> DEFINE h == 2^(W - 1)
           w == 2^W
<1>1. h \in Nat /\ h > 0 /\ w = 2 * h
  <2>1. W - 1 \in Nat /\ W - 1 + 1 = W
    BY WIsNat
  <2>2. 2^(W - 1 + 1) = 2 * 2^(W - 1)
    BY <2>1, PowerNext
  <2> QED
    BY <2>1, <2>2, PowerPositive
<1>2. Int32(x - y) = IF (x - y) % w < h THEN (x - y) % w ELSE ((x - y) % w) - w
  BY DEF Int32
<1>3. x < h /\ y < h
  OBVIOUS
<1> HIDE DEF h, w
<1>4. CASE x - y >= 0
  <2>1. (x - y) % w = x - y
    <3>1. x - y \in 0..w-1 /\ w \in Nat \ {0}
      BY <1>1, <1>3, <1>4
    <3>2. (0 * w + (x - y)) % w = x - y
      BY <3>1, DivisionUnique
    <3>3. 0 * w + (x - y) = x - y
      BY <3>1
    <3> QED
      BY <3>2, <3>3
  <2> QED
    BY <1>1, <1>2, <1>3, <1>4, <2>1
<1>5. CASE x - y < 0
  <2>1. (x - y) % w = x - y + w
    <3>1. x - y + w \in 0..w-1 /\ w \in Nat \ {0}
      BY <1>1, <1>3, <1>5
    <3> DEFINE d == x - y
               r == d % w
               quo == d \div w
    <3>2. d \in Int /\ -w < d /\ d < 0
      BY <1>1, <1>3, <1>5
    <3>3. quo \in Int /\ r \in 0..w-1 /\ d = quo * w + r
      <4> HIDE DEF d
      <4> QED
        BY <1>1, <3>2
    <3> HIDE DEF quo, r, d
    <3>4. quo = -1
      <4>1. CASE quo >= 0
        <5>1. quo * w >= 0
          BY <1>1, <3>3, <4>1
        <5> DEFINE qw == quo * w
        <5>2. qw \in Int /\ qw >= 0 /\ d = qw + r
          BY <1>1, <3>3, <5>1
        <5> HIDE DEF qw
        <5> QED
          BY <1>1, <3>2, <3>3, <5>2
      <4>2. CASE quo <= -2
        <5>1. quo * w <= -2 * w
          BY <1>1, <3>3, <4>2
        <5> DEFINE qw == quo * w
        <5>2. qw \in Int /\ qw <= -2 * w /\ d = qw + r
          BY <1>1, <3>3, <5>1
        <5> HIDE DEF qw
        <5> QED
          BY <1>1, <3>2, <3>3, <5>2
      <4> QED
        BY <3>3, <4>1, <4>2
    <3>5. r = d + w
      BY <1>1, <3>2, <3>3, <3>4
    <3> QED
      BY <3>5 DEF r, d
  <2> QED
    BY <1>1, <1>2, <1>3, <1>5, <2>1
<1> QED
  BY <1>4, <1>5


\* Numbers can be sorted: an entry's place is one after those that are to
\* come before it.
LEMMA CanBeSorted ==
  ASSUME NEW n \in Nat, NEW key \in [1..n -> Int],
         \A i, j \in 1..n : key[i] = key[j] => i = j
  PROVE  \E p \in [1..n -> 1..n] : /\ \A i, j \in 1..n : p[i] = p[j] => i = j
                                   /\ \A i, j \in 1..n : i < j => key[p[i]] > key[p[j]]
<1> DEFINE D == 1..n
           Larger(j) == {i \in D : key[i] > key[j]}
           rank == [j \in D |-> Cardinality(Larger(j)) + 1]
<1>1. IsFiniteSet(D) /\ Cardinality(D) = n
  BY FS_Interval
<1>2. ASSUME NEW j \in D
      PROVE  IsFiniteSet(Larger(j)) /\ Cardinality(Larger(j)) \in 0..n-1
  <2>1. Larger(j) \subseteq D \ {j}
    OBVIOUS
  <2> HIDE DEF Larger
  <2>2. IsFiniteSet(D \ {j}) /\ Cardinality(D \ {j}) = n - 1
    BY <1>1, FS_RemoveElement
  <2>3. IsFiniteSet(Larger(j)) /\ Cardinality(Larger(j)) <= n - 1
    BY <2>1, <2>2, FS_Subset
  <2> QED
    BY <2>3, FS_CardinalityType
<1>3. ASSUME NEW i \in D, NEW j \in D, key[i] > key[j]
      PROVE  Cardinality(Larger(i)) < Cardinality(Larger(j))
  <2>1. Larger(i) \subseteq Larger(j) /\ i \in Larger(j) /\ i \notin Larger(i)
    BY <1>3
  <2> HIDE DEF Larger
  <2>2. IsFiniteSet(Larger(j)) /\ Cardinality(Larger(j)) \in Int /\ Cardinality(Larger(i)) \in Int
    BY <1>2
  <2>3. Cardinality(Larger(i)) <= Cardinality(Larger(j)) /\ Cardinality(Larger(i)) # Cardinality(Larger(j))
    BY <2>1, <2>2, FS_Subset
  <2> QED
    BY <2>2, <2>3
<1>4. rank \in [D -> D]
  <2> HIDE DEF Larger
  <2> QED
    BY <1>2
<1>5. ASSUME NEW i \in D, NEW j \in D, key[i] > key[j] PROVE rank[i] < rank[j]
  <2> HIDE DEF Larger
  <2>1. Cardinality(Larger(i)) \in Int /\ Cardinality(Larger(j)) \in Int
    BY <1>2
  <2>2. rank[i] = Cardinality(Larger(i)) + 1 /\ rank[j] = Cardinality(Larger(j)) + 1
    OBVIOUS
  <2> QED
    BY <1>3, <1>5, <2>1, <2>2
<1> HIDE DEF rank
<1>6. \A i, j \in D : rank[i] = rank[j] => i = j
  <2> SUFFICES ASSUME NEW i \in D, NEW j \in D, rank[i] = rank[j] PROVE i = j
    OBVIOUS
  <2>1. ~(key[i] > key[j]) /\ ~(key[j] > key[i])
    BY <1>4, <1>5
  <2> QED
    BY <2>1
<1>7. rank \in Surjection(D, D)
  <2>1. rank \in Injection(D, D)
    BY <1>4, <1>6 DEF Injection, IsInjective
  <2> HIDE DEF D
  <2> QED
    BY <1>1, <2>1, FS_Injection
<1>8. \A k \in D : \E j \in D : rank[j] = k
  BY <1>7 DEF Surjection
<1> DEFINE p == [k \in D |-> CHOOSE j \in D : rank[j] = k]
<1>9. p \in [D -> D] /\ \A k \in D : rank[p[k]] = k
  BY <1>8
<1> HIDE DEF p
<1>10. \A i, j \in D : p[i] = p[j] => i = j
  BY <1>9
<1>11. ASSUME NEW i \in D, NEW j \in D, i < j PROVE key[p[i]] > key[p[j]]
  <2>1. rank[p[i]] = i /\ rank[p[j]] = j /\ p[i] \in D /\ p[j] \in D
    BY <1>9
  <2>2. key[p[i]] # key[p[j]]
    BY <1>11, <2>1
  <2>3. ~(key[p[j]] > key[p[i]])
    BY <1>5, <1>11, <2>1
  <2> QED
    BY <2>1, <2>2, <2>3
<1> QED
  BY <1>9, <1>10, <1>11

\* The table has its file's lines, and of one that can be sorted qsort makes a
\* descending one (router.c:34-52, 110).
LEMMA IsSorted ==
  ASSUME NEW t \in Tables
  PROVE  /\ Len(t) \in Nat /\ DOMAIN t = 1..Len(t) /\ Numbers(t)
         /\ Sortable(t) => \A i, j \in DOMAIN t : i < j => t[i].prefix > t[j].prefix
<1>1. PICK file \in Files : t \in Sorted(readRtable(file))
  BY DEF Tables
<1> DEFINE F == readRtable(file)
           n == Len(file)
           Injective(f) == \A i, j \in 1..n : f[i] = f[j] => i = j
<1>2. file \in Seq(Line)
  BY RouterAssumption
<1>3. n \in Nat /\ DOMAIN F = 1..n /\ \A k \in 1..n : F[k].prefix \in Nat /\ F[k].mask \in Int
  <2>1. n \in Nat /\ DOMAIN file = 1..n /\ \A k \in 1..n : file[k] \in Line
    BY <1>2
  <2> QED
    BY <2>1, ParsedNumbers DEF readRtable
<1> HIDE DEF F, n
<1>4. \A s : s \in Permuted(F) <=> \E p \in [1..n -> 1..n] : Injective(p) /\ s = [k \in 1..n |-> F[p[k]]]
  <2> DEFINE D == DOMAIN F
             OnD(p) == p \in [D -> D] /\ \A i, j \in D : p[i] = p[j] => i = j
             OnN(p) == p \in [1..n -> 1..n] /\ Injective(p)
             FromD(s, p) == s = [k \in D |-> F[p[k]]]
             FromN(s, p) == s = [k \in 1..n |-> F[p[k]]]
  <2>1. \A s : s \in Permuted(F) <=> \E p : OnD(p) /\ FromD(s, p)
    BY Zenon DEF Permuted
  <2>2. D = 1..n
    BY <1>3
  <2>3. \A s, p : FromD(s, p) <=> FromN(s, p)
    BY <2>2
  <2>4. \A p : OnD(p) <=> OnN(p)
    BY <2>2
  <2>5. \A s : s \in Permuted(F) <=> \E p : OnN(p) /\ FromN(s, p)
    <3> HIDE DEF OnD, OnN, FromD, FromN
    <3> QED
      BY <2>1, <2>3, <2>4
  <2> HIDE DEF Injective
  <2> QED
    BY <2>5, Zenon
<1>5. t \in Permuted(F)
  BY <1>1 DEF Sorted, F
<1>6. PICK p \in [1..n -> 1..n] : Injective(p) /\ t = [k \in 1..n |-> F[p[k]]]
  BY <1>4, <1>5
<1>7. DOMAIN t = 1..n /\ Len(t) = n /\ Numbers(t)
  <2>1. DOMAIN t = 1..n /\ \A k \in 1..n : t[k] = F[p[k]] /\ p[k] \in 1..n
    BY <1>6
  <2>2. Numbers(t)
    BY <1>3, <2>1 DEF Numbers
  <2>3. Len(t) = n
    <3> DEFINE T == {F[k] : k \in 1..n}
    <3>1. \A k \in 1..n : F[p[k]] \in T
      BY <2>1
    <3> HIDE DEF T, Injective
    <3>2. t \in [1..n -> T]
      BY <1>6, <3>1
    <3>3. t \in Seq(T)
      BY <1>3, <3>2
    <3> QED
      BY <1>3, <2>1, <3>3
  <2> QED
    BY <2>1, <2>2, <2>3
<1> SUFFICES ASSUME Sortable(t) PROVE \A i, j \in 1..n : i < j => t[i].prefix > t[j].prefix
  BY <1>3, <1>7
<1>8. /\ \A j \in 1..n : t[j].prefix \in Nat /\ t[j].prefix < 2^(W - 1)
      /\ \A i, j \in 1..n : t[i].prefix = t[j].prefix => i = j
  BY <1>7 DEF Numbers, Sortable
<1>9. \A i, j \in 1..n : comparator(t[i], t[j]) = t[j].prefix - t[i].prefix
  BY <1>8, SmallDifference DEF comparator
<1>10. \E s \in Permuted(F) : \A i, j \in DOMAIN F : i < j => comparator(s[i], s[j]) <= 0
  <2> DEFINE key == [j \in 1..n |-> t[j].prefix]
  <2>1. key \in [1..n -> Int] /\ \A i, j \in 1..n : key[i] = key[j] => i = j
    BY <1>8
  <2>2. PICK r \in [1..n -> 1..n] : Injective(r) /\ \A i, j \in 1..n : i < j => key[r[i]] > key[r[j]]
    <3> HIDE DEF key
    <3> QED
      BY <1>3, <2>1, CanBeSorted
  <2> DEFINE s == [k \in 1..n |-> t[r[k]]]
             pr == [k \in 1..n |-> p[r[k]]]
  <2>3. pr \in [1..n -> 1..n] /\ Injective(pr) /\ s = [k \in 1..n |-> F[pr[k]]]
    BY <1>6, <2>2
  <2>4. s \in Permuted(F)
    <3> HIDE DEF s, pr, Injective
    <3> QED
      BY <1>4, <2>3
  <2>5. ASSUME NEW i \in 1..n, NEW j \in 1..n, i < j PROVE comparator(s[i], s[j]) <= 0
    <3>1. r[i] \in 1..n /\ r[j] \in 1..n /\ s[i] = t[r[i]] /\ s[j] = t[r[j]]
      BY <2>2
    <3>2. t[r[i]].prefix > t[r[j]].prefix
      BY <2>2, <2>5, <3>1
    <3>3. comparator(s[i], s[j]) = t[r[j]].prefix - t[r[i]].prefix
      BY <1>9, <3>1
    <3>4. t[r[i]].prefix \in Int /\ t[r[j]].prefix \in Int
      BY <1>8, <3>1
    <3> QED
      BY <3>2, <3>3, <3>4
  <2> HIDE DEF s
  <2> QED
    BY <1>3, <2>4, <2>5
<1>11. \A i, j \in 1..n : i < j => comparator(t[i], t[j]) <= 0
  BY <1>1, <1>3, <1>10 DEF Sorted, F
<1>12. \A i, j \in 1..n : i < j => t[i].prefix > t[j].prefix
  <2> SUFFICES ASSUME NEW i \in 1..n, NEW j \in 1..n, i < j PROVE t[i].prefix > t[j].prefix
    OBVIOUS
  <2>1. t[j].prefix - t[i].prefix <= 0 /\ t[i].prefix # t[j].prefix
    BY <1>8, <1>9, <1>11
  <2>2. t[i].prefix \in Int /\ t[j].prefix \in Int
    BY <1>8
  <2> QED
    BY <2>1, <2>2
<1> QED
  BY <1>12

-----------------------------------------------------------------------------
(* The lookup. *)

LEMMA SearchIsRight ==
  ASSUME NEW t \in Tables, NEW a \in Int
  PROVE  /\ \/ BinarySearch(t, a) = NoRoute
            \/ \E j \in DOMAIN t : BinarySearch(t, a) = t[j] /\ Matches(t[j], a)
         /\ Sortable(t) => \A j \in DOMAIN t :
              Matches(t[j], a) /\ OneMaskBy(t, j) => BinarySearch(t, a) = t[j]
<1> DEFINE n == Len(t)
<1>1. /\ n \in Nat /\ DOMAIN t = 1..n /\ Numbers(t)
      /\ Sortable(t) => \A i, j \in 1..n : i < j => t[i].prefix > t[j].prefix
  BY IsSorted
<1>2. PICK f : /\ Searches(f, t, a, n)
               /\ BinarySearch(t, a) = f[<<0, n - 1>>]
  BY <1>1, BinarySearchIs
<1> HIDE DEF n
<1>3. PICK z \in Int, l \in Int : z = 0 /\ l = n - 1 /\ z \in 0..n /\ l \in -1..n-1
  BY <1>1
<1>4. BinarySearch(t, a) = f[<<z, l>>]
  BY <1>2, <1>3
<1>5. \/ BinarySearch(t, a) = NoRoute
      \/ \E j \in DOMAIN t : BinarySearch(t, a) = t[j] /\ Matches(t[j], a)
  <2>1. Fits(f, t, a, n, z, l)
    BY <1>1, <1>2, <1>3, SearchFits
  <2> QED
    BY <1>1, <1>4, <2>1 DEF Fits
<1>6. ASSUME Sortable(t), NEW j \in DOMAIN t, Matches(t[j], a), OneMaskBy(t, j)
      PROVE  BinarySearch(t, a) = t[j]
  <2>1. j \in 1..n /\ Descends(t, n) /\ \A i \in 1..n : t[i].prefix \in Int
    BY <1>1, <1>6 DEF Descends, Numbers
  <2>2. \A i \in 1..n : 2 * i >= j => And(a, t[i].mask) = t[j].prefix
    BY <1>1, <1>6 DEF OneMaskBy, Matches
  <2>3. Finds(f, t, j, z, l)
    BY <1>1, <1>2, <1>3, <2>1, <2>2, SearchFinds
  <2>4. z <= j - 1 /\ j - 1 <= l
    BY <1>1, <1>3, <2>1
  <2> QED
    BY <1>4, <2>3, <2>4 DEF Finds
<1> QED
  BY <1>5, <1>6

\* Whatever the lines of the file and their order, what the search returns
\* matches the address; and if no difference of prefixes overflows, every entry
\* without a line of another mask at half its way down is found (router.c:34-96).
THEOREM LookupFinds == Spec => []LookupFindsRoute
<1>1. rtable \in Tables => LookupFindsRoute
  <2> SUFFICES ASSUME rtable \in Tables, NEW a \in Addr
               PROVE  /\ \/ get_best_route(a) = NoRoute
                         \/ \E j \in Matching[rtable][a] : get_best_route(a) = rtable[j]
                      /\ Sortable(rtable) => \A j \in Matching[rtable][a] :
                           OneMaskBy(rtable, j) => get_best_route(a) = rtable[j]
    BY DEF LookupFindsRoute
  <2>1. a \in Int
    BY PowerPositive, WIsNat DEF Addr
  <2>2. get_best_route(a) = BinarySearch(rtable, a)
    BY DEF get_best_route, Routes
  <2>3. Matching[rtable][a] = {j \in DOMAIN rtable : Matches(rtable[j], a)}
    BY DEF Matching
  <2> QED
    BY <2>1, <2>2, <2>3, SearchIsRight
<1>2. TypeOK => LookupFindsRoute
  BY <1>1 DEF TypeOK
<1> QED
  BY <1>2, TypesKept, PTL
=============================================================================
