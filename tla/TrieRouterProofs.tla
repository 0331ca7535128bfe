-------------------------- MODULE TrieRouterProofs --------------------------
(***************************************************************************)
(* Proofs about the trie router: its ARP table, its queue, where the       *)
(* packets go, that it implements Forwarding, and that the trie finds the  *)
(* entry of an address.                                                    *)
(***************************************************************************)
EXTENDS TrieRouter, RouteTableProofs

\* The steps that concern neither the table nor the queue.
Quiet == UNCHANGED <<rt, arpTable, q, asked, unasked, latest>>

LEMMA AppendElements ==
  ASSUME NEW S, NEW s \in Seq(S), NEW x \in S
  PROVE  /\ Append(s, x) \in Seq(S) /\ Len(Append(s, x)) = Len(s) + 1
         /\ DOMAIN Append(s, x) = DOMAIN s \cup {Len(s) + 1}
         /\ \A k \in DOMAIN s : Append(s, x)[k] = s[k] /\ k # Len(s) + 1
         /\ Append(s, x)[Len(s) + 1] = x
  OBVIOUS

-----------------------------------------------------------------------------
(* Types. *)

\* What a reply does to the table and to the queue.
LEMMA ReplyEmpties ==
  ASSUME TypeOK, NEW ip \in Hosts, NEW mac \in Mac, ArpReply(ip, mac)
  PROVE  /\ arpTable' = Entered(ip, mac) /\ q' = << >> /\ asked' = asked \ {ip}
         /\ latest' = [latest EXCEPT ![ip] = mac] /\ UNCHANGED <<rt, received>>
         /\ ip \in Addr
<1>1. Len(q) \in Nat
  BY DEF TypeOK
<1>2. SubSeq(q, Len(q) + 1, Len(q)) = << >>
  BY <1>1 DEF TypeOK
<1> QED
  BY <1>2, TrieRouterAssumption DEF ArpReply, Released, TrieRouterAssumption

\* A table with one entry more, or another one.
LEMMA EnteredType ==
  ASSUME TypeOK, NEW ip \in Addr, NEW mac \in Mac \cup {Empty}, arpTable' = Entered(ip, mac)
  PROVE  /\ DOMAIN arpTable' = DOMAIN arpTable \cup {ip} /\ DOMAIN arpTable' \subseteq Addr
         /\ arpTable' \in [DOMAIN arpTable' -> Mac \cup {Empty}]
         /\ arpTable'[ip] = mac
         /\ \A x \in DOMAIN arpTable' : x # ip => x \in DOMAIN arpTable /\ arpTable'[x] = arpTable[x]
  BY Zenon DEF TypeOK, Entered

\* What Ask puts into the queue.
LEMMA AskType ==
  ASSUME TypeOK, received < MaxPackets, NEW m \in Arriving, Ask(m)
  PROVE  /\ [id |-> m.id, daddr |-> m.daddr, ttl |-> m.ttl] \in WaitingPacket
         /\ m.daddr \in Addr /\ m.id = received + 1
<1>1. m.id = received + 1 /\ m.daddr \in Dests /\ m.ttl \in Ttls
  BY DEF Arriving, Id
<1>2. m.ttl \in 2 .. 255
  <2>1. m.ttl > 1
    BY Zenon DEF Ask, Alive
  <2>2. m.ttl \in 0 .. 255
    BY <1>1, TrieRouterAssumption DEF TrieRouterAssumption
  <2> QED
    BY <2>1, <2>2
<1>3. m.id \in 1 .. MaxPackets /\ m.daddr \in Addr
  BY <1>1, TrieRouterAssumption DEF TypeOK, TrieRouterAssumption
<1> QED
  BY <1>1, <1>2, <1>3 DEF WaitingPacket

LEMMA QuietSteps ==
  ASSUME NEW m \in Arriving, Drop(m) \/ TimeExceeded(m) \/ Unreachable(m) \/ Echo(m) \/ Forward(m)
  PROVE  Quiet /\ received' = received + 1
  BY DEF Drop, TimeExceeded, Unreachable, Echo, Forward, Reply, Receive, Quiet

LEMMA QuietRequests ==
  ASSUME NEW i, NEW tpa, ArpRequest(i, tpa)
  PROVE  Quiet /\ received' = received + 1
  BY DEF ArpRequest, Receive, Quiet

LEMMA TypeKept == TypeOK /\ [Next]_vars => TypeOK'
<1> SUFFICES ASSUME TypeOK, [Next]_vars PROVE TypeOK'
  OBVIOUS
<1>1. ASSUME Quiet, received < MaxPackets, received' = received + 1 PROVE TypeOK'
  BY <1>1, TrieRouterAssumption DEF Quiet, TypeOK, TrieRouterAssumption
<1>2. ASSUME Arrival PROVE TypeOK'
  <2>1. ASSUME NEW m \in Arriving, Ask(m), received < MaxPackets PROVE TypeOK'
    <3>1. /\ [id |-> m.id, daddr |-> m.daddr, ttl |-> m.ttl] \in WaitingPacket
          /\ m.daddr \in Addr
      BY <2>1, AskType
    <3>2. q' \in Seq(WaitingPacket)
      BY <2>1, <3>1, AppendElements DEF Ask, TypeOK
    <3>3. DOMAIN arpTable' \subseteq Addr /\ arpTable' \in [DOMAIN arpTable' -> Mac \cup {Empty}]
      BY <2>1, <3>1, EnteredType DEF Ask
    <3>4. received' \in 0 .. MaxPackets
      BY <2>1, TrieRouterAssumption DEF Ask, Receive, TypeOK, TrieRouterAssumption
    <3> QED
      BY <2>1, <3>1, <3>2, <3>3, <3>4 DEF Ask, TypeOK
  <2> QED
    BY <1>1, <1>2, <2>1, QuietSteps, QuietRequests DEF Arrival
<1>3. ASSUME NEW ip \in Hosts, NEW mac \in Mac, HostReplies(ip, mac) \/ HostAnnounces(ip, mac)
      PROVE  TypeOK'
  <2>1. ArpReply(ip, mac) /\ unasked' \in 0 .. MaxUnasked
    BY <1>3, TrieRouterAssumption DEF HostReplies, HostAnnounces, TypeOK, TrieRouterAssumption
  <2>2. /\ arpTable' = Entered(ip, mac) /\ q' = << >> /\ asked' = asked \ {ip}
        /\ latest' = [latest EXCEPT ![ip] = mac] /\ UNCHANGED <<rt, received>>
        /\ ip \in Addr
    BY <2>1, ReplyEmpties
  <2>3. DOMAIN arpTable' \subseteq Addr /\ arpTable' \in [DOMAIN arpTable' -> Mac \cup {Empty}]
    BY <2>2, EnteredType
  <2> QED
    BY <2>1, <2>2, <2>3 DEF TypeOK
<1>4. CASE UNCHANGED vars
  BY <1>4 DEF TypeOK, vars
<1> QED
  BY <1>2, <1>3, <1>4 DEF Next

LEMMA InitType == Init => TypeOK
<1> SUFFICES ASSUME Init PROVE TypeOK
  OBVIOUS
<1>1. DOMAIN arpTable = {} /\ arpTable \in [DOMAIN arpTable -> Mac \cup {Empty}]
  BY DEF Init
<1>2. q \in Seq(WaitingPacket) /\ received \in 0 .. MaxPackets /\ unasked \in 0 .. MaxUnasked
  BY TrieRouterAssumption DEF Init, TrieRouterAssumption
<1> QED
  BY <1>1, <1>2 DEF Init, TypeOK

\* For any routing tables, hosts and packets the queue, the tables and the counters keep the
\* types of the code.
THEOREM TypesKept == Spec => []TypeOK
  BY InitType, TypeKept, PTL DEF Spec

-----------------------------------------------------------------------------
(* The ARP table and the queue. *)

LEMMA EmptyKept == TypeOK /\ EmptyMeansAsked /\ [Next]_vars => EmptyMeansAsked'
<1> SUFFICES ASSUME TypeOK, EmptyMeansAsked, [Next]_vars PROVE EmptyMeansAsked'
  OBVIOUS
<1>1. CASE Quiet
  BY <1>1 DEF Quiet, EmptyMeansAsked
<1>2. ASSUME Arrival PROVE EmptyMeansAsked'
  <2>1. ASSUME NEW m \in Arriving, Ask(m), received < MaxPackets PROVE EmptyMeansAsked'
    <3> DEFINE p == [id |-> m.id, daddr |-> m.daddr, ttl |-> m.ttl]
    <3>1. p \in WaitingPacket /\ m.daddr \in Addr /\ p.daddr = m.daddr
      BY <2>1, AskType
    <3>2. m.daddr \notin DOMAIN arpTable /\ q' = Append(q, p) /\ asked' = asked \cup {m.daddr}
      BY <2>1 DEF Ask
    <3> HIDE DEF p
    <3>3. /\ DOMAIN q' = DOMAIN q \cup {Len(q) + 1}
          /\ \A k \in DOMAIN q : q'[k] = q[k] /\ k # Len(q) + 1
          /\ q'[Len(q) + 1] = p
      BY <3>1, <3>2, AppendElements DEF TypeOK
    <3>4. /\ DOMAIN arpTable' = DOMAIN arpTable \cup {m.daddr}
          /\ arpTable'[m.daddr] = Empty
          /\ \A x \in DOMAIN arpTable' : x # m.daddr => x \in DOMAIN arpTable /\ arpTable'[x] = arpTable[x]
      BY <2>1, <3>1, EnteredType DEF Ask
    <3>5. \A k \in DOMAIN q' : q'[k].daddr \in DOMAIN arpTable'
      BY <3>1, <3>3, <3>4 DEF EmptyMeansAsked
    <3>6. \A i, j \in DOMAIN q' : q'[i].daddr = q'[j].daddr => i = j
      BY <3>1, <3>2, <3>3 DEF EmptyMeansAsked
    <3>7. \A ip \in DOMAIN arpTable' : arpTable'[ip] = Empty => ip \in asked'
      BY <3>2, <3>4 DEF EmptyMeansAsked
    <3>8. \A k \in DOMAIN q' : arpTable'[q'[k].daddr] = Empty
      BY <3>1, <3>2, <3>3, <3>4, <3>5 DEF EmptyMeansAsked
    <3> QED
      BY <3>5, <3>6, <3>7, <3>8 DEF EmptyMeansAsked
  <2> QED
    BY <1>1, <1>2, <2>1, QuietSteps, QuietRequests DEF Arrival
<1>3. ASSUME NEW ip \in Hosts, NEW mac \in Mac, HostReplies(ip, mac) \/ HostAnnounces(ip, mac)
      PROVE  EmptyMeansAsked'
  <2>1. ArpReply(ip, mac) /\ mac # Empty
    BY <1>3, TrieRouterAssumption DEF HostReplies, HostAnnounces, TrieRouterAssumption
  <2>2. /\ arpTable' = Entered(ip, mac) /\ q' = << >> /\ asked' = asked \ {ip} /\ ip \in Addr
    BY <2>1, ReplyEmpties
  <2>3. /\ arpTable'[ip] = mac
        /\ \A x \in DOMAIN arpTable' : x # ip => x \in DOMAIN arpTable /\ arpTable'[x] = arpTable[x]
    BY <2>2, EnteredType
  <2>4. DOMAIN q' = {}
    BY <2>2
  <2> QED
    BY <2>1, <2>2, <2>3, <2>4 DEF EmptyMeansAsked
<1>4. CASE UNCHANGED vars
  BY <1>1, <1>4 DEF vars, Quiet
<1> QED
  BY <1>2, <1>3, <1>4 DEF Next

\* However requests, replies and announcements interleave, an empty entry of the ARP table
\* stands for exactly one packet in the queue at most, and for a request that is out.
THEOREM EmptyEntriesAsked == Spec => []EmptyMeansAsked
<1>1. Init => EmptyMeansAsked
  BY DEF Init, EmptyMeansAsked
<1> QED
  BY <1>1, InitType, TypeKept, EmptyKept, PTL DEF Spec

LEMMA LatestKept == TypeOK /\ TableIsLatest /\ [Next]_vars => TableIsLatest'
<1> SUFFICES ASSUME TypeOK, TableIsLatest, [Next]_vars PROVE TableIsLatest'
  OBVIOUS
<1>1. CASE Quiet
  BY <1>1 DEF Quiet, TableIsLatest
<1>2. ASSUME Arrival PROVE TableIsLatest'
  <2>1. ASSUME NEW m \in Arriving, Ask(m), received < MaxPackets PROVE TableIsLatest'
    <3>1. m.daddr \in Addr /\ m.daddr \notin DOMAIN arpTable /\ latest' = latest
      BY <2>1, AskType DEF Ask
    <3>2. /\ DOMAIN arpTable' = DOMAIN arpTable \cup {m.daddr} /\ arpTable'[m.daddr] = Empty
          /\ \A x \in DOMAIN arpTable' : x # m.daddr => x \in DOMAIN arpTable /\ arpTable'[x] = arpTable[x]
      BY <2>1, <3>1, EnteredType DEF Ask
    <3> QED
      BY <3>1, <3>2 DEF TableIsLatest
  <2> QED
    BY <1>1, <1>2, <2>1, QuietSteps, QuietRequests DEF Arrival
<1>3. ASSUME NEW ip \in Hosts, NEW mac \in Mac, HostReplies(ip, mac) \/ HostAnnounces(ip, mac)
      PROVE  TableIsLatest'
  <2>1. ArpReply(ip, mac)
    BY <1>3 DEF HostReplies, HostAnnounces
  <2>2. /\ arpTable' = Entered(ip, mac) /\ latest' = [latest EXCEPT ![ip] = mac] /\ ip \in Addr
    BY <2>1, ReplyEmpties
  <2>3. /\ DOMAIN arpTable' = DOMAIN arpTable \cup {ip} /\ arpTable'[ip] = mac
        /\ \A x \in DOMAIN arpTable' : x # ip => x \in DOMAIN arpTable /\ arpTable'[x] = arpTable[x]
    BY <2>2, EnteredType
  <2> QED
    BY <2>2, <2>3 DEF TableIsLatest, TypeOK
<1>4. CASE UNCHANGED vars
  BY <1>1, <1>4 DEF vars, Quiet
<1> QED
  BY <1>2, <1>3, <1>4 DEF Next

\* The ARP table holds for every address what its host announced last, and the empty entry for
\* those that have not announced anything yet.
THEOREM TableUpToDate == Spec => []TableIsLatest
<1>1. Init => TableIsLatest
  BY DEF Init, TableIsLatest
<1> QED
  BY <1>1, InitType, TypeKept, LatestKept, PTL DEF Spec

-----------------------------------------------------------------------------
(* The frames sent. *)

Routed == {findBestEntry(a).interface : a \in Addr}
Frame ==
  [what : {"forward"}, id : Int, ttl : 0..255, daddr : Addr, dhost : Mac \cup {Empty}, interface : Routed]
    \cup [what : {"arp"}, id : Int, daddr : Addr, dhost : Mac \cup {Empty}, interface : Iface]
    \cup [what : {"mine", "exceeded", "unreachable", "echo"}, id : Int, interface : Iface]

\* A frame with a MAC has that of the host it is for, once the step is over.
Owned(f) == f.what \in {"forward", "arp"} => f.dhost = latest'[f.daddr]
NewOwned == \A k \in DOMAIN out' \ DOMAIN out : Owned(out'[k])

LEMMA Concat ==
  ASSUME NEW S, NEW s \in Seq(S), NEW f \in Seq(S)
  PROVE  /\ s \o f \in Seq(S)
         /\ \A k \in DOMAIN (s \o f) \ DOMAIN s : \E j \in DOMAIN f : (s \o f)[k] = f[j]
<1>1. s \o f \in Seq(S) /\ DOMAIN (s \o f) = 1 .. Len(s) + Len(f)
  OBVIOUS
<1>2. Len(s) \in Nat /\ Len(f) \in Nat /\ DOMAIN s = 1 .. Len(s) /\ DOMAIN f = 1 .. Len(f)
  OBVIOUS
<1>3. ASSUME NEW k \in DOMAIN (s \o f) \ DOMAIN s PROVE k - Len(s) \in DOMAIN f /\ (s \o f)[k] = f[k - Len(s)]
  BY <1>1, <1>2
<1> QED
  BY <1>1, <1>3

LEMMA SentOwned ==
  ASSUME out \in Seq(Frame), NEW frames \in Seq(Frame), out' = out \o frames,
         \A j \in DOMAIN frames : frames[j].what \in {"forward", "arp"} =>
                                  frames[j].dhost = latest[frames[j].daddr]
  PROVE  /\ out' \in Seq(Frame)
         /\ \A k \in DOMAIN out' \ DOMAIN out : out'[k].what \in {"forward", "arp"} =>
                                             out'[k].dhost = latest[out'[k].daddr]
  BY Concat

\* The same of one frame.
LEMMA OneOwned ==
  ASSUME out \in Seq(Frame), NEW f \in Frame, out' = out \o <<f>>,
         f.what \in {"forward", "arp"} => f.dhost = latest[f.daddr]
  PROVE  /\ out' \in Seq(Frame)
         /\ \A k \in DOMAIN out' \ DOMAIN out : out'[k].what \in {"forward", "arp"} =>
                                             out'[k].dhost = latest[out'[k].daddr]
<1>1. <<f>> \in Seq(Frame) /\ DOMAIN <<f>> = {1} /\ <<f>>[1] = f
  OBVIOUS
<1> QED
  BY <1>1, SentOwned

LEMMA ForwardedType ==
  ASSUME NEW p, p.id \in Int, p.ttl \in 0 .. 255, p.daddr \in Addr, NEW mac \in Mac \cup {Empty}
  PROVE  Forwarded(p, mac) \in Frame /\ Forwarded(p, mac).dhost = mac
         /\ Forwarded(p, mac).daddr = p.daddr
<1>1. (p.ttl - 1) % 256 \in 0 .. 255
  OBVIOUS
<1>2. findBestEntry(p.daddr).interface \in Routed
  BY DEF Routed
<1> QED
  BY <1>1, <1>2 DEF Forwarded, Frame

\* What arrives.
LEMMA ArrivingType ==
  ASSUME TypeOK, NEW m \in Arriving
  PROVE  /\ m.id \in Int /\ m.ttl \in 0 .. 255 /\ m.daddr \in Addr /\ m.interface \in Iface
         /\ Id \in Int
  BY TrieRouterAssumption DEF Arriving, Id, TypeOK, TrieRouterAssumption

LEMMA EntryType ==
  ASSUME TypeOK, TableIsLatest, NEW ip \in Addr, ip \in DOMAIN arpTable
  PROVE  arpTable[ip] \in Mac \cup {Empty} /\ arpTable[ip] = latest[ip]
  BY DEF TypeOK, TableIsLatest

SentBefore == out' \in Seq(Frame)
  /\ \A k \in DOMAIN out' \ DOMAIN out : out'[k].what \in {"forward", "arp"} =>
                                      out'[k].dhost = latest[out'[k].daddr]

LEMMA ArrivalOwned ==
  ASSUME TypeOK, TableIsLatest, out \in Seq(Frame), Arrival
  PROVE  SentBefore /\ latest' = latest /\ rt' = rt
<1>1. ASSUME UNCHANGED out PROVE SentBefore
  BY <1>1 DEF SentBefore
<1>2. ASSUME NEW i \in Iface, NEW tpa \in Dests, ArpRequest(i, tpa)
      PROVE  SentBefore /\ latest' = latest /\ rt' = rt
  <2>1. tpa \in Addr /\ Id \in Int
    BY TrieRouterAssumption DEF TrieRouterAssumption, Id, TypeOK
  <2>2. CASE Sent(<<[what |-> "mine", id |-> Id, interface |-> i]>>)
    <3>1. [what |-> "mine", id |-> Id, interface |-> i] \in Frame
      BY <2>1 DEF Frame
    <3> QED
      BY <1>2, <2>2, <3>1, OneOwned DEF Sent, SentBefore, ArpRequest
  <2>3. CASE tpa \in DOMAIN arpTable /\ ArpAnswer(i, tpa, arpTable[tpa])
    <3> DEFINE f == [what |-> "arp", id |-> Id, daddr |-> tpa, dhost |-> arpTable[tpa],
                     interface |-> i]
    <3>1. f \in Frame /\ f.dhost = latest[f.daddr]
      BY <2>1, <2>3, EntryType DEF Frame
    <3>2. out' = out \o <<f>>
      BY <2>3 DEF ArpAnswer, Sent
    <3> HIDE DEF f
    <3>3. SentBefore
      BY <3>1, <3>2, OneOwned DEF SentBefore
    <3> QED
      BY <1>2, <3>3 DEF ArpRequest
  <2>4. CASE UNCHANGED out
    BY <1>1, <1>2, <2>4 DEF ArpRequest
  <2> QED
    BY <1>2, <2>2, <2>3, <2>4 DEF ArpRequest
<1>3. ASSUME NEW m \in Arriving, Drop(m) \/ Ask(m) PROVE SentBefore /\ latest' = latest /\ rt' = rt
  BY <1>1, <1>3 DEF Drop, Ask, Kept
<1>4. ASSUME NEW m \in Arriving, NEW what \in {"exceeded", "unreachable", "echo"}, Reply(m, what)
      PROVE  SentBefore /\ latest' = latest /\ rt' = rt
  <2> DEFINE f == [what |-> what, id |-> m.id, interface |-> m.interface]
  <2>1. f \in Frame /\ f.what \notin {"forward", "arp"}
    BY <1>4, ArrivingType DEF Frame
  <2>2. out' = out \o <<f>>
    BY <1>4 DEF Reply, Sent
  <2> HIDE DEF f
  <2>3. SentBefore
    BY <2>1, <2>2, OneOwned DEF SentBefore
  <2> QED
    BY <1>4, <2>3 DEF Reply
<1>5. ASSUME NEW m \in Arriving, Forward(m) PROVE SentBefore /\ latest' = latest /\ rt' = rt
  <2> DEFINE f == Forwarded(m, arpTable[m.daddr])
  <2>1. f \in Frame /\ f.dhost = latest[f.daddr]
    BY <1>5, ArrivingType, EntryType, ForwardedType DEF Forward
  <2>2. out' = out \o <<f>>
    BY <1>5 DEF Forward, Sent
  <2> HIDE DEF f
  <2>3. SentBefore
    BY <2>1, <2>2, OneOwned DEF SentBefore
  <2> QED
    BY <1>5, <2>3 DEF Forward
<1> QED
  BY <1>2, <1>3, <1>4, <1>5 DEF Arrival, TimeExceeded, Unreachable, Echo

LEMMA ReplyOwned ==
  ASSUME TypeOK, TableIsLatest, EmptyMeansAsked, out \in Seq(Frame),
         NEW ip \in Hosts, NEW mac \in Mac, ArpReply(ip, mac)
  PROVE  out' \in Seq(Frame) /\ NewOwned
<1> DEFINE frames == [k \in 1..Len(q) |-> Forwarded(q[k], Looked(q[k], ip, mac))]
<1>1. out' = out \o frames /\ arpTable' = Entered(ip, mac) /\ latest' = [latest EXCEPT ![ip] = mac]
      /\ ip \in Addr
  BY ReplyEmpties DEF ArpReply, Sent, Released
<1>2. Len(q) \in Nat /\ DOMAIN q = 1 .. Len(q) /\ \A k \in DOMAIN q : q[k] \in WaitingPacket
  BY DEF TypeOK
<1>3. ASSUME NEW k \in 1 .. Len(q)
      PROVE  /\ Looked(q[k], ip, mac) \in Mac \cup {Empty}
             /\ Looked(q[k], ip, mac) = latest'[q[k].daddr]
             /\ q[k].id \in Int /\ q[k].ttl \in 0 .. 255 /\ q[k].daddr \in Addr
  <2>1. q[k] \in WaitingPacket /\ q[k].daddr \in DOMAIN arpTable
    BY <1>2, <1>3 DEF EmptyMeansAsked
  <2>2. q[k].id \in Int /\ q[k].ttl \in 0 .. 255 /\ q[k].daddr \in Addr
    BY <2>1 DEF WaitingPacket
  <2>3. Looked(q[k], ip, mac) = IF q[k].daddr = ip THEN mac ELSE arpTable[q[k].daddr]
    BY <2>1 DEF Looked, Entered
  <2>4. latest'[q[k].daddr] = IF q[k].daddr = ip THEN mac ELSE latest[q[k].daddr]
    BY <1>1, <2>2 DEF TypeOK
  <2> QED
    BY <2>1, <2>2, <2>3, <2>4, EntryType
<1>4. \A k \in 1 .. Len(q) : /\ Forwarded(q[k], Looked(q[k], ip, mac)) \in Frame
                           /\ Forwarded(q[k], Looked(q[k], ip, mac)).dhost = latest'[q[k].daddr]
                           /\ Forwarded(q[k], Looked(q[k], ip, mac)).daddr = q[k].daddr
  BY <1>3, ForwardedType
<1>5. frames \in Seq(Frame) /\ DOMAIN frames = 1 .. Len(q)
      /\ \A j \in DOMAIN frames : Owned(frames[j])
  BY <1>2, <1>4 DEF Owned
<1> HIDE DEF frames
<1>6. out' \in Seq(Frame) /\ \A k \in DOMAIN out' \ DOMAIN out : \E j \in DOMAIN frames : out'[k] = frames[j]
  <2>1. out \in Seq(Frame) /\ frames \in Seq(Frame) /\ out' = out \o frames
    BY <1>1, <1>5
  <2> QED
    BY ONLY <2>1, Concat
<1>7. ASSUME NEW k \in DOMAIN out' \ DOMAIN out PROVE Owned(out'[k])
  <2>1. PICK j \in DOMAIN frames : out'[k] = frames[j]
    BY <1>6
  <2>2. Owned(frames[j])
    BY <1>5
  <2> QED
    BY ONLY <2>1, <2>2, Zenon
<1> QED
  BY ONLY <1>6, <1>7, Zenon DEF NewOwned

LEMMA OwnedStep ==
  TypeOK /\ TableIsLatest /\ EmptyMeansAsked /\ out \in Seq(Frame) /\ [Next]_vars
    => out' \in Seq(Frame') /\ NewOwned
<1> SUFFICES ASSUME TypeOK, TableIsLatest, EmptyMeansAsked, out \in Seq(Frame), [Next]_vars
             PROVE  out' \in Seq(Frame') /\ NewOwned
  OBVIOUS
<1>0. ASSUME rt' = rt PROVE Frame' = Frame
  BY <1>0 DEF Frame, Routed, findBestEntry
<1>1. ASSUME Arrival PROVE out' \in Seq(Frame') /\ NewOwned
  <2>1. SentBefore /\ latest' = latest /\ rt' = rt
    BY <1>1, ArrivalOwned
  <2> QED
    BY <1>0, <2>1 DEF SentBefore, NewOwned, Owned
<1>2. ASSUME NEW ip \in Hosts, NEW mac \in Mac, HostReplies(ip, mac) \/ HostAnnounces(ip, mac)
      PROVE  out' \in Seq(Frame') /\ NewOwned
  <2>1. ArpReply(ip, mac)
    BY <1>2 DEF HostReplies, HostAnnounces
  <2>2. rt' = rt
    BY <2>1 DEF ArpReply
  <2>3. out' \in Seq(Frame) /\ NewOwned
    BY <2>1, ReplyOwned
  <2> QED
    BY <1>0, <2>2, <2>3
<1>3. CASE UNCHANGED vars
  BY <1>0, <1>3 DEF vars, NewOwned
<1> QED
  BY <1>1, <1>2, <1>3 DEF Next

\* Every frame that is forwarded, and every ARP answer given for another host, goes out with
\* the MAC that its host announced last, also when another host's reply lets it out of the
\* queue; or with the empty one, if its host never announced any (router.cpp:242-272).
THEOREM FramesReachOwner == Spec => SentToOwner
<1> DEFINE F == out \in Seq(Frame)
<1>1. Init => F
  BY DEF Init
<1>2. TypeOK /\ TableIsLatest /\ EmptyMeansAsked /\ F /\ [Next]_vars => F' /\ NewOwned
  BY OwnedStep
<1>3. NewOwned => \A k \in DOMAIN out' \ DOMAIN out : out'[k].what \in {"forward", "arp"} =>
                      out'[k].dhost = latest'[out'[k].daddr]
  BY DEF NewOwned, Owned
<1>4. Init => TypeOK /\ TableIsLatest /\ EmptyMeansAsked
  BY InitType DEF Init, TableIsLatest, EmptyMeansAsked
<1> HIDE DEF F
<1> QED
  BY <1>1, <1>2, <1>3, <1>4, TypeKept, LatestKept, EmptyKept, PTL DEF Spec, SentToOwner

\* A sequence and one that follows it, place by place.
LEMMA Joined ==
  ASSUME NEW S, NEW s \in Seq(S), NEW T, NEW f \in Seq(T)
  PROVE  /\ Len(s) \in Nat /\ DOMAIN s = 1 .. Len(s) /\ DOMAIN (s \o f) = 1 .. Len(s) + Len(f)
         /\ \A k \in 1 .. Len(s) + Len(f) :
              IF k <= Len(s) THEN k \in 1 .. Len(s) /\ (s \o f)[k] = s[k]
              ELSE k - Len(s) \in 1 .. Len(f) /\ (s \o f)[k] = f[k - Len(s)]
         /\ \A k \in 1 .. Len(s) : k \in 1 .. Len(s) + Len(f) /\ (s \o f)[k] = s[k]
         /\ \A k \in 1 .. Len(f) : Len(s) + k \in 1 .. Len(s) + Len(f) /\ (s \o f)[Len(s) + k] = f[k]
<1>1. s \in Seq(S \cup T) /\ f \in Seq(S \cup T) /\ Len(s) \in Nat /\ DOMAIN s = 1 .. Len(s)
      /\ Len(f) \in Nat
  OBVIOUS
<1>2. /\ s \o f \in Seq(S \cup T) /\ Len(s \o f) = Len(s) + Len(f)
      /\ \A k \in 1 .. Len(s) + Len(f) : (s \o f)[k] = IF k <= Len(s) THEN s[k] ELSE f[k - Len(s)]
  BY <1>1
<1>3. DOMAIN (s \o f) = 1 .. Len(s) + Len(f)
  BY <1>2
<1>4. \A k \in 1 .. Len(s) : k \in 1 .. Len(s) + Len(f) /\ k <= Len(s)
  BY <1>1
<1>5. \A k \in 1 .. Len(s) + Len(f) : IF k <= Len(s) THEN k \in 1 .. Len(s) ELSE k - Len(s) \in 1 .. Len(f)
  BY <1>1
<1>6. \A k \in 1 .. Len(f) : Len(s) + k \in 1 .. Len(s) + Len(f) /\ ~(Len(s) + k <= Len(s)) /\ (Len(s) + k) - Len(s) = k
  BY <1>1
<1>7. \A k \in 1 .. Len(f) : (s \o f)[Len(s) + k] = f[k]
  <2>1. ASSUME NEW k \in 1 .. Len(f) PROVE (s \o f)[Len(s) + k] = f[k]
    <3>1. PICK j : j = Len(s) + k
      OBVIOUS
    <3>2. j \in 1 .. Len(s) + Len(f) /\ ~(j <= Len(s)) /\ j - Len(s) = k
      BY <1>6, <3>1
    <3> QED
      BY <1>2, <3>1, <3>2, Zenon
  <2> QED
    BY <2>1
<1> QED
  BY <1>1, <1>2, <1>3, <1>4, <1>5, <1>6, <1>7, Zenon

-----------------------------------------------------------------------------
(* One fate. *)

\* A packet is in one place, the queue or the frames, and there once.
OnePlace ==
  /\ \A k \in DOMAIN q : q[k].id \in 1 .. received
  /\ \A k \in DOMAIN out : out[k].id \in 1 .. received
  /\ \A j, k \in DOMAIN q : q[j].id = q[k].id => j = k
  /\ \A j, k \in DOMAIN out : out[j].id = out[k].id => j = k
  /\ \A j \in DOMAIN out, k \in DOMAIN q : out[j].id # q[k].id

FInv == TypeOK /\ TableIsLatest /\ EmptyMeansAsked /\ out \in Seq(Frame) /\ OnePlace

\* What an arrival does: nothing to be seen, one frame, or one packet more in the queue.
Unseen == UNCHANGED <<out, q>>
Framed(x) == out' = Append(out, x) /\ q' = q /\ x.id = received + 1
Queued(p) == out' = out /\ q' = Append(q, p) /\ p.id = received + 1 /\ p \in WaitingPacket

LEMMA OneMore ==
  ASSUME NEW S, NEW s \in Seq(S), NEW x
  PROVE  s \o <<x>> = Append(s, x)
  OBVIOUS

LEMMA ArrivalKinds ==
  ASSUME FInv, Arrival
  PROVE  /\ received' = received + 1 /\ received < MaxPackets
         /\ Unseen \/ (\E x : Framed(x)) \/ (\E p : Queued(p))
<1>1. TypeOK /\ out \in Seq(Frame) /\ received < MaxPackets
  BY DEF FInv, Arrival
<1>2. ASSUME NEW x, Sent(<<x>>), q' = q, x.id = received + 1 PROVE \E y : Framed(y)
  BY <1>1, <1>2, OneMore DEF Sent, Framed
<1>3. ASSUME NEW i, NEW tpa, ArpRequest(i, tpa)
      PROVE  received' = received + 1 /\ (Unseen \/ \E x : Framed(x))
  <2>1. received' = received + 1 /\ q' = q
    BY <1>3 DEF ArpRequest, Receive
  <2>2. CASE Sent(<<[what |-> "mine", id |-> Id, interface |-> i]>>)
    BY <1>2, <2>1, <2>2 DEF Id
  <2>3. CASE ArpAnswer(i, tpa, arpTable[tpa])
    BY <1>2, <2>1, <2>3 DEF Id, ArpAnswer
  <2>4. CASE UNCHANGED out
    BY <2>1, <2>4 DEF Unseen
  <2> QED
    BY <1>3, <2>1, <2>2, <2>3, <2>4 DEF ArpRequest
<1>4. ASSUME NEW m \in Arriving, Drop(m) PROVE received' = received + 1 /\ Unseen
  BY <1>4 DEF Drop, Receive, Unseen
<1>5. ASSUME NEW m \in Arriving, NEW what, Receive, Reply(m, what)
      PROVE  received' = received + 1 /\ \E x : Framed(x)
  <2>1. PICK x : x = [what |-> what, id |-> m.id, interface |-> m.interface]
    OBVIOUS
  <2>2. Sent(<<x>>) /\ q' = q /\ x.id = received + 1
    BY <1>5, <2>1 DEF Reply, Arriving, Id
  <2> QED
    BY <1>2, <1>5, <2>2 DEF Receive
<1>6. ASSUME NEW m \in Arriving, Forward(m)
      PROVE  received' = received + 1 /\ \E x : Framed(x)
  <2>1. PICK x : x = Forwarded(m, arpTable[m.daddr])
    OBVIOUS
  <2>2. Sent(<<x>>) /\ q' = q /\ x.id = received + 1
    BY <1>6, <2>1 DEF Forward, Forwarded, Arriving, Id
  <2> QED
    BY <1>2, <1>6, <2>2 DEF Forward, Receive
<1>7. ASSUME NEW m \in Arriving, Ask(m)
      PROVE  received' = received + 1 /\ \E p : Queued(p)
  <2>1. PICK p : p = [id |-> m.id, daddr |-> m.daddr, ttl |-> m.ttl]
    OBVIOUS
  <2>2. p \in WaitingPacket /\ p.id = received + 1
    BY <1>1, <1>7, <2>1, AskType
  <2> QED
    BY <1>7, <2>1, <2>2 DEF Ask, Kept, Receive, Queued
<1> QED
  BY <1>1, <1>3, <1>4, <1>5, <1>6, <1>7 DEF Arrival, TimeExceeded, Unreachable, Echo

\* What a reply lets out: all that waited, each in a frame of its own.
LEMMA ReplyReleases ==
  ASSUME FInv, NEW ip \in Hosts, NEW mac \in Mac, ArpReply(ip, mac)
  PROVE  /\ DOMAIN q' = {} /\ received' = received
         /\ Len(out) \in Nat /\ DOMAIN out = 1 .. Len(out) /\ DOMAIN q = 1 .. Len(q) /\ Len(q) \in Nat
         /\ DOMAIN out' = 1 .. Len(out) + Len(q)
         /\ \A k \in DOMAIN out' :
              \/ k \in DOMAIN out /\ out'[k] = out[k]
              \/ k - Len(out) \in DOMAIN q /\ out'[k].id = q[k - Len(out)].id /\ out'[k].what = "forward"
         /\ \A k \in DOMAIN out : k \in DOMAIN out' /\ out'[k] = out[k]
         /\ \A k \in DOMAIN q : Len(out) + k \in DOMAIN out' /\ out'[Len(out) + k].id = q[k].id
                                /\ out'[Len(out) + k].what = "forward"
<1>1. TypeOK /\ out \in Seq(Frame) /\ Len(q) \in Nat /\ DOMAIN q = 1 .. Len(q)
  BY DEF FInv, TypeOK
<1>2. q' = << >> /\ received' = received
  BY <1>1, ReplyEmpties
<1>3. PICK f : f = [k \in 1 .. Len(q) |-> Forwarded(q[k], Looked(q[k], ip, mac))]
  OBVIOUS
<1>4. out' = out \o f
  BY <1>3 DEF ArpReply, Sent, Released
<1>5. \A k \in DOMAIN q : f[k].id = q[k].id /\ f[k].what = "forward"
  BY <1>1, <1>3 DEF Forwarded
<1>6. PICK T : T = {f[k] : k \in 1 .. Len(q)}
  OBVIOUS
<1>7. f \in Seq(T) /\ Len(f) = Len(q) /\ out \in Seq(Frame)
  <2>1. f \in [1 .. Len(q) -> T]
    BY <1>3, <1>6
  <2> QED
    BY <1>1, <2>1
<1>8. /\ Len(out) \in Nat /\ DOMAIN out = 1 .. Len(out) /\ DOMAIN (out \o f) = 1 .. Len(out) + Len(f)
      /\ \A k \in 1 .. Len(out) + Len(f) :
           IF k <= Len(out) THEN k \in 1 .. Len(out) /\ (out \o f)[k] = out[k]
           ELSE k - Len(out) \in 1 .. Len(f) /\ (out \o f)[k] = f[k - Len(out)]
      /\ \A k \in 1 .. Len(out) : k \in 1 .. Len(out) + Len(f) /\ (out \o f)[k] = out[k]
      /\ \A k \in 1 .. Len(f) : Len(out) + k \in 1 .. Len(out) + Len(f) /\ (out \o f)[Len(out) + k] = f[k]
  <2>1. out \in Seq(Frame) /\ f \in Seq(T)
    BY <1>7
  <2> QED
    BY ONLY <2>1, Joined
<1> QED
  BY <1>1, <1>2, <1>4, <1>5, <1>7, <1>8

LEMMA PlacesStep ==
  ASSUME FInv, [Next]_vars
  PROVE  OnePlace'
<1>1. TypeOK /\ OnePlace /\ received \in Nat /\ out \in Seq(Frame) /\ q \in Seq(WaitingPacket)
  BY TrieRouterAssumption DEF FInv, TypeOK, TrieRouterAssumption
<1>2. ASSUME Arrival PROVE OnePlace'
  <2>1. received' = received + 1 /\ (Unseen \/ (\E x : Framed(x)) \/ (\E p : Queued(p)))
    BY <1>2, ArrivalKinds
  <2>2. 1 .. received \subseteq 1 .. received' /\ received + 1 \in 1 .. received' /\ received + 1 \notin 1 .. received
    BY <1>1, <2>1
  <2>3. CASE Unseen
    BY <1>1, <2>2, <2>3 DEF OnePlace, Unseen
  <2>4. ASSUME NEW x, Framed(x) PROVE OnePlace'
    <3>1. \A k \in DOMAIN out' : \/ k \in DOMAIN out /\ out'[k] = out[k]
                                 \/ k = Len(out) + 1 /\ out'[k].id = received + 1
      BY <1>1, <2>4 DEF Framed
    <3>2. q' = q
      BY <2>4 DEF Framed
    <3>3. \A k \in DOMAIN q' : q'[k].id \in 1 .. received'
      BY <1>1, <2>2, <3>2 DEF OnePlace
    <3>4. \A k \in DOMAIN out' : out'[k].id \in 1 .. received'
      BY <1>1, <2>2, <3>1 DEF OnePlace
    <3>5. \A j, k \in DOMAIN out' : out'[j].id = out'[k].id => j = k
      BY <1>1, <2>2, <3>1 DEF OnePlace
    <3>6. \A j \in DOMAIN out', k \in DOMAIN q' : out'[j].id # q'[k].id
      BY <1>1, <2>2, <3>1, <3>2 DEF OnePlace
    <3> QED
      BY <1>1, <3>2, <3>3, <3>4, <3>5, <3>6 DEF OnePlace
  <2>5. ASSUME NEW p, Queued(p) PROVE OnePlace'
    <3>1. \A k \in DOMAIN q' : \/ k \in DOMAIN q /\ q'[k] = q[k]
                               \/ k = Len(q) + 1 /\ q'[k].id = received + 1
      BY <1>1, <2>5 DEF Queued
    <3>2. out' = out
      BY <2>5 DEF Queued
    <3>3. \A k \in DOMAIN q' : q'[k].id \in 1 .. received'
      BY <1>1, <2>2, <3>1 DEF OnePlace
    <3>4. \A k \in DOMAIN out' : out'[k].id \in 1 .. received'
      BY <1>1, <2>2, <3>2 DEF OnePlace
    <3>5. \A j, k \in DOMAIN q' : q'[j].id = q'[k].id => j = k
      BY <1>1, <2>2, <3>1 DEF OnePlace
    <3>6. \A j \in DOMAIN out', k \in DOMAIN q' : out'[j].id # q'[k].id
      BY <1>1, <2>2, <3>1, <3>2 DEF OnePlace
    <3> QED
      BY <1>1, <3>2, <3>3, <3>4, <3>5, <3>6 DEF OnePlace
  <2> QED
    BY <2>1, <2>3, <2>4, <2>5
<1>3. ASSUME NEW ip \in Hosts, NEW mac \in Mac, ArpReply(ip, mac) PROVE OnePlace'
  <2>1. /\ DOMAIN q' = {} /\ received' = received
        /\ Len(out) \in Nat /\ DOMAIN out' = 1 .. Len(out) + Len(q) /\ Len(q) \in Nat
        /\ \A k \in DOMAIN out' :
             \/ k \in DOMAIN out /\ out'[k] = out[k]
             \/ k - Len(out) \in DOMAIN q /\ out'[k].id = q[k - Len(out)].id
    BY <1>3, ReplyReleases
  <2>2. \A k \in DOMAIN out' : out'[k].id \in 1 .. received'
    BY <1>1, <2>1 DEF OnePlace
  <2>3. ASSUME NEW j \in DOMAIN out', NEW k \in DOMAIN out', out'[j].id = out'[k].id PROVE j = k
    <3>1. CASE j \in DOMAIN out /\ out'[j] = out[j]
      BY <1>1, <2>1, <2>3, <3>1 DEF OnePlace
    <3>2. CASE j - Len(out) \in DOMAIN q /\ out'[j].id = q[j - Len(out)].id
      <4>1. k - Len(out) \in DOMAIN q /\ out'[k].id = q[k - Len(out)].id
        BY <1>1, <2>1, <2>3, <3>2 DEF OnePlace
      <4>2. j - Len(out) = k - Len(out)
        BY <1>1, <2>3, <3>2, <4>1 DEF OnePlace
      <4>3. j \in Int /\ k \in Int
        BY <2>1
      <4> QED
        BY ONLY <2>1, <4>2, <4>3
    <3> QED
      BY <2>1, <3>1, <3>2
  <2> QED
    BY <2>1, <2>2, <2>3 DEF OnePlace
<1>4. CASE UNCHANGED vars
  BY <1>1, <1>4 DEF vars, OnePlace
<1> QED
  BY <1>2, <1>3, <1>4 DEF Next, HostReplies, HostAnnounces

LEMMA FInvStep == FInv /\ [Next]_vars => FInv'
<1> SUFFICES ASSUME FInv, [Next]_vars PROVE FInv'
  OBVIOUS
<1>1. TypeOK' /\ TableIsLatest' /\ EmptyMeansAsked' /\ OnePlace'
  BY TypeKept, LatestKept, EmptyKept, PlacesStep DEF FInv
<1>2. out' \in Seq(Frame')
  BY OwnedStep DEF FInv
<1> QED
  BY <1>1, <1>2 DEF FInv

-----------------------------------------------------------------------------
(* The refinement. *)

\* Where a packet is that is in one place.
HasFrame(id) == \E k \in DOMAIN out : out[k].id = id
HasForward(id) == \E k \in DOMAIN out : out[k].id = id /\ out[k].what = "forward"
InQueue(id) == \E k \in DOMAIN q : q[k].id = id

PlainFate(id) ==
  IF id > received THEN "new"
  ELSE IF HasFrame(id) THEN (IF HasForward(id) THEN "forwarded" ELSE "answered")
  ELSE IF InQueue(id) THEN "waiting" ELSE "dropped"

Plain == \A id \in 1 .. MaxPackets : FateOf(id) = PlainFate(id)

LEMMA FatesPlain == FInv => Plain
<1> SUFFICES ASSUME FInv, NEW id \in 1 .. MaxPackets PROVE FateOf(id) = PlainFate(id)
  BY DEF Plain
<1>1. OnePlace
  BY DEF FInv
<1>2. HasFrame(id) <=> Frames(id) # {}
  BY DEF HasFrame, Frames
<1>3. InQueue(id) <=> Waits(id) # {}
  BY DEF InQueue, Waits
<1>4. HasForward(id) <=> \E k \in Frames(id) : out[k].what = "forward"
  BY DEF HasForward, Frames
<1>5. ~(HasFrame(id) /\ InQueue(id))
  BY <1>1 DEF HasFrame, InQueue, OnePlace
<1>6. ~(Cardinality(Frames(id)) > 1)
  <2>1. \A j, k \in Frames(id) : j = k
    BY <1>1 DEF Frames, OnePlace
  <2>2. CASE Frames(id) = {}
    <3>1. Cardinality({}) = 0
      BY FS_EmptySet
    <3> QED
      BY <2>2, <3>1
  <2>3. CASE Frames(id) # {}
    <3>1. PICK k : Frames(id) = {k}
      BY <2>1, <2>3
    <3>2. Cardinality({k}) = 1
      BY FS_Singleton
    <3> QED
      BY <3>1, <3>2
  <2> QED
    BY <2>2, <2>3
<1> QED
  BY <1>2, <1>3, <1>4, <1>5, <1>6, Zenon DEF FateOf, PlainFate

\* One packet is received, and the fate of no other changes.
LEMMA ReceiveMaps ==
  ASSUME NEW p \in 1 .. MaxPackets, FateOf(p) = "new", FateOf(p)' \in OneFate!Fate \ {"new"},
         \A id \in 1 .. MaxPackets : id # p => FateOf(id)' = FateOf(id)
  PROVE  OneFate!Next
  BY DEF OneFate!Next, OneFate!Receive, OneFate!Fate

\* What waited is forwarded.
LEMMA ReleaseMaps ==
  ASSUME \A id \in 1 .. MaxPackets :
           FateOf(id)' = IF FateOf(id) = "waiting" THEN "forwarded" ELSE FateOf(id)
  PROVE  OneFate!Next
<1> DEFINE ps == {id \in 1 .. MaxPackets : FateOf(id) = "waiting"}
<1>1. ps \in SUBSET {id \in 1 .. MaxPackets : [i \in 1 .. MaxPackets |-> FateOf(i)][id] = "waiting"}
  OBVIOUS
<1>2. [id \in 1 .. MaxPackets |-> FateOf(id)]'
        = [id \in 1 .. MaxPackets |-> IF id \in ps THEN "forwarded" ELSE [i \in 1 .. MaxPackets |-> FateOf(i)][id]]
  OBVIOUS
<1> HIDE DEF ps
<1> QED
  BY <1>1, <1>2 DEF OneFate!Next, OneFate!Release

LEMMA ArrivalMaps ==
  ASSUME FInv, Plain, Plain', Arrival
  PROVE  OneFate!Next
<1>1. /\ OnePlace /\ received \in Nat /\ out \in Seq(Frame) /\ q \in Seq(WaitingPacket)
      /\ MaxPackets \in Nat /\ \A id \in 1 .. MaxPackets : FateOf(id) = PlainFate(id) /\ id \in Nat
  BY TrieRouterAssumption DEF FInv, TypeOK, TrieRouterAssumption, Plain
<1>2. \A id \in 1 .. MaxPackets : FateOf(id)' = PlainFate(id)'
  BY DEF Plain
<1>3. received' = received + 1 /\ received < MaxPackets /\ (Unseen \/ (\E x : Framed(x)) \/ (\E p : Queued(p)))
  BY ArrivalKinds
<1>4. PICK p \in 1 .. MaxPackets : p = received + 1
  BY <1>1, <1>3
<1>5. FateOf(p) = "new"
  <2>1. p > received
    BY <1>1, <1>4
  <2> QED
    BY <1>1, <2>1 DEF PlainFate
<1>6. FateOf(p)' \in OneFate!Fate \ {"new"}
  <2>1. ~(p > received')
    BY <1>1, <1>3, <1>4
  <2>2. PlainFate(p)' \in {"forwarded", "answered", "waiting", "dropped"}
    BY <2>1 DEF PlainFate
  <2> QED
    BY <1>2, <2>2 DEF OneFate!Fate
<1>7. ASSUME NEW id \in 1 .. MaxPackets, id # p PROVE PlainFate(id)' = PlainFate(id)
  <2>1. id > received' <=> id > received
    BY <1>1, <1>3, <1>4, <1>7
  <2>2. (HasFrame(id)' <=> HasFrame(id)) /\ (HasForward(id)' <=> HasForward(id)) /\ (InQueue(id)' <=> InQueue(id))
    <3>1. CASE Unseen
      BY <3>1 DEF Unseen, HasFrame, HasForward, InQueue
    <3>2. ASSUME NEW x, Framed(x)
          PROVE  (HasFrame(id)' <=> HasFrame(id)) /\ (HasForward(id)' <=> HasForward(id)) /\ (InQueue(id)' <=> InQueue(id))
      <4>1. /\ q' = q
            /\ \A k \in DOMAIN out' : \/ k \in DOMAIN out /\ out'[k] = out[k]
                                      \/ out'[k].id # id
            /\ \A k \in DOMAIN out : k \in DOMAIN out' /\ out'[k] = out[k]
        BY <1>1, <1>4, <1>7, <3>2 DEF Framed
      <4> QED
        BY <4>1, Zenon DEF HasFrame, HasForward, InQueue
    <3>3. ASSUME NEW x, Queued(x)
          PROVE  (HasFrame(id)' <=> HasFrame(id)) /\ (HasForward(id)' <=> HasForward(id)) /\ (InQueue(id)' <=> InQueue(id))
      <4>1. /\ out' = out
            /\ \A k \in DOMAIN q' : \/ k \in DOMAIN q /\ q'[k] = q[k]
                                    \/ q'[k].id # id
            /\ \A k \in DOMAIN q : k \in DOMAIN q' /\ q'[k] = q[k]
        BY <1>1, <1>4, <1>7, <3>3 DEF Queued
      <4> QED
        BY <4>1, Zenon DEF HasFrame, HasForward, InQueue
    <3> QED
      BY <1>3, <3>1, <3>2, <3>3
  <2> QED
    BY <2>1, <2>2, Zenon DEF PlainFate
<1>8. \A id \in 1 .. MaxPackets : id # p => FateOf(id)' = FateOf(id)
  BY <1>1, <1>2, <1>7
<1> QED
  BY <1>5, <1>6, <1>8, ReceiveMaps

LEMMA ReplyMaps ==
  ASSUME FInv, Plain, Plain', NEW ip \in Hosts, NEW mac \in Mac, ArpReply(ip, mac)
  PROVE  OneFate!Next
<1>1. OnePlace /\ \A id \in 1 .. MaxPackets : FateOf(id) = PlainFate(id)
  BY DEF FInv, Plain
<1>2. \A id \in 1 .. MaxPackets : FateOf(id)' = PlainFate(id)'
  BY DEF Plain
<1>3. /\ DOMAIN q' = {} /\ received' = received
      /\ \A k \in DOMAIN out' :
           \/ k \in DOMAIN out /\ out'[k] = out[k]
           \/ k - Len(out) \in DOMAIN q /\ out'[k].id = q[k - Len(out)].id /\ out'[k].what = "forward"
      /\ \A k \in DOMAIN out : k \in DOMAIN out' /\ out'[k] = out[k]
      /\ \A k \in DOMAIN q : Len(out) + k \in DOMAIN out' /\ out'[Len(out) + k].id = q[k].id
                             /\ out'[Len(out) + k].what = "forward"
  BY ReplyReleases
<1>4. ASSUME NEW id \in 1 .. MaxPackets
      PROVE  PlainFate(id)' = IF PlainFate(id) = "waiting" THEN "forwarded" ELSE PlainFate(id)
  <2>1. ~InQueue(id)'
    BY <1>3 DEF InQueue
  <2>2. HasFrame(id)' <=> HasFrame(id) \/ InQueue(id)
    BY <1>3, Zenon DEF HasFrame, InQueue
  <2>3. HasForward(id)' <=> HasForward(id) \/ InQueue(id)
    BY <1>3, Zenon DEF HasForward, InQueue
  <2>4. ~(HasFrame(id) /\ InQueue(id)) /\ (HasForward(id) => HasFrame(id))
    BY <1>1 DEF HasFrame, HasForward, InQueue, OnePlace
  <2>5. InQueue(id) => ~(id > received)
    <3>1. ASSUME NEW k \in DOMAIN q, q[k].id = id PROVE ~(id > received)
      <4>1. id \in 1 .. received /\ received \in Nat
        BY <1>1, <3>1, TrieRouterAssumption DEF OnePlace, FInv, TypeOK, TrieRouterAssumption
      <4> QED
        BY <4>1
    <3> QED
      BY <3>1 DEF InQueue
  <2>6. PlainFate(id)' = IF id > received THEN "new"
          ELSE IF HasFrame(id)' THEN (IF HasForward(id)' THEN "forwarded" ELSE "answered")
          ELSE IF InQueue(id)' THEN "waiting" ELSE "dropped"
    BY <1>3 DEF PlainFate
  <2> HIDE DEF HasFrame, HasForward, InQueue
  <2>7. PlainFate(id) = IF id > received THEN "new"
          ELSE IF HasFrame(id) THEN (IF HasForward(id) THEN "forwarded" ELSE "answered")
          ELSE IF InQueue(id) THEN "waiting" ELSE "dropped"
    BY DEF PlainFate
  <2>8. CASE InQueue(id)
    BY <2>1, <2>2, <2>3, <2>4, <2>5, <2>6, <2>7, <2>8, Zenon
  <2>9. CASE ~InQueue(id)
    BY <2>1, <2>2, <2>3, <2>4, <2>5, <2>6, <2>7, <2>9
  <2> QED
    BY <2>8, <2>9
<1> QED
  BY <1>1, <1>2, <1>4, ReleaseMaps

LEMMA StepMaps ==
  FInv /\ Plain /\ Plain' /\ [Next]_vars
    => [OneFate!Next]_[id \in 1 .. MaxPackets |-> FateOf(id)]
<1> SUFFICES ASSUME FInv, Plain, Plain', [Next]_vars
             PROVE  OneFate!Next \/ [id \in 1 .. MaxPackets |-> FateOf(id)]' = [id \in 1 .. MaxPackets |-> FateOf(id)]
  OBVIOUS
<1>1. CASE UNCHANGED vars
  BY <1>1 DEF vars, FateOf, Frames, Waits
<1> QED
  BY <1>1, ArrivalMaps, ReplyMaps DEF Next, HostReplies, HostAnnounces

LEMMA InitMaps == Init => OneFate!Init
<1> SUFFICES ASSUME Init PROVE OneFate!Init
  OBVIOUS
<1>1. \A id \in 1 .. MaxPackets : id > received
  BY TrieRouterAssumption DEF Init, TrieRouterAssumption
<1> QED
  BY <1>1 DEF OneFate!Init, FateOf

\* Every packet that router.cpp receives is dropped, answered, or forwarded exactly once, at once or
\* when its wait is over, whoever announces what meanwhile.
THEOREM OneFateEach == Spec => ImplementsForwarding
<1>1. Init => FInv
  BY InitType DEF Init, FInv, TableIsLatest, EmptyMeansAsked, OnePlace
<1> QED
  BY <1>1, FInvStep, FatesPlain, InitMaps, StepMaps, PTL DEF Spec, ImplementsForwarding, OneFate!Spec

-----------------------------------------------------------------------------
(* The walk down the trie. *)

\* Where the walk goes at bit n, from 0.
Step(t, elem, n, node) ==
  LET child == Child(Nodes(t), node, Bit(elem, n))
  IN  IF Len(node) = n /\ child \in Nodes(t) THEN child ELSE node

IsWalk(walk, t, elem, m) ==
  walk = [n \in 0..m |-> IF n = 0 THEN << >> ELSE Step(t, elem, n - 1, walk[n - 1])]

LEMMA WalkExists ==
  ASSUME NEW t, NEW elem, NEW m \in Nat
  PROVE  \E walk : IsWalk(walk, t, elem, m)
<1> DEFINE S == {k \in Nat : \E walk : IsWalk(walk, t, elem, k)}
<1>1. 0 \in S
  <2> DEFINE walk == [n \in 0..0 |-> << >>]
  <2>1. IsWalk(walk, t, elem, 0)
    BY DEF IsWalk
  <2> HIDE DEF walk
  <2> QED
    BY <2>1
<1>2. ASSUME NEW k \in Nat, k \in S PROVE k + 1 \in S
  <2>1. PICK f : IsWalk(f, t, elem, k)
    BY <1>2
  <2> DEFINE g == [n \in 0..k+1 |-> IF n = k + 1 THEN Step(t, elem, k, f[k]) ELSE f[n]]
  <2>2. \A n \in 0..k+1 : g[n] = IF n = 0 THEN << >> ELSE Step(t, elem, n - 1, g[n - 1])
    BY <2>1 DEF IsWalk
  <2>3. IsWalk(g, t, elem, k + 1)
    BY <2>2 DEF IsWalk
  <2> HIDE DEF g
  <2>4. \E walk : IsWalk(walk, t, elem, k + 1)
    BY <2>3
  <2> QED
    BY <2>4
<1> HIDE DEF S
<1>3. m \in S
  BY <1>1, <1>2, Inductive
<1> QED
  BY <1>3 DEF S

LEMMA FindInIs ==
  ASSUME NEW t, NEW elem, elem # 0
  PROVE  \E walk : IsWalk(walk, t, elem, W) /\ FindIn(t, elem) = Data(t, walk[W])
<1> DEFINE Is(walk) == walk = [n \in 0..W |->
                         IF n = 0 THEN << >>
                         ELSE LET node == walk[n - 1]
                                  child == Child(Nodes(t), node, Bit(elem, n - 1))
                              IN  IF Len(node) = n - 1 /\ child \in Nodes(t) THEN child ELSE node]
           walk == CHOOSE w : Is(w)
<1>1. \A w : Is(w) <=> IsWalk(w, t, elem, W)
  BY DEF IsWalk, Step
<1>2. \E w : Is(w)
  <2> HIDE DEF Is
  <2> QED
    BY <1>1, WalkExists, WIsNat
<1>3. Is(walk)
  <2> HIDE DEF Is
  <2> QED
    BY <1>2
<1>4. FindIn(t, elem) = Data(t, walk[W])
  BY DEF FindIn
<1> HIDE DEF walk, Is
<1> QED
  BY <1>1, <1>3, <1>4

-----------------------------------------------------------------------------
(* The paths of the trie. *)

\* The first bits of an address in memory.
First(a, n) == [i \in 1..n |-> Bit(a, i - 1)]

\* The numbers of the mask's leading ones.
Leading(m) == {b \in 0..W-2 : \A i \in 0..b : Bit(m, NetBit(i)) = 1}

LEMMA LeadingFinite ==
  ASSUME NEW m
  PROVE  /\ IsFiniteSet(Leading(m)) /\ MaskLength(m) = Cardinality(Leading(m))
         /\ MaskLength(m) \in 0..W-1
<1>1. MaskLength(m) = Cardinality(Leading(m))
  BY DEF MaskLength, Leading
<1>2. 0 \in Int /\ W - 2 \in Int /\ Leading(m) \subseteq 0..W-2
  BY WIsNat DEF Leading
<1>3. IsFiniteSet(0..W-2) /\ Cardinality(0..W-2) = W - 1
  BY WIsNat, FS_Interval
<1>4. IsFiniteSet(Leading(m)) /\ Cardinality(Leading(m)) <= W - 1
  BY <1>2, <1>3, FS_Subset
<1>5. Cardinality(Leading(m)) \in Nat
  BY <1>4, FS_CardinalityType
<1> QED
  BY <1>1, <1>4, <1>5, WIsNat

\* A mask of k octets, and it alone, has the lower k octets of a number.
LEMMA OctetMaskBits ==
  ASSUME NEW m, NEW k \in 1..Octets-1, OctetMask(m, k)
  PROVE  /\ k * OctetBits \in 1..W-1
         /\ \A i \in 0..W-1 : Bit(m, i) = 1 <=> i < k * OctetBits
<1>1. k \in Nat
  BY WIsNat
<1>2. ASSUME NEW i \in 0..W-1
      PROVE  Bit(m, i) = 1 <=> i < k * OctetBits
  <2>1. NetBit(i) \in 0..W-1 /\ NetBit(NetBit(i)) = i /\ (NetBit(i) < k * OctetBits <=> i < k * OctetBits)
    BY <1>1, NetBitTurns
  <2>2. Bit(m, NetBit(NetBit(i))) = 1 <=> NetBit(i) < k * OctetBits
    BY <2>1 DEF OctetMask
  <2> QED
    BY <2>1, <2>2
<1>3. k * OctetBits \in 1..W-1
  <2>1. k * OctetBits \in Nat /\ k * OctetBits >= 1
    BY <1>1, WIsNat
  <2>2. (k + 1) * OctetBits <= Octets * OctetBits
    BY <1>1, WIsNat
  <2>3. (k + 1) * OctetBits = k * OctetBits + OctetBits
    BY <1>1, WIsNat
  <2> QED
    BY <2>1, <2>2, <2>3, WIsNat DEF W
<1> QED
  BY <1>2, <1>3

\* How long that mask is, and what masks are as long.
LEMMA OctetMaskLength ==
  ASSUME NEW m, NEW k \in 1..Octets-1, OctetMask(m, k), NEW n \in 1..W-1, n = k * OctetBits
  PROVE  /\ MaskLength(m) = n
         /\ \A l : MaskLength(l) >= n => \A i \in 0..n-1 : Bit(l, i) = 1
<1>1. MaskLength(m) = n
  <2>1. Leading(m) = 0..n-1
    <3>1. ASSUME NEW b \in 0..W-2 PROVE (\A i \in 0..b : Bit(m, NetBit(i)) = 1) <=> b < n
      <4>1. \A i \in 0..b : i \in 0..W-1
        BY WIsNat
      <4>2. b \in 0..b
        OBVIOUS
      <4>3. \A i \in 0..b : b < n => i < n
        OBVIOUS
      <4> QED
        BY <4>1, <4>2, <4>3 DEF OctetMask
    <3>2. 0..n-1 = {b \in 0..W-2 : b < n}
      BY WIsNat
    <3> QED
      BY <3>1, <3>2 DEF Leading
  <2>2. Cardinality(0..n-1) = n
    BY FS_Interval
  <2> QED
    BY <2>1, <2>2, LeadingFinite
<1>2. ASSUME NEW l, MaskLength(l) >= n, NEW i \in 0..n-1 PROVE Bit(l, i) = 1
  <2>1. \E b \in Leading(l) : n - 1 <= b
    <3> SUFFICES ASSUME \A b \in Leading(l) : ~(n - 1 <= b) PROVE FALSE
      OBVIOUS
    <3>1. Leading(l) \subseteq 0..n-2
      BY WIsNat DEF Leading
    <3>2. IsFiniteSet(0..n-2) /\ Cardinality(0..n-2) = n - 1
      BY FS_Interval, WIsNat
    <3>3. Cardinality(Leading(l)) <= n - 1
      BY <3>1, <3>2, FS_Subset
    <3>4. MaskLength(l) = Cardinality(Leading(l)) /\ MaskLength(l) \in Int
      BY LeadingFinite, WIsNat
    <3> QED
      BY <1>2, <3>3, <3>4
  <2>2. i \in 0..W-1 /\ k \in Nat /\ (NetBit(i) < n <=> i < n) /\ NetBit(i) \in 0..W-1 /\ NetBit(NetBit(i)) = i
    <3>1. i \in 0..W-1 /\ k \in Nat
      BY WIsNat
    <3> QED
      BY <3>1, NetBitTurns
  <2>3. \A b \in 0..n-1 : Bit(l, NetBit(b)) = 1
    BY <2>1, WIsNat DEF Leading
  <2>4. NetBit(i) \in 0..n-1
    BY <2>2
  <2> QED
    BY <2>2, <2>3, <2>4
<1> QED
  BY <1>1, <1>2

\* Bits that the mask lets through.
LEMMA SameBits ==
  ASSUME NEW a \in Int, NEW b \in Int, NEW c \in Int, NEW d \in Int, NEW i \in 0..W-1,
         And(a, c) = And(b, d), Bit(c, i) = 1, Bit(d, i) = 1
  PROVE  Bit(a, i) = Bit(b, i)
<1>1. PICK m \in 1..W : m - 1 = i /\ m \in Nat \ {0} /\ i \in Nat
  <2>1. i + 1 \in 1..W /\ i + 1 - 1 = i /\ i + 1 \in Nat \ {0} /\ i \in Nat
    BY WIsNat
  <2> QED
    BY <2>1
<1>2. Digit(a, c, m) = Digit(b, d, m)
  BY DigitsOf
<1>3. Digit(a, c, m) = 0 <=> (Bit(a, m - 1) = 0 \/ Bit(c, m - 1) = 0)
  BY <1>1, DigitIsNat
<1>4. Digit(b, d, m) = 0 <=> (Bit(b, m - 1) = 0 \/ Bit(d, m - 1) = 0)
  BY <1>1, DigitIsNat
<1>5. Bit(a, i) \in {0, 1} /\ Bit(b, i) \in {0, 1}
  BY <1>1, BitIsBit
<1> QED
  BY <1>1, <1>2, <1>3, <1>4, <1>5

\* An address in a network has its first bits, and an entry that has them, and
\* as long a mask, lies within the network.
LEMMA PathsTell ==
  ASSUME NEW e, e.prefix \in Int, e.mask \in Int, Matches(e, e.prefix),
         NEW n \in 1..W-1, \A i \in 0..W-1 : Bit(e.mask, i) = 1 <=> i < n
  PROVE  /\ \A a \in Int : Matches(e, a) => First(a, n) = First(e.prefix, n)
         /\ \A p \in Int : (\A i \in 0..n-1 : Bit(p, i) = Bit(e.prefix, i)) => Matches(e, p)
<1>1. And(e.prefix, e.mask) = e.prefix
  BY DEF Matches
<1>2. \A m \in 1..n : m - 1 \in 0..W-1 /\ m - 1 < n
  BY WIsNat
<1>3. ASSUME NEW a \in Int, Matches(e, a)
      PROVE  First(a, n) = First(e.prefix, n)
  <2>1. And(a, e.mask) = And(e.prefix, e.mask)
    BY <1>1, <1>3 DEF Matches
  <2>2. ASSUME NEW m \in 1..n PROVE Bit(a, m - 1) = Bit(e.prefix, m - 1)
    <3>1. m - 1 \in 0..W-1 /\ Bit(e.mask, m - 1) = 1
      BY <1>2
    <3> QED
      BY <1>1, <2>1, <3>1, SameBits
  <2> QED
    BY <2>2 DEF First
<1>4. ASSUME NEW p \in Int, \A i \in 0..n-1 : Bit(p, i) = Bit(e.prefix, i)
      PROVE  Matches(e, p)
  <2>1. ASSUME NEW m \in 1..W PROVE Digit(p, e.mask, m) = Digit(e.prefix, e.mask, m)
    <3>1. m - 1 \in 0..W-1 /\ m - 1 \in Nat /\ m \in Nat \ {0}
      BY WIsNat
    <3>2. CASE m - 1 < n
      <4>1. Bit(p, m - 1) = Bit(e.prefix, m - 1)
        BY <1>4, <3>1, <3>2
      <4> QED
        BY <4>1 DEF Digit
    <3>3. CASE ~(m - 1 < n)
      <4>1. Bit(e.mask, m - 1) = 0
        BY <3>1, <3>3, BitIsBit
      <4>2. Digit(p, e.mask, m) = 0 /\ Digit(e.prefix, e.mask, m) = 0
        <5>1. PICK x \in Int, c \in Int : x = e.prefix /\ c = e.mask
          OBVIOUS
        <5>2. Digit(p, c, m) = 0 /\ Digit(x, c, m) = 0
          BY <3>1, <4>1, <5>1, DigitIsNat
        <5> QED
          BY <5>1, <5>2
      <4> QED
        BY <4>2
    <3> QED
      BY <3>2, <3>3
  <2>2. And(p, e.mask) = And(e.prefix, e.mask)
    BY <2>1, SameDigits
  <2> QED
    BY <1>1, <2>2 DEF Matches
<1> QED
  BY <1>3, <1>4

-----------------------------------------------------------------------------
(* The lookup. *)

LEMMA FirstIsPath ==
  ASSUME NEW a \in Int, NEW n \in Nat, n <= W
  PROVE  /\ First(a, n) \in Seq({0, 1}) /\ Len(First(a, n)) = n
         /\ \A m \in 0..n : SubSeq(First(a, n), 1, m) = First(a, m)
         /\ \A m \in 1..n : First(a, m) = Append(First(a, m - 1), Bit(a, m - 1))
<1>1. \A m \in 1..n : Bit(a, m - 1) \in {0, 1}
  BY BitIsBit, WIsNat
<1>2. \A m \in 0..n : First(a, m) \in Seq({0, 1}) /\ Len(First(a, m)) = m
  BY <1>1 DEF First
<1>3. ASSUME NEW m \in 0..n PROVE SubSeq(First(a, n), 1, m) = First(a, m)
  BY <1>2, <1>3 DEF First
<1>4. ASSUME NEW m \in 1..n PROVE First(a, m) = Append(First(a, m - 1), Bit(a, m - 1))
  <2>1. m - 1 \in 0..n
    OBVIOUS
  <2>2. First(a, m - 1) \in Seq({0, 1}) /\ Len(First(a, m - 1)) = m - 1 /\ Bit(a, m - 1) \in {0, 1}
    BY <1>1, <1>2, <2>1
  <2> DEFINE s == First(a, m - 1)
             x == Bit(a, m - 1)
  <2>3. DOMAIN Append(s, x) = 1..m /\ \A i \in 1..m : Append(s, x)[i] = IF i = m THEN x ELSE s[i]
    <3> HIDE DEF s, x
    <3>1. s \in Seq({0, 1}) /\ Len(s) = m - 1 /\ x \in {0, 1}
      BY <2>2 DEF s, x
    <3> QED
      BY <3>1
  <2>4. \A i \in 1..m-1 : s[i] = Bit(a, i - 1)
    BY DEF First
  <2>5. Append(s, x) = [i \in 1..m |-> Bit(a, i - 1)]
    <3>1. Append(s, x) \in Seq({0, 1})
      <4> HIDE DEF s, x
      <4>1. s \in Seq({0, 1}) /\ x \in {0, 1}
        BY <2>2 DEF s, x
      <4> QED
        BY <4>1
    <3> HIDE DEF s
    <3>2. \A i \in 1..m : Append(s, x)[i] = Bit(a, i - 1)
      BY <2>3, <2>4
    <3>3. PICK z \in Seq({0, 1}) : z = Append(s, x)
      BY <3>1
    <3> HIDE DEF x
    <3>4. DOMAIN z = 1..m /\ \A i \in 1..m : z[i] = Bit(a, i - 1)
      BY <2>3, <3>2, <3>3
    <3>5. z = [i \in 1..m |-> Bit(a, i - 1)]
      BY <3>4
    <3> QED
      BY <3>3, <3>5
  <2> QED
    BY <2>5 DEF First
<1>5. n \in 0..n
  OBVIOUS
<1> QED
  BY <1>2, <1>3, <1>4, <1>5

\* The path of an entry, and the nodes.
LEMMA PathNodes ==
  ASSUME NEW t, Numbers(t)
  PROVE  /\ \A j \in DOMAIN t :
              /\ MaskLength(t[j].mask) \in 0..W-1
              /\ Path(t[j]) = First(t[j].prefix, MaskLength(t[j].mask))
              /\ Len(Path(t[j])) = MaskLength(t[j].mask)
         /\ \A node : node \in Nodes(t) <=>
              \E j \in DOMAIN t : \E m \in 0..MaskLength(t[j].mask) : node = First(t[j].prefix, m)
<1>1. ASSUME NEW j \in DOMAIN t
      PROVE  /\ MaskLength(t[j].mask) \in 0..W-1
             /\ Path(t[j]) = First(t[j].prefix, MaskLength(t[j].mask))
             /\ Len(Path(t[j])) = MaskLength(t[j].mask)
             /\ \A m \in 0..MaskLength(t[j].mask) : SubSeq(Path(t[j]), 1, m) = First(t[j].prefix, m)
  <2>1. PICK p \in Int, n \in 0..W-1 : p = t[j].prefix /\ n = MaskLength(t[j].mask)
    BY LeadingFinite DEF Numbers
  <2>2. Path(t[j]) = First(p, n)
    BY <2>1 DEF Path, First
  <2>3. n \in Nat /\ n <= W
    BY WIsNat
  <2>4. Len(First(p, n)) = n /\ \A m \in 0..n : SubSeq(First(p, n), 1, m) = First(p, m)
    BY <2>3, FirstIsPath
  <2> QED
    BY <2>1, <2>2, <2>4
<1>2. Nodes(t) = UNION {{First(t[j].prefix, m) : m \in 0..MaskLength(t[j].mask)} : j \in DOMAIN t}
  <2>1. \A j \in DOMAIN t : {SubSeq(Path(t[j]), 1, m) : m \in 0..Len(Path(t[j]))}
                            = {First(t[j].prefix, m) : m \in 0..MaskLength(t[j].mask)}
    BY <1>1
  <2> QED
    BY <2>1 DEF Nodes
<1> QED
  BY <1>1, <1>2

\* With bits that lead to an entry, the walk comes to its node and stays there.
LEMMA WalkArrives ==
  ASSUME NEW t, NEW a \in Int, NEW n \in 1..W-1,
         \A m \in 0..n : First(a, m) \in Nodes(t),
         \A x \in {0, 1} : Append(First(a, n), x) \notin Nodes(t),
         NEW walk, IsWalk(walk, t, a, W)
  PROVE  walk[W] = First(a, n)
<1>0. n \in Nat /\ n <= W /\ W \in Nat
  BY WIsNat
<1>1. ASSUME NEW m \in 0..n PROVE Len(First(a, m)) = m /\ First(a, m) \in Seq({0, 1})
  <2>1. m \in Nat /\ m <= W
    BY <1>0
  <2> QED
    BY <2>1, FirstIsPath
<1>2. \A m \in 0..n-1 : First(a, m + 1) = Append(First(a, m), Bit(a, m))
  <2> SUFFICES ASSUME NEW m \in 0..n-1 PROVE First(a, m + 1) = Append(First(a, m), Bit(a, m))
    OBVIOUS
  <2>1. PICK k \in 1..n : k = m + 1 /\ k - 1 = m
    OBVIOUS
  <2>2. First(a, k) = Append(First(a, k - 1), Bit(a, k - 1))
    BY <1>0, FirstIsPath
  <2> QED
    BY <2>1, <2>2
<1>3. walk[0] = << >> /\ \A m \in 0..W-1 : walk[m + 1] = Step(t, a, m, walk[m])
  <2>1. walk[0] = << >> /\ \A m \in 1..W : walk[m] = Step(t, a, m - 1, walk[m - 1])
    BY <1>0 DEF IsWalk
  <2>2. \A m \in 0..W-1 : m + 1 \in 1..W /\ m + 1 - 1 = m
    BY <1>0
  <2> QED
    BY <2>1, <2>2
<1>4. First(a, 0) = << >>
  BY <1>1 DEF First
<1> DEFINE S == {m \in Nat : m <= W => walk[m] = First(a, IF m <= n THEN m ELSE n)}
<1>5. 0 \in S
  BY <1>0, <1>3, <1>4
<1>6. ASSUME NEW m \in Nat, m \in S PROVE m + 1 \in S
  <2>1. SUFFICES ASSUME m + 1 <= W PROVE walk[m + 1] = First(a, IF m + 1 <= n THEN m + 1 ELSE n)
    OBVIOUS
  <2>2. m \in 0..W-1
    BY <1>0, <2>1
  <2>3. walk[m] = First(a, IF m <= n THEN m ELSE n)
    BY <1>0, <1>6, <2>1
  <2> DEFINE node == walk[m]
             bit == Bit(a, m)
             child == Child(Nodes(t), node, bit)
  <2>4. walk[m + 1] = IF Len(node) = m /\ child \in Nodes(t) THEN child ELSE node
    BY <1>3, <2>2 DEF Step
  <2>5. CASE m + 1 <= n
    <3>1. m \in 0..n /\ m \in 0..n-1 /\ m + 1 \in 0..n /\ m <= n
      BY <1>0, <2>5
    <3>2. node = First(a, m) /\ Len(node) = m
      BY <1>1, <2>3, <3>1
    <3>3. First(a, m + 1) = Append(node, bit) /\ First(a, m + 1) \in Nodes(t)
      BY <1>2, <3>1, <3>2
    <3>4. child = Append(node, bit)
      <4> HIDE DEF node, bit
      <4> QED
        BY <3>3 DEF Child
    <3> HIDE DEF node, bit, child
    <3> QED
      BY <2>4, <2>5, <3>2, <3>3, <3>4
  <2>6. CASE ~(m + 1 <= n)
    <3>1. n \in 0..n /\ n <= m
      BY <1>0, <2>6
    <3>2. node = First(a, n) /\ Len(node) = n /\ node \in Seq({0, 1})
      BY <1>0, <1>1, <2>3, <3>1
    <3>3. bit \in {0, 1}
      BY BitIsBit
    <3>4. child \in {Append(node, 0), Append(node, 1)}
      <4> HIDE DEF node, bit
      <4> QED
        BY <3>3 DEF Child
    <3>5. child \notin Nodes(t)
      <4> HIDE DEF child, node
      <4> QED
        BY <3>2, <3>4
    <3> HIDE DEF node, child
    <3> QED
      BY <2>4, <2>6, <3>2, <3>5
  <2> QED
    BY <2>5, <2>6
<1> HIDE DEF S
<1>7. Nat \subseteq S
  BY <1>5, <1>6, Inductive
<1>8. W \in S /\ (W <= n => n = W)
  BY <1>0, <1>7
<1> QED
  BY <1>0, <1>8 DEF S

LEMMA TrieFinds ==
  ASSUME NEW t, Numbers(t), DOMAIN t \subseteq Int, NEW j \in DOMAIN t, Network(t[j]), Alone(t, j),
         NEW a \in Int, a # 0, Matches(t[j], a)
  PROVE  FindIn(t, a) = t[j]
<1>1. PICK k \in 1..Octets-1 : OctetMask(t[j].mask, k)
  BY DEF Network
<1>2. PICK n \in 1..W-1 : n = k * OctetBits /\ \A i \in 0..W-1 : Bit(t[j].mask, i) = 1 <=> i < n
  BY <1>1, OctetMaskBits
<1>3. /\ MaskLength(t[j].mask) = n
      /\ \A l : MaskLength(l) >= n => \A i \in 0..n-1 : Bit(l, i) = 1
  BY <1>1, <1>2, OctetMaskLength
<1>4. t[j].prefix \in Int /\ t[j].mask \in Int /\ Matches(t[j], t[j].prefix)
  BY DEF Numbers, Network
<1>5. First(a, n) = First(t[j].prefix, n)
  BY <1>2, <1>4, PathsTell
<1>6. n \in Nat /\ n <= W /\ n < W /\ n >= 1
  BY WIsNat
<1>7. /\ Len(First(a, n)) = n /\ First(a, n) \in Seq({0, 1})
      /\ \A m \in 1..n : First(a, n)[m] = Bit(a, m - 1)
  BY <1>6, FirstIsPath DEF First
<1>8. ASSUME NEW i \in DOMAIN t, MaskLength(t[i].mask) >= n, First(t[i].prefix, n) = First(a, n)
      PROVE  i = j
  <2>1. \A m \in 1..n : Bit(t[i].prefix, m - 1) = Bit(t[j].prefix, m - 1)
    BY <1>5, <1>8 DEF First
  <2>2. \A b \in 0..n-1 : Bit(t[i].prefix, b) = Bit(t[j].prefix, b)
    <3> SUFFICES ASSUME NEW b \in 0..n-1 PROVE Bit(t[i].prefix, b) = Bit(t[j].prefix, b)
      OBVIOUS
    <3>1. PICK m \in 1..n : m = b + 1 /\ m - 1 = b
      OBVIOUS
    <3> QED
      BY <2>1, <3>1
  <2>3. t[i].prefix \in Int
    BY DEF Numbers
  <2>4. Matches(t[j], t[i].prefix)
    BY <1>2, <1>4, <2>2, <2>3, PathsTell
  <2>5. \A b \in 0..W-1 : Bit(t[j].mask, b) = 1 => Bit(t[i].mask, b) = 1
    BY <1>2, <1>3, <1>8
  <2>6. Within(t[i], t[j])
    BY <2>4, <2>5 DEF Within
  <2> QED
    BY <2>6 DEF Alone
<1>9. \A m \in 0..n : First(a, m) \in Nodes(t)
  <2> SUFFICES ASSUME NEW m \in 0..n PROVE First(a, m) \in Nodes(t)
    OBVIOUS
  <2>1. \A i \in 1..n : Bit(a, i - 1) = Bit(t[j].prefix, i - 1)
    BY <1>5 DEF First
  <2>2. \A i \in 1..m : i \in 1..n
    OBVIOUS
  <2>3. First(a, m) = First(t[j].prefix, m)
    BY <2>1, <2>2 DEF First
  <2> QED
    BY <1>3, <2>3, PathNodes
<1>10. ASSUME NEW x \in {0, 1}, Append(First(a, n), x) \in Nodes(t) PROVE FALSE
  <2> DEFINE s == First(a, n)
  <2>0. PICK i \in DOMAIN t : \E m \in 0..MaskLength(t[i].mask) : Append(s, x) = First(t[i].prefix, m)
    <3>1. \A node : node \in Nodes(t) <=>
            \E i \in DOMAIN t : \E m \in 0..MaskLength(t[i].mask) : node = First(t[i].prefix, m)
      BY PathNodes
    <3> HIDE DEF s
    <3>2. Append(s, x) \in Nodes(t)
      BY <1>10 DEF s
    <3> QED
      BY <3>1, <3>2, Zenon
  <2>1. PICK m \in 0..MaskLength(t[i].mask) : Append(s, x) = First(t[i].prefix, m)
    BY <2>0
  <2>2. MaskLength(t[i].mask) \in 0..W-1 /\ t[i].prefix \in Int
    <3>1. MaskLength(t[i].mask) \in 0..W-1
      BY LeadingFinite
    <3> QED
      BY <3>1 DEF Numbers
  <2>3. m \in Nat /\ m <= W
    <3>1. m <= MaskLength(t[i].mask) /\ m \in Int /\ m >= 0
      BY <2>2
    <3> QED
      BY <2>2, <3>1, WIsNat
  <2>4. Len(First(t[i].prefix, m)) = m
    BY <2>2, <2>3, FirstIsPath
  <2>5. Len(Append(s, x)) = n + 1 /\ \A b \in 1..n : Append(s, x)[b] = s[b]
    <3>1. s \in Seq({0, 1}) /\ Len(s) = n
      BY <1>7
    <3> HIDE DEF s
    <3> QED
      BY <1>6, <3>1
  <2>6. m = n + 1
    BY <2>1, <2>4, <2>5
  <2>7. \A b \in 1..n : First(t[i].prefix, m)[b] = Bit(t[i].prefix, b - 1)
    BY <1>6, <2>6 DEF First
  <2>8. \A b \in 1..n : Bit(t[i].prefix, b - 1) = Bit(a, b - 1)
    BY <1>7, <2>1, <2>5, <2>7
  <2>9. First(t[i].prefix, n) = First(a, n)
    BY <2>8 DEF First
  <2>10. i = j
    BY <1>6, <1>8, <2>2, <2>6, <2>9
  <2> QED
    BY <1>3, <1>6, <2>6, <2>10
<1>11. PICK walk : IsWalk(walk, t, a, W) /\ FindIn(t, a) = Data(t, walk[W])
  BY FindInIs
<1>12. walk[W] = First(a, n)
  BY <1>9, <1>10, <1>11, WalkArrives
<1>13. First(a, n) # << >>
  BY <1>6, <1>7
<1> DEFINE node == First(a, n)
           there == {i \in DOMAIN t : Path(t[i]) = node}
<1>14. there = {j}
  <2>1. Path(t[j]) = node
    BY <1>3, <1>5, PathNodes
  <2>2. ASSUME NEW i \in DOMAIN t, Path(t[i]) = node PROVE i = j
    <3>1. MaskLength(t[i].mask) = n /\ First(t[i].prefix, n) = node
      BY <1>7, <2>2, PathNodes
    <3>2. MaskLength(t[i].mask) >= n
      BY <1>6, <3>1
    <3> QED
      BY <1>8, <3>1, <3>2
  <2> QED
    BY <2>1, <2>2
<1>15. (CHOOSE i \in there : \A l \in there : l <= i) = j
  <2> HIDE DEF there
  <2>1. j <= j
    OBVIOUS
  <2> QED
    BY <1>14, <2>1
<1>16. Data(t, node) = IF node = << >> \/ there = {} THEN NoEntry
                       ELSE t[CHOOSE i \in there : \A l \in there : l <= i]
  BY DEF Data
<1> HIDE DEF node, there
<1> QED
  BY <1>11, <1>12, <1>13, <1>14, <1>15, <1>16 DEF node

\* Whatever else is in the table, an address in a network of whole octets that
\* no other entry lies within gets the network's entry, though the walk goes by
\* bits in memory order and may turn to a 0 for a 1 (trie.h:46-93).
THEOREM LookupFinds == Spec => []LookupFindsEntry
<1>1. rt \in Tables => LookupFindsEntry
  <2> SUFFICES ASSUME rt \in Tables, NEW j \in DOMAIN rt, Network(rt[j]), Alone(rt, j),
                      NEW a \in Addr \ {0}, Matches(rt[j], a)
               PROVE  findBestEntry(a) = rt[j]
    BY DEF LookupFindsEntry
  <2>1. a \in Addr /\ a \in Int /\ a # 0
    BY PowerPositive, WIsNat DEF Addr
  <2>2. findBestEntry(a) = FindIn(rt, a)
    BY <2>1 DEF findBestEntry, Entries
  <2>3. Numbers(rt) /\ DOMAIN rt \subseteq Int
    <3>1. PICK file \in Files : rt = parseRTable(file)
      BY DEF Tables
    <3>2. file \in Seq(Line)
      BY TrieRouterAssumption
    <3>3. DOMAIN file = 1..Len(file) /\ \A k \in DOMAIN file : file[k] \in Line
      BY <3>2
    <3>4. DOMAIN rt = DOMAIN file /\ \A k \in DOMAIN rt : rt[k] = Parsed(file[k])
      BY <3>1 DEF parseRTable
    <3> QED
      BY <3>3, <3>4, ParsedNumbers DEF Numbers
  <2>4. FindIn(rt, a) = rt[j]
    <3>1. PICK t : t = rt
      OBVIOUS
    <3>2. FindIn(t, a) = t[j]
      BY <2>1, <2>3, <3>1, TrieFinds
    <3> QED
      BY <3>1, <3>2
  <2> QED
    BY <2>2, <2>4
<1>2. TypeOK => LookupFindsEntry
  BY <1>1 DEF TypeOK
<1> QED
  BY <1>2, TypesKept, PTL
=============================================================================
