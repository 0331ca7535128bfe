---------------------------- MODULE PubSubProofs ----------------------------
(***************************************************************************)
(* Theorems about PubSub, for any processes, ids, topics and bounds.  The  *)
(* inductive invariant is IInv: the types, that what select reported stays *)
(* ready, the agreement of the descriptor tables and of the session tables.*)
(* On it rest AInv and OInv, of which the promises about messages follow:  *)
(* nobody gets what was not asked for, or out of order, or twice.          *)
(***************************************************************************)
EXTENDS PubSub, TLAPS

USE DEF sockTcp, sockUDP, NoFd, FirstFd

(***************************************************************************)
(* The sequences and tables the model is built from.                       *)
(***************************************************************************)

\* The places of a queue after its head was taken (the backlog).
LEMMA TailPlaces ==
  ASSUME NEW S, NEW s \in Seq(S), s # << >>
  PROVE  \A j \in DOMAIN Tail(s) : /\ j \in Nat /\ j # 0
                                   /\ j + 1 \in DOMAIN s /\ j + 1 # 1
                                   /\ Tail(s)[j] = s[j + 1]
<1>1. Len(s) \in Nat /\ Len(s) # 0 /\ DOMAIN s = 1..Len(s)
  OBVIOUS
<1>2. DOMAIN Tail(s) = 1..(Len(s) - 1)
  BY <1>1
<1> QED
  BY <1>1, <1>2

\* The places of a queue after an arrival (the backlog).
LEMMA AppendElements ==
  ASSUME NEW S, NEW s \in Seq(S), NEW e \in S
  PROVE  \A j \in DOMAIN Append(s, e) : \/ j \in DOMAIN s /\ Append(s, e)[j] = s[j]
                                        \/ j = Len(s) + 1 /\ Append(s, e)[j] = e
<1>1. /\ Len(s) \in Nat /\ DOMAIN s = 1..Len(s)
      /\ DOMAIN Append(s, e) = 1..(Len(s) + 1)
  OBVIOUS
<1>2. \A j \in 1..Len(s) : Append(s, e)[j] = s[j]
  OBVIOUS
<1>3. Append(s, e)[Len(s) + 1] = e
  OBVIOUS
<1> QED
  BY <1>1, <1>2, <1>3

\* erase(begin() + i) of server.cpp:322 leaves a vector of the same type.
LEMMA EraseAtType ==
  ASSUME NEW S, NEW s \in Seq(S), Len(s) > 0, NEW i \in Nat
  PROVE  EraseAt(s, i) \in Seq(S)
<1>1. Len(s) - 1 \in Nat
  OBVIOUS
<1>2. EraseAt(s, i) \in [1..(Len(s) - 1) -> S]
  BY DEF EraseAt
<1> QED
  BY <1>1, <1>2

\* The lists after the two commands.
LEMMA ListType ==
  ASSUME NEW subs \in Seq(Subscription), NEW id \in ClientID, NEW i \in Nat,
         NEW SF \in BOOLEAN
  PROVE  /\ Unsubscribed(subs, id, i) \in Seq(Subscription)
         /\ Subscribed(subs, id, SF) \in Seq(Subscription)
<1>1. Unsubscribed(subs, id, i) \in Seq(Subscription)
  <2>1. CASE \E j \in DOMAIN subs : subs[j].clientID = id
    <3>1. Len(subs) > 0
      BY <2>1
    <3> QED
      BY <2>1, <3>1, EraseAtType DEF Unsubscribed
  <2>2. CASE ~ \E j \in DOMAIN subs : subs[j].clientID = id
    BY <2>2 DEF Unsubscribed
  <2> QED
    BY <2>1, <2>2
<1>2. [clientID |-> id, SF |-> SF] \in Subscription
  BY DEF Subscription
<1>3. Subscribed(subs, id, SF) \in Seq(Subscription)
  BY <1>2 DEF Subscribed
<1> QED
  BY <1>1, <1>3

\* SF is a bool, also when SFInt is not initialised.
LEMMA SFOfType == \A cmd : SFOf(cmd) \subseteq BOOLEAN
  BY Zenon DEF SFOf

\* What server sends and reads do to the streams.
LEMMA ServerSendsType ==
  ASSUME s2c \in [Proc -> Seq(Line)], peer \in [Proc -> PeerState],
         NEW ps, NEW ms \in Seq(Line), ServerSends(ps, ms)
  PROVE  /\ s2c' \in [Proc -> Seq(Line)]
         /\ peer' \in [Proc -> PeerState]
         /\ \A p \in Proc : Gone(p)' <=> Gone(p)
<1>1. \A p \in Proc : Stream(p, ms) \in Seq(Line)
  BY DEF Stream
<1>2. \A p \in Proc : PeerAfter(p, Len(ms)) \in PeerState
  BY DEF PeerAfter, PeerState
<1>3. s2c' \in [Proc -> Seq(Line)]
  BY <1>1 DEF ServerSends
<1>4. peer' \in [Proc -> PeerState]
  BY <1>2 DEF ServerSends
<1>5. \A p \in Proc : Gone(p)' <=> Gone(p)
  BY DEF ServerSends, Gone, PeerAfter
<1> QED
  BY <1>3, <1>4, <1>5

LEMMA ServerReadsType ==
  ASSUME c2s \in [Proc -> Seq(Segment)], NEW p, NEW k, ServerReads(p, k)
  PROVE  /\ c2s' \in [Proc -> Seq(Segment)]
         /\ \A q \in Proc : q # p => c2s'[q] = c2s[q]
         /\ p \in Proc => SubSeq(c2s[p], 1, k) \in Seq(Segment)
<1>1. p \in Proc => k \in Nat /\ k <= Len(c2s[p])
  BY DEF ServerReads
<1>2. p \in Proc => SubSeq(c2s[p], k + 1, Len(c2s[p])) \in Seq(Segment)
  BY <1>1
<1>3. p \in Proc => SubSeq(c2s[p], 1, k) \in Seq(Segment)
  BY <1>1
<1> QED
  BY <1>2, <1>3 DEF ServerReads

LEMMA ClientClosesType ==
  ASSUME s2c \in [Proc -> Seq(Line)], peer \in [Proc -> PeerState],
         NEW p \in Proc, NEW unread, ClientCloses(p, unread)
  PROVE  /\ s2c' \in [Proc -> Seq(Line)]
         /\ peer' \in [Proc -> PeerState]
         /\ Gone(p)'
         /\ \A q \in Proc : Gone(q) => Gone(q)'
  BY DEF ClientCloses, PeerState, Gone

(***************************************************************************)
(* Type correctness.                                                       *)
(***************************************************************************)

LEMMA TypeInit == Init => TypeOK
<1> SUFFICES ASSUME Init PROVE TypeOK
  OBVIOUS
<1> USE DEF Init, TcpInit, SubInit, SrvInit
<1>1. /\ c2s \in [Proc -> Seq(Segment)] /\ s2c \in [Proc -> Seq(Line)]
      /\ peer \in [Proc -> PeerState] /\ backlog \in Seq(Proc)
      /\ pstate \in [Proc -> ProcState]
      /\ printed \in [Proc -> Seq(News)] /\ typed \in [Proc -> Seq(Command)]
  BY DEF PeerState, ProcState
<1>2. clientsConnected \in [DOMAIN clientsConnected -> ClientID] /\ DOMAIN clientsConnected = {}
  OBVIOUS
<1>3. subscribers \in [DOMAIN subscribers -> Record] /\ DOMAIN subscribers = {}
  OBVIOUS
<1> QED
  BY <1>1, <1>2, <1>3 DEF TypeOK

LEMMA TypeStep == IInv /\ [Next]_vars => TypeOK'
<1> SUFFICES ASSUME TypeOK, ReportedStaysReady, DescriptorsAgree, [Next]_vars
             PROVE  TypeOK'
  BY DEF IInv
<1> USE DEF TypeOK
<1>1. CASE Select
  BY <1>1 DEF Select, ReadyFds, tcpVars, subVars, pubVars
<1>2. CASE HandleUdp
  <2> DEFINE m == Head(udp)
             news == [kind |-> "news", n |-> m.n, topic |-> m.topic]
             subs == IF m.valid THEN topics[m.topic] ELSE << >>
  <2>1. udp # << >> /\ m \in Datagram
    BY <1>2 DEF HandleUdp, Serving, ReportedStaysReady
  <2>2. news \in News /\ news \in Line /\ <<news>> \in Seq(Line)
    BY <2>1 DEF News, Datagram, Line
  <2>3. udp' \in Seq(Datagram)
    BY <1>2, <2>1 DEF HandleUdp
  <2>4. s2c' \in [Proc -> Seq(Line)] /\ peer' \in [Proc -> PeerState]
    BY <1>2, <2>2, ServerSendsType DEF HandleUdp
  <2>5. subscribers' \in [DOMAIN subscribers' -> Record] /\ DOMAIN subscribers' \subseteq ClientID
    <3>1. CASE UNCHANGED subscribers
      BY <3>1
    <3>2. CASE subscribers' = [id \in DOMAIN subscribers |->
                 IF StoreFor(subs, id)
                   THEN [subscribers[id] EXCEPT !.packets = Append(@, news)]
                   ELSE subscribers[id]]
      <4>1. ASSUME NEW id \in DOMAIN subscribers
            PROVE  [subscribers[id] EXCEPT !.packets = Append(@, news)] \in Record
        <5>1. subscribers[id] \in Record
          OBVIOUS
        <5>2. Append(subscribers[id].packets, news) \in Seq(News)
          BY <2>2, <5>1 DEF Record
        <5> QED
          BY <5>1, <5>2 DEF Record
      <4> QED
        BY <3>2, <4>1
    <3> QED
      BY <1>2, <3>1, <3>2 DEF HandleUdp, Die
  <2> QED
    BY <1>2, <2>3, <2>4, <2>5 DEF HandleUdp, Serving, Die, subVars
<1>3. CASE Accept
  <2>1. backlog # << >> /\ Head(backlog) \in Proc /\ backlog' \in Seq(Proc)
    BY <1>3 DEF Accept, Serving, ReportedStaysReady
  <2> QED
    BY <1>3, <2>1 DEF Accept, Serving, Die, subVars, tcpVars
<1>4. CASE RecvId
  <2>1. newsockFd \in Fd /\ sock[newsockFd] \in Proc
    BY <1>4 DEF RecvId, DescriptorsAgree
  <2> DEFINE p == sock[newsockFd]
  <2>2. PICK k \in IdLengths(p) :
          /\ ServerReads(p, k)
          /\ Refuse(SubSeq(c2s[p], 1, k)) \/ Welcome(SubSeq(c2s[p], 1, k))
    BY <1>4 DEF RecvId
  <2> DEFINE id == SubSeq(c2s[p], 1, k)
  <2>3. id \in ClientID /\ c2s' \in [Proc -> Seq(Segment)]
    BY <2>1, <2>2, ServerReadsType DEF ClientID
  <2>4. Packets(id) \in Seq(Line)
    <3>1. Packets(id) \in Seq(News)
      BY DEF Packets, Record
    <3> QED
      BY <3>1 DEF Line
  <2>5. <<IdExists>> \in Seq(Line)
    BY DEF Line
  <2>6. s2c' \in [Proc -> Seq(Line)] /\ peer' \in [Proc -> PeerState]
    BY <2>2, <2>4, <2>5, ServerSendsType DEF Refuse, Welcome
  <2>7. /\ clientsConnected' \in [DOMAIN clientsConnected' -> ClientID]
        /\ DOMAIN clientsConnected' \subseteq Fd
    <3>1. CASE UNCHANGED clientsConnected
      BY <3>1
    <3>2. CASE clientsConnected' = Put(clientsConnected, newsockFd, id)
      BY <2>1, <2>3, <3>2 DEF Put
    <3> QED
      BY <2>2, <3>1, <3>2 DEF Refuse, Welcome
  <2>8. /\ subscribers' \in [DOMAIN subscribers' -> Record]
        /\ DOMAIN subscribers' \subseteq ClientID
    <3>1. CASE UNCHANGED subscribers
      BY <3>1
    <3>2. CASE subscribers' = Put(subscribers, id, Session(id))
      <4>1. Session(id) \in Record
        BY <2>1 DEF Session, Record
      <4> QED
        BY <2>3, <3>2, <4>1 DEF Put
    <3> QED
      BY <2>2, <3>1, <3>2 DEF Refuse, Welcome
  <2>9. up' \in {"up", "exited", "died"}
    BY <2>2 DEF Refuse, Welcome
  <2> QED
    BY <1>4, <2>3, <2>6, <2>7, <2>8, <2>9 DEF RecvId, subVars, pubVars
<1>5. ASSUME NEW i \in Fd, Disconnect(i) PROVE TypeOK'
  <2>1. c2s' \in [Proc -> Seq(Segment)]
    BY <1>5, ServerReadsType DEF Disconnect
  <2>2. /\ clientsConnected' \in [DOMAIN clientsConnected' -> ClientID]
        /\ DOMAIN clientsConnected' \subseteq Fd
    <3>1. << >> \in ClientID
      BY DEF ClientID
    <3>2. CASE clientsConnected' = Put(clientsConnected, i, << >>)
      BY <3>1, <3>2 DEF Put
    <3>3. CASE clientsConnected' = Erase(clientsConnected, i)
      BY <3>3 DEF Erase
    <3> QED
      BY <1>5, <3>2, <3>3 DEF Disconnect
  <2>3. /\ subscribers' \in [DOMAIN subscribers' -> Record]
        /\ DOMAIN subscribers' \subseteq ClientID
    <3>1. CASE UNCHANGED subscribers
      BY <3>1
    <3>2. CASE subscribers' = Disconnected(clientsConnected[i])
      <4>1. \A id \in DOMAIN subscribers :
              [subscribers[id] EXCEPT !.connected = FALSE] \in Record
        BY DEF Record
      <4> QED
        BY <3>2, <4>1 DEF Disconnected
    <3> QED
      BY <1>5, <3>1, <3>2 DEF Disconnect
  <2>4. sock' \in [Fd -> Proc \cup {NoProc}] /\ tmp_fds' \subseteq read_fds'
        /\ read_fds' \subseteq {sockTcp, sockUDP} \cup Fd
    BY <1>5 DEF Disconnect, Serving
  <2> QED
    BY <1>5, <2>1, <2>2, <2>3, <2>4 DEF Disconnect, Serving, subVars
<1>6. ASSUME NEW i \in Fd, RecvFails(i) PROVE TypeOK'
  <2>1. c2s' \in [Proc -> Seq(Segment)]
    BY <1>6, ServerReadsType DEF RecvFails
  <2> QED
    BY <1>6, <2>1 DEF RecvFails, Serving, Die, subVars
<1>7. ASSUME NEW i \in Fd, HandleCommand(i) PROVE TypeOK'
  <2>1. c2s' \in [Proc -> Seq(Segment)]
    BY <1>7, ServerReadsType DEF HandleCommand
  <2>2. topics' \in [Topic -> Seq(Subscription)]
    <3> DEFINE cmd == Head(c2s[sock[i]])
               id == clientsConnected[i]
    <3>1. CASE UNCHANGED topics
      BY <3>1
    <3>2. CASE /\ i \in DOMAIN clientsConnected
               /\ topics' = [topics EXCEPT ![cmd.topic] = Unsubscribed(@, id, i)]
      <4>1. i \in Nat /\ id \in ClientID
        BY <3>2 DEF Fd
      <4> QED
        BY <3>2, <4>1, ListType
    <3>3. CASE /\ i \in DOMAIN clientsConnected
               /\ \E SF \in SFOf(cmd) :
                    topics' = [topics EXCEPT ![cmd.topic] = Subscribed(@, id, SF)]
      <4>1. i \in Nat /\ id \in ClientID
        BY <3>3 DEF Fd
      <4>2. PICK SF \in BOOLEAN :
              topics' = [topics EXCEPT ![cmd.topic] = Subscribed(@, id, SF)]
        BY <3>3, SFOfType
      <4> QED
        BY <4>1, <4>2, ListType
    <3> QED
      BY <1>7, <3>1, <3>2, <3>3 DEF HandleCommand
  <2> QED
    BY <1>7, <2>1, <2>2 DEF HandleCommand, Serving, subVars
<1>8. CASE ServerExit
  <2>1. <<Exit>> \in Seq(Line)
    BY DEF Line
  <2>2. s2c' \in [Proc -> Seq(Line)] /\ peer' \in [Proc -> PeerState]
    BY <1>8, <2>1, ServerSendsType DEF ServerExit
  <2> QED
    BY <1>8, <2>2 DEF ServerExit, subVars, pubVars
<1>9. CASE Datagrams
  <2>1. PICK t \in Topic, valid \in BOOLEAN : Publish(t, valid)
    BY <1>9 DEF Datagrams
  <2>2. udp' \in Seq(Datagram) /\ published' \in Nat
    BY <2>1 DEF Publish, Datagram
  <2> QED
    BY <1>9, <2>2 DEF Datagrams, tcpVars, subVars, srvVars
<1>10. ASSUME NEW p \in Proc, Start(p) PROVE TypeOK'
  BY <1>10 DEF Start, Connect, ProcState, tcpVars, srvVars, pubVars
<1>11. ASSUME NEW p \in Proc, Identify(p) PROVE TypeOK'
  <2>1. IdString(Argv1[p]) \in Segment
    BY SubscriberAssumption DEF Segment
  <2>2. c2s' \in [Proc -> Seq(Segment)]
    BY <1>11, <2>1 DEF Identify, SendId
  <2> QED
    BY <1>11, <2>2 DEF Identify, SendId, ProcState, srvVars, pubVars
<1>12. ASSUME NEW p \in Proc, Read(p) PROVE TypeOK'
  <2> DEFINE line == Head(s2c[p])
  <2>1. s2c[p] # << >> /\ line \in Line
    BY <1>12 DEF Read, ReadLine
  <2>2. CASE line \in {IdExists, Exit}
    <3>1. s2c' \in [Proc -> Seq(Line)] /\ peer' \in [Proc -> PeerState]
      BY <1>12, <2>2, ClientClosesType DEF Read, ReadLine
    <3> QED
      BY <1>12, <2>2, <3>1 DEF Read, ReadLine, ProcState, srvVars, pubVars
  <2>3. CASE line \notin {IdExists, Exit}
    <3>1. line \in News
      BY <2>1, <2>3 DEF Line
    <3>2. /\ s2c' = [s2c EXCEPT ![p] = Tail(s2c[p])]
          /\ printed' = [printed EXCEPT ![p] = Append(printed[p], line)]
      BY <1>12, <2>3 DEF Read, ReadLine
    <3>3. Tail(s2c[p]) \in Seq(Line) /\ Append(printed[p], line) \in Seq(News)
      BY <2>1, <3>1
    <3>4. s2c' \in [Proc -> Seq(Line)] /\ printed' \in [Proc -> Seq(News)]
      BY <3>2, <3>3
    <3> QED
      BY <1>12, <2>3, <3>4 DEF Read, ReadLine, srvVars, pubVars
  <2> QED
    BY <2>2, <2>3
<1>13. ASSUME NEW p \in Proc, Type(p) PROVE TypeOK'
  <2>1. PICK cmd \in Command : TypeCommand(p, cmd)
    BY <1>13 DEF Type
  <2>2. cmd \in Segment
    BY DEF Segment
  <2>3. c2s' \in [Proc -> Seq(Segment)] /\ typed' \in [Proc -> Seq(Command)]
    BY <2>1, <2>2 DEF TypeCommand
  <2> QED
    BY <1>13, <2>1, <2>3 DEF Type, TypeCommand, srvVars, pubVars
<1>14. ASSUME NEW p \in Proc, Quit(p) PROVE TypeOK'
  <2>1. s2c' \in [Proc -> Seq(Line)] /\ peer' \in [Proc -> PeerState]
    BY <1>14, ClientClosesType DEF Quit, Leave
  <2> QED
    BY <1>14, <2>1 DEF Quit, Leave, ProcState, srvVars, pubVars
<1>15. CASE UNCHANGED vars
  BY <1>15 DEF vars, tcpVars, subVars, srvVars, pubVars
<1> QED
  BY <1>1, <1>2, <1>3, <1>4, <1>5, <1>6, <1>7, <1>8, <1>9, <1>10, <1>11, <1>12,
     <1>13, <1>14, <1>15 DEF Next, Server

(***************************************************************************)
(* What select reported stays ready.                                       *)
(***************************************************************************)

LEMMA ReadyInit == Init => ReportedStaysReady
  BY DEF Init, SrvInit, ReportedStaysReady

\* A step that leaves the streams of the open sockets as readable as they
\* were, and reports nothing new.
LEMMA ReadyKept ==
  ASSUME ReportedStaysReady, UNCHANGED sock, tmp_fds' \subseteq tmp_fds,
         sockTcp \in tmp_fds' => backlog' # << >>,
         sockUDP \in tmp_fds' => udp' # << >>,
         \A fd \in Fd : fd \in tmp_fds' /\ Readable(sock[fd]) => Readable(sock[fd])'
  PROVE  ReportedStaysReady'
  BY DEF ReportedStaysReady

LEMMA ReadyStep == IInv /\ [Next]_vars => ReportedStaysReady'
<1> SUFFICES ASSUME TypeOK, ReportedStaysReady, DescriptorsAgree, [Next]_vars
             PROVE  ReportedStaysReady'
  BY DEF IInv
<1>0. \A fd \in Fd : fd # sockTcp /\ fd # sockUDP /\ fd # NoFd
  BY BrokerAssumption DEF Fd
<1>a. \A i \in tmp_fds \cap Fd : sock[i] \in Proc
  BY DEF ReportedStaysReady
<1>1. CASE Select
  <2>1. \A fd \in tmp_fds' \cap Fd : sock[fd] \in Proc /\ Readable(sock[fd])
    BY <1>0, <1>1 DEF Select, ReadyFds, DescriptorsAgree
  <2>2. UNCHANGED <<sock, c2s, peer, backlog, udp>>
    BY <1>1 DEF Select, tcpVars, pubVars
  <2> QED
    BY <1>0, <1>1, <2>1, <2>2
    DEF Select, ReadyFds, ReportedStaysReady, Readable, Gone
<1>2. CASE HandleUdp
  <2>1. \A p \in Proc : Gone(p)' <=> Gone(p)
    BY <1>2 DEF HandleUdp, ServerSends, Gone, PeerAfter, TypeOK
  <2>2. \A p \in Proc : Readable(p) => Readable(p)'
    BY <1>2, <2>1 DEF HandleUdp, Readable
  <2> QED
    BY <1>a, <1>2, <2>2, ReadyKept DEF HandleUdp, Serving, Die, ReportedStaysReady
<1>3. CASE Accept
  <2>1. UNCHANGED <<c2s, peer, udp>> /\ tmp_fds' = tmp_fds \ {sockTcp}
    BY <1>3 DEF Accept, Serving, tcpVars
  <2>2. \A i \in tmp_fds \cap Fd : sock'[i] = sock[i]
    BY <1>3, <1>a, BrokerAssumption DEF Accept, Free, Die, TypeOK
  <2> QED
    BY <1>0, <2>1, <2>2 DEF ReportedStaysReady, Readable, Gone
<1>4. CASE RecvId
  <2>1. newsockFd \in Fd /\ sock[newsockFd] \in Proc /\ newsockFd \notin tmp_fds
    BY <1>4 DEF RecvId, DescriptorsAgree, TypeOK
  <2> DEFINE p == sock[newsockFd]
  <2>2. \A fd \in tmp_fds \cap Fd : sock[fd] # p
    BY <1>a, <2>1, BrokerAssumption DEF DescriptorsAgree
  <2>3. PICK k \in IdLengths(p) :
          /\ ServerReads(p, k)
          /\ Refuse(SubSeq(c2s[p], 1, k)) \/ Welcome(SubSeq(c2s[p], 1, k))
    BY <1>4 DEF RecvId
  <2>4. \A q \in Proc : Gone(q)' <=> Gone(q)
    BY <2>3 DEF Refuse, Welcome, ServerSends, Gone, PeerAfter, TypeOK
  <2>5. \A q \in Proc : q # p /\ Readable(q) => Readable(q)'
    BY <2>3, <2>4 DEF ServerReads, Readable, TypeOK
  <2>6. UNCHANGED <<sock, tmp_fds, backlog, udp>>
    BY <1>4 DEF RecvId, pubVars
  <2> QED
    BY <1>a, <2>2, <2>5, <2>6, ReadyKept DEF ReportedStaysReady
<1>5. ASSUME NEW i \in Fd, Disconnect(i) \/ RecvFails(i) \/ HandleCommand(i)
      PROVE  ReportedStaysReady'
  <2>1. /\ i \in tmp_fds /\ tmp_fds' = tmp_fds \ {i}
        /\ \E k : ServerReads(sock[i], k)
        /\ UNCHANGED <<peer, backlog, udp>>
        /\ \A fd \in Fd : fd # i => sock'[fd] = sock[fd]
    BY <1>5 DEF Disconnect, RecvFails, HandleCommand, Serving, Die, TypeOK
  <2>2. \A fd \in tmp_fds \cap Fd : fd # i => sock[fd] # sock[i]
    BY <1>5, <1>a, <2>1, BrokerAssumption DEF DescriptorsAgree
  <2>3. \A q \in Proc : q # sock[i] => c2s'[q] = c2s[q]
    BY <2>1 DEF ServerReads, TypeOK
  <2> QED
    BY <1>0, <1>a, <2>1, <2>2, <2>3 DEF ReportedStaysReady, Readable, Gone
<1>6. CASE ServerExit
  BY <1>6 DEF ServerExit, ReportedStaysReady
<1>7. CASE Datagrams
  <2>1. UNCHANGED <<c2s, peer, backlog, tmp_fds, sock>>
    BY <1>7 DEF Datagrams, tcpVars, srvVars
  <2>2. udp' # << >>
    <3>1. PICK t \in Topic, valid \in BOOLEAN : Publish(t, valid)
      BY <1>7 DEF Datagrams
    <3>2. udp \in Seq(Datagram) /\ udp' = Append(udp, [n |-> published + 1, topic |-> t, valid |-> valid])
      BY <1>0, <3>1 DEF Publish, TypeOK
    <3> QED
      BY ONLY <3>2
  <2> QED
    BY <2>1, <2>2 DEF ReportedStaysReady, Readable, Gone
<1>8. ASSUME NEW p \in Proc, Start(p) \/ Identify(p) \/ Read(p) \/ Type(p) \/ Quit(p)
      PROVE  ReportedStaysReady'
  <2>1. UNCHANGED <<tmp_fds, sock, udp>>
    BY <1>8 DEF Start, Identify, Read, Type, Quit, srvVars, pubVars
  <2>2. backlog # << >> => backlog' # << >>
    BY <1>8 DEF Start, Connect, Identify, SendId, Read, ReadLine, Type, TypeCommand,
                Quit, Leave, TypeOK
  <2>3. \A q \in Proc : c2s[q] # << >> => c2s'[q] # << >>
    BY <1>8 DEF Start, Connect, tcpVars, Identify, SendId, Read, ReadLine, Type,
                TypeCommand, Quit, Leave, TypeOK
  <2>4. \A q \in Proc : Gone(q) => Gone(q)'
    BY <1>8 DEF Start, Connect, tcpVars, Identify, SendId, Read, ReadLine, Type,
                TypeCommand, Quit, Leave, ClientCloses, Gone, TypeOK, PeerState
  <2> QED
    BY <1>a, <2>1, <2>2, <2>3, <2>4, ReadyKept DEF ReportedStaysReady, Readable
<1>9. CASE UNCHANGED vars
  BY <1>9 DEF vars, tcpVars, srvVars, pubVars, ReportedStaysReady, Readable, Gone
<1> QED
  BY <1>1, <1>2, <1>3, <1>4, <1>5, <1>6, <1>7, <1>8, <1>9 DEF Next, Server

(***************************************************************************)
(* The descriptor tables agree.                                            *)
(***************************************************************************)

LEMMA DescriptorsInit == Init => DescriptorsAgree
  BY BrokerAssumption
  DEF Init, TcpInit, SubInit, SrvInit, DescriptorsAgree, Fd

\* A step of the server that opens and closes no descriptor and enters none
\* in clientsConnected, unless it is the one whose id was awaited.
LEMMA DescriptorsKept ==
  ASSUME TypeOK, DescriptorsAgree, UNCHANGED <<sock, backlog, pstate, read_fds>>,
         newsockFd' = newsockFd \/ newsockFd' = NoFd,
         tmp_fds' \subseteq tmp_fds \/ newsockFd' = NoFd,
         \/ DOMAIN clientsConnected' \subseteq DOMAIN clientsConnected
         \/ /\ newsockFd' = NoFd
            /\ \A fd \in DOMAIN clientsConnected' : sock[fd] \in Proc
  PROVE  DescriptorsAgree'
  BY DEF DescriptorsAgree, TypeOK

LEMMA DescriptorsStep == IInv /\ [Next]_vars => DescriptorsAgree'
<1> SUFFICES ASSUME TypeOK, ReportedStaysReady, DescriptorsAgree, [Next]_vars
             PROVE  DescriptorsAgree'
  BY DEF IInv
<1>0. NoFd \notin Fd
  BY BrokerAssumption DEF Fd
<1>1. CASE Select
  BY <1>1, DescriptorsKept DEF Select, subVars
<1>2. CASE HandleUdp
  BY <1>2, DescriptorsKept DEF HandleUdp, Serving, Die, subVars
<1>3. CASE Accept
  <2>1. CASE Die
    <3>1. UNCHANGED <<sock, pstate, read_fds, newsockFd, clientsConnected>>
          /\ backlog' = Tail(backlog) /\ tmp_fds' \subseteq tmp_fds
      BY <1>3, <2>1 DEF Accept, Serving, Die, subVars
    <3>2. backlog # << >>
      BY <1>3 DEF Accept, Serving, ReportedStaysReady
    <3>3. \A j \in DOMAIN backlog' : /\ j \in Nat
                                     /\ j + 1 \in DOMAIN backlog
                                     /\ backlog'[j] = backlog[j + 1]
      BY <3>1, <3>2, TailPlaces DEF TypeOK
    <3>4. \A j, k \in DOMAIN backlog' : backlog'[j] = backlog'[k] => j = k
      BY <3>3 DEF DescriptorsAgree
    <3> QED
      BY <3>1, <3>3, <3>4 DEF DescriptorsAgree, TypeOK
  <2>2. CASE ~Die
    <3>1. backlog # << >> /\ backlog' = Tail(backlog)
      BY <1>3 DEF Accept, Serving, ReportedStaysReady
    <3> DEFINE p == Head(backlog)
    <3>0. backlog \in Seq(Proc)
      BY DEF TypeOK
    <3>2. p \in Proc /\ 1 \in DOMAIN backlog /\ p = backlog[1]
      <4>1. Len(backlog) \in Nat /\ Len(backlog) # 0
        BY <3>0, <3>1
      <4> QED
        BY <3>0, <4>1
    <3>3. \A j \in DOMAIN backlog' : /\ j \in Nat /\ j + 1 # 1
                                     /\ j + 1 \in DOMAIN backlog
                                     /\ backlog'[j] = backlog[j + 1]
      BY <3>0, <3>1, TailPlaces
    <3>4. \A j, k \in DOMAIN backlog' : backlog'[j] = backlog'[k] => j = k
      BY <3>3 DEF DescriptorsAgree
    <3>5. \A j \in DOMAIN backlog' : backlog'[j] # p
      BY <3>2, <3>3 DEF DescriptorsAgree
    <3>6. PICK fd \in Fd : /\ Free(fd)
                           /\ sock' = [sock EXCEPT ![fd] = p]
                           /\ newsockFd' = fd
                           /\ read_fds' = read_fds \cup {fd}
                           /\ UNCHANGED clientsConnected
      BY <1>3, <2>2 DEF Accept
    <3>7. UNCHANGED pstate /\ tmp_fds' \subseteq tmp_fds
      BY <1>3 DEF Accept, Serving, subVars
    <3>8. fd \notin read_fds /\ fd \notin DOMAIN clientsConnected
      BY <3>6, BrokerAssumption DEF Free, DescriptorsAgree
    <3>9. /\ \A g \in Fd : g \in read_fds' <=> sock'[g] \in Proc
          /\ \A g \in DOMAIN clientsConnected' : sock'[g] \in Proc
      BY <3>2, <3>6, <3>8 DEF DescriptorsAgree, TypeOK
    <3>10. \A f, g \in Fd : sock'[f] = sock'[g] => f = g \/ sock'[f] = NoProc
      BY <3>2, <3>6 DEF DescriptorsAgree, TypeOK
    <3>11. \A j \in DOMAIN backlog', g \in Fd : sock'[g] # backlog'[j]
      BY <3>3, <3>5, <3>6 DEF DescriptorsAgree, TypeOK
    <3>12. /\ \A j \in DOMAIN backlog' : pstate'[backlog'[j]] # "new"
           /\ \A g \in Fd : sock'[g] \in Proc => pstate'[sock'[g]] # "new"
      <4>1. /\ \A j \in DOMAIN backlog : pstate[backlog[j]] # "new"
            /\ \A g \in Fd : sock[g] \in Proc => pstate[sock[g]] # "new"
        BY DEF DescriptorsAgree
      <4>2. pstate[p] # "new"
        BY <3>2, <4>1
      <4>3. \A g \in Fd : sock'[g] = p \/ sock'[g] = sock[g]
        BY <3>6 DEF TypeOK
      <4>4. \A j \in DOMAIN backlog' : pstate'[backlog'[j]] # "new"
        BY <3>3, <3>7, <4>1
      <4>5. \A g \in Fd : sock'[g] \in Proc => pstate'[sock'[g]] # "new"
        BY <3>7, <4>1, <4>2, <4>3
      <4> QED
        BY <4>4, <4>5
    <3>13. /\ sock'[newsockFd'] \in Proc
           /\ newsockFd' \notin tmp_fds'
           /\ newsockFd' \notin DOMAIN clientsConnected'
      BY <3>2, <3>6, <3>7, <3>8 DEF TypeOK
    <3> QED
      BY <3>4, <3>9, <3>10, <3>11, <3>12, <3>13 DEF DescriptorsAgree
  <2> QED
    BY <2>1, <2>2
<1>4. CASE RecvId
  <2>1. DOMAIN clientsConnected' \subseteq DOMAIN clientsConnected \cup {newsockFd}
    BY <1>4 DEF RecvId, Refuse, Welcome, Put
  <2>2. \A fd \in DOMAIN clientsConnected' : sock[fd] \in Proc
    BY <1>4, <2>1 DEF RecvId, DescriptorsAgree
  <2> QED
    BY <1>4, <2>2, DescriptorsKept DEF RecvId, subVars
<1>5. ASSUME NEW i \in Fd, Disconnect(i) PROVE DescriptorsAgree'
  <2>1. sock[i] \in Proc
    BY <1>5 DEF Disconnect, Serving, ReportedStaysReady
  <2>2. CASE sock' = sock
    <3>1. DOMAIN clientsConnected' \subseteq DOMAIN clientsConnected \cup {i}
      BY <1>5, <2>1, <2>2, BrokerAssumption DEF Disconnect, Put, TypeOK
    <3>2. \A fd \in DOMAIN clientsConnected' : sock[fd] \in Proc
      BY <2>1, <3>1 DEF DescriptorsAgree
    <3>3. UNCHANGED read_fds
      BY <1>5, <2>1, <2>2, BrokerAssumption DEF Disconnect, TypeOK
    <3> QED
      BY <1>5, <2>2, <3>2, <3>3, DescriptorsKept DEF Disconnect, Serving, subVars
  <2>3. CASE sock' # sock
    <3>1. /\ sock' = [sock EXCEPT ![i] = NoProc]
          /\ read_fds' = read_fds \ {i}
          /\ DOMAIN clientsConnected' = DOMAIN clientsConnected \ {i}
      BY <1>5, <2>3 DEF Disconnect, Erase
    <3>2. UNCHANGED <<backlog, pstate, newsockFd>> /\ newsockFd = NoFd
      BY <1>5 DEF Disconnect, Serving, subVars
    <3>3. /\ \A g \in Fd : g \in read_fds' <=> sock'[g] \in Proc
          /\ \A g \in DOMAIN clientsConnected' : sock'[g] \in Proc
      BY <3>1, BrokerAssumption DEF DescriptorsAgree, TypeOK
    <3>4. \A f, g \in Fd : sock'[f] = sock'[g] => f = g \/ sock'[f] = NoProc
      BY <3>1 DEF DescriptorsAgree, TypeOK
    <3>5. \A j \in DOMAIN backlog', g \in Fd : sock'[g] # backlog'[j]
      <4>1. \A j \in DOMAIN backlog : backlog[j] # NoProc
        BY BrokerAssumption DEF TypeOK
      <4> QED
        BY <3>1, <3>2, <4>1 DEF DescriptorsAgree, TypeOK
    <3>6. \A g \in Fd : sock'[g] \in Proc => pstate'[sock'[g]] # "new"
      BY <3>1, <3>2, BrokerAssumption DEF DescriptorsAgree, TypeOK
    <3> QED
      BY <3>2, <3>3, <3>4, <3>5, <3>6 DEF DescriptorsAgree
  <2> QED
    BY <2>2, <2>3
<1>6. ASSUME NEW i \in Fd, RecvFails(i) PROVE DescriptorsAgree'
  BY <1>6, DescriptorsKept DEF RecvFails, Serving, Die, subVars
<1>7. ASSUME NEW i \in Fd, HandleCommand(i) PROVE DescriptorsAgree'
  BY <1>7, DescriptorsKept DEF HandleCommand, Serving, subVars
<1>8. CASE ServerExit
  BY <1>8, DescriptorsKept DEF ServerExit, subVars
<1>9. CASE Datagrams
  BY <1>9, DescriptorsKept DEF Datagrams, subVars, srvVars
<1>10. ASSUME NEW p \in Proc, Start(p) PROVE DescriptorsAgree'
  <2>1. /\ UNCHANGED <<sock, read_fds, tmp_fds, newsockFd, clientsConnected>>
        /\ pstate[p] = "new" /\ pstate' = [pstate EXCEPT ![p] = "connected"]
        /\ backlog' = Append(backlog, p)
    BY <1>10 DEF Start, Connect, srvVars
  <2>2. \A j \in DOMAIN backlog' : \/ j \in DOMAIN backlog /\ backlog'[j] = backlog[j]
                                   \/ j = Len(backlog) + 1 /\ backlog'[j] = p
    <3>1. backlog \in Seq(Proc)
      BY DEF TypeOK
    <3> QED
      BY <2>1, <3>1, AppendElements
  <2>3. \A j \in DOMAIN backlog : backlog[j] # p /\ backlog[j] \in Proc
    BY <2>1 DEF DescriptorsAgree, TypeOK
  <2>4. \A fd \in Fd : sock[fd] # p
    BY <2>1 DEF DescriptorsAgree
  <2>5. \A j, k \in DOMAIN backlog' : backlog'[j] = backlog'[k] => j = k
    BY <2>2, <2>3 DEF DescriptorsAgree
  <2>6. \A j \in DOMAIN backlog', fd \in Fd : sock'[fd] # backlog'[j]
    BY <2>1, <2>2, <2>4 DEF DescriptorsAgree
  <2>7. /\ \A j \in DOMAIN backlog' : pstate'[backlog'[j]] # "new"
        /\ \A fd \in Fd : sock'[fd] \in Proc => pstate'[sock'[fd]] # "new"
    BY <2>1, <2>2, <2>3 DEF DescriptorsAgree, TypeOK
  <2> QED
    BY <2>1, <2>5, <2>6, <2>7 DEF DescriptorsAgree
<1>11. ASSUME NEW p \in Proc, Identify(p) \/ Read(p) \/ Type(p) \/ Quit(p)
       PROVE  DescriptorsAgree'
  <2>1. UNCHANGED <<sock, read_fds, tmp_fds, newsockFd, clientsConnected, backlog>>
    BY <1>11 DEF Identify, SendId, Read, ReadLine, Type, TypeCommand, Quit, Leave, srvVars
  <2>2. \A q \in Proc : pstate[q] # "new" => pstate'[q] # "new"
    BY <1>11 DEF Identify, SendId, Read, ReadLine, Type, TypeCommand, Quit, Leave, TypeOK
  <2>3. \A j \in DOMAIN backlog : backlog[j] \in Proc
    BY DEF TypeOK
  <2> QED
    BY <2>1, <2>2, <2>3 DEF DescriptorsAgree
<1>12. CASE UNCHANGED vars
  BY <1>12, DescriptorsKept DEF vars, subVars, srvVars
<1> QED
  BY <1>1, <1>2, <1>3, <1>4, <1>5, <1>6, <1>7, <1>8, <1>9, <1>10, <1>11, <1>12
  DEF Next, Server

(***************************************************************************)
(* The session tables agree.                                               *)
(***************************************************************************)

LEMMA SessionsInit == Init => SessionsAgree
  BY DEF Init, SrvInit, SessionsAgree

\* Only the session fields of the tables matter.
LEMMA SessionsKept ==
  ASSUME SessionsAgree, UNCHANGED <<clientsConnected, sock>>,
         read_fds \subseteq read_fds',
         DOMAIN subscribers' = DOMAIN subscribers,
         \A id \in DOMAIN subscribers :
           /\ subscribers'[id].connected = subscribers[id].connected
           /\ subscribers'[id].fd = subscribers[id].fd
  PROVE  SessionsAgree'
  BY DEF SessionsAgree, Connected

\* Storing a message changes no session.
LEMMA UdpKeepsSessions ==
  ASSUME TypeOK, HandleUdp
  PROVE  /\ DOMAIN subscribers' = DOMAIN subscribers
         /\ \A id \in DOMAIN subscribers :
              /\ subscribers'[id].connected = subscribers[id].connected
              /\ subscribers'[id].fd = subscribers[id].fd
<1> DEFINE m == Head(udp)
           news == [kind |-> "news", n |-> m.n, topic |-> m.topic]
           subs == IF m.valid THEN topics[m.topic] ELSE << >>
           stored(id) == [subscribers[id] EXCEPT !.packets = Append(@, news)]
<1>1. \A id \in DOMAIN subscribers :
        /\ stored(id).connected = subscribers[id].connected
        /\ stored(id).fd = subscribers[id].fd
  BY DEF TypeOK, Record
<1>2. CASE UNCHANGED subscribers
  BY <1>2
<1>3. CASE subscribers' = [id \in DOMAIN subscribers |->
             IF StoreFor(subs, id) THEN stored(id) ELSE subscribers[id]]
  <2> HIDE DEF stored, subs
  <2> QED
    BY <1>1, <1>3
<1> QED
  BY <1>2, <1>3 DEF HandleUdp, Die

LEMMA SessionsStep == IInv /\ [Next]_vars => SessionsAgree'
<1> SUFFICES ASSUME TypeOK, ReportedStaysReady, DescriptorsAgree, SessionsAgree,
                    [Next]_vars
             PROVE  SessionsAgree'
  BY DEF IInv
<1>1. CASE Select
  BY <1>1, SessionsKept DEF Select
<1>2. CASE HandleUdp
  BY <1>2, UdpKeepsSessions, SessionsKept DEF HandleUdp, Die
<1>3. CASE Accept
  <2>1. CASE Die
    BY <1>3, <2>1, SessionsKept DEF Die, Accept
  <2>2. CASE ~Die
    <3>1. PICK fd \in Fd : /\ Free(fd)
                           /\ sock' = [sock EXCEPT ![fd] = Head(backlog)]
                           /\ read_fds' = read_fds \cup {fd}
                           /\ UNCHANGED <<clientsConnected, subscribers>>
      BY <1>3, <2>2 DEF Accept
    <3>2. \A g \in Fd : sock[g] \in Proc => sock'[g] = sock[g]
      BY <3>1, BrokerAssumption DEF Free, TypeOK
    <3>3. \A g \in DOMAIN clientsConnected : g \in Fd
      BY DEF TypeOK
    <3> QED
      BY <3>1, <3>2, <3>3 DEF SessionsAgree, Connected
  <2> QED
    BY <2>1, <2>2
<1>4. CASE RecvId
  <2> DEFINE p == sock[newsockFd]
  <2>1. PICK k \in IdLengths(p) :
          Refuse(SubSeq(c2s[p], 1, k)) \/ Welcome(SubSeq(c2s[p], 1, k))
    BY <1>4 DEF RecvId
  <2> DEFINE id == SubSeq(c2s[p], 1, k)
  <2>2. UNCHANGED <<sock, read_fds>>
    BY <1>4 DEF RecvId
  <2>3. CASE Refuse(id)
    BY <2>2, <2>3, SessionsKept DEF Refuse
  <2>4. CASE Welcome(id)
    <3> DEFINE fd == newsockFd
    <3> HIDE DEF fd, id
    <3>1. fd \in Fd /\ sock[fd] \in Proc /\ fd \notin DOMAIN clientsConnected /\ fd \in read_fds
      BY <1>4 DEF RecvId, DescriptorsAgree, TypeOK, fd
    <3>2. /\ DOMAIN clientsConnected' = DOMAIN clientsConnected \cup {fd}
          /\ clientsConnected'[fd] = id
          /\ \A g \in DOMAIN clientsConnected : clientsConnected'[g] = clientsConnected[g]
      BY <2>4, <3>1 DEF Welcome, Put, fd
    <3>3. /\ DOMAIN subscribers' = DOMAIN subscribers \cup {id}
          /\ subscribers'[id].connected /\ subscribers'[id].fd = fd
          /\ \A x \in DOMAIN subscribers : x # id => subscribers'[x] = subscribers[x]
      BY <2>4 DEF Welcome, Put, Session, fd
    <3>4. \A x \in DOMAIN subscribers : subscribers[x].connected => x # id
      BY <2>4 DEF Welcome, IdInUse, Connected
    <3>5. \A g \in DOMAIN clientsConnected' : clientsConnected'[g] # << >> =>
            /\ clientsConnected'[g] \in DOMAIN subscribers'
            /\ subscribers'[clientsConnected'[g]].connected
            /\ subscribers'[clientsConnected'[g]].fd = g
      BY <3>2, <3>3, <3>4 DEF SessionsAgree, Connected
    <3>6. \A x \in DOMAIN subscribers' : subscribers'[x].connected =>
            /\ subscribers'[x].fd \in DOMAIN clientsConnected'
            /\ clientsConnected'[subscribers'[x].fd] = x
            /\ sock[subscribers'[x].fd] \in Proc /\ subscribers'[x].fd \in read_fds
      BY <3>1, <3>2, <3>3 DEF SessionsAgree
    <3> QED
      BY <2>2, <3>5, <3>6 DEF SessionsAgree, Connected
  <2> QED
    BY <2>1, <2>3, <2>4
<1>5. ASSUME NEW i \in Fd, Disconnect(i) PROVE SessionsAgree'
  <2>1. CASE i \in DOMAIN clientsConnected /\ clientsConnected[i] # << >>
    <3> DEFINE id == clientsConnected[i]
    <3>1. /\ sock' = [sock EXCEPT ![i] = NoProc] /\ read_fds' = read_fds \ {i}
          /\ DOMAIN clientsConnected' = DOMAIN clientsConnected \ {i}
          /\ \A g \in DOMAIN clientsConnected \ {i} :
               clientsConnected'[g] = clientsConnected[g]
      BY <1>5, <2>1 DEF Disconnect, Erase
    <3>2. id \in DOMAIN subscribers /\ subscribers[id].connected /\ subscribers[id].fd = i
      BY <2>1 DEF SessionsAgree, Connected
    <3>3. \A x \in DOMAIN subscribers : subscribers[x] \in [connected : BOOLEAN, fd : Fd, packets : Seq(News)]
      BY DEF TypeOK, Record
    <3>4. /\ DOMAIN subscribers' = DOMAIN subscribers
          /\ \A x \in DOMAIN subscribers : x # id => subscribers'[x] = subscribers[x]
          /\ ~ subscribers'[id].connected
      BY <1>5, <2>1, <3>2, <3>3 DEF Disconnect, Disconnected
    <3>5. \A g \in DOMAIN clientsConnected \ {i} : clientsConnected[g] # id \/ id = << >>
      BY <3>2 DEF SessionsAgree
    <3>6. \A g \in DOMAIN clientsConnected' : clientsConnected'[g] # << >> =>
            /\ clientsConnected'[g] \in DOMAIN subscribers'
            /\ subscribers'[clientsConnected'[g]].connected
            /\ subscribers'[clientsConnected'[g]].fd = g
      BY <2>1, <3>1, <3>4, <3>5 DEF SessionsAgree, Connected
    <3>7. \A x \in DOMAIN subscribers : subscribers[x].connected /\ x # id =>
            subscribers[x].fd # i /\ subscribers[x].fd \in Fd
      BY <3>3 DEF SessionsAgree
    <3>8. \A x \in DOMAIN subscribers' : subscribers'[x].connected =>
            /\ subscribers'[x].fd \in DOMAIN clientsConnected'
            /\ clientsConnected'[subscribers'[x].fd] = x
            /\ sock'[subscribers'[x].fd] \in Proc /\ subscribers'[x].fd \in read_fds'
      <4> SUFFICES ASSUME NEW x \in DOMAIN subscribers, subscribers[x].connected, x # id
                   PROVE  /\ subscribers[x].fd \in DOMAIN clientsConnected'
                          /\ clientsConnected'[subscribers[x].fd] = x
                          /\ sock'[subscribers[x].fd] \in Proc
                          /\ subscribers[x].fd \in read_fds'
        BY <3>4
      <4> DEFINE fd == subscribers[x].fd
      <4>1. fd # i /\ fd \in Fd
        BY <3>7
      <4>2. /\ fd \in DOMAIN clientsConnected /\ clientsConnected[fd] = x
            /\ sock[fd] \in Proc /\ fd \in read_fds
        BY DEF SessionsAgree
      <4>3. sock'[fd] = sock[fd]
        BY <3>1, <4>1 DEF TypeOK
      <4> QED
        BY <3>1, <4>1, <4>2, <4>3
    <3> QED
      BY <3>6, <3>8 DEF SessionsAgree, Connected
  <2>2. CASE ~(i \in DOMAIN clientsConnected /\ clientsConnected[i] # << >>)
    <3>1. /\ UNCHANGED <<subscribers, sock, read_fds>>
          /\ DOMAIN clientsConnected' = DOMAIN clientsConnected \cup {i}
          /\ clientsConnected'[i] = << >>
          /\ \A g \in DOMAIN clientsConnected : g # i => clientsConnected'[g] = clientsConnected[g]
      BY <1>5, <2>2 DEF Disconnect, Put
    <3>2. i \in DOMAIN clientsConnected => clientsConnected[i] = << >>
      BY <2>2
    <3> QED
      BY <3>1, <3>2 DEF SessionsAgree, Connected
  <2> QED
    BY <2>1, <2>2
<1>6. ASSUME NEW i \in Fd, RecvFails(i) PROVE SessionsAgree'
  BY <1>6, SessionsKept DEF RecvFails, Die
<1>7. ASSUME NEW i \in Fd, HandleCommand(i) PROVE SessionsAgree'
  BY <1>7, SessionsKept DEF HandleCommand
<1>8. CASE ServerExit
  BY <1>8, SessionsKept DEF ServerExit
<1>9. CASE Datagrams
  BY <1>9, SessionsKept DEF Datagrams, srvVars
<1>10. ASSUME NEW p \in Proc, Start(p) \/ Identify(p) \/ Read(p) \/ Type(p) \/ Quit(p)
       PROVE  SessionsAgree'
  BY <1>10, SessionsKept DEF Start, Identify, Read, Type, Quit, srvVars
<1>11. CASE UNCHANGED vars
  BY <1>11, SessionsKept DEF vars, srvVars
<1> QED
  BY <1>1, <1>2, <1>3, <1>4, <1>5, <1>6, <1>7, <1>8, <1>9, <1>10, <1>11
  DEF Next, Server

(***************************************************************************)
(* The theorems.                                                           *)
(***************************************************************************)

\* The invariant is inductive and holds in every reachable state.
LEMMA Invariant == Spec => []IInv
<1>1. Init => IInv
  BY TypeInit, ReadyInit, DescriptorsInit, SessionsInit DEF IInv
<1>2. IInv /\ [Next]_vars => IInv'
  BY TypeStep, ReadyStep, DescriptorsStep, SessionsStep DEF IInv
<1> QED
  BY <1>1, <1>2, PTL DEF Spec

\* The tables, descriptor sets and streams of server.cpp and subscriber.cpp
\* keep their types.
THEOREM TypeCorrect == Spec => []TypeOK
<1>1. IInv => TypeOK
  BY DEF IInv
<1> QED
  BY <1>1, Invariant, PTL

\* No id ever has two sessions, and the descriptor of a session is the one
\* its subscriber's record names: the refusal at server.cpp:244 and the
\* clean-up at server.cpp:288-302 are enough, whatever clients do.
THEOREM SessionsSafe == Spec => []SessionsAgree
<1>1. IInv => SessionsAgree
  BY DEF IInv
<1> QED
  BY <1>1, Invariant, PTL

\* Serving one descriptor never takes away what select reported of another:
\* accept, recvfrom and recv on a reported descriptor (server.cpp:227, 188,
\* 286) find something.  The recv of the id of the client just accepted
\* (server.cpp:239) is not among them, and blocks.
THEOREM ReportedIsReady == Spec => []ReportedStaysReady
<1>1. IInv => ReportedStaysReady
  BY DEF IInv
<1> QED
  BY <1>1, Invariant, PTL

\* The descriptors open in the server are exactly those it watches, at most one
\* per process, and none in its tables is closed: the one a refused client
\* keeps (server.cpp:244-252) is counted, and close (server.cpp:299) never
\* leaves an entry behind.
THEOREM DescriptorsCounted == Spec => []DescriptorsAgree
<1>1. IInv => DescriptorsAgree
  BY DEF IInv
<1> QED
  BY <1>1, Invariant, PTL

(***************************************************************************)
(* The broker implements the registry of ids.                              *)
(***************************************************************************)

left == {p \in Proc : Gone(p)}
open == up = "up"

LEMMA HolderFacts ==
  ASSUME TypeOK, SessionsAgree, NEW a \in Id
  PROVE  LET id == <<IdString(a)>>
         IN  /\ Connected(id) => /\ Holder[a] = sock[subscribers[id].fd]
                                 /\ Holder[a] \in Proc
                                 /\ subscribers[id].fd \in Fd
                                 /\ clientsConnected[subscribers[id].fd] = id
                                 /\ subscribers[id].fd \in DOMAIN clientsConnected
             /\ ~Connected(id) => Holder[a] = NoProc
  BY DEF Holder, SessionsAgree, Connected, TypeOK, Record

\* A step that changes no session of an id keeps the registry's holders.
LEMMA HolderKept ==
  ASSUME \A a \in Id :
           LET id == <<IdString(a)>>
           IN  /\ Connected(id)' <=> Connected(id)
               /\ Connected(id) => sock'[subscribers'[id].fd] = sock[subscribers[id].fd]
  PROVE  UNCHANGED Holder
  BY DEF Holder

LEMMA SendsKeepLeft ==
  ASSUME TypeOK, NEW ps, NEW ms, ServerSends(ps, ms)
  PROVE  UNCHANGED left
  BY DEF TypeOK, ServerSends, left, Gone, PeerAfter

LEMMA RegistryInit == Init => Registry!Init
  BY DEF Init, TcpInit, SrvInit, Registry!Init, Holder, Connected, Gone

\* Welcoming a client that came with its id alone grants the id.
LEMMA WelcomeGrants ==
  ASSUME IInv, RecvId, NEW id, Welcome(id)
  PROVE  \/ UNCHANGED Holder
         \/ \E a \in Id, c \in Proc : /\ Holder[a] = NoProc
                                      /\ \A m \in Id : Holder[m] # c
                                      /\ Holder' = [Holder EXCEPT ![a] = c]
<1> USE DEF IInv
<1>1. /\ newsockFd \in Fd /\ sock[newsockFd] \in Proc
      /\ newsockFd \notin DOMAIN clientsConnected /\ UNCHANGED sock
  BY DEF RecvId, DescriptorsAgree, TypeOK
<1>2. /\ id \in DOMAIN subscribers' /\ subscribers'[id].connected
      /\ subscribers'[id].fd = newsockFd
      /\ \A x : x # id => /\ x \in DOMAIN subscribers' <=> x \in DOMAIN subscribers
                          /\ x \in DOMAIN subscribers => subscribers'[x] = subscribers[x]
  BY DEF Welcome, Put, Session
<1>3. ~Connected(id)
  BY DEF Welcome, IdInUse
<1>4. CASE \A a \in Id : id # <<IdString(a)>>
  BY <1>1, <1>2, <1>4, HolderKept DEF Connected
<1>5. ASSUME NEW a \in Id, id = <<IdString(a)>>
      PROVE  /\ Holder[a] = NoProc
             /\ \A m \in Id : Holder[m] # sock[newsockFd]
             /\ Holder' = [Holder EXCEPT ![a] = sock[newsockFd]]
  <2>1. Holder[a] = NoProc
    BY <1>3, <1>5, HolderFacts
  <2>2. \A m \in Id : Holder[m] # sock[newsockFd]
    <3> TAKE m \in Id
    <3>1. CASE Connected(<<IdString(m)>>)
      <4> DEFINE fd == subscribers[<<IdString(m)>>].fd
      <4>1. Holder[m] = sock[fd] /\ fd \in Fd /\ fd # newsockFd
        BY <1>1, <3>1, HolderFacts
      <4> QED
        BY <1>1, <4>1, BrokerAssumption DEF DescriptorsAgree
    <3>2. CASE ~Connected(<<IdString(m)>>)
      BY <1>1, <3>2, HolderFacts, BrokerAssumption
    <3> QED
      BY <3>1, <3>2
  <2>3. \A m \in Id : m # a => <<IdString(m)>> # id
    BY <1>5 DEF IdString
  <2>4. \A m \in Id : Holder'[m] = IF m = a THEN sock[newsockFd] ELSE Holder[m]
    <3> SUFFICES ASSUME NEW m \in Id
                 PROVE  Holder'[m] = IF m = a THEN sock[newsockFd] ELSE Holder[m]
      OBVIOUS
    <3>1. CASE m = a
      BY <1>1, <1>2, <1>5, <3>1 DEF Holder, Connected
    <3>2. CASE m # a
      BY <1>1, <1>2, <2>3, <3>2 DEF Holder, Connected
    <3> QED
      BY <3>1, <3>2
  <2> QED
    BY <2>1, <2>2, <2>4 DEF Holder
<1> QED
  BY <1>1, <1>4, <1>5

LEMMA RegistryStep == IInv /\ [Next]_vars => [Registry!Next]_(Registry!vars)
<1> SUFFICES ASSUME IInv, [Next]_vars
             PROVE  \/ UNCHANGED <<Holder, left, open>>
                    \/ Registry!Next
  BY DEF Registry!vars, left, open
<1> USE DEF IInv, open
<1>0. ASSUME up = "up", up' # "up", UNCHANGED Holder, UNCHANGED left
      PROVE  Registry!Next
  BY <1>0 DEF Registry!Next, Registry!Stop, left
<1>1. CASE Select
  BY <1>1, HolderKept DEF Select, tcpVars, left, Gone, Connected
<1>2. CASE HandleUdp
  <2>1. UNCHANGED left
    BY <1>2, SendsKeepLeft DEF HandleUdp
  <2>2. UNCHANGED Holder
    <3>1. UNCHANGED sock
      BY <1>2 DEF HandleUdp, Die
    <3>2. /\ DOMAIN subscribers' = DOMAIN subscribers
          /\ \A id \in DOMAIN subscribers :
               /\ subscribers'[id].connected = subscribers[id].connected
               /\ subscribers'[id].fd = subscribers[id].fd
      BY <1>2, UdpKeepsSessions
    <3> QED
      BY <3>1, <3>2, HolderKept DEF Connected
  <2>3. up = "up" /\ (up' = "up" \/ up' = "died")
    BY <1>2 DEF HandleUdp, Serving, Die
  <2> QED
    BY <1>0, <2>1, <2>2, <2>3
<1>3. CASE Accept
  <2>1. UNCHANGED <<left, subscribers>>
    BY <1>3 DEF Accept, tcpVars, left, Gone, Die
  <2>2. \A fd \in Fd : sock[fd] \in Proc => sock'[fd] = sock[fd]
    BY <1>3, BrokerAssumption DEF Accept, Free, Die, TypeOK
  <2>3. UNCHANGED Holder
    BY <2>1, <2>2, HolderKept DEF Connected, SessionsAgree, TypeOK, Record
  <2>4. up = "up" /\ (up' = "up" \/ up' = "died")
    BY <1>3 DEF Accept, Serving, Die
  <2> QED
    BY <1>0, <2>1, <2>3, <2>4
<1>4. CASE RecvId
  <2>1. PICK id : Refuse(id) \/ Welcome(id)
    BY <1>4 DEF RecvId
  <2>2. UNCHANGED left
    BY <2>1, SendsKeepLeft DEF Refuse, Welcome, left, Gone
  <2>3. up = "up" /\ (up' = "up" \/ up' = "died")
    BY <1>4, <2>1 DEF RecvId, Refuse, Welcome
  <2>4. CASE Refuse(id)
    <3>1. UNCHANGED Holder
      BY <1>4, <2>4, HolderKept DEF RecvId, Refuse, Connected
    <3> QED
      BY <1>0, <2>2, <2>3, <3>1
  <2>5. CASE Welcome(id)
    <3>1. CASE UNCHANGED Holder
      BY <1>0, <2>2, <2>3, <3>1
    <3>2. CASE ~ UNCHANGED Holder
      <4>1. PICK a \in Id, c \in Proc : /\ Holder[a] = NoProc
                                        /\ \A m \in Id : Holder[m] # c
                                        /\ Holder' = [Holder EXCEPT ![a] = c]
        BY <1>4, <2>5, <3>2, WelcomeGrants
      <4>2. CASE up' = "up"
        <5>1. Registry!Grant(a, c)
          BY <2>2, <2>3, <4>1, <4>2 DEF Registry!Grant, left
        <5> QED
          BY <5>1 DEF Registry!Next
      <4>3. CASE up' = "died"
        <5>1. Registry!Stop
          BY <2>2, <2>3, <4>1, <4>3 DEF Registry!Stop, left
        <5> QED
          BY <5>1 DEF Registry!Next
      <4> QED
        BY <2>3, <4>2, <4>3
    <3> QED
      BY <3>1, <3>2
  <2> QED
    BY <2>1, <2>4, <2>5
<1>5. ASSUME NEW i \in Fd, Disconnect(i)
      PROVE  UNCHANGED <<Holder, left, open>> \/ Registry!Next
  <2>1. UNCHANGED <<left, open>> /\ up = "up" /\ sock[i] \in left
    BY <1>5 DEF Disconnect, Serving, ReportedStaysReady, left, Gone
  <2>2. CASE UNCHANGED <<subscribers, sock>>
    BY <2>1, <2>2, HolderKept DEF Connected
  <2>3. CASE i \in DOMAIN clientsConnected /\ clientsConnected[i] # << >>
    <3> DEFINE id == clientsConnected[i]
    <3>1. /\ id \in DOMAIN subscribers /\ subscribers[id].connected
          /\ subscribers[id].fd = i
      BY <2>3 DEF SessionsAgree, Connected
    <3>2. /\ DOMAIN subscribers' = DOMAIN subscribers
          /\ ~ subscribers'[id].connected
          /\ \A x \in DOMAIN subscribers : x # id => subscribers'[x] = subscribers[x]
      BY <1>5, <2>3, <3>1 DEF Disconnect, Disconnected, TypeOK, Record
    <3>3. sock' = [sock EXCEPT ![i] = NoProc]
      BY <1>5, <2>3 DEF Disconnect
    <3>4. \A a \in Id : <<IdString(a)>> # id /\ Connected(<<IdString(a)>>) =>
            subscribers[<<IdString(a)>>].fd # i /\ subscribers[<<IdString(a)>>].fd \in Fd
      BY HolderFacts
    <3>5. CASE \A a \in Id : id # <<IdString(a)>>
      <4>1. UNCHANGED Holder
        BY <3>2, <3>3, <3>4, <3>5, HolderKept DEF Connected, TypeOK
      <4> QED
        BY <2>1, <4>1
    <3>6. ASSUME NEW a \in Id, id = <<IdString(a)>> PROVE Registry!Next
      <4>1. Holder[a] = sock[i]
        BY <3>1, <3>6, HolderFacts DEF Connected
      <4>2. \A m \in Id : m # a => <<IdString(m)>> # id
        BY <3>6 DEF IdString
      <4>3. \A m \in Id : Holder'[m] = IF m = a THEN NoProc ELSE Holder[m]
        <5> SUFFICES ASSUME NEW m \in Id
                     PROVE  Holder'[m] = IF m = a THEN NoProc ELSE Holder[m]
          OBVIOUS
        <5>1. CASE m = a
          BY <3>2, <3>6, <5>1 DEF Holder, Connected
        <5>2. CASE m # a
          BY <3>2, <3>3, <3>4, <4>2, <5>2 DEF Holder, Connected, TypeOK
        <5> QED
          BY <5>1, <5>2
      <4>4. Holder' = [Holder EXCEPT ![a] = NoProc]
        BY <4>3 DEF Holder
      <4>5. Registry!Revoke(a)
        BY <2>1, <4>1, <4>4 DEF Registry!Revoke, left
      <4> QED
        BY <4>5 DEF Registry!Next
    <3> QED
      BY <3>5, <3>6
  <2> QED
    BY <1>5, <2>2, <2>3 DEF Disconnect
<1>6. ASSUME NEW i \in Fd, RecvFails(i) PROVE Registry!Next
  <2>1. UNCHANGED Holder /\ UNCHANGED left
    BY <1>6, HolderKept DEF RecvFails, Die, Connected, left, Gone
  <2> QED
    BY <1>0, <1>6, <2>1 DEF RecvFails, Serving, Die
<1>7. ASSUME NEW i \in Fd, HandleCommand(i) PROVE UNCHANGED <<Holder, left, open>>
  BY <1>7, HolderKept DEF HandleCommand, Connected, left, Gone
<1>8. CASE ServerExit
  <2>1. UNCHANGED Holder
    BY <1>8, HolderKept DEF ServerExit, Connected
  <2>2. UNCHANGED left
    BY <1>8, SendsKeepLeft DEF ServerExit
  <2> QED
    BY <1>0, <1>8, <2>1, <2>2 DEF ServerExit
<1>9. CASE Datagrams
  BY <1>9, HolderKept DEF Datagrams, tcpVars, srvVars, Connected, left, Gone
<1>10. ASSUME NEW p \in Proc, Start(p) \/ Identify(p) \/ Read(p) \/ Type(p) \/ Quit(p)
       PROVE  UNCHANGED <<Holder, left, open>> \/ Registry!Next
  <2>1. UNCHANGED Holder /\ UNCHANGED open
    BY <1>10, HolderKept DEF Start, Identify, Read, Type, Quit, srvVars, Connected
  <2>2. UNCHANGED left \/ left' = left \cup {p}
    BY <1>10 DEF Start, Connect, tcpVars, Identify, SendId, Read, ReadLine, Type,
                 TypeCommand, Quit, Leave, ClientCloses, left, Gone, TypeOK
  <2>3. CASE left' = left \cup {p}
    <3>1. Registry!Leave(p)
      BY <2>1, <2>3 DEF Registry!Leave, left
    <3> QED
      BY <3>1 DEF Registry!Next
  <2> QED
    BY <2>1, <2>2, <2>3
<1>11. CASE UNCHANGED vars
  BY <1>11, HolderKept DEF vars, tcpVars, srvVars, Connected, left, Gone
<1> QED
  BY <1>1, <1>2, <1>3, <1>4, <1>5, <1>6, <1>7, <1>8, <1>9, <1>10, <1>11
  DEF Next, Server

\* Ids are granted, kept and given up as SessionRegistry says: at most one
\* holder each, and none loses its id before it has closed its connection
\* (server.cpp:244-276, 288-302).
THEOREM RegistryImplemented == Spec => ImplementsRegistry
<1>1. Spec => Registry!Spec
  BY RegistryInit, RegistryStep, Invariant, PTL DEF Spec, Registry!Spec
<1> QED
  BY <1>1 DEF ImplementsRegistry

(***************************************************************************)
(* The store of a disconnected subscriber.                                 *)
(***************************************************************************)

\* What StoredIsHandedOver allows a step to do to the store of id: add to its
\* end, or hand all of it over to the process that got the id.
Kept(id) ==
  LET old == subscribers[id].packets
      new == subscribers'[id].packets
  IN  Len(old) <= Len(new) /\ old = SubSeq(new, 1, Len(old))
HandedOver(id) ==
  LET old == subscribers[id].packets
      p == sock'[subscribers'[id].fd]
  IN  /\ ~Connected(id) /\ subscribers'[id].connected
      /\ subscribers'[id].packets = << >>
      /\ p \in Proc /\ (Gone(p) \/ s2c'[p] = s2c[p] \o old)

\* A vector of packets is its own prefix, also after a push_back.
LEMMA PrefixKept ==
  ASSUME NEW S, NEW s \in Seq(S), NEW e \in S
  PROVE  /\ Len(s) <= Len(s) /\ s = SubSeq(s, 1, Len(s))
         /\ Len(s) <= Len(Append(s, e)) /\ s = SubSeq(Append(s, e), 1, Len(s))
  OBVIOUS

\* A step that leaves an entry's packets alone keeps them.
LEMMA SamePacketsKept ==
  ASSUME TypeOK, NEW id \in DOMAIN subscribers,
         subscribers'[id].packets = subscribers[id].packets
  PROVE  Kept(id)
<1>1. subscribers[id].packets \in Seq(News)
  BY DEF TypeOK, Record
<1>2. /\ Len(subscribers[id].packets) <= Len(subscribers[id].packets)
      /\ subscribers[id].packets = SubSeq(subscribers[id].packets, 1, Len(subscribers[id].packets))
  BY <1>1
<1> QED
  BY <1>2 DEF Kept

\* RecvId is the only step that takes packets out of the store
\* (server.cpp:279-283).
LEMMA StoreStep ==
  IInv /\ [Next]_vars =>
    (up' = "up" => \A id \in DOMAIN subscribers : Kept(id) \/ HandedOver(id))
<1> SUFFICES ASSUME TypeOK, ReportedStaysReady, DescriptorsAgree, [Next]_vars,
                    up' = "up", NEW id \in DOMAIN subscribers
             PROVE  Kept(id) \/ HandedOver(id)
  BY DEF IInv
<1>1. CASE UNCHANGED subscribers
  BY <1>1, SamePacketsKept
<1>2. CASE HandleUdp
  <2> DEFINE m == Head(udp)
             news == [kind |-> "news", n |-> m.n, topic |-> m.topic]
             subs == IF m.valid THEN topics[m.topic] ELSE << >>
  <2>1. udp # << >> /\ m \in Datagram
    BY <1>2 DEF HandleUdp, Serving, ReportedStaysReady, TypeOK
  <2>2. news \in News
    BY <2>1 DEF News, Datagram
  <2>3. subscribers' = [x \in DOMAIN subscribers |->
                 IF StoreFor(subs, x)
                   THEN [subscribers[x] EXCEPT !.packets = Append(@, news)]
                   ELSE subscribers[x]]
    BY <1>2 DEF HandleUdp, Die
  <2>4. subscribers[id] \in Record /\ subscribers[id].packets \in Seq(News)
    BY DEF TypeOK, Record
  <2> HIDE DEF news, subs
  <2>5. CASE StoreFor(subs, id)
    <3>1. subscribers'[id].packets = Append(subscribers[id].packets, news)
      BY <2>3, <2>4, <2>5 DEF Record
    <3> QED
      BY <2>2, <2>4, <3>1, PrefixKept DEF Kept
  <2>6. CASE ~StoreFor(subs, id)
    BY <2>3, <2>6, SamePacketsKept
  <2> QED
    BY <2>5, <2>6
<1>3. CASE RecvId
  <2>1. newsockFd \in Fd /\ sock[newsockFd] \in Proc
    BY <1>3 DEF RecvId, DescriptorsAgree, TypeOK
  <2> DEFINE p == sock[newsockFd]
  <2>2. PICK k \in IdLengths(p) :
          /\ ServerReads(p, k)
          /\ Refuse(SubSeq(c2s[p], 1, k)) \/ Welcome(SubSeq(c2s[p], 1, k))
    BY <1>3 DEF RecvId
  <2> DEFINE new == SubSeq(c2s[p], 1, k)
  <2>3. sock' = sock /\ up = "up"
    BY <1>3 DEF RecvId
  <2>4. CASE Refuse(new)
    BY <2>4, SamePacketsKept DEF Refuse
  <2>5. CASE Welcome(new)
    <3>1. /\ ~Connected(new)
          /\ subscribers' = Put(subscribers, new, Session(new))
          /\ s2c' = [q \in Proc |-> IF q \in {p} THEN Stream(q, Packets(new)) ELSE s2c[q]]
      BY <2>5 DEF Welcome, IdInUse, ServerSends
    <3>2. CASE id # new
      <4>1. subscribers'[id] = subscribers[id]
        BY <3>1, <3>2 DEF Put
      <4> QED
        BY <4>1, SamePacketsKept
    <3>3. CASE id = new
      <4>1. subscribers'[id] = Session(new)
        BY <3>1, <3>3 DEF Put
      <4>2. /\ subscribers'[id].connected /\ subscribers'[id].packets = << >>
            /\ subscribers'[id].fd = newsockFd
        BY <4>1 DEF Session
      <4>3. Gone(p) \/ s2c'[p] = s2c[p] \o subscribers[id].packets
        BY <2>1, <3>1, <3>3 DEF Stream, Packets
      <4> QED
        BY <2>1, <2>3, <3>1, <3>3, <4>2, <4>3 DEF HandedOver
    <3> QED
      BY <3>2, <3>3
  <2> QED
    BY <2>2, <2>4, <2>5
<1>4. ASSUME NEW i \in Fd, Disconnect(i) PROVE Kept(id)
  <2>1. \/ UNCHANGED subscribers
        \/ subscribers' = Disconnected(clientsConnected[i])
    BY <1>4 DEF Disconnect
  <2>2. subscribers[id] \in Record
    BY DEF TypeOK
  <2>3. subscribers'[id].packets = subscribers[id].packets
    BY <2>1, <2>2 DEF Disconnected, Record
  <2> QED
    BY <2>3, SamePacketsKept
<1>5. ASSUME NEW i \in Fd, RecvFails(i) \/ HandleCommand(i) PROVE UNCHANGED subscribers
  BY <1>5 DEF RecvFails, Die, HandleCommand
<1>6. CASE Select \/ Accept \/ ServerExit \/ Datagrams
  BY <1>1, <1>6 DEF Select, Accept, Die, ServerExit, Datagrams, srvVars
<1>7. ASSUME NEW p \in Proc, Start(p) \/ Identify(p) \/ Read(p) \/ Type(p) \/ Quit(p)
      PROVE  UNCHANGED subscribers
  BY <1>7 DEF Start, Identify, Read, Type, Quit, srvVars
<1>8. CASE UNCHANGED vars
  BY <1>1, <1>8 DEF vars, srvVars
<1> QED
  BY <1>1, <1>2, <1>3, <1>4, <1>5, <1>6, <1>7, <1>8 DEF Next, Server

\* No stored message is lost to its subscriber: the store of an id only grows
\* at its end, until all of it is written to the process that connects with
\* the id (server.cpp:215-217, 279-283).
THEOREM StoreHandedOver == Spec => StoredIsHandedOver
<1>1. IInv /\ [Next]_vars =>
        [up' = "up" => \A id \in DOMAIN subscribers :
           LET old == subscribers[id].packets
               p == sock'[subscribers'[id].fd]
           IN  \/ /\ Len(old) <= Len(subscribers'[id].packets)
                  /\ old = SubSeq(subscribers'[id].packets, 1, Len(old))
               \/ /\ ~Connected(id) /\ subscribers'[id].connected
                  /\ subscribers'[id].packets = << >>
                  /\ p \in Proc /\ (Gone(p) \/ s2c'[p] = s2c[p] \o old)]_vars
  BY StoreStep DEF Kept, HandedOver
<1> QED
  BY <1>1, Invariant, PTL DEF Spec, StoredIsHandedOver

(***************************************************************************)
(* Where a topic was asked for: AInv is inductive, given IInv.             *)
(***************************************************************************)

\* Commands are only ever added to what was typed.
LEMMA AskedStaysAsked ==
  ASSUME TypeOK, [Next]_vars
  PROVE  \A id, t : Asked(typed, id, t) => Asked(typed', id, t)
<1>1. ASSUME NEW q \in Proc, NEW k \in DOMAIN typed[q]
      PROVE  k \in DOMAIN typed'[q] /\ typed'[q][k] = typed[q][k]
  <2>1. CASE UNCHANGED typed
    BY <2>1
  <2>2. CASE \E p \in Proc, cmd \in Command : TypeCommand(p, cmd)
    <3>1. PICK p \in Proc, cmd \in Command : TypeCommand(p, cmd)
      BY <2>2
    <3>2. typed \in [Proc -> Seq(Command)] /\ typed' = [typed EXCEPT ![p] = Append(@, cmd)]
      BY <3>1 DEF TypeOK, TypeCommand
    <3>3. CASE q = p
      <4>1. typed'[q] = Append(typed[q], cmd) /\ typed[q] \in Seq(Command)
        BY <3>2, <3>3
      <4> QED
        BY <4>1
    <3> QED
      BY <3>2, <3>3
  <2>3. UNCHANGED typed \/ \E p \in Proc, cmd \in Command : TypeCommand(p, cmd)
    BY DEF Next, Server, Select, HandleUdp, Accept, RecvId, Disconnect, RecvFails,
           HandleCommand, Serving, ServerExit, Datagrams, Start, Connect, Identify,
           SendId, Read, ReadLine, Type, Quit, Leave, vars, subVars
  <2> QED
    BY <2>1, <2>2, <2>3
<1> QED
  BY <1>1 DEF Asked

\* recv leaves the end of the stream, and nothing in an empty one.
LEMMA ReadKeepsTail ==
  ASSUME TypeOK, NEW p \in Proc, NEW k, ServerReads(p, k)
  PROVE  /\ \A q \in Proc : c2s[q] = << >> => c2s'[q] = << >>
         /\ \A q \in Proc : q # p => c2s'[q] = c2s[q]
         /\ \A q \in Proc : \A j \in DOMAIN c2s'[q] :
              \E i \in DOMAIN c2s[q] : c2s'[q][j] = c2s[q][i]
<1>1. c2s[p] \in Seq(Segment) /\ c2s'[p] = SubSeq(c2s[p], k + 1, Len(c2s[p]))
  BY DEF TypeOK, ServerReads
<1>2. c2s[p] = << >> => k = 0
  BY DEF ServerReads
<1>3. k \in Nat
  BY <1>1 DEF ServerReads
<1>4. c2s[p] = << >> => c2s'[p] = << >>
  BY <1>1, <1>2
<1>5. \A q \in Proc : q # p => c2s'[q] = c2s[q]
  BY DEF TypeOK, ServerReads
<1>6. \A j \in DOMAIN c2s'[p] : \E i \in DOMAIN c2s[p] : c2s'[p][j] = c2s[p][i]
  <2> SUFFICES ASSUME NEW j \in DOMAIN c2s'[p]
               PROVE  k + j \in DOMAIN c2s[p] /\ c2s'[p][j] = c2s[p][k + j]
    OBVIOUS
  <2> QED
    BY <1>1, <1>3
<1> QED
  BY <1>4, <1>5, <1>6

\* recv returns nothing only at the end of the stream of a process that has gone.
LEMMA ReadCounts ==
  ASSUME TypeOK, NEW p \in Proc, NEW k, ServerReads(p, k)
  PROVE  /\ c2s[p] \in Seq(Segment) /\ k \in Nat /\ k <= Len(c2s[p])
         /\ c2s[p] = << >> => k = 0 /\ Gone(p)
         /\ c2s[p] # << >> => k # 0
<1>1. c2s[p] \in Seq(Segment)
  BY DEF TypeOK
<1> QED
  BY <1>1 DEF ServerReads

\* An id is not a command, nor does a flag of the server look like a message.
LEMMA KindsDiffer ==
  /\ \A a : IdString(a) \notin Command
  /\ IdExists \notin News /\ Exit \notin News
  /\ \A seg \in Segment : seg.op = "subscribe" => seg \in Command /\ seg.topic \in Topic
<1>1. \A a : IdString(a).op = "id"
  BY DEF IdString
<1>2. \A cmd \in Command : cmd.op \in {"subscribe", "unsubscribe"} /\ cmd.topic \in Topic
  BY DEF Command
<1>3. \A l \in News : l.kind = "news"
  BY DEF News
<1>4. IdExists.kind = "ID_EXISTS" /\ Exit.kind = "EXIT"
  BY DEF IdExists, Exit
<1> QED
  BY <1>1, <1>2, <1>3, <1>4 DEF Segment

\* A subscriber process has closed its socket when, and only when, it has ended.
LEMMA ClosedStep == IInv /\ ClosedIsGone /\ [Next]_vars => ClosedIsGone'
<1> SUFFICES ASSUME TypeOK, IInv, ClosedIsGone, [Next]_vars PROVE ClosedIsGone'
  BY DEF IInv
<1> USE DEF ClosedIsGone
<1>0. TypeOK'
  BY TypeStep
<1>1. CASE UNCHANGED <<peer, pstate>>
  BY <1>1 DEF Gone
<1>2. ASSUME UNCHANGED pstate, NEW ps, NEW ms, ServerSends(ps, ms)
      PROVE  ClosedIsGone'
  <2>1. \A p \in Proc : Gone(p)' <=> Gone(p)
    BY <1>2 DEF ServerSends, Gone, PeerAfter, TypeOK
  <2> QED
    BY <1>2, <2>1
<1>3. CASE HandleUdp
  BY <1>2, <1>3 DEF HandleUdp, Serving, subVars
<1>4. CASE RecvId
  BY <1>1, <1>2, <1>4 DEF RecvId, Refuse, Welcome, subVars
<1>5. CASE ServerExit
  BY <1>2, <1>5 DEF ServerExit, subVars
<1>6. CASE Select \/ Accept \/ Datagrams \/ UNCHANGED vars
  BY <1>1, <1>6 DEF Select, Accept, Serving, Datagrams, vars, tcpVars, subVars
<1>7. ASSUME NEW i \in Fd, Disconnect(i) \/ RecvFails(i) \/ HandleCommand(i)
      PROVE  UNCHANGED <<peer, pstate>>
  BY <1>7 DEF Disconnect, RecvFails, HandleCommand, Serving, subVars
<1>8. ASSUME NEW p \in Proc, NEW unread, ClientCloses(p, unread),
             pstate' = [pstate EXCEPT ![p] = "closed"]
      PROVE  ClosedIsGone'
  BY <1>8 DEF ClientCloses, Gone, TypeOK
<1>9. ASSUME NEW p \in Proc, Start(p) \/ Identify(p) \/ Type(p) PROVE ClosedIsGone'
  <2>1. UNCHANGED peer
    BY <1>9 DEF Start, Connect, Identify, SendId, Type, TypeCommand, tcpVars
  <2>2. \A q \in Proc : pstate'[q] = "closed" <=> pstate[q] = "closed"
    BY <1>9 DEF Start, Connect, Identify, SendId, Type, TypeCommand, TypeOK
  <2> QED
    BY <2>1, <2>2 DEF Gone
<1>10. ASSUME NEW p \in Proc, Read(p) \/ Quit(p) PROVE ClosedIsGone'
  BY <1>1, <1>8, <1>10 DEF Read, ReadLine, Quit, Leave
<1> QED
  BY <1>3, <1>4, <1>5, <1>6, <1>1, <1>7, <1>9, <1>10 DEF Next, Server

\* What waits for the server was typed: recv only shortens it.
LEMMA CommandsStep == IInv /\ CommandsTyped /\ [Next]_vars => CommandsTyped'
<1> SUFFICES ASSUME TypeOK, DescriptorsAgree, ReportedStaysReady, CommandsTyped, [Next]_vars
             PROVE  CommandsTyped'
  BY DEF IInv
<1>1. CASE UNCHANGED <<c2s, typed>>
  BY <1>1 DEF CommandsTyped
<1>2. ASSUME NEW p \in Proc, NEW k, ServerReads(p, k), UNCHANGED typed
      PROVE  CommandsTyped'
  BY <1>2, ReadKeepsTail DEF CommandsTyped
<1>3. CASE RecvId
  <2>1. sock[newsockFd] \in Proc
    BY <1>3 DEF RecvId, DescriptorsAgree
  <2> QED
    BY <1>2, <1>3, <2>1 DEF RecvId, subVars
<1>4. ASSUME NEW i \in Fd, Disconnect(i) \/ RecvFails(i) \/ HandleCommand(i)
      PROVE  CommandsTyped'
  <2>1. sock[i] \in Proc
    BY <1>4 DEF Disconnect, RecvFails, HandleCommand, Serving, ReportedStaysReady
  <2> QED
    BY <1>2, <1>4, <2>1 DEF Disconnect, RecvFails, HandleCommand, Serving, subVars
<1>5. CASE Select \/ HandleUdp \/ Accept \/ ServerExit \/ Datagrams \/ UNCHANGED vars
  BY <1>1, <1>5 DEF Select, HandleUdp, Accept, Serving, ServerExit, Datagrams, vars,
                    tcpVars, subVars
<1>6. ASSUME NEW p \in Proc, Start(p) \/ Read(p) \/ Quit(p)
      PROVE  UNCHANGED <<c2s, typed>>
  BY <1>6 DEF Start, Connect, Read, ReadLine, Quit, Leave, ClientCloses, tcpVars
<1>7. ASSUME NEW p \in Proc, NEW cmd \in Segment,
             c2s' = [c2s EXCEPT ![p] = Append(@, cmd)],
             \A q \in Proc : \A k \in DOMAIN typed[q] :
               k \in DOMAIN typed'[q] /\ typed'[q][k] = typed[q][k],
             cmd \in Command => \E k \in DOMAIN typed'[p] : typed'[p][k] = cmd
      PROVE  CommandsTyped'
  <2> SUFFICES ASSUME NEW q \in Proc, NEW j \in DOMAIN c2s'[q], c2s'[q][j] \in Command
               PROVE  \E k \in DOMAIN typed'[q] : typed'[q][k] = c2s'[q][j]
    BY DEF CommandsTyped
  <2>1. CASE j \in DOMAIN c2s[q] /\ c2s'[q][j] = c2s[q][j]
    BY <1>7, <2>1 DEF CommandsTyped
  <2>2. CASE q = p /\ c2s'[q][j] = cmd
    BY <1>7, <2>2
  <2>3. q # p => c2s'[q] = c2s[q]
    BY <1>7 DEF TypeOK
  <2>4. q = p => c2s'[q] = Append(c2s[q], cmd) /\ c2s[q] \in Seq(Segment)
    BY <1>7 DEF TypeOK
  <2>5. q = p => \/ j \in DOMAIN c2s[q] /\ c2s'[q][j] = c2s[q][j]
                 \/ c2s'[q][j] = cmd
    BY <1>7, <2>4, AppendElements
  <2> QED
    BY <2>1, <2>2, <2>3, <2>5
<1>8. ASSUME NEW p \in Proc, Identify(p) PROVE CommandsTyped'
  <2>1. IdString(Argv1[p]) \in Segment /\ IdString(Argv1[p]) \notin Command
    BY SubscriberAssumption, KindsDiffer DEF Segment
  <2> QED
    BY <1>7, <1>8, <2>1 DEF Identify, SendId
<1>9. ASSUME NEW p \in Proc, Type(p) PROVE CommandsTyped'
  <2>1. PICK cmd \in Command : TypeCommand(p, cmd)
    BY <1>9 DEF Type
  <2>2. /\ cmd \in Segment
        /\ c2s' = [c2s EXCEPT ![p] = Append(@, cmd)]
        /\ typed \in [Proc -> Seq(Command)]
        /\ typed' = [typed EXCEPT ![p] = Append(@, cmd)]
    BY <2>1 DEF TypeCommand, Segment, TypeOK
  <2>3. typed'[p] = Append(typed[p], cmd) /\ typed[p] \in Seq(Command)
    BY <2>2
  <2>4. /\ \A k \in DOMAIN typed[p] : k \in DOMAIN typed'[p] /\ typed'[p][k] = typed[p][k]
        /\ \E k \in DOMAIN typed'[p] : typed'[p][k] = cmd
    <3>1. Len(typed[p]) + 1 \in DOMAIN typed'[p] /\ typed'[p][Len(typed[p]) + 1] = cmd
      BY <2>3
    <3>2. \A k \in DOMAIN typed[p] : k \in DOMAIN typed'[p] /\ typed'[p][k] = typed[p][k]
      BY <2>3
    <3> QED
      BY <3>1, <3>2
  <2>5. \A q \in Proc : q # p => typed'[q] = typed[q]
    BY <2>2
  <2>6. \A q \in Proc : \A k \in DOMAIN typed[q] :
          k \in DOMAIN typed'[q] /\ typed'[q][k] = typed[q][k]
    BY ONLY <2>4, <2>5, Zenon
  <2>7. c2s' = [c2s EXCEPT ![p] = Append(@, cmd)] /\ \E k \in DOMAIN typed'[p] : typed'[p][k] = cmd
    BY <2>2, <2>4
  <2>8. cmd \in Segment
    BY <2>2
  <2> QED
    BY <1>7, <2>6, <2>7, <2>8, Zenon
<1> QED
  BY <1>3, <1>4, <1>5, <1>1, <1>6, <1>8, <1>9 DEF Next, Server

\* A process with a descriptor whose id is not awaited has been heard.
LEMMA HeardOnDescriptor ==
  ASSUME TypeOK, DescriptorsAgree, newsockFd = NoFd, NEW fd \in Fd, sock[fd] \in Proc
  PROVE  ~Unheard(sock[fd])
  BY DEF DescriptorsAgree, Unheard

\* Strings that are sent, and a recv of several, do not change which is first.
LEMMA AppendKeepsHead ==
  ASSUME NEW S, NEW s \in Seq(S), NEW e \in S
  PROVE  Append(s, e) # << >> /\ (s # << >> => Head(Append(s, e)) = Head(s))
<1>1. Len(Append(s, e)) = Len(s) + 1 /\ Len(s) \in Nat
  OBVIOUS
<1>2. Append(s, e) # << >>
  BY <1>1
<1>3. ASSUME s # << >> PROVE Head(Append(s, e)) = Head(s)
  <2>1. Len(s) # 0 /\ 1 \in 1..Len(s)
    BY <1>1, <1>3
  <2>2. Append(s, e)[1] = s[1]
    BY <2>1
  <2> QED
    BY <1>2, <1>3, <2>2
<1> QED
  BY <1>2, <1>3

LEMMA PrefixHead ==
  ASSUME NEW S, NEW s \in Seq(S), NEW k \in Nat, k # 0, k <= Len(s)
  PROVE  SubSeq(s, 1, k) # << >> /\ Head(SubSeq(s, 1, k)) = Head(s)
<1>1. Len(SubSeq(s, 1, k)) = k /\ SubSeq(s, 1, k)[1] = s[1]
  OBVIOUS
<1>2. SubSeq(s, 1, k) # << >> /\ s # << >>
  BY <1>1
<1> QED
  BY <1>1, <1>2

\* The first string the server reads of a process is, or begins with, its id:
\* it cannot get into a session before the id was read (server.cpp:222-240).
LEMMA FirstStep == IInv /\ ClosedIsGone /\ IdComesFirst /\ [Next]_vars => IdComesFirst'
<1> SUFFICES ASSUME TypeOK, DescriptorsAgree, ReportedStaysReady, ClosedIsGone,
                    IdComesFirst, [Next]_vars, up' = "up"
             PROVE  IdComesFirst'
  BY DEF IInv, IdComesFirst
<1>1. ASSUME up = "up", UNCHANGED pstate,
             \A q \in Proc : Unheard(q)' <=> Unheard(q),
             \A q \in Proc : Unheard(q) => c2s'[q] = c2s[q]
      PROVE  IdComesFirst'
  BY <1>1 DEF IdComesFirst
<1>2. CASE UNCHANGED <<up, pstate, backlog, newsockFd, sock, c2s>>
  BY <1>2 DEF IdComesFirst, Unheard
<1>3. CASE Select \/ Datagrams \/ UNCHANGED vars
  BY <1>2, <1>3 DEF Select, Datagrams, vars, tcpVars, srvVars, subVars
<1>4. CASE HandleUdp
  BY <1>2, <1>4 DEF HandleUdp, Serving, Die, subVars
<1>5. CASE Accept
  <2>1. /\ backlog # << >> /\ backlog \in Seq(Proc) /\ backlog' = Tail(backlog)
        /\ newsockFd = NoFd /\ up = "up" /\ UNCHANGED <<c2s, pstate>>
    BY <1>5 DEF Accept, Serving, ReportedStaysReady, TypeOK, tcpVars, subVars
  <2>2. PICK fd \in Fd : newsockFd' = fd /\ sock' = [sock EXCEPT ![fd] = Head(backlog)]
    BY <1>5 DEF Accept, Die
  <2>3. newsockFd' # NoFd /\ sock'[newsockFd'] = Head(backlog)
    <3>1. fd # NoFd
      BY BrokerAssumption DEF Fd
    <3>2. sock'[fd] = Head(backlog)
      BY <2>2 DEF TypeOK
    <3> QED
      BY <2>2, <3>1, <3>2
  <2>4. ASSUME NEW q \in Proc
        PROVE  (\E j \in DOMAIN backlog : backlog[j] = q)
                 <=> (Head(backlog) = q \/ \E j \in DOMAIN Tail(backlog) : Tail(backlog)[j] = q)
    <3>1. Len(backlog) \in Nat /\ Len(backlog) # 0 /\ DOMAIN backlog = 1..Len(backlog)
      BY <2>1
    <3>2. Head(backlog) = backlog[1] /\ 1 \in DOMAIN backlog
      BY <2>1, <3>1
    <3>3. \A j \in DOMAIN backlog : j # 1 =>
            j - 1 \in DOMAIN Tail(backlog) /\ Tail(backlog)[j - 1] = backlog[j]
      BY <2>1, <3>1
    <3>4. \A j \in DOMAIN Tail(backlog) :
            j + 1 \in DOMAIN backlog /\ Tail(backlog)[j] = backlog[j + 1]
      BY <2>1, TailPlaces
    <3>5. ASSUME NEW j \in DOMAIN backlog, backlog[j] = q
          PROVE  Head(backlog) = q \/ \E i \in DOMAIN Tail(backlog) : Tail(backlog)[i] = q
      BY <3>2, <3>3, <3>5
    <3>6. Head(backlog) = q => \E j \in DOMAIN backlog : backlog[j] = q
      BY <3>2
    <3>7. ASSUME NEW j \in DOMAIN Tail(backlog), Tail(backlog)[j] = q
          PROVE  \E i \in DOMAIN backlog : backlog[i] = q
      BY <3>4, <3>7
    <3> QED
      BY <3>5, <3>6, <3>7
  <2>5. \A q \in Proc : Unheard(q)' <=> Unheard(q)
    BY <2>1, <2>3, <2>4 DEF Unheard
  <2> QED
    BY <1>1, <2>1, <2>5
<1>6. CASE RecvId
  <2>0. PICK p \in Proc : p = sock[newsockFd]
    BY <1>6 DEF RecvId, DescriptorsAgree
  <2>1. /\ newsockFd # NoFd /\ newsockFd \in Fd /\ p = sock[newsockFd]
        /\ up = "up" /\ newsockFd' = NoFd
        /\ UNCHANGED <<pstate, backlog, sock>>
    BY <1>6, <2>0 DEF RecvId, TypeOK, subVars
  <2>2. PICK k \in IdLengths(p) : ServerReads(p, k)
    BY <1>6, <2>0 DEF RecvId
  <2>3. \A q \in Proc : q # p => c2s'[q] = c2s[q]
    BY <2>1, <2>2, ReadKeepsTail
  <2>4. \A q \in Proc : q # p => (Unheard(q)' <=> Unheard(q))
    BY <2>1 DEF Unheard
  <2>5. ~Unheard(p)'
    BY <2>1 DEF Unheard, DescriptorsAgree
  <2>6. pstate[p] \notin {"new", "connected"}
    <3>1. c2s[p] # << >> \/ Gone(p)
      BY <2>2 DEF ServerReads
    <3>2. Gone(p) => pstate[p] = "closed"
      BY <2>1 DEF ClosedIsGone
    <3> QED
      BY <2>1, <3>1, <3>2 DEF IdComesFirst
  <2> QED
    BY <2>1, <2>3, <2>4, <2>5, <2>6 DEF IdComesFirst
<1>7. ASSUME NEW i \in Fd, Disconnect(i) \/ RecvFails(i) \/ HandleCommand(i)
      PROVE  IdComesFirst'
  <2>1. /\ up = "up" /\ newsockFd = NoFd /\ newsockFd' = NoFd
        /\ UNCHANGED <<pstate, backlog>> /\ sock[i] \in Proc
    BY <1>7 DEF Disconnect, RecvFails, HandleCommand, Serving, Die, ReportedStaysReady, subVars
  <2>2. PICK k : ServerReads(sock[i], k)
    BY <1>7 DEF Disconnect, RecvFails, HandleCommand
  <2>3. \A q \in Proc : q # sock[i] => c2s'[q] = c2s[q]
    BY <2>1, <2>2, ReadKeepsTail
  <2>4. ~Unheard(sock[i])
    BY <2>1, HeardOnDescriptor
  <2>5. \A q \in Proc : Unheard(q)' <=> Unheard(q)
    BY <2>1 DEF Unheard
  <2> QED
    BY <1>1, <2>1, <2>3, <2>4, <2>5
<1>8. CASE ServerExit
  BY <1>8 DEF ServerExit
<1>9. ASSUME NEW p \in Proc, Start(p) PROVE IdComesFirst'
  <2>1. /\ up = "up" /\ pstate[p] = "new" /\ pstate' = [pstate EXCEPT ![p] = "connected"]
        /\ backlog \in Seq(Proc) /\ backlog' = Append(backlog, p)
        /\ UNCHANGED <<c2s, newsockFd, sock>>
    BY <1>9 DEF Start, Connect, tcpVars, srvVars, TypeOK
  <2>2. \A q \in Proc : (\E j \in DOMAIN backlog' : backlog'[j] = q)
                          <=> (q = p \/ \E j \in DOMAIN backlog : backlog[j] = q)
    <3>1. /\ DOMAIN backlog = 1..Len(backlog) /\ Len(backlog) \in Nat
          /\ DOMAIN backlog' = 1..(Len(backlog) + 1)
          /\ \A j \in 1..Len(backlog) : backlog'[j] = backlog[j]
          /\ backlog'[Len(backlog) + 1] = p
      BY <2>1
    <3> QED
      BY <2>1, <3>1, AppendElements
  <2>3. \A q \in Proc : q # p => (Unheard(q)' <=> Unheard(q)) /\ pstate'[q] = pstate[q]
    BY <2>1, <2>2 DEF Unheard, TypeOK
  <2>4. Unheard(p)' /\ pstate'[p] = "connected" /\ c2s'[p] = << >>
    BY <2>1, <2>2 DEF Unheard, IdComesFirst, TypeOK
  <2> QED
    BY <2>1, <2>3, <2>4 DEF IdComesFirst
<1>10. ASSUME NEW p \in Proc, Identify(p) PROVE IdComesFirst'
  <2>1. /\ up = "up" /\ UNCHANGED <<backlog, newsockFd, sock>>
        /\ pstate[p] = "connected" /\ pstate' = [pstate EXCEPT ![p] = "running"]
        /\ c2s' = [c2s EXCEPT ![p] = Append(@, IdString(Argv1[p]))]
    BY <1>10 DEF Identify, SendId, srvVars
  <2>2. c2s[p] = << >> /\ c2s'[p] = Append(c2s[p], IdString(Argv1[p]))
    BY <2>1 DEF IdComesFirst, TypeOK
  <2>3. c2s'[p] # << >> /\ Head(c2s'[p]) = IdString(Argv1[p])
    BY <2>2
  <2>4. \A q \in Proc : q # p => c2s'[q] = c2s[q] /\ pstate'[q] = pstate[q]
    BY <2>1 DEF TypeOK
  <2>5. \A q \in Proc : q # p => (Unheard(q)' <=> Unheard(q))
    BY <2>1, <2>4 DEF Unheard
  <2>6. pstate'[p] = "running"
    BY <2>1 DEF TypeOK
  <2> QED
    BY <2>1, <2>3, <2>4, <2>5, <2>6 DEF IdComesFirst
<1>11. ASSUME NEW p \in Proc, Type(p) PROVE IdComesFirst'
  <2>1. PICK cmd \in Command : TypeCommand(p, cmd)
    BY <1>11 DEF Type
  <2>2. /\ up = "up" /\ UNCHANGED <<backlog, newsockFd, sock, pstate>>
        /\ pstate[p] = "running" /\ c2s' = [c2s EXCEPT ![p] = Append(@, cmd)]
    BY <1>11, <2>1 DEF Type, TypeCommand, srvVars
  <2>3. \A q \in Proc : Unheard(q)' <=> Unheard(q)
    BY <2>2 DEF Unheard
  <2>4. \A q \in Proc : q # p => c2s'[q] = c2s[q]
    BY <2>2 DEF TypeOK
  <2>5. c2s'[p] # << >> /\ (c2s[p] # << >> => Head(c2s'[p]) = Head(c2s[p]))
    <3>1. cmd \in Segment /\ c2s[p] \in Seq(Segment) /\ c2s'[p] = Append(c2s[p], cmd)
      BY <2>2 DEF TypeOK, Segment
    <3> QED
      BY <3>1, AppendKeepsHead
  <2> QED
    BY <2>2, <2>3, <2>4, <2>5 DEF IdComesFirst
<1>12. ASSUME NEW p \in Proc, Read(p) \/ Quit(p) PROVE IdComesFirst'
  <2>1. /\ up = "up" /\ UNCHANGED <<c2s, backlog, newsockFd, sock>>
        /\ pstate[p] # "new"
        /\ pstate' = pstate \/ pstate' = [pstate EXCEPT ![p] = "closed"]
    BY <1>12 DEF Read, ReadLine, Quit, Leave, srvVars
  <2>2. \A q \in Proc : pstate'[q] = pstate[q] \/ (pstate[q] # "new" /\ pstate'[q] = "closed")
    BY <2>1 DEF TypeOK
  <2>3. \A q \in Proc : Unheard(q)' <=> Unheard(q)
    BY <2>1, <2>2 DEF Unheard
  <2> QED
    BY <2>1, <2>2, <2>3 DEF IdComesFirst
<1> QED
  BY <1>3, <1>4, <1>5, <1>6, <1>7, <1>8, <1>9, <1>10, <1>11, <1>12 DEF Next, Server

\* A descriptor's entry begins with the id of the process behind it; an empty
\* entry is that of a process that has gone with nothing left to read.
LEMMA SessionIdsStep ==
  IInv /\ ClosedIsGone /\ IdComesFirst /\ SessionIds /\ [Next]_vars => SessionIds'
<1> SUFFICES ASSUME TypeOK, DescriptorsAgree, ReportedStaysReady, ClosedIsGone,
                    IdComesFirst, SessionIds, [Next]_vars
             PROVE  SessionIds'
  BY DEF IInv
<1>0. \A fd \in DOMAIN clientsConnected : fd \in Fd /\ sock[fd] \in Proc
  BY DEF DescriptorsAgree, TypeOK
<1>1. ASSUME UNCHANGED clientsConnected,
             \A fd \in DOMAIN clientsConnected : sock'[fd] = sock[fd],
             \A q \in Proc : c2s[q] = << >> /\ Gone(q) => c2s'[q] = << >> /\ Gone(q)'
      PROVE  SessionIds'
  <2> SUFFICES ASSUME NEW fd \in DOMAIN clientsConnected'
               PROVE  IF clientsConnected'[fd] = << >>
                        THEN c2s'[sock'[fd]] = << >> /\ Gone(sock[fd])'
                        ELSE Head(clientsConnected'[fd]) = IdString(Argv1[sock'[fd]])
    BY DEF SessionIds
  <2> QED
    BY <1>0, <1>1 DEF SessionIds, Gone
<1>2. CASE UNCHANGED <<clientsConnected, sock, c2s, peer>>
  BY <1>2 DEF SessionIds, Gone
<1>3. CASE Select \/ Datagrams \/ UNCHANGED vars
  BY <1>2, <1>3 DEF Select, Datagrams, vars, tcpVars, srvVars
<1>4. ASSUME UNCHANGED <<clientsConnected, sock, c2s>>, NEW ps, NEW ms, ServerSends(ps, ms)
      PROVE  SessionIds'
  <2>1. \A p \in Proc : Gone(p)' <=> Gone(p)
    BY <1>4 DEF ServerSends, Gone, PeerAfter, TypeOK
  <2> QED
    BY <1>1, <1>4, <2>1
<1>5. CASE HandleUdp
  BY <1>4, <1>5 DEF HandleUdp, Die
<1>6. CASE ServerExit
  BY <1>4, <1>6 DEF ServerExit
<1>7. CASE Accept
  <2>1. \A fd \in DOMAIN clientsConnected : sock'[fd] = sock[fd]
    BY <1>0, <1>7, BrokerAssumption DEF Accept, Free, Die, TypeOK
  <2>2. UNCHANGED <<clientsConnected, c2s, peer>>
    BY <1>7 DEF Accept, Die, tcpVars
  <2> QED
    BY <1>1, <2>1, <2>2 DEF Gone
<1>8. CASE RecvId
  <2>0. PICK p \in Proc : p = sock[newsockFd]
    BY <1>8 DEF RecvId, DescriptorsAgree
  <2>1. /\ newsockFd # NoFd /\ newsockFd \in Fd /\ p = sock[newsockFd]
        /\ up = "up" /\ UNCHANGED sock
    BY <1>8, <2>0 DEF RecvId, TypeOK
  <2>2. PICK k \in IdLengths(p) :
          /\ ServerReads(p, k)
          /\ Refuse(SubSeq(c2s[p], 1, k)) \/ Welcome(SubSeq(c2s[p], 1, k))
    BY <1>8, <2>0 DEF RecvId
  <2> DEFINE id == SubSeq(c2s[p], 1, k)
  <2>3. \A q \in Proc : c2s[q] = << >> => c2s'[q] = << >>
    BY <2>1, <2>2, ReadKeepsTail
  <2>4. \A q \in Proc : Gone(q)' <=> Gone(q)
    BY <2>2 DEF Refuse, Welcome, ServerSends, Gone, PeerAfter, TypeOK
  <2>5. CASE UNCHANGED clientsConnected
    BY <1>1, <2>1, <2>3, <2>4, <2>5
  <2>6. CASE clientsConnected' = Put(clientsConnected, newsockFd, id)
    <3>1. c2s[p] \in Seq(Segment) /\ k \in Nat /\ k <= Len(c2s[p])
      BY <2>2, ReadCounts
    <3>2. CASE c2s[p] = << >>
      <4>1. id = << >> /\ Gone(p)
        BY <2>2, <3>1, <3>2 DEF ServerReads
      <4>2. c2s'[p] = << >> /\ Gone(p)'
        BY <2>1, <2>3, <2>4, <3>2, <4>1
      <4>3. clientsConnected'[newsockFd] = << >>
        BY <2>6, <4>1 DEF Put
      <4>4. \A fd \in DOMAIN clientsConnected' : fd # newsockFd =>
              fd \in DOMAIN clientsConnected /\ clientsConnected'[fd] = clientsConnected[fd]
        BY <2>6 DEF Put
      <4> HIDE DEF id
      <4> QED
        BY <1>0, <2>1, <2>3, <2>4, <4>2, <4>3, <4>4 DEF SessionIds, Gone
    <3>3. CASE c2s[p] # << >>
      <4>1. id # << >> /\ Head(id) = Head(c2s[p])
        <5>1. k # 0
          BY <2>2, <3>3 DEF ServerReads
        <5> QED
          BY <3>1, <5>1, PrefixHead
      <4>2. Head(id) = IdString(Argv1[p])
        <5>1. Unheard(p)
          BY <2>1 DEF Unheard
        <5> QED
          BY <2>1, <3>3, <4>1, <5>1 DEF IdComesFirst
      <4>3. clientsConnected'[newsockFd] = id
        BY <2>6 DEF Put
      <4>4. \A fd \in DOMAIN clientsConnected' : fd # newsockFd =>
              fd \in DOMAIN clientsConnected /\ clientsConnected'[fd] = clientsConnected[fd]
        BY <2>6 DEF Put
      <4> HIDE DEF id
      <4> QED
        BY <1>0, <2>1, <2>3, <2>4, <4>1, <4>2, <4>3, <4>4 DEF SessionIds, Gone
    <3> QED
      BY <3>2, <3>3
  <2> QED
    BY <2>2, <2>5, <2>6 DEF Refuse, Welcome
<1>9. ASSUME NEW i \in Fd, RecvFails(i) \/ HandleCommand(i) PROVE SessionIds'
  <2>1. sock[i] \in Proc /\ UNCHANGED <<clientsConnected, sock, peer>>
    BY <1>9 DEF RecvFails, HandleCommand, Serving, Die, ReportedStaysReady
  <2>2. PICK k : ServerReads(sock[i], k)
    BY <1>9 DEF RecvFails, HandleCommand
  <2> QED
    BY <1>1, <2>1, <2>2, ReadKeepsTail DEF Gone
<1>10. ASSUME NEW i \in Fd, Disconnect(i) PROVE SessionIds'
  <2>1. sock[i] \in Proc /\ UNCHANGED peer /\ ServerReads(sock[i], 0) /\ Gone(sock[i])
    BY <1>10 DEF Disconnect, Serving, ReportedStaysReady, Gone
  <2>2. \A q \in Proc : c2s[q] = << >> => c2s'[q] = << >>
    BY <2>1, ReadKeepsTail
  <2>3. c2s[sock[i]] = << >>
    <3>1. c2s[sock[i]] \in Seq(Segment)
      BY <2>1 DEF TypeOK
    <3> QED
      BY <2>1, <3>1 DEF ServerReads
  <2>4. CASE clientsConnected' = Put(clientsConnected, i, << >>) /\ UNCHANGED sock
    <3>1. clientsConnected'[i] = << >>
      BY <2>4 DEF Put
    <3>2. \A fd \in DOMAIN clientsConnected' : fd # i =>
            fd \in DOMAIN clientsConnected /\ clientsConnected'[fd] = clientsConnected[fd]
      BY <2>4 DEF Put
    <3> QED
      BY <1>0, <2>1, <2>2, <2>3, <2>4, <3>1, <3>2 DEF SessionIds, Gone
  <2>5. CASE /\ clientsConnected' = Erase(clientsConnected, i)
             /\ sock' = [sock EXCEPT ![i] = NoProc]
    <3>1. \A fd \in DOMAIN clientsConnected' :
            /\ fd \in DOMAIN clientsConnected /\ fd # i
            /\ clientsConnected'[fd] = clientsConnected[fd]
      BY <2>5 DEF Erase
    <3>2. \A fd \in Fd : fd # i => sock'[fd] = sock[fd]
      BY <2>5 DEF TypeOK
    <3> QED
      BY <1>0, <2>1, <2>2, <3>1, <3>2 DEF SessionIds, Gone
  <2> QED
    BY <1>10, <2>4, <2>5 DEF Disconnect
<1>11. ASSUME NEW p \in Proc, Start(p) \/ Identify(p) \/ Read(p) \/ Type(p) \/ Quit(p)
       PROVE  SessionIds'
  <2>1. UNCHANGED <<clientsConnected, sock>>
    BY <1>11 DEF Start, Identify, Read, Type, Quit, srvVars
  <2>2. \A q \in Proc : Gone(q) => Gone(q)'
    BY <1>11 DEF Start, Connect, tcpVars, Identify, SendId, Read, ReadLine, Type,
                 TypeCommand, Quit, Leave, ClientCloses, Gone, TypeOK, PeerState
  <2>3. c2s' = c2s \/ (~Gone(p) /\ \A q \in Proc : q # p => c2s'[q] = c2s[q])
    BY <1>11 DEF Start, Connect, tcpVars, Identify, SendId, Read, ReadLine, Type,
                 TypeCommand, Quit, Leave, ClosedIsGone, TypeOK
  <2> QED
    BY <1>1, <2>1, <2>2, <2>3
<1> QED
  BY <1>3, <1>5, <1>6, <1>7, <1>8, <1>9, <1>10, <1>11 DEF Next, Server

\* The lists after the two commands hold no entry but the old ones and the new.
LEMMA EntriesLeft ==
  ASSUME NEW subs \in Seq(Subscription), NEW id, NEW i \in Nat
  PROVE  \A j \in DOMAIN Unsubscribed(subs, id, i) :
           \E k \in DOMAIN subs : Unsubscribed(subs, id, i)[j] = subs[k]
<1>1. \A j \in DOMAIN EraseAt(subs, i) :
        \E k \in DOMAIN subs : EraseAt(subs, i)[j] = subs[k]
  <2> SUFFICES ASSUME NEW j \in DOMAIN EraseAt(subs, i)
               PROVE  \E k \in DOMAIN subs : EraseAt(subs, i)[j] = subs[k]
    OBVIOUS
  <2>1. DOMAIN subs = 1..Len(subs) /\ Len(subs) \in Nat
    OBVIOUS
  <2>2. j \in 1..(Len(subs) - 1)
    BY DEF EraseAt
  <2>3. EraseAt(subs, i)[j] = IF j <= i THEN subs[j] ELSE subs[j + 1]
    BY <2>2 DEF EraseAt
  <2>4. j \in DOMAIN subs /\ j + 1 \in DOMAIN subs
    BY <2>1, <2>2
  <2> QED
    BY <2>3, <2>4, Zenon
<1> QED
  BY <1>1, Zenon DEF Unsubscribed

LEMMA EntriesAfterSubscribe ==
  ASSUME NEW subs \in Seq(Subscription), NEW id \in ClientID, NEW SF \in BOOLEAN
  PROVE  \A j \in DOMAIN Subscribed(subs, id, SF) :
           \/ \E k \in DOMAIN subs : Subscribed(subs, id, SF)[j] = subs[k]
           \/ Subscribed(subs, id, SF)[j] = [clientID |-> id, SF |-> SF]
<1>1. CASE Subscribed(subs, id, SF) = subs
  BY <1>1
<1>2. CASE Subscribed(subs, id, SF) = Append(subs, [clientID |-> id, SF |-> SF])
  <2>1. PICK e \in Subscription : e = [clientID |-> id, SF |-> SF]
    BY DEF Subscription
  <2> QED
    BY <1>2, <2>1, AppendElements
<1> QED
  BY <1>1, <1>2 DEF Subscribed

\* Who is in a topic's list asked for the topic, under its id.
LEMMA ListsStep ==
  IInv /\ CommandsTyped /\ SessionIds /\ ListsAsked /\ [Next]_vars => ListsAsked'
<1> SUFFICES ASSUME TypeOK, ReportedStaysReady, CommandsTyped, SessionIds,
                    ListsAsked, [Next]_vars
             PROVE  ListsAsked'
  BY DEF IInv
<1>0. \A id, t : Asked(typed, id, t) => Asked(typed', id, t)
  BY AskedStaysAsked
<1>1. ASSUME \A t \in Topic : \A j \in DOMAIN topics'[t] :
               \/ \E k \in DOMAIN topics[t] : topics'[t][j] = topics[t][k]
               \/ Asked(typed, topics'[t][j].clientID, t)
      PROVE  ListsAsked'
  <2> SUFFICES ASSUME NEW t \in Topic, NEW j \in DOMAIN topics'[t]
               PROVE  Asked(typed', topics'[t][j].clientID, t)
    BY DEF ListsAsked
  <2>1. Asked(typed, topics'[t][j].clientID, t)
    BY <1>1 DEF ListsAsked
  <2> QED
    BY <1>0, <2>1
<1>2. CASE UNCHANGED topics
  BY <1>1, <1>2
<1>3. ASSUME NEW i \in Fd, HandleCommand(i) PROVE ListsAsked'
  <2> DEFINE cmd == Head(c2s[sock[i]])
             id == clientsConnected[i]
  <2>1. PICK p \in Proc : p = sock[i]
    BY <1>3 DEF HandleCommand, Serving, ReportedStaysReady
  <2>2. c2s[p] \in Seq(Segment) /\ c2s[p] # << >>
    BY <1>3, <2>1 DEF HandleCommand, TypeOK
  <2>3. cmd \in Segment /\ 1 \in DOMAIN c2s[p] /\ cmd = c2s[p][1]
    <3>1. Len(c2s[p]) \in Nat /\ Len(c2s[p]) # 0
      BY <2>2
    <3> QED
      BY <2>1, <2>2, <3>1
  <2>4. i \in Nat
    BY DEF Fd
  <2>5. CASE /\ i \in DOMAIN clientsConnected
             /\ topics' = [topics EXCEPT ![cmd.topic] = Unsubscribed(@, id, i)]
    <3>1. id \in ClientID /\ \A t \in Topic : topics[t] \in Seq(Subscription)
      BY <2>5 DEF TypeOK
    <3>2. ASSUME NEW t \in Topic, NEW j \in DOMAIN topics'[t]
          PROVE  \E k \in DOMAIN topics[t] : topics'[t][j] = topics[t][k]
      <4>1. topics'[t] = topics[t] \/ topics'[t] = Unsubscribed(topics[t], id, i)
        BY <2>5 DEF TypeOK
      <4>2. \A l \in DOMAIN Unsubscribed(topics[t], id, i) :
              \E k \in DOMAIN topics[t] : Unsubscribed(topics[t], id, i)[l] = topics[t][k]
        BY <2>4, <3>1, EntriesLeft
      <4> HIDE DEF id, cmd
      <4> QED
        BY <3>2, <4>1, <4>2, Zenon
    <3> QED
      BY <1>1, <3>2
  <2>6. ASSUME i \in DOMAIN clientsConnected, cmd.op = "subscribe",
               NEW SF \in BOOLEAN,
               topics' = [topics EXCEPT ![cmd.topic] = Subscribed(@, id, SF)]
        PROVE  ListsAsked'
    <3>1. id \in ClientID /\ \A t \in Topic : topics[t] \in Seq(Subscription)
      BY <2>6 DEF TypeOK
    <3>2. id # << >> /\ Head(id) = IdString(Argv1[p])
      BY <2>1, <2>2, <2>6 DEF SessionIds
    <3>3. cmd \in Command /\ cmd.topic \in Topic
      BY <2>3, <2>6, KindsDiffer
    <3>4. \E k \in DOMAIN typed[p] : typed[p][k] = cmd
      BY <2>3, <3>3 DEF CommandsTyped
    <3>5. Asked(typed, id, cmd.topic)
      BY <2>6, <3>2, <3>4 DEF Asked
    <3>6. ASSUME NEW t \in Topic, NEW j \in DOMAIN topics'[t]
          PROVE  \/ \E k \in DOMAIN topics[t] : topics'[t][j] = topics[t][k]
                 \/ Asked(typed, topics'[t][j].clientID, t)
      <4>1. \/ topics'[t] = topics[t]
            \/ t = cmd.topic /\ topics'[t] = Subscribed(topics[t], id, SF)
        BY <2>6 DEF TypeOK
      <4> HIDE DEF id, cmd
      <4>2. CASE topics'[t] = topics[t]
        BY <4>2
      <4>3. CASE t = cmd.topic /\ topics'[t] = Subscribed(topics[t], id, SF)
        <5>1. \/ \E k \in DOMAIN topics[t] : topics'[t][j] = topics[t][k]
              \/ topics'[t][j] = [clientID |-> id, SF |-> SF]
          BY <3>1, <3>6, <4>3, EntriesAfterSubscribe
        <5>2. [clientID |-> id, SF |-> SF].clientID = id
          OBVIOUS
        <5> QED
          BY <3>5, <4>3, <5>1, <5>2
      <4> QED
        BY <4>1, <4>2, <4>3
    <3> QED
      BY <1>1, <3>6
  <2> QED
    BY <1>2, <1>3, <2>5, <2>6, SFOfType DEF HandleCommand
<1>4. CASE Select \/ HandleUdp \/ Accept \/ RecvId \/ ServerExit \/ Datagrams \/ UNCHANGED vars
  BY <1>2, <1>4 DEF Select, HandleUdp, Accept, RecvId, Die, ServerExit, Datagrams,
                    vars, srvVars
<1>5. ASSUME NEW i \in Fd, Disconnect(i) \/ RecvFails(i) PROVE UNCHANGED topics
  BY <1>5 DEF Disconnect, RecvFails, Die
<1>6. ASSUME NEW p \in Proc, Start(p) \/ Identify(p) \/ Read(p) \/ Type(p) \/ Quit(p)
      PROVE  UNCHANGED topics
  BY <1>6 DEF Start, Identify, Read, Type, Quit, srvVars
<1> QED
  BY <1>2, <1>3, <1>4, <1>5, <1>6 DEF Next, Server

\* What is stored for an id is of topics it asked for: StoreFor looks the id up
\* in the topic's list (server.cpp:209-218).
LEMMA StoreAskedStep ==
  IInv /\ ListsAsked /\ StoreAsked /\ [Next]_vars => StoreAsked'
<1> SUFFICES ASSUME TypeOK, ReportedStaysReady, DescriptorsAgree, ListsAsked,
                    StoreAsked, [Next]_vars
             PROVE  StoreAsked'
  BY DEF IInv
<1>0. \A id, t : Asked(typed, id, t) => Asked(typed', id, t)
  BY AskedStaysAsked
<1>1. ASSUME \A id \in DOMAIN subscribers' : \A j \in DOMAIN subscribers'[id].packets :
               Asked(typed, id, subscribers'[id].packets[j].topic)
      PROVE  StoreAsked'
  BY <1>0, <1>1 DEF StoreAsked
<1>2. ASSUME \A id \in DOMAIN subscribers' :
               \/ subscribers'[id].packets = << >>
               \/ /\ id \in DOMAIN subscribers
                  /\ subscribers'[id].packets = subscribers[id].packets
      PROVE  StoreAsked'
  <2>1. ASSUME NEW id \in DOMAIN subscribers', NEW j \in DOMAIN subscribers'[id].packets
        PROVE  Asked(typed, id, subscribers'[id].packets[j].topic)
    <3>1. subscribers'[id].packets # << >>
      BY <2>1
    <3> QED
      BY <1>2, <2>1, <3>1 DEF StoreAsked
  <2> QED
    BY <1>1, <2>1
<1>3. CASE UNCHANGED subscribers
  BY <1>2, <1>3
<1>4. CASE HandleUdp
  <2> DEFINE m == Head(udp)
             news == [kind |-> "news", n |-> m.n, topic |-> m.topic]
             subs == IF m.valid THEN topics[m.topic] ELSE << >>
  <2>1. udp # << >> /\ m \in Datagram
    BY <1>4 DEF HandleUdp, Serving, ReportedStaysReady, TypeOK
  <2>2. news \in News /\ news.topic = m.topic /\ m.topic \in Topic
    BY <2>1 DEF News, Datagram
  <2>3. \A id : StoreFor(subs, id) => Asked(typed, id, m.topic)
    BY <2>2 DEF StoreFor, ListsAsked
  <2> HIDE DEF news, subs, m
  <2>4. CASE subscribers' = [x \in DOMAIN subscribers |->
                 IF StoreFor(subs, x)
                   THEN [subscribers[x] EXCEPT !.packets = Append(@, news)]
                   ELSE subscribers[x]]
    <3>1. ASSUME NEW id \in DOMAIN subscribers', NEW j \in DOMAIN subscribers'[id].packets
          PROVE  Asked(typed, id, subscribers'[id].packets[j].topic)
      <4>1. id \in DOMAIN subscribers /\ subscribers[id].packets \in Seq(News)
        BY <2>4, <3>1 DEF TypeOK, Record
      <4>2. CASE StoreFor(subs, id)
        <5>1. subscribers'[id].packets = Append(subscribers[id].packets, news)
          BY <2>4, <4>1, <4>2 DEF TypeOK, Record
        <5>2. \/ /\ j \in DOMAIN subscribers[id].packets
                 /\ subscribers'[id].packets[j] = subscribers[id].packets[j]
              \/ subscribers'[id].packets[j] = news
          BY <2>2, <3>1, <4>1, <5>1, AppendElements
        <5> QED
          BY <2>2, <2>3, <4>1, <4>2, <5>2 DEF StoreAsked
      <4>3. CASE ~StoreFor(subs, id)
        <5>1. subscribers'[id] = subscribers[id]
          BY <2>4, <4>1, <4>3
        <5> QED
          BY <3>1, <4>1, <5>1 DEF StoreAsked
      <4> QED
        BY <4>2, <4>3
    <3> QED
      BY <1>1, <3>1
  <2> QED
    BY <1>3, <1>4, <2>4 DEF HandleUdp, Die, m, news, subs
<1>5. CASE RecvId
  <2>1. PICK new : Refuse(new) \/ Welcome(new)
    BY <1>5 DEF RecvId
  <2>2. CASE Refuse(new)
    BY <1>3, <2>2 DEF Refuse
  <2>3. CASE Welcome(new)
    <3>1. subscribers' = Put(subscribers, new, Session(new))
      BY <2>3 DEF Welcome
    <3>2. Session(new).packets = << >>
      BY DEF Session
    <3>3. \A id \in DOMAIN subscribers' :
            \/ subscribers'[id] = Session(new)
            \/ id \in DOMAIN subscribers /\ subscribers'[id] = subscribers[id]
      BY <3>1 DEF Put
    <3> QED
      BY <1>2, <3>2, <3>3
  <2> QED
    BY <2>1, <2>2, <2>3
<1>6. ASSUME NEW i \in Fd, Disconnect(i) PROVE StoreAsked'
  <2>1. \/ UNCHANGED subscribers
        \/ subscribers' = Disconnected(clientsConnected[i])
    BY <1>6 DEF Disconnect
  <2>2. \A id \in DOMAIN subscribers : subscribers[id] \in Record
    BY DEF TypeOK
  <2>3. \A id \in DOMAIN subscribers' :
          /\ id \in DOMAIN subscribers
          /\ subscribers'[id].packets = subscribers[id].packets
    BY <2>1, <2>2 DEF Disconnected, Record
  <2> QED
    BY <1>2, <2>3
<1>7. ASSUME NEW i \in Fd, RecvFails(i) \/ HandleCommand(i) PROVE UNCHANGED subscribers
  BY <1>7 DEF RecvFails, Die, HandleCommand
<1>8. CASE Select \/ Accept \/ ServerExit \/ Datagrams \/ UNCHANGED vars
  BY <1>3, <1>8 DEF Select, Accept, Die, ServerExit, Datagrams, vars, srvVars
<1>9. ASSUME NEW p \in Proc, Start(p) \/ Identify(p) \/ Read(p) \/ Type(p) \/ Quit(p)
      PROVE  UNCHANGED subscribers
  BY <1>9 DEF Start, Identify, Read, Type, Quit, srvVars
<1> QED
  BY <1>3, <1>4, <1>5, <1>6, <1>7, <1>8, <1>9 DEF Next, Server

\* Of an id that came with commands only the first string, the id, counts.
LEMMA AskedByHead ==
  ASSUME NEW id, NEW a, NEW t, Asked(typed, id, t), Head(id) = IdString(a)
  PROVE  Asked(typed, <<IdString(a)>>, t)
<1>1. <<IdString(a)>> # << >> /\ Head(<<IdString(a)>>) = IdString(a)
  OBVIOUS
<1> QED
  BY <1>1 DEF Asked

\* Who is told of a message of topic t has a session under an id of the topic's
\* list (server.cpp:209-223).
LEMMA ToldHaveSessions ==
  ASSUME TypeOK, SessionsAgree, SessionIds, ListsAsked,
         NEW t \in Topic, NEW subs, subs = topics[t] \/ subs = << >>,
         NEW n \in Int, n <= Len(subs), NEW q \in Told(subs, n)
  PROVE  \E id \in ClientID :
           /\ Connected(id) /\ id \in IdsOf(q) /\ Asked(typed, id, t)
           /\ \E fd \in Fd : fd \in DOMAIN clientsConnected /\ sock[fd] = q
<1>1. PICK k \in 1..n : Connected(subs[k].clientID) /\ q = sock[subscribers[subs[k].clientID].fd]
  BY DEF Told
<1>2. subs \in Seq(Subscription) /\ topics[t] \in Seq(Subscription)
  BY DEF TypeOK
<1>3. k \in DOMAIN subs /\ subs = topics[t]
  <2>1. k \in Nat /\ k # 0 /\ k <= Len(subs) /\ Len(subs) \in Nat
    BY <1>2
  <2> QED
    BY <1>2, <2>1
<1>4. PICK id : id = subs[k].clientID
  OBVIOUS
<1>5. Asked(typed, id, t) /\ id # << >>
  BY <1>3, <1>4 DEF ListsAsked, Asked
<1>6. PICK fd \in Fd : /\ fd \in DOMAIN clientsConnected /\ clientsConnected[fd] = id
                       /\ q = sock[fd]
  BY <1>1, <1>4 DEF SessionsAgree, Connected, TypeOK
<1>7. Head(id) = IdString(Argv1[q])
  BY <1>5, <1>6 DEF SessionIds
<1>8. id \in ClientID /\ id \in DOMAIN subscribers
  BY <1>1, <1>4 DEF Connected, TypeOK
<1> QED
  BY <1>1, <1>4, <1>5, <1>6, <1>7, <1>8 DEF IdsOf

\* So they have asked for it.
LEMMA ToldAsked ==
  ASSUME TypeOK, SessionsAgree, SessionIds, ListsAsked,
         NEW t \in Topic, NEW subs, subs = topics[t] \/ subs = << >>,
         NEW n \in Int, n <= Len(subs), NEW q \in Told(subs, n)
  PROVE  Asked(typed, <<IdString(Argv1[q])>>, t)
<1>1. PICK id \in ClientID : id \in IdsOf(q) /\ Asked(typed, id, t)
  BY ToldHaveSessions
<1>2. Head(id) = IdString(Argv1[q])
  BY <1>1 DEF IdsOf
<1> QED
  BY <1>1, <1>2, AskedByHead

\* The elements of a stream after a send.
LEMMA ConcatElements ==
  ASSUME NEW S, NEW s \in Seq(S), NEW ms \in Seq(S)
  PROVE  \A j \in DOMAIN (s \o ms) : \/ j \in DOMAIN s /\ (s \o ms)[j] = s[j]
                                     \/ \E i \in DOMAIN ms : (s \o ms)[j] = ms[i]
<1> SUFFICES ASSUME NEW j \in DOMAIN (s \o ms)
             PROVE  \/ j \in DOMAIN s /\ (s \o ms)[j] = s[j]
                    \/ \E i \in DOMAIN ms : (s \o ms)[j] = ms[i]
  OBVIOUS
<1>1. /\ Len(s) \in Nat /\ Len(ms) \in Nat /\ j \in 1..(Len(s) + Len(ms))
      /\ DOMAIN s = 1..Len(s) /\ DOMAIN ms = 1..Len(ms)
  OBVIOUS
<1>2. CASE j <= Len(s)
  BY <1>1, <1>2
<1>3. CASE ~(j <= Len(s))
  <2>1. j - Len(s) \in DOMAIN ms /\ (s \o ms)[j] = ms[j - Len(s)]
    BY <1>1, <1>3
  <2> QED
    BY <2>1
<1> QED
  BY <1>2, <1>3

\* A send of messages the receivers asked for, or of flags.
LEMMA SendsAsked ==
  ASSUME TypeOK, LinesAsked, UNCHANGED <<typed, printed>>,
         NEW ps, NEW ms \in Seq(Line), ServerSends(ps, ms),
         \A q \in Proc : q \in ps => Gone(q) \/ \A i \in DOMAIN ms :
           ms[i] \in News => Asked(typed, <<IdString(Argv1[q])>>, ms[i].topic)
  PROVE  LinesAsked'
<1> SUFFICES ASSUME NEW q \in Proc, NEW j \in DOMAIN s2c'[q], s2c'[q][j] \in News
             PROVE  Asked(typed, <<IdString(Argv1[q])>>, s2c'[q][j].topic)
  BY DEF LinesAsked
<1>1. s2c'[q] = s2c[q] \/ (q \in ps /\ ~Gone(q) /\ s2c'[q] = s2c[q] \o ms)
  BY DEF ServerSends, Stream
<1>2. CASE s2c'[q] = s2c[q]
  BY <1>2 DEF LinesAsked
<1>3. CASE q \in ps /\ ~Gone(q) /\ s2c'[q] = s2c[q] \o ms
  <2>1. s2c[q] \in Seq(Line)
    BY DEF TypeOK
  <2>2. \/ j \in DOMAIN s2c[q] /\ s2c'[q][j] = s2c[q][j]
        \/ \E i \in DOMAIN ms : s2c'[q][j] = ms[i]
    BY <1>3, <2>1, ConcatElements
  <2>3. CASE j \in DOMAIN s2c[q] /\ s2c'[q][j] = s2c[q][j]
    BY <2>3 DEF LinesAsked
  <2>4. CASE \E i \in DOMAIN ms : s2c'[q][j] = ms[i]
    BY <1>3, <2>4
  <2> QED
    BY <2>2, <2>3, <2>4
<1> QED
  BY <1>1, <1>2, <1>3

\* A process is sent, and prints, only what it asked for.
LEMMA LinesStep == IInv /\ AInv /\ [Next]_vars => LinesAsked'
<1> SUFFICES ASSUME TypeOK, ReportedStaysReady, DescriptorsAgree, SessionsAgree,
                    IdComesFirst, SessionIds, ListsAsked, StoreAsked, LinesAsked, [Next]_vars
             PROVE  LinesAsked'
  BY DEF IInv, AInv
<1>0. \A id, t : Asked(typed, id, t) => Asked(typed', id, t)
  BY AskedStaysAsked
<1>1. CASE UNCHANGED <<s2c, printed>>
  BY <1>0, <1>1 DEF LinesAsked
<1>2. CASE HandleUdp
  <2> DEFINE m == Head(udp)
             news == [kind |-> "news", n |-> m.n, topic |-> m.topic]
             subs == IF m.valid THEN topics[m.topic] ELSE << >>
  <2>1. udp # << >> /\ m \in Datagram
    BY <1>2 DEF HandleUdp, Serving, ReportedStaysReady, TypeOK
  <2>2. news \in Line /\ news.topic = m.topic /\ m.topic \in Topic
    BY <2>1 DEF News, Datagram, Line
  <2>3. /\ subs = topics[m.topic] \/ subs = << >>
        /\ subs \in Seq(Subscription)
    BY <2>2 DEF TypeOK
  <2> HIDE DEF news, subs, m
  <2>4. PICK n \in Int : n <= Len(subs) /\ ServerSends(Told(subs, n), <<news>>)
    <3>1. \/ ServerSends(Told(subs, Len(subs)), <<news>>)
          \/ \E k \in DOMAIN subs : ServerSends(Told(subs, k - 1), <<news>>)
      BY <1>2 DEF HandleUdp, m, news, subs
    <3>2. Len(subs) \in Int /\ Len(subs) <= Len(subs)
      BY <2>3
    <3>3. \A k \in DOMAIN subs : k - 1 \in Int /\ k - 1 <= Len(subs)
      BY <2>3
    <3> QED
      BY <3>1, <3>2, <3>3
  <2>5. \A q \in Told(subs, n) : Asked(typed, <<IdString(Argv1[q])>>, m.topic)
    BY <2>2, <2>3, <2>4, ToldAsked
  <2>6. /\ <<news>> \in Seq(Line)
        /\ \A i \in DOMAIN <<news>> : <<news>>[i].topic = m.topic
    BY <2>2
  <2>7. UNCHANGED <<typed, printed>>
    BY <1>2 DEF HandleUdp, Serving, subVars
  <2> QED
    BY <2>4, <2>5, <2>6, <2>7, SendsAsked
<1>3. CASE RecvId
  <2>0. PICK p \in Proc : p = sock[newsockFd]
    BY <1>3 DEF RecvId, DescriptorsAgree
  <2>1. newsockFd # NoFd /\ up = "up" /\ UNCHANGED <<typed, printed>>
    BY <1>3 DEF RecvId, subVars
  <2>2. PICK k \in IdLengths(p) :
          /\ ServerReads(p, k)
          /\ Refuse(SubSeq(c2s[p], 1, k)) \/ Welcome(SubSeq(c2s[p], 1, k))
    BY <1>3, <2>0 DEF RecvId
  <2>3. PICK id : id = SubSeq(c2s[p], 1, k)
    OBVIOUS
  <2>4. CASE Refuse(id)
    <3>1. <<IdExists>> \in Seq(Line) /\ \A i \in DOMAIN <<IdExists>> : <<IdExists>>[i] \notin News
      BY KindsDiffer DEF Line
    <3>2. UNCHANGED s2c \/ ServerSends({p}, <<IdExists>>)
      BY <2>0, <2>4 DEF Refuse
    <3> QED
      BY <1>1, <2>1, <3>1, <3>2, SendsAsked
  <2>5. CASE Welcome(id)
    <3>1. Packets(id) \in Seq(Line)
      <4>1. Packets(id) \in Seq(News)
        BY DEF Packets, TypeOK, Record
      <4> QED
        BY <4>1 DEF Line
    <3>2. ASSUME NEW i \in DOMAIN Packets(id)
          PROVE  Gone(p) \/ Asked(typed, <<IdString(Argv1[p])>>, Packets(id)[i].topic)
      <4>1. Asked(typed, id, Packets(id)[i].topic)
        BY <3>2 DEF Packets, StoreAsked
      <4>2. CASE c2s[p] = << >>
        BY <2>2, <4>2, ReadCounts
      <4>3. CASE c2s[p] # << >>
        <5>1. k \in Nat /\ k # 0 /\ k <= Len(c2s[p]) /\ c2s[p] \in Seq(Segment)
          BY <2>2, <4>3, ReadCounts
        <5>2. Head(id) = Head(c2s[p])
          BY <2>3, <5>1, PrefixHead
        <5>3. Head(c2s[p]) = IdString(Argv1[p])
          BY <2>0, <2>1, <4>3 DEF IdComesFirst, Unheard
        <5> QED
          BY <4>1, <5>2, <5>3, AskedByHead
      <4> QED
        BY <4>2, <4>3
    <3>3. UNCHANGED s2c \/ ServerSends({p}, Packets(id))
      BY <2>0, <2>5 DEF Welcome
    <3> QED
      BY <1>1, <2>1, <3>1, <3>2, <3>3, SendsAsked
  <2> QED
    BY <2>2, <2>3, <2>4, <2>5
<1>4. CASE ServerExit
  <2>1. <<Exit>> \in Seq(Line) /\ \A i \in DOMAIN <<Exit>> : <<Exit>>[i] \notin News
    BY KindsDiffer DEF Line
  <2>2. PICK ps : ServerSends(ps, <<Exit>>)
    BY <1>4 DEF ServerExit
  <2>3. UNCHANGED <<typed, printed>>
    BY <1>4 DEF ServerExit, subVars
  <2> QED
    BY <2>1, <2>2, <2>3, SendsAsked
<1>5. ASSUME NEW p \in Proc, Read(p) PROVE LinesAsked'
  <2>1. /\ s2c[p] \in Seq(Line) /\ s2c[p] # << >> /\ UNCHANGED typed
        /\ printed \in [Proc -> Seq(News)]
    BY <1>5 DEF Read, ReadLine, TypeOK
  <2> DEFINE line == Head(s2c[p])
  <2>2. CASE line \in {IdExists, Exit}
    <3>1. UNCHANGED printed /\ s2c' = [s2c EXCEPT ![p] = << >>]
      BY <1>5, <2>2 DEF Read, ReadLine, ClientCloses
    <3>2. \A q \in Proc : s2c'[q] = s2c[q] \/ s2c'[q] = << >>
      BY <3>1 DEF TypeOK
    <3> QED
      BY <2>1, <3>1, <3>2 DEF LinesAsked
  <2>3. CASE line \notin {IdExists, Exit}
    <3>1. /\ printed' = [printed EXCEPT ![p] = Append(@, line)]
          /\ s2c' = [s2c EXCEPT ![p] = Tail(@)]
      BY <1>5, <2>3 DEF Read, ReadLine
    <3>2. line \in News /\ 1 \in DOMAIN s2c[p] /\ line = s2c[p][1]
      <4>1. Len(s2c[p]) \in Nat /\ Len(s2c[p]) # 0
        BY <2>1
      <4> QED
        BY <2>1, <2>3, <4>1 DEF Line
    <3>3. Asked(typed, <<IdString(Argv1[p])>>, line.topic)
      BY <3>2 DEF LinesAsked
    <3>4. /\ printed'[p] = Append(printed[p], line) /\ printed[p] \in Seq(News)
          /\ s2c'[p] = Tail(s2c[p])
          /\ \A q \in Proc : q # p => printed'[q] = printed[q] /\ s2c'[q] = s2c[q]
      BY <2>1, <3>1 DEF TypeOK
    <3> HIDE DEF line
    <3>5. \A j \in DOMAIN printed'[p] : \/ j \in DOMAIN printed[p] /\ printed'[p][j] = printed[p][j]
                                        \/ printed'[p][j] = line
      BY <3>2, <3>4, AppendElements
    <3>6. \A j \in DOMAIN s2c'[p] : j + 1 \in DOMAIN s2c[p] /\ s2c'[p][j] = s2c[p][j + 1]
      BY <2>1, <3>4, TailPlaces
    <3> QED
      BY <2>1, <3>3, <3>4, <3>5, <3>6 DEF LinesAsked
  <2> QED
    BY <2>2, <2>3
<1>6. ASSUME NEW p \in Proc, Quit(p) PROVE LinesAsked'
  <2>1. UNCHANGED <<typed, printed>> /\ \A q \in Proc : s2c'[q] = s2c[q] \/ s2c'[q] = << >>
    BY <1>6 DEF Quit, Leave, ClientCloses, TypeOK
  <2> QED
    BY <2>1 DEF LinesAsked
<1>7. ASSUME NEW p \in Proc, Start(p) \/ Identify(p) \/ Type(p) PROVE UNCHANGED <<s2c, printed>>
  BY <1>7 DEF Start, Connect, Identify, SendId, Type, TypeCommand, tcpVars
<1>8. ASSUME NEW i \in Fd, Disconnect(i) \/ RecvFails(i) \/ HandleCommand(i)
      PROVE  UNCHANGED <<s2c, printed>>
  BY <1>8 DEF Disconnect, RecvFails, HandleCommand, Serving, subVars
<1>9. CASE Select \/ Accept \/ Datagrams \/ UNCHANGED vars
  BY <1>1, <1>9 DEF Select, Accept, Serving, Datagrams, vars, tcpVars, subVars
<1> QED
  BY <1>1, <1>2, <1>3, <1>4, <1>5, <1>6, <1>7, <1>8, <1>9 DEF Next, Server

LEMMA AskedInit == Init => AInv
<1> SUFFICES ASSUME Init PROVE AInv
  OBVIOUS
<1> USE DEF Init, TcpInit, SubInit, SrvInit
<1>1. ClosedIsGone
  BY DEF ClosedIsGone, Gone
<1>2. CommandsTyped /\ LinesAsked
  BY DEF CommandsTyped, LinesAsked
<1>3. IdComesFirst
  BY DEF IdComesFirst, Unheard
<1>4. DOMAIN clientsConnected = {} /\ DOMAIN subscribers = {}
  OBVIOUS
<1>5. SessionIds /\ ListsAsked /\ StoreAsked
  BY <1>4 DEF SessionIds, ListsAsked, StoreAsked
<1> QED
  BY <1>1, <1>2, <1>3, <1>5 DEF AInv

LEMMA AskedInvariant == Spec => []AInv
<1>1. IInv /\ AInv /\ [Next]_vars => AInv'
  BY ClosedStep, CommandsStep, FirstStep, SessionIdsStep, ListsStep, StoreAskedStep,
     LinesStep DEF AInv
<1> QED
  BY <1>1, AskedInit, Invariant, PTL DEF Spec

\* Nobody is sent a message of a topic it did not ask for, under any mixing of
\* ids, descriptors reused and commands that arrive together
\* (server.cpp:209-223, 239-283, 286-371).
THEOREM OnlyAsked == Spec => []OnlyWhatWasAskedFor
<1>1. TypeOK /\ LinesAsked => OnlyWhatWasAskedFor
  <2> SUFFICES ASSUME TypeOK, LinesAsked, NEW p \in Proc,
                      NEW j \in DOMAIN (printed[p] \o s2c[p]),
                      (printed[p] \o s2c[p])[j] \in News
               PROVE  \E q \in Proc :
                        /\ Argv1[q] = Argv1[p]
                        /\ \E k \in DOMAIN typed[q] :
                             /\ typed[q][k].op = "subscribe"
                             /\ typed[q][k].topic = (printed[p] \o s2c[p])[j].topic
    BY DEF OnlyWhatWasAskedFor, Lines
  <2>1. PICK line : line = (printed[p] \o s2c[p])[j]
    OBVIOUS
  <2>2. printed[p] \in Seq(Line) /\ s2c[p] \in Seq(Line)
    <3>1. printed[p] \in Seq(News) /\ s2c[p] \in Seq(Line)
      BY DEF TypeOK
    <3> QED
      BY <3>1 DEF Line
  <2>3. \/ j \in DOMAIN printed[p] /\ line = printed[p][j]
        \/ \E i \in DOMAIN s2c[p] : line = s2c[p][i]
    <3>1. ASSUME NEW a \in Seq(Line), NEW b \in Seq(Line), NEW l \in DOMAIN (a \o b)
          PROVE  \/ l \in DOMAIN a /\ (a \o b)[l] = a[l]
                 \/ \E i \in DOMAIN b : (a \o b)[l] = b[i]
      BY ONLY a \in Seq(Line), b \in Seq(Line), l \in DOMAIN (a \o b), ConcatElements
    <3>2. \/ j \in DOMAIN printed[p] /\ (printed[p] \o s2c[p])[j] = printed[p][j]
          \/ \E i \in DOMAIN s2c[p] : (printed[p] \o s2c[p])[j] = s2c[p][i]
      BY <2>2, <3>1, Zenon
    <3> QED
      BY <2>1, <3>2, Zenon
  <2>4. Asked(typed, <<IdString(Argv1[p])>>, line.topic)
    BY <2>1, <2>3 DEF LinesAsked
  <2>5. PICK q \in Proc :
          /\ Head(<<IdString(Argv1[p])>>) = IdString(Argv1[q])
          /\ \E k \in DOMAIN typed[q] : /\ typed[q][k].op = "subscribe"
                                        /\ typed[q][k].topic = line.topic
    BY <2>4 DEF Asked
  <2>6. IdString(Argv1[p]).id = Argv1[p] /\ IdString(Argv1[q]).id = Argv1[q]
    BY DEF IdString
  <2>7. Argv1[q] = Argv1[p]
    <3>1. Head(<<IdString(Argv1[p])>>) = IdString(Argv1[p])
      OBVIOUS
    <3> QED
      BY <2>5, <2>6, <3>1
  <2> QED
    BY <2>1, <2>5, <2>7
<1>2. IInv => TypeOK
  BY DEF IInv
<1>3. AInv => LinesAsked
  BY DEF AInv
<1> QED
  BY <1>1, <1>2, <1>3, Invariant, AskedInvariant, PTL

(***************************************************************************)
(* The order of publication: OInv is inductive, given IInv and AInv.       *)
(***************************************************************************)

\* What is known of lines is known of their beginning.
LEMMA BeginningOfLines ==
  ASSUME NEW a \in Seq(Line), NEW b \in Seq(Line)
  PROVE  /\ InOrder(a \o b) => InOrder(a)
         /\ \A waiting, n : Served(a \o b, waiting, n) => Served(a, waiting, n)
         /\ NoNews(a \o b) => NoNews(a)
         /\ \A later : Before(a \o b, later) => Before(a, later)
<1>1. \A j \in DOMAIN a : j \in DOMAIN (a \o b) /\ (a \o b)[j] = a[j]
  OBVIOUS
<1> QED
  BY <1>1, Zenon DEF InOrder, Served, NoNews, Before

\* What is known of two sequences of lines is known of one after the other.
LEMMA LinesOneAfterOther ==
  ASSUME NEW a \in Seq(Line), NEW b \in Seq(Line)
  PROVE  /\ (InOrder(a) /\ InOrder(b) /\ Before(a, b)) => InOrder(a \o b)
         /\ \A waiting, n : (Served(a, waiting, n) /\ Served(b, waiting, n))
                              => Served(a \o b, waiting, n)
         /\ (NoNews(a) /\ NoNews(b)) => NoNews(a \o b)
         /\ \A later : (Before(a, later) /\ Before(b, later)) => Before(a \o b, later)
         /\ \A earlier : (Before(earlier, a) /\ Before(earlier, b)) => Before(earlier, a \o b)
<1>1. \A j \in DOMAIN (a \o b) : \/ j \in DOMAIN a /\ (a \o b)[j] = a[j]
                                 \/ \E i \in DOMAIN b : (a \o b)[j] = b[i]
  BY ConcatElements
<1>2. /\ \A waiting, n : (Served(a, waiting, n) /\ Served(b, waiting, n))
                           => Served(a \o b, waiting, n)
      /\ (NoNews(a) /\ NoNews(b)) => NoNews(a \o b)
  BY <1>1, Zenon DEF Served, NoNews
<1>3. \A later : (Before(a, later) /\ Before(b, later)) => Before(a \o b, later)
  BY <1>1, Zenon DEF Before
<1>4. \A earlier : (Before(earlier, a) /\ Before(earlier, b)) => Before(earlier, a \o b)
  BY <1>1, Zenon DEF Before
<1>5. ASSUME InOrder(a), InOrder(b), Before(a, b) PROVE InOrder(a \o b)
  <2> SUFFICES ASSUME NEW j \in DOMAIN (a \o b), NEW k \in DOMAIN (a \o b), j < k,
                      (a \o b)[j] \in News, (a \o b)[k] \in News
               PROVE  (a \o b)[j].n < (a \o b)[k].n
    BY DEF InOrder
  <2>1. /\ Len(a) \in Nat /\ Len(b) \in Nat
        /\ j \in 1..(Len(a) + Len(b)) /\ k \in 1..(Len(a) + Len(b))
        /\ DOMAIN a = 1..Len(a) /\ DOMAIN b = 1..Len(b)
    OBVIOUS
  <2>2. \A l \in 1..(Len(a) + Len(b)) :
          IF l <= Len(a) THEN l \in DOMAIN a /\ (a \o b)[l] = a[l]
                         ELSE l - Len(a) \in DOMAIN b /\ (a \o b)[l] = b[l - Len(a)]
    BY <2>1
  <2>3. CASE k <= Len(a)
    <3>1. j <= Len(a)
      BY <2>1, <2>3
    <3> QED
      BY <1>5, <2>1, <2>2, <2>3, <3>1 DEF InOrder
  <2>4. CASE ~(k <= Len(a)) /\ j <= Len(a)
    BY <1>5, <2>1, <2>2, <2>4 DEF Before
  <2>5. CASE ~(j <= Len(a))
    <3>1. ~(k <= Len(a)) /\ j - Len(a) < k - Len(a)
      BY <2>1, <2>5
    <3> QED
      BY <1>5, <2>1, <2>2, <2>5, <3>1 DEF InOrder
  <2> QED
    BY <2>3, <2>4, <2>5
<1> QED
  BY <1>2, <1>3, <1>4, <1>5

\* Flags of the server, or nothing, are in any order.
LEMMA NoNewsIsInOrder ==
  ASSUME NEW a, NEW b, NoNews(b)
  PROVE  InOrder(b) /\ Before(a, b) /\ Before(b, a) /\ \A waiting, n : Served(b, waiting, n)
  BY DEF NoNews, InOrder, Before, Served

LEMMA NothingIsNoNews == NoNews(<< >>)
  BY DEF NoNews

\* The message HandleUdp serves.
HeadNews == [kind |-> "news", n |-> Head(udp).n, topic |-> Head(udp).topic]

LEMMA HeadNewsFacts ==
  ASSUME TypeOK, ReportedStaysReady, HandleUdp
  PROVE  /\ udp # << >> /\ Head(udp) \in Datagram /\ udp' = Tail(udp)
         /\ UNCHANGED published
         /\ HeadNews \in News /\ HeadNews \in Line
         /\ HeadNews.n = udp[1].n /\ 1 \in DOMAIN udp /\ HeadNews.topic \in Topic
<1>1. udp # << >> /\ udp \in Seq(Datagram) /\ udp' = Tail(udp) /\ UNCHANGED published
  BY DEF HandleUdp, Serving, ReportedStaysReady, TypeOK
<1>2. Head(udp) \in Datagram /\ Head(udp) = udp[1] /\ 1 \in DOMAIN udp
  <2>1. Len(udp) \in Nat /\ Len(udp) # 0
    BY <1>1
  <2> QED
    BY <1>1, <2>1
<1> QED
  BY <1>1, <1>2 DEF HeadNews, Datagram, News, Line

\* The buffer is filled at its end, with the next number, and emptied at its head.
LEMMA BufferKinds ==
  ASSUME IInv, [Next]_vars
  PROVE  \/ udp' = udp /\ published' = published
         \/ HandleUdp
         \/ /\ published' = published + 1
            /\ \E d \in Datagram : d.n = published + 1 /\ udp' = Append(udp, d)
<1>1. CASE Datagrams
  <2>1. PICK t \in Topic, valid \in BOOLEAN : Publish(t, valid)
    BY <1>1 DEF Datagrams
  <2>2. published \in Nat
    BY DEF IInv, TypeOK
  <2>3. [n |-> published + 1, topic |-> t, valid |-> valid] \in Datagram
    BY <2>2 DEF Datagram
  <2> QED
    BY <2>1, <2>3 DEF Publish
<1>2. CASE Select \/ Accept \/ RecvId \/ ServerExit \/ UNCHANGED vars
  BY <1>2 DEF Select, Accept, RecvId, ServerExit, Serving, vars, pubVars
<1>3. ASSUME NEW i \in Fd, Disconnect(i) \/ RecvFails(i) \/ HandleCommand(i)
      PROVE  udp' = udp /\ published' = published
  BY <1>3 DEF Disconnect, RecvFails, HandleCommand, Serving
<1>4. ASSUME NEW p \in Proc, Start(p) \/ Identify(p) \/ Read(p) \/ Type(p) \/ Quit(p)
      PROVE  udp' = udp /\ published' = published
  BY <1>4 DEF Start, Identify, Read, Type, Quit, pubVars
<1> QED
  BY <1>1, <1>2, <1>3, <1>4 DEF Next, Server

\* The buffer stays in order, and what was served stays older than what waits.
LEMMA BufferStep ==
  ASSUME IInv, BufferInOrder, [Next]_vars
  PROVE  /\ BufferInOrder'
         /\ \A lines : Served(lines, udp, published) => Served(lines, udp', published')
<1>0. /\ TypeOK /\ ReportedStaysReady /\ udp \in Seq(Datagram) /\ published \in Nat
      /\ Len(udp) \in Nat /\ DOMAIN udp = 1..Len(udp)
      /\ \A j \in DOMAIN udp : udp[j].n \in Nat
      /\ \A l \in News : l.n \in Nat
  <2>1. TypeOK /\ ReportedStaysReady /\ udp \in Seq(Datagram) /\ published \in Nat
    BY DEF IInv, TypeOK
  <2>2. \A j \in DOMAIN udp : udp[j] \in Datagram
    BY <2>1
  <2> QED
    BY <2>1, <2>2 DEF Datagram, News
<1>1. CASE udp' = udp /\ published' = published
  BY <1>1 DEF BufferInOrder
<1>2. CASE HandleUdp
  <2>1. udp # << >> /\ udp' = Tail(udp) /\ UNCHANGED published
    BY <1>0, <1>2, HeadNewsFacts
  <2>2. \A j \in DOMAIN udp' : /\ j \in Nat /\ j + 1 \in DOMAIN udp
                               /\ udp'[j] = udp[j + 1]
    BY <1>0, <2>1, TailPlaces
  <2>3. BufferInOrder'
    BY <2>1, <2>2 DEF BufferInOrder
  <2>4. \A lines : Served(lines, udp, published) => Served(lines, udp', published')
    BY <2>1, <2>2 DEF Served
  <2> QED
    BY <2>3, <2>4
<1>3. CASE /\ published' = published + 1
           /\ \E d \in Datagram : d.n = published + 1 /\ udp' = Append(udp, d)
  <2>1. PICK d \in Datagram : d.n = published + 1 /\ udp' = Append(udp, d)
    BY <1>3
  <2>2. /\ DOMAIN udp' = 1..(Len(udp) + 1)
        /\ \A j \in 1..Len(udp) : udp'[j] = udp[j]
        /\ udp'[Len(udp) + 1] = d
    BY <1>0, <2>1
  <2>3. \A j \in DOMAIN udp : udp[j].n < d.n
    BY <1>0, <2>1 DEF BufferInOrder
  <2>4. BufferInOrder'
    <3>1. ASSUME NEW j \in DOMAIN udp', NEW k \in DOMAIN udp', j < k
          PROVE  udp'[j].n < udp'[k].n
      <4>1. j \in DOMAIN udp
        BY <1>0, <2>2, <3>1
      <4>2. CASE k \in DOMAIN udp
        BY <1>0, <2>2, <3>1, <4>1, <4>2 DEF BufferInOrder
      <4>3. CASE k \notin DOMAIN udp
        <5>1. k = Len(udp) + 1
          BY <1>0, <2>2, <4>3
        <5> QED
          BY <1>0, <2>2, <2>3, <4>1, <5>1
      <4> QED
        BY <4>2, <4>3
    <3>2. ASSUME NEW j \in DOMAIN udp' PROVE udp'[j].n <= published'
      <4>1. CASE j \in DOMAIN udp
        BY <1>0, <1>3, <2>2, <4>1 DEF BufferInOrder
      <4>2. CASE j \notin DOMAIN udp
        <5>1. udp'[j] = d
          BY <1>0, <2>2, <4>2
        <5> QED
          BY <1>0, <1>3, <2>1, <5>1
      <4> QED
        BY <4>1, <4>2
    <3> QED
      BY <3>1, <3>2 DEF BufferInOrder
  <2>5. ASSUME NEW lines, Served(lines, udp, published)
        PROVE  Served(lines, udp', published')
    <3> SUFFICES ASSUME NEW j \in DOMAIN lines, lines[j] \in News
                 PROVE  /\ lines[j].n <= published'
                        /\ \A k \in DOMAIN udp' : lines[j].n < udp'[k].n
      BY DEF Served
    <3>1. /\ lines[j].n \in Nat /\ lines[j].n <= published
          /\ \A k \in DOMAIN udp : lines[j].n < udp[k].n
      BY <1>0, <2>5 DEF Served
    <3>2. lines[j].n <= published' /\ lines[j].n < d.n
      BY <1>0, <1>3, <2>1, <3>1
    <3>3. \A k \in DOMAIN udp' : (k \in DOMAIN udp /\ udp'[k] = udp[k]) \/ udp'[k] = d
      BY <1>0, <2>2
    <3> QED
      BY <3>1, <3>2, <3>3
  <2> QED
    BY <2>4, <2>5
<1> QED
  BY <1>1, <1>2, <1>3, BufferKinds

\* The message that is served is newer than all that were, older than the rest.
LEMMA HeadNewsOrder ==
  ASSUME IInv, BufferInOrder, HandleUdp
  PROVE  /\ \A lines : Served(lines, udp, published) => Before(lines, <<HeadNews>>)
         /\ InOrder(<<HeadNews>>) /\ Served(<<HeadNews>>, udp', published')
<1>0. TypeOK /\ ReportedStaysReady
  BY DEF IInv
<1>1. \A lines : Served(lines, udp, published) => Before(lines, <<HeadNews>>)
  BY <1>0, HeadNewsFacts DEF Served, Before
<1>2. InOrder(<<HeadNews>>)
  BY DEF InOrder
<1>3. \A j \in DOMAIN udp' : /\ j \in Nat /\ j # 0 /\ j + 1 \in DOMAIN udp
                             /\ udp'[j] = udp[j + 1]
  <2>1. udp # << >> /\ udp' = Tail(udp) /\ udp \in Seq(Datagram)
    BY <1>0, HeadNewsFacts DEF TypeOK
  <2> QED
    BY <2>1, TailPlaces
<1>4. \A j \in DOMAIN udp' : HeadNews.n < udp'[j].n
  <2> SUFFICES ASSUME NEW j \in DOMAIN udp' PROVE HeadNews.n < udp'[j].n
    OBVIOUS
  <2>1. 1 \in DOMAIN udp /\ j + 1 \in DOMAIN udp /\ 1 < j + 1
    BY <1>0, <1>3, HeadNewsFacts
  <2>2. udp[1].n < udp[j + 1].n
    BY <2>1 DEF BufferInOrder
  <2> QED
    BY <1>0, <1>3, <2>2, HeadNewsFacts
<1>5. HeadNews.n <= published'
  BY <1>0, HeadNewsFacts DEF BufferInOrder
<1>6. Served(<<HeadNews>>, udp', published')
  BY <1>4, <1>5 DEF Served
<1> QED
  BY <1>1, <1>2, <1>6

\* What a step does to the lines of p: some are lost as p closes, or none
\* change; p is sent flags; p is sent the message served; p, just welcomed, is
\* sent the store of its id.
Shrunk(p) == /\ Lines(p)' \in Seq(Line)
             /\ \E b \in Seq(Line) : Lines(p) = Lines(p)' \o b
Flagged(p) == \E b \in Seq(Line) : NoNews(b) /\ Lines(p)' = Lines(p) \o b
Notified(p) == /\ HandleUdp /\ ~Unheard(p)
               /\ \E id \in IdsOf(p) : Connected(id)
               /\ Lines(p)' = Lines(p) \o <<HeadNews>>
Supplied(p) == /\ up = "up" /\ Unheard(p) /\ ~Unheard(p)'
               /\ \E id \in ClientID :
                    /\ id # << >> /\ Head(id) = IdString(Argv1[p])
                    /\ subscribers' = Put(subscribers, id, Session(id))
                    /\ Lines(p)' = Lines(p) \o Packets(id)

LEMMA LinesType ==
  ASSUME TypeOK, NEW p \in Proc
  PROVE  /\ printed[p] \in Seq(Line) /\ s2c[p] \in Seq(Line) /\ Lines(p) \in Seq(Line)
<1>1. printed[p] \in Seq(News) /\ s2c[p] \in Seq(Line)
  BY DEF TypeOK
<1>2. printed[p] \in Seq(Line)
  BY <1>1 DEF Line
<1> QED
  BY <1>1, <1>2 DEF Lines

LEMMA SameLines ==
  ASSUME TypeOK, NEW p \in Proc, printed'[p] = printed[p], s2c'[p] = s2c[p]
  PROVE  Shrunk(p)
<1>1. Lines(p)' = Lines(p) /\ Lines(p) \in Seq(Line)
  BY LinesType DEF Lines
<1>2. << >> \in Seq(Line) /\ Lines(p) = Lines(p) \o << >>
  BY <1>1
<1> QED
  BY <1>1, <1>2 DEF Shrunk

\* What is sent is put after all the lines there are.
LEMMA SentLines ==
  ASSUME TypeOK, NEW p \in Proc, UNCHANGED printed, NEW ps, NEW ms \in Seq(Line),
         ServerSends(ps, ms)
  PROVE  Shrunk(p) \/ (p \in ps /\ ~Gone(p) /\ Lines(p)' = Lines(p) \o ms)
<1>1. s2c'[p] = s2c[p] \/ (p \in ps /\ ~Gone(p) /\ s2c'[p] = s2c[p] \o ms)
  BY DEF ServerSends, Stream
<1>2. CASE s2c'[p] = s2c[p]
  BY <1>2, SameLines
<1>3. CASE p \in ps /\ ~Gone(p) /\ s2c'[p] = s2c[p] \o ms
  <2>1. PICK a \in Seq(Line), b \in Seq(Line) : a = printed[p] /\ b = s2c[p]
    BY LinesType
  <2>2. a \o (b \o ms) = (a \o b) \o ms
    OBVIOUS
  <2> QED
    BY <1>3, <2>1, <2>2 DEF Lines
<1> QED
  BY <1>1, <1>2, <1>3

\* The processes whose streams HandleUdp writes to.
LEMMA UdpLines ==
  ASSUME IInv, AInv, HandleUdp, NEW p \in Proc
  PROVE  Shrunk(p) \/ Notified(p)
<1>0. /\ TypeOK /\ ReportedStaysReady /\ DescriptorsAgree /\ SessionsAgree
      /\ SessionIds /\ ListsAsked /\ newsockFd = NoFd
  BY DEF IInv, AInv, HandleUdp, Serving
<1> DEFINE m == Head(udp)
           subs == IF m.valid THEN topics[m.topic] ELSE << >>
<1>1. m \in Datagram /\ m.topic \in Topic /\ HeadNews \in Line /\ <<HeadNews>> \in Seq(Line)
  BY <1>0, HeadNewsFacts DEF HeadNews
<1>2. /\ subs = topics[m.topic] \/ subs = << >>
      /\ subs \in Seq(Subscription)
  BY <1>0, <1>1 DEF TypeOK
<1> HIDE DEF subs, m
<1>3. PICK n \in Int : n <= Len(subs) /\ ServerSends(Told(subs, n), <<HeadNews>>)
  <2>1. \/ ServerSends(Told(subs, Len(subs)), <<HeadNews>>)
        \/ \E k \in DOMAIN subs : ServerSends(Told(subs, k - 1), <<HeadNews>>)
    BY DEF HandleUdp, m, subs, HeadNews
  <2>2. Len(subs) \in Int /\ Len(subs) <= Len(subs)
    BY <1>2
  <2>3. \A k \in DOMAIN subs : k - 1 \in Int /\ k - 1 <= Len(subs)
    BY <1>2
  <2> QED
    BY <2>1, <2>2, <2>3
<1>4. UNCHANGED printed
  BY DEF HandleUdp, Serving, subVars
<1>5. Shrunk(p) \/ (p \in Told(subs, n) /\ Lines(p)' = Lines(p) \o <<HeadNews>>)
  BY <1>0, <1>1, <1>3, <1>4, SentLines
<1>6. CASE p \in Told(subs, n) /\ Lines(p)' = Lines(p) \o <<HeadNews>>
  <2>1. PICK id \in ClientID :
          /\ Connected(id) /\ id \in IdsOf(p)
          /\ \E fd \in Fd : fd \in DOMAIN clientsConnected /\ sock[fd] = p
    BY <1>0, <1>1, <1>2, <1>3, <1>6, ToldHaveSessions
  <2>2. PICK fd \in Fd : sock[fd] = p
    BY <2>1
  <2>3. ~Unheard(sock[fd])
    BY <1>0, <2>2, HeardOnDescriptor
  <2>4. ~Unheard(p)
    BY <2>2, <2>3
  <2> QED
    BY <1>6, <2>1, <2>4 DEF Notified
<1> QED
  BY <1>5, <1>6

\* RecvId writes to the process it reads of.
LEMMA RecvIdLines ==
  ASSUME IInv, AInv, RecvId, NEW p \in Proc
  PROVE  Shrunk(p) \/ Flagged(p) \/ Supplied(p)
<1>0. /\ TypeOK /\ DescriptorsAgree /\ IdComesFirst /\ up = "up" /\ newsockFd # NoFd
      /\ newsockFd \in Fd /\ newsockFd' = NoFd
      /\ UNCHANGED <<printed, pstate, backlog, sock>>
  BY DEF IInv, AInv, RecvId, subVars, TypeOK
<1>1. PICK q \in Proc : q = sock[newsockFd]
  BY <1>0 DEF DescriptorsAgree
<1>2. PICK k \in IdLengths(q) :
        /\ ServerReads(q, k)
        /\ Refuse(SubSeq(c2s[q], 1, k)) \/ Welcome(SubSeq(c2s[q], 1, k))
  BY <1>1 DEF RecvId
<1>3. PICK id : id = SubSeq(c2s[q], 1, k)
  OBVIOUS
<1>4. CASE Refuse(id)
  <2>1. <<IdExists>> \in Seq(Line) /\ NoNews(<<IdExists>>)
    BY KindsDiffer DEF Line, NoNews
  <2>2. UNCHANGED s2c \/ ServerSends({q}, <<IdExists>>)
    BY <1>1, <1>4 DEF Refuse
  <2>3. Shrunk(p) \/ Lines(p)' = Lines(p) \o <<IdExists>>
    BY <1>0, <2>1, <2>2, SameLines, SentLines
  <2> QED
    BY <2>1, <2>3 DEF Flagged
<1>5. CASE Welcome(id)
  <2>1. Packets(id) \in Seq(Line)
    <3>1. Packets(id) \in Seq(News)
      BY <1>0 DEF Packets, TypeOK, Record
    <3> QED
      BY <3>1 DEF Line
  <2>2. UNCHANGED s2c \/ ServerSends({q}, Packets(id))
    BY <1>1, <1>5 DEF Welcome
  <2>3. Shrunk(p) \/ (p = q /\ ~Gone(p) /\ Lines(p)' = Lines(p) \o Packets(id))
    BY <1>0, <2>1, <2>2, SameLines, SentLines
  <2>4. CASE p = q /\ ~Gone(p) /\ Lines(p)' = Lines(p) \o Packets(id)
    <3>1. Unheard(p)
      BY <1>0, <1>1, <2>4 DEF Unheard
    <3>2. ~Unheard(p)'
      BY <1>0, <1>1, <2>4 DEF Unheard, DescriptorsAgree
    <3>3. k \in Nat /\ k # 0 /\ k <= Len(c2s[p]) /\ c2s[p] \in Seq(Segment) /\ c2s[p] # << >>
      BY <1>0, <1>2, <2>4, ReadCounts
    <3>4. id # << >> /\ Head(id) = Head(c2s[p]) /\ id \in ClientID
      <4>1. SubSeq(c2s[p], 1, k) \in Seq(Segment)
        BY <3>3
      <4> QED
        BY <1>3, <2>4, <3>3, <4>1, PrefixHead DEF ClientID
    <3>5. Head(c2s[p]) = IdString(Argv1[p])
      BY <1>0, <3>1, <3>3 DEF IdComesFirst
    <3>6. subscribers' = Put(subscribers, id, Session(id))
      BY <1>5 DEF Welcome
    <3> QED
      BY <1>0, <2>4, <3>1, <3>2, <3>4, <3>5, <3>6 DEF Supplied
  <2> QED
    BY <2>3, <2>4
<1> QED
  BY <1>2, <1>3, <1>4, <1>5

LEMMA LineKinds ==
  ASSUME IInv, AInv, [Next]_vars, NEW p \in Proc
  PROVE  Shrunk(p) \/ Flagged(p) \/ Notified(p) \/ Supplied(p)
<1>0. TypeOK
  BY DEF IInv
<1>1. CASE HandleUdp
  BY <1>1, UdpLines
<1>2. CASE RecvId
  BY <1>2, RecvIdLines
<1>3. CASE ServerExit
  <2>1. <<Exit>> \in Seq(Line) /\ NoNews(<<Exit>>)
    BY KindsDiffer DEF Line, NoNews
  <2>2. PICK ps : ServerSends(ps, <<Exit>>)
    BY <1>3 DEF ServerExit
  <2>3. UNCHANGED printed
    BY <1>3 DEF ServerExit, subVars
  <2>4. Shrunk(p) \/ Lines(p)' = Lines(p) \o <<Exit>>
    BY <1>0, <2>1, <2>2, <2>3, SentLines
  <2> QED
    BY <2>1, <2>4 DEF Flagged
<1>4. ASSUME s2c' = [s2c EXCEPT ![p] = << >>], UNCHANGED printed
      PROVE  Shrunk(p)
  <2>1. s2c'[p] = << >>
    BY <1>0, <1>4 DEF TypeOK
  <2>2. PICK a \in Seq(Line), b \in Seq(Line) : a = printed[p] /\ b = s2c[p]
    BY <1>0, LinesType
  <2>3. a \o << >> = a
    OBVIOUS
  <2>4. Lines(p)' = a /\ Lines(p) = a \o b
    BY <1>4, <2>1, <2>2, <2>3 DEF Lines
  <2> QED
    BY <2>4 DEF Shrunk
<1>5. ASSUME NEW q \in Proc, Read(q) PROVE Shrunk(p)
  <2>1. CASE q # p
    <3>1. printed'[p] = printed[p] /\ s2c'[p] = s2c[p]
      BY <1>0, <1>5, <2>1 DEF Read, ReadLine, ClientCloses, TypeOK
    <3> QED
      BY <1>0, <3>1, SameLines
  <2>2. CASE q = p
    <3>1. CASE Head(s2c[p]) \in {IdExists, Exit}
      BY <1>4, <1>5, <2>2, <3>1 DEF Read, ReadLine, ClientCloses
    <3>2. CASE Head(s2c[p]) \notin {IdExists, Exit}
      <4>1. /\ printed' = [printed EXCEPT ![p] = Append(@, Head(s2c[p]))]
            /\ s2c' = [s2c EXCEPT ![p] = Tail(@)] /\ s2c[p] # << >>
        BY <1>5, <2>2, <3>2 DEF Read, ReadLine
      <4>2. /\ printed'[p] = Append(printed[p], Head(s2c[p]))
            /\ s2c'[p] = Tail(s2c[p])
        BY <1>0, <4>1 DEF TypeOK
      <4>3. PICK a \in Seq(Line), b \in Seq(Line) : a = printed[p] /\ b = s2c[p]
        BY <1>0, LinesType
      <4>4. b # << >> => Append(a, Head(b)) \o Tail(b) = a \o b
        OBVIOUS
      <4>5. Lines(p)' = a \o b /\ Lines(p) = a \o b
        BY <4>1, <4>2, <4>3, <4>4 DEF Lines
      <4>6. a \o b \in Seq(Line) /\ << >> \in Seq(Line) /\ a \o b = (a \o b) \o << >>
        OBVIOUS
      <4> QED
        BY <4>5, <4>6 DEF Shrunk
    <3> QED
      BY <3>1, <3>2
  <2> QED
    BY <2>1, <2>2
<1>6. ASSUME NEW q \in Proc, Quit(q) PROVE Shrunk(p)
  <2>1. CASE q # p
    <3>1. printed'[p] = printed[p] /\ s2c'[p] = s2c[p]
      BY <1>0, <1>6, <2>1 DEF Quit, Leave, ClientCloses, TypeOK
    <3> QED
      BY <1>0, <3>1, SameLines
  <2> QED
    BY <1>4, <1>6, <2>1 DEF Quit, Leave, ClientCloses
<1>7. ASSUME NEW q \in Proc, Start(q) \/ Identify(q) \/ Type(q) PROVE UNCHANGED <<s2c, printed>>
  BY <1>7 DEF Start, Connect, Identify, SendId, Type, TypeCommand, tcpVars
<1>8. ASSUME NEW i \in Fd, Disconnect(i) \/ RecvFails(i) \/ HandleCommand(i)
      PROVE  UNCHANGED <<s2c, printed>>
  BY <1>8 DEF Disconnect, RecvFails, HandleCommand, Serving, subVars
<1>9. CASE Select \/ Accept \/ Datagrams \/ UNCHANGED vars
  BY <1>0, <1>9, SameLines DEF Select, Accept, Serving, Datagrams, vars, tcpVars, subVars
<1> QED
  BY <1>0, <1>1, <1>2, <1>3, <1>5, <1>6, <1>7, <1>8, <1>9, SameLines DEF Next, Server

\* What a step does to the store of id: nothing, or it is empty because id was
\* just welcomed, or the message served is added for one that is absent.
StoreSame(id) == id \in DOMAIN subscribers /\ subscribers'[id].packets = subscribers[id].packets
StoreAdded(id) == /\ HandleUdp /\ id \in DOMAIN subscribers /\ ~Connected(id)
                  /\ subscribers'[id].packets = Append(subscribers[id].packets, HeadNews)

LEMMA StoreKinds ==
  ASSUME IInv, [Next]_vars, NEW id \in DOMAIN subscribers'
  PROVE  \/ StoreSame(id) /\ (subscribers'[id].connected => subscribers[id].connected)
         \/ subscribers'[id].packets = << >>
         \/ StoreAdded(id) /\ ~subscribers'[id].connected
<1>0. TypeOK /\ \A x \in DOMAIN subscribers : subscribers[x] \in Record
  BY DEF IInv, TypeOK
<1>1. CASE UNCHANGED subscribers
  BY <1>1 DEF StoreSame
<1>2. CASE HandleUdp
  <2> DEFINE m == Head(udp)
             subs == IF m.valid THEN topics[m.topic] ELSE << >>
  <2> HIDE DEF subs, m
  <2>1. CASE subscribers' = [x \in DOMAIN subscribers |->
                 IF StoreFor(subs, x)
                   THEN [subscribers[x] EXCEPT !.packets = Append(@, HeadNews)]
                   ELSE subscribers[x]]
    <3>1. id \in DOMAIN subscribers
      BY <2>1
    <3>2. CASE StoreFor(subs, id)
      <4>1. ~Connected(id)
        BY <3>2 DEF StoreFor
      <4>2. subscribers'[id] = [subscribers[id] EXCEPT !.packets = Append(@, HeadNews)]
        BY <2>1, <3>1, <3>2
      <4>3. /\ subscribers'[id].packets = Append(subscribers[id].packets, HeadNews)
            /\ subscribers'[id].connected = subscribers[id].connected
        BY <1>0, <3>1, <4>2 DEF Record
      <4> QED
        BY <1>2, <3>1, <4>1, <4>3 DEF StoreAdded, Connected
    <3>3. CASE ~StoreFor(subs, id)
      BY <2>1, <3>1, <3>3 DEF StoreSame
    <3> QED
      BY <3>1, <3>2, <3>3
  <2> QED
    BY <1>1, <1>2, <2>1 DEF HandleUdp, Die, HeadNews, m, subs
<1>3. CASE RecvId
  <2>1. PICK new : Refuse(new) \/ Welcome(new)
    BY <1>3 DEF RecvId
  <2>2. CASE Refuse(new)
    BY <1>1, <2>2 DEF Refuse
  <2>3. CASE Welcome(new)
    <3>1. subscribers' = Put(subscribers, new, Session(new))
      BY <2>3 DEF Welcome
    <3>2. Session(new).packets = << >>
      BY DEF Session
    <3>3. \/ subscribers'[id] = Session(new)
          \/ id \in DOMAIN subscribers /\ subscribers'[id] = subscribers[id]
      BY <3>1 DEF Put
    <3> QED
      BY <3>2, <3>3 DEF StoreSame
  <2> QED
    BY <2>1, <2>2, <2>3
<1>4. ASSUME NEW i \in Fd, Disconnect(i)
      PROVE  StoreSame(id) /\ (subscribers'[id].connected => subscribers[id].connected)
  <2>1. \/ UNCHANGED subscribers
        \/ subscribers' = Disconnected(clientsConnected[i])
    BY <1>4 DEF Disconnect
  <2>2. CASE subscribers' = Disconnected(clientsConnected[i])
    <3>1. id \in DOMAIN subscribers
      BY <2>2 DEF Disconnected
    <3>2. /\ subscribers'[id].packets = subscribers[id].packets
          /\ subscribers'[id].connected => subscribers[id].connected
      BY <1>0, <2>2, <3>1 DEF Disconnected, Record
    <3> QED
      BY <3>1, <3>2 DEF StoreSame
  <2> QED
    BY <2>1, <2>2 DEF StoreSame
<1>5. ASSUME NEW i \in Fd, RecvFails(i) \/ HandleCommand(i) PROVE UNCHANGED subscribers
  BY <1>5 DEF RecvFails, Die, HandleCommand
<1>6. CASE Select \/ Accept \/ ServerExit \/ Datagrams \/ UNCHANGED vars
  BY <1>1, <1>6 DEF Select, Accept, Die, ServerExit, Datagrams, vars, srvVars
<1>7. ASSUME NEW p \in Proc, Start(p) \/ Identify(p) \/ Read(p) \/ Type(p) \/ Quit(p)
      PROVE  UNCHANGED subscribers
  BY <1>7 DEF Start, Identify, Read, Type, Quit, srvVars
<1> QED
  BY <1>1, <1>2, <1>3, <1>4, <1>5, <1>6, <1>7 DEF Next, Server

\* An id that the server has known it knows for good (server.cpp:258-269).
LEMMA SubscribersStay ==
  ASSUME [Next]_vars
  PROVE  DOMAIN subscribers \subseteq DOMAIN subscribers'
<1>1. CASE HandleUdp
  BY <1>1 DEF HandleUdp, Die
<1>2. CASE RecvId
  BY <1>2 DEF RecvId, Refuse, Welcome, Put
<1>3. ASSUME NEW i \in Fd, Disconnect(i) \/ RecvFails(i) \/ HandleCommand(i)
      PROVE  DOMAIN subscribers \subseteq DOMAIN subscribers'
  BY <1>3 DEF Disconnect, Disconnected, RecvFails, HandleCommand, Die
<1>4. CASE Select \/ Accept \/ ServerExit \/ Datagrams \/ UNCHANGED vars
  BY <1>4 DEF Select, Accept, Die, ServerExit, Datagrams, vars, srvVars
<1>5. ASSUME NEW p \in Proc, Start(p) \/ Identify(p) \/ Read(p) \/ Type(p) \/ Quit(p)
      PROVE  UNCHANGED subscribers
  BY <1>5 DEF Start, Identify, Read, Type, Quit, srvVars
<1> QED
  BY <1>1, <1>2, <1>3, <1>4, <1>5 DEF Next, Server

\* A process whose stream is extended by what is stored for its id had nothing.
LEMMA SuppliedFacts ==
  ASSUME IInv, OInv, NEW p \in Proc, Supplied(p)
  PROVE  /\ NoNews(Lines(p))
         /\ \E id \in ClientID :
              /\ Packets(id) \in Seq(Line) /\ Lines(p)' = Lines(p) \o Packets(id)
              /\ InOrder(Packets(id)) /\ Served(Packets(id), udp, published)
              /\ id \in IdsOf(p)' /\ subscribers'[id].packets = << >>
<1>1. NoNews(Lines(p))
  BY DEF Supplied, OInv, NewcomersHaveNone
<1>2. PICK id \in ClientID :
        /\ id # << >> /\ Head(id) = IdString(Argv1[p])
        /\ subscribers' = Put(subscribers, id, Session(id))
        /\ Lines(p)' = Lines(p) \o Packets(id)
  BY DEF Supplied
<1>3. Packets(id) \in Seq(Line)
  <2>1. Packets(id) \in Seq(News)
    BY DEF Packets, IInv, TypeOK, Record
  <2> QED
    BY <2>1 DEF Line
<1>4. InOrder(Packets(id)) /\ Served(Packets(id), udp, published)
  <2>1. CASE id \in DOMAIN subscribers
    BY <2>1 DEF Packets, OInv, StoreInOrder
  <2>2. CASE id \notin DOMAIN subscribers
    BY <2>2, NothingIsNoNews, NoNewsIsInOrder DEF Packets
  <2> QED
    BY <2>1, <2>2
<1>5. id \in DOMAIN subscribers' /\ subscribers'[id].packets = << >>
  BY <1>2 DEF Put, Session
<1>6. id \in IdsOf(p)'
  BY <1>2, <1>5 DEF IdsOf
<1> QED
  BY <1>1, <1>2, <1>3, <1>4, <1>5, <1>6

LEMMA LinesOrderStep == IInv /\ AInv /\ OInv /\ [Next]_vars => LinesInOrder'
<1> SUFFICES ASSUME IInv, AInv, OInv, [Next]_vars, NEW p \in Proc
             PROVE  InOrder(Lines(p)') /\ Served(Lines(p)', udp', published')
  BY DEF LinesInOrder
<1>1. PICK a \in Seq(Line) : a = Lines(p)
  BY LinesType DEF IInv
<1>2. PICK l : l = Lines(p)'
  OBVIOUS
<1>3. InOrder(a) /\ Served(a, udp, published) /\ BufferInOrder
  BY <1>1 DEF OInv, LinesInOrder
<1>4. \A lines : Served(lines, udp, published) => Served(lines, udp', published')
  BY <1>3, BufferStep
<1>5. Served(a, udp', published')
  BY <1>3, <1>4
<1>6. InOrder(l) /\ Served(l, udp', published')
  <2>1. CASE Shrunk(p)
    <3>1. PICK b \in Seq(Line) : a = l \o b /\ l \in Seq(Line)
      BY <1>1, <1>2, <2>1 DEF Shrunk
    <3> QED
      BY <1>3, <1>5, <3>1, BeginningOfLines
  <2>2. CASE Flagged(p)
    <3>1. PICK b \in Seq(Line) : NoNews(b) /\ l = a \o b
      BY <1>1, <1>2, <2>2 DEF Flagged
    <3>2. InOrder(b) /\ Before(a, b) /\ Served(b, udp', published')
      BY <3>1, NoNewsIsInOrder
    <3> QED
      BY <1>3, <1>5, <3>1, <3>2, LinesOneAfterOther
  <2>3. CASE Notified(p)
    <3>1. HandleUdp /\ l = a \o <<HeadNews>>
      BY <1>1, <1>2, <2>3 DEF Notified
    <3>2. Before(a, <<HeadNews>>) /\ InOrder(<<HeadNews>>) /\ Served(<<HeadNews>>, udp', published')
      BY <1>3, <3>1, HeadNewsOrder
    <3>3. PICK b \in Seq(Line) : b = <<HeadNews>>
      <4>1. HeadNews \in Line
        BY <3>1, HeadNewsFacts DEF IInv
      <4>2. <<HeadNews>> \in Seq(Line)
        BY <4>1
      <4> QED
        BY <4>2
    <3> QED
      BY <1>3, <1>5, <3>1, <3>2, <3>3, LinesOneAfterOther
  <2>4. CASE Supplied(p)
    <3>1. PICK b \in Seq(Line) :
            l = a \o b /\ InOrder(b) /\ Served(b, udp, published)
      BY <1>1, <1>2, <2>4, SuppliedFacts
    <3>2. Before(a, b)
      BY <1>1, <2>4, SuppliedFacts, NoNewsIsInOrder
    <3>3. Served(b, udp', published')
      BY <1>4, <3>1
    <3> QED
      BY <1>3, <1>5, <3>1, <3>2, <3>3, LinesOneAfterOther
  <2> QED
    BY <2>1, <2>2, <2>3, <2>4, LineKinds
<1> QED
  BY <1>2, <1>6

LEMMA StoreOrderStep == IInv /\ OInv /\ [Next]_vars => StoreInOrder'
<1> SUFFICES ASSUME IInv, OInv, [Next]_vars, NEW id \in DOMAIN subscribers'
             PROVE  /\ InOrder(subscribers'[id].packets)
                    /\ Served(subscribers'[id].packets, udp', published')
  BY DEF StoreInOrder
<1>1. \A lines : Served(lines, udp, published) => Served(lines, udp', published')
  BY BufferStep DEF OInv
<1>2. CASE StoreSame(id)
  BY <1>1, <1>2 DEF StoreSame, OInv, StoreInOrder
<1>3. CASE subscribers'[id].packets = << >>
  BY <1>3, NothingIsNoNews, NoNewsIsInOrder
<1>4. CASE StoreAdded(id)
  <2>1. HeadNews \in News /\ HeadNews \in Line /\ HandleUdp /\ id \in DOMAIN subscribers
    BY <1>4, HeadNewsFacts DEF StoreAdded, IInv
  <2>2. PICK a \in Seq(Line) : a = subscribers[id].packets
    <3>1. subscribers[id].packets \in Seq(News)
      BY <2>1 DEF IInv, TypeOK, Record
    <3>2. subscribers[id].packets \in Seq(Line)
      BY <3>1 DEF Line
    <3> QED
      BY <3>2
  <2>3. PICK b \in Seq(Line) : b = <<HeadNews>>
    <3>1. <<HeadNews>> \in Seq(Line)
      BY <2>1
    <3> QED
      BY <3>1
  <2>4. subscribers'[id].packets = a \o b
    <3>1. Append(a, HeadNews) = a \o <<HeadNews>>
      BY <2>1
    <3> QED
      BY <1>4, <2>2, <2>3, <3>1 DEF StoreAdded
  <2>5. InOrder(a) /\ Served(a, udp, published) /\ BufferInOrder
    BY <2>1, <2>2 DEF OInv, StoreInOrder
  <2>6. Before(a, b) /\ InOrder(b) /\ Served(b, udp', published')
    BY <2>1, <2>3, <2>5, HeadNewsOrder
  <2>7. Served(a, udp', published')
    BY <1>1, <2>5
  <2> QED
    BY <2>4, <2>5, <2>6, <2>7, LinesOneAfterOther
<1> QED
  BY <1>2, <1>3, <1>4, StoreKinds

LEMMA AbsentStep == IInv /\ StoreOfTheAbsent /\ [Next]_vars => StoreOfTheAbsent'
<1> SUFFICES ASSUME IInv, StoreOfTheAbsent, [Next]_vars, NEW id \in DOMAIN subscribers',
                    subscribers'[id].connected
             PROVE  subscribers'[id].packets = << >>
  BY DEF StoreOfTheAbsent
<1>1. CASE StoreSame(id) /\ (subscribers'[id].connected => subscribers[id].connected)
  BY <1>1 DEF StoreSame, StoreOfTheAbsent
<1> QED
  BY <1>1, StoreKinds

\* The server does not forget that it has heard a process; only while it is up
\* does a process start.
LEMMA UnheardShrinks ==
  ASSUME IInv, [Next]_vars, up' = "up", NEW p \in Proc, Unheard(p)'
  PROVE  Unheard(p) /\ up = "up"
<1>0. TypeOK /\ ReportedStaysReady /\ DescriptorsAgree
  BY DEF IInv
<1>1. CASE UNCHANGED <<up, pstate, backlog, newsockFd, sock>>
  BY <1>1 DEF Unheard
<1>2. CASE Select \/ Datagrams \/ UNCHANGED vars
  BY <1>1, <1>2 DEF Select, Datagrams, vars, srvVars, subVars
<1>3. CASE HandleUdp
  BY <1>1, <1>3 DEF HandleUdp, Serving, Die, subVars
<1>4. CASE Accept
  <2>1. /\ backlog # << >> /\ backlog \in Seq(Proc) /\ backlog' = Tail(backlog)
        /\ up = "up" /\ UNCHANGED pstate
    BY <1>0, <1>4 DEF Accept, Serving, ReportedStaysReady, TypeOK, subVars
  <2>2. PICK fd \in Fd : newsockFd' = fd /\ sock' = [sock EXCEPT ![fd] = Head(backlog)]
    BY <1>4 DEF Accept, Die
  <2>3. sock'[newsockFd'] = Head(backlog)
    BY <1>0, <2>2 DEF TypeOK
  <2>4. Head(backlog) = backlog[1] /\ 1 \in DOMAIN backlog
    <3>1. Len(backlog) \in Nat /\ Len(backlog) # 0 /\ DOMAIN backlog = 1..Len(backlog)
      BY <2>1
    <3> QED
      BY <2>1, <3>1
  <2>5. \A j \in DOMAIN Tail(backlog) :
          j + 1 \in DOMAIN backlog /\ Tail(backlog)[j] = backlog[j + 1]
    BY <2>1, TailPlaces
  <2> QED
    BY <2>1, <2>3, <2>4, <2>5 DEF Unheard
<1>5. CASE RecvId
  BY <1>5 DEF RecvId, Unheard, subVars
<1>6. ASSUME NEW i \in Fd, Disconnect(i) \/ RecvFails(i) \/ HandleCommand(i)
      PROVE  Unheard(p) /\ up = "up"
  BY <1>6 DEF Disconnect, RecvFails, HandleCommand, Serving, Die, Unheard, subVars
<1>7. CASE ServerExit
  BY <1>7 DEF ServerExit
<1>8. ASSUME NEW q \in Proc, Start(q) PROVE Unheard(p) /\ up = "up"
  <2>1. /\ up = "up" /\ pstate[q] = "new" /\ pstate' = [pstate EXCEPT ![q] = "connected"]
        /\ backlog \in Seq(Proc) /\ backlog' = Append(backlog, q)
        /\ UNCHANGED <<newsockFd, sock>>
    BY <1>0, <1>8 DEF Start, Connect, srvVars, TypeOK
  <2>2. \A j \in DOMAIN backlog' : backlog'[j] = q \/ (j \in DOMAIN backlog /\ backlog'[j] = backlog[j])
    BY <2>1, AppendElements
  <2>3. pstate'[p] = "new" => pstate[p] = "new"
    BY <1>0, <2>1 DEF TypeOK
  <2> QED
    BY <2>1, <2>2, <2>3 DEF Unheard
<1>9. ASSUME NEW q \in Proc, Identify(q) \/ Read(q) \/ Type(q) \/ Quit(q)
      PROVE  Unheard(p) /\ up = "up"
  <2>1. UNCHANGED <<up, backlog, newsockFd, sock>>
    BY <1>9 DEF Identify, SendId, Read, ReadLine, Type, TypeCommand, Quit, Leave, srvVars
  <2>2. pstate'[p] = "new" => pstate[p] = "new"
    BY <1>0, <1>9 DEF Identify, SendId, Read, ReadLine, Type, TypeCommand, Quit, Leave, TypeOK
  <2> QED
    BY <2>1, <2>2 DEF Unheard
<1> QED
  BY <1>2, <1>3, <1>4, <1>5, <1>6, <1>7, <1>8, <1>9 DEF Next, Server

LEMMA NewcomersStep == IInv /\ AInv /\ OInv /\ [Next]_vars => NewcomersHaveNone'
<1> SUFFICES ASSUME IInv, AInv, OInv, [Next]_vars, up' = "up",
                    NEW p \in Proc, Unheard(p)'
             PROVE  NoNews(Lines(p)')
  BY DEF NewcomersHaveNone
<1>1. PICK a \in Seq(Line) : a = Lines(p)
  BY LinesType DEF IInv
<1>2. PICK l : l = Lines(p)'
  OBVIOUS
<1>3. Unheard(p) /\ NoNews(a)
  BY <1>1, UnheardShrinks DEF OInv, NewcomersHaveNone
<1>4. CASE Shrunk(p)
  <2>1. PICK b \in Seq(Line) : a = l \o b /\ l \in Seq(Line)
    BY <1>1, <1>2, <1>4 DEF Shrunk
  <2> QED
    BY <1>2, <1>3, <2>1, BeginningOfLines
<1>5. CASE Flagged(p)
  <2>1. PICK b \in Seq(Line) : NoNews(b) /\ l = a \o b
    BY <1>1, <1>2, <1>5 DEF Flagged
  <2> QED
    BY <1>2, <1>3, <2>1, LinesOneAfterOther
<1>6. ~Notified(p) /\ ~Supplied(p)
  BY <1>3 DEF Notified, Supplied
<1> QED
  BY <1>4, <1>5, <1>6, LineKinds

LEMMA NewerStep == IInv /\ AInv /\ OInv /\ [Next]_vars => NewerIsStored'
<1> SUFFICES ASSUME IInv, AInv, OInv, [Next]_vars, NEW p \in Proc, ~NoNews(Lines(p)')
             PROVE  \E id \in IdsOf(p)' : Before(Lines(p)', subscribers'[id].packets)
  BY DEF NewerIsStored
<1>1. PICK a \in Seq(Line) : a = Lines(p)
  BY LinesType DEF IInv
<1>2. PICK l : l = Lines(p)'
  OBVIOUS
<1>3. \A id \in IdsOf(p) : id \in IdsOf(p)' /\ id \in DOMAIN subscribers /\ id \in DOMAIN subscribers'
  <2> SUFFICES ASSUME NEW id \in IdsOf(p)
               PROVE  id \in DOMAIN subscribers /\ id \in DOMAIN subscribers' /\ id \in IdsOf(p)'
    OBVIOUS
  <2>1. id \in DOMAIN subscribers
    BY DEF IdsOf
  <2>2. DOMAIN subscribers \subseteq DOMAIN subscribers'
    BY SubscribersStay
  <2> QED
    BY <2>1, <2>2 DEF IdsOf
<1>4. Served(a, udp, published) /\ BufferInOrder
  BY <1>1 DEF OInv, LinesInOrder
\* An id that p's lines precede in the store still is one.
<1>5. ASSUME ~NoNews(a)
      PROVE  \E id \in IdsOf(p) : Before(a, subscribers'[id].packets)
  <2>1. PICK id \in IdsOf(p) : Before(a, subscribers[id].packets)
    BY <1>1, <1>5 DEF OInv, NewerIsStored
  <2>2. CASE StoreSame(id)
    BY <2>1, <2>2 DEF StoreSame
  <2>3. CASE subscribers'[id].packets = << >>
    BY <2>3, NothingIsNoNews, NoNewsIsInOrder
  <2>4. CASE StoreAdded(id)
    <3>1. HeadNews \in News /\ HeadNews \in Line /\ HandleUdp
      BY <2>4, HeadNewsFacts DEF StoreAdded, IInv
    <3>2. PICK s \in Seq(Line) : s = subscribers[id].packets
      <4>1. subscribers[id].packets \in Seq(News)
        BY <1>3 DEF IInv, TypeOK, Record
      <4>2. subscribers[id].packets \in Seq(Line)
        BY <4>1 DEF Line
      <4> QED
        BY <4>2
    <3>3. PICK b \in Seq(Line) : b = <<HeadNews>>
      <4>1. <<HeadNews>> \in Seq(Line)
        BY <3>1
      <4> QED
        BY <4>1
    <3>4. subscribers'[id].packets = s \o b
      <4>1. Append(s, HeadNews) = s \o <<HeadNews>>
        BY <3>1
      <4> QED
        BY <2>4, <3>2, <3>3, <4>1 DEF StoreAdded
    <3>5. Before(a, s) /\ Before(a, b)
      BY <1>4, <2>1, <3>1, <3>2, <3>3, HeadNewsOrder
    <3>6. Before(a, s \o b)
      BY <3>5, LinesOneAfterOther
    <3> QED
      BY <3>4, <3>6
  <2> QED
    BY <1>3, <2>2, <2>3, <2>4, StoreKinds
<1>6. CASE Shrunk(p)
  <2>1. PICK b \in Seq(Line) : a = l \o b /\ l \in Seq(Line)
    BY <1>1, <1>2, <1>6 DEF Shrunk
  <2>2. ~NoNews(a) /\ \A later : Before(a, later) => Before(l, later)
    BY <1>2, <2>1, BeginningOfLines
  <2> QED
    BY <1>2, <1>3, <1>5, <2>2
<1>7. CASE Flagged(p)
  <2>1. PICK b \in Seq(Line) : NoNews(b) /\ l = a \o b
    BY <1>1, <1>2, <1>7 DEF Flagged
  <2>2. ~NoNews(a)
    BY <1>2, <2>1, LinesOneAfterOther
  <2>3. PICK id \in IdsOf(p) : Before(a, subscribers'[id].packets)
    BY <1>5, <2>2
  <2>4. Before(b, subscribers'[id].packets)
    BY <2>1, NoNewsIsInOrder
  <2>5. Before(l, subscribers'[id].packets)
    BY <2>1, <2>3, <2>4, LinesOneAfterOther
  <2> QED
    BY <1>2, <1>3, <2>5
<1>8. CASE Notified(p)
  <2>1. PICK id \in IdsOf(p) : Connected(id)
    BY <1>8 DEF Notified
  <2>2. subscribers[id].packets = << >>
    BY <1>3, <2>1 DEF OInv, StoreOfTheAbsent, Connected
  <2>3. ~StoreAdded(id)
    BY <2>1 DEF StoreAdded
  <2>4. subscribers'[id].packets = << >>
    BY <1>3, <2>2, <2>3, StoreKinds DEF StoreSame
  <2> QED
    BY <1>3, <2>4, NothingIsNoNews, NoNewsIsInOrder
<1>9. CASE Supplied(p)
  <2>1. PICK id \in IdsOf(p)' : subscribers'[id].packets = << >>
    BY <1>9, SuppliedFacts
  <2> QED
    BY <2>1, NothingIsNoNews, NoNewsIsInOrder
<1> QED
  BY <1>6, <1>7, <1>8, <1>9, LineKinds

\* The two commands leave an id in a list once: subscribe looks for it first,
\* and erase shifts the entries that stay (server.cpp:315-325, 349-367).
LEMMA EntriesLeftOnce ==
  ASSUME NEW subs \in Seq(Subscription), NEW id, NEW i \in Nat,
         \A j, k \in DOMAIN subs : subs[j].clientID = subs[k].clientID => j = k
  PROVE  \A j, k \in DOMAIN Unsubscribed(subs, id, i) :
           Unsubscribed(subs, id, i)[j].clientID = Unsubscribed(subs, id, i)[k].clientID
             => j = k
<1>1. ASSUME NEW j \in DOMAIN EraseAt(subs, i), NEW k \in DOMAIN EraseAt(subs, i),
             EraseAt(subs, i)[j].clientID = EraseAt(subs, i)[k].clientID
      PROVE  j = k
  <2>1. DOMAIN subs = 1..Len(subs) /\ Len(subs) \in Nat
    OBVIOUS
  <2>2. j \in 1..(Len(subs) - 1) /\ k \in 1..(Len(subs) - 1)
    BY DEF EraseAt
  <2> DEFINE at(l) == IF l <= i THEN l ELSE l + 1
  <2>3. EraseAt(subs, i)[j] = subs[at(j)] /\ EraseAt(subs, i)[k] = subs[at(k)]
    BY <2>2 DEF EraseAt
  <2>4. at(j) \in DOMAIN subs /\ at(k) \in DOMAIN subs
    BY <2>1, <2>2
  <2>5. at(j) = at(k) => j = k
    BY <2>2
  <2> HIDE DEF at
  <2> QED
    BY <1>1, <2>3, <2>4, <2>5
<1> QED
  BY <1>1, Zenon DEF Unsubscribed

LEMMA EntriesAfterSubscribeOnce ==
  ASSUME NEW subs \in Seq(Subscription), NEW id \in ClientID, NEW SF \in BOOLEAN,
         \A j, k \in DOMAIN subs : subs[j].clientID = subs[k].clientID => j = k
  PROVE  \A j, k \in DOMAIN Subscribed(subs, id, SF) :
           Subscribed(subs, id, SF)[j].clientID = Subscribed(subs, id, SF)[k].clientID
             => j = k
<1>1. CASE \E j \in DOMAIN subs : subs[j].clientID = id
  <2>1. Subscribed(subs, id, SF) = subs
    BY <1>1 DEF Subscribed
  <2> QED
    BY <2>1
<1>2. CASE ~ \E j \in DOMAIN subs : subs[j].clientID = id
  <2>1. PICK e \in Subscription : e.clientID = id /\ Subscribed(subs, id, SF) = Append(subs, e)
    <3>1. /\ [clientID |-> id, SF |-> SF] \in Subscription
          /\ [clientID |-> id, SF |-> SF].clientID = id
      BY DEF Subscription
    <3> QED
      BY <1>2, <3>1 DEF Subscribed
  <2>2. \A j \in DOMAIN Append(subs, e) :
          \/ j \in DOMAIN subs /\ Append(subs, e)[j] = subs[j]
          \/ j = Len(subs) + 1 /\ Append(subs, e)[j] = e
    BY AppendElements
  <2> QED
    BY <1>2, <2>1, <2>2
<1> QED
  BY <1>1, <1>2

LEMMA ListedStep == IInv /\ ListedOnce /\ [Next]_vars => ListedOnce'
<1> SUFFICES ASSUME TypeOK, ListedOnce, [Next]_vars PROVE ListedOnce'
  BY DEF IInv
<1>1. CASE UNCHANGED topics
  BY <1>1 DEF ListedOnce
<1>2. ASSUME NEW i \in Fd, HandleCommand(i) PROVE ListedOnce'
  <2> DEFINE cmd == Head(c2s[sock[i]])
             id == clientsConnected[i]
             Once(subs) == \A j, k \in DOMAIN subs : subs[j].clientID = subs[k].clientID => j = k
  <2>1. i \in Nat
    BY DEF Fd
  <2>2. i \in DOMAIN clientsConnected => id \in ClientID
    BY DEF TypeOK
  <2>3. \A t \in Topic : topics[t] \in Seq(Subscription) /\ Once(topics[t])
    BY DEF TypeOK, ListedOnce
  <2>4. (\A t \in Topic : Once(topics'[t])) => ListedOnce'
    BY DEF ListedOnce
  <2>5. CASE /\ i \in DOMAIN clientsConnected
             /\ topics' = [topics EXCEPT ![cmd.topic] = Unsubscribed(@, id, i)]
    <3>1. ASSUME NEW t \in Topic PROVE Once(topics'[t])
      <4>1. topics'[t] = topics[t] \/ topics'[t] = Unsubscribed(topics[t], id, i)
        BY <2>5 DEF TypeOK
      <4> HIDE DEF id
      <4>2. Once(Unsubscribed(topics[t], id, i))
        BY <2>1, <2>3, EntriesLeftOnce
      <4> HIDE DEF Once
      <4> QED
        BY <2>3, <4>1, <4>2
    <3> QED
      BY <2>4, <3>1
  <2>6. ASSUME i \in DOMAIN clientsConnected, NEW SF \in BOOLEAN,
               topics' = [topics EXCEPT ![cmd.topic] = Subscribed(@, id, SF)]
        PROVE  ListedOnce'
    <3>1. ASSUME NEW t \in Topic PROVE Once(topics'[t])
      <4>1. topics'[t] = topics[t] \/ topics'[t] = Subscribed(topics[t], id, SF)
        BY <2>6 DEF TypeOK
      <4> HIDE DEF id
      <4>2. Once(Subscribed(topics[t], id, SF))
        BY <2>2, <2>3, <2>6, EntriesAfterSubscribeOnce
      <4> HIDE DEF Once
      <4> QED
        BY <2>3, <4>1, <4>2
    <3> QED
      BY <2>4, <3>1
  <2> QED
    BY <1>1, <1>2, <2>5, <2>6, SFOfType DEF HandleCommand
<1>3. CASE Select \/ HandleUdp \/ Accept \/ RecvId \/ ServerExit \/ Datagrams \/ UNCHANGED vars
  BY <1>1, <1>3 DEF Select, HandleUdp, Accept, RecvId, Die, ServerExit, Datagrams,
                    vars, srvVars
<1>4. ASSUME NEW i \in Fd, Disconnect(i) \/ RecvFails(i) PROVE UNCHANGED topics
  BY <1>4 DEF Disconnect, RecvFails, Die
<1>5. ASSUME NEW p \in Proc, Start(p) \/ Identify(p) \/ Read(p) \/ Type(p) \/ Quit(p)
      PROVE  UNCHANGED topics
  BY <1>5 DEF Start, Identify, Read, Type, Quit, srvVars
<1> QED
  BY <1>1, <1>2, <1>3, <1>4, <1>5 DEF Next, Server

LEMMA OrderInit == Init => OInv
<1> SUFFICES ASSUME Init PROVE OInv
  OBVIOUS
<1> USE DEF Init, TcpInit, SubInit, SrvInit
<1>1. BufferInOrder /\ ListedOnce
  BY DEF BufferInOrder, ListedOnce
<1>2. ASSUME NEW p \in Proc PROVE NoNews(Lines(p))
  <2>1. printed[p] = << >> /\ s2c[p] = << >>
    OBVIOUS
  <2>2. Lines(p) = << >> \o << >>
    BY <2>1 DEF Lines
  <2>3. << >> \o << >> = << >>
    OBVIOUS
  <2> QED
    BY <2>2, <2>3, NothingIsNoNews
<1>3. LinesInOrder /\ NewcomersHaveNone /\ NewerIsStored
  BY <1>2, NoNewsIsInOrder DEF LinesInOrder, NewcomersHaveNone, NewerIsStored
<1>4. DOMAIN subscribers = {}
  OBVIOUS
<1>5. StoreInOrder /\ StoreOfTheAbsent
  BY <1>4 DEF StoreInOrder, StoreOfTheAbsent
<1> QED
  BY <1>1, <1>3, <1>5 DEF OInv

LEMMA OrderInvariant == Spec => []OInv
<1>1. IInv /\ AInv /\ OInv /\ [Next]_vars => OInv'
  <2>1. IInv /\ OInv /\ [Next]_vars => BufferInOrder'
    BY BufferStep DEF OInv
  <2> QED
    BY <2>1, LinesOrderStep, StoreOrderStep, AbsentStep, NewcomersStep, NewerStep,
       ListedStep DEF OInv
<1> QED
  BY <1>1, OrderInit, Invariant, AskedInvariant, PTL DEF Spec

\* No subscriber gets a message twice or out of order, and what is stored for
\* it while it is away is newer than what it got, over any number of sessions,
\* restarts and doubles (server.cpp:199-225, 252-283).
THEOREM DeliveredInOrder == Spec => []InOrderOnce
<1>1. TypeOK /\ OInv => InOrderOnce
  <2> SUFFICES ASSUME TypeOK, OInv PROVE InOrderOnce
    OBVIOUS
  <2>1. ASSUME NEW p \in Proc, NEW id \in DOMAIN subscribers, IdsOf(p) = {id}
        PROVE  InOrder(Lines(p) \o subscribers[id].packets)
    <3>1. PICK a \in Seq(Line) : a = Lines(p)
      BY LinesType
    <3>2. PICK s \in Seq(Line) : s = subscribers[id].packets
      <4>1. subscribers[id].packets \in Seq(News)
        BY DEF TypeOK, Record
      <4>2. subscribers[id].packets \in Seq(Line)
        BY <4>1 DEF Line
      <4> QED
        BY <4>2
    <3>3. InOrder(a) /\ InOrder(s)
      BY <3>1, <3>2 DEF OInv, LinesInOrder, StoreInOrder
    <3>4. Before(a, s)
      <4>1. CASE NoNews(a)
        BY <4>1, NoNewsIsInOrder
      <4>2. CASE \E x \in IdsOf(p) : Before(a, subscribers[x].packets)
        BY <2>1, <3>2, <4>2
      <4> QED
        BY <3>1, <4>1, <4>2 DEF OInv, NewerIsStored
    <3>5. InOrder(a \o s)
      BY <3>3, <3>4, LinesOneAfterOther
    <3> QED
      BY <3>1, <3>2, <3>5
  <2>2. /\ \A p \in Proc : InOrder(Lines(p))
        /\ \A id \in DOMAIN subscribers : InOrder(subscribers[id].packets)
    BY DEF OInv, LinesInOrder, StoreInOrder
  <2> QED
    BY <2>1, <2>2 DEF InOrderOnce
<1>2. IInv => TypeOK
  BY DEF IInv
<1> QED
  BY <1>1, <1>2, Invariant, OrderInvariant, PTL

\* An id is in a topic's list once, so a message is sent to it, or stored for
\* it, once, though the loop goes over the list (server.cpp:209-223).
THEOREM SubscribedOnce == Spec => []ListedOnce
<1>1. OInv => ListedOnce
  BY DEF OInv
<1> QED
  BY <1>1, OrderInvariant, PTL
=============================================================================
