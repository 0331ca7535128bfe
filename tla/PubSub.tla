------------------------------- MODULE PubSub -------------------------------
(***************************************************************************)
(* The publish/subscribe system of Teme/Tema2: one broker (server.cpp),    *)
(* its subscriber processes (subscriber.cpp) and UDP publishers, over the  *)
(* connections of TcpStream.  Any of them may take the next step.          *)
(***************************************************************************)
EXTENDS Broker

vars == <<tcpVars, backlog, subVars, srvVars, pubVars>>

Init == TcpInit /\ SubInit /\ SrvInit

\* Once the server is gone a subscriber can only read what was sent to it,
\* and be closed.
Start(p) == up = "up" /\ Connect(p) /\ UNCHANGED <<srvVars, pubVars>>
Identify(p) == SendId(p) /\ UNCHANGED <<srvVars, pubVars>>
Read(p) == ReadLine(p) /\ UNCHANGED <<srvVars, pubVars>>
Type(p) == /\ up = "up"
           /\ \E cmd \in Command : TypeCommand(p, cmd)
           /\ UNCHANGED <<srvVars, pubVars>>
Quit(p) == Leave(p) /\ UNCHANGED <<srvVars, pubVars>>

Datagrams == /\ \E t \in Topic, valid \in BOOLEAN : Publish(t, valid)
             /\ UNCHANGED <<tcpVars, backlog, subVars, srvVars>>

Next == \/ Server \/ ServerExit \/ Datagrams
        \/ \E p \in Proc : Start(p) \/ Identify(p) \/ Read(p) \/ Type(p) \/ Quit(p)

Spec == Init /\ [][Next]_vars

\* The server's loop keeps running, a started process sends its id and reads
\* what select reports to it.  Nobody has to start, type, publish or leave.
Fairness == /\ WF_vars(Server)
            /\ \A p \in Proc : WF_vars(Identify(p)) /\ WF_vars(Read(p))

FairSpec == Spec /\ Fairness

Running == up = "up"

-----------------------------------------------------------------------------
(* Type invariant. *)

\* The tables of server.cpp:45-47, the descriptor sets of server.cpp:150-159
\* and the streams hold values of the types the code gives them.
TypeOK ==
  /\ c2s \in [Proc -> Seq(Segment)] /\ s2c \in [Proc -> Seq(Line)]
  /\ peer \in [Proc -> PeerState]
  /\ backlog \in Seq(Proc)
  /\ pstate \in [Proc -> ProcState]
  /\ printed \in [Proc -> Seq(News)] /\ typed \in [Proc -> Seq(Command)]
  /\ up \in {"up", "exited", "died"}
  /\ read_fds \subseteq {sockTcp, sockUDP} \cup Fd
  /\ tmp_fds \subseteq read_fds
  /\ newsockFd \in Fd \cup {NoFd}
  /\ sock \in [Fd -> Proc \cup {NoProc}]
  /\ DOMAIN clientsConnected \subseteq Fd
  /\ clientsConnected \in [DOMAIN clientsConnected -> ClientID]
  /\ topics \in [Topic -> Seq(Subscription)]
  /\ DOMAIN subscribers \subseteq ClientID
  /\ subscribers \in [DOMAIN subscribers -> Record]
  /\ udp \in Seq(Datagram) /\ published \in Nat

-----------------------------------------------------------------------------
(* Safety. *)

\* The session tables agree: the descriptors in clientsConnected under a
\* (non-empty) id are open and watched, and they are exactly the fd of the
\* subscribers marked connected.  So no id has two sessions: what
\* server.cpp:244 refuses, and what server.cpp:288-302 undoes.
SessionsAgree ==
  /\ \A fd \in DOMAIN clientsConnected : clientsConnected[fd] # << >> =>
       /\ Connected(clientsConnected[fd])
       /\ subscribers[clientsConnected[fd]].fd = fd
  /\ \A id \in DOMAIN subscribers : subscribers[id].connected =>
       LET fd == subscribers[id].fd
       IN  /\ fd \in DOMAIN clientsConnected /\ clientsConnected[fd] = id
           /\ sock[fd] \in Proc /\ fd \in read_fds

\* What select reported is still so when its turn in the round comes, whatever
\* was served before it and whatever clients did meanwhile: the accept, the
\* recvfrom and the recv of server.cpp:227, 188 and 286 on a reported descriptor
\* find something.  It is not said of the recv of the id (server.cpp:239), on
\* a descriptor nobody reported: that one does block the server, in RecvId,
\* until the client just accepted writes or closes.
ReportedStaysReady ==
  /\ sockTcp \in tmp_fds => backlog # << >>
  /\ sockUDP \in tmp_fds => udp # << >>
  /\ \A i \in tmp_fds \cap Fd : sock[i] \in Proc /\ Readable(sock[i])

\* No descriptor is lost: the open ones are the watched ones, also where
\* server.cpp:244-252 and 289 leave one open for good; a process has one
\* connection at most, which is waiting in the backlog or open; those in
\* clientsConnected are open; the one whose id is awaited is in no table yet.
DescriptorsAgree ==
  /\ \A fd \in Fd : fd \in read_fds <=> sock[fd] \in Proc
  /\ \A fd \in DOMAIN clientsConnected : sock[fd] \in Proc
  /\ \A f, g \in Fd : sock[f] = sock[g] => f = g \/ sock[f] = NoProc
  /\ \A j, k \in DOMAIN backlog : backlog[j] = backlog[k] => j = k
  /\ \A j \in DOMAIN backlog, fd \in Fd : sock[fd] # backlog[j]
  /\ \A j \in DOMAIN backlog : pstate[backlog[j]] # "new"
  /\ \A fd \in Fd : sock[fd] \in Proc => pstate[sock[fd]] # "new"
  /\ newsockFd # NoFd => /\ sock[newsockFd] \in Proc
                         /\ newsockFd \notin tmp_fds
                         /\ newsockFd \notin DOMAIN clientsConnected

\* The inductive invariant of PubSubProofs.
IInv == TypeOK /\ ReportedStaysReady /\ DescriptorsAgree /\ SessionsAgree

\* All that was written to a process, but for what was lost when it closed.
Lines(p) == printed[p] \o s2c[p]

\* The messages among lines are in the order of publication, none twice.
InOrder(lines) ==
  \A j, k \in DOMAIN lines :
    j < k /\ lines[j] \in News /\ lines[k] \in News => lines[j].n < lines[k].n

\* The ids under which the server knows processes started like p: more than
\* one if commands came in one recv with the id (server.cpp:239-243).
IdsOf(p) == {id \in DOMAIN subscribers : id # << >> /\ Head(id) = IdString(Argv1[p])}

\* No duplicate and no reordering: what a process printed and what is on its
\* way to it are in the order of publication, and so is what is stored for an
\* id.  If p's processes are known under one id, what is stored for it is also
\* newer, when stored and direct messages mix over several sessions of the id.
InOrderOnce ==
  /\ \A p \in Proc : InOrder(Lines(p))
  /\ \A id \in DOMAIN subscribers : InOrder(subscribers[id].packets)
  /\ \A p \in Proc, id \in DOMAIN subscribers :
       IdsOf(p) = {id} => InOrder(Lines(p) \o subscribers[id].packets)

\* A process gets a message only of a topic that some process with its id
\* subscribed to, however ids, descriptors and commands are mixed up.
OnlyWhatWasAskedFor ==
  \A p \in Proc : \A j \in DOMAIN Lines(p) :
    LET line == Lines(p)[j]
    IN  line \in News =>
          \E q \in Proc : /\ Argv1[q] = Argv1[p]
                          /\ \E k \in DOMAIN typed[q] :
                               /\ typed[q][k].op = "subscribe"
                               /\ typed[q][k].topic = line.topic

\* What makes OnlyWhatWasAskedFor inductive: where a topic was asked for, from
\* the keyboard to the lists, the store and the streams.

\* A process that id stands for typed, in cmds, a subscribe to t.  The empty id
\* stands for none.
Asked(cmds, id, t) ==
  /\ id # << >>
  /\ \E q \in Proc : /\ Head(id) = IdString(Argv1[q])
                     /\ \E k \in DOMAIN cmds[q] : /\ cmds[q][k].op = "subscribe"
                                                  /\ cmds[q][k].topic = t

\* The server has read nothing of p yet.
Unheard(p) == \/ pstate[p] = "new"
              \/ \E j \in DOMAIN backlog : backlog[j] = p
              \/ newsockFd # NoFd /\ sock[newsockFd] = p

ClosedIsGone == \A p \in Proc : pstate[p] = "closed" <=> Gone(p)

CommandsTyped ==
  \A p \in Proc : \A j \in DOMAIN c2s[p] :
    c2s[p][j] \in Command => \E k \in DOMAIN typed[p] : typed[p][k] = c2s[p][j]

IdComesFirst ==
  up = "up" => \A p \in Proc :
    /\ pstate[p] \in {"new", "connected"} => c2s[p] = << >> /\ Unheard(p)
    /\ Unheard(p) /\ pstate[p] = "running" => c2s[p] # << >>
    /\ Unheard(p) /\ c2s[p] # << >> => Head(c2s[p]) = IdString(Argv1[p])

SessionIds ==
  \A fd \in DOMAIN clientsConnected :
    IF clientsConnected[fd] = << >>
      THEN c2s[sock[fd]] = << >> /\ Gone(sock[fd])
      ELSE Head(clientsConnected[fd]) = IdString(Argv1[sock[fd]])

ListsAsked == \A t \in Topic : \A k \in DOMAIN topics[t] : Asked(typed, topics[t][k].clientID, t)

StoreAsked ==
  \A id \in DOMAIN subscribers : \A j \in DOMAIN subscribers[id].packets :
    Asked(typed, id, subscribers[id].packets[j].topic)

LinesAsked ==
  \A p \in Proc :
    /\ \A j \in DOMAIN printed[p] : Asked(typed, <<IdString(Argv1[p])>>, printed[p][j].topic)
    /\ \A j \in DOMAIN s2c[p] : s2c[p][j] \in News =>
         Asked(typed, <<IdString(Argv1[p])>>, s2c[p][j].topic)

AInv == /\ ClosedIsGone /\ CommandsTyped /\ IdComesFirst /\ SessionIds
        /\ ListsAsked /\ StoreAsked /\ LinesAsked

\* What makes InOrderOnce inductive: a message goes from the socket's buffer,
\* oldest first, to the store or to the streams.

NoNews(lines) == \A j \in DOMAIN lines : lines[j] \notin News

\* The messages of lines are older than those of later.
Before(lines, later) ==
  \A j \in DOMAIN lines, k \in DOMAIN later :
    lines[j] \in News /\ later[k] \in News => lines[j].n < later[k].n

\* The messages of lines, among the first n, are older than those that wait.
Served(lines, waiting, n) ==
  \A j \in DOMAIN lines : lines[j] \in News =>
    lines[j].n <= n /\ \A k \in DOMAIN waiting : lines[j].n < waiting[k].n

BufferInOrder == /\ \A j, k \in DOMAIN udp : j < k => udp[j].n < udp[k].n
                 /\ \A j \in DOMAIN udp : udp[j].n <= published

LinesInOrder == \A p \in Proc : InOrder(Lines(p)) /\ Served(Lines(p), udp, published)

StoreInOrder ==
  \A id \in DOMAIN subscribers : /\ InOrder(subscribers[id].packets)
                                 /\ Served(subscribers[id].packets, udp, published)

\* Nothing is stored for a subscriber that is connected.
StoreOfTheAbsent ==
  \A id \in DOMAIN subscribers : subscribers[id].connected => subscribers[id].packets = << >>

NewcomersHaveNone == up = "up" => \A p \in Proc : Unheard(p) => NoNews(Lines(p))

\* Whoever got a message has an id whose store begins after it.
NewerIsStored ==
  \A p \in Proc : NoNews(Lines(p)) \/ \E id \in IdsOf(p) : Before(Lines(p), subscribers[id].packets)

\* No id is in a list twice, so a message is sent or stored once.
ListedOnce ==
  \A t \in Topic : \A j, k \in DOMAIN topics[t] :
    topics[t][j].clientID = topics[t][k].clientID => j = k

OInv == /\ BufferInOrder /\ LinesInOrder /\ StoreInOrder /\ StoreOfTheAbsent
        /\ NewcomersHaveNone /\ NewerIsStored /\ ListedOnce

-----------------------------------------------------------------------------
(* Action properties. *)

\* Messages stored for an id leave the store only all together, in order, at
\* the end of the stream of a process that has just been given that id
\* (server.cpp:278-282), or with the server.  (What a process that has hung
\* up is sent is lost: see MissedNewsArrives.)
StoredIsHandedOver ==
  [][up' = "up" => \A id \in DOMAIN subscribers :
       LET old == subscribers[id].packets
           p == sock'[subscribers'[id].fd]
       IN  \/ /\ Len(old) <= Len(subscribers'[id].packets)
              /\ old = SubSeq(subscribers'[id].packets, 1, Len(old))
           \/ /\ ~Connected(id) /\ subscribers'[id].connected
              /\ subscribers'[id].packets = << >>
              /\ p \in Proc /\ (Gone(p) \/ s2c'[p] = s2c[p] \o old)]_vars

-----------------------------------------------------------------------------
(* Refinement: the ids are a registry.  The registry's names are the ids     *)
(* that arrive alone in their recv; its holders are those whose session the  *)
(* subscribers table records.                                                *)

Holder == [a \in Id |-> LET id == <<IdString(a)>>
                        IN  IF Connected(id) THEN sock[subscribers[id].fd] ELSE NoProc]

Registry == INSTANCE SessionRegistry WITH
              Name <- Id, Client <- Proc, Nobody <- NoProc,
              holder <- Holder, left <- {p \in Proc : Gone(p)}, open <- (up = "up")

\* Every step of the system is a step of the registry or none of its business.
ImplementsRegistry == Registry!Spec

\* And an id is free again once its process has hung up.
FreesIds == Registry!FairSpec

-----------------------------------------------------------------------------
(* What the code's own words promise and its steps do not keep. *)

\* "Unsubscribed from topic." (subscriber.cpp:97): an id leaves a topic's list
\* only because a process with that id asked for it.
UnsubscribeIsOwn ==
  [][\A t \in Topic : \A k \in DOMAIN topics[t] :
       LET id == topics[t][k].clientID
       IN  (\A j \in DOMAIN topics'[t] : topics'[t][j].clientID # id) =>
             \E q \in Proc : /\ Head(id) = IdString(Argv1[q])
                             /\ \E j \in DOMAIN typed[q] :
                                  typed[q][j] = [op |-> "unsubscribe", topic |-> t]]_vars

\* "Tests that subscriber C2 receives missed SF messages upon restart."
\* (test.py:548): a message served for a subscriber with SF is stored for it, or
\* written to a process that is there to read it.
MissedNewsArrives ==
  [][(udp # << >> /\ udp' = Tail(udp) /\ up' = "up" /\ Head(udp).valid) =>
       LET m == Head(udp)
           news == [kind |-> "news", n |-> m.n, topic |-> m.topic]
       IN  \A k \in DOMAIN topics[m.topic] : topics[m.topic][k].SF =>
             LET id == topics[m.topic][k].clientID
                 p == sock[subscribers[id].fd]
             IN  \/ \E j \in DOMAIN subscribers'[id].packets : subscribers'[id].packets[j] = news
                 \/ Connected(id) /\ \E j \in DOMAIN s2c'[p] : s2c'[p][j] = news]_vars

-----------------------------------------------------------------------------
(* Liveness, under Fairness. *)

\* p has a session and its id is in the topic's list.
Online(p, t) ==
  /\ Running
  /\ \E id \in DOMAIN subscribers :
       /\ subscribers[id].connected /\ sock[subscribers[id].fd] = p
       /\ \E k \in DOMAIN topics[t] : topics[t][k].clientID = id

\* A subscriber that stays online gets every valid message that waits in the
\* socket from then on, whatever the other clients do: also one that connects
\* and is killed before it sends its id.
OnlineGetsNews ==
  \A p \in Proc, n \in 1..MaxNews, t \in Topic :
    (Online(p, t) /\ \E j \in DOMAIN udp : udp[j] = [n |-> n, topic |-> t, valid |-> TRUE])
      ~> (~Online(p, t) \/ \E j \in DOMAIN printed[p] : printed[p][j].n = n)

\* exit ends every process that has a session (server.cpp:168-181).
ExitEndsSessions ==
  \A p \in Proc :
    (up = "exited" /\ \E fd \in DOMAIN clientsConnected : sock[fd] = p)
      ~> (pstate[p] = "closed")
=============================================================================
