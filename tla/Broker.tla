------------------------------- MODULE Broker -------------------------------
(***************************************************************************)
(* The server of Teme/Tema2/server.cpp: a select loop over stdin, the      *)
(* listening socket, the UDP socket and one TCP socket per client.  One    *)
(* round of the loop serves, in ascending order, every descriptor that     *)
(* select reported; each descriptor's handler is one action, except that   *)
(* accepting a client is two, for the server blocks in recv until the new  *)
(* client's id arrives.                                                    *)
(***************************************************************************)
EXTENDS Subscriber, FiniteSets

CONSTANTS
  NoProc,          \* marks a descriptor that is not open
  MaxFd,           \* bound: largest descriptor accept may return
  MaxNews          \* bound: datagrams published

sockTcp == 3       \* the descriptors the sockets get in main: 0-2 are the
sockUDP == 4       \* standard streams
FirstFd == 5
Fd == FirstFd .. MaxFd

ASSUME BrokerAssumption == NoProc \notin Proc /\ MaxFd \in Nat /\ MaxNews \in Nat

NoFd == -1

VARIABLES
  up,              \* "up", "exited" (the exit command) or "died" (DIE, SIGPIPE)
  read_fds,        \* the set select waits on, stdin left out
  tmp_fds,         \* reported by select and not yet served in this round
  newsockFd,       \* accepted and waiting for its id, or NoFd
  sock,            \* [Fd -> Proc or NoProc]: whose connection a descriptor is
  clientsConnected,\* descriptor -> client_ID
  topics,          \* [Topic -> Seq of clientID and SF]; << >> also if absent
  subscribers,     \* client_ID -> connected, fd, packets
  udp,             \* datagrams in the UDP socket's receive buffer
  published        \* number of datagrams published

srvVars == <<up, read_fds, tmp_fds, newsockFd, sock, clientsConnected, topics,
             subscribers>>
pubVars == <<udp, published>>

\* A client_ID is the string of one recv: the id, and the commands that came
\* with it.  << >> is the empty string.
ClientID == Seq(Segment)

Subscription == [clientID : ClientID, SF : BOOLEAN]
Record == [connected : BOOLEAN, fd : Fd, packets : Seq(News)]
Datagram == [n : Nat, topic : Topic, valid : BOOLEAN]

\* m[k] = v on an unordered_map.
Put(f, k, v) == [x \in DOMAIN f \cup {k} |-> IF x = k THEN v ELSE f[x]]
EraseNothing(f, k) == f
Erase(f, k) == [x \in DOMAIN f \ {k} |-> f[x]]

Connected(id) == id \in DOMAIN subscribers /\ subscribers[id].connected

\* vector::erase(begin() + i).  Outside the vector it is undefined; the
\* library the Makefile builds with moves nothing and drops the last element.
EraseAt(s, i) ==
  [j \in 1..(Len(s) - 1) |-> IF j <= i THEN s[j] ELSE s[j + 1]]

SrvInit == /\ up = "up"
           /\ read_fds = {sockTcp, sockUDP}
           /\ tmp_fds = {}
           /\ newsockFd = NoFd
           /\ sock = [fd \in Fd |-> NoProc]
           /\ clientsConnected = << >>
           /\ topics = [t \in Topic |-> << >>]
           /\ subscribers = << >>
           /\ udp = << >>
           /\ published = 0

-----------------------------------------------------------------------------
\* The UDP clients: a datagram reaches the socket's buffer.  One that is lost
\* on the way is one that is not published.
Publish(t, valid) ==
  /\ up = "up"
  /\ published < MaxNews
  /\ published' = published + 1
  /\ udp' = Append(udp, [n |-> published + 1, topic |-> t, valid |-> valid])

-----------------------------------------------------------------------------
(* One round of the loop. *)

ReadyFds == {fd \in read_fds : \/ fd = sockTcp /\ backlog # << >>
                               \/ fd = sockUDP /\ udp # << >>
                               \/ fd \in Fd /\ Readable(sock[fd])}

Select ==
  /\ up = "up" /\ newsockFd = NoFd /\ tmp_fds = {}
  /\ ReadyFds # {}
  /\ tmp_fds' = ReadyFds
  /\ UNCHANGED <<tcpVars, subVars, pubVars, backlog, up, read_fds, newsockFd,
                 sock, clientsConnected, topics, subscribers>>

ServingAgain(i) == /\ up = "up" /\ newsockFd = NoFd
                   /\ i \in tmp_fds
                   /\ tmp_fds' = tmp_fds
                   /\ UNCHANGED <<subVars, published>>

\* i is the next descriptor the for loop finds in tmp_fds.
Serving(i) == /\ up = "up" /\ newsockFd = NoFd
              /\ i \in tmp_fds
              /\ \A j \in tmp_fds : i <= j
              /\ tmp_fds' = tmp_fds \ {i}
              /\ UNCHANGED <<subVars, published>>

\* DIE, or SIGPIPE in send: the process is gone and so is all it remembers.
Die == /\ up' = "died"
       /\ UNCHANGED <<read_fds, newsockFd, sock, clientsConnected, topics,
                      subscribers>>

\* stdin: exit is read before any other descriptor is served.  Every client
\* in clientsConnected is told; the map is unordered, so when one send fails
\* any of the others may have been told before.
NobodyToldOfExit == {}
ToldOfExit == {sock[fd] : fd \in DOMAIN clientsConnected}

ServerExit ==
  /\ up = "up" /\ newsockFd = NoFd /\ tmp_fds = {}
  /\ \/ up' = "exited" /\ ServerSends(ToldOfExit, <<Exit>>)
     \/ \E last \in ToldOfExit : \E before \in SUBSET (ToldOfExit \ {last}) :
          /\ SendCanFail(last, 1)
          /\ ServerSends(before, <<Exit>>)
          /\ up' = "died"
  /\ UNCHANGED <<c2s, subVars, pubVars, backlog, read_fds, tmp_fds, newsockFd,
                 sock, clientsConnected, topics, subscribers>>

\* The processes that entries 1..n of a topic's list have sent to.
ToldEveryone(subs, n) == {sock[fd] : fd \in read_fds \cap Fd}
Told(subs, n) == {sock[subscribers[subs[k].clientID].fd] :
                    k \in {j \in 1..n : Connected(subs[j].clientID)}}

\* A message is stored for client id: it asked for SF and is not connected.
StoreAlways(subs, id) == \E k \in DOMAIN subs : subs[k].clientID = id /\ subs[k].SF
StoreFor(subs, id) ==
  ~Connected(id) /\ \E k \in DOMAIN subs : subs[k].clientID = id /\ subs[k].SF

\* sockUDP: one datagram.  A subscriber of its topic that is connected is
\* sent it at once; one that is not has it stored if it asked for SF.  The
\* subscribers are visited in order, so a failing send leaves out the rest.
HandleUdp ==
  LET m == Head(udp)
      news == [kind |-> "news", n |-> m.n, topic |-> m.topic]
      subs == IF m.valid THEN topics[m.topic] ELSE << >>
  IN  /\ Serving(sockUDP)
      /\ udp' = Tail(udp)
      /\ \/ /\ ServerSends(Told(subs, Len(subs)), <<news>>)
            /\ subscribers' = [id \in DOMAIN subscribers |->
                 IF StoreFor(subs, id)
                   THEN [subscribers[id] EXCEPT !.packets = Append(@, news)]
                   ELSE subscribers[id]]
            /\ UNCHANGED <<up, read_fds, newsockFd, sock, clientsConnected, topics>>
         \/ \E k \in DOMAIN subs :
              /\ \E p \in Told(subs, k) \ Told(subs, k - 1) : SendCanFail(p, 1)
              /\ ServerSends(Told(subs, k - 1), <<news>>)
              /\ Die
      /\ UNCHANGED <<c2s, backlog>>

-----------------------------------------------------------------------------
(* sockTcp: a new client. *)

Free(fd) == sock[fd] = NoProc

\* accept returns the lowest free descriptor, which joins read_fds before the
\* client is known to be welcome.
Accept ==
  /\ Serving(sockTcp)
  /\ backlog' = Tail(backlog)
  /\ \/ \E fd \in Fd :
          /\ Free(fd) /\ \A g \in Fd : Free(g) => fd <= g
          /\ sock' = [sock EXCEPT ![fd] = Head(backlog)]
          /\ newsockFd' = fd
          /\ read_fds' = read_fds \cup {fd}
          /\ UNCHANGED <<up, clientsConnected, topics, subscribers>>
     \/ (\A fd \in Fd : ~Free(fd)) /\ Die
  /\ UNCHANGED <<tcpVars, udp>>

NeverInUse(id) == FALSE
IdInUse(id) == Connected(id)

\* An id in use is refused: the client is told, and its descriptor is left
\* as it is.
Refuse(id) ==
  LET p == sock[newsockFd]
  IN  /\ IdInUse(id)
      /\ \/ ServerSends({p}, <<IdExists>>) /\ up' = up
         \/ SendCanFail(p, 1) /\ UNCHANGED <<s2c, peer>> /\ up' = "died"
      /\ UNCHANGED <<clientsConnected, subscribers>>

NoPackets(id) == << >>
Packets(id) == IF id \in DOMAIN subscribers THEN subscribers[id].packets ELSE << >>

\* The table entry of a client whose packets have been sent.
Session(id) == [connected |-> TRUE, fd |-> newsockFd, packets |-> << >>]

\* Any other id gets the descriptor, and the messages stored for it.
Welcome(id) ==
  LET p == sock[newsockFd]
  IN  /\ ~IdInUse(id)
      /\ \/ ServerSends({p}, Packets(id)) /\ up' = up
         \/ SendCanFail(p, Len(Packets(id))) /\ UNCHANGED <<s2c, peer>> /\ up' = "died"
      /\ clientsConnected' = Put(clientsConnected, newsockFd, id)
      /\ subscribers' = Put(subscribers, id, Session(id))

\* How many strings recv may return for the id.  Its result is not looked at:
\* at the end of the stream the id is the empty string.
IdLengthsUntilData(p) == 1..Len(c2s[p])
IdLengths(p) == 0..Len(c2s[p])

RecvId ==
  /\ up = "up" /\ newsockFd # NoFd
  /\ LET p == sock[newsockFd]
     IN  \E k \in IdLengths(p) :
           /\ ServerReads(p, k)
           /\ LET id == SubSeq(c2s[p], 1, k) IN Refuse(id) \/ Welcome(id)
  /\ newsockFd' = NoFd
  /\ UNCHANGED <<subVars, pubVars, backlog, read_fds, tmp_fds, sock, topics>>

-----------------------------------------------------------------------------
(* Any other descriptor: a client that was accepted. *)

StaysConnected(id) == subscribers
Disconnected(id) == [subscribers EXCEPT ![id].connected = FALSE]

\* recv returned 0.  A client with an id is forgotten.  Otherwise the lookup
\* inserts an empty id for the descriptor, which stays open and in read_fds.
Disconnect(i) ==
  LET known == i \in DOMAIN clientsConnected /\ clientsConnected[i] # << >>
  IN  /\ i \in Fd /\ Serving(i)
      /\ ServerReads(sock[i], 0) /\ peer[sock[i]] \in {"fin", "finrst"}
      /\ IF known
           THEN /\ subscribers' = Disconnected(clientsConnected[i])
                /\ clientsConnected' = Erase(clientsConnected, i)
                /\ sock' = [sock EXCEPT ![i] = NoProc]
                /\ read_fds' = read_fds \ {i}
           ELSE /\ clientsConnected' = Put(clientsConnected, i, << >>)
                /\ UNCHANGED <<subscribers, sock, read_fds>>
      /\ UNCHANGED <<s2c, peer, backlog, udp, up, newsockFd, topics>>

\* recv failed.
RecvFails(i) ==
  /\ i \in Fd /\ Serving(i)
  /\ ServerReads(sock[i], 0) /\ peer[sock[i]] = "rst"
  /\ Die
  /\ UNCHANGED <<s2c, peer, backlog, udp>>

\* The topic's list after client id unsubscribed on descriptor i: the search
\* finds the client's place j, and begin() + i is erased.
Unsubscribed(subs, id, i) ==
  IF \E j \in DOMAIN subs : subs[j].clientID = id THEN EraseAt(subs, i) ELSE subs

\* The list after client id subscribed.  If it is there already, SF is set in
\* the loop's copy of the entry, which is then thrown away.
Subscribed(subs, id, SF) ==
  IF \E j \in DOMAIN subs : subs[j].clientID = id THEN subs
  ELSE Append(subs, [clientID |-> id, SF |-> SF])

\* SFInt is not initialised: without a third word SF is what the stack held.
SFOf(cmd) == IF cmd.sf = NoSF THEN BOOLEAN ELSE {cmd.sf # 0}

\* recv returned data, of which only the first command is looked at.
HandleCommand(i) ==
  /\ i \in Fd /\ Serving(i)
  /\ LET p == sock[i]
         cmd == Head(c2s[p])
         id == clientsConnected[i]
     IN  /\ \E k \in 1..Len(c2s[p]) : ServerReads(p, k)
         /\ \/ /\ i \in DOMAIN clientsConnected
               /\ cmd.op = "unsubscribe"
               /\ topics' = [topics EXCEPT ![cmd.topic] = Unsubscribed(@, id, i)]
            \/ /\ i \in DOMAIN clientsConnected
               /\ cmd.op = "subscribe"
               /\ \E SF \in SFOf(cmd) :
                    topics' = [topics EXCEPT ![cmd.topic] = Subscribed(@, id, SF)]
            \/ /\ i \notin DOMAIN clientsConnected
               /\ UNCHANGED topics
  /\ UNCHANGED <<s2c, peer, backlog, udp, up, read_fds, newsockFd, sock,
                 clientsConnected, subscribers>>

Server == \/ Select \/ HandleUdp \/ Accept \/ RecvId
          \/ \E i \in Fd : Disconnect(i) \/ RecvFails(i) \/ HandleCommand(i)
=============================================================================
