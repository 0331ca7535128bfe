# A TLA+ model of the PCOM repository

The repository holds the programs of a course on communication protocols: a
publish/subscribe broker, a link emulator and file transfers over it, a UDP
wallet, two IPv4 routers, an HTTP client and smaller exercises. This directory
models them component by component, checks each model with TLC on small
instances and proves its main safety properties with TLAPS for every value of
the constants. `PROJECT.json` lists the components, the runs, the mutants each
property is tested with, the source lines each definition stands for, the
findings, the hazards and the theorems.

## Inventory

### Publish/subscribe (`Teme/Tema2`)

* **Broker** (`server.cpp`). State: `read_fds`, `tmp_fds`, and three tables:
  `clientsConnected` (descriptor to client id), `topics` (topic to the list of
  its subscriptions) and `subscribers` (id to connected, fd and stored packets).
  Operations, all in one thread: a round of `select`; then in ascending order of
  descriptors the UDP socket (one datagram to every subscriber of its topic), the
  listening socket (accept, then a *blocking* `recv` of the id, refuse or welcome
  and flush what was stored), each client (disconnect, subscribe, unsubscribe);
  and `exit` on stdin.
* **Subscriber** (`subscriber.cpp`). State: the socket and what has been printed.
  Operations: connect, send the id, read a line, send a typed command, leave.
* **UDP publishers** (`pcom_hw2_udp_client`): they only send datagrams.

They interact over TCP streams that keep no message boundaries, and over UDP.
Hard behaviours: a client may hang up, be killed or restart at any moment and
the server learns of it later; writes coalesce; a write to a dead connection is
accepted once and fails after; tables kept by hand must agree; the server blocks
on one client. Correct means: one session per id, tables that agree, stored and
direct messages once and in order, nothing unasked for, `exit` that ends every
session. A client that connects and keeps silent does stall the others.

### Link emulator (`Lab02/link_emulator`, `Lab03/link_emulator`)

State: the `buffer` queue under a mutex and a condition variable, the
scheduler's `in_flight` queue, `idle_time`, two link-up flags. Threads: forwarder
(receive, space check, loss, corruption, enqueue and signal), scheduler (send
what has finished, take one message, sleep or wait), reverse forwarder. Hard:
the space check and the enqueue, the emptiness check and the wait, are separate
critical sections; time goes on between them. Correct means: FIFO, no
duplicates, the buffer's bound, serialization spacing, no message stuck.

### File transfers (`Lab02/send.c`, `recv.c`; `Lab03/send.c`, `recv.c`)

Stop-and-wait, and windows of five with a parity acknowledgement, over the link,
without timeouts. Hard: any loss stops both ends; sender and receiver count
different numbers of messages; the announced size is cut to two digits; the
answer's parity is computed from what arrived. Correct means: the file
arrives in order, nobody ends before it has, both end if nothing is lost, and
(Lab03/README:16) what is not acknowledged correctly is sent again.

### UDP wallet (`Partial`)

State: `users` (id to money and isConnected). Operations: CONNECT, send_to,
show_sum, get, exit, each one datagram, each writing the whole account anew.
Server and clients run on one host, so that datagrams are neither reordered nor
duplicated; one is lost if the process it goes to is not there. Hard: an `exit` of
a client that is not the holder of the id; a client killed without `exit`, which
keeps its id for ever; an unknown id looked up unchecked, the one typed after
`get` included; a server that is restarted under running clients; sums that are
negative or overflow. Correct means: one client per id, money conserved, no
overdraft.

### Routers (`Teme/Tema1`, `pc pirvu`, `Lab04`)

State: routing table, ARP cache, queue of packets that wait for an ARP reply.
Operations: one per kind of packet received. Hard: the ARP reply handler drains
a queue that holds packets for several next hops; Tema1 puts packets back as
pointers to one variable; pc pirvu records an empty entry when it asks. Both
look addresses up as little-endian integers, by a binary search and by a trie
that fall short of longest prefix match in general. pc pirvu's tables are
networks of 24 bits and, last, one line for a host (rtable0.txt:64265,
rtable1.txt:64265); those of Tema1 are not text but object files. Correct means:
a packet has one fate; it goes out once, to the owner of its next hop, with its
TTL less by one; no lookup returns an entry that does not match, and those that
the tables leave no doubt about are found.

### HTTP library client (`Teme/Tema3`)

State: `loggedIn`, `jwtAccess`, the cookie and the token, one connection per
command, a growing buffer for the reply. Operations: register, login,
enter_library, get_books, get_book, add_book, delete_book, logout, exit. Hard:
a reply comes in parts cut anywhere, or not whole; the server may forget a
session or close at any time; success is the absence of the word "error"; a
declared length may not be that of the body. Correct means: a request carries
no session that was not issued or that the user has logged out of, what is
printed of a whole reply is true, connections are closed, every command ends if
the server does its part.

### The rest

Chat relay (`Lab08`), echo and chat (`Lab07`), UDP backup (`Lab06`), SMTP client
(`Lab11`), HTTP exercises (`Lab10`), static router (`Lab04`), ping and traceroute
(`Lab05`), DNS (`Lab09`), file tools (`Lab01`), topologies and checkers. See "Not
modelled".

## Plan

1. Publish/subscribe: **done**.
2. Link emulator: **done**, with the abstract `LossyFifo` it implements.
3. Wallet: **done**.
4. `StopAndWait` (Lab02) and `Windows` (Lab03): **done**, over `EmulatedLink`.
5. `Router` (Tema1) and `TrieRouter` (pc pirvu): **done**, on a common `RouteTable`
   of addresses, masks and what it is that an entry matches.
6. `HttpSession` (Tema3): **done**.
7. Proofs of every safety invariant, action property and refinement that the
   passing runs check: **done**, the two lookups included, on `RouteTableProofs`, which
   says what addresses and masks are bit by bit. Liveness and ENABLED stay with TLC.

| modules | component | composed in | abstract specification | run | proofs |
| --- | --- | --- | --- | --- | --- |
| `TcpStream`, `Subscriber`, `Broker` | Tema2 | `PubSub` | `SessionRegistry` | `pubsub`, `unsubscribe`, `missed` | `PubSubProofs` |
| `LinkEmulator` | link.c | | `LossyFifo` | `link` | `LinkProofs` |
| `EmulatedLink`, `StopAndWait`, `Windows` | Lab02, Lab03 | `Labs` | | `transfers`, `resend` | `LabsProofs` |
| `Wallet` | Partial | | | `wallet` | `WalletProofs` |
| `RouteTable`, `Router` | Tema1 | | | `router`, `kept` | `RouteTableProofs`, `RouterProofs` |
| `RouteTable`, `TrieRouter` | pc pirvu | | `Forwarding` | `trierouter`, `longest` | `RouteTableProofs`, `TrieRouterProofs` |
| `HttpSession` | Tema3 | | | `http` | `HttpProofs` |

The `MC` modules hold the values of the constants for TLC.

**Type invariants.** The type invariant of each component (`TypeOK`; for the labs,
`Typed` of `LabsProofs`) is proved for every value of the constants and is not
repeated in the runs.

## Publish/subscribe: the modules

| module | models |
| --- | --- |
| `TcpStream` | the kernel's TCP connections, as both programs use them (external) |
| `Subscriber` | `subscriber.cpp`: one action per step of `main` |
| `Broker` | `server.cpp`: `Select`, `ServerExit`, `HandleUdp`, `Accept`, `RecvId`, `Disconnect`, `RecvFails`, `HandleCommand` |
| `PubSub` | the composition, the properties, the fairness |
| `SessionRegistry` | abstract: who holds which id |
| `MCPubSub` | instances for TLC |
| `PubSubProofs` | theorems and proofs: types, sessions, descriptors, the refinement; what is stored and delivered |

**Atomicity.** The server is one thread, and what it does for one descriptor
touches its tables only, so a handler is one action; the exception is accepting,
split at the blocking `recv` into `Accept` and `RecvId`. Between two handlers any
subscriber may connect, write, read or vanish. Within a handler that sends to
several processes a send may fail; `HandleUdp` and `ServerExit` then say which
processes were served before the server died.

**Streams.** A direction of a connection is the sequence of strings written and
unread. `recv` takes any non-empty prefix of them, so an id and a command, or two
commands, may come together; a client id in the model is therefore the
*sequence* of strings one `recv` returned, as it is in the code, where it is their
concatenation. One string cut in two is not modelled: the strings are short and
go out in one segment. `peer` records how a closed connection looks to the
server: end of file, or a reset after unread data was thrown away; a write to a
closed connection succeeds once and fails from then on.

**Undefined and unspecified behaviour.** `erase(begin() + i)` outside the vector
(server.cpp:322) is undefined; the model has what the library of the Makefile's
compiler does for this trivially relocated tail, dropping the last element.
`SFInt` uninitialised (server.cpp:329) is a free choice. The order of an
`unordered_map` in `exit` is a free choice of who was told before a failing send.

**Abstracted.** The text of messages: a message is its number and topic, and
whether `processUdpPacket` accepts its type. A subscriber that reads end of file
for ever changes nothing and is a stutter. The address and port of clients are
only printed.

## Publish/subscribe: what the runs show

Bounds: `MaxCmds` commands typed per process, `MaxNews` datagrams, descriptors up
to `MaxFd` (the first client gets 5: 0-2 are the standard streams, 3 and 4 the
sockets). A process connects once; a restart of a client is another process with
the same id, so two processes with one id (`OneId`) cover the double, the restart
before the server noticed and the restart after. With as many descriptors as
processes, descriptors are still reused.

Deadlock is not checked: the server rests in `select` when nobody does anything,
and stops at `exit`.

| run | instance | shows |
| --- | --- | --- |
| `pubsub` | 2 processes with one id, 1 topic, 1 command each, SF not typed, 2 messages, fair | `SessionsAgree`: the tables describe the same sessions on open, watched descriptors; `DescriptorsAgree`: no descriptor is lost or shared; `ReportedStaysReady`: a descriptor that `select` reported is still ready when its turn comes; `ImplementsRegistry`; `InOrderOnce` (stored and direct messages, several sessions); `StoredIsHandedOver` (stored messages leave the store only all together, in order, to the new session); `OnlyWhatWasAskedFor`; `OnlineGetsNews`, `ExitEndsSessions`, `FreesIds` |

`ReportedStaysReady` is about the calls on reported descriptors. It does not say
that a round cannot block: the `recv` of a new client's id (server.cpp:239) is
on a descriptor that nobody reported, and waits until that client writes or
closes (`RecvId`). Everyone else waits with it; the liveness properties hold
because the second fairness assumption below ends that wait.

Two messages are the least of which one can be stored and one sent directly, in
either order; SF that was not typed is 0 or 1, so that messages are stored and
are not. A command can be read together with the id or alone; in `unsubscribe`,
two commands are read together. More processes, ids, topics and commands are
left to the proofs, which cover every property of the run but the last three.

**Fairness.** Weak fairness of the server's loop (one thread that the scheduler
runs), of a started process sending its id (the next statement of its `main`) and
of a process reading what `select` reports. Nobody is obliged to start, type,
publish, leave or be killed, and `exit` need not be typed. A process that never
sends its id because it was killed leaves an end of file, which frees the
server from `recv`; one that is suspended for ever is excluded by the second
assumption, and would stall the server.

### What the code does not keep

Each of these runs checks one statement of the code's own words; TLC finds it
violated, and the finding in `PROJECT.json` says how.

| run | statement | what happens |
| --- | --- | --- |
| `unsubscribe` | "Unsubscribed from topic." | the descriptor is used as the position to erase: another client's subscription goes |
| `missed` | "receives missed SF messages upon restart" | a message served between a client's leaving and the server's noticing goes to the dead connection |

(The runs `kept`, `longest` and `resend` do the same for the routers and Lab03.)

The passing properties are stated so as to hold beside these: `InOrderOnce`
forbids duplicates and reordering but not the loss shown by `missed`. It compares
the streams of a process with the store of its id only if the server knows the
processes started with that id under no second one: an id that is read together
with a command is another id to the server (server.cpp:239-243), so such a process
is sent message 2 directly while message 1 is stored for the same user under the
plain id. And `OnlineGetsNews` speaks of a client that stays. What else the model
has of this kind, without a run: a command read together with the id, or with
another command, is lost (`RecvId`, `HandleCommand`); a refused client's
descriptor stays open (`RecvId`); a reset connection ends the server
(`RecvFails`).

## Publish/subscribe: what is proved

For any sets of processes, ids and topics, any number of descriptors and any
bounds, from the assumptions `SubscriberAssumption` and `BrokerAssumption` (which
say what the constants are) and nothing else:

* `TypeCorrect`: `Spec => []TypeOK`
* `ReportedIsReady`: `Spec => []ReportedStaysReady`
* `SessionsSafe`: `Spec => []SessionsAgree`
* `DescriptorsCounted`: `Spec => []DescriptorsAgree`
* `RegistryImplemented`: `Spec => Registry!Spec`, the refinement.

The inductive invariant `IInv` is the conjunction of the type invariant,
`ReportedStaysReady`, `SessionsAgree` and `DescriptorsAgree`. The last is also the
strengthening: neither of the other two is inductive without knowing that the
open descriptors are exactly the watched ones, that a process has at most one
connection, in the backlog or open, and that the descriptor whose id is awaited
is in no table yet. `TypeStep`, `ReadyStep`, `DescriptorsStep` and `SessionsStep`
each treat one conjunct, action by action; `Invariant` combines them;
`RegistryStep` maps every step of the system to a step of the registry or a
stutter, using the invariant to know that a session's descriptor belongs to the
process that holds the id.

Of the messages, from the same assumptions:

* `StoreHandedOver`: `Spec => StoredIsHandedOver`
* `OnlyAsked`: `Spec => []OnlyWhatWasAskedFor`
* `DeliveredInOrder`: `Spec => []InOrderOnce`
* `SubscribedOnce`: `Spec => []ListedOnce`. The loop over a topic's list
  (server.cpp:209-223) sends or stores once per id; this is also why the model may
  treat the sends of one datagram as a set.

`OnlyWhatWasAskedFor` follows a subscription from the keyboard to the streams, and
`AInv`, its inductive invariant, says of each place on the way that what is there
was asked for: commands in a stream were typed (`CommandsTyped`), the id is the
first thing the server reads of a process (`IdComesFirst`), the id of a session
begins with that of its process (`SessionIds`), and list, store and streams hold
only topics asked for under that id (`ListsAsked`, `StoreAsked`, `LinesAsked`).
`ClosedIsGone` excludes a process that goes on typing after it closed.

`InOrderOnce` follows a message from the socket's buffer to the store or the
streams. `OInv` says that the buffer is in order (`BufferInOrder`), that what is
in a stream or a store is in order and older than what is still in the buffer
(`LinesInOrder`, `StoreInOrder`), that a connected subscriber has nothing stored
(`StoreOfTheAbsent`), that a process not heard yet was sent nothing
(`NewcomersHaveNone`), and that a process that was sent something has an id whose
store, if any, begins after it (`NewerIsStored`): this ties the streams to the store over
all sessions of an id. `ListedOnce` makes one message one append. TLC checked
`AInv` and `OInv` as invariants on small instances before they were proved.

Only model-checked: liveness, which is out of the prover's reach, as is ENABLED.
No module uses a recursive operator.

## Link emulator: the modules

| module | models |
| --- | --- |
| `LinkEmulator` | `link.c`: the forwarder (`Receive`, `CheckSpace`, `Keep`, `Put`), the scheduler (`Loop`, `SendOut`, `LookInBuffer`, `Take`, `Block`, `WakeUp`), the reverse forwarder (`Reverse`), and time (`Tick`) |
| `LossyFifo` | abstract: a FIFO that may lose, with nothing repeated or reordered |
| `LinkProofs` | theorems and proofs |

**Atomicity.** A critical section under `buffer_lock` is one action, together with
the thread-local statements around it. `CheckSpace` and `Put`, `LookInBuffer` and
`Take` or `Block`, are separate because the lock is released between them.
`pthread_cond_wait` releases the lock as it begins to wait, so the assertion and
the wait are one action. `SendOut` is one `sendto`.

**Time.** `clock` is what `now()` returns, in the unit of the delays. `crt_time` is
read once per loop (the second reading, link.c:229, is commented out) and may be
stale when it is used. `Tick` lets time pass anywhere, up to `MaxStall` beyond
`crt_time` or beyond the end of a sleep: this bounds how long the operating
system keeps a ready thread waiting. While the scheduler waits for a signal the
wire is empty and no deadline is pending, so `Tick` stands still then.

**Abstracted.** A message is its number, its length and whether a byte was
changed. `rand() % 100 < percent` is a free choice, unless the percentage is 0 or
100. A datagram that the kernel drops is one that is not sent. A `sendto` to a peer
that is not known yet fails and is only reported: nobody gets the message.

## Link emulator: what the run shows

| run | instance | shows |
| --- | --- | --- |
| `link` | buffer of 2, delays 2 and 2, 4 messages of length 0 or 1, loss, every byte corrupted, `MaxStall` 1, one spurious wake-up, fair | `SeenIsStillSo` (what one critical section saw, room or a message, is there in the next), `NoLostSignal`, `PipeBounded`, `DelayHonoured`; `Drains`: the refinement of the fair `LossyFifo`, so that nothing is repeated or reordered and what entered the link comes out, or was lost at a peer that is not there |

The first of the four datagrams only tells the emulator who its peer is, so three
enter: a buffer of two fills while the scheduler is kept waiting, and the third
finds it full, or finds room after one was taken. Corruption at 100 percent keeps
the instance small without losing a case: the model asks of a corrupted byte only
whether there is one to corrupt, and a message of length 0 has none. With both
delays 2, `PipeBounded` allows two messages on the wire, so the third must wait;
the proof covers every pair of delays. A stall of one unit is enough for
`crt_time` to be older than the message it stamps. `DelayHonoured` therefore takes
`MaxStall` off: without it the property is false, the delay being counted from a
moment before the message was there.

Deadlock is not checked: the senders stop at their bound, and the emulator may
abort. `assert(!buffer->size)` (link.c:272) can fail, when a message is enqueued
between the check and the lock; `Block` models it (`alive = "assert"`), and every
property holds up to it.

**Fairness.** Weak fairness of the scheduler thread and of time. The forwarder, the
peers and the spurious wake-ups are not obliged to do anything. `Drains` is
conditional on the emulator still running: the abort empties nothing.

## Link emulator: what is proved

For any `BUFFER_SIZE`, delays, percentages and bounds, from `LinkAssumption` (they
are natural numbers) alone: `LinkTypes`, `BufferStaysBounded`, `TakeFindsMessage`,
`SeenStaysSo`, `SignalIsNotLost`, `WireSerialises`, `PipeStaysBounded` (`Spec => []P`
for the invariants `TypeOK`, `BufferBounded`, `TakesWhatIsThere`, `SeenIsStillSo`,
`NoLostSignal`, `Serialised`, `PipeBounded`) and `DelaysAreHonoured` (`Spec =>
DelayHonoured`).

The inductive invariant is `LInv`. Its strengthenings are `RoomIsKept` and
`PutIsDecided` (room the forwarder saw cannot be lost, since the scheduler only
makes more), `FinishedWhenIdle` (all that is on the wire finishes by `idle_time +
delay`, which makes the next one finish `serialization_delay` later),
`NotDueAtTake` and `WireSpan` (a message is taken only when none on the wire is
due, so the whole wire spans less than `serialization_delay + delay`), and
`ClockIsNear` (how stale `crt_time` may be). Two frame lemmas say which actions touch
the buffer and the wire; each further lemma treats one part of `LInv`.

`LinkIsFifo` is the refinement: `Spec => Fifo!Spec`, what `Drains` says but its
fairness. It needs `Ordered`: numbers grow from those that passed `run_forwarding`
(`Passed`: in flight, in the buffer, or out), over its `m`, to those in the socket, so
that what `Put` adds is the newest. Each step then does one of four things to the link
(`LinkKinds`): a message enters it, leaves it (delivered or lost), moves from the
buffer into flight, which the sequence of both does not show (`WireMoves`), or none.

Only model-checked: the liveness of `Drains`.

## Wallet

`Wallet` models both programs of `Partial`. The server handles one datagram at a
time: `HandleConnect`, `HandleSendTo`, `HandleShowSum`, `HandleGet` and
`HandleExit` are the branches of its loop, `ServerExit` the typed command, `Crash`
the dereferenced `end()` of an unknown id (server.cpp:137, 147, 170),
`ServerStart` a restart with no accounts. A client connects (`Start`), lets
`select` report the socket and stdin (`ReadReply`, `Select`), which it reads in
that order, sends what was typed, and leaves, or is killed without a word. After
`get` the client checks one word only and sends the line as it was typed, with its
own id after it (client.cpp:113-122); the server takes the word after the sum for
the id (server.cpp:146). `TypeGet` therefore sends any id, the client's own or one
typed in its place. Numbers are ints of the width `MaxInt` gives, and wrap around.
Commands that the client only answers on its stdout are left out.

The variables `booked`, `accepted`, `unknown`, `freed` and `odd` are not in the code:
they say what the replies confirmed and why an account may be in debt or an id
held twice.

| run | instance | shows |
| --- | --- | --- |
| `wallet` | 3 clients, two with one id; sums -1 and 2, `MaxInt` 3; one command each, one end of the server | `MoneyAddsUp`: an account holds what the replies confirmed; `NoOverdraft`: debt needs a negative sum or an overflow; `OneHolder`: two clients with one id need an `exit` that was not the holder's; `FailedFind`: the unchecked `find` fails only for a client whose CONNECT never came or was forgotten, or for an id typed after `get` |

One command per client is enough, since three clients act on two ids: a refused
client sends `exit` before it reads the refusal, a client pays into an account while
its holder gets from it, and a restart falls between any two of these. With
`MaxInt` 3 the second sum of 2 overflows. Deadlock is not checked: everyone may
leave.

**Proved**, for any clients, ids, sums, width of int and bounds, from
`WalletAssumption`, every invariant of the run: `TypesKept` (`TypeOK`),
`AccountsAddUp` (`MoneyAddsUp`), `NeverInDebt` (`NoOverdraft`),
`FindFailsForCause` (`FailedFind`) and `AtMostOneHolder` (`OneHolder`). Given the
types, the second and third are inductive as they stand: the lemmas
`HandlersAgree` and `HandlersSolvent` take the five handlers one by one, and
`WrapInRange` is why money stays an int. The others need what the socket still
holds. `Introduced`: a command that looks up its sender's account (all but a `get`
with another id) comes after a CONNECT of that account, still in the socket
(`ConnectIn`) or obeyed, unless its sender is `unknown`. `Senders` says who the
datagrams are from, and `Owned` that a client the server let in holds its id until
its `exit` is handled (`HoldsOn`), alone and with the account open, so that a
second CONNECT is refused, unless an `exit` of another has freed the id.

## Routers

`RouteTable` has addresses, masks and tables as both routers hold them (a
little-endian word whose first octet is the least significant), and what it is
that an entry matches. An address has two octets of two bits here; the code's four
of eight are other values of the same constants.

`Router` is Tema1. Packets are handled one at a time by the tests of the loop, in
their order: `AnswerArp`, `HostReplies` and `HostAnnounces` (an ARP reply, asked for
or not), `Drop`, `TimeExceeded`, `Unreachable`, `Echo`, `Ask`, `Forward`. `Tables` has
every result of `qsort` with the comparator of the code, `BinarySearch` is its
lookup. The code queues packets by address: after a reply, all that still wait
are pointers to the one variable `firstPacket`. The queue is therefore `dups`
pointers to `slot` followed by the packets `own` with memory of their own, and
`mixed` remembers which packets shared the slot.

`TrieRouter` is pc pirvu's: `Path`, `Child` and `FindIn` are the trie and its
lookup, and the actions are those above, except that `Ask` enters an empty MAC
for the destination, and any reply releases the whole queue (`Released`). It is
shown to implement `Forwarding`: every packet has one fate. `LongestMatches` is the
reference for `longest`.

| run | instance | shows |
| --- | --- | --- |
| `router` | 3 tables, 2 hosts, 5 destinations, 4 packets, 1 unasked reply, fair | `OneFate`: a packet waits or has one frame, and none vanishes, but for those in `mixed`; `SentByRoute`; `WaitingIsAsked`: what waits has a reply to come; `LookupFindsRoute`; `QueueDrains` |
| `trierouter` | 2 tables, 2 hosts with 2 MACs, 3 packets, 2 unasked replies, fair | `EmptyMeansAsked`: an empty entry is one waiting packet and its request; `LookupFindsEntry`; `SentToOwner`: a frame goes to the MAC its host announced last, or to the empty one; `ImplementsForwarding`; `QueueDrains` |
| `kept` | as `router` | violated: `RestIsKept`, the README's "I keep in the queue the rest of the packets whose MAC is not yet known" |
| `longest` | 1 table with two masks for one prefix, addresses of 3 octets | violated: `LongestWins`, the "find longest prefix match" of router.cpp:275 |

Destinations are the hosts, a network behind a next hop, an address without a
route and the router's own. Four packets are the least in `router` for one that
is answered, two that its reply leaves to share the slot, and one that comes later.

**What the lookups find.** Neither is a longest prefix match, and the properties
say no more than what each does find.

* `LookupFindsRoute` (Tema1, router.c:56-77), for any table: what is returned
  matches, or nothing is returned. And of a table that the comparator orders
  (descending, where Tema1/README:26 says ascending; `Sortable`: no difference of two prefixes overflows, none is there twice) every
  entry is found by every address it matches, unless a line with another mask
  stands half as far down as it or further (`OneMaskBy`): the search may
  look at that line, compare under its mask and turn to the wrong half. In tables
  like pc pirvu's, which are 24-bit networks and one host's line, sorting puts
  that line first, so all entries are covered but two: the host's own and the
  network with the largest prefix, 192.255.255.0. Those two are indeed missed in
  both of those tables (the network but for one or two of its addresses). Tema1
  claims no longest prefix match, so there is no statement for a run to refute.
  The tables of the run are networks with a host's line after them, a host's line
  too far from its network to be sorted, and networks alone.
* `LookupFindsEntry` (pc pirvu, trie.h:46-93), for any table: an address in a
  network of whole octets gets that network's entry, if no other entry lies within
  (`Network`, `Alone`). Every network of pc pirvu's tables is such a one. A host's
  line (a mask of all octets) is not covered: `MaskLength` counts one bit less, and
  what the walk then finds is not always the host's entry. Nor is the address 0,
  at which the walk does not begin. The tables of the run are networks alone, and
  networks with a host inside one and a host in none.
* `longest` shows what happens beyond that: of 1.0.0/8 and 1.0.0/16, an address
  that only the first matches gets the second, because where the walk has a 1 and
  only a child for 0 it takes that child (trie.h:74-78). router.cpp:275 and
  README:11-14 (entries of one prefix with several masks) say otherwise.

**Fairness.** A host that is there answers what it is asked. The router itself only
reacts. Deadlock is not checked: packets stop at the bound.

**Proved**, for any tables, hosts, addresses and bounds, from
`RouteTableAssumption` and the routers' own. Of `Router`: `TypesKept` (`TypeOK`),
`NoneWaitsInVain` (`WaitingIsAsked`), `AtMostOneFate` (`OneFate`) and `LeaveByRoute`
(`SentByRoute`). The invariant `Awaited` says of the shared slot and of the packets in
`own` apart that their next hop has been asked, since `WaitingIsAsked` speaks of a
queue put together from both. The last two rest on `FInv`: what waits has a route and
a TTL to lose, unless it shared the slot (`Queued`); a packet is in one place, the
slot, `own` or `out`, and there once, unless it shared the slot (`OnePlace`); each
received one is counted there or as dropped (`CountedOnce`). The reply is the hard
step (`ReplyFrames`, `ReplyPlaces`, `ReplyQueue`, `ReplyRoutes`): its frames are
copies of the slot, which are more than one only for packets in `mixed`, and then the
packets of `own` that it answers, each once; the rest are counted in the slot again. Of
`TrieRouter`: `TypesKept` (`TypeOK`), `EmptyEntriesAsked` (`EmptyMeansAsked`),
`TableUpToDate` (`TableIsLatest`, the ARP table holds what each host announced last) and
`FramesReachOwner` (`Spec => SentToOwner`), which follows from the three: a packet
released by another host's reply has an empty entry, and no later announcement; and
`OneFateEach` (`Spec => ImplementsForwarding`), the refinement, from `OnePlace`: each
packet is in the queue or in the frames, once. Then the fate of a packet says where it
is (`PlainFate`), an arrival settles the new packet's and no other (`ArrivalMaps`), and
a reply turns every wait into a frame (`ReplyMaps`).

Each router's `LookupFinds` (`Spec => []LookupFindsRoute`, `Spec =>
[]LookupFindsEntry`) is about every table, of any length and width of address, and
every address. `And`, `InMemory`, the search and the walk are recursive
functions, and the induction is over a set of numbers (`Inductive`): a set that does
not hold them all misses a least one, by `NatLessThanWellFounded` and `WFMin`. Such a
function is first shown to exist (`SumExists`, `SearchExists`, `WalkExists`). Of
`RouteTable`, in `RouteTableProofs`: an address is the sum of its digits, and numbers
of the same digits are equal (`DigitsOf`, `SameDigits`); `And` has the digits that both
have (`AndSum`); `NetBit` turns each octet round and keeps the octets (`NetBitTurns`).
From there:

* Tema1: the difference of two prefixes of a table that `Sortable` describes does
  not overflow an `int` (`SmallDifference`); the comparator then orders by prefix, a
  sorted order exists (`CanBeSorted`), and the table descends (`IsSorted`).
  Comparing the masked address with the middle prefix never discards the half that
  holds the matching entry: the search comes to index j - 1 by halves, so it looks
  only at lines half as far down or further, and they have the same mask
  (`SearchFinds`). That what is found matches needs no order (`SearchFits`).
* pc pirvu: a mask of whole octets is a beginning of the bits in memory too
  (`OctetMaskBits`), and the entries put as deep as it or deeper have all of its bits
  (`OctetMaskLength`). Nodes are the beginnings of the entries' prefixes
  (`PathNodes`); an entry put at the network's node or below it would lie within
  it (`PathsTell`), so there is none but the network's own, and the walk of an
  address in the network comes to that node and stays (`WalkArrives`).

The search is a function of the pair `<<left, right>>`, since the provers know only
functions of one argument.

Only model-checked: `QueueDrains`.

## File transfers

`EmulatedLink` is the link of Lab02 and Lab03 as the programs at its ends meet it:
`LinkEmulator` without clock and locks, but with what becomes of a changed byte
(`Changed`; an empty message ends the emulator with a division by zero,
link.c:307), the hello that registers a program, and what is lost at a program
that has ended or not yet begun. `StopAndWait` is Lab02, `Windows` Lab03, and `Labs`
runs either over the link. The programs are started once, in any order. A
payload is the number the other side reads: the place of a chunk or of a word in
the file, or the announced size, of which `snprintf` leaves two digits
(send.c:24). `Parity` is any number both programs compute from the payload: the
properties use nothing else of it.

| run | instance | shows |
| --- | --- | --- |
| `transfers` | files of 0, 5, 99, 100, 1399, 2799 and 4000 bytes and a missing one, chunks of 1399, windows of 3, `COUNT` 7, a buffer of 3, loss and corruption 0 or 50 percent, fair | `WithinWindow`; `WrittenInOrder`: what is written is a beginning of the file; `DoneMeansWritten`: who ends has all of it; `WindowsBounded`: Lab03's sender gets past `COUNT` divided by `Window` windows never, and so never ends; `Completes`: if nothing is lost Lab02's sender ends, its receiver too if the size has two digits, and Lab03's receiver |
| `resend` | a file of 28 bytes | violated: `WrongAckIsResent`, "if a correct ACK is not received, that sequence of bytes is sent again" (Lab03/README:16) |

The sizes are those about the bounds of the code: two digits, one chunk, two
chunks and a rest. Corruption may read as 0, 5 or 13, one of which ends the
receiver at once, one is the size of a file here and one is of none. `COUNT` is
not a multiple of `Window`, so that the last window is not answered; the proofs
are for all values. `DoneMeansWritten` is about what is written; recv.c:34 of
Lab02 opens its file without `O_TRUNC`, so the result is the sender's file only if
the old one was not longer.

In Lab03 an answer carries the parity of the word that arrived, and that word comes
back with it; the sender compares the two (send.c:57-71). They agree whatever
the emulator did to the word on its way, so nothing is ever sent again: this is
what `resend` shows, and the theorem `SentOnce` says of every window and `COUNT`.

**Fairness.** Each thread of the emulator and each program gets to run, and both
programs are started. Deadlock is not checked: a lost message stops both sides for
ever, as in the code.

**Proved**, for any sizes an int holds, `Window`, `COUNT`, `Chunk`, `BUFFER_SIZE`,
percentages and changed bytes, from `LabsAssumption`: `TypesKept` (`Typed`),
`KeptToWindow` (`WithinWindow`), `SentOnce` (`NeverResends`, which no run checks),
`StopsShort` (`WindowsBounded`), `CopiedInOrder` (`WrittenInOrder`), and for a
`Chunk` above 99, as send.c has it, `EndsWithTheFile` (`DoneMeansWritten`: a
shorter chunk could end where the two digits say). The inductive invariant of the
first four adds to the types: `Greeted` (an unregistered program's socket begins
with its hello, so that no other message is taken for one), `Counted` (how much
may be unanswered at each place of the sender's loop), `Answered` (every answer on
its way has its own parity) and `Windowed` (answers had and answers on the way are
at most those the receiver has sent). For the file, `Copied` is inductive beside
it: the one message that `Counted` allows is the one the receiver waits for, with
the place it should have or marked as changed (`Expected`), or it is an answer,
and then the sender has read exactly what is written (`Turns`); and unless the
announcement was changed, the receiver's count is the announced size less what is
written (`Told`). `Comes` is the lemma that makes the emulator harmless: every
message it has comes from one that was there, and differs from it only if marked,
never in length. Only model-checked: `Completes`.

## HTTP library client

`HttpSession` is the client of Tema3, with a server that is external and may do what
the client cannot exclude: cut a reply into parts, leave out Content-Length, close
at any time, end sessions. A command is typed (`Type`: what is refused without a
request only prints), its reply is read (`Read`, `Received`), and one action per
kind of command handles it: `Login`, `EnterLibrary`, `Get`, `Change` (register,
add_book, delete_book), `Logout`. A reply has four parts, cut where the client's code
looks: before "Date:", where the cookie ends, in the middle of the header's
terminator, after it, and the body. Success is the absence of "error" (`Error`): a
book may have that word in its text (`Tricky`). A null pointer from a search that
finds nothing ends the client (`pc = "crash"`), or, where it is printed, may.

| run | instance | shows |
| --- | --- | --- |
| `http` | 1 user, 2 books, one `Tricky`, page counts "7" and "007", 5 commands, fair | `SessionIsOwn`: a request carries an issued cookie and token, and none of a session logged out of; `VerdictIsTrue`: a success printed of a reply not cut short is one, a failure is one unless a book has the word "error"; `OpenConnections`; `CommandsEnd` |

Five commands are the least for login, enter_library, a request, logout and one
more. "007" declares three bytes and has one.

What these do not say: a login that fails leaves the old cookie and token in
place, and after a second login the token is that of the first until
enter_library is typed again; requests with them are allowed by `SessionIsOwn`. A
reply that the server cuts short, an empty one included, is taken for a success
if it lacks the word (the exception of `VerdictIsTrue`).

Tema3/README:22 says that a connection is opened and closed at each request. **The
code does not keep this**: a login answered with neither "error" nor a cookie
goes on with the next command (client.c:75-76) and its connection stays open for
good. `OpenConnections` counts them: what is open is one connection for each such
login and the one of the command being carried out, and no other answer or hang-up
of the server leaks one.

**Fairness.** The client goes on, the server handles and answers a request that is
whole, and closes a connection where only that ends the reply or when it has
waited for the rest of a request. `CommandsEnd` rests on that: with a
Content-Length too long for its body the server waits, and the client with it,
until the server gives up. Deadlock is not checked: the client may leave. The
message buffers of 500 bytes and the end of the client's input are not modelled.

**Proved**, for any users, books, page counts and number of commands, from
`HttpAssumption`: `TypesKept` (`TypeOK`), `VerdictsAreTrue` (`VerdictIsTrue`),
`OthersAreClosed` (`OpenConnections`) and `SessionsAreOwn` (`SessionIsOwn`).
`Finishes` and `Ends` say in one lemma how all commands end. `SessionIsOwn` is far
from inductive: `IInv` adds that the flags guard the cookie and the token
(`Held`), that a request that is out was allowed (`Asked`), that a reply under way
offers a session of its own and never to a logout (`Offered`, `Promised`), and
that no reply is left over at the prompt (`Fresh`). Only model-checked:
`CommandsEnd`.

## Not modelled

* `Lab08`, TCP chat relay: the `select` loop of the Tema2 server without its tables.
* `Lab07`, echo and chat: one `recv` and one `send` in turn.
* `Lab06`, UDP backup: one loop on each side that nobody acknowledges.
* `Lab04`, static router: an unfinished exercise; what it does, `Router` does.
* `Lab05`, ping and traceroute: one request, one reply, no state between them.
* `Lab10`, HTTP exercises, and `Lab11`, SMTP client: a fixed sequence of requests.
* `Lab09`, DNS, and `Lab01`, file tools: calls of the library, no state.
* Topologies, checkers, the acceptance test of Tema2: they drive the programs. The
  acceptance test was read for what it promises (`MissedNewsArrives`).

In the modelled components: command lines, formatting, addresses that are only
printed, checksums (right or wrong), raw sockets, and a table of ARP entries that
runs over after 66000 replies (router.c:106).
