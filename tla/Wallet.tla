------------------------------- MODULE Wallet -------------------------------
(***************************************************************************)
(* The wallet of Partial: a server (server.cpp) that keeps an account per  *)
(* id in memory and answers UDP datagrams one at a time, and its clients   *)
(* (client.cpp).  All run on one host: datagrams are not reordered, and    *)
(* one is lost only if the process it goes to is not there.  The operator  *)
(* starts the server again after it has ended.                             *)
(***************************************************************************)
EXTENDS Integers, Sequences

CONSTANTS
  Client,          \* client processes
  Id,              \* account ids
  Argv1,           \* [Client -> Id]: the id each process is started with
  Sums,            \* the numbers typed after send_to and get
  MaxInt,          \* largest int: the arithmetic wraps around above it
  MaxTyped,        \* bound: commands typed at one client
  MaxEnds          \* bound: how often the server ends

ASSUME WalletAssumption == /\ Argv1 \in [Client -> Id] /\ Sums \subseteq Int
                           /\ MaxInt \in Nat /\ MaxTyped \in Nat /\ MaxEnds \in Nat

VARIABLES
  srv,             \* "up" or "down"
  users,           \* id -> money, isConnected
  net,             \* datagrams in the server's socket
  state,           \* [Client -> "new", "running" or "gone"]
  atStdin,         \* [Client -> select has reported a typed command, not yet handled]
  inbox,           \* [Client -> Seq(Reply)]: its socket
  typed,           \* [Client -> number of commands typed]
  ends,            \* number of times the server ended
  booked,          \* id -> what the replies say was paid in, less what was paid out
  accepted,        \* clients whose CONNECT made or reopened an account
  unknown,         \* clients whose CONNECT the server has not got, or has forgotten
  freed,           \* ids an exit freed that was not its holder's
  odd              \* ids with a negative sum or a sum out of range

srvVars == <<srv, users, net, ends>>
cliVars == <<state, atStdin, typed>>
ghosts == <<booked, accepted, unknown, freed, odd>>
vars == <<srvVars, cliVars, inbox, ghosts>>

User == [money : Int, isConnected : BOOLEAN]
Datagram == [op : {"CONNECT", "show_sum", "exit"}, from : Client, id : Id, sum : {0}]
              \cup [op : {"send_to", "get"}, from : Client, id : Id, sum : Sums]
Reply == {"USER_EXISTS", "MONEY_SENT", "MONEY_NOSENT", "SHOW_SUM", "GET_ERROR", "GET_MONEY"}

\* Addition and subtraction of ints, as the processor does them.
InRange(x) == -MaxInt - 1 <= x /\ x <= MaxInt
Wrap(x) == IF InRange(x) THEN x
           ELSE ((x + MaxInt + 1) % (2 * (MaxInt + 1))) - MaxInt - 1

Init == /\ srv = "up" /\ users = << >> /\ net = << >> /\ ends = 0
        /\ state = [c \in Client |-> "new"]
        /\ atStdin = [c \in Client |-> FALSE]
        /\ inbox = [c \in Client |-> << >>]
        /\ typed = [c \in Client |-> 0]
        /\ booked = [id \in Id |-> 0]
        /\ accepted = {} /\ unknown = {} /\ freed = {} /\ odd = {}

Running(c) == state[c] = "running"

-----------------------------------------------------------------------------
(* The server: one datagram per round. *)

\* users[id] = newUser.
StoreIfKnown(id, money, isConnected) ==
  users' = [x \in DOMAIN users |->
              IF x = id THEN [money |-> money, isConnected |-> isConnected] ELSE users[x]]
Store(id, money, isConnected) ==
  users' = [x \in DOMAIN users \cup {id} |->
              IF x = id THEN [money |-> money, isConnected |-> isConnected] ELSE users[x]]

\* sendto the source of d: lost if that process has ended.
Answer(d, reply) ==
  inbox' = IF Running(d.from) THEN [inbox EXCEPT ![d.from] = Append(@, reply)] ELSE inbox

Known(d) == d.id \in DOMAIN users

\* The account that arithmetic has touched, and whether as it should.
Book(id, change, sum) ==
  /\ booked' = [booked EXCEPT ![id] = Wrap(@ + change)]
  /\ odd' = IF sum < 0 \/ ~InRange(users[id].money + change) THEN odd \cup {id} ELSE odd
  /\ UNCHANGED <<accepted, unknown, freed>>

NotTaken(d) == FALSE
Taken(d) == Known(d) /\ users[d.id].isConnected

\* A new account, an account reopened with its money, or a refusal.
HandleConnect(d) ==
  /\ d.op = "CONNECT"
  /\ IF Taken(d)
       THEN Answer(d, "USER_EXISTS") /\ UNCHANGED <<users, accepted>>
       ELSE /\ Store(d.id, IF Known(d) THEN users[d.id].money ELSE 0, TRUE)
            /\ accepted' = accepted \cup {d.from}
            /\ UNCHANGED inbox
  /\ UNCHANGED <<booked, unknown, freed, odd>>

HandleSendTo(d) ==
  /\ d.op = "send_to"
  /\ IF Known(d)
       THEN /\ Store(d.id, Wrap(users[d.id].money + d.sum), users[d.id].isConnected)
            /\ Answer(d, "MONEY_SENT")
            /\ Book(d.id, d.sum, d.sum)
       ELSE Answer(d, "MONEY_NOSENT") /\ UNCHANGED <<users, ghosts>>

HandleShowSum(d) ==
  /\ d.op = "show_sum" /\ Known(d)
  /\ Answer(d, "SHOW_SUM")
  /\ UNCHANGED <<users, ghosts>>

AnySum(d) == TRUE
Covered(d) == ~(users[d.id].money < d.sum)

HandleGet(d) ==
  /\ d.op = "get" /\ Known(d)
  /\ IF Covered(d)
       THEN /\ Store(d.id, Wrap(users[d.id].money - d.sum), users[d.id].isConnected)
            /\ Answer(d, "GET_MONEY")
            /\ Book(d.id, -d.sum, d.sum)
       ELSE Answer(d, "GET_ERROR") /\ UNCHANGED <<users, ghosts>>

\* The money an account keeps when its client leaves.
NoMoney(id) == 0
KeptMoney(id) == users[id].money

\* exit is obeyed whoever sent it.
HandleExit(d) ==
  /\ d.op = "exit" /\ Known(d)
  /\ Store(d.id, KeptMoney(d.id), FALSE)
  /\ freed' = IF d.from \in accepted /\ d.from \notin unknown THEN freed ELSE freed \cup {d.id}
  /\ UNCHANGED <<inbox, booked, accepted, unknown, odd>>

Serve == /\ srv = "up" /\ net # << >>
         /\ net' = Tail(net)
         /\ LET d == Head(net)
            IN  \/ HandleConnect(d) \/ HandleSendTo(d) \/ HandleShowSum(d)
                \/ HandleGet(d) \/ HandleExit(d)
         /\ UNCHANGED <<srv, ends, cliVars>>

\* The process ends, with its accounts and with what is in its socket; no
\* client is told.
End == /\ srv' = "down" /\ users' = << >> /\ net' = << >>
       /\ ends' = ends + 1
       /\ booked' = [id \in Id |-> 0]
       /\ unknown' = {c \in Client : Running(c)}
       /\ freed' = {} /\ odd' = {}
       /\ UNCHANGED <<cliVars, inbox, accepted>>

\* The exit command.
ServerExit == srv = "up" /\ ends < MaxEnds /\ End

\* find returned end(), which show_sum, get and exit look into all the same.
Crash == /\ srv = "up" /\ net # << >>
         /\ Head(net).op \in {"show_sum", "get", "exit"} /\ ~Known(Head(net))
         /\ End

ServerStart == /\ srv = "down" /\ ends <= MaxEnds
               /\ srv' = "up"
               /\ UNCHANGED <<users, net, ends, cliVars, inbox, ghosts>>

-----------------------------------------------------------------------------
(* A client. *)

\* send on the connected socket: to nobody, if the server is not there.
Send(c, op, id, sum) ==
  net' = IF srv = "up"
           THEN Append(net, [op |-> op, from |-> c, id |-> id, sum |-> sum])
           ELSE net

Start(c) == /\ state[c] = "new"
            /\ state' = [state EXCEPT ![c] = "running"]
            /\ Send(c, "CONNECT", Argv1[c], 0)
            /\ unknown' = IF srv = "up" THEN unknown ELSE unknown \cup {c}
            /\ UNCHANGED <<srv, users, ends, atStdin, inbox, typed, booked, accepted, freed, odd>>

Leave(c) == /\ state' = [state EXCEPT ![c] = "gone"]
            /\ atStdin' = [atStdin EXCEPT ![c] = FALSE]
            /\ inbox' = [inbox EXCEPT ![c] = << >>]

\* A command was typed: this round of the loop will handle it.  (One that is only
\* answered with a line on stdout changes nothing and is left out.)
Typed(c) == /\ typed[c] < MaxTyped
            /\ typed' = [typed EXCEPT ![c] = @ + 1]
            /\ atStdin' = [atStdin EXCEPT ![c] = TRUE]

Refusal(reply) == reply = "USER_EXISTS"

\* select reports the socket, and stdin too if something was typed: the socket
\* is read first.
ReadReply(c) ==
  /\ Running(c) /\ ~atStdin[c] /\ inbox[c] # << >>
  /\ IF Refusal(Head(inbox[c]))
       THEN Leave(c) /\ UNCHANGED typed
       ELSE /\ inbox' = [inbox EXCEPT ![c] = Tail(@)]
            /\ Typed(c) \/ UNCHANGED <<atStdin, typed>>
            /\ UNCHANGED state
  /\ UNCHANGED <<srvVars, ghosts>>

\* select reports stdin alone; a reply may still come before the command is
\* handled.
Select(c) == /\ Running(c) /\ ~atStdin[c] /\ inbox[c] = << >>
             /\ Typed(c)
             /\ UNCHANGED <<srvVars, state, inbox, ghosts>>

Stdin(c) == /\ Running(c) /\ atStdin[c]
            /\ UNCHANGED <<srv, users, ends, typed, ghosts>>
Handled(c) == atStdin' = [atStdin EXCEPT ![c] = FALSE] /\ UNCHANGED <<state, inbox>>

\* Not to oneself, and not a sum that atoi reads as 0.
TypeSendTo(c) == /\ Stdin(c)
                 /\ \E id \in Id \ {Argv1[c]}, sum \in Sums \ {0} : Send(c, "send_to", id, sum)
                 /\ Handled(c)
TypeShowSum(c) == Stdin(c) /\ Send(c, "show_sum", Argv1[c], 0) /\ Handled(c)
\* What is sent is the line and Argv1[c] after it.  The server takes the word
\* that follows the sum for the id (server.cpp:146): Argv1[c], or any other that
\* was typed in its place.
TypeGet(c) == /\ Stdin(c)
              /\ \E id \in Id, sum \in Sums \ {0} : Send(c, "get", id, sum)
              /\ Handled(c)
\* Also by a client that has been refused and has not read so yet.
TypeExit(c) == Stdin(c) /\ Send(c, "exit", Argv1[c], 0) /\ Leave(c)

\* Ctrl-C: nothing is sent.
Kill(c) == Running(c) /\ Leave(c) /\ UNCHANGED <<srvVars, typed, ghosts>>

Type(c) == TypeSendTo(c) \/ TypeShowSum(c) \/ TypeGet(c) \/ TypeExit(c)

Next == \/ Serve \/ ServerExit \/ Crash \/ ServerStart
        \/ \E c \in Client : Start(c) \/ Select(c) \/ ReadReply(c) \/ Type(c) \/ Kill(c)

Spec == Init /\ [][Next]_vars

-----------------------------------------------------------------------------
(* Type invariant. *)

\* The map of server.cpp:33 and the datagrams hold values of the code's types;
\* money is an int, after any arithmetic.
TypeOK ==
  /\ srv \in {"up", "down"} /\ ends \in Nat
  /\ DOMAIN users \subseteq Id /\ users \in [DOMAIN users -> User]
  /\ \A id \in DOMAIN users : InRange(users[id].money)
  /\ net \in Seq(Datagram)
  /\ state \in [Client -> {"new", "running", "gone"}]
  /\ atStdin \in [Client -> BOOLEAN]
  /\ inbox \in [Client -> Seq(Reply)]
  /\ typed \in [Client -> Nat]
  /\ booked \in [Id -> Int]
  /\ accepted \subseteq Client /\ unknown \subseteq Client
  /\ freed \subseteq Id /\ odd \subseteq Id

-----------------------------------------------------------------------------
(* Safety. *)

\* "daca un client se deconecteaza si apoi se reconecteaza suma de bani ramane
\* neschimbata" (readme.txt): every handler writes the whole record anew
\* (server.cpp:92-108, 124-127, 156-159, 171-174), yet through any sequence of
\* them an account holds what the replies confirmed, no more and no less.
MoneyAddsUp ==
  \A id \in Id : IF id \in DOMAIN users THEN users[id].money = booked[id] ELSE booked[id] = 0

\* An account is in debt only if a negative sum was accepted for it or a sum
\* left the range of int (server.cpp:126, 150 and 158 check neither).
NoOverdraft == \A id \in DOMAIN users : id \notin odd => users[id].money >= 0

\* "nu pot exista 2 clienti cu acelasi id in acelasi Timp" (readme.txt): true of
\* the clients this server let in, as long as no exit freed their id for them
\* (server.cpp:165-174 does not ask who sent it).
Holds(c) == c \in accepted \ unknown /\ Running(c)
OneHolder ==
  \A c, d \in Client :
    Holds(c) /\ Holds(d) /\ Argv1[c] = Argv1[d] /\ Argv1[c] \notin freed => c = d

\* The unchecked find of server.cpp:137-173 fails, and the server ends, for one
\* of two reasons: the CONNECT of the sender never came or was forgotten, or a
\* get had an id typed after the sum, which the server looks up as it is ("get 5
\* nobody" of a client it let in ends it).  What the client fills in itself is
\* known, through all its sends, exits of others and restarts of the server.
FailedFind ==
  net # << >> =>
    LET d == Head(net)
    IN  d.op \in {"show_sum", "get", "exit"} /\ ~Known(d) =>
          d.from \in unknown \/ (d.op = "get" /\ d.id # Argv1[d.from])

=============================================================================
