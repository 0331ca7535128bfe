---------------------------- MODULE WalletProofs ----------------------------
(***************************************************************************)
(* Proofs about the wallet: the types, that the accounts add up and stay   *)
(* out of debt, who holds an id, and which commands can end the server.    *)
(***************************************************************************)
EXTENDS Wallet, TLAPS

-----------------------------------------------------------------------------
(* The arithmetic of ints. *)

LEMMA ModRange == ASSUME NEW a \in Int, NEW b \in Nat, b > 0
                  PROVE  a % b \in 0 .. b - 1
  OBVIOUS

LEMMA WrapInRange == ASSUME NEW x \in Int
                     PROVE  Wrap(x) \in Int /\ InRange(Wrap(x))
<1> USE WalletAssumption
<1> DEFINE b == 2 * (MaxInt + 1)
           r == (x + MaxInt + 1) % b
<1>1. b \in Nat /\ b > 0 /\ x + MaxInt + 1 \in Int
  BY DEF WalletAssumption
<1>2. r \in 0 .. b - 1
  BY <1>1, ModRange
<1>3. r - MaxInt - 1 \in Int /\ -MaxInt - 1 <= r - MaxInt - 1 /\ r - MaxInt - 1 <= MaxInt
  <2> HIDE DEF r
  <2> QED
    BY <1>2 DEF WalletAssumption
<1>4. CASE InRange(x)
  BY <1>4 DEF Wrap
<1>5. CASE ~InRange(x)
  <2>1. Wrap(x) = r - MaxInt - 1
    BY <1>5 DEF Wrap
  <2> HIDE DEF r
  <2> QED
    BY <2>1, <1>3 DEF InRange
<1> QED
  BY <1>4, <1>5

-----------------------------------------------------------------------------
(* The types. *)

\* The helpers give values of the types of what they change.
LEMMA StoreType ==
  ASSUME TypeOK, NEW id \in Id, NEW money \in Int, InRange(money), NEW on \in BOOLEAN,
         Store(id, money, on)
  PROVE  /\ DOMAIN users' = DOMAIN users \cup {id} /\ DOMAIN users' \subseteq Id
         /\ users' \in [DOMAIN users' -> User]
         /\ users'[id].money = money /\ users'[id].isConnected = on
         /\ \A x \in DOMAIN users' : x # id => x \in DOMAIN users /\ users'[x] = users[x]
         /\ \A x \in DOMAIN users' : InRange(users'[x].money)
<1> DEFINE u == [money |-> money, isConnected |-> on]
<1>1. u \in User /\ u.money = money /\ u.isConnected = on
  BY DEF User
<1>2. users' = [x \in DOMAIN users \cup {id} |-> IF x = id THEN u ELSE users[x]]
  BY DEF Store
<1> HIDE DEF u
<1>3. DOMAIN users' = DOMAIN users \cup {id} /\ users'[id] = u
  BY <1>2
<1>4. \A x \in DOMAIN users' : x # id => x \in DOMAIN users /\ users'[x] = users[x]
  BY <1>2, <1>3
<1>5. users' \in [DOMAIN users' -> User]
  BY <1>1, <1>2, <1>3 DEF TypeOK
<1>6. DOMAIN users' \subseteq Id
  BY <1>3 DEF TypeOK
<1>7. \A x \in DOMAIN users' : InRange(users'[x].money)
  BY <1>1, <1>3, <1>4 DEF TypeOK
<1> QED
  BY <1>1, <1>3, <1>4, <1>5, <1>6, <1>7

LEMMA DatagramType ==
  ASSUME NEW d \in Datagram
  PROVE  d.id \in Id /\ d.from \in Client /\ d.sum \in Int
<1>1. CASE d \in [op : {"CONNECT", "show_sum", "exit"}, from : Client, id : Id, sum : {0}]
  <2>1. d.id \in Id /\ d.from \in Client /\ d.sum = 0
    BY <1>1
  <2> QED
    BY <2>1
<1>2. CASE d \in [op : {"send_to", "get"}, from : Client, id : Id, sum : Sums]
  BY <1>2, WalletAssumption DEF WalletAssumption
<1> QED
  BY <1>1, <1>2 DEF Datagram

LEMMA AnswerType ==
  ASSUME TypeOK, NEW d \in Datagram, NEW reply \in Reply, Answer(d, reply)
  PROVE  inbox' \in [Client -> Seq(Reply)]
<1>1. d.from \in Client
  BY DatagramType
<1>2. inbox[d.from] \in Seq(Reply)
  BY <1>1 DEF TypeOK
<1>3. Append(inbox[d.from], reply) \in Seq(Reply)
  BY <1>2
<1> QED
  BY <1>1, <1>3 DEF TypeOK, Answer

LEMMA SendType ==
  ASSUME TypeOK, NEW c \in Client, NEW op, NEW id, NEW sum,
         [op |-> op, from |-> c, id |-> id, sum |-> sum] \in Datagram, Send(c, op, id, sum)
  PROVE  net' \in Seq(Datagram)
  BY DEF TypeOK, Send

LEMMA LeaveType ==
  ASSUME TypeOK, NEW c \in Client, Leave(c)
  PROVE  /\ state' \in [Client -> {"new", "running", "gone"}]
         /\ atStdin' \in [Client -> BOOLEAN] /\ inbox' \in [Client -> Seq(Reply)]
  BY DEF TypeOK, Leave

LEMMA TypedType ==
  ASSUME TypeOK, NEW c \in Client, Typed(c)
  PROVE  typed' \in [Client -> Nat] /\ atStdin' \in [Client -> BOOLEAN]
  BY DEF TypeOK, Typed

\* What a handler leaves of the types to its caller.
Kept == srv' = srv /\ ends' = ends /\ net' \in Seq(Datagram) /\ UNCHANGED cliVars

LEMMA HandlersTyped ==
  ASSUME TypeOK, NEW d \in Datagram, Kept,
         \/ HandleConnect(d) \/ HandleSendTo(d) \/ HandleShowSum(d)
         \/ HandleGet(d) \/ HandleExit(d)
  PROVE  TypeOK'
<1>1. d.id \in Id /\ d.from \in Client /\ d.sum \in Int
  BY DatagramType
<1>2. Known(d) => /\ users[d.id] \in User /\ users[d.id].money \in Int
                  /\ users[d.id].isConnected \in BOOLEAN /\ InRange(users[d.id].money)
  BY DEF TypeOK, Known, User
<1>3. InRange(0)
  BY WalletAssumption DEF WalletAssumption, InRange
<1>4. /\ srv' \in {"up", "down"} /\ ends' \in Nat
      /\ net' \in Seq(Datagram) /\ state' \in [Client -> {"new", "running", "gone"}]
      /\ atStdin' \in [Client -> BOOLEAN] /\ typed' \in [Client -> Nat]
  BY DEF TypeOK, Kept, cliVars
<1>5. ASSUME NEW change \in Int, NEW sum \in Int, Known(d), Book(d.id, change, sum)
      PROVE  /\ booked' \in [Id -> Int] /\ odd' \subseteq Id
             /\ accepted' \subseteq Client /\ unknown' \subseteq Client /\ freed' \subseteq Id
  <2>1. booked[d.id] + change \in Int
    BY <1>1 DEF TypeOK
  <2>2. Wrap(booked[d.id] + change) \in Int
    BY <2>1, WrapInRange
  <2> QED
    BY <1>1, <1>5, <2>2 DEF TypeOK, Book
<1>6. CASE HandleConnect(d)
  <2>1. CASE Taken(d)
    <3>1. Answer(d, "USER_EXISTS") /\ UNCHANGED <<users, accepted, booked, unknown, freed, odd>>
      BY <1>6, <2>1 DEF HandleConnect
    <3>2. inbox' \in [Client -> Seq(Reply)]
      BY <3>1, AnswerType DEF Reply
    <3> QED
      BY <1>4, <3>1, <3>2 DEF TypeOK
  <2>2. CASE ~Taken(d)
    <3> DEFINE money == IF Known(d) THEN users[d.id].money ELSE 0
    <3>1. /\ Store(d.id, money, TRUE) /\ accepted' = accepted \cup {d.from}
          /\ UNCHANGED <<inbox, booked, unknown, freed, odd>>
      BY <1>6, <2>2 DEF HandleConnect
    <3>2. money \in Int /\ InRange(money)
      BY <1>2, <1>3
    <3> HIDE DEF money
    <3>3. /\ DOMAIN users' \subseteq Id /\ users' \in [DOMAIN users' -> User]
          /\ \A x \in DOMAIN users' : InRange(users'[x].money)
      BY <1>1, <3>1, <3>2, StoreType
    <3> QED
      BY <1>1, <1>4, <3>1, <3>3 DEF TypeOK
  <2> QED
    BY <2>1, <2>2
<1>7. CASE HandleSendTo(d)
  <2>1. CASE Known(d)
    <3>1. /\ Store(d.id, Wrap(users[d.id].money + d.sum), users[d.id].isConnected)
          /\ Answer(d, "MONEY_SENT") /\ Book(d.id, d.sum, d.sum)
      BY <1>7, <2>1 DEF HandleSendTo
    <3>2. Wrap(users[d.id].money + d.sum) \in Int /\ InRange(Wrap(users[d.id].money + d.sum))
      BY <1>1, <1>2, <2>1, WrapInRange
    <3>3. /\ DOMAIN users' \subseteq Id /\ users' \in [DOMAIN users' -> User]
          /\ \A x \in DOMAIN users' : InRange(users'[x].money)
      BY <1>1, <1>2, <2>1, <3>1, <3>2, StoreType
    <3>4. inbox' \in [Client -> Seq(Reply)]
      BY <3>1, AnswerType DEF Reply
    <3>5. /\ booked' \in [Id -> Int] /\ odd' \subseteq Id
          /\ accepted' \subseteq Client /\ unknown' \subseteq Client /\ freed' \subseteq Id
      BY <1>1, <1>5, <2>1, <3>1
    <3> QED
      BY <1>4, <3>3, <3>4, <3>5 DEF TypeOK
  <2>2. CASE ~Known(d)
    <3>1. Answer(d, "MONEY_NOSENT") /\ UNCHANGED <<users, ghosts>>
      BY <1>7, <2>2 DEF HandleSendTo
    <3>2. inbox' \in [Client -> Seq(Reply)]
      BY <3>1, AnswerType DEF Reply
    <3> QED
      BY <1>4, <3>1, <3>2 DEF TypeOK, ghosts
  <2> QED
    BY <2>1, <2>2
<1>8. CASE HandleShowSum(d)
  <2>1. Answer(d, "SHOW_SUM") /\ UNCHANGED <<users, ghosts>>
    BY <1>8 DEF HandleShowSum
  <2>2. inbox' \in [Client -> Seq(Reply)]
    BY <2>1, AnswerType DEF Reply
  <2> QED
    BY <1>4, <2>1, <2>2 DEF TypeOK, ghosts
<1>9. CASE HandleGet(d)
  <2>1. CASE Covered(d)
    <3>1. /\ Known(d)
          /\ Store(d.id, Wrap(users[d.id].money - d.sum), users[d.id].isConnected)
          /\ Answer(d, "GET_MONEY") /\ Book(d.id, -d.sum, d.sum)
      BY <1>9, <2>1 DEF HandleGet
    <3>2. Wrap(users[d.id].money - d.sum) \in Int /\ InRange(Wrap(users[d.id].money - d.sum))
      BY <1>1, <1>2, <3>1, WrapInRange
    <3>3. /\ DOMAIN users' \subseteq Id /\ users' \in [DOMAIN users' -> User]
          /\ \A x \in DOMAIN users' : InRange(users'[x].money)
      BY <1>1, <1>2, <3>1, <3>2, StoreType
    <3>4. inbox' \in [Client -> Seq(Reply)]
      BY <3>1, AnswerType DEF Reply
    <3>5. -d.sum \in Int
      BY <1>1
    <3>6. /\ booked' \in [Id -> Int] /\ odd' \subseteq Id
          /\ accepted' \subseteq Client /\ unknown' \subseteq Client /\ freed' \subseteq Id
      BY <1>1, <1>5, <3>1, <3>5
    <3> QED
      BY <1>4, <3>3, <3>4, <3>6 DEF TypeOK
  <2>2. CASE ~Covered(d)
    <3>1. Answer(d, "GET_ERROR") /\ UNCHANGED <<users, ghosts>>
      BY <1>9, <2>2 DEF HandleGet
    <3>2. inbox' \in [Client -> Seq(Reply)]
      BY <3>1, AnswerType DEF Reply
    <3> QED
      BY <1>4, <3>1, <3>2 DEF TypeOK, ghosts
  <2> QED
    BY <2>1, <2>2
<1>10. CASE HandleExit(d)
  <2>1. /\ Known(d) /\ Store(d.id, users[d.id].money, FALSE)
        /\ freed' \in {freed, freed \cup {d.id}}
        /\ UNCHANGED <<inbox, booked, accepted, unknown, odd>>
    BY <1>10 DEF HandleExit, KeptMoney
  <2>2. /\ DOMAIN users' \subseteq Id /\ users' \in [DOMAIN users' -> User]
        /\ \A x \in DOMAIN users' : InRange(users'[x].money)
    BY <1>1, <1>2, <2>1, StoreType
  <2> QED
    BY <1>1, <1>4, <2>1, <2>2 DEF TypeOK
<1> QED
  BY <1>6, <1>7, <1>8, <1>9, <1>10

LEMMA ServeTyped == ASSUME TypeOK, Serve PROVE TypeOK'
<1> DEFINE d == Head(net)
<1>1. d \in Datagram /\ Tail(net) \in Seq(Datagram)
  BY DEF TypeOK, Serve
<1>2. Kept
  BY <1>1 DEF Serve, Kept
<1>3. \/ HandleConnect(d) \/ HandleSendTo(d) \/ HandleShowSum(d)
      \/ HandleGet(d) \/ HandleExit(d)
  BY DEF Serve
<1> HIDE DEF d
<1> QED
  BY <1>1, <1>2, <1>3, HandlersTyped

LEMMA EndTyped == ASSUME TypeOK, End PROVE TypeOK'
<1>1. users' = << >> /\ net' = << >> /\ net' \in Seq(Datagram) /\ ends' \in Nat
  BY DEF End, TypeOK
<1>2. DOMAIN users' = {} /\ users' \in [DOMAIN users' -> User]
  BY <1>1
<1>3. booked' \in [Id -> Int] /\ unknown' \subseteq Client /\ freed' \subseteq Id /\ odd' \subseteq Id
  BY DEF End
<1>4. UNCHANGED <<cliVars, inbox, accepted>> /\ srv' = "down"
  BY DEF End
<1> QED
  BY <1>1, <1>2, <1>3, <1>4 DEF TypeOK, cliVars

\* The steps of a client change neither the accounts nor what is known of them.
Accounts == <<users, booked, accepted, freed, odd>>

LEMMA ClientTyped ==
  ASSUME TypeOK, NEW c \in Client,
         Start(c) \/ Select(c) \/ ReadReply(c) \/ Type(c) \/ Kill(c)
  PROVE  TypeOK' /\ UNCHANGED Accounts
<1>1. Argv1[c] \in Id
  BY WalletAssumption DEF WalletAssumption
<1>2. CASE Start(c)
  <2>1. [op |-> "CONNECT", from |-> c, id |-> Argv1[c], sum |-> 0] \in Datagram
    BY <1>1 DEF Datagram
  <2>2. net' \in Seq(Datagram)
    BY <1>2, <2>1, SendType DEF Start
  <2>3. state' \in [Client -> {"new", "running", "gone"}] /\ unknown' \subseteq Client
    BY <1>2 DEF Start, TypeOK
  <2> QED
    BY <1>2, <2>2, <2>3 DEF Start, TypeOK, Accounts
<1>3. CASE Select(c)
  <2>1. typed' \in [Client -> Nat] /\ atStdin' \in [Client -> BOOLEAN]
    BY <1>3, TypedType DEF Select
  <2> QED
    BY <1>3, <2>1 DEF Select, TypeOK, Accounts, srvVars, ghosts
<1>4. CASE ReadReply(c)
  <2>0. UNCHANGED <<srvVars, ghosts>>
    BY <1>4 DEF ReadReply
  <2>1. CASE Refusal(Head(inbox[c]))
    <3>1. Leave(c) /\ UNCHANGED typed
      BY <1>4, <2>1 DEF ReadReply
    <3> QED
      BY <2>0, <3>1, LeaveType DEF TypeOK, Accounts, srvVars, ghosts
  <2>2. CASE ~Refusal(Head(inbox[c]))
    <3>1. /\ inbox' = [inbox EXCEPT ![c] = Tail(@)] /\ inbox[c] # << >>
          /\ Typed(c) \/ UNCHANGED <<atStdin, typed>>
          /\ UNCHANGED state
      BY <1>4, <2>2 DEF ReadReply
    <3>2. inbox' \in [Client -> Seq(Reply)]
      BY <3>1 DEF TypeOK
    <3>3. typed' \in [Client -> Nat] /\ atStdin' \in [Client -> BOOLEAN]
      <4>1. CASE Typed(c)
        BY <4>1, TypedType
      <4>2. CASE UNCHANGED <<atStdin, typed>>
        BY <4>2 DEF TypeOK
      <4> QED
        BY <3>1, <4>1, <4>2
    <3> QED
      BY <2>0, <3>1, <3>2, <3>3 DEF TypeOK, Accounts, srvVars, ghosts
  <2> QED
    BY <2>1, <2>2
<1>5. CASE Type(c)
  <2>0. UNCHANGED <<srv, users, ends, typed, ghosts>>
    BY <1>5 DEF Type, TypeSendTo, TypeShowSum, TypeGet, TypeExit, Stdin
  <2>1. net' \in Seq(Datagram)
    <3>1. CASE TypeSendTo(c)
      <4>1. PICK id \in Id, sum \in Sums : Send(c, "send_to", id, sum)
        BY <3>1 DEF TypeSendTo
      <4>2. [op |-> "send_to", from |-> c, id |-> id, sum |-> sum] \in Datagram
        BY DEF Datagram
      <4> QED
        BY <4>1, <4>2, SendType
    <3>2. CASE TypeShowSum(c)
      <4>1. [op |-> "show_sum", from |-> c, id |-> Argv1[c], sum |-> 0] \in Datagram
        BY <1>1 DEF Datagram
      <4> QED
        BY <3>2, <4>1, SendType DEF TypeShowSum
    <3>3. CASE TypeGet(c)
      <4>1. PICK id \in Id, sum \in Sums : Send(c, "get", id, sum)
        BY <3>3 DEF TypeGet
      <4>2. [op |-> "get", from |-> c, id |-> id, sum |-> sum] \in Datagram
        BY DEF Datagram
      <4> QED
        BY <4>1, <4>2, SendType
    <3>4. CASE TypeExit(c)
      <4>1. [op |-> "exit", from |-> c, id |-> Argv1[c], sum |-> 0] \in Datagram
        BY <1>1 DEF Datagram
      <4> QED
        BY <3>4, <4>1, SendType DEF TypeExit
    <3> QED
      BY <1>5, <3>1, <3>2, <3>3, <3>4 DEF Type
  <2>2. \/ Leave(c) \/ Handled(c)
    BY <1>5 DEF Type, TypeSendTo, TypeShowSum, TypeGet, TypeExit
  <2>3. /\ state' \in [Client -> {"new", "running", "gone"}]
        /\ atStdin' \in [Client -> BOOLEAN] /\ inbox' \in [Client -> Seq(Reply)]
    <3>1. CASE Leave(c)
      BY <3>1, LeaveType
    <3>2. CASE Handled(c)
      BY <3>2 DEF Handled, TypeOK
    <3> QED
      BY <2>2, <3>1, <3>2
  <2> QED
    BY <2>0, <2>1, <2>3 DEF TypeOK, Accounts, ghosts
<1>6. CASE Kill(c)
  <2>1. Leave(c) /\ UNCHANGED <<srvVars, typed, ghosts>>
    BY <1>6 DEF Kill
  <2> QED
    BY <2>1, LeaveType DEF TypeOK, Accounts, srvVars, ghosts
<1> QED
  BY <1>2, <1>3, <1>4, <1>5, <1>6

LEMMA InitTyped == Init => TypeOK
<1> SUFFICES ASSUME Init PROVE TypeOK
  OBVIOUS
<1>1. DOMAIN users = {} /\ users \in [DOMAIN users -> User]
  BY DEF Init
<1>2. /\ net \in Seq(Datagram) /\ inbox \in [Client -> Seq(Reply)]
      /\ state \in [Client -> {"new", "running", "gone"}]
      /\ atStdin \in [Client -> BOOLEAN] /\ typed \in [Client -> Nat] /\ booked \in [Id -> Int]
  BY DEF Init
<1> QED
  BY <1>1, <1>2 DEF Init, TypeOK

LEMMA StartTyped == ASSUME TypeOK, ServerStart PROVE TypeOK' /\ UNCHANGED Accounts
  BY DEF ServerStart, TypeOK, cliVars, ghosts, Accounts

LEMMA NextTyped == TypeOK /\ [Next]_vars => TypeOK'
<1> SUFFICES ASSUME TypeOK, [Next]_vars PROVE TypeOK'
  OBVIOUS
<1>1. CASE Serve
  BY <1>1, ServeTyped
<1>2. CASE ServerExit \/ Crash
  BY <1>2, EndTyped DEF ServerExit, Crash
<1>3. CASE ServerStart
  BY <1>3, StartTyped
<1>4. ASSUME NEW c \in Client, Start(c) \/ Select(c) \/ ReadReply(c) \/ Type(c) \/ Kill(c)
      PROVE  TypeOK'
  BY <1>4, ClientTyped
<1>5. CASE UNCHANGED vars
  BY <1>5 DEF TypeOK, vars, srvVars, cliVars, ghosts
<1> QED
  BY <1>1, <1>2, <1>3, <1>4, <1>5 DEF Next

\* The map, the datagrams and the sockets hold values of the code's types, and the money of
\* an account is an int after any arithmetic, whatever the width of int.
THEOREM TypesKept == Spec => []TypeOK
<1> QED
  BY InitTyped, NextTyped, PTL DEF Spec

-----------------------------------------------------------------------------
(* The accounts. *)

\* An account whose money and whose book change alike still agrees with its book.
LEMMA BookAgrees ==
  ASSUME TypeOK, MoneyAddsUp, NEW id \in DOMAIN users, NEW change \in Int, NEW sum \in Int,
         NEW on \in BOOLEAN,
         Store(id, Wrap(users[id].money + change), on), Book(id, change, sum)
  PROVE  MoneyAddsUp'
<1>1. id \in Id /\ users[id].money \in Int /\ users[id].money = booked[id]
  BY DEF TypeOK, User, MoneyAddsUp
<1>2. Wrap(users[id].money + change) \in Int /\ InRange(Wrap(users[id].money + change))
  BY <1>1, WrapInRange
<1>3. booked' = [booked EXCEPT ![id] = Wrap(users[id].money + change)]
  BY <1>1 DEF Book
<1>4. /\ DOMAIN users' = DOMAIN users \cup {id}
      /\ users'[id].money = Wrap(users[id].money + change)
      /\ \A x \in DOMAIN users' : x # id => users'[x] = users[x]
  BY <1>1, <1>2, StoreType
<1> QED
  BY <1>1, <1>3, <1>4 DEF MoneyAddsUp, TypeOK

\* So does one whose money and book do not change, and a new one.
LEMMA MoneyAgrees ==
  ASSUME TypeOK, MoneyAddsUp, NEW id \in Id, NEW on \in BOOLEAN, NEW kept \in Int,
         id \in DOMAIN users => kept = users[id].money,
         id \notin DOMAIN users => kept = 0,
         Store(id, kept, on), UNCHANGED booked
  PROVE  MoneyAddsUp'
<1>0. TypeOK /\ id \in Id /\ kept \in Int /\ on \in BOOLEAN /\ Store(id, kept, on)
  OBVIOUS
<1>1. InRange(kept) /\ kept = booked[id]
  BY WalletAssumption DEF TypeOK, User, MoneyAddsUp, InRange, WalletAssumption
<1>2. /\ DOMAIN users' = DOMAIN users \cup {id}
      /\ users'[id].money = kept
      /\ \A x \in DOMAIN users' : x # id => users'[x] = users[x]
  BY ONLY <1>0 DEF Store
<1>3. booked' = booked
  OBVIOUS
<1>4. ASSUME NEW x \in Id, x \in DOMAIN users' PROVE users'[x].money = booked'[x]
  BY <1>1, <1>2, <1>3, <1>4 DEF MoneyAddsUp
<1>5. ASSUME NEW x \in Id, x \notin DOMAIN users' PROVE booked'[x] = 0
  BY <1>2, <1>3, <1>5 DEF MoneyAddsUp
<1> QED
  BY <1>4, <1>5 DEF MoneyAddsUp

LEMMA UserType ==
  ASSUME TypeOK, NEW id \in DOMAIN users
  PROVE  users[id].money \in Int /\ users[id].isConnected \in BOOLEAN
  BY DEF TypeOK, User

LEMMA HandlersAgree ==
  ASSUME TypeOK, MoneyAddsUp, NEW d \in Datagram,
         \/ HandleConnect(d) \/ HandleSendTo(d) \/ HandleShowSum(d)
         \/ HandleGet(d) \/ HandleExit(d)
  PROVE  MoneyAddsUp'
<1>1. d.id \in Id /\ d.sum \in Int
  BY DatagramType
<1>2. CASE UNCHANGED <<users, booked>>
  BY <1>2 DEF MoneyAddsUp
<1>3. CASE HandleConnect(d)
  <2>1. CASE ~Taken(d)
    <3>1. Store(d.id, IF Known(d) THEN users[d.id].money ELSE 0, TRUE)
      BY <1>3, <2>1 DEF HandleConnect
    <3>2. UNCHANGED booked
      BY <1>3 DEF HandleConnect
    <3>3. CASE Known(d)
      <4>1. Store(d.id, users[d.id].money, TRUE) /\ users[d.id].money \in Int
        BY <3>1, <3>3, UserType DEF Known
      <4> QED
        BY <1>1, <3>2, <3>3, <4>1, MoneyAgrees DEF Known
    <3>4. CASE ~Known(d)
      <4>1. Store(d.id, 0, TRUE)
        BY <3>1, <3>4
      <4>2. d.id \notin DOMAIN users /\ 0 \in Int /\ 0 = 0 /\ TRUE \in BOOLEAN
        BY <3>4 DEF Known
      <4> QED
        BY <1>1, <3>2, <4>1, <4>2, MoneyAgrees, Zenon
    <3> QED
      BY <3>3, <3>4
  <2>2. CASE Taken(d)
    BY <1>2, <1>3, <2>2 DEF HandleConnect
  <2> QED
    BY <2>1, <2>2
<1>4. CASE HandleSendTo(d)
  <2>1. CASE Known(d)
    <3>1. /\ Store(d.id, Wrap(users[d.id].money + d.sum), users[d.id].isConnected)
          /\ Book(d.id, d.sum, d.sum)
      BY <1>4, <2>1 DEF HandleSendTo
    <3> QED
      BY <1>1, <2>1, <3>1, UserType, BookAgrees DEF Known
  <2>2. CASE ~Known(d)
    BY <1>2, <1>4, <2>2 DEF HandleSendTo, ghosts
  <2> QED
    BY <2>1, <2>2
<1>5. CASE HandleShowSum(d)
  BY <1>2, <1>5 DEF HandleShowSum, ghosts
<1>6. CASE HandleGet(d)
  <2>1. CASE Covered(d)
    <3>1. /\ Known(d)
          /\ Store(d.id, Wrap(users[d.id].money - d.sum), users[d.id].isConnected)
          /\ Book(d.id, -d.sum, d.sum)
      BY <1>6, <2>1 DEF HandleGet
    <3>2. users[d.id].money - d.sum = users[d.id].money + (-d.sum) /\ -d.sum \in Int
      BY <1>1, <3>1, UserType DEF Known
    <3>3. Store(d.id, Wrap(users[d.id].money + (-d.sum)), users[d.id].isConnected)
      BY <3>1, <3>2
    <3> QED
      BY <1>1, <3>1, <3>2, <3>3, UserType, BookAgrees DEF Known
  <2>2. CASE ~Covered(d)
    BY <1>2, <1>6, <2>2 DEF HandleGet, ghosts
  <2> QED
    BY <2>1, <2>2
<1>7. CASE HandleExit(d)
  <2>1. /\ d.id \in DOMAIN users /\ users[d.id].money \in Int
        /\ Store(d.id, users[d.id].money, FALSE)
    BY <1>7, UserType DEF HandleExit, KeptMoney, Known
  <2>2. UNCHANGED booked
    BY <1>7 DEF HandleExit
  <2> QED
    BY <1>1, <2>1, <2>2, MoneyAgrees
<1> QED
  BY <1>3, <1>4, <1>5, <1>6, <1>7

LEMMA MoneyKept == TypeOK /\ MoneyAddsUp /\ [Next]_vars => MoneyAddsUp'
<1> SUFFICES ASSUME TypeOK, MoneyAddsUp, [Next]_vars PROVE MoneyAddsUp'
  OBVIOUS
<1>1. CASE UNCHANGED Accounts
  BY <1>1 DEF MoneyAddsUp, Accounts
<1>2. CASE Serve
  <2>1. Head(net) \in Datagram
    BY <1>2 DEF TypeOK, Serve
  <2> QED
    BY <1>2, <2>1, HandlersAgree DEF Serve
<1>3. CASE ServerExit \/ Crash
  BY <1>3 DEF ServerExit, Crash, End, MoneyAddsUp
<1>4. CASE ServerStart
  BY <1>1, <1>4, StartTyped
<1>5. ASSUME NEW c \in Client, Start(c) \/ Select(c) \/ ReadReply(c) \/ Type(c) \/ Kill(c)
      PROVE  MoneyAddsUp'
  BY <1>1, <1>5, ClientTyped
<1>6. CASE UNCHANGED vars
  BY <1>1, <1>6 DEF vars, srvVars, cliVars, ghosts, Accounts
<1> QED
  BY <1>2, <1>3, <1>4, <1>5, <1>6 DEF Next

\* Through connections, disconnections, refusals, payments, ends and restarts an account holds
\* what the server's replies have confirmed, computed as ints of any width.
THEOREM AccountsAddUp == Spec => []MoneyAddsUp
<1>1. Init => MoneyAddsUp
  BY DEF Init, MoneyAddsUp
<1> QED
  BY <1>1, InitTyped, NextTyped, MoneyKept, PTL DEF Spec

-----------------------------------------------------------------------------
(* No account is in debt unless the arithmetic says so. *)

LEMMA SolventBook ==
  ASSUME TypeOK, NoOverdraft, NEW id \in DOMAIN users, NEW change \in Int, NEW sum \in Int,
         NEW on \in BOOLEAN,
         sum >= 0 => users[id].money + change >= 0 \/ id \in odd,
         Store(id, Wrap(users[id].money + change), on), Book(id, change, sum)
  PROVE  NoOverdraft'
<1> DEFINE money == users[id].money + change
<1>1. id \in Id /\ money \in Int
  BY UserType DEF TypeOK
<1>2. Wrap(money) \in Int /\ InRange(Wrap(money))
  BY <1>1, WrapInRange
<1>3. /\ DOMAIN users' = DOMAIN users \cup {id}
      /\ users'[id].money = Wrap(money)
      /\ \A x \in DOMAIN users' : x # id => users'[x] = users[x]
  BY <1>1, <1>2, StoreType
<1>4. odd \subseteq odd' /\ (~InRange(money) \/ sum < 0 => id \in odd')
  BY DEF Book
<1>5. InRange(money) => Wrap(money) = money
  BY DEF Wrap
<1>6. id \notin odd' => Wrap(money) >= 0
  BY <1>1, <1>4, <1>5
<1> HIDE DEF money
<1> QED
  BY <1>3, <1>4, <1>6 DEF NoOverdraft

LEMMA SolventStore ==
  ASSUME TypeOK, NoOverdraft, NEW id \in Id, NEW on \in BOOLEAN, NEW kept \in Int,
         id \in DOMAIN users => kept = users[id].money,
         id \notin DOMAIN users => kept = 0,
         Store(id, kept, on), UNCHANGED odd
  PROVE  NoOverdraft'
<1>0. TypeOK /\ id \in Id /\ kept \in Int /\ on \in BOOLEAN /\ Store(id, kept, on)
  OBVIOUS
<1>1. InRange(kept) /\ (id \notin odd => kept >= 0)
  BY WalletAssumption DEF TypeOK, User, NoOverdraft, InRange, WalletAssumption
<1>2. /\ DOMAIN users' = DOMAIN users \cup {id}
      /\ users'[id].money = kept
      /\ \A x \in DOMAIN users' : x # id => users'[x] = users[x]
  BY ONLY <1>0 DEF Store
<1> QED
  BY <1>1, <1>2 DEF NoOverdraft

LEMMA HandlersSolvent ==
  ASSUME TypeOK, NoOverdraft, NEW d \in Datagram,
         \/ HandleConnect(d) \/ HandleSendTo(d) \/ HandleShowSum(d)
         \/ HandleGet(d) \/ HandleExit(d)
  PROVE  NoOverdraft'
<1>1. d.id \in Id /\ d.sum \in Int
  BY DatagramType
<1>2. CASE UNCHANGED <<users, odd>>
  BY <1>2 DEF NoOverdraft
<1>3. CASE HandleConnect(d)
  <2>1. CASE ~Taken(d)
    <3>1. Store(d.id, IF Known(d) THEN users[d.id].money ELSE 0, TRUE)
      BY <1>3, <2>1 DEF HandleConnect
    <3>2. UNCHANGED odd
      BY <1>3 DEF HandleConnect
    <3>3. CASE Known(d)
      <4>1. Store(d.id, users[d.id].money, TRUE) /\ users[d.id].money \in Int
        BY <3>1, <3>3, UserType DEF Known
      <4> QED
        BY <1>1, <3>2, <3>3, <4>1, SolventStore DEF Known
    <3>4. CASE ~Known(d)
      <4>1. Store(d.id, 0, TRUE)
        BY <3>1, <3>4
      <4>2. d.id \notin DOMAIN users /\ 0 \in Int /\ 0 = 0 /\ TRUE \in BOOLEAN
        BY <3>4 DEF Known
      <4> QED
        BY <1>1, <3>2, <4>1, <4>2, SolventStore, Zenon
    <3> QED
      BY <3>3, <3>4
  <2>2. CASE Taken(d)
    BY <1>2, <1>3, <2>2 DEF HandleConnect
  <2> QED
    BY <2>1, <2>2
<1>4. CASE HandleSendTo(d)
  <2>1. CASE Known(d)
    <3>1. /\ Store(d.id, Wrap(users[d.id].money + d.sum), users[d.id].isConnected)
          /\ Book(d.id, d.sum, d.sum)
      BY <1>4, <2>1 DEF HandleSendTo
    <3>2. /\ d.id \in DOMAIN users /\ users[d.id].money \in Int
          /\ users[d.id].isConnected \in BOOLEAN
          /\ d.id \notin odd => users[d.id].money >= 0
      BY <2>1, UserType DEF Known, NoOverdraft
    <3>3. d.sum >= 0 => users[d.id].money + d.sum >= 0 \/ d.id \in odd
      BY <1>1, <3>2
    <3> QED
      BY <1>1, <3>1, <3>2, <3>3, SolventBook
  <2>2. CASE ~Known(d)
    BY <1>2, <1>4, <2>2 DEF HandleSendTo, ghosts
  <2> QED
    BY <2>1, <2>2
<1>5. CASE HandleShowSum(d)
  BY <1>2, <1>5 DEF HandleShowSum, ghosts
<1>6. CASE HandleGet(d)
  <2>1. CASE Covered(d)
    <3>1. /\ Known(d) /\ ~(users[d.id].money < d.sum)
          /\ Store(d.id, Wrap(users[d.id].money - d.sum), users[d.id].isConnected)
          /\ Book(d.id, -d.sum, d.sum)
      BY <1>6, <2>1 DEF HandleGet, Covered
    <3>2. /\ d.id \in DOMAIN users /\ users[d.id].money \in Int
          /\ users[d.id].isConnected \in BOOLEAN
      BY <3>1, UserType DEF Known
    <3>3. /\ users[d.id].money - d.sum = users[d.id].money + (-d.sum)
          /\ users[d.id].money + (-d.sum) >= 0
          /\ -d.sum \in Int
      BY <1>1, <3>1, <3>2
    <3>4. Store(d.id, Wrap(users[d.id].money + (-d.sum)), users[d.id].isConnected)
      BY <3>1, <3>3
    <3> QED
      BY <1>1, <3>1, <3>2, <3>3, <3>4, SolventBook
  <2>2. CASE ~Covered(d)
    BY <1>2, <1>6, <2>2 DEF HandleGet, ghosts
  <2> QED
    BY <2>1, <2>2
<1>7. CASE HandleExit(d)
  <2>1. /\ d.id \in DOMAIN users /\ users[d.id].money \in Int
        /\ Store(d.id, users[d.id].money, FALSE)
    BY <1>7, UserType DEF HandleExit, KeptMoney, Known
  <2>2. UNCHANGED odd
    BY <1>7 DEF HandleExit
  <2> QED
    BY <1>1, <2>1, <2>2, SolventStore
<1> QED
  BY <1>3, <1>4, <1>5, <1>6, <1>7

LEMMA SolventKept == TypeOK /\ NoOverdraft /\ [Next]_vars => NoOverdraft'
<1> SUFFICES ASSUME TypeOK, NoOverdraft, [Next]_vars PROVE NoOverdraft'
  OBVIOUS
<1>1. CASE UNCHANGED Accounts
  BY <1>1 DEF NoOverdraft, Accounts
<1>2. CASE Serve
  <2>1. Head(net) \in Datagram
    BY <1>2 DEF TypeOK, Serve
  <2> QED
    BY <1>2, <2>1, HandlersSolvent DEF Serve
<1>3. CASE ServerExit \/ Crash
  BY <1>3 DEF ServerExit, Crash, End, NoOverdraft
<1>4. CASE ServerStart
  BY <1>1, <1>4, StartTyped
<1>5. ASSUME NEW c \in Client, Start(c) \/ Select(c) \/ ReadReply(c) \/ Type(c) \/ Kill(c)
      PROVE  NoOverdraft'
  BY <1>1, <1>5, ClientTyped
<1>6. CASE UNCHANGED vars
  BY <1>1, <1>6 DEF vars, srvVars, cliVars, ghosts, Accounts
<1> QED
  BY <1>2, <1>3, <1>4, <1>5, <1>6 DEF Next

\* The one comparison that get makes keeps every account out of debt, but for the two things
\* it does not look at: sums that are negative, and sums that leave the range of int.
THEOREM NeverInDebt == Spec => []NoOverdraft
<1>1. Init => NoOverdraft
  BY DEF Init, NoOverdraft
<1> QED
  BY <1>1, InitTyped, NextTyped, SolventKept, PTL DEF Spec

-----------------------------------------------------------------------------
(* What the steps do to the socket, to the clients' states and to the map. *)

\* The server takes the first datagram and the others move up.
LEMMA TakesFirst ==
  ASSUME TypeOK, Serve
  PROVE  /\ Len(net) \in Nat /\ Len(net) > 0 /\ 1 \in 1 .. Len(net) /\ Head(net) = net[1]
         /\ Len(net') = Len(net) - 1
         /\ \A i \in 1 .. Len(net') : i + 1 \in 1 .. Len(net) /\ net'[i] = net[i + 1]
  BY DEF TypeOK, Serve

\* What a client sends comes last, if the server is there to get it.
Sends(c, op, id) ==
  \/ srv # "up" /\ net' = net
  \/ /\ srv = "up" /\ Len(net') = Len(net) + 1
     /\ \A i \in 1 .. Len(net) : net'[i] = net[i]
     /\ net'[Len(net')].op = op /\ net'[Len(net')].from = c /\ net'[Len(net')].id = id

LEMMA SendsLast ==
  ASSUME TypeOK, NEW c, NEW op, NEW id, NEW sum, Send(c, op, id, sum)
  PROVE  Sends(c, op, id)
<1> DEFINE d == [op |-> op, from |-> c, id |-> id, sum |-> sum]
<1>1. d.op = op /\ d.from = c /\ d.id = id
  OBVIOUS
<1>2. net' = IF srv = "up" THEN Append(net, d) ELSE net
  BY DEF Send
<1>3. \E S : net \in Seq(S)
  BY DEF TypeOK
<1> HIDE DEF d
<1>4. CASE srv = "up"
  <2>1. /\ Len(net') = Len(net) + 1 /\ net'[Len(net')] = d
        /\ \A i \in 1 .. Len(net) : net'[i] = net[i]
    BY <1>2, <1>3, <1>4
  <2> QED
    BY <1>1, <1>4, <2>1 DEF Sends
<1> QED
  BY <1>2, <1>4 DEF Sends

\* The commands whose id is what was typed; the others carry the client's own.
NamesAnother(op) == op \in {"send_to", "get"}

\* A client's step starts it, or sends a command, the last of which is exit, or says nothing to
\* the server, if only because the client was killed.
Starts(c) ==
  /\ state[c] = "new" /\ state' = [state EXCEPT ![c] = "running"]
  /\ Sends(c, "CONNECT", Argv1[c])
  /\ unknown' = IF srv = "up" THEN unknown ELSE unknown \cup {c}

Commands(c) ==
  /\ Running(c) /\ unknown' = unknown
  /\ \/ state' = state /\ \E op \in {"send_to", "get"}, id \in Id : Sends(c, op, id)
     \/ state' = state /\ Sends(c, "show_sum", Argv1[c])
     \/ state' = [state EXCEPT ![c] = "gone"] /\ Sends(c, "exit", Argv1[c])

Silent(c) ==
  /\ net' = net /\ unknown' = unknown
  /\ state' = state \/ (Running(c) /\ state' = [state EXCEPT ![c] = "gone"])

LEMMA ClientSteps ==
  ASSUME TypeOK, NEW c \in Client,
         Start(c) \/ Select(c) \/ ReadReply(c) \/ Type(c) \/ Kill(c)
  PROVE  /\ UNCHANGED Accounts
         /\ Starts(c) \/ Commands(c) \/ Silent(c)
<1>0. UNCHANGED Accounts
  BY ClientTyped
<1>1. CASE Start(c)
  BY <1>0, <1>1, SendsLast DEF Start, Starts
<1>2. CASE Select(c)
  BY <1>0, <1>2 DEF Select, Silent, srvVars, ghosts
<1>3. CASE ReadReply(c)
  BY <1>0, <1>3 DEF ReadReply, Silent, srvVars, ghosts, Leave
<1>4. CASE Kill(c)
  BY <1>0, <1>4 DEF Kill, Silent, srvVars, ghosts, Leave
<1>5. CASE Type(c)
  <2>1. Running(c) /\ unknown' = unknown
    BY <1>5 DEF Type, TypeSendTo, TypeShowSum, TypeGet, TypeExit, Stdin, ghosts
  <2>2. CASE TypeSendTo(c)
    <3>1. state' = state /\ \E id \in Id : Sends(c, "send_to", id)
      BY <2>2, SendsLast DEF TypeSendTo, Handled
    <3>2. \E op \in {"send_to", "get"}, id \in Id : Sends(c, op, id)
      BY <3>1
    <3> QED
      BY <1>0, <2>1, <3>1, <3>2 DEF Commands
  <2>3. CASE TypeShowSum(c)
    <3>1. state' = state /\ Sends(c, "show_sum", Argv1[c])
      BY <2>3, SendsLast DEF TypeShowSum, Handled
    <3> QED
      BY <1>0, <2>1, <3>1 DEF Commands
  <2>4. CASE TypeGet(c)
    <3>1. state' = state /\ \E id \in Id : Sends(c, "get", id)
      BY <2>4, SendsLast DEF TypeGet, Handled
    <3>2. \E op \in {"send_to", "get"}, id \in Id : Sends(c, op, id)
      BY <3>1
    <3> QED
      BY <1>0, <2>1, <3>1, <3>2 DEF Commands
  <2>5. CASE TypeExit(c)
    <3>1. state' = [state EXCEPT ![c] = "gone"] /\ Sends(c, "exit", Argv1[c])
      BY <2>5, SendsLast DEF TypeExit, Leave
    <3> QED
      BY <1>0, <2>1, <3>1 DEF Commands
  <2> QED
    BY <1>5, <2>2, <2>3, <2>4, <2>5 DEF Type
<1> QED
  BY <1>1, <1>2, <1>3, <1>4, <1>5

\* What a handler does to the map: accounts are never removed, a CONNECT opens the account it
\* names, and only CONNECT and exit open or close one.
Open(id) == id \in DOMAIN users /\ users[id].isConnected

MapStep(d) ==
  /\ DOMAIN users \subseteq DOMAIN users'
  /\ d.op = "CONNECT" => d.id \in DOMAIN users'
  /\ unknown' = unknown /\ freed \subseteq freed'
  /\ \A x \in Id : Open(x) /\ ~(x = d.id /\ d.op = "exit") => Open(x)'
  /\ accepted' # accepted => /\ d.op = "CONNECT" /\ ~Open(d.id) /\ Open(d.id)'
                             /\ accepted' = accepted \cup {d.from}
  /\ d.op = "exit" => d.from \in accepted \ unknown \/ d.id \in freed'

LEMMA OpenStore ==
  ASSUME TypeOK, NEW id \in Id, NEW money \in Int, NEW on \in BOOLEAN, Store(id, money, on)
  PROVE  /\ DOMAIN users' = DOMAIN users \cup {id}
         /\ Open(id)' <=> on
         /\ \A x \in Id : x # id => (Open(x)' <=> Open(x))
<1> DEFINE u == [money |-> money, isConnected |-> on]
<1>1. u.isConnected = on
  OBVIOUS
<1>2. users' = [x \in DOMAIN users \cup {id} |-> IF x = id THEN u ELSE users[x]]
  BY DEF Store
<1> HIDE DEF u
<1>3. DOMAIN users' = DOMAIN users \cup {id} /\ users'[id] = u
  BY <1>2
<1>4. \A x \in DOMAIN users' : x # id => x \in DOMAIN users /\ users'[x] = users[x]
  BY <1>2, <1>3
<1>5. Open(id)' <=> on
  BY <1>1, <1>3, Zenon DEF Open
<1>6. ASSUME NEW x \in Id, x # id PROVE Open(x)' <=> Open(x)
  <2>1. x \in DOMAIN users' <=> x \in DOMAIN users
    BY <1>3, <1>6
  <2>2. x \in DOMAIN users => users'[x] = users[x]
    BY <1>3, <1>4, <1>6
  <2> QED
    BY <2>1, <2>2, Zenon DEF Open
<1> QED
  BY <1>3, <1>5, <1>6

\* A record written back with the same isConnected opens and closes nothing.
LEMMA OpenKept ==
  ASSUME TypeOK, NEW id \in DOMAIN users, NEW money \in Int,
         Store(id, money, users[id].isConnected)
  PROVE  DOMAIN users' = DOMAIN users /\ \A x \in Id : Open(x)' <=> Open(x)
<1>1. id \in Id /\ users[id].isConnected \in BOOLEAN
  BY UserType DEF TypeOK
<1>2. /\ DOMAIN users' = DOMAIN users \cup {id}
      /\ Open(id)' <=> users[id].isConnected
      /\ \A x \in Id : x # id => (Open(x)' <=> Open(x))
  BY <1>1, OpenStore, Zenon
<1>3. Open(id)' <=> Open(id)
  BY <1>2, Zenon DEF Open
<1> QED
  BY <1>1, <1>2, <1>3, Zenon

LEMMA HandlersMap ==
  ASSUME TypeOK, NEW d \in Datagram,
         \/ HandleConnect(d) \/ HandleSendTo(d) \/ HandleShowSum(d)
         \/ HandleGet(d) \/ HandleExit(d)
  PROVE  MapStep(d)
<1>1. d.id \in Id /\ d.sum \in Int
  BY DatagramType
<1>2. ASSUME d.op # "CONNECT", d.op # "exit", UNCHANGED <<accepted, unknown, freed>>,
             DOMAIN users' = DOMAIN users, \A x \in Id : Open(x)' <=> Open(x)
      PROVE  MapStep(d)
  BY <1>2 DEF MapStep
<1>3. ASSUME d.op # "CONNECT", d.op # "exit", UNCHANGED <<users, accepted, unknown, freed>>
      PROVE  MapStep(d)
  BY <1>2, <1>3 DEF Open
<1>4. CASE HandleConnect(d)
  <2>1. d.op = "CONNECT" /\ UNCHANGED <<unknown, freed>>
    BY <1>4 DEF HandleConnect
  <2>2. CASE Taken(d)
    <3>1. UNCHANGED <<users, accepted>> /\ d.id \in DOMAIN users
      BY <1>4, <2>2 DEF HandleConnect, Taken, Known
    <3> QED
      BY <2>1, <3>1 DEF MapStep, Open
  <2>3. CASE ~Taken(d)
    <3> DEFINE money == IF Known(d) THEN users[d.id].money ELSE 0
    <3>1. Store(d.id, money, TRUE) /\ accepted' = accepted \cup {d.from}
      BY <1>4, <2>3 DEF HandleConnect
    <3>2. money \in Int
      BY UserType DEF Known
    <3> HIDE DEF money
    <3>3. /\ DOMAIN users' = DOMAIN users \cup {d.id}
          /\ Open(d.id)'
          /\ \A x \in Id : x # d.id => (Open(x)' <=> Open(x))
      BY <1>1, <3>1, <3>2, OpenStore
    <3>4. ~Open(d.id)
      BY <2>3 DEF Open, Taken, Known
    <3> QED
      BY <1>1, <2>1, <3>1, <3>3, <3>4 DEF MapStep
  <2> QED
    BY <2>2, <2>3
<1>5. CASE HandleSendTo(d)
  <2>1. CASE Known(d)
    <3>1. /\ Store(d.id, Wrap(users[d.id].money + d.sum), users[d.id].isConnected)
          /\ d.op = "send_to" /\ UNCHANGED <<accepted, unknown, freed>>
      BY <1>5, <2>1 DEF HandleSendTo, Book
    <3>2. d.id \in DOMAIN users /\ Wrap(users[d.id].money + d.sum) \in Int
      BY <1>1, <2>1, UserType, WrapInRange DEF Known
    <3> QED
      BY <1>2, <3>1, <3>2, OpenKept
  <2>2. CASE ~Known(d)
    BY <1>3, <1>5, <2>2 DEF HandleSendTo, ghosts
  <2> QED
    BY <2>1, <2>2
<1>6. CASE HandleShowSum(d)
  BY <1>3, <1>6 DEF HandleShowSum, ghosts
<1>7. CASE HandleGet(d)
  <2>1. CASE Covered(d)
    <3>1. /\ Known(d)
          /\ Store(d.id, Wrap(users[d.id].money - d.sum), users[d.id].isConnected)
          /\ d.op = "get" /\ UNCHANGED <<accepted, unknown, freed>>
      BY <1>7, <2>1 DEF HandleGet, Book
    <3>2. d.id \in DOMAIN users /\ Wrap(users[d.id].money - d.sum) \in Int
      BY <1>1, <3>1, UserType, WrapInRange DEF Known
    <3> QED
      BY <1>2, <3>1, <3>2, OpenKept
  <2>2. CASE ~Covered(d)
    BY <1>3, <1>7, <2>2 DEF HandleGet, ghosts
  <2> QED
    BY <2>1, <2>2
<1>8. CASE HandleExit(d)
  <2>1. /\ d.op = "exit" /\ d.id \in DOMAIN users
        /\ Store(d.id, users[d.id].money, FALSE)
        /\ freed' = IF d.from \in accepted /\ d.from \notin unknown
                      THEN freed ELSE freed \cup {d.id}
        /\ UNCHANGED <<accepted, unknown>>
    BY <1>8 DEF HandleExit, KeptMoney, Known
  <2>2. users[d.id].money \in Int
    BY <2>1, UserType
  <2>3. /\ DOMAIN users' = DOMAIN users \cup {d.id}
        /\ \A x \in Id : x # d.id => (Open(x)' <=> Open(x))
    BY <1>1, <2>1, <2>2, OpenStore
  <2>4. freed \subseteq freed' /\ (d.from \in accepted \ unknown \/ d.id \in freed')
    BY <2>1
  <2> QED
    BY <2>1, <2>3, <2>4 DEF MapStep
<1> QED
  BY <1>4, <1>5, <1>6, <1>7, <1>8

LEMMA ServeMap ==
  ASSUME TypeOK, Serve, NEW d, d = Head(net)
  PROVE  MapStep(d) /\ state' = state /\ d \in Datagram
<1>1. d \in Datagram
  BY DEF TypeOK, Serve
<1>2. \/ HandleConnect(d) \/ HandleSendTo(d) \/ HandleShowSum(d)
      \/ HandleGet(d) \/ HandleExit(d)
  BY DEF Serve
<1> QED
  BY <1>1, <1>2, HandlersMap DEF Serve, cliVars

-----------------------------------------------------------------------------
(* Why a find fails. *)

\* The CONNECT of an id is among the first n datagrams of a socket.
ConnectIn(s, n, id) == \E j \in 1 .. n : s[j].op = "CONNECT" /\ s[j].id = id

\* A command that looks up an account of its sender, and does not check that it is there.
LooksUp(d) == d.op \in {"show_sum", "get", "exit"} /\ (d.op = "get" => d.id = Argv1[d.from])

\* The inductive invariant: a command that looks up its sender's account comes after a CONNECT
\* of that account, still in the socket or already obeyed, unless the server never got or has
\* forgotten the CONNECT of its sender; and so will the commands a running client has yet to type.
Introduced ==
  /\ \A i \in 1 .. Len(net) :
       LooksUp(net[i]) /\ net[i].from \notin unknown =>
         net[i].id \in DOMAIN users \/ ConnectIn(net, i - 1, net[i].id)
  /\ \A c \in Client :
       Running(c) /\ c \notin unknown =>
         Argv1[c] \in DOMAIN users \/ ConnectIn(net, Len(net), Argv1[c])

LEMMA IntroducedServes == ASSUME TypeOK, Introduced PROVE FailedFind
<1> SUFFICES ASSUME net # << >>, LooksUp(Head(net)), Head(net).from \notin unknown
             PROVE  Head(net).id \in DOMAIN users
  BY DEF FailedFind, Known, LooksUp
<1>1. 1 \in 1 .. Len(net) /\ Head(net) = net[1]
  BY DEF TypeOK
<1>2. ~ConnectIn(net, 1 - 1, net[1].id)
  BY DEF ConnectIn
<1> QED
  BY <1>1, <1>2 DEF Introduced

LEMMA ServeIntroduces == ASSUME TypeOK, Introduced, Serve PROVE Introduced'
<1> PICK d : d = Head(net)
  OBVIOUS
<1>1. /\ Len(net) \in Nat /\ Len(net) > 0 /\ d = net[1] /\ Len(net') = Len(net) - 1
      /\ \A i \in 1 .. Len(net') : i + 1 \in 1 .. Len(net) /\ net'[i] = net[i + 1]
  BY TakesFirst
<1>2. /\ DOMAIN users \subseteq DOMAIN users' /\ (d.op = "CONNECT" => d.id \in DOMAIN users')
      /\ unknown' = unknown /\ state' = state
  BY ServeMap DEF MapStep
<1>3. ASSUME NEW n \in 1 .. Len(net), NEW id, ConnectIn(net, n, id)
      PROVE  id \in DOMAIN users' \/ ConnectIn(net', n - 1, id)
  <2>1. PICK j \in 1 .. n : net[j].op = "CONNECT" /\ net[j].id = id
    BY <1>3 DEF ConnectIn
  <2>2. CASE j = 1
    BY <1>1, <1>2, <2>1, <2>2
  <2>3. CASE j # 1
    <3>1. j - 1 \in 1 .. n - 1 /\ j - 1 \in 1 .. Len(net') /\ (j - 1) + 1 = j
      BY <1>1, <2>1, <2>3
    <3>2. net'[j - 1] = net[j]
      BY <1>1, <3>1
    <3> QED
      BY <2>1, <3>1, <3>2 DEF ConnectIn
  <2> QED
    BY <2>2, <2>3
<1>4. ASSUME NEW i \in 1 .. Len(net'), LooksUp(net'[i]), net'[i].from \notin unknown'
      PROVE  net'[i].id \in DOMAIN users' \/ ConnectIn(net', i - 1, net'[i].id)
  <2>1. i + 1 \in 1 .. Len(net) /\ net'[i] = net[i + 1] /\ i \in Nat /\ (i + 1) - 1 = i
    BY <1>1
  <2>2. net[i + 1].id \in DOMAIN users \/ ConnectIn(net, i, net[i + 1].id)
    BY <1>2, <1>4, <2>1 DEF Introduced
  <2>3. i \in 1 .. Len(net)
    BY <1>1, <2>1
  <2> QED
    BY <1>2, <1>3, <2>1, <2>2, <2>3
<1>5. ASSUME NEW c \in Client, Running(c)', c \notin unknown'
      PROVE  Argv1[c] \in DOMAIN users' \/ ConnectIn(net', Len(net'), Argv1[c])
  <2>1. Argv1[c] \in DOMAIN users \/ ConnectIn(net, Len(net), Argv1[c])
    BY <1>2, <1>5 DEF Introduced, Running
  <2>2. Len(net) \in 1 .. Len(net) /\ Len(net) - 1 = Len(net')
    BY <1>1
  <2> QED
    BY <1>2, <1>3, <2>1, <2>2
<1> QED
  BY <1>4, <1>5 DEF Introduced

\* What is appended to the socket hides nothing that was in it.
LEMMA SendsKeeps ==
  ASSUME TypeOK, NEW c, NEW op, NEW id, Sends(c, op, id), UNCHANGED users
  PROVE  /\ Len(net) \in Nat /\ Len(net') \in Nat /\ Len(net) <= Len(net')
         /\ \A i \in 1 .. Len(net) : i \in 1 .. Len(net') /\ net'[i] = net[i]
         /\ \A n \in 0 .. Len(net), x \in Id : ConnectIn(net, n, x) =>
              \A m \in n .. Len(net') : ConnectIn(net', m, x)
<1>1. Len(net) \in Nat
  BY DEF TypeOK
<1>2. /\ Len(net') \in Nat /\ Len(net) <= Len(net')
      /\ \A i \in 1 .. Len(net) : i \in 1 .. Len(net') /\ net'[i] = net[i]
  BY <1>1 DEF Sends
<1>3. ASSUME NEW n \in 0 .. Len(net), NEW x \in Id, ConnectIn(net, n, x), NEW m \in n .. Len(net')
      PROVE  ConnectIn(net', m, x)
  <2>1. PICK j \in 1 .. n : net[j].op = "CONNECT" /\ net[j].id = x
    BY <1>3 DEF ConnectIn
  <2>2. j \in 1 .. Len(net) /\ j \in 1 .. m
    BY <1>1
  <2> QED
    BY <1>2, <2>1, <2>2 DEF ConnectIn
<1> QED
  BY <1>1, <1>2, <1>3

LEMMA StartIntroduces ==
  ASSUME TypeOK, Introduced, NEW c \in Client, Starts(c), UNCHANGED Accounts
  PROVE  Introduced'
<1>1. /\ Sends(c, "CONNECT", Argv1[c]) /\ UNCHANGED users /\ Argv1[c] \in Id
      /\ state' = [state EXCEPT ![c] = "running"]
      /\ unknown' = IF srv = "up" THEN unknown ELSE unknown \cup {c}
  BY WalletAssumption DEF Starts, Accounts, WalletAssumption
<1>2. /\ Len(net) \in Nat /\ Len(net') \in Nat /\ Len(net) <= Len(net')
      /\ \A i \in 1 .. Len(net) : i \in 1 .. Len(net') /\ net'[i] = net[i]
      /\ \A n \in 0 .. Len(net), x \in Id : ConnectIn(net, n, x) =>
           \A m \in n .. Len(net') : ConnectIn(net', m, x)
  BY <1>1, SendsKeeps
<1>3. unknown \subseteq unknown'
  BY <1>1
<1>4. ASSUME NEW i \in 1 .. Len(net'), LooksUp(net'[i]), net'[i].from \notin unknown'
      PROVE  net'[i].id \in DOMAIN users' \/ ConnectIn(net', i - 1, net'[i].id)
  <2>1. i \in 1 .. Len(net)
    BY <1>1, <1>2, <1>4 DEF Sends, LooksUp
  <2>2. net'[i] = net[i] /\ net[i].id \in Id
    BY <1>2, <2>1, DatagramType DEF TypeOK
  <2>3. net[i].id \in DOMAIN users \/ ConnectIn(net, i - 1, net[i].id)
    BY <1>3, <1>4, <2>1, <2>2 DEF Introduced
  <2>4. i - 1 \in 0 .. Len(net) /\ i - 1 \in i - 1 .. Len(net')
    BY <1>2, <2>1
  <2> QED
    BY <1>1, <1>2, <2>2, <2>3, <2>4
<1>5. ASSUME NEW e \in Client, Running(e)', e \notin unknown'
      PROVE  Argv1[e] \in DOMAIN users' \/ ConnectIn(net', Len(net'), Argv1[e])
  <2>1. CASE e = c
    <3>1. srv = "up"
      BY <1>1, <1>5, <2>1
    <3>2. /\ Len(net') \in 1 .. Len(net') /\ net'[Len(net')].op = "CONNECT"
          /\ net'[Len(net')].id = Argv1[c]
      BY <1>1, <1>2, <3>1 DEF Sends
    <3>3. ConnectIn(net', Len(net'), Argv1[e])
      BY <2>1, <3>2 DEF ConnectIn
    <3> QED
      BY <3>3
  <2>2. CASE e # c
    <3>1. Running(e) /\ e \notin unknown /\ Argv1[e] \in Id
      BY <1>1, <1>3, <1>5, <2>2, WalletAssumption DEF Running, TypeOK, WalletAssumption
    <3>2. Argv1[e] \in DOMAIN users \/ ConnectIn(net, Len(net), Argv1[e])
      BY <3>1 DEF Introduced
    <3>3. Len(net) \in 0 .. Len(net) /\ Len(net') \in Len(net) .. Len(net')
      BY <1>2
    <3> QED
      BY <1>1, <1>2, <3>1, <3>2, <3>3
  <2> QED
    BY <2>1, <2>2
<1> QED
  BY <1>4, <1>5 DEF Introduced

LEMMA CommandIntroduced ==
  ASSUME TypeOK, Introduced, NEW c \in Client, Commands(c), UNCHANGED Accounts
  PROVE  Introduced'
<1>1. /\ Running(c) /\ UNCHANGED users /\ unknown' = unknown /\ Argv1[c] \in Id
      /\ \A e \in Client : Running(e)' => Running(e)
  BY WalletAssumption DEF Commands, Accounts, WalletAssumption, Running, TypeOK
<1>2. PICK op, id : Sends(c, op, id) /\ (~NamesAnother(op) => id = Argv1[c])
  BY DEF Commands, NamesAnother
<1>3. /\ Len(net) \in Nat /\ Len(net') \in Nat /\ Len(net) <= Len(net')
      /\ \A i \in 1 .. Len(net) : i \in 1 .. Len(net') /\ net'[i] = net[i]
      /\ \A n \in 0 .. Len(net), x \in Id : ConnectIn(net, n, x) =>
           \A m \in n .. Len(net') : ConnectIn(net', m, x)
  BY <1>1, <1>2, SendsKeeps
<1>4. ASSUME NEW i \in 1 .. Len(net'), LooksUp(net'[i]), net'[i].from \notin unknown'
      PROVE  net'[i].id \in DOMAIN users' \/ ConnectIn(net', i - 1, net'[i].id)
  <2>1. CASE i \in 1 .. Len(net)
    <3>2. net'[i] = net[i] /\ net[i].id \in Id
      BY <1>3, <2>1, DatagramType DEF TypeOK
    <3>3. net[i].id \in DOMAIN users \/ ConnectIn(net, i - 1, net[i].id)
      BY <1>1, <1>4, <2>1, <3>2 DEF Introduced
    <3>4. i - 1 \in 0 .. Len(net) /\ i - 1 \in i - 1 .. Len(net')
      BY <1>3, <2>1
    <3> QED
      BY <1>1, <1>3, <3>2, <3>3, <3>4
  <2>2. CASE i \notin 1 .. Len(net)
    <3>1. /\ i = Len(net') /\ i - 1 = Len(net)
          /\ net'[i].op = op /\ net'[i].from = c /\ net'[i].id = id
      BY <1>2, <1>3, <2>2 DEF Sends
    <3>2. net'[i].id = Argv1[c] /\ c \notin unknown
      BY <1>1, <1>2, <1>4, <3>1 DEF LooksUp, NamesAnother
    <3>3. Argv1[c] \in DOMAIN users \/ ConnectIn(net, Len(net), Argv1[c])
      BY <1>1, <3>2 DEF Introduced
    <3>4. Len(net) \in 0 .. Len(net) /\ i - 1 \in Len(net) .. Len(net')
      BY <1>3, <3>1
    <3>5. Argv1[c] \in DOMAIN users' \/ ConnectIn(net', i - 1, Argv1[c])
      BY <1>1, <1>3, <3>3, <3>4
    <3> QED
      BY <3>2, <3>5
  <2> QED
    BY <2>1, <2>2
<1>5. ASSUME NEW e \in Client, Running(e)', e \notin unknown'
      PROVE  Argv1[e] \in DOMAIN users' \/ ConnectIn(net', Len(net'), Argv1[e])
  <2>1. Running(e) /\ e \notin unknown /\ Argv1[e] \in Id
    BY <1>1, <1>5, WalletAssumption DEF WalletAssumption
  <2>2. Argv1[e] \in DOMAIN users \/ ConnectIn(net, Len(net), Argv1[e])
    BY <2>1 DEF Introduced
  <2>3. Len(net) \in 0 .. Len(net) /\ Len(net') \in Len(net) .. Len(net')
    BY <1>3
  <2> QED
    BY <1>1, <1>3, <2>1, <2>2, <2>3
<1> QED
  BY <1>4, <1>5 DEF Introduced

LEMMA SilentIntroduced ==
  ASSUME TypeOK, Introduced, NEW c \in Client, Silent(c), UNCHANGED Accounts
  PROVE  Introduced'
<1>1. /\ net' = net /\ UNCHANGED users /\ unknown' = unknown
      /\ \A e \in Client : Running(e)' => Running(e)
  BY DEF Silent, Accounts, Running, TypeOK
<1> QED
  BY <1>1 DEF Introduced, ConnectIn

LEMMA IntroducedKept == TypeOK /\ Introduced /\ [Next]_vars => Introduced'
<1> SUFFICES ASSUME TypeOK, Introduced, [Next]_vars PROVE Introduced'
  OBVIOUS
<1>1. CASE Serve
  BY <1>1, ServeIntroduces
<1>2. CASE ServerExit \/ Crash
  <2>1. Len(net') = 0 /\ unknown' = {c \in Client : Running(c)} /\ state' = state
    BY <1>2 DEF ServerExit, Crash, End, cliVars
  <2> QED
    BY <2>1 DEF Introduced, Running
<1>3. CASE ServerStart
  BY <1>3 DEF ServerStart, Introduced, ConnectIn, Running, cliVars, ghosts
<1>4. ASSUME NEW c \in Client, Start(c) \/ Select(c) \/ ReadReply(c) \/ Type(c) \/ Kill(c)
      PROVE  Introduced'
  BY <1>4, ClientSteps, StartIntroduces, CommandIntroduced, SilentIntroduced
<1>5. CASE UNCHANGED vars
  BY <1>5 DEF Introduced, ConnectIn, Running, vars, srvVars, cliVars, ghosts
<1> QED
  BY <1>1, <1>2, <1>3, <1>4, <1>5 DEF Next

\* The find whose result is not looked at (server.cpp:137, 148, 168) fails only for clients whose
\* CONNECT the server never got or has forgotten, or for an id typed after get, whatever clients,
\* ids and commands there are.
THEOREM FindFailsForCause == Spec => []FailedFind
<1>1. Init => Introduced
  BY DEF Init, Introduced, Running
<1> QED
  BY <1>1, InitTyped, NextTyped, IntroducedKept, IntroducedServes, PTL DEF Spec

-----------------------------------------------------------------------------
(* Who holds an id. *)

ExitIn(s, c) == \E i \in 1 .. Len(s) : s[i].op = "exit" /\ s[i].from = c

\* What the socket says of the clients: a command other than send_to and get carries the id its
\* sender was started with, and exit is sent once, by a client that then is gone.
Senders ==
  /\ \A i \in 1 .. Len(net) :
       /\ state[net[i].from] # "new"
       /\ ~NamesAnother(net[i].op) => net[i].id = Argv1[net[i].from]
       /\ net[i].op = "exit" => state[net[i].from] = "gone"
  /\ \A i, j \in 1 .. Len(net) :
       net[i].op = "exit" /\ net[j].op = "exit" /\ net[i].from = net[j].from => i = j
  /\ \A c \in accepted : state[c] # "new"

\* A client holds its id on, after it is gone, until the server gets its exit.
HoldsOn(c) == c \in accepted \ unknown /\ (Running(c) \/ ExitIn(net, c))

\* The inductive invariant: the account of a client that holds its id on is open, which is what
\* keeps a second client out, unless another's exit has closed it.
Owned ==
  \A c \in Client : HoldsOn(c) /\ Argv1[c] \notin freed =>
    /\ Open(Argv1[c])
    /\ \A e \in Client : HoldsOn(e) /\ Argv1[e] = Argv1[c] => e = c

LEMMA OwnedHolds == Owned => OneHolder
  BY DEF Owned, OneHolder, Holds, HoldsOn

LEMMA ServeSenders == ASSUME TypeOK, Senders, Serve PROVE Senders'
<1> PICK d : d = Head(net)
  OBVIOUS
<1>1. /\ Len(net) \in Nat /\ Len(net) > 0 /\ d = net[1] /\ Len(net') = Len(net) - 1
      /\ 1 \in 1 .. Len(net)
      /\ \A i \in 1 .. Len(net') : i + 1 \in 1 .. Len(net) /\ net'[i] = net[i + 1]
  BY TakesFirst
<1>2. state' = state /\ (accepted' = accepted \/ accepted' = accepted \cup {net[1].from})
  BY <1>1, ServeMap DEF MapStep
<1>3. \A i \in 1 .. Len(net') :
       /\ state'[net'[i].from] # "new"
       /\ ~NamesAnother(net'[i].op) => net'[i].id = Argv1[net'[i].from]
       /\ net'[i].op = "exit" => state'[net'[i].from] = "gone"
  BY <1>1, <1>2 DEF Senders
<1>4. ASSUME NEW i \in 1 .. Len(net'), NEW j \in 1 .. Len(net'),
             net'[i].op = "exit", net'[j].op = "exit", net'[i].from = net'[j].from
      PROVE  i = j
  <2>1. i + 1 \in 1 .. Len(net) /\ j + 1 \in 1 .. Len(net) /\ i \in Nat /\ j \in Nat
    BY <1>1
  <2>2. i + 1 = j + 1
    BY <1>1, <1>4, <2>1 DEF Senders
  <2> QED
    BY <2>1, <2>2
<1>5. \A c \in accepted' : state'[c] # "new"
  BY <1>1, <1>2 DEF Senders
<1> QED
  BY <1>3, <1>4, <1>5 DEF Senders

\* Whatever a client sends, the socket says as much of its sender as before.
LEMMA SendSenders ==
  ASSUME TypeOK, Senders, NEW c \in Client, NEW op, NEW id, Sends(c, op, id),
         ~NamesAnother(op) => id = Argv1[c],
         state[c] # "gone", state'[c] # "new", op = "exit" => state'[c] = "gone",
         \A e \in Client : e # c => state'[e] = state[e],
         UNCHANGED accepted
  PROVE  Senders'
<1>1. /\ Len(net) \in Nat /\ \A i \in 1 .. Len(net) : net[i] \in Datagram
  BY DEF TypeOK
<1>2. /\ Len(net') \in Nat
      /\ \A i \in 1 .. Len(net') :
           \/ i \in 1 .. Len(net) /\ net'[i] = net[i]
           \/ i = Len(net) + 1 /\ net'[i].op = op /\ net'[i].from = c /\ net'[i].id = id
  BY <1>1 DEF Sends
<1>3. ASSUME NEW i \in 1 .. Len(net)
      PROVE  net[i].from \in Client /\ (net[i].op = "exit" => net[i].from # c)
  BY <1>1, DatagramType DEF Senders
<1>4. \A e \in Client : (state[e] # "new" => state'[e] # "new")
                        /\ (state[e] = "gone" => state'[e] = "gone")
  OBVIOUS
<1>5. ASSUME NEW i \in 1 .. Len(net')
      PROVE  /\ state'[net'[i].from] # "new"
             /\ ~NamesAnother(net'[i].op) => net'[i].id = Argv1[net'[i].from]
             /\ net'[i].op = "exit" => state'[net'[i].from] = "gone"
  <2>1. CASE i \in 1 .. Len(net) /\ net'[i] = net[i]
    BY <1>3, <1>4, <2>1 DEF Senders
  <2>2. CASE i = Len(net) + 1 /\ net'[i].op = op /\ net'[i].from = c /\ net'[i].id = id
    BY <2>2
  <2> QED
    BY <1>2, <2>1, <2>2
<1>6. ASSUME NEW i \in 1 .. Len(net'), NEW j \in 1 .. Len(net'),
             net'[i].op = "exit", net'[j].op = "exit", net'[i].from = net'[j].from
      PROVE  i = j
  <2>1. CASE i \in 1 .. Len(net) /\ j \in 1 .. Len(net)
    BY <1>1, <1>2, <1>6, <2>1 DEF Senders
  <2>2. CASE i \notin 1 .. Len(net)
    <3>1. i = Len(net) + 1 /\ net'[i].from = c
      BY <1>2, <2>2
    <3>2. j \notin 1 .. Len(net)
      BY <1>1, <1>2, <1>3, <1>6, <3>1
    <3> QED
      BY <1>2, <3>1, <3>2
  <2>3. CASE j \notin 1 .. Len(net)
    <3>1. j = Len(net) + 1 /\ net'[j].from = c
      BY <1>2, <2>3
    <3>2. i \notin 1 .. Len(net)
      BY <1>1, <1>2, <1>3, <1>6, <3>1
    <3> QED
      BY <1>2, <3>1, <3>2
  <2> QED
    BY <2>1, <2>2, <2>3
<1>7. \A e \in accepted' : state'[e] # "new"
  BY <1>4 DEF Senders, TypeOK
<1> QED
  BY <1>5, <1>6, <1>7 DEF Senders

LEMMA ClientSenders ==
  ASSUME TypeOK, Senders, NEW c \in Client, UNCHANGED Accounts,
         Starts(c) \/ Commands(c) \/ Silent(c)
  PROVE  Senders'
<1>0. /\ UNCHANGED accepted /\ state \in [Client -> {"new", "running", "gone"}]
      /\ \A i \in 1 .. Len(net) : net[i].from \in Client
  BY DatagramType DEF Accounts, TypeOK
<1>1. CASE Starts(c)
  <2>1. /\ Sends(c, "CONNECT", Argv1[c]) /\ state[c] = "new"
        /\ state' = [state EXCEPT ![c] = "running"]
    BY <1>1 DEF Starts
  <2>2. state'[c] = "running" /\ \A e \in Client : e # c => state'[e] = state[e]
    BY <1>0, <2>1
  <2> QED
    BY <1>0, <2>1, <2>2, SendSenders
<1>2. CASE Commands(c)
  <2>0. state[c] = "running"
    BY <1>2 DEF Commands, Running
  <2>1. PICK op, id : /\ Sends(c, op, id) /\ (~NamesAnother(op) => id = Argv1[c])
                      /\ state' = [state EXCEPT ![c] = IF op = "exit" THEN "gone" ELSE @]
    <3>1. state = [state EXCEPT ![c] = @]
      BY <1>0
    <3>2. CASE state' = state /\ \E op \in {"send_to", "get"}, id \in Id : Sends(c, op, id)
      <4>1. PICK op \in {"send_to", "get"}, id \in Id : Sends(c, op, id)
        BY <3>2
      <4>2. state' = [state EXCEPT ![c] = IF op = "exit" THEN "gone" ELSE @]
        BY <3>1, <3>2
      <4> QED
        BY <4>1, <4>2 DEF NamesAnother
    <3>3. CASE state' = state /\ Sends(c, "show_sum", Argv1[c])
      <4>1. state' = [state EXCEPT ![c] = IF "show_sum" = "exit" THEN "gone" ELSE @]
        BY <3>1, <3>3
      <4> QED
        BY <3>3, <4>1
    <3>4. CASE state' = [state EXCEPT ![c] = "gone"] /\ Sends(c, "exit", Argv1[c])
      <4>1. state' = [state EXCEPT ![c] = IF "exit" = "exit" THEN "gone" ELSE @]
        BY <3>4
      <4> QED
        BY <3>4, <4>1
    <3> QED
      BY <1>2, <3>2, <3>3, <3>4 DEF Commands
  <2>2. /\ \A e \in Client : e # c => state'[e] = state[e]
        /\ state'[c] = IF op = "exit" THEN "gone" ELSE "running"
    BY <1>0, <2>0, <2>1
  <2>3. state'[c] # "new" /\ state[c] # "gone" /\ (op = "exit" => state'[c] = "gone")
    BY <2>0, <2>2
  <2> QED
    BY <1>0, <2>1, <2>2, <2>3, SendSenders
<1>3. CASE Silent(c)
  <2>1. /\ net' = net
        /\ \A e \in Client : (state[e] # "new" => state'[e] # "new")
                             /\ (state[e] = "gone" => state'[e] = "gone")
    BY <1>0, <1>3 DEF Silent
  <2> QED
    BY <1>0, <2>1 DEF Senders, TypeOK
<1> QED
  BY <1>1, <1>2, <1>3

LEMMA SendersKept == TypeOK /\ Senders /\ [Next]_vars => Senders'
<1> SUFFICES ASSUME TypeOK, Senders, [Next]_vars PROVE Senders'
  OBVIOUS
<1>1. CASE Serve
  BY <1>1, ServeSenders
<1>2. CASE ServerExit \/ Crash
  BY <1>2 DEF ServerExit, Crash, End, Senders, cliVars
<1>3. CASE ServerStart
  BY <1>3 DEF ServerStart, Senders, cliVars, ghosts
<1>4. ASSUME NEW c \in Client, Start(c) \/ Select(c) \/ ReadReply(c) \/ Type(c) \/ Kill(c)
      PROVE  Senders'
  BY <1>4, ClientSteps, ClientSenders
<1>5. CASE UNCHANGED vars
  BY <1>5 DEF Senders, vars, srvVars, cliVars, ghosts
<1> QED
  BY <1>1, <1>2, <1>3, <1>4, <1>5 DEF Next

\* A step after which nobody holds an id on who did not before, and no account that is held on
\* is closed.
LEMMA OwnedFewer ==
  ASSUME TypeOK, Owned, freed \subseteq freed', \A c \in Client : HoldsOn(c)' => HoldsOn(c),
         \A c \in Client : HoldsOn(c)' /\ Open(Argv1[c]) /\ Argv1[c] \notin freed'
                             => Open(Argv1[c])'
  PROVE  Owned'
  BY DEF Owned

LEMMA ServeOwned == ASSUME TypeOK, Senders, Owned, Serve PROVE Owned'
<1> PICK d : d = Head(net)
  OBVIOUS
<1>1. /\ Len(net) \in Nat /\ d = net[1] /\ Len(net') = Len(net) - 1 /\ 1 \in 1 .. Len(net)
      /\ \A i \in 1 .. Len(net') : i + 1 \in 1 .. Len(net) /\ net'[i] = net[i + 1]
  BY TakesFirst
<1>2. MapStep(d) /\ state' = state /\ d \in Datagram
  BY ServeMap
<1>3. d.from \in Client /\ d.id \in Id /\ (~NamesAnother(d.op) => d.id = Argv1[d.from])
  BY <1>1, <1>2, DatagramType DEF Senders
<1>4. \A c \in Client : ExitIn(net', c) => ExitIn(net, c)
  BY <1>1 DEF ExitIn
<1>5. d.op = "exit" => ~ExitIn(net', d.from) /\ ~Running(d.from)
  <2> SUFFICES ASSUME d.op = "exit" PROVE ~ExitIn(net', d.from) /\ ~Running(d.from)
    OBVIOUS
  <2>1. ~Running(d.from)
    BY <1>1 DEF Senders, Running
  <2>2. ASSUME NEW i \in 1 .. Len(net'), net'[i].op = "exit", net'[i].from = d.from PROVE FALSE
    <3>1. i + 1 \in 1 .. Len(net) /\ net'[i] = net[i + 1] /\ i + 1 # 1
      BY <1>1
    <3> QED
      BY <1>1, <2>2, <3>1 DEF Senders
  <2> QED
    BY <2>1, <2>2 DEF ExitIn
<1>6. \A c \in Client : Argv1[c] \in Id
  BY WalletAssumption DEF WalletAssumption
<1>7. /\ unknown' = unknown /\ freed \subseteq freed'
      /\ \A x \in Id : Open(x) /\ ~(x = d.id /\ d.op = "exit") => Open(x)'
  BY <1>2 DEF MapStep
<1>8. \A c \in Client : Running(c)' <=> Running(c)
  BY <1>2 DEF Running
<1>9. CASE accepted' = accepted
  <2>1. ASSUME NEW c \in Client, HoldsOn(c)' PROVE HoldsOn(c)
    BY <1>4, <1>7, <1>8, <1>9, <2>1 DEF HoldsOn
  <2>2. ASSUME NEW c \in Client, HoldsOn(c)', Open(Argv1[c]), Argv1[c] \notin freed'
        PROVE  Open(Argv1[c])'
    <3>1. ~(Argv1[c] = d.id /\ d.op = "exit")
      <4> SUFFICES ASSUME Argv1[c] = d.id, d.op = "exit" PROVE FALSE
        OBVIOUS
      <4>1. d.from \in accepted \ unknown
        BY <1>2, <2>2 DEF MapStep
      <4>2. HoldsOn(d.from)
        BY <1>1, <4>1 DEF HoldsOn, ExitIn
      <4>3. d.from = c
        BY <1>3, <1>7, <2>1, <2>2, <4>2 DEF Owned, NamesAnother
      <4> QED
        BY <1>5, <1>8, <2>2, <4>3 DEF HoldsOn
    <3> QED
      BY <1>6, <1>7, <2>2, <3>1
  <2> QED
    BY <1>7, <2>1, <2>2, OwnedFewer
<1>10. CASE accepted' # accepted
  <2>1. /\ d.op = "CONNECT" /\ ~Open(d.id) /\ Open(d.id)' /\ d.id = Argv1[d.from]
        /\ accepted' = accepted \cup {d.from}
    BY <1>2, <1>3, <1>10 DEF MapStep, NamesAnother
  <2>2. ASSUME NEW c \in Client, HoldsOn(c)', c # d.from PROVE HoldsOn(c)
    BY <1>4, <1>7, <1>8, <2>1, <2>2 DEF HoldsOn
  <2>3. ASSUME NEW c \in Client, HoldsOn(c)', Argv1[c] \notin freed', c # d.from
        PROVE  /\ Open(Argv1[c])' /\ Argv1[c] # d.id
               /\ \A e \in Client : HoldsOn(e)' /\ Argv1[e] = Argv1[c] => e = c
    <3>1. /\ Open(Argv1[c]) /\ Argv1[c] # d.id
          /\ \A e \in Client : HoldsOn(e) /\ Argv1[e] = Argv1[c] => e = c
      BY <1>7, <2>1, <2>2, <2>3 DEF Owned
    <3> QED
      BY <1>6, <1>7, <2>1, <2>2, <3>1
  <2>4. ASSUME NEW c \in Client, HoldsOn(c)', Argv1[c] \notin freed', c = d.from
        PROVE  /\ Open(Argv1[c])'
               /\ \A e \in Client : HoldsOn(e)' /\ Argv1[e] = Argv1[c] => e = c
    <3>1. Open(Argv1[c])' /\ Argv1[c] = d.id
      BY <2>1, <2>4
    <3>2. ASSUME NEW e \in Client, HoldsOn(e)', Argv1[e] = Argv1[c], e # c PROVE FALSE
      BY <2>3, <2>4, <3>1, <3>2
    <3> QED
      BY <3>1, <3>2
  <2> QED
    BY <2>3, <2>4 DEF Owned
<1> QED
  BY <1>9, <1>10

LEMMA ClientOwned ==
  ASSUME TypeOK, Senders, Owned, NEW c \in Client, UNCHANGED Accounts,
         Starts(c) \/ Commands(c) \/ Silent(c)
  PROVE  Owned'
<1>0. UNCHANGED <<users, accepted, freed>> /\ unknown \subseteq unknown' /\ Len(net) \in Nat
  BY DEF Accounts, Starts, Commands, Silent, TypeOK
<1>1. ASSUME NEW e \in Client, HoldsOn(e)' PROVE HoldsOn(e)
  <2>0. e \in accepted \ unknown
    BY <1>0, <1>1 DEF HoldsOn
  <2>1. CASE Starts(c)
    <3>1. e # c
      BY <2>0, <2>1 DEF Starts, Senders
    <3>2. Running(e)' => Running(e)
      BY <2>1, <3>1 DEF Starts, Running, TypeOK
    <3>3. ExitIn(net', e) => ExitIn(net, e)
      BY <1>0, <2>1 DEF Starts, Sends, ExitIn
    <3> QED
      BY <1>1, <2>0, <3>2, <3>3 DEF HoldsOn
  <2>2. CASE Commands(c)
    <3>1. Running(e)' => Running(e)
      BY <2>2 DEF Commands, Running, TypeOK
    <3>2. PICK op, id : Sends(c, op, id)
      BY <2>2 DEF Commands
    <3>3. ExitIn(net', e) => ExitIn(net, e) \/ e = c
      BY <1>0, <3>2 DEF Sends, ExitIn
    <3>4. Running(c)
      BY <2>2 DEF Commands
    <3> QED
      BY <1>1, <2>0, <3>1, <3>3, <3>4 DEF HoldsOn
  <2>3. CASE Silent(c)
    <3>1. net' = net /\ (Running(e)' => Running(e))
      BY <2>3 DEF Silent, Running, TypeOK
    <3> QED
      BY <1>1, <2>0, <3>1 DEF HoldsOn
  <2> QED
    BY <2>1, <2>2, <2>3
<1>2. \A x : Open(x) <=> Open(x)'
  BY <1>0 DEF Open
<1> QED
  BY <1>0, <1>1, <1>2, OwnedFewer

LEMMA OwnedKept == TypeOK /\ Senders /\ Owned /\ [Next]_vars => Owned'
<1> SUFFICES ASSUME TypeOK, Senders, Owned, [Next]_vars PROVE Owned'
  OBVIOUS
<1>1. CASE Serve
  BY <1>1, ServeOwned
<1>2. CASE ServerExit \/ Crash
  <2>1. /\ net' = << >> /\ unknown' = {c \in Client : Running(c)} /\ state' = state
    BY <1>2 DEF ServerExit, Crash, End, cliVars
  <2>2. \A c \in Client : ~HoldsOn(c)'
    BY <2>1 DEF HoldsOn, ExitIn, Running
  <2> QED
    BY <2>2 DEF Owned
<1>3. CASE ServerStart
  BY <1>3 DEF ServerStart, Owned, HoldsOn, Running, Open, cliVars, ghosts
<1>4. ASSUME NEW c \in Client, Start(c) \/ Select(c) \/ ReadReply(c) \/ Type(c) \/ Kill(c)
      PROVE  Owned'
  BY <1>4, ClientSteps, ClientOwned
<1>5. CASE UNCHANGED vars
  BY <1>5 DEF Owned, HoldsOn, Running, Open, vars, srvVars, cliVars, ghosts
<1> QED
  BY <1>1, <1>2, <1>3, <1>4, <1>5 DEF Next

\* However many clients are started with one id, at most one of those that the server let in
\* and that are running holds it, until an exit of another has freed it.
THEOREM AtMostOneHolder == Spec => []OneHolder
<1>1. Init => Senders /\ Owned
  BY DEF Init, Senders, Owned, HoldsOn
<1> QED
  BY <1>1, InitTyped, NextTyped, SendersKept, OwnedKept, OwnedHolds, PTL DEF Spec
=============================================================================
