----------------------------- MODULE HttpProofs -----------------------------
(***************************************************************************)
(* Proofs about the library client: its connections, how it reads a reply, *)
(* what it says of one, and whose session its requests carry.              *)
(***************************************************************************)
EXTENDS HttpSession, TLAPS

\* The steps that end a command.
Finishes == Login \/ EnterLibrary \/ Get \/ Change \/ Logout

\* How they leave the connection, and what is printed.
Ends == /\ \/ (\E next \in {"prompt", "crash"} : Closed(next)) /\ UNCHANGED cookieless
           \/ Left("prompt") /\ cookieless' = cookieless + 1
        /\ \/ UNCHANGED verdict
           \/ Error /\ Say("failure")
           \/ ~Error /\ Say("success")

LEMMA FinishEnds == Finishes => Received /\ Ends /\ UNCHANGED <<server, typed, loggedOut>>
<1> SUFFICES ASSUME Finishes PROVE Received /\ Ends /\ UNCHANGED <<server, typed, loggedOut>>
  OBVIOUS
<1>1. CASE Login
  BY <1>1 DEF Login, LoggedIn, NoCookie, Ends
<1>2. CASE EnterLibrary
  BY <1>2 DEF EnterLibrary, Ends
<1>3. CASE Get
  BY <1>3 DEF Get, Ends
<1>4. CASE Change
  BY <1>4 DEF Change, Report, Ends
<1>5. CASE Logout
  BY <1>5 DEF Logout, Report, Ends
<1> QED
  BY <1>1, <1>2, <1>3, <1>4, <1>5 DEF Finishes

-----------------------------------------------------------------------------
(* Reading a reply. *)

Reading == have \in Nat /\ arrived \in 0 .. Parts /\ have <= arrived

LEMMA ReadingKept == Reading /\ [Next]_vars => Reading'
<1> SUFFICES ASSUME Reading, [Next]_vars PROVE Reading'
  OBVIOUS
<1>1. CASE UNCHANGED <<have, arrived>>
  BY <1>1 DEF Reading
<1>2. CASE Forget
  BY <1>2 DEF Forget, Reading, Parts
<1>3. CASE Read
  BY <1>3 DEF Read, Reading, connection, Parts
<1>4. CASE Deliver
  BY <1>4 DEF Deliver, Reading, Parts
<1>5. CASE Finishes
  BY <1>2, <1>5, FinishEnds DEF Ends, Closed, Left
<1>6. CASE \E c \in Command : Type(c)
  BY <1>1, <1>6 DEF Type, connection
<1>7. CASE Exit \/ Fail
  BY <1>1, <1>2, <1>7 DEF Exit, Fail, connection
<1>8. CASE Handle \/ HangUp \/ Expire
  BY <1>1, <1>8 DEF Handle, HangUp, Expire, connection
<1>9. CASE UNCHANGED vars
  BY <1>1, <1>9 DEF vars, connection
<1> QED
  BY <1>3, <1>4, <1>5, <1>6, <1>7, <1>8, <1>9 DEF Next, Client, Server, Finishes

\* What is worked on is all of the reply, unless the server cut it short; it looks for an error
\* in all of it, never in a reply that was cut.
LEMMA ReceivedWhole ==
  ASSUME Reading, Received
  PROVE  /\ ~(closed /\ arrived < Parts) => have = Parts
         /\ have = Parts => ~(closed /\ arrived < Parts)
  BY DEF Reading, Received, Enough, Parts, Terminator

-----------------------------------------------------------------------------
(* What is printed. *)

LEMMA VerdictKept == Reading /\ VerdictIsTrue /\ [Next]_vars => VerdictIsTrue'
<1> SUFFICES ASSUME Reading, VerdictIsTrue, [Next]_vars PROVE VerdictIsTrue'
  OBVIOUS
<1>1. CASE UNCHANGED verdict
  BY <1>1 DEF VerdictIsTrue
<1>2. CASE Finishes
  <2>0. /\ ~(closed /\ arrived < Parts) => have = Parts
        /\ have = Parts => ~(closed /\ arrived < Parts)
    BY <1>2, FinishEnds, ReceivedWhole
  <2>1. CASE Error /\ Say("failure")
    BY ONLY <2>0, <2>1, Zenon DEF Error, Say, VerdictIsTrue
  <2>2. CASE ~Error /\ Say("success")
    BY ONLY <2>0, <2>2, Zenon DEF Error, Say, VerdictIsTrue
  <2> QED
    BY <1>1, <1>2, <2>1, <2>2, FinishEnds DEF Ends
<1>3. CASE \E c \in Command : Type(c)
  BY <1>3 DEF Type, NoVerdict, VerdictIsTrue
<1>4. CASE Read \/ Exit \/ Fail
  BY <1>1, <1>4 DEF Read, Exit, Fail
<1>5. CASE Server
  BY <1>1, <1>5 DEF Server, Handle, Deliver, HangUp, Expire
<1>6. CASE UNCHANGED vars
  BY <1>1, <1>6 DEF vars
<1> QED
  BY <1>2, <1>3, <1>4, <1>5, <1>6 DEF Next, Client, Finishes

\* What the client prints is what the server did, in whatever parts the reply came, unless the
\* server closed before the end of it or a book has "error" in its text.
THEOREM VerdictsAreTrue == Spec => []VerdictIsTrue
<1>1. Init => Reading /\ VerdictIsTrue
  BY DEF Init, Reading, Parts, NoVerdict, VerdictIsTrue
<1> QED
  BY <1>1, ReadingKept, VerdictKept, PTL DEF Spec

-----------------------------------------------------------------------------
(* Connections. *)

Counted == fds \in Int /\ cookieless \in Int /\ OpenConnections

LEMMA CountedKept == Counted /\ [Next]_vars => Counted'
<1> SUFFICES ASSUME Counted, [Next]_vars PROVE Counted'
  OBVIOUS
<1>1. CASE UNCHANGED <<pc, fds, cookieless>>
  BY <1>1 DEF Counted, OpenConnections
<1>2. CASE Finishes
  <2>1. pc = "reading"
    BY <1>2, FinishEnds DEF Received
  <2>2. CASE (\E next \in {"prompt", "crash"} : Closed(next)) /\ UNCHANGED cookieless
    BY <2>1, <2>2 DEF Closed, Counted, OpenConnections
  <2>3. CASE Left("prompt") /\ cookieless' = cookieless + 1
    BY <2>1, <2>3 DEF Left, Counted, OpenConnections
  <2> QED
    BY <1>2, <2>2, <2>3, FinishEnds DEF Ends
<1>3. CASE \E c \in Command : Type(c)
  BY <1>3 DEF Type, Counted, OpenConnections
<1>4. CASE Exit \/ Fail
  BY <1>4 DEF Exit, Fail, Counted, OpenConnections
<1>5. CASE Read
  BY <1>1, <1>5 DEF Read
<1>6. CASE Server
  BY <1>1, <1>6 DEF Server, Handle, Deliver, HangUp, Expire
<1>7. CASE UNCHANGED vars
  BY <1>1, <1>7 DEF vars
<1> QED
  BY <1>2, <1>3, <1>4, <1>5, <1>6, <1>7 DEF Next, Client, Finishes

\* Of the connections that are opened one by one, those of the logins that were answered
\* with neither an error nor a cookie stay open (client.c:75-76), and no other.
THEOREM OthersAreClosed == Spec => []OpenConnections
<1>1. Init => Counted
  BY DEF Init, Counted, OpenConnections
<1>2. Counted => OpenConnections
  BY DEF Counted
<1> QED
  BY <1>1, <1>2, CountedKept, PTL DEF Spec

-----------------------------------------------------------------------------
(* Whose session a request carries. *)

Ops == {"register", "login", "enter_library", "get_books", "logout", "get_book", "delete_book",
        "add_book"}

\* A session the server has made and the user has not logged out of.
Own(session) == session \in 1 .. issued /\ session \notin loggedOut

Leaving == pc = "reading" /\ cmd.op = "logout"

\* What the flags, the reply and the sets have to do with each other.
Flags == loggedIn \in BOOLEAN /\ jwtAccess \in BOOLEAN /\ (jwtAccess => loggedIn)
Held == /\ loggedIn => cookie \in 1 .. issued
        /\ jwtAccess => jwt \in 1 .. issued
        /\ pc \in {"prompt", "reading"} /\ ~Leaving =>
             (loggedIn => Own(cookie)) /\ (jwtAccess => Own(jwt))
Asked == pc = "reading" => /\ cmd.op \in Ops
                           /\ cmd.op \notin {"register", "login"} => loggedIn
                           /\ cmd.op \notin {"register", "login", "enter_library"} => jwtAccess
Offered == pc = "reading" /\ reply.session # None => Own(reply.session) /\ cmd.op # "logout"
Promised == pc = "reading" /\ cmd.op = "enter_library" /\ reply.did => reply.session # None
Fresh == pc = "prompt" => reply = NoReply
Issued == issued \in Nat /\ loggedOut \subseteq 1 .. issued

LEMMA CommandOp == ASSUME NEW c \in Command PROVE c.op \in Ops
  BY DEF Command, Ops

IInv == Flags /\ Held /\ Asked /\ Offered /\ Promised /\ Fresh /\ Issued

\* What the server may answer with.
LEMMA HandleGives ==
  ASSUME Handle, cmd.op \in Ops
  PROVE  \/ cmd.op = "login" /\ issued' = issued + 1 /\ reply'.session = issued'
         \/ /\ issued' = issued /\ reply'.session = None
            /\ cmd.op = "enter_library" => ~reply'.did
         \/ issued' = issued /\ cmd.op = "enter_library" /\ reply'.session = cookie
<1>1. CASE ~CanDo
  <2>1. Answer(FALSE, None, FALSE, FALSE) /\ UNCHANGED server
    BY <1>1 DEF Handle
  <2> QED
    BY <2>1 DEF Answer, server
<1>2. CASE CanDo
  <2>1. CASE cmd.op = "register"
    <3>1. Answer(TRUE, None, FALSE, FALSE) /\ UNCHANGED issued
      BY <1>2, <2>1 DEF Handle
    <3> QED
      BY <2>1, <3>1 DEF Answer
  <2>2. CASE cmd.op = "login"
    <3>1. Answer(TRUE, issued', FALSE, FALSE) /\ issued' = issued + 1
      BY <1>2, <2>2 DEF Handle
    <3> QED
      BY <2>2, <3>1 DEF Answer
  <2>3. CASE cmd.op = "enter_library"
    <3>1. Answer(TRUE, cookie, FALSE, FALSE) /\ UNCHANGED issued
      BY <1>2, <2>3 DEF Handle, server
    <3> QED
      BY <2>3, <3>1 DEF Answer
  <2>4. CASE cmd.op \in {"get_books", "get_book"}
    <3>1. (\E tricky, empty : Answer(TRUE, None, tricky, empty)) /\ UNCHANGED issued
      BY <1>2, <2>4 DEF Handle, server
    <3> QED
      BY <2>4, <3>1 DEF Answer
  <2>5. CASE cmd.op \in {"add_book", "delete_book", "logout"}
    <3>1. Answer(TRUE, None, FALSE, FALSE) /\ UNCHANGED issued
      BY <1>2, <2>5 DEF Handle
    <3> QED
      BY <2>5, <3>1 DEF Answer
  <2> QED
    BY <2>1, <2>2, <2>3, <2>4, <2>5 DEF Ops
<1> QED
  BY <1>1, <1>2

LEMMA HandleOwn == ASSUME IInv, Handle PROVE IInv'
<1>1. /\ pc = "reading" /\ UNCHANGED <<pc, cmd, login, loggedOut>> /\ cmd.op \in Ops
      /\ issued \in Nat
  BY DEF Handle, IInv, Asked, Issued
<1>2. Flags' /\ Asked' /\ Fresh'
  BY <1>1 DEF IInv, Flags, Asked, Fresh, login
<1>3. issued' \in Nat /\ issued <= issued'
  BY <1>1, HandleGives
<1>4. 1 .. issued \subseteq 1 .. issued'
  BY <1>1, <1>3
<1>5. Issued' /\ Held'
  BY <1>1, <1>3, <1>4, Zenon DEF IInv, Issued, Held, Own, Leaving, login
<1>6. ASSUME cmd.op = "login", issued' = issued + 1, reply'.session = issued'
      PROVE  Offered' /\ Promised'
  <2>1. issued' \in 1 .. issued' /\ issued' \notin loggedOut
    BY <1>1, <1>6 DEF IInv, Issued
  <2> QED
    BY <1>1, <1>6, <2>1 DEF Offered, Promised, Own
<1>7. ASSUME reply'.session = None, cmd.op = "enter_library" => ~reply'.did
      PROVE  Offered' /\ Promised'
  BY <1>1, <1>7 DEF Offered, Promised
<1>8. ASSUME issued' = issued, cmd.op = "enter_library", reply'.session = cookie
      PROVE  Offered' /\ Promised'
  <2>1. Own(cookie) /\ cookie # None
    BY <1>1, <1>8 DEF IInv, Asked, Held, Leaving, Own, None, Flags
  <2>2. reply'.session \in 1 .. issued' /\ reply'.session \notin loggedOut' /\ reply'.session # None
    BY <1>1, <1>8, <2>1 DEF Own
  <2> QED
    BY <1>1, <1>8, <2>2 DEF Offered, Promised, Own
<1> QED
  BY <1>1, <1>2, <1>5, <1>6, <1>7, <1>8, HandleGives DEF IInv

\* A step that leaves alone what the invariant is about, or ends the client.
LEMMA Untouched ==
  ASSUME IInv, UNCHANGED <<login, issued, loggedOut>>,
         UNCHANGED <<pc, cmd, reply>> \/ pc' \in {"exit", "crash"}
  PROVE  IInv'
<1>1. CASE UNCHANGED <<pc, cmd, reply>>
  BY <1>1 DEF IInv, Flags, Held, Asked, Offered, Promised, Fresh, Issued, Own, Leaving, login
<1>2. CASE pc' \in {"exit", "crash"}
  BY <1>2 DEF IInv, Flags, Held, Asked, Offered, Promised, Fresh, Issued, login
<1> QED
  BY <1>1, <1>2

LEMMA TypeOwn == ASSUME IInv, NEW c \in Command, Type(c) PROVE IInv'
<1>1. /\ pc = "prompt" /\ pc' = "reading" /\ cmd' = c /\ c.op \in Ops /\ Allowed(c)
      /\ UNCHANGED <<login, issued, connection>>
  BY CommandOp DEF Type, server
<1>2. c.op \notin {"register", "login"} => loggedIn
  BY <1>1 DEF Allowed, Ops
<1>3. c.op \notin {"register", "login", "enter_library"} => jwtAccess
  BY <1>1 DEF Allowed, Ops
<1>4. Flags' /\ Asked' /\ Fresh'
  BY <1>1, <1>2, <1>3 DEF IInv, Flags, Asked, Fresh, login
<1>5. Offered' /\ Promised'
  BY <1>1 DEF IInv, Fresh, NoReply, Offered, Promised, connection
<1>6. Leaving' <=> c.op = "logout"
  BY <1>1 DEF Leaving
<1>7. loggedIn => Own(cookie)
  BY <1>1 DEF IInv, Held, Leaving
<1>8. jwtAccess => Own(jwt)
  BY <1>1 DEF IInv, Held, Leaving
<1>9. CASE c.op = "logout"
  <2>1. loggedIn /\ jwtAccess
    BY <1>2, <1>3, <1>9
  <2>2. loggedOut' = loggedOut \cup {cookie, jwt}
    BY <1>9 DEF Type
  <2>3. Issued'
    BY <1>1, <1>7, <1>8, <2>1, <2>2 DEF IInv, Issued, Own
  <2>4. Held'
    BY <1>1, <1>6, <1>9 DEF IInv, Held, login
  <2> QED
    BY <1>4, <1>5, <2>3, <2>4 DEF IInv
<1>10. CASE c.op # "logout"
  <2>1. loggedOut' = loggedOut
    BY <1>10 DEF Type
  <2>2. Issued' /\ Held'
    BY <1>1, <1>7, <1>8, <2>1 DEF IInv, Issued, Held, Own, login
  <2> QED
    BY <1>4, <1>5, <2>2 DEF IInv
<1> QED
  BY <1>9, <1>10

\* The end of a command, but for what it makes of the session.
LEMMA FinishOwn ==
  ASSUME IInv, Finishes
  PROVE  /\ pc = "reading" /\ pc' \in {"prompt", "crash"} /\ UNCHANGED <<issued, loggedOut>>
         /\ Asked' /\ Offered' /\ Promised' /\ Fresh' /\ Issued' /\ ~Leaving'
<1>1. /\ pc = "reading" /\ pc' \in {"prompt", "crash"} /\ UNCHANGED <<issued, loggedOut>>
      /\ reply' = NoReply
  BY FinishEnds DEF Received, Ends, Closed, Left, Forget, server
<1> QED
  BY <1>1 DEF IInv, Issued, Asked, Offered, Promised, Fresh, Leaving

\* A command that leaves the session alone, other than the logout.
LEMMA SameSession ==
  ASSUME IInv, Finishes, cmd.op # "logout", UNCHANGED login
  PROVE  IInv'
<1>1. /\ pc = "reading" /\ pc' \in {"prompt", "crash"} /\ UNCHANGED <<issued, loggedOut>>
      /\ Asked' /\ Offered' /\ Promised' /\ Fresh' /\ Issued' /\ ~Leaving'
  BY FinishOwn
<1>2. Flags' /\ Held'
  BY <1>1 DEF IInv, Flags, Held, Own, Leaving, login
<1> QED
  BY <1>1, <1>2 DEF IInv

LEMMA LoginOwn == ASSUME IInv, Login PROVE IInv'
<1>1. /\ Finishes /\ pc = "reading" /\ pc' \in {"prompt", "crash"}
      /\ UNCHANGED <<issued, loggedOut>>
      /\ Asked' /\ Offered' /\ Promised' /\ Fresh' /\ Issued' /\ ~Leaving'
  BY FinishOwn DEF Finishes
<1>2. cmd.op = "login" /\ UNCHANGED <<jwtAccess, jwt>>
  BY DEF Login
<1>3. CASE UNCHANGED <<loggedIn, cookie>>
  BY <1>1, <1>2, <1>3, SameSession DEF login
<1>4. CASE reply.session # None /\ loggedIn' = TRUE /\ cookie' = reply.session
  <2>1. Own(reply.session)
    BY <1>1, <1>4 DEF IInv, Offered
  <2>2. Flags'
    BY <1>2, <1>4 DEF IInv, Flags
  <2>3. Held'
    BY <1>1, <1>2, <1>4, <2>1 DEF IInv, Held, Own, Leaving
  <2> QED
    BY <1>1, <2>2, <2>3 DEF IInv
<1> QED
  BY <1>3, <1>4 DEF Login, LoggedIn, NoCookie

LEMMA EnterOwn == ASSUME Reading, IInv, EnterLibrary PROVE IInv'
<1>1. /\ Finishes /\ pc = "reading" /\ pc' \in {"prompt", "crash"}
      /\ UNCHANGED <<issued, loggedOut>>
      /\ Asked' /\ Offered' /\ Promised' /\ Fresh' /\ Issued' /\ ~Leaving'
  BY FinishOwn DEF Finishes
<1>2. cmd.op = "enter_library" /\ UNCHANGED <<loggedIn, cookie>>
  BY DEF EnterLibrary
<1>3. CASE UNCHANGED <<jwtAccess, jwt>>
  BY <1>1, <1>2, <1>3, SameSession DEF login
<1>4. CASE ~Error /\ have = Parts /\ jwtAccess' = TRUE /\ jwt' = reply.session
  <2>1. Own(reply.session) /\ loggedIn
    BY <1>1, <1>2, <1>4 DEF IInv, Offered, Promised, Asked, Error
  <2>2. Flags'
    BY <1>2, <1>4, <2>1 DEF IInv, Flags
  <2>3. Held'
    BY <1>1, <1>2, <1>4, <2>1 DEF IInv, Held, Own, Leaving
  <2> QED
    BY <1>1, <2>2, <2>3 DEF IInv
<1>5. ~Error /\ ~(have < Parts) => jwtAccess' = TRUE /\ jwt' = reply.session
  BY DEF EnterLibrary
<1>6. Error \/ have < Parts => UNCHANGED <<jwtAccess, jwt>>
  BY DEF EnterLibrary
<1>7. have < Parts \/ have = Parts
  BY DEF Reading, Parts
<1> QED
  BY <1>3, <1>4, <1>5, <1>6, <1>7

LEMMA LogoutOwn == ASSUME IInv, Logout PROVE IInv'
<1>1. Asked' /\ Offered' /\ Promised' /\ Fresh' /\ Issued'
  BY FinishOwn DEF Finishes
<1>2. loggedIn' = FALSE /\ jwtAccess' = FALSE
  BY DEF Logout, Out
<1> QED
  BY <1>1, <1>2 DEF IInv, Flags, Held

LEMMA OwnKept == Reading /\ IInv /\ [Next]_vars => IInv'
<1> SUFFICES ASSUME Reading, IInv, [Next]_vars PROVE IInv'
  OBVIOUS
<1>1. CASE \E c \in Command : Type(c)
  BY <1>1, TypeOwn
<1>2. CASE Exit \/ Read \/ Fail
  BY <1>2, Untouched DEF Exit, Read, Fail, server, connection
<1>3. CASE Login
  BY <1>3, LoginOwn
<1>4. CASE EnterLibrary
  BY <1>4, EnterOwn
<1>5. CASE Get \/ Change
  BY <1>5, SameSession DEF Finishes, Get, Change
<1>6. CASE Logout
  BY <1>6, LogoutOwn
<1>7. CASE Handle
  BY <1>7, HandleOwn
<1>8. CASE Deliver \/ HangUp \/ Expire
  BY <1>8, Untouched DEF Deliver, HangUp, Expire, server, connection
<1>9. CASE UNCHANGED vars
  BY <1>9, Untouched DEF vars, server, connection
<1> QED
  BY <1>1, <1>2, <1>3, <1>4, <1>5, <1>6, <1>7, <1>8, <1>9 DEF Next, Client, Server

LEMMA InitOwn == Init => Reading /\ IInv
<1> SUFFICES ASSUME Init PROVE Reading /\ IInv
  OBVIOUS
<1>1. /\ have = 0 /\ arrived = 0 /\ issued = 0 /\ loggedOut = {}
      /\ loggedIn = FALSE /\ jwtAccess = FALSE
  BY DEF Init
<1>2. Reading /\ Issued
  BY <1>1 DEF Reading, Parts, Issued
<1>3. Flags
  BY <1>1 DEF Flags
<1>4. Held /\ Asked /\ Offered /\ Promised /\ Fresh
  BY DEF Init, Held, Asked, Offered, Promised, Fresh
<1> QED
  BY <1>2, <1>3, <1>4 DEF IInv

\* In any order of commands, with a server that may refuse, hang up or forget its sessions, a
\* request carries only a cookie and a token that the server has made, and none of a session
\* the user has logged out of.
THEOREM SessionsAreOwn == Spec => []SessionIsOwn
<1>1. Init => Reading /\ IInv
  BY InitOwn
<1>2. IInv => SessionIsOwn
  <2> SUFFICES ASSUME IInv PROVE SessionIsOwn
    OBVIOUS
  <2>1. SendsCookie => pc = "reading" /\ loggedIn
    BY DEF SendsCookie, IInv, Asked
  <2>2. SendsToken => pc = "reading" /\ loggedIn /\ jwtAccess
    BY DEF SendsToken, SendsCookie, IInv, Asked
  <2> QED
    BY <2>1, <2>2 DEF SessionIsOwn, IInv, Held, Own, Leaving
<1> QED
  BY <1>1, <1>2, ReadingKept, OwnKept, PTL DEF Spec

-----------------------------------------------------------------------------
(* Types. *)

Reply == [did : BOOLEAN, tricky : BOOLEAN, sized : BOOLEAN, session : 0 .. issued, empty : BOOLEAN]
Verdict == [said : {"nothing", "success", "failure"}, did : BOOLEAN, cut : BOOLEAN,
            tricky : BOOLEAN]

\* The types in two halves: what the server and its reply are, and what the client is.
ServerType == /\ issued \in Nat /\ sessions \subseteq 1 .. issued /\ reply \in Reply
              /\ accounts \subseteq User /\ books \subseteq Book
ClientType == /\ pc \in {"prompt", "reading", "exit", "crash"} /\ cmd \in Command \cup {NoCommand}
              /\ loggedIn \in BOOLEAN /\ jwtAccess \in BOOLEAN
              /\ handled \in BOOLEAN /\ closed \in BOOLEAN
              /\ cookie \in 0 .. issued /\ jwt \in 0 .. issued /\ loggedOut \subseteq 0 .. issued
              /\ verdict \in Verdict /\ typed \in 0 .. MaxTyped

\* A reply is built from what the server has.
LEMMA AnswerType ==
  ASSUME ServerType, NEW did \in BOOLEAN, NEW tricky \in BOOLEAN, NEW empty \in BOOLEAN,
         issued' \in Nat, issued <= issued',
         NEW session \in 0 .. issued', NEW sized \in BOOLEAN,
         reply' = [did |-> did, tricky |-> tricky, sized |-> sized,
                   session |-> IF did THEN session ELSE None, empty |-> empty]
  PROVE  reply' \in Reply'
<1>1. None \in 0 .. issued'
  BY DEF None
<1> QED
  BY <1>1 DEF Reply

LEMMA HandleServer == ASSUME ServerType, ClientType, Asked, Handle PROVE ServerType'
<1>0. cmd.op \in Ops /\ pc = "reading" /\ cmd \in Command
  <2>1. pc = "reading" /\ cmd.op \in Ops
    BY DEF Handle, Asked
  <2>2. cmd # NoCommand
    BY <2>1 DEF NoCommand, Ops
  <2> QED
    BY <2>1, <2>2 DEF ClientType
<1>1. CASE UNCHANGED server
  <2>1. PICK did \in BOOLEAN, tricky \in BOOLEAN, empty \in BOOLEAN, sized \in BOOLEAN,
             session \in {None, cookie} :
          reply' = [did |-> did, tricky |-> tricky, sized |-> sized,
                    session |-> IF did THEN session ELSE None, empty |-> empty]
    <3>0. ASSUME NEW did \in BOOLEAN, NEW tricky \in BOOLEAN, NEW empty \in BOOLEAN,
                 NEW session \in {None, cookie}, Answer(did, session, tricky, empty)
          PROVE  \E d \in BOOLEAN, t \in BOOLEAN, e \in BOOLEAN, z \in BOOLEAN, s \in {None, cookie} :
                   reply' = [did |-> d, tricky |-> t, sized |-> z,
                             session |-> IF d THEN s ELSE None, empty |-> e]
      BY ONLY <3>0, Zenon DEF Answer
    <3>1. CASE ~CanDo
      <4>1. Answer(FALSE, None, FALSE, FALSE)
        BY <3>1 DEF Handle
      <4> QED
        BY <3>0, <4>1
    <3>2. CASE CanDo /\ cmd.op = "enter_library"
      <4>1. Answer(TRUE, cookie, FALSE, FALSE)
        BY <3>2 DEF Handle
      <4> QED
        BY <3>0, <4>1
    <3>3. CASE CanDo /\ cmd.op = "get_books"
      <4>1. Answer(TRUE, None, books \cap Tricky # {}, books = {})
        BY <3>3 DEF Handle
      <4> QED
        BY ONLY <3>0, <4>1, Zenon
    <3>4. CASE CanDo /\ cmd.op = "get_book"
      <4>1. CanDo /\ cmd.op = "get_book" => Answer(TRUE, None, cmd.book \in Tricky, FALSE)
        BY DEF Handle
      <4>2. Answer(TRUE, None, cmd.book \in Tricky, FALSE)
        BY ONLY <3>4, <4>1, Zenon
      <4>3. (cmd.book \in Tricky) \in BOOLEAN
        OBVIOUS
      <4> QED
        BY ONLY <3>0, <4>2, <4>3
    <3>5. CASE CanDo /\ cmd.op \in {"register", "add_book", "delete_book", "logout"}
      <4>1. Answer(TRUE, None, FALSE, FALSE)
        BY <3>5 DEF Handle
      <4> QED
        BY <3>0, <4>1
    <3>6. CASE CanDo /\ cmd.op = "login"
      <4>1. issued' = issued + 1
        BY <3>6 DEF Handle
      <4>2. issued' = issued /\ issued \in Nat
        BY <1>1 DEF server, ServerType
      <4> QED
        BY <4>1, <4>2
    <3> QED
      BY <1>0, <3>1, <3>2, <3>3, <3>4, <3>5, <3>6 DEF Ops
  <2>2. session \in 0 .. issued' /\ issued' \in Nat /\ issued <= issued'
    BY <1>1 DEF ClientType, ServerType, None, server
  <2>3. reply' \in Reply'
    BY <2>1, <2>2, AnswerType
  <2> QED
    BY <1>1, <2>3 DEF ServerType, server
<1>2. CASE cmd.op = "login" /\ CanDo
  <2>1. /\ issued' = issued + 1 /\ sessions' = sessions \cup {issued'}
        /\ UNCHANGED <<accounts, books>> /\ Answer(TRUE, issued', FALSE, FALSE)
    BY <1>2 DEF Handle
  <2>2. issued' \in Nat /\ issued <= issued' /\ issued' \in 0 .. issued'
    BY <2>1 DEF ServerType
  <2>3. reply' \in Reply'
    BY <2>1, <2>2, AnswerType DEF Answer
  <2>4. sessions' \subseteq 1 .. issued'
    BY <2>1, <2>2 DEF ServerType
  <2> QED
    BY <2>1, <2>2, <2>3, <2>4 DEF ServerType
<1>3. CASE CanDo /\ cmd.op \in {"register", "add_book", "delete_book", "logout"}
  <2>1. Answer(TRUE, None, FALSE, FALSE) /\ issued' = issued
    BY <1>3 DEF Handle
  <2>2. reply' \in Reply'
    <3>1. issued' \in Nat /\ issued <= issued' /\ None \in 0 .. issued'
      BY <2>1 DEF ServerType, None
    <3> QED
      BY <2>1, <3>1, AnswerType DEF Answer
  <2>3. sessions' \subseteq sessions
    BY <1>3 DEF Handle
  <2>4. accounts' \subseteq User
    <3>1. cmd.op = "register" => cmd.user \in User
      BY <1>0 DEF Command
    <3> QED
      BY <1>3, <3>1 DEF Handle, ServerType
  <2>5. books' \subseteq Book
    <3>1. cmd.op = "add_book" => cmd.book \in Book
      BY <1>0 DEF Command
    <3> QED
      BY <1>3, <3>1 DEF Handle, ServerType
  <2> QED
    BY <2>1, <2>2, <2>3, <2>4, <2>5 DEF ServerType
<1>4. CASE ~CanDo \/ cmd.op \in {"enter_library", "get_books", "get_book"}
  BY <1>1, <1>4 DEF Handle
<1> QED
  BY <1>0, <1>2, <1>3, <1>4 DEF Ops

\* The client's part: commands, and what they make of a reply.
LEMMA SayType == ASSUME ServerType, NEW said \in {"nothing", "success", "failure"}, Say(said)
                 PROVE  verdict' \in Verdict
  BY Zenon DEF Say, Verdict, ServerType, Reply

LEMMA FinishTypes ==
  ASSUME ServerType, ClientType, Reading, Finishes
  PROVE  ServerType' /\ ClientType'
<1>1. /\ UNCHANGED <<issued, sessions, accounts, books, typed, loggedOut>> /\ cmd' = NoCommand
      /\ handled' = FALSE /\ closed' = FALSE /\ reply' = NoReply /\ pc' \in {"prompt", "crash"}
  BY FinishEnds DEF Ends, Closed, Left, Forget, server
<1>2. ServerType'
  <2>1. NoReply \in Reply
    BY DEF NoReply, Reply, None, ServerType
  <2>2. Reply' = Reply
    BY <1>1 DEF Reply
  <2> QED
    BY <1>1, <2>1, <2>2 DEF ServerType
<1>3. verdict' \in Verdict
  <2>1. CASE UNCHANGED verdict
    BY <2>1 DEF ClientType
  <2>2. CASE \E said \in {"success", "failure"} : Say(said)
    BY <2>2, SayType
  <2> QED
    BY <2>1, <2>2, FinishEnds DEF Ends
<1>4. reply.session \in 0 .. issued
  BY DEF ServerType, Reply
<1>5. /\ loggedIn' \in BOOLEAN /\ jwtAccess' \in BOOLEAN
      /\ cookie' \in 0 .. issued /\ jwt' \in 0 .. issued
  <2>1. CASE Login
    BY <1>4, <2>1 DEF Login, LoggedIn, NoCookie, ClientType
  <2>2. CASE EnterLibrary
    BY <1>4, <2>2 DEF EnterLibrary, ClientType
  <2>3. CASE Get \/ Change
    BY <2>3 DEF Get, Change, ClientType, login
  <2>4. CASE Logout
    BY <2>4 DEF Logout, Out, ClientType
  <2> QED
    BY <2>1, <2>2, <2>3, <2>4 DEF Finishes
<1> QED
  BY <1>1, <1>2, <1>3, <1>5 DEF ClientType

LEMMA TypesStep ==
  ServerType /\ ClientType /\ Reading /\ Asked /\ [Next]_vars => ServerType' /\ ClientType'
<1> SUFFICES ASSUME ServerType, ClientType, Reading, Asked, [Next]_vars PROVE ServerType' /\ ClientType'
  OBVIOUS
<1>1. ASSUME UNCHANGED server, UNCHANGED reply PROVE ServerType'
  BY <1>1 DEF ServerType, Reply, server
<1>2. CASE \E c \in Command : Type(c)
  <2>1. PICK c \in Command : Type(c)
    BY <1>2
  <2>2. ServerType'
    BY <1>1, <2>1 DEF Type, connection
  <2>3. typed' \in 0 .. MaxTyped
    BY <2>1, HttpAssumption DEF Type, ClientType, HttpAssumption
  <2>4. verdict' \in Verdict
    BY <2>1 DEF Type, NoVerdict, Verdict
  <2>5. loggedOut' \subseteq 0 .. issued
    BY <2>1 DEF Type, ClientType
  <2> QED
    BY <2>1, <2>2, <2>3, <2>4, <2>5 DEF Type, ClientType, login, connection, server
<1>3. CASE Read \/ Exit
  BY <1>1, <1>3 DEF Read, Exit, ClientType, login, connection, server
<1>4. CASE Fail
  <2>1. NoReply \in Reply
    BY DEF NoReply, Reply, None, ServerType
  <2> QED
    BY <1>4, <2>1 DEF Fail, Forget, ServerType, Reply, ClientType, login, server
<1>5. CASE Finishes
  BY <1>5, FinishTypes
<1>6. CASE Handle
  <2>1. ServerType'
    BY <1>6, HandleServer
  <2>2. issued' \in Nat /\ issued \in Nat /\ issued <= issued'
    <3>1. cmd.op \in Ops
      BY <1>6 DEF Asked, Handle
    <3>2. issued' = issued \/ issued' = issued + 1
      BY ONLY <1>6, <3>1, HandleGives
    <3>3. issued \in Nat
      BY DEF ServerType
    <3> QED
      BY ONLY <3>2, <3>3
  <2>3. 0 .. issued \subseteq 0 .. issued'
    BY <2>2
  <2>4. /\ UNCHANGED <<pc, cmd, loggedIn, jwtAccess, cookie, jwt, loggedOut, typed, verdict, closed>>
        /\ handled' = TRUE
    BY <1>6 DEF Handle, login
  <2>5. cookie \in 0 .. issued' /\ jwt \in 0 .. issued' /\ loggedOut \subseteq 0 .. issued'
    BY <2>3 DEF ClientType
  <2>6. Verdict' = Verdict
    BY DEF Verdict
  <2>7. verdict' \in Verdict'
    BY ONLY <2>4, <2>6, ClientType DEF ClientType
  <2>8. /\ pc' \in {"prompt", "reading", "exit", "crash"} /\ cmd' \in Command \cup {NoCommand}
        /\ loggedIn' \in BOOLEAN /\ jwtAccess' \in BOOLEAN
        /\ closed' \in BOOLEAN /\ typed' \in 0 .. MaxTyped
    BY <2>4 DEF ClientType
  <2>9. handled' \in BOOLEAN
    BY <2>4
  <2>10. cookie' \in 0 .. issued' /\ jwt' \in 0 .. issued' /\ loggedOut' \subseteq 0 .. issued'
    BY ONLY <2>4, <2>5, Zenon
  <2> QED
    BY ONLY <2>1, <2>7, <2>8, <2>9, <2>10 DEF ClientType
<1>7. CASE Deliver \/ HangUp
  BY <1>1, <1>7 DEF Deliver, HangUp, ClientType, login, server
<1>8. CASE Expire
  BY <1>8 DEF Expire, ServerType, Reply, ClientType, login, connection
<1>9. CASE UNCHANGED vars
  BY <1>1, <1>9 DEF vars, ClientType, login, connection, server
<1> QED
  BY <1>2, <1>3, <1>4, <1>5, <1>6, <1>7, <1>8, <1>9 DEF Next, Client, Server, Finishes

\* The client's and the server's data keep their types, and every session the client holds or
\* has logged out of is one that the server has issued.
THEOREM TypesKept == Spec => []TypeOK
<1>1. Init => Reading /\ Counted /\ IInv /\ ServerType /\ ClientType
  <2> SUFFICES ASSUME Init PROVE Reading /\ Counted /\ IInv /\ ServerType /\ ClientType
    OBVIOUS
  <2>1. Reading /\ Counted /\ IInv
    BY InitOwn DEF Init, Counted, OpenConnections
  <2>2. ServerType
    BY DEF Init, ServerType, Reply, NoReply, None
  <2>3. ClientType
    <3>1. typed \in 0 .. MaxTyped /\ issued = 0 /\ cookie = 0 /\ jwt = 0 /\ loggedOut = {}
      BY HttpAssumption DEF Init, None, HttpAssumption
    <3>2. cookie \in 0 .. issued /\ jwt \in 0 .. issued /\ loggedOut \subseteq 0 .. issued
      BY ONLY <3>1
    <3>3. verdict \in Verdict
      BY DEF Init, NoVerdict, Verdict
    <3>4. /\ pc \in {"prompt", "reading", "exit", "crash"} /\ cmd \in Command \cup {NoCommand}
          /\ loggedIn \in BOOLEAN /\ jwtAccess \in BOOLEAN
          /\ handled \in BOOLEAN /\ closed \in BOOLEAN
      BY Zenon DEF Init
    <3> QED
      BY ONLY <3>1, <3>2, <3>3, <3>4 DEF ClientType
  <2> QED
    BY <2>1, <2>2, <2>3
<1>2. Reading /\ Counted /\ ServerType /\ ClientType => TypeOK
  <2> SUFFICES ASSUME Reading, Counted, ServerType, ClientType PROVE TypeOK
    OBVIOUS
  <2>1. {have, arrived} \subseteq 0 .. Parts /\ {fds, cookieless} \subseteq Int
    BY DEF Reading, Counted, Parts
  <2> QED
    BY <2>1 DEF TypeOK, ServerType, ClientType, Reply, Verdict
<1>3. IInv => Asked
  BY DEF IInv
<1> QED
  BY <1>1, <1>2, <1>3, ReadingKept, CountedKept, OwnKept, TypesStep, PTL DEF Spec
=============================================================================
