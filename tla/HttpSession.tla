----------------------------- MODULE HttpSession -----------------------------
(***************************************************************************)
(* The library client of Tema3 (client.c, helpers.c, buffer.c) and, as far *)
(* as the client can tell, the server it talks to.  Each command typed is  *)
(* one request on a connection of its own; the reply comes in parts, and   *)
(* the server may close the connection at any time.                        *)
(*                                                                         *)
(* A reply has four parts: the lines up to the cookie, those from "Date:"  *)
(* to the first half of the header's terminator, the other half, the body. *)
(* A cookie and a token are the session the server made them for.          *)
(***************************************************************************)
EXTENDS Integers

CONSTANTS
  User,
  Book, Tricky,       \* books, and those of them with the word "error" in their text
  Pages,              \* page counts as typed: characters, and digits of their number
  MaxTyped            \* bound: commands typed

ASSUME HttpAssumption == /\ Tricky \subseteq Book /\ Pages \subseteq [chars : Nat, digits : Nat]
                         /\ MaxTyped \in Nat

VARIABLES
  pc,                 \* "prompt", "reading", "exit" or "crash"
  cmd,                \* the command that is being carried out
  loggedIn, jwtAccess,
  cookie, jwt,
  fds,                \* number of open descriptors
  have,               \* parts of the reply in the client's buffer
  handled,            \* the server has handled the request
  reply, arrived,     \* its reply, and how many parts of that have arrived
  closed,             \* the server has closed the connection
  accounts, sessions, issued, books,  \* the server's data
  typed,              \* number of commands typed
  verdict,            \* what was printed for the last command, and what was true
  cookieless,         \* number of logins answered with neither "error" nor a cookie
  loggedOut           \* sessions whose cookie or token a logout was sent with

None == 0
login == <<loggedIn, jwtAccess, cookie, jwt>>
connection == <<handled, reply, arrived, closed>>
server == <<accounts, sessions, issued, books>>
vars == <<pc, cmd, login, fds, have, connection, server, typed, verdict, cookieless, loggedOut>>

Parts == 4
Date == 2
Terminator == 3

Command ==
  [op : {"register"}, user : User] \cup [op : {"login"}, user : User, right : BOOLEAN]
    \cup [op : {"enter_library", "get_books", "logout"}]
    \cup [op : {"get_book", "delete_book"}, book : Book]
    \cup [op : {"add_book"}, book : Book, pages : Pages]

NoCommand == [op |-> "none"]

\* did: the server has done what was asked; cut: it closed before it had answered; tricky: the list of books has the word "error";
\* sized: there is a Content-Length; session: of the cookie or token in it; empty: no book.
NoReply == [did |-> FALSE, tricky |-> FALSE, sized |-> FALSE, session |-> None, empty |-> FALSE]
NoVerdict == [said |-> "nothing", did |-> FALSE, cut |-> FALSE, tricky |-> FALSE]

Init == /\ pc = "prompt" /\ cmd = NoCommand
        /\ loggedIn = FALSE /\ jwtAccess = FALSE /\ cookie = None /\ jwt = None
        /\ fds = 0 /\ have = 0
        /\ handled = FALSE /\ reply = NoReply /\ arrived = 0 /\ closed = FALSE
        /\ accounts \in SUBSET User /\ sessions = {} /\ issued = 0 /\ books \in SUBSET Book
        /\ typed = 0 /\ verdict = NoVerdict /\ cookieless = 0 /\ loggedOut = {}

-----------------------------------------------------------------------------
(* The client: a command, its request, its reply. *)

\* What a command needs to be sent; otherwise a line is printed, and nothing else done.
Allowed(c) == CASE c.op \in {"register", "login"} -> TRUE
                [] c.op = "enter_library" -> loggedIn
                [] OTHER -> loggedIn /\ jwtAccess

Type(c) == /\ pc = "prompt" /\ typed < MaxTyped
           /\ Allowed(c)
           /\ typed' = typed + 1
           /\ cmd' = c /\ pc' = "reading" /\ fds' = fds + 1 /\ verdict' = NoVerdict
           /\ loggedOut' = IF c.op = "logout" THEN loggedOut \cup {cookie, jwt} ELSE loggedOut
           /\ UNCHANGED <<login, have, connection, server, cookieless>>

Exit == /\ pc = "prompt" /\ pc' = "exit" /\ fds' = 0
        /\ UNCHANGED <<cmd, login, have, connection, server, typed, verdict, cookieless, loggedOut>>

\* receive_from_server: first up to the end of the header, which is looked for in all that was
\* read, then, if the length of the body is known, up to the end of that; else up to the end.
UntilClosed(n) == FALSE
BodyOnly(n) == n >= Terminator /\ reply.sized /\ n >= Parts - Terminator
Enough(n) == n >= Terminator /\ reply.sized /\ n >= Parts

Read == /\ pc = "reading" /\ ~Enough(have) /\ have < arrived
        /\ have' = arrived
        /\ UNCHANGED <<pc, cmd, login, fds, connection, server, typed, verdict, cookieless, loggedOut>>

Received == pc = "reading" /\ (Enough(have) \/ (closed /\ have = arrived))

\* strstr(response, "error"): a refusal has that word in its body.
Error == (~reply.did \/ reply.tricky) /\ have = Parts
Say(said) == verdict' = [said |-> said, did |-> reply.did, cut |-> closed /\ arrived < Parts,
                         tricky |-> reply.tricky]

\* Nothing of the connection is looked at after its command.
Forget == cmd' = NoCommand /\ have' = 0 /\ handled' = FALSE /\ reply' = NoReply /\ arrived' = 0 /\ closed' = FALSE
Left(next) == pc' = next /\ fds' = (IF next = "crash" THEN 0 ELSE fds) /\ Forget
Closed(next) == pc' = next /\ fds' = (IF next = "crash" THEN 0 ELSE fds - 1) /\ Forget

\* The cookie is cut off before the line that begins with "Date:".
LoggedIn == /\ reply.session # None /\ have >= 1
            /\ IF have < Date
                 THEN Closed("crash") /\ UNCHANGED <<verdict, loggedIn, cookie>>
                 ELSE /\ Say("success") /\ Closed("prompt")
                      /\ loggedIn' = TRUE /\ cookie' = reply.session
            /\ UNCHANGED cookieless

NoCookie == /\ reply.session = None \/ have = 0
            /\ Left("prompt")
            /\ cookieless' = cookieless + 1
            /\ UNCHANGED <<verdict, loggedIn, cookie>>

LoginForgetsToClose ==
  /\ Received /\ cmd.op = "login"
  /\ IF Error THEN Say("failure") /\ Left("prompt") /\ UNCHANGED <<loggedIn, cookie, cookieless>>
     ELSE LoggedIn \/ NoCookie
  /\ UNCHANGED <<jwtAccess, jwt, server, typed, loggedOut>>
Login ==
  /\ Received /\ cmd.op = "login"
  /\ IF Error THEN Say("failure") /\ Closed("prompt") /\ UNCHANGED <<loggedIn, cookie, cookieless>>
     ELSE LoggedIn \/ NoCookie
  /\ UNCHANGED <<jwtAccess, jwt, server, typed, loggedOut>>

\* The token is cut off before the end of the body.
EnterLibrary ==
  /\ Received /\ cmd.op = "enter_library"
  /\ IF Error THEN Say("failure") /\ Closed("prompt") /\ UNCHANGED <<jwtAccess, jwt>>
     ELSE IF have < Parts THEN Closed("crash") /\ UNCHANGED <<verdict, jwtAccess, jwt>>
     ELSE Say("success") /\ Closed("prompt") /\ jwtAccess' = TRUE /\ jwt' = reply.session
  /\ UNCHANGED <<loggedIn, cookie, server, typed, cookieless, loggedOut>>

\* Without a list of books in the reply a null pointer is printed.
Get ==
  /\ Received /\ cmd.op \in {"get_books", "get_book"}
  /\ IF Error THEN Say("failure") /\ Closed("prompt")
     ELSE IF have < Parts \/ reply.empty
       THEN UNCHANGED verdict /\ (Closed("crash") \/ Closed("prompt"))
     ELSE Say("success") /\ Closed("prompt")
  /\ UNCHANGED <<login, server, typed, cookieless, loggedOut>>

\* register, add_book, delete_book: what is not an error is a success.
Report == Say(IF Error THEN "failure" ELSE "success")
Change ==
  /\ Received /\ cmd.op \in {"register", "add_book", "delete_book"}
  /\ Report /\ Closed("prompt")
  /\ UNCHANGED <<login, server, typed, cookieless, loggedOut>>

\* Whatever the server says, the client has no session after it.
HalfOut == loggedIn' = FALSE /\ UNCHANGED jwtAccess
Out == loggedIn' = FALSE /\ jwtAccess' = FALSE
Logout ==
  /\ Received /\ cmd.op = "logout"
  /\ Report /\ Closed("prompt")
  /\ Out
  /\ UNCHANGED <<cookie, jwt, server, typed, cookieless, loggedOut>>

\* error: a connection that was reset ends the client.
Fail == /\ pc = "reading" /\ closed
        /\ pc' = "exit" /\ fds' = 0 /\ Forget
        /\ UNCHANGED <<login, server, typed, verdict, cookieless, loggedOut>>

Client == \/ \E c \in Command : Type(c)
          \/ Exit \/ Read \/ Login \/ EnterLibrary \/ Get \/ Change \/ Logout \/ Fail

-----------------------------------------------------------------------------
(* The server, as the client uses it. *)

\* Content-Length counts the characters typed for the page count, the body has its number.
Declared(c) == IF c.op = "add_book" THEN c.pages.chars ELSE 0
Written(c) == IF c.op = "add_book" THEN c.pages.digits ELSE 0
Incomplete(c) == Declared(c) > Written(c)

Answer(did, session, tricky, empty) ==
  \E sized \in BOOLEAN :
    reply' = [did |-> did, tricky |-> tricky, sized |-> sized,
              session |-> IF did THEN session ELSE None, empty |-> empty]

\* The library is open to a token whose session the server still has.
InLibrary == jwt \in sessions
CanDo == CASE cmd.op = "register" -> cmd.user \notin accounts
           [] cmd.op = "login" -> cmd.user \in accounts /\ cmd.right
           [] cmd.op = "enter_library" -> cookie \in sessions
           [] cmd.op = "logout" -> cookie \in sessions
           [] cmd.op \in {"get_book", "delete_book"} -> InLibrary /\ cmd.book \in books
           [] OTHER -> InLibrary

Handle ==
  /\ pc = "reading" /\ ~handled /\ ~closed /\ ~Incomplete(cmd)
  /\ handled' = TRUE
  /\ IF ~CanDo THEN Answer(FALSE, None, FALSE, FALSE) /\ UNCHANGED server
     ELSE CASE cmd.op = "register" ->
               /\ accounts' = accounts \cup {cmd.user} /\ UNCHANGED <<sessions, issued, books>>
               /\ Answer(TRUE, None, FALSE, FALSE)
          [] cmd.op = "login" ->
               /\ issued' = issued + 1 /\ sessions' = sessions \cup {issued'}
               /\ UNCHANGED <<accounts, books>>
               /\ Answer(TRUE, issued', FALSE, FALSE)
          [] cmd.op = "enter_library" -> Answer(TRUE, cookie, FALSE, FALSE) /\ UNCHANGED server
          [] cmd.op = "get_books" ->
               Answer(TRUE, None, books \cap Tricky # {}, books = {}) /\ UNCHANGED server
          [] cmd.op = "get_book" ->
               Answer(TRUE, None, cmd.book \in Tricky, FALSE) /\ UNCHANGED server
          [] cmd.op = "add_book" ->
               /\ books' = books \cup {cmd.book} /\ UNCHANGED <<accounts, sessions, issued>>
               /\ Answer(TRUE, None, FALSE, FALSE)
          [] cmd.op = "delete_book" ->
               /\ books' = books \ {cmd.book} /\ UNCHANGED <<accounts, sessions, issued>>
               /\ Answer(TRUE, None, FALSE, FALSE)
          [] cmd.op = "logout" ->
               /\ sessions' = sessions \ {cookie} /\ UNCHANGED <<accounts, issued, books>>
               /\ Answer(TRUE, None, FALSE, FALSE)
  /\ UNCHANGED <<pc, cmd, login, fds, have, arrived, closed, typed, verdict, cookieless, loggedOut>>

Deliver == /\ pc = "reading" /\ handled /\ ~closed /\ arrived < Parts
           /\ \E n \in arrived + 1 .. Parts : arrived' = n
           /\ UNCHANGED <<pc, cmd, login, fds, have, handled, reply, closed, server, typed,
                          verdict, cookieless, loggedOut>>

HangUp == /\ pc = "reading" /\ ~closed /\ closed' = TRUE
          /\ UNCHANGED <<pc, cmd, login, fds, have, handled, reply, arrived, server, typed,
                         verdict, cookieless, loggedOut>>

\* It has to, after a reply without a length, and when it has waited for the rest of a request.
Close == HangUp /\ (Incomplete(cmd) \/ (arrived = Parts /\ ~reply.sized))

Expire == /\ \E s \in sessions : sessions' = sessions \ {s}
          /\ UNCHANGED <<pc, cmd, login, fds, have, connection, accounts, issued, books, typed,
                         verdict, cookieless, loggedOut>>

Server == Handle \/ Deliver \/ HangUp \/ Expire

Next == Client \/ Server

Spec == Init /\ [][Next]_vars

\* The client goes on; the server answers, and closes where only that ends a reply.
Fairness == /\ WF_vars(Read \/ Login \/ EnterLibrary \/ Get \/ Change \/ Logout)
            /\ WF_vars(Handle) /\ WF_vars(Deliver) /\ WF_vars(Close)
FairSpec == Spec /\ Fairness

-----------------------------------------------------------------------------
(* Properties *)

\* The state has the types above, and every session in it is one that the server has issued.
TypeOK == /\ pc \in {"prompt", "reading", "exit", "crash"} /\ cmd \in Command \cup {NoCommand}
          /\ {loggedIn, jwtAccess, handled, closed} \subseteq BOOLEAN
          /\ issued \in Nat /\ {cookie, jwt} \subseteq 0 .. issued
          /\ {have, arrived} \subseteq 0 .. Parts
          /\ reply \in [did : BOOLEAN, tricky : BOOLEAN, sized : BOOLEAN,
                        session : 0 .. issued, empty : BOOLEAN]
          /\ verdict \in [said : {"nothing", "success", "failure"}, did : BOOLEAN,
                          cut : BOOLEAN, tricky : BOOLEAN]
          /\ accounts \subseteq User /\ sessions \subseteq 1 .. issued /\ books \subseteq Book
          /\ typed \in 0 .. MaxTyped /\ {fds, cookieless} \subseteq Int
          /\ loggedOut \subseteq 0 .. issued

SendsCookie == pc = "reading" /\ cmd.op \notin {"register", "login"}
SendsToken == SendsCookie /\ cmd.op # "enter_library"

\* Whatever the order of the commands and whatever the server does to its sessions, a request
\* carries a cookie and a token only if the server has issued them, and never, other than the
\* logout itself, those of a session the user has logged out of.
SessionIsOwn ==
  /\ SendsCookie => cookie \in 1 .. issued
  /\ SendsToken => jwt \in 1 .. issued
  /\ SendsCookie /\ cmd.op # "logout" => cookie \notin loggedOut
  /\ SendsToken /\ cmd.op # "logout" => jwt \notin loggedOut

\* What is printed is what the server did, in whatever parts its reply came: the client never
\* judges a part of a reply the rest of which is still to come (helpers.c:93-111).  Two
\* exceptions: a reply that the server itself cut short by closing is taken for a success if
\* it lacks the word "error", even an empty one; and a book that has this word in its text
\* makes a success a failure.
VerdictIsTrue ==
  /\ verdict.said = "success" => verdict.did \/ verdict.cut
  /\ verdict.said = "failure" => ~verdict.cut /\ (verdict.did => verdict.tricky)

\* The README (line 22) says that a connection is opened and closed at each request.  The
\* code does not keep it: a login answered with neither "error" nor a cookie goes on with the
\* next command (client.c:75-76) and leaves its connection open for good.  These are all the
\* leaks there are, however the server answers or hangs up: what is open is one connection for
\* each such login, and the one of the command that is being carried out.
OpenConnections == pc \in {"prompt", "reading"} =>
                     fds = cookieless + (IF pc = "reading" THEN 1 ELSE 0)

\* Every command ends, with a server that answers, even a request that is shorter than it says.
CommandsEnd == (pc = "reading") ~> (pc # "reading")
=============================================================================
