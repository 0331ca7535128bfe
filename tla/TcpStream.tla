----------------------------- MODULE TcpStream -----------------------------
(***************************************************************************)
(* The TCP connections of Teme/Tema2, one per subscriber process, as       *)
(* server.cpp and subscriber.cpp use them: connect, accept, send, recv and *)
(* close on blocking stream sockets.                                       *)
(*                                                                         *)
(* A direction of a connection is the sequence of the strings written and  *)
(* not yet read.  Message boundaries are not kept by recv: a reader gets   *)
(* any prefix of what was written, of one string or of several.  (That a   *)
(* single string is cut in the middle is not modelled.)                    *)
(*                                                                         *)
(* peer[p] is the subscriber's end as the kernel shows it to the server:   *)
(*   "open"    still open                                                  *)
(*   "fin"     closed with nothing unread: recv returns 0 at the end, and  *)
(*             a first send is accepted and answered with a reset          *)
(*   "finrst"  closed and a reset has been provoked: recv still returns 0, *)
(*             a send may fail                                             *)
(*   "rst"     closed with unread data: recv fails at the end, as a send   *)
(*             may                                                         *)
(***************************************************************************)
EXTENDS Naturals, Sequences

CONSTANT Proc      \* the subscriber processes ever started

VARIABLES
  c2s,             \* [Proc -> Seq], from subscriber to server
  s2c,             \* [Proc -> Seq], from server to subscriber
  peer             \* [Proc -> PeerState]

tcpVars == <<c2s, s2c, peer>>

PeerState == {"open", "fin", "finrst", "rst"}

TcpInit == /\ c2s = [p \in Proc |-> << >>]
           /\ s2c = [p \in Proc |-> << >>]
           /\ peer = [p \in Proc |-> "open"]

Gone(p) == peer[p] # "open"

\* There is something for recv on p's connection: data, end of file or error.
Readable(p) == c2s[p] # << >> \/ Gone(p)

\* What p will be able to read once the strings ms have been sent to it.
Stream(p, ms) == IF Gone(p) THEN s2c[p] ELSE s2c[p] \o ms

\* p's end after n sends that the kernel accepted.
PeerAfter(p, n) == IF peer[p] = "fin" /\ n > 0 THEN "finrst" ELSE peer[p]

\* One of n sends to p can fail (an error return or SIGPIPE).
SendCanFail(p, n) == \/ n > 0 /\ peer[p] \in {"finrst", "rst"}
                     \/ n > 1 /\ peer[p] = "fin"

\* The server sends the strings ms to every process of ps.
ServerSends(ps, ms) ==
  /\ s2c' = [p \in Proc |-> IF p \in ps THEN Stream(p, ms) ELSE s2c[p]]
  /\ peer' = [p \in Proc |-> IF p \in ps THEN PeerAfter(p, Len(ms)) ELSE peer[p]]

\* recv by the server: it consumes the first k strings p wrote, k = 0 being
\* the end of the stream.
ServerReads(p, k) ==
  /\ IF c2s[p] = << >> THEN k = 0 /\ Gone(p) ELSE k \in 1..Len(c2s[p])
  /\ c2s' = [c2s EXCEPT ![p] = SubSeq(@, k + 1, Len(@))]

\* close by the subscriber, with the strings unread in its receive buffer
\* (or still on their way to it).
ClientCloses(p, unread) ==
  /\ \E how \in IF unread = << >> THEN {"fin"} ELSE {"finrst", "rst"} :
       peer' = [peer EXCEPT ![p] = how]
  /\ s2c' = [s2c EXCEPT ![p] = << >>]
=============================================================================
