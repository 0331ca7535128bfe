----------------------------- MODULE Subscriber -----------------------------
(***************************************************************************)
(* The subscriber process of Teme/Tema2/subscriber.cpp.  Process p is      *)
(* started with argv[1] = Argv1[p]; it connects, sends its id, then its    *)
(* select loop reads one line of the server, or one command of stdin, at a *)
(* time.  The server's side of the connection is in TcpStream.             *)
(***************************************************************************)
EXTENDS TcpStream, Integers

CONSTANTS
  Id,              \* client ids
  Topic,           \* topic names
  Argv1,           \* [Proc -> Id]: the id each process is started with
  SFArg,           \* third word of a typed subscribe command
  MaxCmds          \* bound: commands typed at one process

NoSF == -1         \* the user typed no third word

ASSUME SubscriberAssumption == /\ Argv1 \in [Proc -> Id]
                               /\ SFArg \subseteq {0, 1, NoSF}
                               /\ MaxCmds \in Nat

VARIABLES
  backlog,         \* Seq(Proc): connections the server has not accepted
  pstate,          \* [Proc -> ProcState]
  printed,         \* [Proc -> Seq(News)]: the messages written to stdout
  typed            \* [Proc -> Seq(Command)]: the commands confirmed on stdout

subVars == <<pstate, printed, typed>>

ProcState == {"new", "connected", "running", "closed"}

Command == [op : {"subscribe"}, topic : Topic, sf : SFArg]
             \cup [op : {"unsubscribe"}, topic : Topic]
IdString(id) == [op |-> "id", id |-> id]
Segment == Command \cup {IdString(id) : id \in Id}

News == [kind : {"news"}, n : Nat, topic : Topic]
IdExists == [kind |-> "ID_EXISTS"]
Exit == [kind |-> "EXIT"]
Line == News \cup {IdExists, Exit}

SubInit == /\ backlog = << >>
           /\ pstate = [p \in Proc |-> "new"]
           /\ printed = [p \in Proc |-> << >>]
           /\ typed = [p \in Proc |-> << >>]

-----------------------------------------------------------------------------
Connect(p) ==
  /\ pstate[p] = "new"
  /\ pstate' = [pstate EXCEPT ![p] = "connected"]
  /\ backlog' = Append(backlog, p)
  /\ UNCHANGED <<tcpVars, printed, typed>>

SendId(p) ==
  /\ pstate[p] = "connected"
  /\ pstate' = [pstate EXCEPT ![p] = "running"]
  /\ c2s' = [c2s EXCEPT ![p] = Append(@, IdString(Argv1[p]))]
  /\ UNCHANGED <<s2c, peer, backlog, printed, typed>>

\* A line of the server: a flag ends the process, anything else is printed.
ReadLine(p) ==
  /\ pstate[p] = "running"
  /\ s2c[p] # << >>
  /\ LET line == Head(s2c[p])
     IN  IF line \in {IdExists, Exit}
           THEN /\ pstate' = [pstate EXCEPT ![p] = "closed"]
                /\ ClientCloses(p, Tail(s2c[p]))
                /\ UNCHANGED printed
           ELSE /\ printed' = [printed EXCEPT ![p] = Append(@, line)]
                /\ s2c' = [s2c EXCEPT ![p] = Tail(@)]
                /\ UNCHANGED <<pstate, peer>>
  /\ UNCHANGED <<c2s, backlog, typed>>

\* A subscribe or unsubscribe of stdin: sent, then confirmed on stdout.
TypeCommand(p, cmd) ==
  /\ pstate[p] = "running"
  /\ Len(typed[p]) < MaxCmds
  /\ c2s' = [c2s EXCEPT ![p] = Append(@, cmd)]
  /\ typed' = [typed EXCEPT ![p] = Append(@, cmd)]
  /\ UNCHANGED <<s2c, peer, backlog, pstate, printed>>

\* The exit command; also the process being killed, which may happen before
\* it sent its id.
Leave(p) ==
  /\ pstate[p] \in {"connected", "running"}
  /\ pstate' = [pstate EXCEPT ![p] = "closed"]
  /\ ClientCloses(p, s2c[p])
  /\ UNCHANGED <<c2s, backlog, printed, typed>>
=============================================================================
