---------------------------- MODULE LinkEmulator ----------------------------
(***************************************************************************)
(* The link emulator of Lab03/link_emulator (link.c, queue.c; Lab02 has the*)
(* same threads).  Three threads: run_forwarding takes datagrams from port *)
(* 1 into buffer, link_scheduler moves them to in_flight and, when their   *)
(* time has come, to the peer of port 2; run_reverse_forwarding copies the *)
(* datagrams of port 2 to the peer of port 1.  buffer is shared by the     *)
(* first two under buffer_lock; each critical section is one action.       *)
(*                                                                         *)
(* Time is clock, in the unit of the delays.  The scheduler's crt_time is  *)
(* clock when the loop began, so it may be stale: by MaxStall at most,     *)
(* which bounds how long the thread is kept from running.                  *)
(***************************************************************************)
EXTENDS Integers, Sequences

CONSTANTS
  BUFFER_SIZE, serialization_delay, delay,
  loss, corrupt,       \* percentages
  MsgLen,              \* the values of m->len the senders use
  MaxMsgs, MaxBack,    \* bounds: datagrams sent to port 1 and to port 2
  MaxStall,            \* bound: see above
  MaxSpurious          \* bound: returns of pthread_cond_wait without a signal

ASSUME LinkAssumption ==
  /\ BUFFER_SIZE \in Nat /\ serialization_delay \in Nat /\ delay \in Nat
  /\ loss \in Nat /\ corrupt \in Nat /\ MsgLen \subseteq Nat
  /\ MaxMsgs \in Nat /\ MaxBack \in Nat /\ MaxStall \in Nat
  /\ MaxSpurious \in Nat

VARIABLES
  alive,               \* "running", "abort" (an assertion) or "fpe"
  clock,
  sock1, sock2,        \* the receive buffers of the two ports
  sent1, sent2,        \* numbers of datagrams sent to them
  link_up1, link_up2,
  fw, m, overflow,     \* run_forwarding: where it is, its m and its overflow
  buffer,
  pc, spurious,        \* link_scheduler: where it is, and returns without signal
  crt_time, idle_time, stuff, wake,
  in_flight,
  out1, out2           \* the messages the two peers were sent

revVars == <<sent2, sock2, link_up2, out1>>
fwVars == <<sock1, link_up1, fw, m, overflow>>
wireVars == <<crt_time, idle_time, stuff, in_flight, out2>>
schedVars == <<pc, spurious, wake, wireVars>>
vars == <<alive, clock, sent1, fwVars, revVars, buffer, schedVars>>

\* A message of port 1; at is the time it entered buffer (0 before).
Msg == [n : 0..MaxMsgs, len : MsgLen \cup {0}, bad : BOOLEAN, at : Nat]
Flying == [n : 0..MaxMsgs, bad : BOOLEAN, at : Nat, finish_time : Nat]
NoMsg == [n |-> 0, len |-> 0, bad |-> FALSE, at |-> 0]

Init == /\ alive = "running" /\ clock = 0
        /\ sock1 = << >> /\ sock2 = << >> /\ sent1 = 0 /\ sent2 = 0
        /\ link_up1 = FALSE /\ link_up2 = FALSE
        /\ fw = "recv" /\ m = NoMsg /\ overflow = FALSE
        /\ buffer = << >>
        /\ pc = "loop" /\ spurious = 0 /\ crt_time = 0 /\ idle_time = 0 /\ stuff = FALSE /\ wake = 0
        /\ in_flight = << >>
        /\ out1 = << >> /\ out2 = << >>

-----------------------------------------------------------------------------
(* The peers.  A datagram the kernel loses is one that is not sent. *)

Send1(len) ==
  /\ alive = "running" /\ sent1 < MaxMsgs
  /\ sent1' = sent1 + 1
  /\ sock1' = Append(sock1, [n |-> sent1 + 1, len |-> len, bad |-> FALSE, at |-> 0])
  /\ UNCHANGED <<alive, clock, link_up1, fw, m, overflow, revVars, buffer, schedVars>>

Send2 ==
  /\ alive = "running" /\ sent2 < MaxBack
  /\ sent2' = sent2 + 1
  /\ sock2' = Append(sock2, sent2 + 1)
  /\ UNCHANGED <<alive, clock, sent1, link_up2, out1, fwVars, buffer, schedVars>>

-----------------------------------------------------------------------------
(* run_forwarding *)

FwAt(place) == /\ alive = "running" /\ fw = place
               /\ UNCHANGED <<clock, sent1, revVars, wireVars, wake, spurious>>

\* The first datagram of port 1 only tells who the peer is.
Receive == /\ FwAt("recv") /\ sock1 # << >>
           /\ sock1' = Tail(sock1)
           /\ link_up1' = TRUE
           /\ IF link_up1 THEN fw' = "space" /\ m' = Head(sock1) ELSE UNCHANGED <<fw, m>>
           /\ UNCHANGED <<alive, overflow, buffer, pc>>

OverFull == Len(buffer) > BUFFER_SIZE
Full == Len(buffer) >= BUFFER_SIZE

CheckSpace == /\ FwAt("space")
              /\ overflow' = Full
              /\ fw' = "dice"
              /\ UNCHANGED <<alive, sock1, link_up1, m, buffer, pc>>

\* rand() % 100 < percent
Dice(percent) == {b \in BOOLEAN : (b => percent > 0) /\ (~b => percent < 100)}

\* Dropped, or kept and perhaps corrupted: the byte is chosen modulo len.
Keep == /\ FwAt("dice")
        /\ \E lost \in Dice(loss), bad \in Dice(corrupt) :
             IF overflow \/ lost
               THEN fw' = "recv" /\ m' = NoMsg /\ UNCHANGED alive
               ELSE /\ fw' = "put" /\ m' = [m EXCEPT !.bad = bad]
                    /\ alive' = IF bad /\ m.len = 0 THEN "fpe" ELSE alive
        /\ UNCHANGED <<sock1, link_up1, overflow, buffer, pc>>

\* pthread_cond_signal: the scheduler goes on if it waits.
NotSignalled == pc
Signalled == IF pc = "waiting" THEN "loop" ELSE pc

Put == /\ FwAt("put")
       /\ buffer' = Append(buffer, [m EXCEPT !.at = clock])
       /\ pc' = Signalled
       /\ fw' = "recv" /\ m' = NoMsg
       /\ UNCHANGED <<alive, sock1, link_up1, overflow>>

Forwarder == Receive \/ CheckSpace \/ Keep \/ Put

-----------------------------------------------------------------------------
(* run_reverse_forwarding (receive_message2, send_message1): no delay and no *)
(* loss, but a peer that is not yet known gets nothing, and the first        *)
(* datagram of port 2 only tells who its peer is.                            *)

Reverse == /\ alive = "running" /\ sock2 # << >>
           /\ sock2' = Tail(sock2)
           /\ link_up2' = TRUE
           /\ out1' = IF link_up1 /\ link_up2 THEN Append(out1, Head(sock2)) ELSE out1
           /\ UNCHANGED <<alive, clock, sent1, sent2, fwVars, buffer, schedVars>>

-----------------------------------------------------------------------------
(* link_scheduler *)

At(place) == /\ alive = "running" /\ pc = place
             /\ UNCHANGED <<clock, sent1, fwVars, revVars>>

Loop == /\ At("loop")
        /\ crt_time' = clock
        /\ pc' = "drain"
        /\ UNCHANGED <<spurious, alive, wake, idle_time, stuff, in_flight, out2, buffer>>

NewestDue == in_flight # << >> /\ crt_time >= in_flight[Len(in_flight)].finish_time
Due == in_flight # << >> /\ crt_time >= Head(in_flight).finish_time

Message == [n : 0..MaxMsgs, bad : BOOLEAN]
Item(x) == [n |-> x.n, bad |-> x.bad]

\* The oldest message on the wire is sent, to nobody while link 2 is down.
SendOut == /\ At("drain") /\ Due
           /\ in_flight' = Tail(in_flight)
           /\ out2' = IF link_up2 THEN Append(out2, Item(Head(in_flight))) ELSE out2
           /\ UNCHANGED <<spurious, alive, pc, wake, crt_time, idle_time, stuff, buffer>>

Stuff == buffer # << >>

LookInBuffer == /\ At("drain") /\ ~Due
                /\ stuff' = Stuff
                /\ pc' = "take"
                /\ UNCHANGED <<spurious, alive, wake, crt_time, idle_time, in_flight, out2, buffer>>

\* How long the wire and the head of in_flight want the scheduler to sleep.
WaitIdle(idle) == idle - crt_time
WaitSend(flying) == IF flying = << >> THEN 0 ELSE Head(flying).finish_time - crt_time
WaitTime(idle, flying) ==
  IF WaitIdle(idle) <= 0 THEN 0
  ELSE IF WaitSend(flying) \in 1..WaitIdle(idle) THEN WaitSend(flying)
  ELSE WaitIdle(idle)

\* Sleep, or go and wait for the forwarder.
Pause(idle, flying) ==
  IF WaitIdle(idle) > 0 \/ WaitSend(flying) > 0
    THEN pc' = "asleep" /\ wake' = clock + WaitTime(idle, flying)
    ELSE pc' = "block" /\ UNCHANGED wake

MayTake == stuff /\ crt_time >= idle_time

FinishWithoutDelay == crt_time + serialization_delay
FinishTime == crt_time + serialization_delay + delay

OldestMsg == Head(buffer)

\* The oldest message of buffer goes on the wire, if there is stuff and the
\* wire is idle.  assert(mif->m): the queue was not empty after all.
Take == /\ At("take")
        /\ \/ /\ MayTake /\ buffer # << >>
              /\ buffer' = Tail(buffer)
              /\ idle_time' = crt_time + serialization_delay
              /\ in_flight' = Append(in_flight,
                   [n |-> OldestMsg.n, bad |-> OldestMsg.bad, at |-> OldestMsg.at,
                    finish_time |-> FinishTime])
              /\ Pause(idle_time', in_flight')
              /\ UNCHANGED alive
           \/ /\ MayTake /\ buffer = << >>
              /\ alive' = "abort"
              /\ UNCHANGED <<pc, wake, idle_time, in_flight, buffer>>
           \/ /\ ~MayTake
              /\ Pause(idle_time, in_flight)
              /\ UNCHANGED <<alive, buffer, idle_time, in_flight>>
        /\ UNCHANGED <<spurious, crt_time, stuff, out2>>

\* assert(!buffer->size) and pthread_cond_wait, in one critical section.
Block == /\ At("block")
         /\ IF buffer # << >> THEN alive' = "abort" /\ UNCHANGED pc
                              ELSE pc' = "waiting" /\ UNCHANGED alive
         /\ UNCHANGED <<spurious, wake, wireVars, buffer>>

\* usleep returns.
WakeUp == /\ At("asleep") /\ clock >= wake
          /\ pc' = "loop"
          /\ UNCHANGED <<spurious, alive, wake, wireVars, buffer>>

\* pthread_cond_wait returns without a signal.
SpuriousWakeUp == /\ At("waiting") /\ spurious < MaxSpurious
                  /\ spurious' = spurious + 1
                  /\ pc' = "loop"
                  /\ UNCHANGED <<alive, wake, wireVars, buffer>>

Scheduler == Loop \/ SendOut \/ LookInBuffer \/ Take \/ Block \/ WakeUp

-----------------------------------------------------------------------------
\* Time passes.  While the scheduler waits for the forwarder it looks at no
\* clock, and time stands still.
Tick == /\ alive = "running"
        /\ \/ pc \in {"asleep", "loop"} /\ clock < wake + MaxStall
           \/ pc \in {"drain", "take", "block"} /\ clock < crt_time + MaxStall
        /\ clock' = clock + 1
        /\ UNCHANGED <<alive, sent1, fwVars, revVars, buffer, schedVars>>

Next == \/ \E len \in MsgLen : Send1(len)
        \/ Send2 \/ Forwarder \/ Reverse \/ Scheduler \/ SpuriousWakeUp \/ Tick

Spec == Init /\ [][Next]_vars

\* The scheduler runs and time passes; nobody has to send.
FairSpec == Spec /\ WF_vars(Scheduler) /\ WF_vars(Tick)

-----------------------------------------------------------------------------
(* Properties. *)

\* The types of the threads' locals (link.c:180-184, 286-289) and queues.
TypeOK ==
  /\ alive \in {"running", "abort", "fpe"}
  /\ clock \in Nat /\ sent1 \in 0..MaxMsgs /\ sent2 \in Nat
  /\ sock1 \in Seq(Msg) /\ link_up1 \in BOOLEAN
  /\ fw \in {"recv", "space", "dice", "put"} /\ m \in Msg /\ overflow \in BOOLEAN
  /\ sock2 \in Seq(Nat) /\ link_up2 \in BOOLEAN /\ out1 \in Seq(Nat)
  /\ buffer \in Seq(Msg)
  /\ spurious \in Nat
  /\ pc \in {"loop", "drain", "take", "block", "asleep", "waiting"}
  /\ crt_time \in Nat /\ idle_time \in Nat /\ wake \in Nat /\ stuff \in BOOLEAN
  /\ in_flight \in Seq(Flying)
  /\ out2 \in Seq(Message)

\* The buffer never holds more than BUFFER_SIZE messages, though the space is
\* checked (link.c:296-298) in another critical section than the one that uses
\* it (311-314).
BufferBounded == Len(buffer) <= BUFFER_SIZE

\* The forwarder keeps a message only if there is room, and room once seen is
\* not lost: the scheduler only makes more.
RoomIsKept == fw \in {"dice", "put"} /\ ~overflow => Len(buffer) < BUFFER_SIZE
PutIsDecided == fw = "put" => ~overflow

\* A message that was seen in the buffer (link.c:219-221) is still there when
\* the scheduler takes it (238-240): assert(mif->m) cannot fail.
TakesWhatIsThere == pc = "take" /\ stuff => buffer # << >>

\* A message is never left in the buffer by a scheduler that waits to be
\* signalled (link.c:271-277 against 311-314).
NoLostSignal == pc = "waiting" => buffer = << >>

\* So what a thread saw in the buffer in one critical section is still so in its
\* next one, whatever the other did between them.
SeenIsStillSo == BufferBounded /\ TakesWhatIsThere

\* The wire serialises: messages on it finish serialization_delay apart
\* (link.c:232-244), in the order they were taken ...
Serialised ==
  \A j, k \in DOMAIN in_flight :
    j < k => in_flight[j].finish_time + serialization_delay <= in_flight[k].finish_time

FinishedWhenIdle ==
  \A j \in DOMAIN in_flight : in_flight[j].finish_time <= idle_time + delay

\* ... so that it never holds more than its bandwidth-delay product.
PipeBounded ==
  Len(in_flight) > 1 =>
    (Len(in_flight) - 1) * serialization_delay < serialization_delay + delay

\* A message leaves no earlier than its delays after it entered the buffer;
\* but crt_time may be older than the message (the second now() of link.c:229
\* is a comment), which takes MaxStall off.
DelayHonoured ==
  [][in_flight # << >> /\ in_flight' = Tail(in_flight) =>
       clock + MaxStall >= Head(in_flight).at + serialization_delay + delay]_vars

\* crt_time is MaxStall behind at most while it is used, and what was stamped
\* with clock is not of the future.
ClockIsNear ==
  /\ crt_time <= clock
  /\ pc \in {"drain", "take", "block"} => clock <= crt_time + MaxStall
  /\ \A j \in DOMAIN buffer : buffer[j].at <= clock
  /\ \A j \in DOMAIN in_flight :
       in_flight[j].at + serialization_delay + delay <= in_flight[j].finish_time + MaxStall

\* Why PipeBounded holds: a message is taken when none on the wire is due, so
\* that the first of them finishes later than crt_time and the last one
\* serialization_delay + delay after it.
NotDueAtTake == pc = "take" /\ in_flight # << >> => crt_time < Head(in_flight).finish_time

WireSpan ==
  \A j, k \in DOMAIN in_flight : j < k =>
    /\ in_flight[j].finish_time + (k - j) * serialization_delay <= in_flight[k].finish_time
    /\ in_flight[k].finish_time < in_flight[j].finish_time + serialization_delay + delay

\* The inductive invariant of LinkProofs.
LInv == /\ TypeOK
        /\ BufferBounded /\ RoomIsKept /\ PutIsDecided
        /\ TakesWhatIsThere /\ NoLostSignal
        /\ Serialised /\ FinishedWhenIdle
        /\ NotDueAtTake /\ WireSpan
        /\ ClockIsNear

\* The link is a FIFO that may lose: no duplicate, no reordering.
OnTheWire == [j \in 1..(Len(in_flight) + Len(buffer)) |->
                IF j <= Len(in_flight) THEN Item(in_flight[j])
                                       ELSE Item(buffer[j - Len(in_flight)])]

Fifo == INSTANCE LossyFifo WITH inside <- OnTheWire, got <- out2,
                                open <- (alive = "running")

\* And what entered it comes out, however its two threads interleave.
Drains == Fifo!FairSpec
=============================================================================
