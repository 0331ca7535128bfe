---------------------------- MODULE EmulatedLink ----------------------------
(***************************************************************************)
(* The link emulator as the two programs at its ends meet it               *)
(* (Lab02/link_emulator: link.c, queue.c, lib.c): a sender on port 1 and a *)
(* receiver on port 2.  It is module LinkEmulator without clock and locks; *)
(* a message stays in a queue for any time, and the queues are FIFO.       *)
(***************************************************************************)
EXTENDS Integers, Sequences

CONSTANTS
  BUFFER_SIZE,
  Percents,        \* the values of loss= and corrupt= the emulator is started with
  Garbled          \* what a payload may read as after a byte of it was replaced

VARIABLES
  loss, corrupt,   \* the arguments of main
  link,            \* "up", or "fpe" when a division by zero has ended it
  link_up1, link_up2,
  s1, s2,          \* the sockets of the emulator
  buffer, in_flight,
  snd, rcv,        \* where the programs at ports 1 and 2 are; "off" and "done" at the ends
  box1, box2,      \* their sockets
  lost             \* some message was dropped, or sent to a program that is not there

linkVars == <<loss, corrupt, link, link_up1, link_up2, buffer, in_flight, lost>>

\* A msg: its len and its payload, a number.  bad marks a changed one.
Message == [len : Int, text : Int, bad : BOOLEAN]
Plain(len, text) == [len |-> len, text |-> text, bad |-> FALSE]

\* init sends a message that was never filled in.
Hello == Plain(0, 0)

LinkInit == /\ loss \in Percents /\ corrupt \in Percents
            /\ link = "up" /\ link_up1 = FALSE /\ link_up2 = FALSE
            /\ s1 = << >> /\ s2 = << >> /\ buffer = << >> /\ in_flight = << >>
            /\ snd = "off" /\ rcv = "off" /\ box1 = << >> /\ box2 = << >>
            /\ lost = FALSE

-----------------------------------------------------------------------------
(* The first datagram of a port only tells who the peer is. *)

Register1 == /\ link = "up" /\ ~link_up1 /\ s1 # << >>
             /\ link_up1' = TRUE /\ s1' = Tail(s1)
             /\ UNCHANGED <<loss, corrupt, link, link_up2, s2, buffer, in_flight, snd, rcv,
                            box1, box2, lost>>

Register2 == /\ link = "up" /\ ~link_up2 /\ s2 # << >>
             /\ link_up2' = TRUE /\ s2' = Tail(s2)
             /\ UNCHANGED <<loss, corrupt, link, link_up1, s1, buffer, in_flight, snd, rcv,
                            box1, box2, lost>>

\* rand() % 100 < percent
Dice(percent) == {b \in BOOLEAN : (b => percent > 0) /\ (~b => percent < 100)}

Dropped(m) == lost' = TRUE /\ UNCHANGED <<link, buffer>>
Kept(m) == buffer' = Append(buffer, m) /\ UNCHANGED <<link, lost>>
\* A byte of the payload becomes another: which one is chosen modulo len.
Changed(m) ==
  IF m.len = 0 THEN link' = "fpe" /\ UNCHANGED <<buffer, lost>>
  ELSE /\ \E t \in Garbled \cup {m.text} :
            buffer' = Append(buffer, [m EXCEPT !.text = t, !.bad = TRUE])
       /\ UNCHANGED <<link, lost>>

\* run_forwarding
Forward == /\ link = "up" /\ link_up1 /\ s1 # << >>
           /\ s1' = Tail(s1)
           /\ \E drop \in Dice(loss), bad \in Dice(corrupt) :
                IF drop \/ Len(buffer) >= BUFFER_SIZE THEN Dropped(Head(s1))
                ELSE IF bad THEN Changed(Head(s1)) ELSE Kept(Head(s1))
           /\ UNCHANGED <<loss, corrupt, link_up1, link_up2, s2, in_flight, snd, rcv, box1, box2>>

\* link_scheduler, its two halves.
PutInFlight == /\ link = "up" /\ buffer # << >>
               /\ in_flight' = Append(in_flight, Head(buffer)) /\ buffer' = Tail(buffer)
               /\ UNCHANGED <<loss, corrupt, link, link_up1, link_up2, s1, s2, snd, rcv,
                              box1, box2, lost>>

\* What is sent before the receiver has said hello, or after it has ended, is lost.
Deliver == /\ link = "up" /\ in_flight # << >>
           /\ in_flight' = Tail(in_flight)
           /\ IF link_up2 /\ rcv # "done"
                THEN box2' = Append(box2, Head(in_flight)) /\ UNCHANGED lost
                ELSE lost' = TRUE /\ UNCHANGED box2
           /\ UNCHANGED <<loss, corrupt, link, link_up1, link_up2, s1, s2, buffer, snd, rcv,
                          box1>>

\* run_reverse_forwarding: nothing is dropped, changed or delayed.
SendBack == /\ link = "up" /\ link_up2 /\ s2 # << >>
            /\ s2' = Tail(s2)
            /\ IF link_up1 /\ snd # "done"
                 THEN box1' = Append(box1, Head(s2)) /\ UNCHANGED lost
                 ELSE lost' = TRUE /\ UNCHANGED box1
            /\ UNCHANGED <<loss, corrupt, link, link_up1, link_up2, s1, buffer, in_flight, snd,
                           rcv, box2>>

Link == Register1 \/ Register2 \/ Forward \/ PutInFlight \/ Deliver \/ SendBack
=============================================================================
