------------------------------- MODULE Windows -------------------------------
(***************************************************************************)
(* The windowed transfer of Lab03 over the emulated link.  send.c sends    *)
(* Window messages of four bytes and then waits for as many answers, COUNT *)
(* times; recv.c sends each of the first COUNT messages back, with the     *)
(* parity of what it got in place of the length, and ends.                 *)
(*                                                                         *)
(* A payload is a number: the place of the word in the file, 0 if empty.   *)
(***************************************************************************)
EXTENDS EmulatedLink

CONSTANTS COUNT,
          Window        \* df, 5 in the code

VARIABLES
  bytes,                \* the size of the sender's file
  q, i,                 \* the loops of the sender
  t,                    \* its last message
  got,                  \* number of messages the receiver has read
  resent                \* the sender has sent a message again

\* What the two programs call parity: the exclusive or of the bytes of a payload.
\* Here any number that both compute in the same way from the payload.
Parity(text) == text % 2

\* read returns up to four bytes; the message is zeroed before.
Read(n) == LET k == bytes - 4 * n IN
           IF k > 0 THEN Plain(IF k < 4 THEN k ELSE 4, n + 1)
           ELSE Plain(IF bytes < 0 THEN -1 ELSE 0, 0)

Strlen(text) == IF text = 0 THEN 0 ELSE Read(text - 1).len

-----------------------------------------------------------------------------
(* The sender *)

StartSender == /\ snd = "off" /\ snd' = "send"
               /\ s1' = Append(s1, Hello)
               /\ UNCHANGED <<linkVars, s2, rcv, box1, box2, bytes, q, i, t, got, resent>>

\* The next turn of a loop, and what follows its last one.
Turn(n, next) == IF i + 1 < n THEN i' = i + 1 /\ UNCHANGED <<snd, q>>
                 ELSE i' = 0 /\ next

SendWord == /\ snd = "send"
            /\ t' = Read(q * Window + i)
            /\ s1' = Append(s1, t')
            /\ Turn(Window, snd' = "await" /\ UNCHANGED q)
            /\ UNCHANGED <<linkVars, s2, rcv, box1, box2, bytes, got, resent>>

\* An answer whose length is not its parity makes the sender send its last word again.
GetAnswer == /\ snd = "await" /\ box1 # << >>
             /\ box1' = Tail(box1)
             /\ IF Head(box1).len = Parity(Head(box1).text)
                  THEN UNCHANGED <<s1, resent>>
                  ELSE /\ s1' = Append(s1, [t EXCEPT !.len = Strlen(Head(box1).text)])
                       /\ resent' = TRUE
             /\ Turn(Window, q' = q + 1 /\ snd' = IF q + 1 < COUNT THEN "send" ELSE "done")
             /\ UNCHANGED <<linkVars, s2, rcv, box2, bytes, t, got>>

-----------------------------------------------------------------------------
(* The receiver *)

StartReceiver == /\ rcv = "off" /\ rcv' = "recv"
                 /\ s2' = Append(s2, Hello)
                 /\ UNCHANGED <<linkVars, s1, snd, box1, box2, bytes, q, i, t, got, resent>>

Checked(m) == [m EXCEPT !.len = Parity(m.text)]

OneTooMany(n) == n <= COUNT
More(n) == n < COUNT

Echo == /\ rcv = "recv" /\ box2 # << >>
        /\ box2' = Tail(box2)
        /\ s2' = Append(s2, Checked(Head(box2)))
        /\ got' = got + 1
        /\ rcv' = IF More(got') THEN "recv" ELSE "done"
        /\ UNCHANGED <<linkVars, s1, snd, box1, bytes, q, i, t, resent>>

Transmit == StartSender \/ SendWord \/ GetAnswer \/ StartReceiver \/ Echo
=============================================================================
