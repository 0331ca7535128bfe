----------------------------- MODULE StopAndWait -----------------------------
(***************************************************************************)
(* The file transfer of Lab02 over the emulated link: send.c announces the *)
(* name and size of a file and sends it chunk by chunk, each after the     *)
(* answer to the one before; recv.c answers ACK to whatever comes and ends *)
(* when its count of bytes is zero.  Neither has a timeout.                *)
(*                                                                         *)
(* A payload is the number the other side makes of it: the announced size  *)
(* in the first message, then the place of the chunk in the file.          *)
(***************************************************************************)
EXTENDS EmulatedLink

CONSTANT Chunk      \* MAX_LEN - 1

VARIABLES
  size,             \* of the sender's file; Missing if there is none
  pos,              \* how much of it has been read
  left,             \* outputFileSize
  written,          \* the messages written to the file, in order
  misled            \* the announcement reached the receiver with a byte replaced

Missing == -1       \* what lseek returns then

MaxSize == 2147483647   \* and the largest an int has room for

\* snprintf(payload, 12, "send.txt %d", size) has room for two characters of the size.
Powers == {10, 100, 1000, 10000, 100000, 1000000, 10000000, 100000000}
TwoDigits(n) == IF n < 100 THEN n ELSE CHOOSE d \in 10 .. 99 : \E p \in Powers : n \div p = d

\* The name of the file, a blank, the digits and the final zero.
Name == Plain(IF TwoDigits(size) \in 0 .. 9 THEN 11 ELSE 12, TwoDigits(size))
ACK == Plain(4, 0)

Smaller(a, b) == IF a < b THEN a ELSE b

-----------------------------------------------------------------------------
(* The sender *)

StartSend == /\ snd = "off" /\ snd' = "wait"
             /\ s1' = s1 \o <<Hello, Name>>
             /\ UNCHANGED <<linkVars, s2, rcv, box1, box2, size, pos, left, written, misled>>

\* Any answer will do.  read gives 0 at the end, -1 without end if there is no file.
NextChunk == /\ snd = "wait" /\ box1 # << >>
             /\ box1' = Tail(box1)
             /\ LET n == Smaller(Chunk, size - pos) IN
                \/ n > 0 /\ s1' = Append(s1, Plain(n, pos)) /\ pos' = pos + n /\ UNCHANGED snd
                \/ n = 0 /\ snd' = "done" /\ UNCHANGED <<s1, pos>>
                \/ n < 0 /\ snd' = "spin" /\ UNCHANGED <<s1, pos>>
             /\ UNCHANGED <<linkVars, s2, rcv, box2, size, left, written, misled>>

\* It does not wait for the answer.
Hasty == /\ snd = "wait" /\ pos < size
         /\ LET n == Smaller(Chunk, size - pos) IN
              s1' = Append(s1, Plain(n, pos)) /\ pos' = pos + n
         /\ UNCHANGED <<linkVars, s2, snd, rcv, box1, box2, size, left, written, misled>>
HastySender == StartSend \/ NextChunk \/ Hasty
Sender == StartSend \/ NextChunk

-----------------------------------------------------------------------------
(* The receiver *)

StartRecv == /\ rcv = "off" /\ rcv' = "name"
             /\ s2' = Append(s2, Hello)
             /\ UNCHANGED <<linkVars, s1, snd, box1, box2, size, pos, left, written, misled>>

\* The loop goes on until the count is exactly zero.
Positive(n) == n > 0
NotZero(n) == n # 0
Loop(n) == left' = n /\ rcv' = IF NotZero(n) THEN "data" ELSE "done"

Silent == /\ rcv = "name" /\ box2 # << >>
          /\ box2' = Tail(box2)
          /\ Loop(Head(box2).text) /\ misled' = Head(box2).bad
          /\ UNCHANGED <<linkVars, s1, s2, snd, box1, size, pos, written>>
ReadName == /\ rcv = "name" /\ box2 # << >>
            /\ box2' = Tail(box2)
            /\ Loop(Head(box2).text) /\ misled' = Head(box2).bad
            /\ s2' = Append(s2, ACK)
            /\ UNCHANGED <<linkVars, s1, snd, box1, size, pos, written>>

ReadChunk == /\ rcv = "data" /\ box2 # << >>
             /\ box2' = Tail(box2)
             /\ written' = Append(written, Head(box2))
             /\ Loop(left - Head(box2).len)
             /\ s2' = Append(s2, ACK)
             /\ UNCHANGED <<linkVars, s1, snd, box1, size, pos, misled>>

Receiver == StartRecv \/ ReadName \/ ReadChunk

Transfer == Sender \/ Receiver
=============================================================================
