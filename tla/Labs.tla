-------------------------------- MODULE Labs --------------------------------
(***************************************************************************)
(* The link emulator with either of the pairs of programs that use it:     *)
(* that of Lab02 (StopAndWait) or that of Lab03 (Windows).  The programs   *)
(* are started once each, in any order.                                    *)
(***************************************************************************)
EXTENDS StopAndWait, Windows

CONSTANT Sizes          \* sizes of the sender's file

ASSUME LabsAssumption ==
  /\ Sizes \subseteq Missing .. MaxSize /\ Percents \subseteq Nat /\ Garbled \subseteq Nat
  /\ {BUFFER_SIZE, Chunk, COUNT, Window} \subseteq Nat \ {0}

VARIABLE lab

swVars == <<size, pos, left, written, misled>>
winVars == <<bytes, q, i, t, got, resent>>
vars == <<linkVars, s1, s2, snd, rcv, box1, box2, swVars, winVars, lab>>

Init == /\ LinkInit
        /\ lab \in {"Lab02", "Lab03"}
        /\ size \in (IF lab = "Lab02" THEN Sizes ELSE {0})
        /\ pos = 0 /\ left = 0 /\ written = << >> /\ misled = FALSE
        /\ bytes \in (IF lab = "Lab03" THEN Sizes ELSE {0})
        /\ q = 0 /\ i = 0 /\ t = Hello /\ got = 0 /\ resent = FALSE

Emulator(step) == step /\ UNCHANGED <<swVars, winVars, lab>>
Lab02(step) == lab = "Lab02" /\ step /\ UNCHANGED <<winVars, lab>>
Lab03(step) == lab = "Lab03" /\ step /\ UNCHANGED <<swVars, lab>>

Next == Emulator(Link) \/ Lab02(Transfer) \/ Lab03(Transmit)

Spec == Init /\ [][Next]_vars

\* Every program and every thread of the emulator gets to run, and the programs are started.
Fairness == /\ WF_vars(Emulator(Register1 \/ Forward))
            /\ WF_vars(Emulator(Register2 \/ SendBack))
            /\ WF_vars(Emulator(PutInFlight)) /\ WF_vars(Emulator(Deliver))
            /\ WF_vars(Lab02(Sender)) /\ WF_vars(Lab02(Receiver))
            /\ WF_vars(Lab03(StartSender \/ SendWord \/ GetAnswer))
            /\ WF_vars(Lab03(StartReceiver \/ Echo))
FairSpec == Spec /\ Fairness

-----------------------------------------------------------------------------
(* Properties *)

\* What the receiver has written of its file: up to where its last message ends, those before
\* it being whole chunks (WrittenInOrder).  recv.c:34 opens the file without O_TRUNC: if there
\* was a longer one of that name, its end stays behind these bytes.
Bytes == IF written = << >> THEN 0
         ELSE (Len(written) - 1) * Chunk + written[Len(written)].len

\* The messages that wait, without the hello that registers a program.
Waiting(s, registered) == IF registered \/ s = << >> THEN Len(s) ELSE Len(s) - 1
Unanswered == Waiting(s1, link_up1) + Len(buffer) + Len(in_flight) + Len(box2)
                + Waiting(s2, link_up2) + Len(box1)

\* However the threads of the emulator are scheduled, and whatever is lost or changed, no
\* more than one message of Lab02, and one window of Lab03, is under way or unanswered: so
\* the emulator's buffer, longer than that, never overflows and drops none.
WithinWindow == Unanswered <= IF lab = "Lab02" THEN 1 ELSE Window

\* What the receiver of Lab02 has written is a beginning of the sender's file, chunk by chunk
\* and with none left out, even if messages are lost (changed ones are changed in the file).
WrittenInOrder ==
  \A k \in DOMAIN written : /\ written[k].bad \/ written[k].text = (k - 1) * Chunk
                            /\ written[k].len = Smaller(Chunk, size - (k - 1) * Chunk)

\* When the sender of Lab02 ends, all of its file has been written, and more than that has
\* never been (the output is then the file, if it was new or shorter: recv.c:34 opens it
\* without O_TRUNC).  The receiver ends only with all of the file, and only if two digits
\* were enough for its size: otherwise its count goes from the truncated size below zero,
\* never to zero.
DoneMeansWritten == lab = "Lab02" =>
  /\ Bytes <= pos
  /\ snd = "done" => Bytes = size
  /\ rcv = "done" /\ ~misled => size < 100 /\ Bytes = size

\* What the sender of Lab03 does instead of WrongAckIsResent: it never sends anything again.
\* An answer carries the parity of what the receiver got, and brings that back; the sender
\* compares the two (send.c:57-71), and the emulator does not change answers.
NeverResends == ~resent

\* The receiver of Lab03 leaves after COUNT messages, the sender wants Window answers for
\* each of COUNT windows: it gets past COUNT \div Window windows never, and so never ends.
WindowsBounded == lab = "Lab03" =>
  /\ q * Window + (IF snd = "await" THEN i ELSE 0) <= got
  /\ got <= COUNT /\ q <= COUNT \div Window /\ (Window > 1 => snd # "done")

\* "Daca nu se primeste corect ACK se retrimite secventa respectiva de bytes" (Lab03/README,
\* line 16: "if a correct ACK is not received, that sequence of bytes is sent again"): as long
\* as nothing was lost, the answer to a word has the parity of the word, or something is sent.
WrongAckIsResent ==
  [][(lab = "Lab03" /\ ~lost /\ snd = "await" /\ box1 # << >> /\ box1' = Tail(box1)) =>
       (Head(box1).len = Parity(Read(q * Window + i).text) \/ s1' # s1)]_vars

\* Nothing retransmits, but if nothing is lost both transfers end: in Lab02 the sender, and
\* the receiver if the size it was told is the file's; in Lab03 the receiver.
Completes ==
  <>(\/ lost \/ link = "fpe"
     \/ (lab = "Lab02") /\ (misled \/ size = Missing
                          \/ (snd = "done" /\ (size < 100 => rcv = "done")))
     \/ lab = "Lab03" /\ rcv = "done")
=============================================================================
