----------------------------- MODULE LabsProofs -----------------------------
(***************************************************************************)
(* Proofs about Labs: for files of any size, any Window, COUNT and Chunk,  *)
(* and an emulator that loses and changes what it likes, the programs keep *)
(* to their window, those of Lab03 send nothing again and stop short, and  *)
(* those of Lab02 copy the file chunk by chunk.                            *)
(***************************************************************************)
EXTENDS Labs, TLAPS

\* The sockets and queues hold messages, and the loops' variables are numbers.
Typed == /\ lab \in {"Lab02", "Lab03"} /\ (lab = "Lab03" => size = 0)
         /\ s1 \in Seq(Message) /\ s2 \in Seq(Message) /\ buffer \in Seq(Message) /\ in_flight \in Seq(Message)
         /\ box1 \in Seq(Message) /\ box2 \in Seq(Message)
         /\ link_up1 \in BOOLEAN /\ link_up2 \in BOOLEAN
         /\ size \in Missing .. MaxSize /\ size \in Int /\ pos \in Int /\ bytes \in Int
         /\ q \in Nat /\ i \in 0 .. Window - 1 /\ got \in Nat

\* What waits at a port that is not registered begins with the hello.
Greeted == /\ snd = "off" => s1 = << >> /\ ~link_up1
           /\ snd # "off" /\ ~link_up1 => s1 # << >>
           /\ rcv = "off" => s2 = << >> /\ ~link_up2
           /\ rcv # "off" /\ ~link_up2 => s2 # << >>

\* What may be under way or unanswered where the sender is.
Allowed == IF snd = "off" THEN 0
           ELSE IF lab = "Lab02" THEN 1
           ELSE IF snd = "send" THEN i ELSE IF snd = "await" THEN Window - i ELSE 0
Counted == Unanswered <= Allowed

\* Every answer has its parity: so the sender of Lab03 is content with it.
Right(s) == \A k \in DOMAIN s : s[k].len = Parity(s[k].text)
Answered == ~resent /\ (lab = "Lab03" => Right(s2) /\ Right(box1))

\* The answers that the sender of Lab03 has not had yet, and what it has had.
Answers == Waiting(s2, link_up2) + Len(box1)
Had == q * Window + (IF snd = "await" THEN i ELSE 0)
Windowed == lab = "Lab03" =>
  /\ Had + Answers <= got /\ got <= COUNT /\ (rcv # "done" => got < COUNT)
  /\ snd = "done" => q >= COUNT

-----------------------------------------------------------------------------
(* Sequences. *)

LEMMA TailOf ==
  ASSUME NEW S, NEW s \in Seq(S), s # << >>
  PROVE  /\ Tail(s) \in Seq(S) /\ Len(Tail(s)) = Len(s) - 1 /\ Len(s) \in Nat \ {0}
         /\ Head(s) \in S /\ Head(s) = s[1] /\ 1 \in DOMAIN s
         /\ \A k \in DOMAIN Tail(s) : k + 1 \in DOMAIN s /\ Tail(s)[k] = s[k + 1]
  OBVIOUS

LEMMA AppendOf ==
  ASSUME NEW S, NEW s \in Seq(S), NEW e \in S
  PROVE  /\ Append(s, e) \in Seq(S) /\ Len(Append(s, e)) = Len(s) + 1 /\ Append(s, e) # << >>
         /\ \A k \in DOMAIN Append(s, e) :
              (k \in DOMAIN s /\ Append(s, e)[k] = s[k]) \/ Append(s, e)[k] = e
  OBVIOUS

LEMMA AppendIf ==
  ASSUME NEW S, NEW s \in Seq(S), NEW e \in S, NEW r, r = Append(s, e) \/ r = s
  PROVE  r \in Seq(S) /\ Len(r) <= Len(s) + 1 /\ Len(r) \in Nat
<1>1. CASE r = Append(s, e)
  BY <1>1, AppendOf
<1>2. CASE r = s
  BY <1>2
<1> QED
  BY <1>1, <1>2

\* A registration takes the hello that was not counted; a message after it counts.
LEMMA WaitingTail ==
  ASSUME NEW S, NEW s \in Seq(S), s # << >>
  PROVE  Waiting(Tail(s), TRUE) = Waiting(s, FALSE) /\ Waiting(Tail(s), TRUE) = Waiting(s, TRUE) - 1
  BY TailOf DEF Waiting

LEMMA WaitingAppend ==
  ASSUME NEW S, NEW s \in Seq(S), NEW e \in S, NEW up \in BOOLEAN, ~up => s # << >>
  PROVE  Waiting(Append(s, e), up) = Waiting(s, up) + 1
<1>1. Append(s, e) # << >> /\ Len(Append(s, e)) = Len(s) + 1 /\ Len(s) \in Nat
  BY AppendOf
<1> QED
  BY <1>1 DEF Waiting

LEMMA WaitingNat ==
  ASSUME NEW S, NEW s \in Seq(S), NEW up \in BOOLEAN
  PROVE  Waiting(s, up) \in Nat
<1>1. CASE s = << >>
  BY <1>1 DEF Waiting
<1>2. CASE s # << >>
  BY <1>2, TailOf DEF Waiting
<1> QED
  BY <1>1, <1>2

LEMMA RightTail ==
  ASSUME NEW S, NEW s \in Seq(S), s # << >>, Right(s)
  PROVE  Right(Tail(s)) /\ Head(s).len = Parity(Head(s).text)
  BY TailOf DEF Right

LEMMA RightAppend ==
  ASSUME NEW S, NEW s \in Seq(S), NEW e \in S, Right(s), e.len = Parity(e.text)
  PROVE  Right(Append(s, e))
  BY AppendOf DEF Right

-----------------------------------------------------------------------------
(* The steps of the emulator. *)

\* The messages of the code are messages.
LEMMA Messages ==
  ASSUME NEW len \in Int, NEW text \in Int
  PROVE  Plain(len, text) \in Message /\ Plain(len, text).len = len /\ Plain(len, text).text = text
  BY DEF Plain, Message

\* A changed byte leaves a message.
LEMMA ChangedType ==
  ASSUME NEW m \in Message, NEW txt \in Garbled \cup {m.text}
  PROVE  [m EXCEPT !.text = txt, !.bad = TRUE] \in Message
<1>1. txt \in Int
  BY LabsAssumption DEF LabsAssumption, Message
<1> QED
  BY <1>1 DEF Message

LEMMA UnansweredNat ==
  ASSUME Typed
  PROVE  /\ Waiting(s1, link_up1) \in Nat /\ Waiting(s2, link_up2) \in Nat
         /\ Len(buffer) \in Nat /\ Len(in_flight) \in Nat /\ Len(box1) \in Nat /\ Len(box2) \in Nat
         /\ Unanswered \in Nat /\ Answers \in Nat
<1>1. Waiting(s1, link_up1) \in Nat
  <2>1. s1 \in Seq(Message) /\ link_up1 \in BOOLEAN
    BY DEF Typed
  <2> QED
    BY <2>1, WaitingNat
<1>2. Waiting(s2, link_up2) \in Nat
  <2>1. s2 \in Seq(Message) /\ link_up2 \in BOOLEAN
    BY DEF Typed
  <2> QED
    BY <2>1, WaitingNat
<1>3. Len(buffer) \in Nat /\ Len(in_flight) \in Nat /\ Len(box1) \in Nat /\ Len(box2) \in Nat
  BY DEF Typed
<1> QED
  BY <1>1, <1>2, <1>3 DEF Unanswered, Answers

\* What a step of the emulator does to its ends and to the number of messages.
Kept2 == UNCHANGED <<size, pos, bytes, q, i, got, lab, snd, rcv, resent>>
Fewer == /\ Typed' /\ Greeted' /\ Answered'
         /\ Unanswered' <= Unanswered /\ Answers' <= Answers

LEMMA RegisterSteps ==
  ASSUME Typed, Greeted, Answered, Register1 \/ Register2, Kept2
  PROVE  Fewer
<1> USE DEF Kept2
<1>0. Message' = Message
  BY DEF Message
<1>1. CASE Register1
  <2>1. s1 # << >> /\ s1' = Tail(s1) /\ link_up1' = TRUE /\ ~link_up1
        /\ UNCHANGED <<link_up2, s2, buffer, in_flight, box1, box2>>
    BY <1>1 DEF Register1
  <2>2. Tail(s1) \in Seq(Message) /\ Waiting(s1', link_up1') = Waiting(s1, link_up1)
    BY <2>1, TailOf, WaitingTail DEF Typed
  <2>3. Typed'
    BY <1>0, <2>1, <2>2 DEF Typed
  <2>4. snd # "off"
    BY <2>1 DEF Greeted
  <2>5. Greeted'
    BY <2>1, <2>4 DEF Greeted
  <2>6. Unanswered' = Unanswered /\ Answers' = Answers
    BY <2>1, <2>2 DEF Unanswered, Answers
  <2>7. Unanswered \in Int /\ Answers \in Int
    BY UnansweredNat
  <2>8. Answered'
    BY <2>1 DEF Answered, Right
  <2> QED
    BY <2>3, <2>5, <2>6, <2>7, <2>8 DEF Fewer
<1>2. CASE Register2
  <2>1. s2 # << >> /\ s2' = Tail(s2) /\ link_up2' = TRUE /\ ~link_up2
        /\ UNCHANGED <<link_up1, s1, buffer, in_flight, box1, box2>>
    BY <1>2 DEF Register2
  <2>2. Tail(s2) \in Seq(Message) /\ Waiting(s2', link_up2') = Waiting(s2, link_up2)
    BY <2>1, TailOf, WaitingTail DEF Typed
  <2>3. Typed'
    BY <1>0, <2>1, <2>2 DEF Typed
  <2>4. rcv # "off"
    BY <2>1 DEF Greeted
  <2>5. Greeted'
    BY <2>1, <2>4 DEF Greeted
  <2>6. Unanswered' = Unanswered /\ Answers' = Answers
    BY <2>1, <2>2 DEF Unanswered, Answers
  <2>7. Unanswered \in Int /\ Answers \in Int
    BY UnansweredNat
  <2>8. Right(s2) => Right(s2')
    BY <2>1, RightTail DEF Typed
  <2>9. Answered'
    BY <2>1, <2>8 DEF Answered, Right
  <2> QED
    BY <2>3, <2>5, <2>6, <2>7, <2>9 DEF Fewer
<1> QED
  BY <1>1, <1>2

LEMMA ForwardStep ==
  ASSUME Typed, Greeted, Answered, Forward, Kept2
  PROVE  Fewer
<1>1. /\ link_up1 /\ s1 # << >> /\ s1' = Tail(s1)
      /\ UNCHANGED <<link_up1, link_up2, s2, in_flight, box1, box2>>
  BY DEF Forward
<1>2. Head(s1) \in Message /\ Tail(s1) \in Seq(Message)
  BY <1>1, TailOf DEF Typed
<1>3. buffer' \in Seq(Message) /\ Len(buffer') <= Len(buffer) + 1
  <2>1. CASE buffer' = buffer
    BY <2>1 DEF Typed
  <2>2. CASE \E m \in Message : buffer' = Append(buffer, m)
    BY <2>2, AppendOf DEF Typed
  <2>3. PICK drop \in Dice(loss), bad \in Dice(corrupt) :
               IF drop \/ Len(buffer) >= BUFFER_SIZE THEN Dropped(Head(s1))
               ELSE IF bad THEN Changed(Head(s1)) ELSE Kept(Head(s1))
    BY DEF Forward
  <2>4. CASE Dropped(Head(s1))
    BY <2>4, <2>1 DEF Dropped
  <2>5. CASE Kept(Head(s1))
    BY <2>5, <2>2, <1>2 DEF Kept
  <2>6. CASE Changed(Head(s1))
    BY <2>6, <2>1, <2>2, <1>2, ChangedType DEF Changed
  <2> QED
    BY <2>3, <2>4, <2>5, <2>6
<1>4. Waiting(s1', link_up1') = Waiting(s1, link_up1) - 1
  <2>1. link_up1 = TRUE /\ link_up1' = TRUE /\ s1 \in Seq(Message)
    BY <1>1 DEF Typed
  <2> QED
    BY <1>1, <2>1, WaitingTail
<1>5. Typed'
  BY <1>1, <1>2, <1>3 DEF Typed, Kept2, Message
<1>6. Greeted'
  BY <1>1 DEF Greeted, Kept2
<1>7. Unanswered' <= Unanswered /\ Answers' <= Answers
  <2>1. Len(buffer') \in Nat /\ Len(buffer') <= Len(buffer) + 1
    BY <1>3
  <2>2. UNCHANGED <<Waiting(s2, link_up2), Len(in_flight), Len(box1), Len(box2)>>
    BY <1>1
  <2>3. /\ Waiting(s1, link_up1) \in Nat /\ Waiting(s2, link_up2) \in Nat
        /\ Len(buffer) \in Nat /\ Len(in_flight) \in Nat /\ Len(box1) \in Nat /\ Len(box2) \in Nat
    BY UnansweredNat
  <2>4. ASSUME NEW b \in Nat, b <= Len(buffer) + 1
        PROVE  (Waiting(s1, link_up1) - 1) + b + Len(in_flight) + Len(box2)
                 + Waiting(s2, link_up2) + Len(box1) <= Unanswered
    BY ONLY <2>3, <2>4, SMTT(30) DEF Unanswered
  <2>5. Unanswered' = (Waiting(s1, link_up1) - 1) + Len(buffer') + Len(in_flight) + Len(box2)
                        + Waiting(s2, link_up2) + Len(box1)
    BY ONLY <1>4, <2>2, Zenon DEF Unanswered
  <2>6. Unanswered' <= Unanswered
    BY ONLY <2>1, <2>4, <2>5, Zenon
  <2>7. Answers <= Answers
    BY ONLY <2>3 DEF Answers
  <2>8. Answers' = Answers
    BY ONLY <2>2, Zenon DEF Answers
  <2> QED
    BY ONLY <2>6, <2>7, <2>8, Zenon
<1>8. Answered'
  BY <1>1 DEF Answered, Right, Kept2
<1> QED
  BY <1>5, <1>6, <1>7, <1>8 DEF Fewer

LEMMA SchedulerSteps ==
  ASSUME Typed, Greeted, Answered, PutInFlight \/ Deliver, Kept2
  PROVE  Fewer
<1>1. UNCHANGED <<link_up1, link_up2, s1, s2, box1>>
  BY DEF PutInFlight, Deliver
<1>2. Greeted' /\ Answered'
  BY <1>1 DEF Greeted, Answered, Right, Kept2
<1>3. UNCHANGED <<Waiting(s1, link_up1), Waiting(s2, link_up2), Len(box1)>>
  BY <1>1
<1>4. CASE PutInFlight
  <2>1. /\ buffer # << >> /\ buffer' = Tail(buffer)
        /\ in_flight' = Append(in_flight, Head(buffer)) /\ box2' = box2
    BY <1>4 DEF PutInFlight
  <2>2. /\ buffer' \in Seq(Message) /\ in_flight' \in Seq(Message)
        /\ Len(buffer') = Len(buffer) - 1 /\ Len(in_flight') = Len(in_flight) + 1
    BY <2>1, TailOf, AppendOf DEF Typed
  <2>3. Typed'
    BY <1>1, <2>1, <2>2 DEF Typed, Kept2, Message
  <2>4. /\ Waiting(s1, link_up1) \in Nat /\ Waiting(s2, link_up2) \in Nat
        /\ Len(buffer) \in Nat /\ Len(in_flight) \in Nat /\ Len(box1) \in Nat /\ Len(box2) \in Nat
    BY UnansweredNat
  <2>5. Waiting(s1, link_up1) + (Len(buffer) - 1) + (Len(in_flight) + 1) + Len(box2)
          + Waiting(s2, link_up2) + Len(box1) <= Unanswered
    BY ONLY <2>4, SMTT(30) DEF Unanswered
  <2>6. Unanswered' = Waiting(s1, link_up1) + (Len(buffer) - 1) + (Len(in_flight) + 1) + Len(box2)
                        + Waiting(s2, link_up2) + Len(box1)
    BY ONLY <1>3, <2>1, <2>2, Zenon DEF Unanswered
  <2>7. Answers <= Answers
    BY ONLY <2>4 DEF Answers
  <2>8. Answers' = Answers
    BY ONLY <1>3, Zenon DEF Answers
  <2>9. Unanswered' <= Unanswered /\ Answers' <= Answers
    BY ONLY <2>5, <2>6, <2>7, <2>8, Zenon
  <2> QED
    BY <1>2, <2>3, <2>9 DEF Fewer
<1>5. CASE Deliver
  <2>1. /\ in_flight # << >> /\ in_flight' = Tail(in_flight) /\ buffer' = buffer
        /\ box2' = Append(box2, Head(in_flight)) \/ box2' = box2
    BY <1>5 DEF Deliver
  <2>2. in_flight' \in Seq(Message) /\ Len(in_flight') = Len(in_flight) - 1 /\ Head(in_flight) \in Message
    BY <2>1, TailOf DEF Typed
  <2>3. box2' \in Seq(Message) /\ Len(box2') <= Len(box2) + 1 /\ Len(box2') \in Nat
    <3>1. box2 \in Seq(Message)
      BY DEF Typed
    <3> QED
      BY <2>1, <2>2, <3>1, AppendIf
  <2>4. Typed'
    BY <1>1, <2>1, <2>2, <2>3 DEF Typed, Kept2, Message
  <2>5. /\ Waiting(s1, link_up1) \in Nat /\ Waiting(s2, link_up2) \in Nat
        /\ Len(buffer) \in Nat /\ Len(in_flight) \in Nat /\ Len(box1) \in Nat /\ Len(box2) \in Nat
    BY UnansweredNat
  <2>6. ASSUME NEW b \in Nat, b <= Len(box2) + 1
        PROVE  Waiting(s1, link_up1) + Len(buffer) + (Len(in_flight) - 1) + b
                 + Waiting(s2, link_up2) + Len(box1) <= Unanswered
    BY ONLY <2>5, <2>6, SMTT(30) DEF Unanswered
  <2>7. Unanswered' = Waiting(s1, link_up1) + Len(buffer) + (Len(in_flight) - 1) + Len(box2')
                        + Waiting(s2, link_up2) + Len(box1)
    BY ONLY <1>3, <2>1, <2>2, Zenon DEF Unanswered
  <2>8. Answers <= Answers
    BY ONLY <2>5 DEF Answers
  <2>9. Answers' = Answers
    BY ONLY <1>3, Zenon DEF Answers
  <2>10. Unanswered' <= Unanswered /\ Answers' <= Answers
    BY ONLY <2>3, <2>6, <2>7, <2>8, <2>9, Zenon
  <2> QED
    BY <1>2, <2>4, <2>10 DEF Fewer
<1> QED
  BY <1>4, <1>5

LEMMA SendBackStep ==
  ASSUME Typed, Greeted, Answered, SendBack, Kept2
  PROVE  Fewer
<1>1. /\ link_up2 /\ s2 # << >> /\ s2' = Tail(s2)
      /\ box1' = Append(box1, Head(s2)) \/ box1' = box1
      /\ UNCHANGED <<link_up1, link_up2, s1, buffer, in_flight, box2>>
  BY DEF SendBack
<1>2. Head(s2) \in Message /\ Tail(s2) \in Seq(Message)
  BY <1>1, TailOf DEF Typed
<1>3. box1' \in Seq(Message) /\ Len(box1') <= Len(box1) + 1 /\ Len(box1') \in Nat
  <2>1. box1 \in Seq(Message)
    BY DEF Typed
  <2> QED
    BY <1>1, <1>2, <2>1, AppendIf
<1>4. Waiting(s2', link_up2') = Waiting(s2, link_up2) - 1
  <2>1. link_up2 = TRUE /\ link_up2' = TRUE /\ s2 \in Seq(Message)
    BY <1>1 DEF Typed
  <2> QED
    BY <1>1, <2>1, WaitingTail
<1>5. Typed'
  BY <1>1, <1>2, <1>3 DEF Typed, Kept2, Message
<1>6. Greeted'
  BY <1>1 DEF Greeted, Kept2
<1>7. Unanswered' <= Unanswered /\ Answers' <= Answers
  <2>1. UNCHANGED <<Waiting(s1, link_up1), Len(buffer), Len(in_flight), Len(box2)>>
    BY <1>1
  <2>2. /\ Waiting(s1, link_up1) \in Nat /\ Waiting(s2, link_up2) \in Nat
        /\ Len(buffer) \in Nat /\ Len(in_flight) \in Nat /\ Len(box1) \in Nat /\ Len(box2) \in Nat
    BY UnansweredNat
  <2>3. ASSUME NEW b \in Nat, b <= Len(box1) + 1
        PROVE  /\ Waiting(s1, link_up1) + Len(buffer) + Len(in_flight) + Len(box2)
                    + (Waiting(s2, link_up2) - 1) + b <= Unanswered
               /\ (Waiting(s2, link_up2) - 1) + b <= Answers
    BY ONLY <2>2, <2>3, SMTT(30) DEF Unanswered, Answers
  <2>4. Unanswered' = Waiting(s1, link_up1) + Len(buffer) + Len(in_flight) + Len(box2)
                        + (Waiting(s2, link_up2) - 1) + Len(box1')
    BY ONLY <1>4, <2>1, Zenon DEF Unanswered
  <2>5. Answers' = (Waiting(s2, link_up2) - 1) + Len(box1')
    BY ONLY <1>4, Zenon DEF Answers
  <2> QED
    BY ONLY <1>3, <2>3, <2>4, <2>5, Zenon
<1>8. Answered'
  <2>1. ASSUME Right(s2), Right(box1) PROVE Right(s2') /\ Right(box1')
    <3>1. Right(Tail(s2)) /\ Head(s2).len = Parity(Head(s2).text)
      BY <1>1, <2>1, RightTail DEF Typed
    <3>2. Right(Append(box1, Head(s2)))
      <4>1. box1 \in Seq(Message)
        BY DEF Typed
      <4> QED
        BY <1>2, <2>1, <3>1, <4>1, RightAppend
    <3> QED
      BY <1>1, <2>1, <3>1, <3>2
  <2> QED
    BY <2>1 DEF Answered, Kept2
<1> QED
  BY <1>5, <1>6, <1>7, <1>8 DEF Fewer

\* No step of the emulator makes more messages than there were.
LEMMA LinkKeeps ==
  ASSUME Typed, Greeted, Answered, Link, Kept2
  PROVE  Fewer
  BY RegisterSteps, ForwardStep, SchedulerSteps, SendBackStep DEF Link

IInv == Typed /\ Greeted /\ Answered /\ Counted /\ Windowed

LEMMA Constants == Window \in Nat \ {0} /\ COUNT \in Nat \ {0} /\ Chunk \in Nat
  BY LabsAssumption DEF LabsAssumption

LEMMA HadInt == ASSUME Typed PROVE Had \in Int /\ q * Window \in Nat
<1>1. q \in Nat /\ i \in Int /\ Window \in Nat
  BY Constants DEF Typed
<1>2. q * Window \in Nat
  BY <1>1
<1> QED
  BY <1>1, <1>2 DEF Had

LEMMA StillBelow ==
  ASSUME NEW a \in Int, NEW b \in Int, NEW c \in Int, NEW d \in Int, a + b <= d, c <= b
  PROVE  a + c <= d
  OBVIOUS

Nats == Unanswered \in Nat /\ Answers \in Nat

LEMMA NatsNext == Typed' => Nats'
<1>1. Typed => Nats
  BY UnansweredNat DEF Nats
<1> QED
  BY <1>1, PTL

\* What makes fewer messages, and moves no program, keeps the invariant.
LEMMA FewerKeeps ==
  ASSUME IInv, Fewer, Kept2
  PROVE  IInv'
<1>1. Typed /\ Greeted /\ Answered /\ Counted /\ Windowed
  BY DEF IInv
<1>2. Typed' /\ Greeted' /\ Answered'
  BY DEF Fewer
<1>3. Unanswered' <= Unanswered /\ Answers' <= Answers
  BY DEF Fewer
<1>4. Unanswered \in Nat /\ Answers \in Nat
  BY <1>1, UnansweredNat
<1>5. Unanswered' \in Nat /\ Answers' \in Nat
  BY <1>2, NatsNext DEF Nats
<1>6. Counted'
  <2>1. Allowed' = Allowed
    BY DEF Allowed, Kept2
  <2>2. Allowed \in Int
    BY <1>1, Constants DEF Allowed, Typed
  <2> QED
    BY <1>1, <1>3, <1>4, <1>5, <2>1, <2>2 DEF Counted
<1>7. Windowed'
  <2>1. Had' = Had /\ UNCHANGED <<lab, got, rcv, snd, q>>
    BY DEF Had, Kept2
  <2>2. Had \in Int /\ got \in Int
    BY <1>1, HadInt DEF Typed
  <2>3. ASSUME Had + Answers <= got PROVE Had + Answers' <= got
    <3>1. Answers' \in Int /\ Answers \in Int /\ Answers' <= Answers
      BY <1>3, <1>4, <1>5
    <3>2. Had \in Int
      BY <2>2
    <3>3. got \in Int
      BY <2>2
    <3> QED
      BY <2>3, <3>1, <3>2, <3>3, StillBelow, Zenon
  <2>4. ASSUME lab = "Lab03" PROVE Had' + Answers' <= got'
    BY <1>1, <2>1, <2>3, <2>4 DEF Windowed
  <2>5. ASSUME lab = "Lab03"
        PROVE got' <= COUNT /\ (rcv' # "done" => got' < COUNT) /\ (snd' = "done" => q' >= COUNT)
    BY <1>1, <2>1, <2>5 DEF Windowed
  <2> QED
    BY <2>1, <2>4, <2>5 DEF Windowed
<1> QED
  BY <1>2, <1>6, <1>7 DEF IInv

-----------------------------------------------------------------------------
(* The programs. *)

\* Numbers the programs send.
LEMMA Sizes02 == ASSUME NEW n \in Int PROVE Smaller(Chunk, n) \in Int
  BY Constants DEF Smaller

LEMMA Between ==
  ASSUME NEW a \in Int, NEW b \in Int, NEW n
  PROVE  n \in a .. b <=> n \in Int /\ a <= n /\ n <= b
  OBVIOUS

LEMMA SizeRange == Missing = -1 /\ Missing \in Int /\ MaxSize \in Int /\ MaxSize >= 0
  BY SMT DEF Missing, MaxSize

LEMMA Digits ==
  ASSUME NEW n \in Missing .. MaxSize
  PROVE  TwoDigits(n) \in Int /\ (n >= 100 => TwoDigits(n) \in 10 .. 99)
<1>0. n \in Int /\ n <= 2147483647
  <2>1. n \in Int /\ n <= MaxSize
    BY SizeRange, Between
  <2> QED
    BY <2>1, SMT DEF MaxSize
<1>1. CASE n < 100
  BY <1>0, <1>1, SMT DEF TwoDigits
<1>2. CASE n >= 100
  <2>1. \E p \in Powers : n \div p \in 10 .. 99
    <3>1. \/ n \div 10 \in 10 .. 99 \/ n \div 100 \in 10 .. 99 \/ n \div 1000 \in 10 .. 99
          \/ n \div 10000 \in 10 .. 99 \/ n \div 100000 \in 10 .. 99
          \/ n \div 1000000 \in 10 .. 99 \/ n \div 10000000 \in 10 .. 99
          \/ n \div 100000000 \in 10 .. 99
      BY <1>0, <1>2, SMTT(30)
    <3> QED
      BY <3>1, SMT DEF Powers
  <2>2. \E d \in 10 .. 99 : \E p \in Powers : n \div p = d
    BY <2>1
  <2>3. TwoDigits(n) = CHOOSE d \in 10 .. 99 : \E p \in Powers : n \div p = d
    <3>1. ~(n < 100)
      BY <1>0, <1>2, SMT
    <3> QED
      BY <3>1, Zenon DEF TwoDigits
  <2>4. TwoDigits(n) \in 10 .. 99
    BY <2>2, <2>3, Zenon
  <2> QED
    BY <2>4
<1> QED
  BY <1>0, <1>1, <1>2, SMT

LEMMA NameType == ASSUME Typed PROVE Name \in Message /\ ACK \in Message /\ Hello \in Message
<1>1. ACK \in Message /\ Hello \in Message
  BY Messages DEF ACK, Hello
<1>2. Name \in Message
  BY Digits DEF Name, Plain, Message, Typed
<1> QED
  BY <1>1, <1>2

\* The hello of a program that is started is not counted.
LEMMA GreetingCounts ==
  ASSUME NEW S, NEW e \in S
  PROVE  /\ Append(<< >>, e) \in Seq(S) /\ Append(<< >>, e) # << >>
         /\ Waiting(Append(<< >>, e), FALSE) = 0 /\ Waiting(<< >>, FALSE) = 0
<1>1. << >> \in Seq(S) /\ Len(<< >>) = 0
  OBVIOUS
<1>2. Append(<< >>, e) \in Seq(S) /\ Append(<< >>, e) # << >> /\ Len(Append(<< >>, e)) = 1
  BY <1>1, AppendOf
<1> QED
  BY <1>1, <1>2 DEF Waiting

\* A receiver is started.
LEMMA StartRecvKeeps ==
  ASSUME IInv, rcv = "off", rcv' # "off", s2' = Append(s2, Hello),
         UNCHANGED <<link_up1, link_up2, buffer, in_flight, box1, box2, s1, snd>>,
         UNCHANGED <<size, pos, bytes, q, i, got, lab, resent>>,
         rcv' # "done"
  PROVE  IInv'
<1>1. Typed /\ Greeted /\ Answered /\ Counted /\ Windowed
  BY DEF IInv
<1>2. s2 = << >> /\ link_up2 = FALSE
  BY <1>1 DEF Greeted, Typed
<1>3. /\ s2' \in Seq(Message) /\ s2' # << >>
      /\ Waiting(s2', link_up2') = 0 /\ Waiting(s2, link_up2) = 0
  BY <1>1, <1>2, NameType, GreetingCounts
<1>4. Typed'
  BY <1>1, <1>3 DEF Typed, Message
<1>5. Greeted'
  BY <1>1, <1>3 DEF Greeted
<1>6. Answered'
  <2>1. Right(<< >>) /\ Hello.len = Parity(Hello.text)
    BY Messages DEF Right, Hello, Parity, Plain
  <2>2. Right(s2')
    <3>1. << >> \in Seq(Message)
      OBVIOUS
    <3> QED
      BY <1>1, <1>2, <2>1, <3>1, NameType, RightAppend
  <2> QED
    BY <1>1, <2>2 DEF Answered, Right
<1>7. UNCHANGED <<Waiting(s1, link_up1), Len(buffer), Len(in_flight), Len(box2), Len(box1)>>
  OBVIOUS
<1>8. Unanswered' = Unanswered /\ Answers' = Answers
  BY <1>3, <1>7 DEF Unanswered, Answers
<1>9. Allowed' = Allowed /\ Had' = Had
  BY DEF Allowed, Had
<1> QED
  BY <1>1, <1>4, <1>5, <1>6, <1>8, <1>9 DEF IInv, Counted, Windowed

\* A receiver answers: one message fewer at its port, one more answer.
LEMMA AnswerKeeps ==
  ASSUME IInv, box2 # << >>, box2' = Tail(box2), rcv # "off", rcv' # "off",
         NEW a \in Message, s2' = Append(s2, a), got' \in Nat,
         UNCHANGED <<link_up1, link_up2, buffer, in_flight, box1, s1, snd>>,
         UNCHANGED <<size, pos, bytes, q, i, lab, resent>>
  PROVE  /\ Typed' /\ Greeted' /\ Counted'
         /\ Answers' = Answers + 1 /\ Answers \in Nat
<1>1. Typed /\ Greeted /\ Counted
  BY DEF IInv
<1>2. s2 \in Seq(Message) /\ link_up2 \in BOOLEAN /\ box2 \in Seq(Message) /\ (~link_up2 => s2 # << >>)
  BY <1>1 DEF Typed, Greeted
<1>3. /\ s2' \in Seq(Message) /\ s2' # << >>
      /\ Waiting(s2', link_up2') = Waiting(s2, link_up2) + 1
  BY <1>2, AppendOf, WaitingAppend
<1>4. box2' \in Seq(Message) /\ Len(box2') = Len(box2) - 1
  BY <1>2, TailOf
<1>5. Typed'
  BY <1>1, <1>3, <1>4 DEF Typed, Message
<1>6. Greeted'
  BY <1>1, <1>3 DEF Greeted
<1>7. UNCHANGED <<Waiting(s1, link_up1), Len(buffer), Len(in_flight), Len(box1)>>
  OBVIOUS
<1>8. Unanswered' = Unanswered /\ Answers' = Answers + 1 /\ Answers \in Nat
  <2>1. /\ Waiting(s1, link_up1) \in Int /\ Len(buffer) \in Int /\ Len(in_flight) \in Int
        /\ Len(box2) \in Int /\ Waiting(s2, link_up2) \in Int /\ Len(box1) \in Int
        /\ Answers \in Nat
    BY <1>1, UnansweredNat
  <2>2. Unanswered' = Waiting(s1, link_up1) + Len(buffer) + Len(in_flight) + (Len(box2) - 1)
                        + (Waiting(s2, link_up2) + 1) + Len(box1)
    BY <1>3, <1>4, <1>7, Zenon DEF Unanswered
  <2>3. Answers' = Waiting(s2, link_up2) + 1 + Len(box1)
    BY <1>3, <1>7, Zenon DEF Answers
  <2>4. /\ Waiting(s1, link_up1) + Len(buffer) + Len(in_flight) + (Len(box2) - 1)
             + (Waiting(s2, link_up2) + 1) + Len(box1) = Unanswered
        /\ Waiting(s2, link_up2) + 1 + Len(box1) = Answers + 1
    BY ONLY <2>1, SMTT(30) DEF Unanswered, Answers
  <2> QED
    BY ONLY <2>1, <2>2, <2>3, <2>4, Zenon
<1>9. Allowed' = Allowed
  BY DEF Allowed
<1> QED
  BY <1>1, <1>5, <1>6, <1>8, <1>9 DEF Counted

LEMMA ReceiverKeeps ==
  ASSUME IInv, Lab02(Receiver)
  PROVE  IInv'
<1> USE DEF Lab02, winVars, linkVars
<1>1. CASE StartRecv
  <2>1. /\ rcv = "off" /\ rcv' = "name" /\ s2' = Append(s2, Hello)
        /\ UNCHANGED <<link_up1, link_up2, buffer, in_flight, box1, box2, s1, snd>>
        /\ UNCHANGED <<size, pos, bytes, q, i, got, lab, resent>>
    BY <1>1 DEF StartRecv
  <2> QED
    BY <2>1, StartRecvKeeps
<1>2. CASE ReadName \/ ReadChunk
  <2>1. rcv' # "off"
    BY <1>2 DEF ReadName, ReadChunk, Loop
  <2>2. Typed' /\ Greeted' /\ Counted'
    <3>1. /\ box2 # << >> /\ box2' = Tail(box2) /\ rcv # "off" /\ s2' = Append(s2, ACK)
          /\ UNCHANGED <<link_up1, link_up2, buffer, in_flight, box1, s1, snd>>
          /\ UNCHANGED <<size, pos, bytes, q, i, lab, resent>> /\ got' = got
      BY <1>2 DEF ReadName, ReadChunk
    <3>2. got' \in Nat
      BY <3>1 DEF IInv, Typed
    <3>3. ACK \in Message
      BY NameType DEF IInv
    <3> QED
      BY <2>1, <3>1, <3>2, <3>3, AnswerKeeps
  <2>3. lab' # "Lab03" /\ ~resent'
    BY <1>2 DEF IInv, Answered
  <2> QED
    BY <2>2, <2>3 DEF IInv, Answered, Windowed
<1> QED
  BY <1>1, <1>2 DEF Receiver

LEMMA SenderKeeps ==
  ASSUME IInv, Lab02(Sender)
  PROVE  IInv'
<1> USE DEF Lab02, winVars, linkVars
<1>1. Typed /\ Greeted /\ Counted /\ Answered /\ lab = "Lab02" /\ lab' = "Lab02"
  BY DEF IInv
<1>2. Answered' /\ Windowed'
  BY <1>1 DEF Answered, Windowed
<1>3. CASE StartSend
  <2>1. /\ snd = "off" /\ snd' = "wait" /\ s1' = s1 \o <<Hello, Name>>
        /\ UNCHANGED <<link_up1, link_up2, buffer, in_flight, box1, box2, s2, rcv>>
        /\ UNCHANGED <<size, pos, bytes, q, i, got, lab>>
    BY <1>3 DEF StartSend
  <2>2. s1 = << >> /\ link_up1 = FALSE
    BY <1>1, <2>1 DEF Greeted, Typed
  <2>3. s1' = <<Hello, Name>>
    BY <2>1, <2>2
  <2>4. s1' \in Seq(Message) /\ s1' # << >> /\ Len(s1') = 2
    BY <1>1, <2>3, NameType
  <2>5. Waiting(s1', link_up1') = 1 /\ Waiting(s1, link_up1) = 0
    BY <2>1, <2>2, <2>4 DEF Waiting
  <2>6. Typed'
    BY <1>1, <2>1, <2>4 DEF Typed, Message
  <2>7. Greeted'
    BY <1>1, <2>1, <2>4 DEF Greeted
  <2>8. UNCHANGED <<Waiting(s2, link_up2), Len(buffer), Len(in_flight), Len(box1), Len(box2)>>
    BY <2>1
  <2>9. Unanswered' = Unanswered + 1
    <3>1. /\ Len(buffer) \in Nat /\ Len(in_flight) \in Nat /\ Len(box2) \in Nat
          /\ Waiting(s2, link_up2) \in Nat /\ Len(box1) \in Nat
      BY <1>1, UnansweredNat
    <3>2. 1 + Len(buffer) + Len(in_flight) + Len(box2) + Waiting(s2, link_up2) + Len(box1)
            = Unanswered + 1
      BY ONLY <2>5, <3>1, SMTT(30) DEF Unanswered
    <3>3. Unanswered' = 1 + Len(buffer) + Len(in_flight) + Len(box2) + Waiting(s2, link_up2) + Len(box1)
      BY ONLY <2>5, <2>8, Zenon DEF Unanswered
    <3> QED
      BY ONLY <3>2, <3>3, Zenon
  <2>10. Unanswered <= 0 /\ Unanswered \in Nat /\ Allowed' = 1
    BY <1>1, <2>1, UnansweredNat DEF Counted, Allowed
  <2> QED
    BY <1>2, <2>6, <2>7, <2>9, <2>10 DEF IInv, Counted
<1>4. CASE NextChunk
  <2>1. /\ snd = "wait" /\ snd' # "off" /\ box1 # << >> /\ box1' = Tail(box1)
        /\ UNCHANGED <<link_up1, link_up2, buffer, in_flight, box2, s2, rcv>>
        /\ UNCHANGED <<size, bytes, q, i, got, lab>>
    BY <1>4 DEF NextChunk
  <2>2. \/ s1' = s1 /\ pos' = pos
        \/ \E n \in Int : s1' = Append(s1, Plain(n, pos)) /\ pos' = pos + n
    <3>1. Smaller(Chunk, size - pos) \in Int
      BY <1>1, Sizes02 DEF Typed
    <3> QED
      BY <1>4, <3>1 DEF NextChunk
  <2>3. /\ s1 \in Seq(Message) /\ link_up1 \in BOOLEAN /\ (~link_up1 => s1 # << >>) /\ pos \in Int
        /\ box1 \in Seq(Message)
    BY <1>1, <2>1 DEF Typed, Greeted
  <2>4. box1' \in Seq(Message) /\ Len(box1') = Len(box1) - 1
    BY <2>1, <2>3, TailOf
  <2>5. /\ s1' \in Seq(Message) /\ pos' \in Int /\ (~link_up1 => s1' # << >>)
        /\ Waiting(s1', link_up1') <= Waiting(s1, link_up1) + 1
        /\ Waiting(s1', link_up1') \in Nat
    <3>1. Waiting(s1, link_up1) \in Nat
      BY <1>1, UnansweredNat
    <3>2. CASE s1' = s1 /\ pos' = pos
      BY <2>1, <2>3, <3>1, <3>2
    <3>3. ASSUME NEW n \in Int, s1' = Append(s1, Plain(n, pos)), pos' = pos + n
          PROVE  /\ s1' \in Seq(Message) /\ pos' \in Int /\ s1' # << >>
                 /\ Waiting(s1', link_up1') = Waiting(s1, link_up1) + 1
      <4>1. Plain(n, pos) \in Message
        BY <2>3, Messages
      <4> QED
        BY <2>1, <2>3, <3>1, <3>3, <4>1, AppendOf, WaitingAppend
    <3> QED
      BY <2>2, <3>1, <3>2, <3>3
  <2>6. Typed'
    BY <1>1, <2>1, <2>4, <2>5 DEF Typed, Message
  <2>7. Greeted'
    BY <1>1, <2>1, <2>5 DEF Greeted
  <2>8. UNCHANGED <<Waiting(s2, link_up2), Len(buffer), Len(in_flight), Len(box2)>>
    BY <2>1
  <2>9. Unanswered' <= Unanswered /\ Unanswered \in Nat
    <3>1. /\ Waiting(s1, link_up1) \in Int /\ Len(buffer) \in Int /\ Len(in_flight) \in Int
          /\ Len(box2) \in Int /\ Waiting(s2, link_up2) \in Int /\ Len(box1) \in Int
          /\ Unanswered \in Nat
      BY <1>1, UnansweredNat
    <3>2. Unanswered' = Waiting(s1', link_up1') + Len(buffer) + Len(in_flight) + Len(box2)
                          + Waiting(s2, link_up2) + (Len(box1) - 1)
      BY <2>4, <2>8, Zenon DEF Unanswered
    <3>3. ASSUME NEW w \in Int, w <= Waiting(s1, link_up1) + 1
          PROVE  w + Len(buffer) + Len(in_flight) + Len(box2) + Waiting(s2, link_up2)
                   + (Len(box1) - 1) <= Unanswered
      BY ONLY <3>1, <3>3, SMTT(30) DEF Unanswered
    <3>4. Waiting(s1', link_up1') \in Int /\ Waiting(s1', link_up1') <= Waiting(s1, link_up1) + 1
      BY <2>5
    <3> QED
      BY ONLY <3>1, <3>2, <3>3, <3>4, Zenon
  <2>11. Unanswered' \in Nat
    BY <2>6, NatsNext DEF Nats
  <2>10. Unanswered <= 1 /\ Allowed' = 1
    BY <1>1, <2>1 DEF Counted, Allowed
  <2> QED
    BY <1>2, <2>6, <2>7, <2>9, <2>10, <2>11 DEF IInv, Counted
<1> QED
  BY <1>3, <1>4 DEF Sender

LEMMA StartSenderKeeps ==
  ASSUME IInv, Lab03(StartSender)
  PROVE  IInv'
<1> USE DEF Lab03, swVars, linkVars
<1>1. Typed /\ Greeted /\ Answered /\ Counted /\ Windowed
  BY DEF IInv
<1>2. /\ snd = "off" /\ snd' = "send" /\ s1' = Append(s1, Hello) /\ lab = "Lab03"
      /\ UNCHANGED <<link_up1, link_up2, buffer, in_flight, box1, box2, s2, rcv>>
      /\ UNCHANGED <<size, pos, bytes, q, i, got, lab, resent>>
  BY DEF StartSender
<1>3. s1 = << >> /\ link_up1 = FALSE
  BY <1>1, <1>2 DEF Greeted, Typed
<1>4. /\ s1' \in Seq(Message) /\ s1' # << >>
      /\ Waiting(s1', link_up1') = 0 /\ Waiting(s1, link_up1) = 0
  BY <1>1, <1>2, <1>3, NameType, GreetingCounts
<1>5. Typed'
  BY <1>1, <1>2, <1>4 DEF Typed, Message
<1>6. Greeted'
  BY <1>1, <1>2, <1>4 DEF Greeted
<1>7. Answered'
  BY <1>1, <1>2 DEF Answered, Right
<1>8. UNCHANGED <<Waiting(s2, link_up2), Len(buffer), Len(in_flight), Len(box2), Len(box1)>>
  BY <1>2
<1>9. Unanswered' = Unanswered /\ Answers' = Answers
  BY <1>4, <1>8 DEF Unanswered, Answers
<1>10. Counted'
  <2>1. Unanswered \in Nat /\ Unanswered <= 0 /\ i \in Nat
    BY <1>1, <1>2, UnansweredNat DEF Counted, Allowed, Typed
  <2>2. Allowed' = i
    BY <1>2 DEF Allowed
  <2>3. Unanswered <= i
    BY <2>1
  <2> QED
    BY ONLY <1>9, <2>2, <2>3, Zenon DEF Counted
<1>11. Had' = Had
  BY <1>2 DEF Had
<1>12. Windowed'
  BY <1>1, <1>2, <1>9, <1>11 DEF Windowed
<1> QED
  BY <1>5, <1>6, <1>7, <1>10, <1>12 DEF IInv

LEMMA SendWordKeeps ==
  ASSUME IInv, Lab03(SendWord)
  PROVE  IInv'
<1> USE DEF Lab03, swVars, linkVars
<1>1. Typed /\ Greeted /\ Answered /\ Counted /\ Windowed
  BY DEF IInv
<1>2. /\ snd = "send" /\ t' = Read(q * Window + i) /\ s1' = Append(s1, t') /\ lab = "Lab03"
      /\ UNCHANGED <<link_up1, link_up2, buffer, in_flight, box1, box2, s2, rcv>>
      /\ UNCHANGED <<size, pos, bytes, got, lab, resent>>
      /\ Turn(Window, snd' = "await" /\ UNCHANGED q)
  BY DEF SendWord
<1>3. q' = q /\ i' \in 0 .. Window - 1
      /\ \/ snd' = "send" /\ i' = i + 1
         \/ snd' = "await" /\ i' = 0 /\ i = Window - 1
  <2>1. i \in 0 .. Window - 1 /\ Window \in Nat \ {0}
    BY <1>1, Constants DEF Typed
  <2>2. CASE i + 1 < Window
    BY <1>2, <2>1, <2>2 DEF Turn
  <2>3. CASE ~(i + 1 < Window)
    BY <1>2, <2>1, <2>3 DEF Turn
  <2> QED
    BY <2>2, <2>3
<1>4. t' \in Message
  <2>1. q * Window + i \in Int
    <3>1. q * Window \in Int /\ i \in Int
      BY <1>1, HadInt, Constants DEF Typed
    <3> QED
      BY <3>1
  <2>2. \A n \in Int : Read(n) \in Message
    BY <1>1, Messages DEF Read, Typed
  <2> QED
    BY <1>2, <2>1, <2>2
<1>5. s1 \in Seq(Message) /\ link_up1 \in BOOLEAN /\ (~link_up1 => s1 # << >>)
  BY <1>1, <1>2 DEF Typed, Greeted
<1>6. s1' \in Seq(Message) /\ s1' # << >> /\ Waiting(s1', link_up1') = Waiting(s1, link_up1) + 1
  BY <1>2, <1>4, <1>5, AppendOf, WaitingAppend
<1>7. Typed'
  BY <1>1, <1>2, <1>3, <1>6 DEF Typed, Message
<1>8. Greeted'
  BY <1>1, <1>2, <1>3, <1>6 DEF Greeted
<1>9. Answered'
  BY <1>1, <1>2 DEF Answered, Right
<1>10. UNCHANGED <<Waiting(s2, link_up2), Len(buffer), Len(in_flight), Len(box2), Len(box1)>>
  BY <1>2
<1>11. Answers' = Answers
  BY <1>10 DEF Answers
<1>12. Counted'
  <2>1. Unanswered' = Waiting(s1, link_up1) + 1 + Len(buffer) + Len(in_flight) + Len(box2)
                        + Waiting(s2, link_up2) + Len(box1)
    BY <1>6, <1>10, Zenon DEF Unanswered
  <2>2. Unanswered <= i /\ i \in Int
    BY <1>1, <1>2, Constants DEF Counted, Allowed, Typed
  <2>3. Waiting(s1, link_up1) + 1 + Len(buffer) + Len(in_flight) + Len(box2)
          + Waiting(s2, link_up2) + Len(box1) <= i + 1
    <3>1. /\ Waiting(s1, link_up1) \in Nat /\ Waiting(s2, link_up2) \in Nat
          /\ Len(buffer) \in Nat /\ Len(in_flight) \in Nat /\ Len(box1) \in Nat /\ Len(box2) \in Nat
      BY <1>1, UnansweredNat
    <3>2. Waiting(s1, link_up1) + Len(buffer) + Len(in_flight) + Len(box2)
            + Waiting(s2, link_up2) + Len(box1) <= i
      BY <2>2, Zenon DEF Unanswered
    <3> QED
      BY ONLY <2>2, <3>1, <3>2, SMTT(30)
  <2>4. Allowed' = i + 1
    <3>1. CASE snd' = "send" /\ i' = i + 1
      BY <1>2, <3>1 DEF Allowed
    <3>2. CASE snd' = "await" /\ i' = 0 /\ i = Window - 1
      BY <1>2, <3>2, Constants DEF Allowed
    <3> QED
      BY <1>3, <3>1, <3>2
  <2> QED
    BY ONLY <2>1, <2>3, <2>4, Zenon DEF Counted
<1>13. Had' = Had
  <2>1. Had = q * Window /\ q * Window \in Nat
    BY <1>1, <1>2, HadInt DEF Had
  <2>2. Had' = q * Window + 0
    BY <1>2, <1>3 DEF Had
  <2> QED
    BY <2>1, <2>2
<1>14. Windowed'
  BY <1>1, <1>2, <1>3, <1>11, <1>13 DEF Windowed
<1> QED
  BY <1>7, <1>8, <1>9, <1>12, <1>14 DEF IInv

LEMMA GetAnswerKeeps ==
  ASSUME IInv, Lab03(GetAnswer)
  PROVE  IInv'
<1> USE DEF Lab03, swVars, linkVars
<1>1. Typed /\ Greeted /\ Answered /\ Counted /\ Windowed
  BY DEF IInv
<1>2. /\ snd = "await" /\ box1 # << >> /\ box1' = Tail(box1) /\ lab = "Lab03"
      /\ UNCHANGED <<link_up1, link_up2, buffer, in_flight, box2, s2, rcv>>
      /\ UNCHANGED <<size, pos, bytes, got, lab>>
      /\ Turn(Window, q' = q + 1 /\ snd' = IF q + 1 < COUNT THEN "send" ELSE "done")
  BY DEF GetAnswer
<1>3. i' \in 0 .. Window - 1 /\ q' \in Nat
      /\ \/ snd' = "await" /\ i' = i + 1 /\ q' = q
         \/ i' = 0 /\ i = Window - 1 /\ q' = q + 1
            /\ (snd' = "send" \/ (snd' = "done" /\ q + 1 >= COUNT))
  <2>1. i \in 0 .. Window - 1 /\ Window \in Nat \ {0} /\ q \in Nat /\ COUNT \in Nat
    BY <1>1, Constants DEF Typed
  <2>2. CASE i + 1 < Window
    BY <1>2, <2>1, <2>2 DEF Turn
  <2>3. CASE ~(i + 1 < Window)
    BY <1>2, <2>1, <2>3 DEF Turn
  <2> QED
    BY <2>2, <2>3
<1>4. Head(box1).len = Parity(Head(box1).text) /\ Right(Tail(box1))
  BY <1>1, <1>2, RightTail DEF Answered, Typed
<1>5. UNCHANGED <<s1, resent>>
  BY <1>4 DEF GetAnswer
<1>6. box1' \in Seq(Message) /\ Len(box1') = Len(box1) - 1
  BY <1>1, <1>2, TailOf DEF Typed
<1>7. Typed'
  BY <1>1, <1>2, <1>3, <1>5, <1>6 DEF Typed, Message
<1>8. Greeted'
  BY <1>1, <1>2, <1>3, <1>5 DEF Greeted
<1>9. Answered'
  BY <1>1, <1>2, <1>4, <1>5 DEF Answered, Right
<1>10. UNCHANGED <<Waiting(s1, link_up1), Waiting(s2, link_up2), Len(buffer), Len(in_flight),
                   Len(box2)>>
  BY <1>2, <1>5
<1>11. Answers' = Waiting(s2, link_up2) + (Len(box1) - 1)
  BY <1>6, <1>10, Zenon DEF Answers
<1>12. Counted'
  <2>1. Unanswered' = Waiting(s1, link_up1) + Len(buffer) + Len(in_flight) + Len(box2)
                        + Waiting(s2, link_up2) + (Len(box1) - 1)
    BY <1>6, <1>10, Zenon DEF Unanswered
  <2>2. Unanswered <= Window - i /\ i \in Int /\ Window \in Nat
    BY <1>1, <1>2, Constants DEF Counted, Allowed, Typed
  <2>3. Waiting(s1, link_up1) + Len(buffer) + Len(in_flight) + Len(box2)
          + Waiting(s2, link_up2) + (Len(box1) - 1) <= Window - i - 1
    <3>1. /\ Waiting(s1, link_up1) \in Nat /\ Waiting(s2, link_up2) \in Nat
          /\ Len(buffer) \in Nat /\ Len(in_flight) \in Nat /\ Len(box1) \in Nat /\ Len(box2) \in Nat
      BY <1>1, UnansweredNat
    <3>2. Waiting(s1, link_up1) + Len(buffer) + Len(in_flight) + Len(box2)
            + Waiting(s2, link_up2) + Len(box1) <= Window - i
      BY <2>2, Zenon DEF Unanswered
    <3> QED
      BY ONLY <2>2, <3>1, <3>2, SMTT(30)
  <2>4. Allowed' = Window - i - 1
    <3>1. CASE snd' = "await" /\ i' = i + 1
      <4>1. Allowed' = Window - (i + 1)
        BY <1>2, <3>1 DEF Allowed
      <4> QED
        BY <2>2, <4>1
    <3>2. CASE i' = 0 /\ i = Window - 1 /\ snd' \in {"send", "done"}
      <4>1. Allowed' = 0
        BY <1>2, <3>2 DEF Allowed
      <4> QED
        BY <2>2, <3>2, <4>1
    <3> QED
      BY <1>3, <3>1, <3>2
  <2> QED
    BY ONLY <2>1, <2>3, <2>4, Zenon DEF Counted
<1>13. Had' = q * Window + i + 1
  <2>1. q \in Nat /\ i \in Int /\ Window \in Nat
    BY <1>1, Constants DEF Typed
  <2>2. CASE snd' = "await" /\ i' = i + 1 /\ q' = q
    <3>1. Had' = q * Window + (i + 1)
      BY <2>2 DEF Had
    <3> QED
      BY <2>1, <3>1
  <2>3. CASE i' = 0 /\ i = Window - 1 /\ q' = q + 1 /\ snd' # "await"
    <3>1. Had' = (q + 1) * Window + 0
      BY <2>3 DEF Had
    <3>2. (q + 1) * Window + 0 = q * Window + i + 1
      BY <2>1, <2>3
    <3> QED
      BY <3>1, <3>2
  <2> QED
    BY <1>3, <2>2, <2>3
<1>14. Windowed'
  <2>1. q * Window + i + (Waiting(s2, link_up2) + Len(box1)) <= got
    BY <1>1, <1>2 DEF Windowed, Had, Answers
  <2>2. q * Window \in Int /\ i \in Int /\ got \in Int
    BY <1>1, HadInt, Constants DEF Typed
  <2>3. q * Window + i + 1 + (Waiting(s2, link_up2) + (Len(box1) - 1)) <= got
    <3>1. Waiting(s2, link_up2) \in Nat /\ Len(box1) \in Nat
      BY <1>1, UnansweredNat
    <3> QED
      BY ONLY <2>1, <2>2, <3>1
  <2>4. Had' + Answers' <= got'
    BY ONLY <1>2, <1>11, <1>13, <2>3, Zenon
  <2>5. got' <= COUNT /\ (rcv' # "done" => got' < COUNT)
    BY <1>1, <1>2 DEF Windowed
  <2>6. snd' = "done" => q' >= COUNT
    BY <1>3
  <2> QED
    BY ONLY <2>4, <2>5, <2>6 DEF Windowed
<1> QED
  BY <1>7, <1>8, <1>9, <1>12, <1>14 DEF IInv

LEMMA EchoKeeps ==
  ASSUME IInv, Lab03(Echo)
  PROVE  IInv'
<1> USE DEF Lab03, swVars, linkVars
<1>1. Typed /\ Greeted /\ Answered /\ Windowed
  BY DEF IInv
<1>2. /\ box2 # << >> /\ box2' = Tail(box2) /\ rcv = "recv" /\ s2' = Append(s2, Checked(Head(box2)))
      /\ got' = got + 1 /\ (rcv' = IF got' < COUNT THEN "recv" ELSE "done") /\ lab = "Lab03"
      /\ UNCHANGED <<link_up1, link_up2, buffer, in_flight, box1, s1, snd>>
      /\ UNCHANGED <<size, pos, bytes, q, i, lab, resent>>
  BY DEF Echo, More
<1>3. Checked(Head(box2)) \in Message /\ Checked(Head(box2)).len = Parity(Checked(Head(box2)).text)
  <2>1. Head(box2) \in Message
    BY <1>1, <1>2, TailOf DEF Typed
  <2>2. TwoDigits(size) = 0
    BY <1>1, <1>2 DEF Typed, TwoDigits
  <2>3. Head(box2).text \in Int
    BY <2>1, <2>2 DEF Message
  <2>4. Parity(Head(box2).text) \in Int
    BY <2>3 DEF Parity
  <2> QED
    BY <2>1, <2>4 DEF Checked, Message
<1>4. Typed' /\ Greeted' /\ Counted' /\ Answers' = Answers + 1 /\ Answers \in Nat
  <2>1. rcv # "off" /\ rcv' # "off" /\ got' \in Nat
    BY <1>1, <1>2 DEF Typed
  <2> QED
    BY <1>2, <1>3, <2>1, AnswerKeeps
<1>5. Answered'
  <2>1. s2 \in Seq(Message) /\ Right(s2)
    BY <1>1, <1>2 DEF Typed, Answered
  <2>2. Right(Append(s2, Checked(Head(box2))))
    BY <1>3, <2>1, RightAppend
  <2> QED
    BY <1>1, <1>2, <2>2 DEF Answered, Right
<1>6. Windowed'
  <2>1. Had + Answers <= got /\ got < COUNT /\ (snd = "done" => q >= COUNT)
    BY <1>1, <1>2 DEF Windowed
  <2>2. Had' = Had
    BY <1>2 DEF Had
  <2>3. Had \in Int /\ Answers \in Int /\ got \in Nat /\ COUNT \in Nat
    BY <1>1, <1>4, HadInt, Constants DEF Typed
  <2>4. Had + (Answers + 1) <= got + 1 /\ got + 1 <= COUNT
    BY <2>1, <2>3
  <2>5. Had' + Answers' <= got' /\ got' <= COUNT
    BY ONLY <1>2, <1>4, <2>2, <2>4, Zenon
  <2>6. rcv' # "done" => got' < COUNT
    BY <1>2
  <2>7. snd' = "done" => q' >= COUNT
    BY <1>2, <2>1
  <2> QED
    BY ONLY <2>5, <2>6, <2>7 DEF Windowed
<1> QED
  BY <1>4, <1>5, <1>6 DEF IInv

LEMMA StartReceiverKeeps ==
  ASSUME IInv, Lab03(StartReceiver)
  PROVE  IInv'
<1>1. /\ rcv = "off" /\ rcv' = "recv" /\ s2' = Append(s2, Hello)
      /\ UNCHANGED <<link_up1, link_up2, buffer, in_flight, box1, box2, s1, snd>>
      /\ UNCHANGED <<size, pos, bytes, q, i, got, lab, resent>>
  BY DEF Lab03, StartReceiver, swVars, linkVars
<1> QED
  BY <1>1, StartRecvKeeps

-----------------------------------------------------------------------------
(* The invariant. *)

LEMMA Initially == Init => IInv
<1> SUFFICES ASSUME Init PROVE IInv
  OBVIOUS
<1> USE DEF Init, LinkInit
<1>1. Typed
  <2>1. size \in Missing .. MaxSize /\ bytes \in Missing .. MaxSize /\ size \in Int /\ bytes \in Int
    <3>1. 0 <= MaxSize /\ Missing <= 0
      BY SizeRange, SMT
    <3>2. 0 \in Missing .. MaxSize
      BY <3>1, SizeRange, Between
    <3>3. size \in Missing .. MaxSize /\ bytes \in Missing .. MaxSize
      BY <3>2, LabsAssumption DEF LabsAssumption
    <3> QED
      BY <3>3, SizeRange, Between
  <2>2. q \in Nat /\ i \in 0 .. Window - 1 /\ got \in Nat /\ pos \in Int
    BY Constants
  <2>3. << >> \in Seq(Message)
    OBVIOUS
  <2>4. /\ s1 \in Seq(Message) /\ s2 \in Seq(Message) /\ buffer \in Seq(Message) /\ in_flight \in Seq(Message)
        /\ box1 \in Seq(Message) /\ box2 \in Seq(Message) /\ link_up1 \in BOOLEAN /\ link_up2 \in BOOLEAN
    BY <2>3, Zenon
  <2>5. lab \in {"Lab02", "Lab03"} /\ (lab = "Lab03" => size = 0)
    OBVIOUS
  <2> QED
    BY ONLY <2>1, <2>2, <2>4, <2>5, Zenon DEF Typed
<1>2. Greeted /\ Answered
  BY DEF Greeted, Answered, Right
<1>3. Unanswered = 0 /\ Answers = 0
  <2>1. Waiting(s1, link_up1) = 0 /\ Waiting(s2, link_up2) = 0
    BY DEF Waiting
  <2>2. Len(buffer) = 0 /\ Len(in_flight) = 0 /\ Len(box1) = 0 /\ Len(box2) = 0
    OBVIOUS
  <2> QED
    BY <2>1, <2>2 DEF Unanswered, Answers
<1>4. Counted
  BY <1>3 DEF Counted, Allowed
<1>5. Windowed
  <2>1. Had = 0
    BY Constants DEF Had
  <2> QED
    BY <1>3, <2>1, Constants DEF Windowed
<1> QED
  BY <1>1, <1>2, <1>4, <1>5 DEF IInv

LEMMA Inductive == IInv /\ [Next]_vars => IInv'
<1> SUFFICES ASSUME IInv, [Next]_vars PROVE IInv'
  OBVIOUS
<1>1. CASE Emulator(Link)
  <2>1. Kept2
    BY <1>1 DEF Emulator, Link, Register1, Register2, Forward, PutInFlight, Deliver, SendBack,
                swVars, winVars, Kept2
  <2>2. Fewer
    BY <1>1, <2>1, LinkKeeps DEF Emulator, IInv
  <2> QED
    BY <2>1, <2>2, FewerKeeps
<1>2. CASE Lab02(Transfer)
  BY <1>2, SenderKeeps, ReceiverKeeps DEF Lab02, Transfer
<1>3. CASE Lab03(Transmit)
  BY <1>3, StartSenderKeeps, SendWordKeeps, GetAnswerKeeps, StartReceiverKeeps, EchoKeeps
  DEF Lab03, Transmit
<1>4. CASE UNCHANGED vars
  <2>1. UNCHANGED <<link_up1, link_up2, s1, s2, buffer, in_flight, box1, box2>> /\ Kept2
    BY <1>4 DEF vars, linkVars, swVars, winVars, Kept2
  <2>2. Typed /\ Greeted /\ Answered
    BY DEF IInv
  <2>3. Typed' /\ Greeted' /\ Answered'
    BY <2>1, <2>2 DEF Typed, Message, Greeted, Answered, Right, Kept2
  <2>4. Unanswered' = Unanswered /\ Answers' = Answers
    BY <2>1 DEF Unanswered, Answers
  <2>5. Unanswered \in Nat /\ Answers \in Nat
    BY <2>2, UnansweredNat
  <2> QED
    BY <2>1, <2>3, <2>4, <2>5, FewerKeeps DEF Fewer
<1> QED
  BY <1>1, <1>2, <1>3, <1>4 DEF Next

LEMMA Always == Spec => []IInv
  BY Initially, Inductive, PTL DEF Spec

-----------------------------------------------------------------------------
(* What follows from it. *)

\* The types: the sockets and queues hold messages, the loops' variables are numbers, and the
\* sender of Lab03 is within its window.
THEOREM TypesKept == Spec => []Typed
<1>1. IInv => Typed
  BY DEF IInv
<1> QED
  BY <1>1, Always, PTL

\* However the threads run and whatever the emulator loses or changes, no more than one
\* message of Lab02 and one window of Lab03 is under way or unanswered (send.c of both).
THEOREM KeptToWindow == Spec => []WithinWindow
<1>1. IInv => WithinWindow
  <2> SUFFICES ASSUME IInv PROVE WithinWindow
    OBVIOUS
  <2>1. Typed /\ Unanswered <= Allowed
    BY DEF IInv, Counted
  <2>2. Unanswered \in Nat
    BY <2>1, UnansweredNat
  <2>3. CASE lab = "Lab02"
    BY <2>1, <2>2, <2>3 DEF Allowed, WithinWindow
  <2>4. CASE lab # "Lab02"
    <3>1. i \in Nat /\ Window \in Nat /\ i <= Window
      BY <2>1, Constants DEF Typed
    <3>2. Allowed <= Window /\ Allowed \in Int
      BY <3>1, <2>4 DEF Allowed
    <3> QED
      BY <2>1, <2>2, <2>4, <3>1, <3>2 DEF WithinWindow
  <2> QED
    BY <2>3, <2>4
<1> QED
  BY <1>1, Always, PTL

\* The sender of Lab03 sends no word a second time (send.c compares each answer with the
\* parity the receiver has just computed from it).
THEOREM SentOnce == Spec => []NeverResends
<1>1. IInv => NeverResends
  BY DEF IInv, Answered, NeverResends
<1> QED
  BY <1>1, Always, PTL

\* Quotients: q * w <= n bounds q.
LEMMA Quotient ==
  ASSUME NEW n \in Nat, NEW w \in Nat \ {0}, NEW k \in Nat, k * w <= n
  PROVE  k <= n \div w
  OBVIOUS

\* The sender of Lab03 has no more answers than the receiver got words, so with a window of
\* more than one word it stays in one of its windows and never ends (its loops, and that of
\* recv.c, which ends after COUNT words).
THEOREM StopsShort == Spec => []WindowsBounded
<1>1. IInv => WindowsBounded
  <2> SUFFICES ASSUME IInv, lab = "Lab03" PROVE WindowsBounded
    BY DEF WindowsBounded
  <2>1. Typed /\ Had + Answers <= got /\ got <= COUNT /\ (snd = "done" => q >= COUNT)
    BY DEF IInv, Windowed
  <2>2. /\ Had \in Int /\ Answers \in Nat /\ got \in Nat /\ q \in Nat /\ q * Window \in Nat
        /\ i \in Nat /\ COUNT \in Nat \ {0} /\ Window \in Nat \ {0}
    BY <2>1, HadInt, UnansweredNat, Constants DEF Typed
  <2>3. Had <= got
    BY <2>1, <2>2
  <2>4. q * Window <= COUNT
    BY <2>1, <2>2, <2>3 DEF Had
  <2>5. q <= COUNT \div Window
    BY <2>2, <2>4, Quotient
  <2>6. ASSUME Window > 1, q >= COUNT PROVE FALSE
    <3>1. q * 2 <= q * Window
      BY <2>2, <2>6
    <3> QED
      BY <2>2, <2>4, <2>6, <3>1
  <2> QED
    BY <2>1, <2>3, <2>5, <2>6 DEF WindowsBounded, Had
<1> QED
  BY <1>1, Always, PTL

-----------------------------------------------------------------------------
(* The file of Lab02. *)

\* Where the next chunk begins, and how much of the sender's file the receiver has got.
Start == Len(written) * Chunk
Reached == IF written = << >> THEN 0 ELSE Smaller(Start, size)

\* The next chunk of the file, and the message the receiver is waiting for.
NextOne(m) == /\ Start < size /\ m.len = Smaller(Chunk, size - Start)
              /\ m.bad \/ m.text = Start
              /\ pos = Start + m.len
Expected(m) == IF rcv \in {"off", "name"} THEN m.bad \/ m.text = TwoDigits(size) ELSE NextOne(m)

\* The messages between the sender and the receiver, without the hello.
Held(s) == {s[k] : k \in DOMAIN s}
Sent(s, registered) == {s[k] : k \in {n \in DOMAIN s : n > 1 \/ registered}}
OnTheWay == Sent(s1, link_up1) \cup Held(buffer) \cup Held(in_flight) \cup Held(box2)

\* The inductive invariant: the one message under way is the one the receiver waits for, or an
\* answer says that the receiver has all the sender has read.
Chunks == /\ written \in Seq(Message) /\ WrittenInOrder
          /\ written # << >> => (Len(written) - 1) * Chunk < size
          /\ Reached <= pos
Told == /\ rcv \in {"data", "done"} => misled \/ left = TwoDigits(size) - Reached
        /\ rcv = "done" => left = 0
        /\ left \in Int
Turns == /\ \A m \in OnTheWay : Expected(m)
         /\ rcv \in {"off", "name"} => written = << >> /\ pos = 0
         /\ Answers > 0 => rcv \notin {"off", "name"} /\ pos = Reached
         /\ snd = "off" => rcv \in {"off", "name"}
         /\ snd = "done" => pos = Reached /\ pos = size
Copied == IF lab = "Lab02" THEN Chunks /\ Told /\ Turns ELSE written = << >>

LEMMA HeldTail ==
  ASSUME NEW S, NEW s \in Seq(S), s # << >>
  PROVE  Held(Tail(s)) \subseteq Held(s) /\ Head(s) \in Held(s)
  BY TailOf DEF Held

LEMMA HeldAppend ==
  ASSUME NEW S, NEW s \in Seq(S), NEW e \in S
  PROVE  Held(Append(s, e)) \subseteq Held(s) \cup {e}
  BY AppendOf DEF Held

\* The hello is not among them, neither before the registration nor after it.
LEMMA SentTail ==
  ASSUME NEW S, NEW s \in Seq(S), s # << >>
  PROVE  /\ Sent(Tail(s), TRUE) \subseteq Sent(s, FALSE)
         /\ Sent(Tail(s), TRUE) \subseteq Sent(s, TRUE)
         /\ Head(s) \in Sent(s, TRUE)
<1>1. \A k \in DOMAIN Tail(s) : k + 1 \in DOMAIN s /\ Tail(s)[k] = s[k + 1] /\ k + 1 > 1
  BY TailOf
<1>2. Head(s) = s[1] /\ 1 \in DOMAIN s
  BY TailOf
<1> QED
  BY <1>1, <1>2 DEF Sent

LEMMA SentAppend ==
  ASSUME NEW S, NEW s \in Seq(S), NEW e \in S, NEW up
  PROVE  Sent(Append(s, e), up) \subseteq Sent(s, up) \cup {e}
  BY AppendOf DEF Sent

LEMMA NumbersOf ==
  ASSUME Typed, written \in Seq(Message)
  PROVE  /\ Len(written) \in Nat /\ Chunk \in Nat \ {0} /\ Start \in Nat /\ size \in Int
         /\ Reached \in Int /\ pos \in Int /\ TwoDigits(size) \in Int
<1>1. Len(written) \in Nat /\ Chunk \in Nat \ {0} /\ size \in Int /\ pos \in Int
  BY LabsAssumption DEF Typed, LabsAssumption
<1>2. Start \in Nat
  BY <1>1 DEF Start
<1>3. TwoDigits(size) \in Int
  BY Digits DEF Typed
<1> QED
  BY <1>1, <1>2, <1>3 DEF Reached, Smaller

LEMMA OneOfSix ==
  ASSUME NEW a \in Nat, NEW b \in Nat, NEW c \in Nat, NEW d \in Nat, NEW e \in Nat, NEW f \in Nat,
         a + b + c + d + e + f <= 1
  PROVE  /\ e + f > 0 => a = 0 /\ b = 0 /\ c = 0 /\ d = 0 /\ e + f = 1
         /\ d > 0 => a = 0 /\ b = 0 /\ c = 0 /\ d = 1 /\ e + f = 0
  OBVIOUS

\* With a message at the receiver, or an answer, there is nothing else.
LEMMA OneAtATime ==
  ASSUME Typed, Counted, lab = "Lab02"
  PROVE  /\ Answers > 0 => OnTheWay = {}
         /\ box2 # << >> => OnTheWay = {Head(box2)} /\ Answers = 0 /\ Tail(box2) = << >>
         /\ box2 # << >> => snd # "off"
         /\ box1 # << >> => Answers = 1
<1>1. /\ Waiting(s1, link_up1) \in Nat /\ Waiting(s2, link_up2) \in Nat
      /\ Len(buffer) \in Nat /\ Len(in_flight) \in Nat /\ Len(box1) \in Nat /\ Len(box2) \in Nat
  BY UnansweredNat
<1>2. Unanswered <= 1
  <2>1. Unanswered \in Nat /\ (Allowed = 0 \/ Allowed = 1)
    BY UnansweredNat DEF Allowed
  <2> QED
    BY <2>1 DEF Counted
<1>3. Waiting(s1, link_up1) + Len(buffer) + Len(in_flight) + Len(box2)
        + Waiting(s2, link_up2) + Len(box1) <= 1
  BY <1>2, Zenon DEF Unanswered
<1>4. Answers > 0 => /\ Waiting(s1, link_up1) = 0 /\ Len(buffer) = 0 /\ Len(in_flight) = 0
                     /\ Len(box2) = 0 /\ Answers = 1
  BY ONLY <1>1, <1>3, OneOfSix, SMTT(30) DEF Answers
<1>5. Len(box2) > 0 => /\ Waiting(s1, link_up1) = 0 /\ Len(buffer) = 0 /\ Len(in_flight) = 0
                       /\ Len(box2) = 1 /\ Answers = 0
  BY ONLY <1>1, <1>3, OneOfSix, SMTT(30) DEF Answers
<1>6. Waiting(s1, link_up1) = 0 => Sent(s1, link_up1) = {}
  <2>1. s1 \in Seq(Message) /\ link_up1 \in BOOLEAN
    BY DEF Typed
  <2>2. ASSUME Waiting(s1, link_up1) = 0, NEW n \in DOMAIN s1, n > 1 \/ link_up1 PROVE FALSE
    BY <2>1, <2>2 DEF Waiting
  <2> QED
    BY <2>2 DEF Sent
<1>7. \A s \in Seq(Message) : Len(s) = 0 => s = << >> /\ Held(s) = {}
  BY DEF Held
<1>8. buffer \in Seq(Message) /\ in_flight \in Seq(Message) /\ box2 \in Seq(Message)
      /\ box1 \in Seq(Message)
  BY DEF Typed
<1>9. Answers > 0 => OnTheWay = {}
  BY <1>4, <1>6, <1>7, <1>8 DEF OnTheWay
<1>10. ASSUME box2 # << >>
       PROVE  OnTheWay = {Head(box2)} /\ Answers = 0 /\ Tail(box2) = << >>
  <2>1. Len(box2) > 0
    BY <1>1, <1>7, <1>8, <1>10
  <2>2. Len(box2) = 1 /\ Answers = 0
    BY <1>5, <2>1
  <2>3. DOMAIN box2 = {1} /\ Head(box2) = box2[1] /\ Tail(box2) = << >>
    <3>1. Len(box2) = 1 /\ box2 \in Seq(Message)
      BY <1>8, <2>2
    <3>2. Tail(box2) \in Seq(Message) /\ Len(Tail(box2)) = 0 /\ Head(box2) = box2[1]
      BY <1>10, <3>1, TailOf
    <3>3. Tail(box2) = << >>
      BY <1>7, <3>2
    <3> QED
      BY <3>1, <3>2, <3>3
  <2>4. Held(box2) = {Head(box2)}
    BY <2>3 DEF Held
  <2> QED
    BY <1>5, <1>6, <1>7, <1>8, <2>1, <2>2, <2>3, <2>4 DEF OnTheWay
<1>11. ASSUME box1 # << >> PROVE Answers = 1
  <2>1. Len(box1) > 0
    BY <1>1, <1>7, <1>8, <1>11
  <2>2. Answers > 0
    BY <1>1, <2>1 DEF Answers
  <2> QED
    BY <1>4, <2>2
<1>12. ASSUME box2 # << >>, snd = "off" PROVE FALSE
  <2>1. Len(box2) > 0
    BY <1>1, <1>7, <1>8, <1>12
  <2>2. Unanswered > 0
    BY ONLY <1>1, <2>1, SMTT(30) DEF Unanswered
  <2> QED
    BY <1>12, <2>2, UnansweredNat DEF Counted, Allowed
<1> QED
  BY <1>9, <1>10, <1>11, <1>12

Busy == Typed /\ Counted /\ lab = "Lab02" /\ Answers > 0
Clear == OnTheWay = {}

LEMMA BusyNext == Busy' => Clear'
<1>1. Busy => Clear
  BY OneAtATime DEF Busy, Clear
<1> QED
  BY <1>1, PTL

\* A message the emulator has comes from one that was there, and is no other unless it is marked.
From(m) == \E x \in OnTheWay : m = x \/ (m.bad /\ m.len = x.len)

LEMMA Comes ==
  ASSUME Typed, Link
  PROVE  \A y \in OnTheWay' : From(y)
<1>1. /\ s1 \in Seq(Message) /\ s2 \in Seq(Message) /\ buffer \in Seq(Message)
      /\ in_flight \in Seq(Message) /\ box2 \in Seq(Message) /\ link_up1 \in BOOLEAN
  BY DEF Typed
<1>2. ASSUME OnTheWay' \subseteq OnTheWay PROVE \A y \in OnTheWay' : From(y)
  BY <1>2 DEF From
<1>3. CASE Register1
  <2>1. s1 # << >> /\ s1' = Tail(s1) /\ link_up1 = FALSE /\ link_up1' = TRUE
        /\ UNCHANGED <<buffer, in_flight, box2>>
    BY <1>1, <1>3 DEF Register1
  <2>2. Sent(s1', link_up1') \subseteq Sent(s1, link_up1)
    BY <1>1, <2>1, SentTail
  <2> QED
    BY <1>2, <2>1, <2>2 DEF OnTheWay
<1>4. CASE Register2 \/ SendBack
  BY <1>2, <1>4 DEF Register2, SendBack, OnTheWay
<1>5. CASE Forward
  <2>1. s1 # << >> /\ s1' = Tail(s1) /\ link_up1 = TRUE /\ link_up1' = TRUE
        /\ UNCHANGED <<in_flight, box2>>
    BY <1>1, <1>5 DEF Forward
  <2>2. Sent(s1', link_up1') \subseteq Sent(s1, link_up1) /\ Head(s1) \in Sent(s1, link_up1)
    BY <1>1, <2>1, SentTail
  <2>3. Head(s1) \in OnTheWay /\ Head(s1) \in Message
    BY <1>1, <2>1, <2>2, TailOf DEF OnTheWay
  <2>4. ASSUME NEW e \in Message, From(e), Held(buffer') \subseteq Held(buffer) \cup {e}
        PROVE  \A y \in OnTheWay' : From(y)
    <3>1. OnTheWay' \subseteq OnTheWay \cup {e}
      BY <2>1, <2>2, <2>4 DEF OnTheWay
    <3> QED
      BY <2>4, <3>1 DEF From
  <2>5. CASE buffer' = buffer
    BY <1>2, <2>1, <2>2, <2>5 DEF OnTheWay
  <2>6. CASE buffer' = Append(buffer, Head(s1))
    <3>1. From(Head(s1))
      BY <2>3 DEF From
    <3>2. Held(buffer') \subseteq Held(buffer) \cup {Head(s1)}
      BY <1>1, <2>3, <2>6, HeldAppend
    <3> QED
      BY <2>3, <2>4, <3>1, <3>2
  <2>7. ASSUME NEW txt \in Garbled \cup {Head(s1).text},
               buffer' = Append(buffer, [Head(s1) EXCEPT !.text = txt, !.bad = TRUE])
        PROVE  \A y \in OnTheWay' : From(y)
    <3> DEFINE e == [Head(s1) EXCEPT !.text = txt, !.bad = TRUE]
    <3>1. e \in Message
      BY <2>3, <2>7, ChangedType
    <3>2. e.bad /\ e.len = Head(s1).len
      BY <2>3 DEF Message
    <3>3. From(e)
      BY <2>3, <3>2 DEF From
    <3>4. Held(buffer') \subseteq Held(buffer) \cup {e}
      BY <1>1, <2>7, <3>1, HeldAppend
    <3> HIDE DEF e
    <3> QED
      BY <2>4, <3>1, <3>3, <3>4
  <2>8. PICK drop \in Dice(loss), bad \in Dice(corrupt) :
               IF drop \/ Len(buffer) >= BUFFER_SIZE THEN Dropped(Head(s1))
               ELSE IF bad THEN Changed(Head(s1)) ELSE Kept(Head(s1))
    BY <1>5 DEF Forward
  <2>9. CASE Dropped(Head(s1))
    BY <2>5, <2>9 DEF Dropped
  <2>10. CASE Kept(Head(s1))
    BY <2>6, <2>10 DEF Kept
  <2>11. CASE Changed(Head(s1))
    BY <2>5, <2>7, <2>11 DEF Changed
  <2> QED
    BY <2>8, <2>9, <2>10, <2>11
<1>6. CASE PutInFlight
  <2>1. /\ buffer # << >> /\ buffer' = Tail(buffer) /\ in_flight' = Append(in_flight, Head(buffer))
        /\ UNCHANGED <<s1, link_up1, box2>>
    BY <1>6 DEF PutInFlight
  <2>2. /\ Held(buffer') \subseteq Held(buffer) /\ Head(buffer) \in Held(buffer)
        /\ Head(buffer) \in Message
    BY <1>1, <2>1, HeldTail, TailOf
  <2>3. Held(in_flight') \subseteq Held(in_flight) \cup {Head(buffer)}
    BY <1>1, <2>1, <2>2, HeldAppend
  <2> QED
    BY <1>2, <2>1, <2>2, <2>3 DEF OnTheWay
<1>7. CASE Deliver
  <2>1. /\ in_flight # << >> /\ in_flight' = Tail(in_flight)
        /\ box2' = Append(box2, Head(in_flight)) \/ box2' = box2
        /\ UNCHANGED <<s1, link_up1, buffer>>
    BY <1>7 DEF Deliver
  <2>2. /\ Held(in_flight') \subseteq Held(in_flight) /\ Head(in_flight) \in Held(in_flight)
        /\ Head(in_flight) \in Message
    BY <1>1, <2>1, HeldTail, TailOf
  <2>3. Held(box2') \subseteq Held(box2) \cup {Head(in_flight)}
    BY <1>1, <2>1, <2>2, HeldAppend
  <2> QED
    BY <1>2, <2>1, <2>2, <2>3 DEF OnTheWay
<1> QED
  BY <1>3, <1>4, <1>5, <1>6, <1>7 DEF Link

\* What the two programs keep to themselves.
Aside == UNCHANGED <<lab, size, pos, left, written, misled, snd, rcv>>

\* So an emulator that moves, drops or changes messages leaves the invariant true.
LEMMA LinkCopies ==
  ASSUME IInv, Copied, IInv', Aside, Answers' <= Answers, \A y \in OnTheWay' : From(y)
  PROVE  Copied'
<1> USE DEF Aside
<1>1. Typed /\ Answers \in Nat /\ Answers' \in Nat
  BY UnansweredNat, NatsNext DEF IInv, Nats
<1>2. CASE lab = "Lab02"
  <2>1. Chunks /\ Told /\ Turns
    BY <1>2 DEF Copied
  <2>2. Chunks'
    BY <2>1 DEF Chunks, WrittenInOrder, Reached, Start, Smaller, Message
  <2>3. Told'
    BY <2>1 DEF Told, Reached, Start, Smaller
  <2>4. ASSUME NEW m, From(m) PROVE Expected(m)
    <3>1. PICK x \in OnTheWay : m = x \/ (m.bad /\ m.len = x.len)
      BY <2>4 DEF From
    <3>2. Expected(x)
      BY <2>1 DEF Turns
    <3> QED
      BY <3>1, <3>2 DEF Expected, NextOne
  <2>5. \A m : Expected(m) <=> Expected(m)'
    BY DEF Expected, NextOne, Start
  <2>6. Answers' > 0 => Answers > 0
    BY <1>1
  <2>7. Reached' = Reached
    BY DEF Reached, Start
  <2>8. Turns'
    BY <2>1, <2>4, <2>5, <2>6, <2>7 DEF Turns
  <2> QED
    BY <1>2, <2>2, <2>3, <2>8 DEF Copied
<1> QED
  BY <1>2 DEF Copied

LEMMA SendCopies ==
  ASSUME IInv, Copied, Lab02(Sender)
  PROVE  Copied'
<1> USE DEF Lab02, winVars, linkVars
<1>1. Typed /\ Counted /\ Chunks /\ Told /\ Turns /\ lab = "Lab02" /\ lab' = "Lab02"
  BY DEF IInv, Copied
<1>2. s1 \in Seq(Message) /\ box1 \in Seq(Message) /\ s2 \in Seq(Message) /\ written \in Seq(Message)
  BY <1>1 DEF Typed, Chunks
<1>3. /\ Len(written) \in Nat /\ Chunk \in Nat \ {0} /\ Start \in Nat /\ size \in Int
      /\ Reached \in Int /\ pos \in Int
  BY <1>1, <1>2, NumbersOf
<1>4. UNCHANGED <<size, left, written, misled, rcv, lab, link_up1, link_up2, buffer, in_flight, s2, box2>>
  BY DEF Sender, StartSend, NextChunk
<1>5. UNCHANGED <<Start, Reached>>
  BY <1>4 DEF Start, Reached
<1>6. Told'
  BY <1>1, <1>4, <1>5 DEF Told
<1>7. written' \in Seq(Message) /\ WrittenInOrder'
      /\ (written' # << >> => (Len(written') - 1) * Chunk < size')
  BY <1>1, <1>4 DEF Chunks, WrittenInOrder, Message
<1>8. CASE StartSend
  <2>1. /\ snd = "off" /\ snd' = "wait" /\ s1' = s1 \o <<Hello, Name>> /\ UNCHANGED <<pos, box1>>
    BY <1>8 DEF StartSend
  <2>2. s1 = << >> /\ link_up1 = FALSE
    BY <1>1, <2>1 DEF IInv, Greeted, Typed
  <2>3. Sent(s1', link_up1') \subseteq {Name}
    <3>1. s1' = <<Hello, Name>>
      BY <1>2, <2>1, <2>2
    <3> QED
      BY <1>4, <2>2, <3>1 DEF Sent
  <2>4. rcv \in {"off", "name"} /\ Name.text = TwoDigits(size)
    BY <1>1, <2>1 DEF Turns, Name, Plain
  <2>5. ASSUME NEW y \in OnTheWay' PROVE Expected(y)'
    <3>1. y \in OnTheWay \/ y = Name
      BY <1>4, <2>3, <2>5 DEF OnTheWay
    <3>2. Expected(y)
      BY <1>1, <2>4, <3>1 DEF Turns, Expected
    <3> QED
      BY <1>4, <2>4, <3>2 DEF Expected
  <2>6. Answers' = Answers
    BY <1>4, <2>1 DEF Answers
  <2>7. Turns'
    BY <1>1, <1>4, <1>5, <2>1, <2>4, <2>5, <2>6 DEF Turns
  <2>8. Chunks'
    BY <1>1, <1>5, <1>7, <2>1 DEF Chunks
  <2> QED
    BY <1>1, <1>6, <2>7, <2>8 DEF Copied
<1>9. CASE NextChunk
  <2> DEFINE n == Smaller(Chunk, size - pos)
  <2>1. /\ snd = "wait" /\ box1 # << >> /\ box1' = Tail(box1)
        /\ \/ n > 0 /\ s1' = Append(s1, Plain(n, pos)) /\ pos' = pos + n /\ snd' = snd
           \/ n = 0 /\ snd' = "done" /\ s1' = s1 /\ pos' = pos
           \/ n < 0 /\ snd' = "spin" /\ s1' = s1 /\ pos' = pos
    BY <1>9 DEF NextChunk
  <2>2. OnTheWay = {} /\ Answers = 1
    BY <1>1, <2>1, OneAtATime
  <2>3. Answers' = 0
    <3>1. Waiting(s2, link_up2) \in Nat /\ Len(box1) \in Nat /\ Waiting(s2, link_up2) + Len(box1) = 1
      BY <1>1, <2>2, UnansweredNat DEF Answers
    <3>2. Len(box1') = Len(box1) - 1
      BY <1>2, <2>1, TailOf
    <3>3. Waiting(s2, link_up2) + (Len(box1) - 1) = 0
      BY <3>1
    <3> QED
      BY ONLY <1>4, <3>2, <3>3, Zenon DEF Answers
  <2>4. rcv \notin {"off", "name"} /\ pos = Reached
    BY <1>1, <2>2 DEF Turns
  <2>5. n \in Int /\ (n > 0 => pos < size) /\ (n = 0 => pos = size)
    BY <1>3 DEF Smaller
  <2>6. pos < size => pos = Start
    BY <1>3, <2>4 DEF Reached, Start, Smaller
  <2>7. ASSUME s1' = Append(s1, Plain(n, pos)), n > 0, pos' = pos + n
        PROVE  \A y \in OnTheWay' : Expected(y)'
    <3>1. Plain(n, pos) \in Message /\ Plain(n, pos).len = n /\ Plain(n, pos).text = pos
      BY <1>3, <2>5, Messages
    <3>2. OnTheWay' \subseteq OnTheWay \cup {Plain(n, pos)}
      <4>1. Sent(s1', link_up1') \subseteq Sent(s1, link_up1) \cup {Plain(n, pos)}
        BY <1>2, <1>4, <2>7, <3>1, SentAppend
      <4> QED
        BY <1>4, <4>1 DEF OnTheWay
    <3>3. pos < size /\ pos = Start
      BY <2>5, <2>6, <2>7
    <3>4. ASSUME NEW y \in OnTheWay' PROVE Expected(y)'
      <4>1. y = Plain(n, pos)
        BY <2>2, <3>2, <3>4
      <4>2. y.len = n /\ y.text = pos
        BY <3>1, <4>1
      <4>3. NextOne(y)'
        BY <1>4, <1>5, <2>7, <3>3, <4>2 DEF NextOne
      <4> QED
        BY <1>4, <2>4, <4>3 DEF Expected
    <3> QED
      BY <3>4
  <2>8. s1' = s1 => OnTheWay' = {}
    BY <1>4, <2>2 DEF OnTheWay
  <2>9. Turns'
    <3>1. snd' # "off" /\ (snd' = "done" => pos' = Reached /\ pos' = size)
      BY <2>1, <2>4, <2>5
    <3>2. \A y \in OnTheWay' : Expected(y)'
      BY <2>1, <2>7, <2>8
    <3> QED
      BY <1>4, <1>5, <2>3, <2>4, <3>1, <3>2 DEF Turns
  <2>10. Reached <= pos'
    BY <1>3, <2>1, <2>4, <2>5
  <2>11. Chunks'
    BY <1>5, <1>7, <2>10 DEF Chunks
  <2> QED
    BY <1>1, <1>6, <2>9, <2>11 DEF Copied
<1> QED
  BY <1>8, <1>9 DEF Sender

LEMMA ReceiveCopies ==
  ASSUME IInv, Copied, IInv', Lab02(Receiver)
  PROVE  Copied'
<1> USE DEF Lab02, winVars, linkVars
<1>1. Typed /\ Counted /\ Chunks /\ Told /\ Turns /\ lab = "Lab02" /\ lab' = "Lab02"
  BY DEF IInv, Copied
<1>2. /\ s1 \in Seq(Message) /\ box2 \in Seq(Message) /\ s2 \in Seq(Message)
      /\ written \in Seq(Message)
  BY <1>1 DEF Typed, Chunks
<1>3. /\ Len(written) \in Nat /\ Chunk \in Nat \ {0} /\ Start \in Nat /\ size \in Int
      /\ Reached \in Int /\ pos \in Int /\ TwoDigits(size) \in Int
  BY <1>1, <1>2, NumbersOf
<1>4. UNCHANGED <<size, pos, lab, snd, link_up1, link_up2, buffer, in_flight, s1, box1>>
  BY DEF Receiver, StartRecv, ReadName, ReadChunk
<1>5. CASE StartRecv
  <2>1. /\ rcv = "off" /\ rcv' = "name" /\ s2' = Append(s2, Hello)
        /\ UNCHANGED <<left, written, misled, box2>>
    BY <1>5 DEF StartRecv
  <2>2. UNCHANGED <<Start, Reached>>
    BY <1>4, <2>1 DEF Start, Reached
  <2>3. Chunks'
    BY <1>1, <1>4, <2>1, <2>2 DEF Chunks, WrittenInOrder, Message
  <2>4. Told'
    BY <1>1, <2>1 DEF Told
  <2>5. Answers' = Answers
    <3>1. s2 = << >> /\ link_up2 = FALSE
      BY <2>1 DEF IInv, Greeted, Typed
    <3>2. Waiting(s2', link_up2') = 0 /\ Waiting(s2, link_up2) = 0
      BY <1>1, <1>4, <2>1, <3>1, NameType, GreetingCounts
    <3> QED
      BY <1>4, <3>2 DEF Answers
  <2>6. OnTheWay' = OnTheWay
    BY <1>4, <2>1 DEF OnTheWay
  <2>7. ASSUME NEW y \in OnTheWay PROVE Expected(y)'
    <3>1. Expected(y)
      BY <1>1 DEF Turns
    <3> QED
      BY <1>4, <2>1, <3>1 DEF Expected
  <2>8. Turns'
    BY <1>1, <1>4, <2>1, <2>2, <2>5, <2>6, <2>7 DEF Turns
  <2> QED
    BY <1>1, <2>3, <2>4, <2>8 DEF Copied
<1>6. CASE ReadName \/ ReadChunk
  <2>1. /\ box2 # << >> /\ box2' = Tail(box2) /\ s2' = Append(s2, ACK)
        /\ rcv \in {"name", "data"} /\ rcv' \in {"data", "done"} /\ (rcv' = "done" => left' = 0)
    BY <1>6 DEF ReadName, ReadChunk, Loop, NotZero
  <2>2. PICK h : h = Head(box2)
    OBVIOUS
  <2>3. OnTheWay = {h} /\ Answers = 0 /\ snd # "off"
    BY <1>1, <2>1, <2>2, OneAtATime
  <2>4. Expected(h) /\ h \in Message
    BY <1>1, <1>2, <2>1, <2>2, <2>3, TailOf DEF Turns
  <2>5. Answers' = 1
    <3>1. UNCHANGED <<bytes, q, i, got, resent>> /\ got' \in Nat /\ ACK \in Message
      BY <1>1, <1>6, NameType DEF ReadName, ReadChunk, Typed
    <3>2. Answers' = Answers + 1
      BY <1>4, <2>1, <3>1, AnswerKeeps
    <3> QED
      BY <2>3, <3>2
  <2>6. OnTheWay' = {}
    <3>1. Busy'
      BY <1>1, <2>5 DEF IInv, Busy
    <3> QED
      BY <3>1, BusyNext DEF Clear
  <2>7. ASSUME pos' = Reached', snd = "done" => pos' = Reached' /\ pos' = size'
        PROVE  Turns'
    BY <1>4, <2>1, <2>3, <2>6, <2>7 DEF Turns
  <2>8. snd = "done" => pos = Reached /\ pos = size
    BY <1>1 DEF Turns
  <2>9. CASE ReadName
    <3>1. /\ rcv = "name" /\ left' = h.text /\ misled' = h.bad /\ written' = written
      BY <1>6, <2>2, <2>9 DEF ReadName, Loop
    <3>2. written = << >> /\ pos = 0 /\ (h.bad \/ h.text = TwoDigits(size))
      BY <1>1, <2>4, <3>1 DEF Turns, Expected
    <3>3. Reached' = 0 /\ Reached = 0
      BY <3>1, <3>2 DEF Reached
    <3>4. Told'
      BY <1>3, <1>4, <2>1, <2>4, <3>1, <3>2, <3>3 DEF Told, Message
    <3>5. Chunks'
      BY <1>1, <1>4, <3>1, <3>2, <3>3 DEF Chunks, WrittenInOrder, Message
    <3>6. Turns'
      BY <1>4, <2>7, <2>8, <3>2, <3>3
    <3> QED
      BY <1>1, <3>4, <3>5, <3>6 DEF Copied
  <2>10. CASE ReadChunk
    <3>1. rcv = "data" /\ written' = Append(written, h) /\ left' = left - h.len /\ misled' = misled
      BY <1>6, <2>2, <2>10 DEF ReadChunk, Loop
    <3>2. /\ Start < size /\ h.len = Smaller(Chunk, size - Start)
          /\ h.bad \/ h.text = Start
          /\ pos = Start + h.len
      BY <2>4, <3>1 DEF Expected, NextOne
    <3>3. /\ written' \in Seq(Message) /\ Len(written') = Len(written) + 1 /\ written' # << >>
          /\ DOMAIN written' = 1 .. Len(written) + 1 /\ written'[Len(written) + 1] = h
          /\ \A k \in 1 .. Len(written) : k \in DOMAIN written /\ written'[k] = written[k]
      BY <1>2, <2>4, <3>1
    <3>4. (Len(written') - 1) * Chunk = Start /\ Start' = Start + Chunk
      <4>1. (Len(written) + 1 - 1) * Chunk = Len(written) * Chunk
            /\ (Len(written) + 1) * Chunk = Len(written) * Chunk + Chunk
        BY <1>3
      <4> QED
        BY <3>3, <4>1 DEF Start
    <3>5. Reached' = pos
      <4>1. Reached' = Smaller(Start + Chunk, size)
        BY <1>4, <3>3, <3>4 DEF Reached
      <4>2. Smaller(Start + Chunk, size) = Start + Smaller(Chunk, size - Start)
        BY <1>3 DEF Smaller
      <4> QED
        BY <3>2, <4>1, <4>2
    <3>6. Reached = Start
      BY <1>3, <3>2 DEF Reached, Start, Smaller
    <3>7. WrittenInOrder'
      <4>1. ASSUME NEW k \in DOMAIN written'
            PROVE  /\ written'[k].bad \/ written'[k].text = (k - 1) * Chunk
                   /\ written'[k].len = Smaller(Chunk, size - (k - 1) * Chunk)
        <5>1. CASE k \in 1 .. Len(written)
          BY <1>1, <3>3, <5>1 DEF Chunks, WrittenInOrder
        <5>2. CASE k = Len(written) + 1
          <6>1. (k - 1) * Chunk = Start
            BY <1>3, <5>2 DEF Start
          <6> QED
            BY <3>2, <3>3, <5>2, <6>1
        <5> QED
          BY <1>3, <3>3, <5>1, <5>2
      <4> QED
        BY <1>4, <4>1 DEF WrittenInOrder, Smaller
    <3>8. Chunks'
      <4>1. written' \in Seq(Message)'
        BY <3>3 DEF Message
      <4>2. Reached' <= pos'
        BY <1>3, <1>4, <3>5
      <4> QED
        BY <1>4, <3>2, <3>4, <3>7, <4>1, <4>2 DEF Chunks
    <3>9. Told'
      <4>1. misled \/ left = TwoDigits(size) - Start
        BY <1>1, <3>1, <3>6 DEF Told
      <4>2. h.len \in Int /\ left \in Int
        BY <1>1, <2>4 DEF Message, Told
      <4>3. misled \/ left - h.len = TwoDigits(size) - pos
        BY <1>3, <3>2, <4>1, <4>2
      <4> QED
        BY <1>4, <2>1, <3>1, <3>5, <4>2, <4>3 DEF Told
    <3>10. Turns'
      <4>1. snd = "done" => pos = size
        BY <2>8
      <4> QED
        BY <1>4, <2>7, <3>5, <4>1
    <3> QED
      BY <1>1, <3>8, <3>9, <3>10 DEF Copied
  <2> QED
    BY <1>6, <2>9, <2>10
<1> QED
  BY <1>5, <1>6 DEF Receiver

LEMMA CopiedFirst == Init => Copied
<1> SUFFICES ASSUME Init PROVE Copied
  OBVIOUS
<1>1. /\ written = << >> /\ pos = 0 /\ left = 0 /\ misled = FALSE /\ snd = "off" /\ rcv = "off"
      /\ s1 = << >> /\ buffer = << >> /\ in_flight = << >> /\ box2 = << >>
  BY DEF Init, LinkInit
<1>2. Chunks
  BY <1>1 DEF Chunks, WrittenInOrder, Reached
<1>3. Told
  BY <1>1 DEF Told
<1>4. OnTheWay = {}
  BY <1>1 DEF OnTheWay, Held, Sent
<1>5. Answers = 0
  BY DEF Init, LinkInit, Answers, Waiting
<1>6. Turns
  BY <1>1, <1>4, <1>5 DEF Turns
<1> QED
  BY <1>1, <1>2, <1>3, <1>6 DEF Copied

LEMMA CopiedKept == IInv /\ Copied /\ IInv' /\ [Next]_vars => Copied'
<1> SUFFICES ASSUME IInv, Copied, IInv', [Next]_vars PROVE Copied'
  OBVIOUS
<1>1. Typed /\ Greeted /\ Answered
  BY DEF IInv
<1>2. CASE Emulator(Link)
  <2>1. Kept2 /\ Aside
    BY <1>2 DEF Emulator, Link, Register1, Register2, Forward, PutInFlight, Deliver, SendBack,
                swVars, winVars, Kept2, Aside
  <2>2. Answers' <= Answers
    BY <1>1, <1>2, <2>1, LinkKeeps DEF Emulator, Fewer
  <2>3. \A y \in OnTheWay' : From(y)
    BY <1>1, <1>2, Comes DEF Emulator
  <2> QED
    BY <2>1, <2>2, <2>3, LinkCopies
<1>3. CASE Lab02(Transfer)
  BY <1>3, SendCopies, ReceiveCopies DEF Lab02, Transfer
<1>4. CASE Lab03(Transmit)
  BY <1>4 DEF Lab03, swVars, Copied
<1>5. CASE UNCHANGED vars
  <2>1. Aside /\ UNCHANGED <<link_up1, link_up2, s1, s2, buffer, in_flight, box1, box2>>
    BY <1>5 DEF vars, linkVars, swVars, Aside
  <2>2. Answers' = Answers /\ OnTheWay' = OnTheWay /\ Answers \in Nat
    BY <1>1, <2>1, UnansweredNat DEF Answers, OnTheWay
  <2>3. \A y \in OnTheWay' : From(y)
    BY <2>2 DEF From
  <2> QED
    BY <2>1, <2>2, <2>3, LinkCopies
<1> QED
  BY <1>2, <1>3, <1>4, <1>5 DEF Next

LEMMA AlwaysCopied == Spec => [](IInv /\ Copied)
<1>1. Init => IInv /\ Copied
  BY Initially, CopiedFirst
<1>2. (IInv /\ Copied) /\ [Next]_vars => (IInv /\ Copied)'
  BY Inductive, CopiedKept
<1> QED
  BY <1>1, <1>2, PTL DEF Spec

\* Whatever the emulator loses or changes and however its threads run, the receiver of Lab02
\* writes the chunks of the file one after the other, none left out or twice (recv.c writes
\* what comes; it is send.c that waits for an answer before it reads on).
THEOREM CopiedInOrder == Spec => []WrittenInOrder
<1>1. IInv /\ Copied => WrittenInOrder
  BY DEF Copied, Chunks, WrittenInOrder
<1> QED
  BY <1>1, AlwaysCopied, PTL

LEMMA SmallerMoved ==
  ASSUME NEW a \in Int, NEW b \in Int, NEW c \in Int
  PROVE  a + Smaller(b, c - a) = Smaller(a + b, c)
  BY DEF Smaller

LEMMA BytesReached ==
  ASSUME Typed, Chunks
  PROVE  Bytes = Reached
<1>1. CASE written = << >>
  BY <1>1 DEF Bytes, Reached
<1>2. CASE written # << >>
  <2>1. written \in Seq(Message) /\ Len(written) \in DOMAIN written
    BY <1>2 DEF Chunks
  <2>2. Len(written) \in Nat /\ Chunk \in Nat /\ size \in Int
    BY <2>1, NumbersOf
  <2>3. written[Len(written)].len = Smaller(Chunk, size - (Len(written) - 1) * Chunk)
    BY <2>1 DEF Chunks, WrittenInOrder
  <2> DEFINE before == (Len(written) - 1) * Chunk
  <2>4. before \in Int /\ Start = before + Chunk
    BY <2>2 DEF Start
  <2>5. before + Smaller(Chunk, size - before) = Smaller(before + Chunk, size)
    BY <2>2, <2>4, SmallerMoved
  <2> HIDE DEF before
  <2>6. Bytes = before + Smaller(Chunk, size - before)
    BY <1>2, <2>3 DEF Bytes, before
  <2> QED
    BY <1>2, <2>4, <2>5, <2>6 DEF Reached
<1> QED
  BY <1>1, <1>2

LEMMA DoneIsAll ==
  ASSUME Chunk > 99, IInv, Copied
  PROVE  DoneMeansWritten
<1> SUFFICES ASSUME lab = "Lab02" PROVE DoneMeansWritten
  BY DEF DoneMeansWritten
<1>1. Typed /\ Chunks /\ Told /\ Turns /\ Bytes = Reached
  BY BytesReached DEF IInv, Copied
<1>2. /\ Len(written) \in Nat /\ Chunk \in Nat \ {0} /\ size \in Int /\ Reached \in Int
      /\ pos \in Int /\ TwoDigits(size) \in Int
  BY <1>1, NumbersOf DEF Chunks
<1>3. Bytes <= pos /\ (snd = "done" => Bytes = size)
  BY <1>1 DEF Chunks, Turns
<1>4. ASSUME rcv = "done", ~misled PROVE size < 100 /\ Bytes = size
  <2>1. TwoDigits(size) = Reached
    BY <1>1, <1>2, <1>4 DEF Told
  <2>2. CASE size < 100
    <3>1. TwoDigits(size) = size
      BY <2>2, Zenon DEF TwoDigits
    <3> QED
      BY <1>1, <2>1, <2>2, <3>1
  <2>3. CASE ~(size < 100)
    <3>1. TwoDigits(size) \in 10 .. 99
      BY <1>1, <1>2, <2>3, Digits DEF Typed
    <3>2. written # << >>
      BY <2>1, <3>1 DEF Reached
    <3>3. Len(written) >= 1
      BY <1>1, <3>2 DEF Chunks
    <3>4. Len(written) * Chunk >= Chunk
      BY <1>2, <3>3
    <3>5. Reached >= 100
      BY <1>2, <2>3, <3>2, <3>4 DEF Reached, Start, Smaller
    <3> QED
      BY <2>1, <3>1, <3>5
  <2> QED
    BY <2>2, <2>3
<1> QED
  BY <1>3, <1>4 DEF DoneMeansWritten

\* With chunks of more than 99 bytes (send.c reads 1399): when the sender of Lab02 ends, its
\* file is written; the receiver ends only with all of the file, and only if two digits were
\* enough for the size it was told.
THEOREM EndsWithTheFile == ASSUME Chunk > 99 PROVE Spec => []DoneMeansWritten
<1>1. IInv /\ Copied => DoneMeansWritten
  BY DoneIsAll
<1> QED
  BY <1>1, AlwaysCopied, PTL
=============================================================================
