----------------------------- MODULE LinkProofs -----------------------------
(***************************************************************************)
(* Theorems about LinkEmulator, for any buffer size, delays and bounds.    *)
(* The inductive invariant is LInv: the space check and the take each rely *)
(* on what another critical section saw, and what makes that safe is that  *)
(* each queue has one thread that adds and one that takes.  That the link  *)
(* is a LossyFifo rests on Ordered: numbers grow towards the socket.       *)
(***************************************************************************)
EXTENDS LinkEmulator, TLAPS

USE LinkAssumption

(***************************************************************************)
(* Queues.                                                                 *)
(***************************************************************************)

\* enqueue of queue.c: what was there stays, one place is new.
LEMMA Enqueued ==
  ASSUME NEW S, NEW q \in Seq(S), NEW e \in S
  PROVE  /\ Append(q, e) \in Seq(S) /\ Append(q, e) # << >>
         /\ Len(Append(q, e)) = Len(q) + 1
         /\ DOMAIN q = 1..Len(q) /\ Len(q) \in Nat
         /\ DOMAIN Append(q, e) = 1..(Len(q) + 1)
         /\ \A j \in 1..Len(q) : Append(q, e)[j] = q[j]
         /\ Append(q, e)[Len(q) + 1] = e
  OBVIOUS

\* dequeue of queue.c: the places move up by one.
LEMMA Dequeued ==
  ASSUME NEW S, NEW q \in Seq(S), q # << >>
  PROVE  /\ Tail(q) \in Seq(S) /\ Head(q) \in S /\ Head(q) = q[1] /\ 1 \in DOMAIN q
         /\ Len(q) \in Nat /\ Len(Tail(q)) = Len(q) - 1
         /\ DOMAIN Tail(q) = 1..(Len(q) - 1)
         /\ \A j \in 1..(Len(q) - 1) : Tail(q)[j] = q[j + 1] /\ j + 1 \in DOMAIN q
<1>1. Len(q) \in Nat /\ Len(q) # 0 /\ DOMAIN q = 1..Len(q)
  OBVIOUS
<1>2. DOMAIN Tail(q) = 1..(Len(q) - 1) /\ Len(Tail(q)) = Len(q) - 1
  BY <1>1
<1>3. \A j \in 1..(Len(q) - 1) : Tail(q)[j] = q[j + 1] /\ j + 1 \in DOMAIN q
  BY <1>1, <1>2
<1>4. Tail(q) \in Seq(S) /\ Head(q) \in S /\ Head(q) = q[1]
  BY <1>1
<1> QED
  BY <1>1, <1>2, <1>3, <1>4

(***************************************************************************)
(* What one pass of the scheduler computes.                                *)
(***************************************************************************)

\* The wait is a natural number, whatever is on the wire.
LEMMA PauseType ==
  ASSUME TypeOK, NEW idle \in Nat, NEW flying \in Seq(Flying), Pause(idle, flying)
  PROVE  /\ pc' \in {"asleep", "block"} /\ wake' \in Nat
<1>1. CASE ~(WaitIdle(idle) > 0 \/ WaitSend(flying) > 0)
  BY <1>1 DEF Pause, TypeOK
<1>2. CASE WaitIdle(idle) > 0 \/ WaitSend(flying) > 0
  <2>1. WaitIdle(idle) \in Int
    BY DEF WaitIdle, TypeOK
  <2>2. WaitTime(idle, flying) \in Nat
    BY <2>1 DEF WaitTime
  <2> QED
    BY <1>2, <2>2 DEF Pause, TypeOK
<1> QED
  BY <1>1, <1>2

-----------------------------------------------------------------------------
LEMMA LinkInit == Init => LInv
<1> SUFFICES ASSUME Init PROVE LInv
  OBVIOUS
<1>1. TypeOK
  <2>1. NoMsg \in Msg
    BY DEF NoMsg, Msg
  <2>2. << >> \in Seq(Msg) /\ << >> \in Seq(Flying) /\ << >> \in Seq(Message) /\ << >> \in Seq(Nat)
    OBVIOUS
  <2>3. 0 \in Nat /\ 0 \in 0..MaxMsgs
    OBVIOUS
  <2> QED
    BY <2>1, <2>2, <2>3, Zenon DEF Init, TypeOK
<1>2. BufferBounded /\ RoomIsKept /\ PutIsDecided /\ TakesWhatIsThere /\ NoLostSignal
  BY DEF Init, BufferBounded, RoomIsKept, PutIsDecided, TakesWhatIsThere, NoLostSignal
<1>3. /\ Serialised /\ FinishedWhenIdle /\ ClockIsNear
      /\ NotDueAtTake /\ WireSpan
  BY DEF Init, Serialised, FinishedWhenIdle, ClockIsNear, NotDueAtTake, WireSpan
<1> QED
  BY <1>1, <1>2, <1>3 DEF LInv

(***************************************************************************)
(* Frames: who touches what.                                               *)
(***************************************************************************)

\* The wire belongs to the scheduler: only SendOut and Take change it.
LEMMA WireFrame ==
  [Next]_vars => SendOut \/ Take \/ UNCHANGED <<in_flight, idle_time>>
<1> SUFFICES ASSUME [Next]_vars PROVE SendOut \/ Take \/ UNCHANGED <<in_flight, idle_time>>
  OBVIOUS
<1> USE DEF schedVars, wireVars
<1>1. CASE UNCHANGED vars
  BY <1>1 DEF vars
<1>2. CASE \E len \in MsgLen : Send1(len)
  BY <1>2 DEF Send1
<1>3. CASE Send2 \/ Reverse \/ Tick
  BY <1>3 DEF Send2, Reverse, Tick
<1>4. CASE Forwarder
  BY <1>4 DEF Forwarder, Receive, CheckSpace, Keep, Put, FwAt
<1>5. CASE Scheduler \/ SpuriousWakeUp
  BY <1>5 DEF Scheduler, Loop, LookInBuffer, Block, WakeUp, SpuriousWakeUp
<1> QED
  BY <1>1, <1>2, <1>3, <1>4, <1>5 DEF Next

\* The buffer is shared by two: Put adds to it and Take takes from it.
LEMMA BufferFrame == [Next]_vars => Put \/ Take \/ UNCHANGED buffer
<1> SUFFICES ASSUME [Next]_vars PROVE Put \/ Take \/ UNCHANGED buffer
  OBVIOUS
<1>1. CASE UNCHANGED vars
  BY <1>1 DEF vars
<1>2. CASE \E len \in MsgLen : Send1(len)
  BY <1>2 DEF Send1
<1>3. CASE Send2 \/ Reverse \/ Tick
  BY <1>3 DEF Send2, Reverse, Tick
<1>4. CASE Forwarder
  BY <1>4 DEF Forwarder, Receive, CheckSpace, Keep
<1>5. CASE Scheduler \/ SpuriousWakeUp
  BY <1>5 DEF Scheduler, Loop, SendOut, LookInBuffer, Block, WakeUp, SpuriousWakeUp
<1> QED
  BY <1>1, <1>2, <1>3, <1>4, <1>5 DEF Next

(***************************************************************************)
(* Types.                                                                  *)
(***************************************************************************)

LEMMA TypeStep == TypeOK /\ [Next]_vars => TypeOK'
<1> SUFFICES ASSUME TypeOK, [Next]_vars PROVE TypeOK'
  OBVIOUS
<1> USE DEF fwVars, revVars, wireVars, schedVars
<1>0. NoMsg \in Msg
  BY DEF NoMsg, Msg
<1>1. CASE UNCHANGED vars
  BY <1>1 DEF vars, TypeOK
<1>2. ASSUME NEW len \in MsgLen, Send1(len)
      PROVE  TypeOK'
  <2>1. [n |-> sent1 + 1, len |-> len, bad |-> FALSE, at |-> 0] \in Msg
    BY <1>2 DEF Send1, TypeOK, Msg
  <2> QED
    BY <1>2, <2>1 DEF Send1, TypeOK
<1>3. CASE Send2
  BY <1>3 DEF Send2, TypeOK
<1>4. CASE Receive
  BY <1>4 DEF Receive, FwAt, TypeOK
<1>5. CASE CheckSpace
  BY <1>5 DEF CheckSpace, FwAt, Full, TypeOK
<1>6. CASE Keep
  <2>1. \A bad \in BOOLEAN : [m EXCEPT !.bad = bad] \in Msg
    BY DEF TypeOK, Msg
  <2>2. m' \in Msg /\ fw' \in {"recv", "put"} /\ alive' \in {"running", "fpe"}
    BY <1>6, <1>0, <2>1 DEF Keep, Dice, FwAt
  <2> QED
    BY <1>6, <2>2 DEF Keep, FwAt, TypeOK
<1>7. CASE Put
  <2>1. [m EXCEPT !.at = clock] \in Msg
    BY DEF TypeOK, Msg
  <2> QED
    BY <1>7, <1>0, <2>1 DEF Put, Signalled, FwAt, TypeOK
<1>8. CASE Reverse
  BY <1>8 DEF Reverse, TypeOK
<1>9. CASE Loop
  BY <1>9 DEF Loop, At, TypeOK
<1>10. CASE SendOut
  <2>1. Head(in_flight) \in Flying /\ Tail(in_flight) \in Seq(Flying)
    BY <1>10, Dequeued DEF SendOut, Due, TypeOK
  <2>2. Item(Head(in_flight)) \in Message
    BY <2>1 DEF Item, Message, Flying
  <2> QED
    BY <1>10, <2>1, <2>2 DEF SendOut, At, TypeOK
<1>11. CASE LookInBuffer
  BY <1>11 DEF LookInBuffer, Stuff, At, TypeOK
<1>12. CASE Take
  <2>1. /\ buffer' \in Seq(Msg) /\ idle_time' \in Nat /\ in_flight' \in Seq(Flying)
        /\ alive' \in {"running", "abort"}
        /\ \/ UNCHANGED <<pc, wake>> \/ Pause(idle_time', in_flight')
    <3>1. CASE MayTake /\ buffer # << >>
      <4>1. /\ idle_time' = crt_time + serialization_delay /\ buffer' = Tail(buffer)
            /\ in_flight' = Append(in_flight,
                 [n |-> OldestMsg.n, bad |-> OldestMsg.bad, at |-> OldestMsg.at,
                  finish_time |-> FinishTime])
            /\ Pause(idle_time', in_flight') /\ UNCHANGED alive
        BY <1>12, <3>1 DEF Take
      <4>2. OldestMsg \in Msg /\ buffer' \in Seq(Msg)
        BY <3>1, <4>1, Dequeued DEF OldestMsg, TypeOK
      <4>3. FinishTime \in Nat /\ idle_time' \in Nat
        BY <4>1 DEF FinishTime, TypeOK
      <4>4. [n |-> OldestMsg.n, bad |-> OldestMsg.bad, at |-> OldestMsg.at,
             finish_time |-> FinishTime] \in Flying
        BY <4>2, <4>3 DEF Msg, Flying
      <4>5. in_flight' \in Seq(Flying)
        BY <4>1, <4>4 DEF TypeOK
      <4> QED
        BY <1>12, <4>1, <4>2, <4>3, <4>5 DEF Take, At
    <3>2. CASE MayTake /\ buffer = << >>
      BY <1>12, <3>2 DEF Take, At, TypeOK
    <3>3. CASE ~MayTake
      <4>1. Pause(idle_time, in_flight) /\ UNCHANGED <<alive, buffer, idle_time, in_flight>>
        BY <1>12, <3>3 DEF Take
      <4> QED
        BY <1>12, <4>1 DEF Take, At, TypeOK, Pause, WaitIdle, WaitSend, WaitTime
    <3> QED
      BY <3>1, <3>2, <3>3
  <2>2. pc' \in {"loop", "drain", "take", "block", "asleep", "waiting"} /\ wake' \in Nat
    BY <2>1, PauseType DEF TypeOK
  <2> QED
    BY <1>12, <2>1, <2>2 DEF Take, At, TypeOK
<1>13. CASE Block
  BY <1>13 DEF Block, At, TypeOK
<1>14. CASE WakeUp
  BY <1>14 DEF WakeUp, At, TypeOK
<1>15. CASE SpuriousWakeUp
  BY <1>15 DEF SpuriousWakeUp, At, TypeOK
<1>16. CASE Tick
  BY <1>16 DEF Tick, TypeOK
<1> QED
  BY <1>1, <1>2, <1>3, <1>4, <1>5, <1>6, <1>7, <1>8, <1>9, <1>10, <1>11, <1>12, <1>13,
     <1>14, <1>15, <1>16 DEF Next, Forwarder, Scheduler

(***************************************************************************)
(* The buffer and its two threads.                                         *)
(***************************************************************************)

\* Between the space check and the enqueue only the scheduler can touch the
\* buffer, and it only makes room.
LEMMA RoomStep ==
  TypeOK /\ BufferBounded /\ RoomIsKept /\ PutIsDecided /\ [Next]_vars
    => BufferBounded' /\ RoomIsKept' /\ PutIsDecided'
<1> SUFFICES ASSUME TypeOK, BufferBounded, RoomIsKept, PutIsDecided, [Next]_vars
             PROVE  BufferBounded' /\ RoomIsKept' /\ PutIsDecided'
  OBVIOUS
<1> USE DEF BufferBounded, RoomIsKept, PutIsDecided
<1>0. buffer \in Seq(Msg) /\ Len(buffer) \in Nat /\ m \in Msg /\ clock \in Nat
  BY DEF TypeOK
<1>1. CASE Put
  <2>1. fw = "put" /\ ~overflow /\ Len(buffer) < BUFFER_SIZE
    BY <1>1 DEF Put, FwAt
  <2>2. [m EXCEPT !.at = clock] \in Msg
    BY <1>0 DEF Msg
  <2>3. Len(buffer') = Len(buffer) + 1
    BY <1>0, <1>1, <2>2, Enqueued DEF Put
  <2> QED
    BY <1>0, <1>1, <2>1, <2>3 DEF Put
<1>2. CASE Take
  <2>1. UNCHANGED <<fw, overflow>>
    BY <1>2 DEF Take, At, fwVars
  <2>2. \/ buffer' = buffer
        \/ buffer # << >> /\ buffer' = Tail(buffer)
    <3>1. CASE MayTake /\ buffer # << >>
      BY <1>2, <3>1 DEF Take
    <3>2. CASE ~(MayTake /\ buffer # << >>)
      BY <1>2, <3>2 DEF Take
    <3> QED
      BY <3>1, <3>2
  <2>3. Len(buffer') \in Nat /\ Len(buffer') <= Len(buffer)
    BY <1>0, <2>2, Dequeued
  <2> QED
    BY <1>0, <2>1, <2>3
<1>3. CASE UNCHANGED buffer
  <2>1. CASE Forwarder
    <3>1. CASE Receive
      BY <1>3, <3>1 DEF Receive, FwAt
    <3>2. CASE CheckSpace
      <4>1. fw' = "dice" /\ (~overflow' => ~(Len(buffer) >= BUFFER_SIZE))
        BY <3>2, Zenon DEF CheckSpace, Full
      <4>2. ~(Len(buffer) >= BUFFER_SIZE) => Len(buffer) < BUFFER_SIZE
        BY <1>0
      <4> QED
        BY <1>3, <4>1, <4>2
    <3>3. CASE Keep
      BY <1>3, <3>3 DEF Keep, FwAt
    <3>4. CASE Put
      BY <1>1, <3>4
    <3> QED
      BY <2>1, <3>1, <3>2, <3>3, <3>4 DEF Forwarder
  <2>2. CASE UNCHANGED <<fw, overflow>>
    BY <1>3, <2>2
  <2>3. Forwarder \/ UNCHANGED <<fw, overflow>>
    <3> USE DEF fwVars
    <3>1. CASE UNCHANGED vars
      BY <3>1 DEF vars
    <3>2. CASE \E len \in MsgLen : Send1(len)
      BY <3>2 DEF Send1
    <3>3. CASE Send2 \/ Reverse \/ Tick
      BY <3>3 DEF Send2, Reverse, Tick
    <3>4. CASE Scheduler \/ SpuriousWakeUp
      BY <3>4 DEF Scheduler, Loop, SendOut, LookInBuffer, Take, Block, WakeUp,
                  SpuriousWakeUp, At
    <3> QED
      BY <3>1, <3>2, <3>3, <3>4 DEF Next
  <2> QED
    BY <2>1, <2>2, <2>3
<1> QED
  BY <1>1, <1>2, <1>3, BufferFrame

\* What the scheduler saw in the buffer stays until it takes it, and what
\* comes while it waits wakes it.
LEMMA StuffStep ==
  TypeOK /\ TakesWhatIsThere /\ NoLostSignal /\ [Next]_vars
    => TakesWhatIsThere' /\ NoLostSignal'
<1> SUFFICES ASSUME TypeOK, TakesWhatIsThere, NoLostSignal, [Next]_vars
             PROVE  TakesWhatIsThere' /\ NoLostSignal'
  OBVIOUS
<1> USE DEF TakesWhatIsThere, NoLostSignal
<1>1. CASE UNCHANGED vars
  BY <1>1 DEF vars, schedVars, wireVars
<1>2. CASE \E len \in MsgLen : Send1(len)
  BY <1>2 DEF Send1, schedVars, wireVars
<1>3. CASE Send2 \/ Reverse \/ Tick
  BY <1>3 DEF Send2, Reverse, Tick, schedVars, wireVars
<1>4. CASE Receive \/ CheckSpace \/ Keep
  BY <1>4 DEF Receive, CheckSpace, Keep, FwAt, wireVars
<1>5. CASE Put
  <2>1. [m EXCEPT !.at = clock] \in Msg /\ buffer \in Seq(Msg)
    BY DEF TypeOK, Msg
  <2>2. buffer' # << >>
    BY <1>5, <2>1, Enqueued DEF Put
  <2>3. pc' # "waiting" /\ (pc' = "take" => pc = "take")
    BY <1>5 DEF Put, Signalled
  <2> QED
    BY <1>5, <2>2, <2>3
<1>6. CASE Take
  <2>1. pc' = "take" => UNCHANGED <<pc, buffer, stuff>> /\ buffer = << >>
    BY <1>6 DEF Take, Pause, At
  <2>2. pc' # "waiting"
    BY <1>6 DEF Take, Pause, At
  <2> QED
    BY <1>6, <2>1, <2>2 DEF Take, At
<1>7. CASE LookInBuffer
  BY <1>7 DEF LookInBuffer, Stuff
<1>8. CASE Block
  BY <1>8 DEF Block, At, wireVars
<1>9. CASE Loop \/ SendOut \/ WakeUp \/ SpuriousWakeUp
  BY <1>9 DEF Loop, SendOut, WakeUp, SpuriousWakeUp, At
<1> QED
  BY <1>1, <1>2, <1>3, <1>4, <1>5, <1>6, <1>7, <1>8, <1>9 DEF Next, Forwarder, Scheduler

(***************************************************************************)
(* The wire.                                                               *)
(***************************************************************************)

\* A message goes on the wire only when the wire is idle, so that it finishes
\* serialization_delay after all that are on it.
LEMMA WireStep ==
  TypeOK /\ Serialised /\ FinishedWhenIdle /\ [Next]_vars => Serialised' /\ FinishedWhenIdle'
<1> SUFFICES ASSUME TypeOK, Serialised, FinishedWhenIdle, [Next]_vars
             PROVE  Serialised' /\ FinishedWhenIdle'
  OBVIOUS
<1>0. in_flight \in Seq(Flying) /\ idle_time \in Nat /\ crt_time \in Nat
  BY DEF TypeOK
<1>1. CASE UNCHANGED <<in_flight, idle_time>>
  BY <1>1 DEF Serialised, FinishedWhenIdle
<1>2. CASE SendOut
  <2>1. in_flight # << >> /\ in_flight' = Tail(in_flight) /\ idle_time' = idle_time
    BY <1>2 DEF SendOut, Due
  <2>2. /\ DOMAIN in_flight' = 1..(Len(in_flight) - 1) /\ Len(in_flight) \in Nat
        /\ \A j \in DOMAIN in_flight' :
             in_flight'[j] = in_flight[j + 1] /\ j + 1 \in DOMAIN in_flight
    BY <1>0, <2>1, Dequeued
  <2>3. FinishedWhenIdle'
    BY <2>1, <2>2 DEF FinishedWhenIdle
  <2>4. Serialised'
    <3> SUFFICES ASSUME NEW j \in DOMAIN in_flight', NEW k \in DOMAIN in_flight', j < k
                 PROVE  in_flight'[j].finish_time + serialization_delay
                          <= in_flight'[k].finish_time
      BY DEF Serialised
    <3>1. j + 1 < k + 1
      BY <2>2
    <3> QED
      BY <2>2, <3>1 DEF Serialised
  <2> QED
    BY <2>3, <2>4
<1>3. CASE Take /\ ~UNCHANGED <<in_flight, idle_time>>
  <2> DEFINE x == [n |-> OldestMsg.n, bad |-> OldestMsg.bad, at |-> OldestMsg.at,
                   finish_time |-> FinishTime]
  <2>1. /\ MayTake /\ buffer # << >> /\ idle_time' = crt_time + serialization_delay
        /\ in_flight' = Append(in_flight, x)
    BY <1>3 DEF Take
  <2>2. x.finish_time = crt_time + serialization_delay + delay
    BY DEF FinishTime
  <2>3. x \in Flying
    <3>1. OldestMsg \in Msg
      BY <2>1, Dequeued DEF OldestMsg, TypeOK
    <3>2. FinishTime \in Nat
      BY <1>0 DEF FinishTime
    <3> QED
      BY <3>1, <3>2 DEF Msg, Flying
  <2> HIDE DEF x
  <2>4. crt_time >= idle_time
    BY <2>1 DEF MayTake
  <2>5. /\ DOMAIN in_flight = 1..Len(in_flight) /\ Len(in_flight) \in Nat
        /\ DOMAIN in_flight' = 1..(Len(in_flight) + 1)
        /\ \A j \in 1..Len(in_flight) : in_flight'[j] = in_flight[j]
        /\ in_flight'[Len(in_flight) + 1] = x
    BY <1>0, <2>1, <2>3, Enqueued
  <2>6. \A j \in 1..Len(in_flight) : /\ in_flight[j].finish_time \in Nat
                                     /\ in_flight[j].finish_time <= crt_time + delay
    <3> SUFFICES ASSUME NEW j \in 1..Len(in_flight)
                 PROVE  /\ in_flight[j].finish_time \in Nat
                        /\ in_flight[j].finish_time <= crt_time + delay
      OBVIOUS
    <3>1. in_flight[j] \in Flying
      BY <1>0, <2>5
    <3>2. in_flight[j].finish_time \in Nat
      BY <3>1 DEF Flying
    <3>3. in_flight[j].finish_time <= idle_time + delay
      BY <2>5 DEF FinishedWhenIdle
    <3> QED
      BY <1>0, <2>4, <3>2, <3>3
  <2>7. FinishedWhenIdle'
    <3> SUFFICES ASSUME NEW j \in DOMAIN in_flight'
                 PROVE  in_flight'[j].finish_time <= idle_time' + delay
      BY DEF FinishedWhenIdle
    <3>1. CASE j \in 1..Len(in_flight)
      BY <1>0, <2>1, <2>5, <2>6, <3>1
    <3>2. CASE j = Len(in_flight) + 1
      BY <1>0, <2>1, <2>2, <2>5, <3>2
    <3> QED
      BY <2>5, <3>1, <3>2
  <2>8. Serialised'
    <3> SUFFICES ASSUME NEW j \in DOMAIN in_flight', NEW k \in DOMAIN in_flight', j < k
                 PROVE  in_flight'[j].finish_time + serialization_delay
                          <= in_flight'[k].finish_time
      BY DEF Serialised
    <3>1. j \in 1..Len(in_flight)
      BY <2>5
    <3>2. CASE k \in 1..Len(in_flight)
      BY <2>5, <3>1, <3>2 DEF Serialised
    <3>3. CASE k = Len(in_flight) + 1
      BY <1>0, <2>2, <2>5, <2>6, <3>1, <3>3
    <3> QED
      BY <2>5, <3>2, <3>3
  <2> QED
    BY <2>7, <2>8
<1> QED
  BY <1>1, <1>2, <1>3, WireFrame

(***************************************************************************)
(* Time.                                                                   *)
(***************************************************************************)

\* What the scheduler computes from its stale crt_time is MaxStall off at most.
LEMMA ClockStep == TypeOK /\ ClockIsNear /\ [Next]_vars => ClockIsNear'
<1> SUFFICES ASSUME TypeOK, ClockIsNear, [Next]_vars PROVE ClockIsNear'
  OBVIOUS
<1> DEFINE InTime(x) == x.at + serialization_delay + delay <= x.finish_time + MaxStall
<1>0. /\ crt_time \in Nat /\ clock \in Nat /\ clock' \in Nat /\ crt_time' \in Nat
      /\ buffer \in Seq(Msg) /\ buffer' \in Seq(Msg)
      /\ in_flight \in Seq(Flying) /\ in_flight' \in Seq(Flying)
      /\ m \in Msg
  BY TypeStep DEF TypeOK
<1>1. /\ clock <= clock' /\ crt_time' <= clock'
      /\ pc' \in {"drain", "take", "block"} => clock' <= crt_time' + MaxStall
  <2> USE DEF ClockIsNear, schedVars, wireVars
  <2>1. CASE UNCHANGED vars
    BY <1>0, <2>1 DEF vars
  <2>2. CASE \E len \in MsgLen : Send1(len)
    BY <1>0, <2>2 DEF Send1
  <2>3. CASE Send2 \/ Reverse
    BY <1>0, <2>3 DEF Send2, Reverse
  <2>4. CASE Forwarder
    <3>1. UNCHANGED wireVars /\ clock' = clock
      BY <2>4 DEF Forwarder, Receive, CheckSpace, Keep, Put, FwAt
    <3>2. pc' = pc \/ pc' = "loop"
      BY <2>4 DEF Forwarder, Receive, CheckSpace, Keep, Put, Signalled
    <3>3. UNCHANGED <<clock, crt_time>>
      BY <3>1
    <3> QED
      BY <1>0, <3>2, <3>3
  <2>5. CASE Loop
    BY <1>0, <2>5 DEF Loop, At
  <2>6. CASE SendOut \/ LookInBuffer
    <3>1. UNCHANGED <<clock, crt_time>> /\ pc = "drain"
      BY <2>6 DEF SendOut, LookInBuffer, At
    <3> QED
      BY <1>0, <3>1
  <2>7. CASE Take
    BY <1>0, <2>7 DEF Take, At
  <2>8. CASE Block \/ WakeUp \/ SpuriousWakeUp
    <3>1. UNCHANGED <<clock, crt_time>> /\ (pc' \in {"drain", "take", "block"} => pc = pc')
      BY <2>8 DEF Block, WakeUp, SpuriousWakeUp, At
    <3> QED
      BY <1>0, <3>1
  <2>9. CASE Tick
    BY <1>0, <2>9 DEF Tick
  <2> QED
    BY <2>1, <2>2, <2>3, <2>4, <2>5, <2>6, <2>7, <2>8, <2>9 DEF Next, Scheduler
<1>2. \A j \in DOMAIN buffer : buffer[j].at \in Nat /\ buffer[j].at <= clock
  <2>1. \A j \in DOMAIN buffer : buffer[j] \in Msg
    BY <1>0
  <2> QED
    BY <2>1 DEF ClockIsNear, Msg
<1>3. \A j \in DOMAIN buffer' : buffer'[j].at <= clock'
  <2> SUFFICES ASSUME NEW j \in DOMAIN buffer' PROVE buffer'[j].at <= clock'
    OBVIOUS
  <2>1. CASE UNCHANGED buffer
    BY <1>0, <1>1, <1>2, <2>1
  <2>2. CASE Put
    <3> DEFINE x == [m EXCEPT !.at = clock]
    <3>1. buffer' = Append(buffer, x) /\ clock' = clock
      BY <2>2 DEF Put, FwAt
    <3>2. x \in Msg /\ x.at = clock
      BY <1>0 DEF Msg
    <3> HIDE DEF x
    <3>3. CASE j \in DOMAIN buffer
      BY <1>0, <1>2, <3>1, <3>2, <3>3, Enqueued
    <3>4. CASE j \notin DOMAIN buffer
      <4>1. buffer'[j] = x
        BY <1>0, <3>1, <3>2, <3>4, Enqueued
      <4> QED
        BY <1>0, <3>1, <3>2, <4>1
    <3> QED
      BY <3>3, <3>4
  <2>3. CASE Take /\ ~UNCHANGED buffer
    <3>1. buffer # << >> /\ buffer' = Tail(buffer) /\ clock' = clock
      BY <2>3 DEF Take, At
    <3>2. buffer'[j] = buffer[j + 1] /\ j + 1 \in DOMAIN buffer
      BY <1>0, <3>1, Dequeued
    <3> QED
      BY <1>2, <3>1, <3>2
  <2> QED
    BY <2>1, <2>2, <2>3, BufferFrame
<1>4. \A j \in DOMAIN in_flight' : InTime(in_flight'[j])
  <2> SUFFICES ASSUME NEW j \in DOMAIN in_flight' PROVE InTime(in_flight'[j])
    OBVIOUS
  <2>0. \A k \in DOMAIN in_flight : InTime(in_flight[k])
    BY DEF ClockIsNear
  <2> HIDE DEF InTime
  <2>1. CASE UNCHANGED in_flight
    BY <2>0, <2>1
  <2>2. CASE SendOut
    <3>1. in_flight # << >> /\ in_flight' = Tail(in_flight)
      BY <2>2 DEF SendOut, Due
    <3>2. in_flight'[j] = in_flight[j + 1] /\ j + 1 \in DOMAIN in_flight
      BY <1>0, <3>1, Dequeued
    <3> QED
      BY <2>0, <3>2
  <2>3. CASE Take /\ ~UNCHANGED in_flight
    <3> DEFINE x == [n |-> OldestMsg.n, bad |-> OldestMsg.bad, at |-> OldestMsg.at,
                     finish_time |-> FinishTime]
    <3>1. buffer # << >> /\ in_flight' = Append(in_flight, x) /\ pc = "take"
      BY <2>3 DEF Take, At
    <3>2. OldestMsg \in Msg /\ OldestMsg.at \in Nat /\ OldestMsg.at <= clock
      BY <1>0, <1>2, <3>1, Dequeued DEF OldestMsg
    <3>3. FinishTime = crt_time + serialization_delay + delay /\ FinishTime \in Nat
      BY <1>0 DEF FinishTime
    <3>4. clock <= crt_time + MaxStall
      BY <3>1 DEF ClockIsNear
    <3>5. x \in Flying
      BY <3>2, <3>3 DEF Msg, Flying
    <3>6. x.at = OldestMsg.at /\ x.finish_time = FinishTime
      OBVIOUS
    <3> HIDE DEF x
    <3>7. InTime(x)
      BY <1>0, <3>2, <3>3, <3>4, <3>6 DEF InTime
    <3>8. CASE j \in DOMAIN in_flight
      BY <1>0, <2>0, <3>1, <3>5, <3>8, Enqueued
    <3>9. CASE j \notin DOMAIN in_flight
      <4>1. in_flight'[j] = x
        BY <1>0, <3>1, <3>5, <3>9, Enqueued
      <4> QED
        BY <3>7, <4>1
    <3> QED
      BY <3>8, <3>9
  <2> QED
    BY <2>1, <2>2, <2>3, WireFrame
<1> QED
  BY <1>1, <1>3, <1>4 DEF ClockIsNear

(***************************************************************************)
(* The bandwidth-delay product.                                            *)
(***************************************************************************)

\* Multiplication by the delay, one message at a time.
LEMMA OneMore ==
  ASSUME NEW n \in Nat, NEW d \in Nat
  PROVE  /\ (n + 1) * d = n * d + d /\ n * d \in Nat
         /\ 0 * d = 0
  OBVIOUS

\* The scheduler takes a message only when the head of the wire is not due, so
\* the head finishes after crt_time and the new one a known time after it.
LEMMA SpanStep ==
  TypeOK /\ FinishedWhenIdle /\ NotDueAtTake /\ WireSpan /\ [Next]_vars
    => NotDueAtTake' /\ WireSpan'
<1> SUFFICES ASSUME TypeOK, FinishedWhenIdle, NotDueAtTake, WireSpan, [Next]_vars
             PROVE  NotDueAtTake' /\ WireSpan'
  OBVIOUS
<1>0. in_flight \in Seq(Flying) /\ crt_time \in Nat
  BY DEF TypeOK
<1>1. NotDueAtTake'
  <2> USE DEF NotDueAtTake, schedVars, wireVars
  <2>1. CASE UNCHANGED vars
    BY <2>1 DEF vars
  <2>2. CASE \E len \in MsgLen : Send1(len)
    BY <2>2 DEF Send1
  <2>3. CASE Send2 \/ Reverse \/ Tick
    BY <2>3 DEF Send2, Reverse, Tick
  <2>4. CASE Forwarder
    <3>1. UNCHANGED <<in_flight, crt_time>> /\ (pc' = "take" => pc = "take")
      BY <2>4 DEF Forwarder, Receive, CheckSpace, Keep, Put, FwAt, Signalled
    <3> QED
      BY <3>1
  <2>5. CASE Loop \/ SendOut \/ Block \/ WakeUp \/ SpuriousWakeUp
    <3>1. pc' # "take"
      BY <2>5 DEF Loop, SendOut, Block, WakeUp, SpuriousWakeUp, At
    <3> QED
      BY <3>1
  <2>6. CASE LookInBuffer
    <3>1. UNCHANGED <<in_flight, crt_time>> /\ ~Due
      BY <2>6 DEF LookInBuffer
    <3>2. in_flight # << >> => Head(in_flight) \in Flying
      BY <1>0, Dequeued
    <3>3. in_flight # << >> => Head(in_flight).finish_time \in Nat
      BY <3>2 DEF Flying
    <3> QED
      BY <1>0, <3>1, <3>3 DEF Due
  <2>7. CASE Take
    <3>1. pc' = "take" => UNCHANGED <<pc, in_flight, crt_time>>
      BY <2>7 DEF Take, Pause, At
    <3> QED
      BY <3>1
  <2> QED
    BY <2>1, <2>2, <2>3, <2>4, <2>5, <2>6, <2>7 DEF Next, Scheduler
<1>2. WireSpan'
  <2>1. CASE UNCHANGED <<in_flight, idle_time>>
    BY <2>1 DEF WireSpan
  <2>2. CASE SendOut
    <3>1. in_flight # << >> /\ in_flight' = Tail(in_flight)
      BY <2>2 DEF SendOut, Due
    <3>2. /\ DOMAIN in_flight' = 1..(Len(in_flight) - 1) /\ Len(in_flight) \in Nat
          /\ \A j \in DOMAIN in_flight' :
               in_flight'[j] = in_flight[j + 1] /\ j + 1 \in DOMAIN in_flight
      BY <1>0, <3>1, Dequeued
    <3> SUFFICES ASSUME NEW j \in DOMAIN in_flight', NEW k \in DOMAIN in_flight', j < k
                 PROVE  /\ in_flight'[j].finish_time + (k - j) * serialization_delay
                             <= in_flight'[k].finish_time
                        /\ in_flight'[k].finish_time
                             < in_flight'[j].finish_time + serialization_delay + delay
      BY DEF WireSpan
    <3>3. j + 1 < k + 1 /\ (k + 1) - (j + 1) = k - j
      BY <3>2
    <3> QED
      BY <3>2, <3>3 DEF WireSpan
  <2>3. CASE Take /\ ~UNCHANGED <<in_flight, idle_time>>
    <3> DEFINE x == [n |-> OldestMsg.n, bad |-> OldestMsg.bad, at |-> OldestMsg.at,
                     finish_time |-> FinishTime]
               last == Len(in_flight)
    <3>1. buffer # << >> /\ in_flight' = Append(in_flight, x) /\ pc = "take" /\ MayTake
      BY <2>3 DEF Take, At
    <3>2. OldestMsg \in Msg
      BY <3>1, Dequeued DEF OldestMsg, TypeOK
    <3>3. FinishTime = crt_time + serialization_delay + delay /\ FinishTime \in Nat
      BY <1>0 DEF FinishTime
    <3>4. x \in Flying /\ x.finish_time = FinishTime
      BY <3>2, <3>3 DEF Msg, Flying
    <3> HIDE DEF x
    <3>5. /\ DOMAIN in_flight = 1..last /\ last \in Nat
          /\ DOMAIN in_flight' = 1..(last + 1)
          /\ \A j \in 1..last : in_flight'[j] = in_flight[j] /\ in_flight[j] \in Flying
          /\ in_flight'[last + 1] = x
      BY <1>0, <3>1, <3>4, Enqueued
    <3> HIDE DEF last
    <3>6. \A j \in 1..last : in_flight[j].finish_time \in Nat
      BY <3>5 DEF Flying
    <3>7. \A j \in 1..last : in_flight[j].finish_time > crt_time
      <4> SUFFICES ASSUME NEW j \in 1..last PROVE in_flight[j].finish_time > crt_time
        OBVIOUS
      <4>1. in_flight # << >> /\ 1 \in 1..last /\ Head(in_flight) = in_flight[1]
        BY <1>0, <3>5
      <4>2. in_flight[1].finish_time > crt_time
        BY <3>1, <4>1 DEF NotDueAtTake
      <4>3. CASE j = 1
        BY <4>2, <4>3
      <4>4. CASE j # 1
        <5>1. 1 < j /\ (j - 1) \in Nat
          BY <3>5, <4>4
        <5>2. in_flight[1].finish_time + (j - 1) * serialization_delay
                <= in_flight[j].finish_time
          BY <3>5, <4>1, <5>1 DEF WireSpan
        <5>3. (j - 1) * serialization_delay \in Nat
          BY <5>1, OneMore
        <5> QED
          BY <1>0, <3>6, <4>1, <4>2, <5>2, <5>3
      <4> QED
        BY <4>3, <4>4
    <3>8. \A j \in 1..last :
            in_flight[j].finish_time + ((last + 1) - j) * serialization_delay <= FinishTime
      <4> SUFFICES ASSUME NEW j \in 1..last
                   PROVE  in_flight[j].finish_time + ((last + 1) - j) * serialization_delay
                            <= FinishTime
        OBVIOUS
      <4>1. last \in 1..last /\ (last - j) \in Nat /\ (last + 1) - j = (last - j) + 1
        BY <3>5
      <4>2. ((last + 1) - j) * serialization_delay
              = (last - j) * serialization_delay + serialization_delay
        BY <4>1, OneMore
      <4>3. in_flight[last].finish_time <= crt_time + delay
        <5>0. crt_time >= idle_time
          BY <3>1, Zenon DEF MayTake
        <5>1. crt_time >= idle_time /\ idle_time \in Nat
          BY <5>0, Zenon DEF TypeOK
        <5>2. in_flight[last].finish_time <= idle_time + delay
          BY <3>5, <4>1 DEF FinishedWhenIdle
        <5>3. in_flight[last].finish_time \in Nat
          BY <3>6, <4>1, Zenon
        <5>4. crt_time \in Nat
          BY <1>0
        <5> QED
          BY <5>1, <5>2, <5>3, <5>4, SMTT(30)
      <4>4. in_flight[j].finish_time + (last - j) * serialization_delay
              <= in_flight[last].finish_time
        <5>1. CASE j = last
          <6>1. last - j = 0
            BY <3>5, <5>1
          <6>2. (last - j) * serialization_delay = 0
            BY <6>1, 0 * serialization_delay = 0
          <6>3. in_flight[j].finish_time \in Nat /\ in_flight[j] = in_flight[last]
            BY <3>6, <5>1, Zenon
          <6> QED
            BY <6>2, <6>3
        <5>2. CASE j # last
          <6>1. j < last
            BY <3>5, <5>2
          <6> QED
            BY <3>5, <4>1, <6>1 DEF WireSpan
        <5> QED
          BY <5>1, <5>2
      <4>5. (last - j) * serialization_delay \in Nat
        BY <4>1, OneMore
      <4> DEFINE p == (last - j) * serialization_delay
      <4>6. in_flight[j].finish_time + p <= in_flight[last].finish_time /\ p \in Nat
        BY <4>4, <4>5
      <4>7. ((last + 1) - j) * serialization_delay = p + serialization_delay
        BY <4>2
      <4> HIDE DEF p
      <4>8. in_flight[j].finish_time + (p + serialization_delay)
              <= crt_time + serialization_delay + delay
        <5> DEFINE a == in_flight[j].finish_time
                   b == in_flight[last].finish_time
        <5>1. a \in Nat /\ b \in Nat /\ a + p <= b /\ b <= crt_time + delay /\ p \in Nat
          BY <3>6, <4>1, <4>3, <4>6
        <5> HIDE DEF a, b
        <5>2. a + (p + serialization_delay) <= crt_time + serialization_delay + delay
          BY <1>0, <5>1
        <5> QED
          BY <5>2 DEF a
      <4> QED
        BY <3>3, <4>7, <4>8
    <3>9. \A j, k \in DOMAIN in_flight' : j < k =>
             /\ in_flight'[j].finish_time + (k - j) * serialization_delay
                  <= in_flight'[k].finish_time
             /\ in_flight'[k].finish_time
                  < in_flight'[j].finish_time + serialization_delay + delay
      <4> SUFFICES ASSUME NEW j \in DOMAIN in_flight', NEW k \in DOMAIN in_flight', j < k
                   PROVE  /\ in_flight'[j].finish_time + (k - j) * serialization_delay
                               <= in_flight'[k].finish_time
                          /\ in_flight'[k].finish_time
                               < in_flight'[j].finish_time + serialization_delay + delay
        OBVIOUS
      <4>1. j \in 1..last
        BY <3>5
      <4>2. CASE k = last + 1
        <5>1. in_flight'[j] = in_flight[j] /\ in_flight'[k].finish_time = FinishTime
          BY <3>4, <3>5, <4>1, <4>2
        <5>2. in_flight[j].finish_time + (k - j) * serialization_delay <= FinishTime
          <6>1. in_flight[j].finish_time + ((last + 1) - j) * serialization_delay <= FinishTime
            BY <3>8, <4>1
          <6> QED
            BY <4>2, <6>1, Zenon
        <5>3. FinishTime < in_flight[j].finish_time + serialization_delay + delay
          BY <1>0, <3>3, <3>6, <3>7, <4>1
        <5> QED
          BY <5>1, <5>2, <5>3
      <4>3. CASE k \in 1..last
        BY <3>5, <4>1, <4>3 DEF WireSpan
      <4> QED
        BY <3>5, <4>2, <4>3
    <3> QED
      BY <3>9 DEF WireSpan
  <2> QED
    BY <2>1, <2>2, <2>3, WireFrame
<1> QED
  BY <1>1, <1>2

-----------------------------------------------------------------------------
LEMMA LinkStep == LInv /\ [Next]_vars => LInv'
<1> SUFFICES ASSUME LInv, [Next]_vars PROVE LInv'
  OBVIOUS
<1>1. TypeOK' /\ ClockIsNear'
  BY TypeStep, ClockStep DEF LInv
<1>2. BufferBounded' /\ RoomIsKept' /\ PutIsDecided'
  BY RoomStep DEF LInv
<1>3. TakesWhatIsThere' /\ NoLostSignal'
  BY StuffStep DEF LInv
<1>4. Serialised' /\ FinishedWhenIdle'
  BY WireStep DEF LInv
<1>5. NotDueAtTake' /\ WireSpan'
  BY SpanStep DEF LInv
<1> QED
  BY <1>1, <1>2, <1>3, <1>4, <1>5 DEF LInv

\* The inductive invariant of the link's two threads.
THEOREM LinkInvariant == Spec => []LInv
  BY LinkInit, LinkStep, PTL DEF Spec

\* The types of the queues and of the threads' locals (link.c:180-184, 286-289).
THEOREM LinkTypes == Spec => []TypeOK
<1>1. LInv => TypeOK
  BY DEF LInv
<1> QED
  BY <1>1, LinkInvariant, PTL

\* The buffer holds BUFFER_SIZE messages at most, though the space is checked
\* in another critical section than the one that uses it (link.c:295-314).
THEOREM BufferStaysBounded == Spec => []BufferBounded
<1>1. LInv => BufferBounded
  BY DEF LInv
<1> QED
  BY <1>1, LinkInvariant, PTL

\* A message seen in the buffer is there when it is taken (link.c:219-240).
THEOREM TakeFindsMessage == Spec => []TakesWhatIsThere
<1>1. LInv => TakesWhatIsThere
  BY DEF LInv
<1> QED
  BY <1>1, LinkInvariant, PTL

\* Neither thread is deceived by what it saw before it released the lock
\* (link.c:219-240, 295-314).
THEOREM SeenStaysSo == Spec => []SeenIsStillSo
<1>1. BufferBounded /\ TakesWhatIsThere => SeenIsStillSo
  BY DEF SeenIsStillSo
<1> QED
  BY <1>1, BufferStaysBounded, TakeFindsMessage, PTL

\* The scheduler never waits for a signal that was already given (link.c:271-277,
\* 311-314).
THEOREM SignalIsNotLost == Spec => []NoLostSignal
<1>1. LInv => NoLostSignal
  BY DEF LInv
<1> QED
  BY <1>1, LinkInvariant, PTL

\* Messages on the wire finish serialization_delay apart (link.c:232-244).
THEOREM WireSerialises == Spec => []Serialised
<1>1. LInv => Serialised
  BY DEF LInv
<1> QED
  BY <1>1, LinkInvariant, PTL

\* The wire holds no more than its bandwidth-delay product (link.c:194-199,
\* 232-244).
THEOREM PipeStaysBounded == Spec => []PipeBounded
<1>1. LInv => PipeBounded
  <2> DEFINE last == Len(in_flight)
  <2> SUFFICES ASSUME LInv, last > 1
               PROVE  (last - 1) * serialization_delay < serialization_delay + delay
    BY DEF PipeBounded
  <2>1. in_flight \in Seq(Flying) /\ last \in Nat /\ DOMAIN in_flight = 1..last
    BY DEF LInv, TypeOK
  <2>2. 1 \in DOMAIN in_flight /\ last \in DOMAIN in_flight /\ 1 < last /\ last - 1 \in Nat
    BY <2>1
  <2>3. in_flight[1].finish_time \in Nat /\ in_flight[last].finish_time \in Nat
    <3>1. in_flight[1] \in Flying /\ in_flight[last] \in Flying
      BY <2>1, <2>2
    <3> QED
      BY <3>1 DEF Flying
  <2>4. (last - 1) * serialization_delay \in Nat
    BY <2>2, OneMore
  <2> HIDE DEF last
  <2>5. /\ in_flight[1].finish_time + (last - 1) * serialization_delay
             <= in_flight[last].finish_time
        /\ in_flight[last].finish_time
             < in_flight[1].finish_time + serialization_delay + delay
    BY <2>2 DEF LInv, WireSpan
  <2> QED
    BY <2>3, <2>4, <2>5
<1> QED
  BY <1>1, LinkInvariant, PTL

\* No message leaves before its delays have passed since it entered the buffer,
\* less what the scheduler's clock may be stale (link.c:194-217, 243-244).
THEOREM DelaysAreHonoured == Spec => DelayHonoured
<1>1. LInv /\ [Next]_vars =>
        (in_flight # << >> /\ in_flight' = Tail(in_flight) =>
           clock + MaxStall >= Head(in_flight).at + serialization_delay + delay)
  <2> SUFFICES ASSUME LInv, [Next]_vars, in_flight # << >>, in_flight' = Tail(in_flight)
               PROVE  clock + MaxStall >= Head(in_flight).at + serialization_delay + delay
    OBVIOUS
  <2>0. /\ in_flight \in Seq(Flying) /\ clock \in Nat /\ crt_time \in Nat
        /\ crt_time <= clock
    BY DEF LInv, TypeOK, ClockIsNear
  <2>1. /\ Len(in_flight) \in Nat /\ Len(in_flight') = Len(in_flight) - 1
        /\ Head(in_flight) \in Flying /\ Head(in_flight) = in_flight[1] /\ 1 \in DOMAIN in_flight
    BY <2>0, Dequeued
  <2>2. SendOut
    <3>1. CASE UNCHANGED <<in_flight, idle_time>>
      BY <2>0, <2>1, <3>1
    <3>2. CASE Take /\ ~UNCHANGED <<in_flight, idle_time>>
      <4>1. buffer # << >> /\ buffer \in Seq(Msg)
        BY <3>2 DEF Take, LInv, TypeOK
      <4>2. OldestMsg \in Msg
        BY <4>1, Dequeued DEF OldestMsg
      <4>3. FinishTime \in Nat
        BY <2>0 DEF FinishTime
      <4>4. [n |-> OldestMsg.n, bad |-> OldestMsg.bad, at |-> OldestMsg.at,
             finish_time |-> FinishTime] \in Flying
        BY <4>2, <4>3 DEF Msg, Flying
      <4>5. Len(in_flight') = Len(in_flight) + 1
        BY <2>0, <3>2, <4>4, Enqueued DEF Take
      <4> QED
        BY <2>1, <4>5
    <3> QED
      BY <3>1, <3>2, WireFrame
  <2>3. crt_time >= Head(in_flight).finish_time
    BY <2>2 DEF SendOut, Due
  <2>4. Head(in_flight).at + serialization_delay + delay <= Head(in_flight).finish_time + MaxStall
    BY <2>1 DEF LInv, ClockIsNear
  <2>5. Head(in_flight).at \in Nat /\ Head(in_flight).finish_time \in Nat
    BY <2>1 DEF Flying
  <2> QED
    BY <2>0, <2>3, <2>4, <2>5
<1> QED
  BY <1>1, LinkInvariant, PTL DEF Spec, DelayHonoured

(***************************************************************************)
(* The link is a FIFO that may lose.                                       *)
(***************************************************************************)

LEMMA SameSequence ==
  ASSUME NEW S, NEW s \in Seq(S), NEW t \in Seq(S), Len(s) = Len(t),
         \A j \in 1..Len(s) : s[j] = t[j]
  PROVE  s = t
  OBVIOUS

\* OnTheWire, of any messages f in flight and any b in the buffer.
Wire(f, b) == [j \in 1..(Len(f) + Len(b)) |-> IF j <= Len(f) THEN Item(f[j]) ELSE Item(b[j - Len(f)])]

LEMMA WireParts ==
  ASSUME NEW f \in Seq(Flying), NEW b \in Seq(Msg)
  PROVE  /\ Wire(f, b) \in Seq(Message) /\ Len(Wire(f, b)) = Len(f) + Len(b)
         /\ \A j \in 1..Len(f) : Wire(f, b)[j] = Item(f[j])
         /\ \A j \in 1..Len(b) : Wire(f, b)[Len(f) + j] = Item(b[j])
         /\ \A j \in 1..(Len(f) + Len(b)) :
              j \in 1..Len(f) \/ (j - Len(f) \in 1..Len(b) /\ Wire(f, b)[j] = Item(b[j - Len(f)]))
         /\ Len(f) \in Nat /\ Len(b) \in Nat
<1>1. Len(f) \in Nat /\ Len(b) \in Nat
  OBVIOUS
<1>2. \A j \in 1..(Len(f) + Len(b)) :
        IF j <= Len(f) THEN j \in 1..Len(f) ELSE j - Len(f) \in 1..Len(b)
  BY <1>1
<1>3. (\A j \in 1..Len(f) : Item(f[j]) \in Message) /\ (\A j \in 1..Len(b) : Item(b[j]) \in Message)
  <2>1. (\A x \in Flying : Item(x) \in Message) /\ (\A x \in Msg : Item(x) \in Message)
    BY DEF Item, Message, Flying, Msg
  <2>2. (\A j \in 1..Len(f) : f[j] \in Flying) /\ (\A j \in 1..Len(b) : b[j] \in Msg)
    OBVIOUS
  <2> QED
    BY <2>1, <2>2, Zenon
<1>4. Wire(f, b) \in [1..(Len(f) + Len(b)) -> Message]
  BY <1>2, <1>3, Zenon DEF Wire
<1>5. Wire(f, b) \in Seq(Message) /\ Len(Wire(f, b)) = Len(f) + Len(b)
  <2>1. \A n \in Nat : \A w \in [1..n -> Message] : w \in Seq(Message) /\ Len(w) = n
    OBVIOUS
  <2>2. Len(f) + Len(b) \in Nat
    BY <1>1
  <2> QED
    BY <1>4, <2>1, <2>2, Zenon
<1>6. \A j \in 1..(Len(f) + Len(b)) :
        Wire(f, b)[j] = IF j <= Len(f) THEN Item(f[j]) ELSE Item(b[j - Len(f)])
  BY Zenon DEF Wire
<1>7. \A j \in 1..Len(f) : j \in 1..(Len(f) + Len(b)) /\ j <= Len(f)
  BY <1>1
<1>8. \A j \in 1..Len(b) : Len(f) + j \in 1..(Len(f) + Len(b)) /\ ~(Len(f) + j <= Len(f)) /\ (Len(f) + j) - Len(f) = j
  BY <1>1
<1>9. ASSUME NEW j \in 1..Len(b) PROVE Wire(f, b)[Len(f) + j] = Item(b[j])
  <2>1. PICK k : k = Len(f) + j
    OBVIOUS
  <2>2. k \in 1..(Len(f) + Len(b)) /\ ~(k <= Len(f)) /\ k - Len(f) = j
    BY <1>8, <2>1
  <2> QED
    BY <1>6, <2>1, <2>2, Zenon
<1> QED
  BY <1>1, <1>2, <1>5, <1>6, <1>7, <1>9, Zenon

\* enqueue adds at the end ...
LEMMA WireGrows ==
  ASSUME NEW f \in Seq(Flying), NEW b \in Seq(Msg), NEW e \in Msg
  PROVE  Wire(f, Append(b, e)) = Append(Wire(f, b), Item(e))
<1> DEFINE w == Wire(f, b)
           v == Wire(f, Append(b, e))
<1>1. /\ w \in Seq(Message) /\ Len(w) = Len(f) + Len(b) /\ Len(f) \in Nat /\ Len(b) \in Nat
      /\ \A j \in 1..Len(f) : w[j] = Item(f[j])
      /\ \A j \in 1..(Len(f) + Len(b)) : j \in 1..Len(f) \/ (j - Len(f) \in 1..Len(b) /\ w[j] = Item(b[j - Len(f)]))
  BY WireParts
<1>2. Append(b, e) \in Seq(Msg) /\ Len(Append(b, e)) = Len(b) + 1 /\ Append(b, e)[Len(b) + 1] = e
      /\ \A j \in 1..Len(b) : Append(b, e)[j] = b[j]
  OBVIOUS
<1>3. /\ v \in Seq(Message) /\ Len(v) = Len(f) + Len(Append(b, e))
      /\ \A j \in 1..Len(f) : v[j] = Item(f[j])
      /\ \A j \in 1..Len(Append(b, e)) : v[Len(f) + j] = Item(Append(b, e)[j])
  BY <1>2, WireParts
<1>4. Item(e) \in Message
  BY DEF Item, Message, Msg
<1> HIDE DEF w, v
<1>5. Len(v) = Len(w) + 1 /\ v[Len(w) + 1] = Item(e)
  <2>1. Len(f) + (Len(b) + 1) = Len(w) + 1 /\ Len(b) + 1 \in 1..(Len(b) + 1)
    BY <1>1
  <2> QED
    BY <1>2, <1>3, <2>1
<1>6. ASSUME NEW j \in 1..Len(w) PROVE v[j] = w[j]
  <2>1. CASE j \in 1..Len(f)
    BY <1>1, <1>3, <2>1
  <2>2. CASE j - Len(f) \in 1..Len(b) /\ w[j] = Item(b[j - Len(f)])
    <3>1. j = Len(f) + (j - Len(f)) /\ j - Len(f) \in 1..(Len(b) + 1)
      BY <1>1, <2>2
    <3>2. v[j] = Item(Append(b, e)[j - Len(f)])
      BY <1>2, <1>3, <3>1
    <3> QED
      BY <1>2, <2>2, <3>2
  <2> QED
    BY <1>1, <2>1, <2>2
<1>7. /\ Append(w, Item(e)) \in Seq(Message) /\ Len(Append(w, Item(e))) = Len(w) + 1 /\ Len(w) \in Nat
      /\ \A j \in 1..(Len(w) + 1) : j \in 1..Len(w) \/ j = Len(w) + 1
      /\ \A j \in 1..Len(w) : Append(w, Item(e))[j] = w[j]
      /\ Append(w, Item(e))[Len(w) + 1] = Item(e)
  <2>1. w \in Seq(Message) /\ Item(e) \in Message
    BY <1>1, <1>4
  <2>2. PICK i \in Message : i = Item(e)
    BY <2>1
  <2>3. /\ Append(w, i) \in Seq(Message) /\ Len(Append(w, i)) = Len(w) + 1 /\ Len(w) \in Nat
        /\ \A j \in 1..Len(w) : Append(w, i)[j] = w[j]
        /\ Append(w, i)[Len(w) + 1] = i
    BY <2>1, Enqueued
  <2>4. \A j \in 1..(Len(w) + 1) : j \in 1..Len(w) \/ j = Len(w) + 1
    BY <2>3
  <2> QED
    BY <2>2, <2>3, <2>4, Zenon
<1>8. \A j \in 1..Len(v) : v[j] = Append(w, Item(e))[j]
  BY <1>5, <1>6, <1>7
<1>9. v = Append(w, Item(e))
  BY <1>3, <1>5, <1>7, <1>8, SameSequence
<1> QED
  BY <1>9 DEF w, v

\* ... the oldest in flight is the first to leave ...
LEMMA WireShrinks ==
  ASSUME NEW f \in Seq(Flying), NEW b \in Seq(Msg), f # << >>
  PROVE  /\ Wire(f, b) # << >> /\ Head(Wire(f, b)) = Item(Head(f))
         /\ Wire(Tail(f), b) = Tail(Wire(f, b))
<1> DEFINE w == Wire(f, b)
           v == Wire(Tail(f), b)
<1>1. /\ w \in Seq(Message) /\ Len(w) = Len(f) + Len(b) /\ Len(f) \in Nat /\ Len(b) \in Nat
      /\ \A j \in 1..Len(f) : w[j] = Item(f[j])
      /\ \A j \in 1..Len(b) : w[Len(f) + j] = Item(b[j])
  BY WireParts
<1>2. /\ Tail(f) \in Seq(Flying) /\ Head(f) = f[1] /\ 1 \in 1..Len(f) /\ Len(Tail(f)) = Len(f) - 1
      /\ \A j \in 1..(Len(f) - 1) : Tail(f)[j] = f[j + 1] /\ j + 1 \in 1..Len(f)
  BY Dequeued
<1>3. /\ v \in Seq(Message) /\ Len(v) = Len(Tail(f)) + Len(b)
      /\ \A j \in 1..Len(Tail(f)) : v[j] = Item(Tail(f)[j])
      /\ \A j \in 1..(Len(Tail(f)) + Len(b)) :
           j \in 1..Len(Tail(f)) \/ (j - Len(Tail(f)) \in 1..Len(b) /\ v[j] = Item(b[j - Len(Tail(f))]))
  BY <1>2, WireParts
<1> HIDE DEF w, v
<1>4. w # << >> /\ Head(w) = Item(Head(f))
  <2>1. Len(w) # 0 /\ w[1] = Item(f[1])
    BY <1>1, <1>2
  <2> QED
    BY <1>1, <1>2, <2>1
<1>5. /\ Tail(w) \in Seq(Message) /\ Len(Tail(w)) = Len(v)
      /\ \A j \in 1..Len(v) : Tail(w)[j] = w[j + 1]
  BY <1>1, <1>2, <1>3, <1>4, Dequeued
<1>6. ASSUME NEW j \in 1..Len(v) PROVE v[j] = w[j + 1]
  <2>1. CASE j \in 1..Len(Tail(f))
    BY <1>1, <1>2, <1>3, <2>1
  <2>2. CASE j - Len(Tail(f)) \in 1..Len(b) /\ v[j] = Item(b[j - Len(Tail(f))])
    <3>1. j - Len(Tail(f)) = j - (Len(f) - 1) /\ Len(f) + (j - (Len(f) - 1)) = j + 1
      BY <1>1, <1>2
    <3>2. w[Len(f) + (j - (Len(f) - 1))] = Item(b[j - (Len(f) - 1)])
      BY <1>1, <2>2, <3>1
    <3> QED
      BY <2>2, <3>1, <3>2
  <2> QED
    BY <1>3, <2>1, <2>2
<1>7. v = Tail(w)
  BY <1>3, <1>5, <1>6, SameSequence
<1> QED
  BY <1>4, <1>7 DEF w, v

\* ... and to move one from the buffer into flight changes nothing.
LEMMA WireMoves ==
  ASSUME NEW f \in Seq(Flying), NEW b \in Seq(Msg), b # << >>, NEW x \in Flying, Item(x) = Item(Head(b))
  PROVE  Wire(Append(f, x), Tail(b)) = Wire(f, b)
<1> DEFINE w == Wire(f, b)
           g == Append(f, x)
           v == Wire(g, Tail(b))
<1>1. /\ w \in Seq(Message) /\ Len(w) = Len(f) + Len(b) /\ Len(f) \in Nat /\ Len(b) \in Nat
      /\ \A j \in 1..Len(f) : w[j] = Item(f[j])
      /\ \A j \in 1..Len(b) : w[Len(f) + j] = Item(b[j])
  BY WireParts
<1>2. /\ Tail(b) \in Seq(Msg) /\ Head(b) = b[1] /\ 1 \in 1..Len(b) /\ Len(Tail(b)) = Len(b) - 1
      /\ \A j \in 1..(Len(b) - 1) : Tail(b)[j] = b[j + 1] /\ j + 1 \in 1..Len(b)
  BY Dequeued
<1>3. /\ g \in Seq(Flying) /\ Len(g) = Len(f) + 1
      /\ \A j \in 1..Len(f) : g[j] = f[j]
      /\ g[Len(f) + 1] = x
  BY Enqueued
<1> HIDE DEF g
<1>4. /\ v \in Seq(Message) /\ Len(v) = Len(g) + Len(Tail(b))
      /\ \A j \in 1..Len(g) : v[j] = Item(g[j])
      /\ \A j \in 1..(Len(g) + Len(Tail(b))) :
           j \in 1..Len(g) \/ (j - Len(g) \in 1..Len(Tail(b)) /\ v[j] = Item(Tail(b)[j - Len(g)]))
  BY <1>2, <1>3, WireParts
<1> HIDE DEF w, v
<1>5. Len(v) = Len(w)
  BY <1>1, <1>2, <1>3, <1>4
<1>6. ASSUME NEW j \in 1..Len(v) PROVE v[j] = w[j]
  <2>1. CASE j \in 1..Len(f)
    <3>1. j \in 1..Len(g)
      BY <1>1, <1>3, <2>1
    <3> QED
      BY <1>1, <1>3, <1>4, <2>1, <3>1
  <2>2. CASE j = Len(f) + 1
    <3>1. j \in 1..Len(g)
      BY <1>1, <1>3, <2>2
    <3> QED
      BY <1>1, <1>2, <1>3, <1>4, <2>2, <3>1
  <2>3. CASE j - Len(g) \in 1..Len(Tail(b)) /\ v[j] = Item(Tail(b)[j - Len(g)])
    <3>1. PICK i \in 1..(Len(b) - 1) : i = j - Len(g)
      BY <1>2, <2>3
    <3>2. j = Len(f) + (i + 1) /\ i + 1 \in 1..Len(b)
      BY <1>1, <1>3, <3>1
    <3>3. v[j] = Item(b[i + 1]) /\ w[Len(f) + (i + 1)] = Item(b[i + 1])
      BY <1>1, <1>2, <2>3, <3>1, <3>2
    <3> QED
      BY <3>2, <3>3
  <2>4. j \in 1..Len(g) => j \in 1..Len(f) \/ j = Len(f) + 1
    BY <1>1, <1>3
  <2> QED
    BY <1>4, <2>1, <2>2, <2>3, <2>4
<1>7. v = w
  BY <1>1, <1>4, <1>5, <1>6, SameSequence
<1> QED
  BY <1>7 DEF g, v, w

\* The numbers of the messages that run_forwarding has put in the link, and of those that came out.
Passed == {in_flight[j].n : j \in DOMAIN in_flight} \cup {buffer[j].n : j \in DOMAIN buffer}
            \cup {out2[j].n : j \in DOMAIN out2}

\* Numbers grow from what has passed through run_forwarding to the socket.
Ordered ==
  /\ \A x \in Passed : /\ x <= sent1
                       /\ \A j \in DOMAIN sock1 : x < sock1[j].n
                       /\ fw # "recv" => x < m.n
  /\ m.n <= sent1
  /\ fw # "recv" => \A j \in DOMAIN sock1 : m.n < sock1[j].n
  /\ \A j \in DOMAIN sock1 : sock1[j].n <= sent1
  /\ \A j, k \in DOMAIN sock1 : j < k => sock1[j].n < sock1[k].n

\* What a step does to the link: a message enters it, leaves it, moves in it, or nothing.
Entered == /\ Put /\ buffer' = Append(buffer, [m EXCEPT !.at = clock]) /\ UNCHANGED <<in_flight, out2, alive>>
Left == /\ in_flight # << >> /\ in_flight' = Tail(in_flight)
        /\ out2' \in {Append(out2, Item(Head(in_flight))), out2}
        /\ UNCHANGED <<buffer, alive>> /\ alive = "running"
Moved == /\ buffer # << >> /\ buffer' = Tail(buffer) /\ UNCHANGED <<out2, alive>>
         /\ \E x \in Flying : Item(x) = Item(Head(buffer)) /\ in_flight' = Append(in_flight, x)
Still == UNCHANGED <<in_flight, buffer, out2>> /\ (alive' = alive \/ (alive = "running" /\ alive' # "running"))

LEMMA LinkKinds ==
  ASSUME TypeOK, [Next]_vars
  PROVE  Entered \/ Left \/ Moved \/ Still
<1> USE DEF schedVars, wireVars
<1>1. CASE UNCHANGED vars
  BY <1>1 DEF vars, Still
<1>2. CASE \E len \in MsgLen : Send1(len)
  BY <1>2 DEF Send1, Still
<1>3. CASE Send2 \/ Reverse \/ Tick
  BY <1>3 DEF Send2, Reverse, Tick, Still
<1>4. CASE Receive \/ CheckSpace
  BY <1>4 DEF Receive, CheckSpace, FwAt, Still
<1>5. CASE Keep
  BY <1>5 DEF Keep, FwAt, Still
<1>6. CASE Put
  BY <1>6 DEF Put, FwAt, Entered
<1>7. CASE Loop \/ LookInBuffer \/ Block \/ WakeUp \/ SpuriousWakeUp
  BY <1>7 DEF Loop, LookInBuffer, Block, WakeUp, SpuriousWakeUp, At, Still
<1>8. CASE SendOut
  BY <1>8 DEF SendOut, Due, At, Left
<1>9. CASE Take
  <2>1. CASE MayTake /\ buffer # << >>
    <3>1. PICK x : x = [n |-> OldestMsg.n, bad |-> OldestMsg.bad, at |-> OldestMsg.at,
                        finish_time |-> FinishTime]
      OBVIOUS
    <3>2. Head(buffer) \in Msg
      BY <2>1, Dequeued DEF TypeOK
    <3>3. FinishTime \in Nat
      BY DEF FinishTime, TypeOK
    <3>4. x \in Flying /\ Item(x) = Item(Head(buffer))
      BY <3>1, <3>2, <3>3 DEF Item, OldestMsg, Flying, Msg
    <3>5. in_flight' = Append(in_flight, x) /\ buffer' = Tail(buffer) /\ UNCHANGED <<alive, out2>>
      BY <1>9, <2>1, <3>1 DEF Take, At
    <3> QED
      BY <2>1, <3>4, <3>5 DEF Moved
  <2>2. CASE MayTake /\ buffer = << >>
    BY <1>9, <2>2 DEF Take, At, Still
  <2>3. CASE ~MayTake
    BY <1>9, <2>3 DEF Take, Still
  <2> QED
    BY <2>1, <2>2, <2>3
<1> QED
  BY <1>1, <1>2, <1>3, <1>4, <1>5, <1>6, <1>7, <1>8, <1>9 DEF Next, Forwarder, Scheduler

\* Nothing passes run_forwarding but what it puts.
LEMMA PassedStep ==
  ASSUME TypeOK, [Next]_vars
  PROVE  IF Entered THEN Passed' \subseteq Passed \cup {m.n} ELSE Passed' \subseteq Passed
<1>1. buffer \in Seq(Msg) /\ in_flight \in Seq(Flying) /\ out2 \in Seq(Message) /\ m \in Msg /\ clock \in Nat
  BY DEF TypeOK
<1>2. CASE Entered
  <2>1. PICK e \in Msg : e = [m EXCEPT !.at = clock] /\ e.n = m.n
    <3>1. [m EXCEPT !.at = clock] \in Msg /\ [m EXCEPT !.at = clock].n = m.n
      BY <1>1 DEF Msg
    <3> QED
      BY <3>1
  <2>2. \A j \in DOMAIN buffer' : (j \in DOMAIN buffer /\ buffer'[j] = buffer[j]) \/ buffer'[j].n = m.n
    BY <1>1, <1>2, <2>1, Enqueued DEF Entered
  <2> QED
    BY <1>2, <2>2 DEF Entered, Passed
<1>3. CASE Left
  <2>1. /\ \A j \in DOMAIN in_flight' : j + 1 \in DOMAIN in_flight /\ in_flight'[j] = in_flight[j + 1]
        /\ Head(in_flight) = in_flight[1] /\ 1 \in DOMAIN in_flight /\ Head(in_flight) \in Flying
    BY <1>1, <1>3, Dequeued DEF Left
  <2>2. PICK x \in Message : x = Item(Head(in_flight)) /\ x.n = in_flight[1].n
    <3>1. Item(Head(in_flight)) \in Message /\ Item(Head(in_flight)).n = in_flight[1].n
      BY <2>1 DEF Item, Message, Flying
    <3> QED
      BY <3>1
  <2>3. \A j \in DOMAIN out2' : (j \in DOMAIN out2 /\ out2'[j] = out2[j]) \/ out2'[j].n = in_flight[1].n
    <3>1. CASE out2' = out2
      BY <3>1
    <3>2. CASE out2' = Append(out2, x)
      BY <1>1, <2>2, <3>2, Enqueued
    <3> QED
      BY <1>3, <2>2, <3>1, <3>2 DEF Left
  <2>4. Passed' \subseteq Passed
    BY <1>3, <2>1, <2>3 DEF Left, Passed
  <2> QED
    BY <2>4
<1>4. CASE Moved
  <2>1. PICK x \in Flying : Item(x) = Item(Head(buffer)) /\ in_flight' = Append(in_flight, x)
    BY <1>4 DEF Moved
  <2>2. /\ \A j \in DOMAIN buffer' : j + 1 \in DOMAIN buffer /\ buffer'[j] = buffer[j + 1]
        /\ Head(buffer) = buffer[1] /\ 1 \in DOMAIN buffer
    BY <1>1, <1>4, Dequeued DEF Moved
  <2>3. x.n = buffer[1].n
    BY <2>1, <2>2 DEF Item
  <2>4. \A j \in DOMAIN in_flight' : (j \in DOMAIN in_flight /\ in_flight'[j] = in_flight[j]) \/ in_flight'[j].n = buffer[1].n
    BY <1>1, <2>1, <2>3, Enqueued
  <2>5. Passed' \subseteq Passed
    BY <1>4, <2>2, <2>4 DEF Moved, Passed
  <2> QED
    BY <2>5
<1>5. CASE Still
  BY <1>5 DEF Still, Passed
<1> QED
  BY <1>2, <1>3, <1>4, <1>5, LinkKinds

\* Between the socket and the buffer the numbers keep their order.
LEMMA OrderStep ==
  ASSUME TypeOK, Ordered, [Next]_vars
  PROVE  Ordered'
<1>0. /\ sock1 \in Seq(Msg) /\ m \in Msg /\ m.n \in Nat /\ sent1 \in Nat
      /\ \A j \in DOMAIN sock1 : sock1[j].n \in Nat
      /\ DOMAIN sock1 = 1..Len(sock1) /\ Len(sock1) \in Nat
      /\ \A x \in Passed : x \in Nat
  <2>1. /\ sock1 \in Seq(Msg) /\ m \in Msg /\ sent1 \in Nat
        /\ in_flight \in Seq(Flying) /\ buffer \in Seq(Msg) /\ out2 \in Seq(Message)
    BY DEF TypeOK
  <2>2. /\ \A x \in Msg : x.n \in Nat
        /\ \A x \in Flying : x.n \in Nat
        /\ \A x \in Message : x.n \in Nat
    BY DEF Msg, Flying, Message
  <2>3. /\ DOMAIN sock1 = 1..Len(sock1) /\ Len(sock1) \in Nat
        /\ \A j \in DOMAIN sock1 : sock1[j] \in Msg
        /\ \A j \in DOMAIN buffer : buffer[j] \in Msg
        /\ \A j \in DOMAIN in_flight : in_flight[j] \in Flying
        /\ \A j \in DOMAIN out2 : out2[j] \in Message
    BY <2>1
  <2>4. \A x \in Passed : x \in Nat
    BY <2>2, <2>3 DEF Passed
  <2> QED
    BY <2>1, <2>2, <2>3, <2>4
<1>1. CASE Entered
  <2>1. /\ UNCHANGED <<sock1, sent1>> /\ fw' = "recv" /\ fw = "put" /\ m'.n = 0
    BY <1>1 DEF Entered, Put, FwAt, NoMsg
  <2>2. Passed' \subseteq Passed \cup {m.n}
    BY <1>1, PassedStep
  <2>3. \A x \in Passed' : x <= sent1 /\ \A j \in DOMAIN sock1 : x < sock1[j].n
    BY <2>1, <2>2 DEF Ordered
  <2>4. m'.n <= sent1
    BY <1>0, <2>1
  <2> QED
    BY <2>1, <2>3, <2>4 DEF Ordered
<1>2. CASE ~Entered /\ UNCHANGED <<sock1, sent1, m, fw>>
  BY <1>2, PassedStep DEF Ordered
<1>3. ASSUME NEW len \in MsgLen, Send1(len), ~Entered PROVE Ordered'
  <2>1. PICK e \in Msg : e = [n |-> sent1 + 1, len |-> len, bad |-> FALSE, at |-> 0] /\ e.n = sent1 + 1
    <3>1. [n |-> sent1 + 1, len |-> len, bad |-> FALSE, at |-> 0] \in Msg
      BY <1>3 DEF Send1, TypeOK, Msg
    <3> QED
      BY <3>1
  <2>2. sock1' = Append(sock1, e) /\ sent1' = sent1 + 1 /\ UNCHANGED <<m, fw>>
    BY <1>3, <2>1 DEF Send1
  <2>3. \A j \in DOMAIN sock1' : \/ j \in DOMAIN sock1 /\ sock1'[j] = sock1[j]
                                 \/ j = Len(sock1) + 1 /\ sock1'[j].n = sent1 + 1
    BY <1>0, <2>1, <2>2
  <2>4. Passed' \subseteq Passed
    BY <1>3, PassedStep
  <2>5. \A x \in Passed' : x \in Nat /\ x <= sent1 /\ (\A j \in DOMAIN sock1 : x < sock1[j].n) /\ (fw # "recv" => x < m.n)
    BY <1>0, <2>4 DEF Ordered
  <2>6. \A x \in Passed' : x <= sent1 + 1 /\ \A j \in DOMAIN sock1' : x < sock1'[j].n
    BY <1>0, <2>3, <2>5
  <2>7. m.n <= sent1 + 1 /\ (fw # "recv" => \A j \in DOMAIN sock1' : m.n < sock1'[j].n)
    BY <1>0, <2>3 DEF Ordered
  <2>8. \A j \in DOMAIN sock1' : sock1'[j].n <= sent1 + 1
    BY <1>0, <2>3 DEF Ordered
  <2>9. \A j, k \in DOMAIN sock1' : j < k => sock1'[j].n < sock1'[k].n
    BY <1>0, <2>3 DEF Ordered
  <2> QED
    BY <2>2, <2>5, <2>6, <2>7, <2>8, <2>9 DEF Ordered
<1>4. CASE Receive /\ ~Entered
  <2>1. /\ sock1 # << >> /\ sock1' = Tail(sock1) /\ sent1' = sent1 /\ fw = "recv"
        /\ (m' = m /\ fw' = fw) \/ (m' = Head(sock1) /\ fw' # "recv")
    BY <1>4 DEF Receive, FwAt
  <2>2. /\ DOMAIN sock1' = 1..(Len(sock1) - 1) /\ Head(sock1) = sock1[1] /\ 1 \in DOMAIN sock1
        /\ \A j \in DOMAIN sock1' : j + 1 \in DOMAIN sock1 /\ sock1'[j] = sock1[j + 1] /\ 1 < j + 1 /\ j \in Nat
    BY <1>0, <2>1, Dequeued
  <2>3. Passed' \subseteq Passed
    BY <1>4, PassedStep
  <2>4. \A x \in Passed' : x <= sent1 /\ (\A j \in DOMAIN sock1' : x < sock1'[j].n) /\ x < sock1[1].n
    BY <2>2, <2>3 DEF Ordered
  <2>5. sock1[1].n <= sent1 /\ \A j \in DOMAIN sock1' : sock1[1].n < sock1'[j].n /\ sock1'[j].n <= sent1
    BY <2>2 DEF Ordered
  <2>6. ASSUME NEW j \in DOMAIN sock1', NEW k \in DOMAIN sock1', j < k PROVE sock1'[j].n < sock1'[k].n
    <3>1. j + 1 < k + 1
      BY <2>2, <2>6
    <3> QED
      BY <2>2, <3>1 DEF Ordered
  <2>7. m.n <= sent1
    BY DEF Ordered
  <2>8. CASE m' = m /\ fw' = fw
    BY <2>1, <2>4, <2>5, <2>6, <2>7, <2>8 DEF Ordered
  <2>9. CASE m' = Head(sock1) /\ fw' # "recv"
    BY <2>1, <2>2, <2>4, <2>5, <2>6, <2>9 DEF Ordered
  <2> QED
    BY <2>1, <2>8, <2>9
<1>5. CASE (CheckSpace \/ Keep) /\ ~Entered
  <2>1. /\ UNCHANGED <<sock1, sent1>> /\ fw # "recv"
        /\ m'.n = m.n \/ (m'.n = 0 /\ fw' = "recv")
    BY <1>0, <1>5 DEF CheckSpace, Keep, FwAt, NoMsg, Msg
  <2>2. Passed' \subseteq Passed
    BY <1>5, PassedStep
  <2>3. CASE m'.n = m.n
    BY <2>1, <2>2, <2>3 DEF Ordered
  <2>4. CASE m'.n = 0 /\ fw' = "recv"
    BY <1>0, <2>1, <2>2, <2>4 DEF Ordered
  <2> QED
    BY <2>1, <2>3, <2>4
<1>6. CASE Put
  BY <1>1, <1>6 DEF Entered, Put, FwAt, wireVars
<1>7. CASE UNCHANGED vars \/ Send2 \/ Reverse \/ Tick \/ Scheduler \/ SpuriousWakeUp
  <2>1. UNCHANGED <<sock1, sent1, m, fw>>
    BY <1>7 DEF vars, fwVars, Send2, Reverse, Tick, Scheduler, Loop, SendOut, LookInBuffer, Take, Block,
                WakeUp, SpuriousWakeUp, At
  <2> QED
    BY <1>1, <1>2, <2>1
<1> QED
  BY <1>1, <1>3, <1>4, <1>5, <1>6, <1>7 DEF Next, Forwarder

\* A message that enters is newer than all that did.
LEMMA EntersNewest ==
  ASSUME TypeOK, Ordered, Put
  PROVE  /\ \A j \in DOMAIN OnTheWire : OnTheWire[j].n < m.n
         /\ \A j \in DOMAIN out2 : out2[j].n < m.n
<1>1. in_flight \in Seq(Flying) /\ buffer \in Seq(Msg)
  BY DEF TypeOK
<1>2. \A x \in Passed : x < m.n
  BY DEF Put, FwAt, Ordered
<1>3. OnTheWire = Wire(in_flight, buffer)
  BY Zenon DEF OnTheWire, Wire
<1>4. /\ Wire(in_flight, buffer) \in Seq(Message)
      /\ Len(Wire(in_flight, buffer)) = Len(in_flight) + Len(buffer)
      /\ \A j \in 1..Len(in_flight) : Wire(in_flight, buffer)[j] = Item(in_flight[j])
      /\ \A j \in 1..(Len(in_flight) + Len(buffer)) :
           \/ j \in 1..Len(in_flight)
           \/ j - Len(in_flight) \in 1..Len(buffer)
              /\ Wire(in_flight, buffer)[j] = Item(buffer[j - Len(in_flight)])
  BY ONLY <1>1, WireParts
<1>5. /\ DOMAIN Wire(in_flight, buffer) = 1..(Len(in_flight) + Len(buffer))
      /\ DOMAIN in_flight = 1..Len(in_flight) /\ DOMAIN buffer = 1..Len(buffer)
  BY <1>1, <1>4
<1>6. ASSUME NEW j \in DOMAIN Wire(in_flight, buffer) PROVE Wire(in_flight, buffer)[j].n \in Passed
  <2>1. CASE j \in 1..Len(in_flight)
    <3>1. Wire(in_flight, buffer)[j] = Item(in_flight[j]) /\ j \in DOMAIN in_flight
      BY <1>4, <1>5, <2>1
    <3> QED
      BY <3>1 DEF Item, Passed
  <2>2. CASE /\ j - Len(in_flight) \in 1..Len(buffer)
             /\ Wire(in_flight, buffer)[j] = Item(buffer[j - Len(in_flight)])
    BY <1>5, <2>2 DEF Item, Passed
  <2> QED
    BY <1>4, <1>5, <2>1, <2>2
<1>7. \A j \in DOMAIN out2 : out2[j].n \in Passed
  BY DEF Passed
<1> QED
  BY <1>2, <1>3, <1>6, <1>7

LEMMA FifoStep ==
  ASSUME TypeOK, Ordered, [Next]_vars
  PROVE  Fifo!Next \/ UNCHANGED Fifo!vars
<1>1. in_flight \in Seq(Flying) /\ buffer \in Seq(Msg) /\ m \in Msg /\ clock \in Nat
  BY DEF TypeOK
<1>2. PICK f, b, g, c : f = in_flight /\ b = buffer /\ g = in_flight' /\ c = buffer'
  OBVIOUS
<1>3. OnTheWire = Wire(f, b) /\ OnTheWire' = Wire(g, c)
  BY <1>2, Zenon DEF OnTheWire, Wire
<1>4. CASE Entered
  <2>1. PICK e \in Msg : e = [m EXCEPT !.at = clock] /\ Item(e) = Item(m) /\ Item(m).n = m.n
    <3>1. [m EXCEPT !.at = clock] \in Msg /\ Item([m EXCEPT !.at = clock]) = Item(m)
      BY <1>1 DEF Msg, Item
    <3> QED
      BY <3>1 DEF Item
  <2>2. g = f /\ c = Append(b, e) /\ f \in Seq(Flying) /\ b \in Seq(Msg)
    BY <1>1, <1>2, <1>4, <2>1 DEF Entered
  <2>3. OnTheWire' = Append(OnTheWire, Item(m))
    <3>1. Wire(f, Append(b, e)) = Append(Wire(f, b), Item(e))
      BY ONLY <2>2, WireGrows
    <3> QED
      BY <1>3, <2>1, <2>2, <3>1, Zenon
  <2>4. Fifo!Newest(Item(m))
    BY <1>4, <2>1, EntersNewest DEF Entered, Fifo!Newest
  <2>5. alive = "running" /\ alive' = alive /\ out2' = out2
    BY <1>4 DEF Entered, Put, FwAt
  <2>6. Item(m) \in Message
    BY <1>1 DEF Item, Message, Msg
  <2> QED
    BY <2>3, <2>4, <2>5, <2>6 DEF Fifo!Next, Fifo!Enter
<1>5. CASE Left
  <2>1. g = Tail(f) /\ c = b /\ f # << >> /\ f \in Seq(Flying) /\ b \in Seq(Msg)
    BY <1>1, <1>2, <1>5 DEF Left
  <2>2. Wire(f, b) # << >> /\ Head(Wire(f, b)) = Item(Head(f)) /\ Wire(Tail(f), b) = Tail(Wire(f, b))
    BY ONLY <2>1, WireShrinks
  <2>3. OnTheWire # << >> /\ Head(OnTheWire) = Item(Head(in_flight)) /\ OnTheWire' = Tail(OnTheWire)
    BY <1>2, <1>3, <2>1, <2>2, Zenon
  <2>4. alive = "running" /\ alive' = alive
        /\ (out2' = Append(out2, Item(Head(in_flight))) \/ out2' = out2)
    BY <1>5 DEF Left
  <2> QED
    BY <2>3, <2>4 DEF Fifo!Next, Fifo!Deliver, Fifo!Lose
<1>6. CASE Moved
  <2>1. PICK x \in Flying : Item(x) = Item(Head(b)) /\ g = Append(f, x)
    BY <1>2, <1>6 DEF Moved
  <2>2. c = Tail(b) /\ b # << >> /\ f \in Seq(Flying) /\ b \in Seq(Msg)
    BY <1>1, <1>2, <1>6 DEF Moved
  <2>3. Wire(Append(f, x), Tail(b)) = Wire(f, b)
    BY ONLY <2>1, <2>2, WireMoves
  <2>4. OnTheWire' = OnTheWire
    BY <1>3, <2>1, <2>2, <2>3, Zenon
  <2> QED
    BY <1>6, <2>4 DEF Moved, Fifo!vars
<1>7. CASE Still
  <2>1. OnTheWire' = OnTheWire
    BY <1>7 DEF Still, OnTheWire
  <2> QED
    BY <1>7, <2>1 DEF Still, Fifo!vars, Fifo!Next, Fifo!Stop
<1> QED
  BY <1>4, <1>5, <1>6, <1>7, LinkKinds

LEMMA FifoInit == Init => Ordered /\ Fifo!Init
<1> SUFFICES ASSUME Init PROVE Ordered /\ Fifo!Init
  OBVIOUS
<1>1. in_flight = << >> /\ buffer = << >> /\ out2 = << >> /\ sock1 = << >> /\ alive = "running"
      /\ fw = "recv" /\ m.n = 0 /\ sent1 = 0
  BY DEF Init, NoMsg
<1>2. Ordered
  BY <1>1 DEF Ordered, Passed
<1>3. OnTheWire = << >>
  <2>1. 1..(Len(in_flight) + Len(buffer)) = {}
    BY <1>1
  <2> QED
    BY <2>1 DEF OnTheWire
<1> QED
  BY <1>1, <1>2, <1>3 DEF Fifo!Init

\* However the threads interleave, what the peer of port 2 gets of what was sent to port 1 comes in
\* the order it was sent, none twice: the link is a queue that may lose (link.c:180-320, queue.c).
THEOREM LinkIsFifo == Spec => Fifo!Spec
<1>1. TypeOK /\ Ordered /\ [Next]_vars => Ordered' /\ [Fifo!Next]_(Fifo!vars)
  BY OrderStep, FifoStep
<1> QED
  BY <1>1, LinkInit, FifoInit, LinkTypes, PTL DEF Spec, Fifo!Spec
=============================================================================
