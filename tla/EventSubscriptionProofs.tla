---------------------- MODULE EventSubscriptionProofs ----------------------
(***************************************************************************)
(* Proofs about EventSubscription, for any delays and any number of        *)
(* events: its type, that reconnecting leaves nothing behind, and that the *)
(* loop is a feed.                                                         *)
(***************************************************************************)
EXTENDS EventSubscription, SequenceTheorems, TLAPS

\* What each await can settle with.
ResultInv ==
  /\ pc \in {"start", "ended"} => result = "none"
  /\ pc \in Opening => result \in {"none", "stream", "failed"}
  /\ pc = "reading" => result \in {"none", "event", "timeout", "failed", "aborted"}
  /\ pc = "waiting" => result \in {"none", "timeout", "aborted"}

\* The listeners and streams the loop has are those of the await it stands at.
ListenerInv ==
  /\ aborted \/ pc \in {"start", "ended"} => listeners = 0
  /\ ~aborted /\ pc \in Opening \cup {"reading"} => listeners = 1
  /\ ~aborted /\ pc = "waiting" => listeners = (IF result = "none" THEN 1 ELSE 0)
  /\ live = (IF pc = "reading" THEN 1 ELSE 0)
  /\ result = "aborted" => aborted

\* The consumer was told that there is a connection while one is read.
StateInv == state = "connected" <=> pc = "reading"

\* The buffer holds, in order, the events after Start, up to the newest one if
\* the stream is still written to; the reader stands right before them.
BufferInv ==
  /\ buffer # <<>> \/ attached => pc = "reading" \/ result = "stream"
  /\ result = "event" => buffer # <<>>
  /\ position <= Start /\ Start + Len(buffer) <= emitted
  /\ \A i \in 1..Len(buffer) : buffer[i] = Start + i
  /\ attached => Start + Len(buffer) = emitted
  /\ (buffer # <<>> \/ attached) /\ pc = "reading" => position = Start

IInv == TypeOK /\ ResultInv /\ ListenerInv /\ StateInv /\ BufferInv

-----------------------------------------------------------------------------
(* Sequences of events *)

LEMMA NoEvents == \A n : <<>> \in Seq(1..n)
OBVIOUS

LEMMA SeqLonger ==
  ASSUME NEW m \in Nat, NEW n \in Nat, m <= n, NEW s \in Seq(1..m)
  PROVE  s \in Seq(1..n)
<1>1. Len(s) \in Nat /\ s \in [1..Len(s) -> 1..m]
  OBVIOUS
<1>2. s \in [1..Len(s) -> 1..n]
  BY <1>1
<1>3. QED
  BY <1>1, <1>2

\* What is left after the first event.
LEMMA AfterHead ==
  ASSUME NEW S, NEW s \in Seq(S), s # <<>>
  PROVE  /\ Len(s) \in Nat \ {0} /\ Head(s) = s[1]
         /\ Tail(s) \in Seq(S) /\ Len(Tail(s)) = Len(s) - 1
         /\ \A i \in 1..Len(s) - 1 : Tail(s)[i] = s[i + 1]
         /\ Tail(s) = <<>> <=> Len(s) = 1
         /\ Len(s) # 1 => Head(Tail(s)) = s[2]
<1>1. Len(s) \in Nat \ {0} /\ Head(s) = s[1]
  BY EmptySeq
<1>2. /\ Tail(s) \in Seq(S) /\ Len(Tail(s)) = Len(s) - 1
      /\ \A i \in 1..Len(s) - 1 : Tail(s)[i] = s[i + 1]
  BY HeadTailProperties
<1>3. Tail(s) = <<>> <=> Len(s) = 1
  BY <1>1, <1>2, EmptySeq
<1>4. ASSUME Len(s) # 1 PROVE Head(Tail(s)) = s[2]
  <2>1. Head(Tail(s)) = Tail(s)[1]
    BY <1>2, <1>3, <1>4
  <2>2. \A n \in Nat \ {0} : n # 1 => 1 \in 1..n - 1
    OBVIOUS
  <2>3. 1 \in 1..Len(s) - 1
    BY <1>1, <1>4, <2>2
  <2>4. Tail(s)[1] = s[1 + 1] /\ 1 + 1 = 2
    BY <1>2, <2>3
  <2>5. QED
    BY <2>1, <2>4, Zenon
<1>5. QED
  BY <1>1, <1>2, <1>3, <1>4

\* A run of events after k loses its first or gets one more.
LEMMA RunTail ==
  ASSUME NEW s \in Seq(Nat), NEW k \in Nat, s # <<>>,
         \A i \in 1..Len(s) : s[i] = k + i
  PROVE  /\ \A i \in 1..Len(Tail(s)) : Tail(s)[i] = (k + 1) + i
         /\ Tail(s) # <<>> => Head(Tail(s)) = k + 2
<1>1. /\ Len(s) \in Nat \ {0} /\ Len(Tail(s)) = Len(s) - 1
      /\ \A i \in 1..Len(s) - 1 : Tail(s)[i] = s[i + 1]
      /\ Tail(s) = <<>> <=> Len(s) = 1
      /\ Len(s) # 1 => Head(Tail(s)) = s[2]
  BY AfterHead
<1>2. \A n \in Nat \ {0} : \A i \in 1..n - 1 : i \in Nat /\ i + 1 \in 1..n
  OBVIOUS
<1>3. \A i \in 1..Len(s) - 1 : Tail(s)[i] = k + (i + 1) /\ k + (i + 1) = (k + 1) + i
  BY <1>1, <1>2
<1>4. Len(s) # 1 => s[2] = k + 2
  <2>1. \A n \in Nat \ {0} : n # 1 => 2 \in 1..n
    OBVIOUS
  <2>2. QED
    BY <1>1, <2>1
<1>5. QED
  BY <1>1, <1>3, <1>4

LEMMA RunAppend ==
  ASSUME NEW s \in Seq(Nat), NEW k \in Nat, NEW e \in Nat, e = k + Len(s) + 1,
         \A i \in 1..Len(s) : s[i] = k + i
  PROVE  \A i \in 1..Len(Append(s, e)) : Append(s, e)[i] = k + i
<1>1. /\ Len(s) \in Nat /\ Len(Append(s, e)) = Len(s) + 1
      /\ \A i \in 1..Len(s) : Append(s, e)[i] = s[i]
      /\ Append(s, e)[Len(s) + 1] = e
  BY AppendProperties
<1>2. \A n \in Nat : \A i \in 1..n + 1 : i \in 1..n \/ i = n + 1
  OBVIOUS
<1>3. k + (Len(s) + 1) = e
  BY <1>1
<1>4. QED
  BY <1>1, <1>2, <1>3

-----------------------------------------------------------------------------
(* The inductive invariant *)

LEMMA InitIInv == Init => IInv
<1> SUFFICES ASSUME Init PROVE IInv
  OBVIOUS
<1>1. TypeOK
  <2>1. buffer \in Seq(1..emitted)
    BY NoEvents DEF Init
  <2>2. {aborted, up, attached} \subseteq BOOLEAN
    BY Zenon DEF Init
  <2>3. QED
    BY <2>1, <2>2, DelayAssumption DEF Init, TypeOK, Opening, State
<1>2. ResultInv /\ ListenerInv /\ StateInv
  BY DEF Init, Opening, ResultInv, ListenerInv, StateInv
<1>3. BufferInv
  BY DEF Init, BufferInv, Start
<1>4. QED
  BY <1>1, <1>2, <1>3 DEF IInv

\* Boolean variables apart, for they suit another prover.
FlagsOK == {aborted, up, attached} \subseteq BOOLEAN

LEMMA StepFlags == FlagsOK /\ [Next]_vars => FlagsOK'
<1> SUFFICES ASSUME FlagsOK, [Next]_vars PROVE FlagsOK'
  OBVIOUS
<1>1. aborted' \in BOOLEAN
  BY Zenon DEF FlagsOK, Next, Continue, Begin, OpenAnswered, OpenRefused, OpenAborted,
     OpenContinues, FallBack, OpenFails, ReadSettles, EventRead, ReadEnds,
     WaitSettles, WaitContinues, Abort, Emit, ServerChanges, vars
<1>2. up' \in BOOLEAN
  BY Zenon DEF FlagsOK, Next, Continue, Begin, OpenAnswered, OpenRefused, OpenAborted,
     OpenContinues, FallBack, OpenFails, ReadSettles, EventRead, ReadEnds,
     WaitSettles, WaitContinues, Abort, Emit, ServerChanges, vars, server
<1>3. attached' \in BOOLEAN
  BY Zenon DEF FlagsOK, Next, Continue, Begin, OpenAnswered, OpenRefused, OpenAborted,
     OpenContinues, FallBack, OpenFails, ReadSettles, EventRead, ReadEnds,
     WaitSettles, WaitContinues, Abort, Emit, ServerChanges, vars, Leave
<1>4. QED
  BY <1>1, <1>2, <1>3, Zenon DEF FlagsOK

LEMMA StartInRange == TypeOK => Start \in Nat /\ Start <= emitted
BY DEF TypeOK, Start

\* What Emit and EventRead do to the buffer of a stream that stays open.
LEMMA EmitBuffer ==
  ASSUME TypeOK, BufferInv, Emit
  PROVE  buffer' \in Seq(1..emitted') /\ BufferInv'
<1>1. /\ emitted \in Nat /\ emitted' = emitted + 1 /\ emitted + 1 \in 1..emitted + 1
      /\ buffer \in Seq(1..emitted) /\ buffer \in Seq(Nat)
      /\ UNCHANGED <<pc, result, position>> /\ (attached' <=> attached)
      /\ position \in Nat
  BY DEF TypeOK, Emit
<1>2. buffer \in Seq(1..emitted + 1)
  BY <1>1, SeqLonger
<1>3. Len(buffer) \in Nat
  BY <1>1
<1>4. CASE attached
  <2>1. buffer' = Append(buffer, emitted + 1)
    BY <1>4 DEF Emit
  <2>2. /\ buffer' \in Seq(1..emitted + 1) /\ buffer' # <<>>
        /\ Len(buffer') = Len(buffer) + 1
    BY <1>1, <1>2, <2>1, AppendProperties
  <2>3. Head(buffer') = IF buffer = <<>> THEN emitted + 1 ELSE Head(buffer)
    BY <1>1, <2>1, HeadTailAppend
  <2>4. Start \in Nat /\ Start + Len(buffer) = emitted
    BY <1>4, StartInRange DEF BufferInv
  <2>5. Start' = Start
    BY <1>1, <2>2, <2>3 DEF Start
  <2>6. \A i \in 1..Len(buffer) : buffer[i] = Start + i
    BY DEF BufferInv
  <2>7. emitted + 1 = Start + Len(buffer) + 1 /\ emitted + 1 \in Nat
    BY <1>1, <2>4
  <2>8. \A i \in 1..Len(buffer') : buffer'[i] = Start' + i
    BY <1>1, <2>1, <2>4, <2>5, <2>6, <2>7, RunAppend
  <2>9. Start' + Len(buffer') = emitted'
    <3>1. \A k, n \in Nat : k + (n + 1) = (k + n) + 1
      OBVIOUS
    <3>2. Start' + Len(buffer') = Start + (Len(buffer) + 1)
      BY <2>2, <2>5
    <3>3. Start + (Len(buffer) + 1) = emitted + 1
      BY <1>3, <2>4, <3>1
    <3>4. QED
      BY <1>1, <3>2, <3>3
  <2>10. pc = "reading" \/ result = "stream"
    BY <1>4 DEF BufferInv
  <2>11. position <= Start /\ (pc = "reading" => position = Start)
    BY <1>4 DEF BufferInv
  <2>12. Start' + Len(buffer') <= emitted'
    BY <1>1, <2>9
  <2>13. BufferInv'
    BY <1>1, <2>2, <2>5, <2>8, <2>9, <2>10, <2>11, <2>12 DEF BufferInv
  <2>14. QED
    BY <1>1, <2>2, <2>13
<1>5. CASE ~attached
  <2>1. buffer' = buffer
    BY <1>5 DEF Emit
  <2>2. Start' = (IF buffer = <<>> THEN Start + 1 ELSE Start) /\ Start \in Nat
    BY <1>1, <2>1, StartInRange DEF Start
  <2>3. BufferInv'
    BY <1>1, <1>3, <1>5, <2>1, <2>2 DEF BufferInv
  <2>4. QED
    BY <1>1, <1>2, <2>1, <2>3
<1>6. QED
  BY <1>4, <1>5

LEMMA ReadBuffer ==
  ASSUME TypeOK, BufferInv, EventRead, ~aborted
  PROVE  BufferInv'
<1>1. /\ pc = "reading" /\ pc' = pc /\ result' = "none" /\ buffer # <<>>
      /\ position' = Head(buffer) /\ buffer' = Tail(buffer)
      /\ (attached' <=> attached) /\ emitted' = emitted
  BY DEF EventRead, Consume, BufferInv, server
<1>2. /\ emitted \in Nat /\ position \in Nat /\ buffer \in Seq(Nat)
      /\ Start \in Nat /\ Start = Head(buffer) - 1
  BY <1>1, StartInRange DEF TypeOK, Start
<1>3. /\ position = Start /\ Start + Len(buffer) <= emitted
      /\ \A i \in 1..Len(buffer) : buffer[i] = Start + i
      /\ attached => Start + Len(buffer) = emitted
  BY <1>1 DEF BufferInv
<1>4. /\ Len(buffer) \in Nat \ {0} /\ Len(buffer') = Len(buffer) - 1
      /\ buffer' = <<>> <=> Len(buffer) = 1
      /\ Head(buffer) = buffer[1]
  BY <1>1, <1>2, AfterHead
<1>5. /\ \A i \in 1..Len(buffer') : buffer'[i] = (Start + 1) + i
      /\ buffer' # <<>> => Head(buffer') = Start + 2
  BY <1>1, <1>2, <1>3, RunTail
<1>6. position' = Start + 1
  <2>1. 1 \in 1..Len(buffer)
    BY <1>4
  <2>2. QED
    BY <1>1, <1>3, <1>4, <2>1
<1>7. CASE Len(buffer) = 1
  <2>1. buffer' = <<>> /\ Start' = emitted /\ Len(buffer') = 0
    BY <1>1, <1>4, <1>7 DEF Start
  <2>2. Start + 1 <= emitted /\ (attached => Start + 1 = emitted)
    BY <1>3, <1>7
  <2>3. position' <= Start' /\ Start' + Len(buffer') <= emitted'
    <3>1. position' <= Start'
      BY <1>1, <1>6, <2>1, <2>2
    <3>2. \A n \in Nat : n + 0 <= n
      OBVIOUS
    <3>3. QED
      BY <1>1, <1>2, <2>1, <3>1, <3>2
  <2>4. attached' => Start' + Len(buffer') = emitted' /\ position' = Start'
    BY <1>1, <1>2, <1>6, <2>1, <2>2
  <2>5. 1..Len(buffer') = {}
    BY <2>1
  <2>6. QED
    BY <1>1, <2>1, <2>3, <2>4, <2>5 DEF BufferInv
<1>8. CASE Len(buffer) # 1
  <2>1. Start' = Start + 1
    <3>1. buffer' # <<>> /\ Head(buffer') = Start + 2
      BY <1>4, <1>5, <1>8
    <3>2. Start' = Head(buffer') - 1
      BY <3>1 DEF Start
    <3>3. QED
      BY <1>2, <3>1, <3>2
  <2>2. Start' + Len(buffer') = Start + Len(buffer)
    BY <1>2, <1>4, <2>1
  <2>3. Start' + Len(buffer') <= emitted' /\ (attached' => Start' + Len(buffer') = emitted')
    BY <1>1, <1>3, <2>2
  <2>4. position' = Start' /\ position' <= Start'
    BY <1>2, <1>6, <2>1
  <2>5. \A i \in 1..Len(buffer') : buffer'[i] = Start' + i
    BY <1>5, <2>1
  <2>6. QED
    BY <1>1, <2>3, <2>4, <2>5 DEF BufferInv
<1>9. QED
  BY <1>7, <1>8

LEMMA NextIsFirst ==
  ASSUME TypeOK, BufferInv, pc = "reading", buffer # <<>>
  PROVE  Head(buffer) = position + 1 /\ position < emitted
<1>1. /\ position = Start /\ Start + Len(buffer) <= emitted
      /\ buffer \in Seq(Nat) /\ Start \in Nat /\ emitted \in Nat
      /\ \A i \in 1..Len(buffer) : buffer[i] = Start + i
  BY StartInRange DEF BufferInv, TypeOK
<1>2. Len(buffer) \in Nat \ {0} /\ Head(buffer) = buffer[1]
  BY <1>1, AfterHead
<1>3. 1 \in 1..Len(buffer) /\ Start + 1 <= emitted
  BY <1>1, <1>2
<1>4. QED
  BY <1>1, <1>2, <1>3

LEMMA StepIInv == IInv /\ [Next]_vars => IInv'
<1> SUFFICES ASSUME IInv, [Next]_vars PROVE IInv'
  OBVIOUS
<1>f. FlagsOK'
  BY StepFlags DEF FlagsOK, IInv, TypeOK
<1> USE DelayAssumption, NoEvents
    DEF IInv, TypeOK, Opening, State, ResultInv, ListenerInv, StateInv, BufferInv,
        Settled, Consume, SetState, Start, server, consumer
<1>1. CASE Begin
  BY <1>1 DEF Begin, NextAttempt
<1>2. CASE OpenAnswered
  <2>1. TypeOK'
    BY <1>2 DEF OpenAnswered
  <2>2. ResultInv'
    BY <1>2 DEF OpenAnswered
  <2>3. ListenerInv'
    BY <1>2 DEF OpenAnswered
  <2>4. StateInv'
    BY <1>2 DEF OpenAnswered
  <2>5. BufferInv'
    BY <1>2 DEF OpenAnswered
  <2>6. QED
    BY <2>1, <2>2, <2>3, <2>4, <2>5
<1>3. CASE OpenRefused
  BY <1>3 DEF OpenRefused
<1>4. CASE OpenAborted
  BY <1>4 DEF OpenAborted
<1>5. CASE OpenContinues
  <2>1. Start \in Nat /\ Start <= emitted
    BY StartInRange
  <2>2. CASE aborted
    <3>1. pc' = "ended" /\ result' = "none" /\ delay' = RECONNECT_BASE /\ live' = live
          /\ buffer' = <<>> /\ attached' = FALSE /\ state' = "disconnected"
          /\ reports' \in {0, 1} /\ listeners' = Cleanup(listeners)
          /\ UNCHANGED <<aborted, position, emitted>>
      BY <1>5, <2>2 DEF OpenContinues, Leave, AfterAttempt
    <3>2. QED
      BY <1>5, <1>f, <2>2, <3>1 DEF OpenContinues, FlagsOK, Cleanup
  <2>3. CASE ~aborted
    <3>1. pc' = "reading" /\ result' = "none" /\ delay' = RECONNECT_BASE
          /\ live' = live + 1 /\ position' = Start /\ state' = "connected"
          /\ reports' \in {0, 1} /\ UNCHANGED <<aborted, emitted, listeners, buffer>>
          /\ (attached' <=> attached)
      BY <1>5, <2>3 DEF OpenContinues
    <3>2. TypeOK' /\ ResultInv' /\ ListenerInv' /\ StateInv'
      BY <1>5, <1>f, <2>1, <2>3, <3>1 DEF OpenContinues, FlagsOK
    <3>3. BufferInv'
      BY <2>1, <2>3, <3>1 DEF Start
    <3>4. QED
      BY <3>2, <3>3
  <2>4. QED
    BY <2>2, <2>3
<1>6. CASE FallBack
  BY <1>6 DEF FallBack
<1>7. CASE OpenFails
  <2>1. TypeOK'
    BY <1>7, <1>f DEF OpenFails, Leave, AfterAttempt, Cleanup, FlagsOK
  <2>2. ResultInv'
    BY <1>7 DEF OpenFails, Leave, AfterAttempt, Cleanup
  <2>3. ListenerInv'
    BY <1>7 DEF OpenFails, Leave, AfterAttempt, Cleanup
  <2>4. StateInv'
    BY <1>7 DEF OpenFails, Leave, AfterAttempt, Cleanup
  <2>5. BufferInv'
    BY <1>7 DEF OpenFails, Leave, AfterAttempt, Cleanup
  <2>6. QED
    BY <2>1, <2>2, <2>3, <2>4, <2>5
<1>8. CASE ReadSettles
  <2>1. TypeOK'
    BY <1>8 DEF ReadSettles
  <2>2. ResultInv'
    BY <1>8 DEF ReadSettles
  <2>3. ListenerInv'
    BY <1>8 DEF ReadSettles
  <2>4. StateInv'
    BY <1>8 DEF ReadSettles
  <2>5. BufferInv'
    BY <1>8 DEF ReadSettles
  <2>6. QED
    BY <2>1, <2>2, <2>3, <2>4, <2>5
<1>9. CASE EventRead
  <2>1. buffer # <<>> /\ Head(buffer) = position + 1 /\ position + 1 <= emitted
    BY <1>9 DEF EventRead, Start
  <2>2. CASE aborted
    <3>1. pc' = "ended" /\ result' = "none" /\ live' = live - 1 /\ buffer' = <<>>
          /\ attached' = FALSE /\ state' = "disconnected" /\ reports' \in {0, 1}
          /\ listeners' = Cleanup(listeners) /\ position' = position + 1
          /\ UNCHANGED <<aborted, emitted, delay>>
      BY <1>9, <2>1, <2>2 DEF EventRead, Leave, AfterAttempt
    <3>2. QED
      BY <1>9, <1>f, <2>1, <2>2, <3>1 DEF EventRead, FlagsOK, Cleanup
  <2>3. CASE ~aborted
    <3>1. result' = "none" /\ buffer' = Tail(buffer) /\ position' = position + 1
          /\ UNCHANGED <<pc, aborted, emitted, delay, listeners, live, state, reports>>
          /\ (attached' <=> attached)
      BY <1>9, <2>1, <2>3 DEF EventRead
    <3>2. TypeOK' /\ ResultInv' /\ ListenerInv' /\ StateInv'
      BY <1>9, <1>f, <2>1, <2>3, <3>1 DEF EventRead, FlagsOK
    <3>3. BufferInv'
      BY <1>9, <2>3, ReadBuffer
    <3>4. QED
      BY <3>2, <3>3
  <2>4. QED
    BY <2>2, <2>3
<1>10. CASE ReadEnds
  <2>1. TypeOK'
    BY <1>10, <1>f DEF ReadEnds, Leave, AfterAttempt, Cleanup, FlagsOK
  <2>2. ResultInv'
    BY <1>10 DEF ReadEnds, Leave, AfterAttempt, Cleanup
  <2>3. ListenerInv'
    BY <1>10 DEF ReadEnds, Leave, AfterAttempt, Cleanup
  <2>4. StateInv'
    BY <1>10 DEF ReadEnds, Leave, AfterAttempt, Cleanup
  <2>5. BufferInv'
    BY <1>10 DEF ReadEnds, Leave, AfterAttempt, Cleanup
  <2>6. QED
    BY <2>1, <2>2, <2>3, <2>4, <2>5
<1>11. CASE WaitSettles
  <2>1. TypeOK'
    BY <1>11 DEF WaitSettles, Cleanup
  <2>2. ResultInv'
    BY <1>11 DEF WaitSettles, Cleanup
  <2>3. ListenerInv'
    BY <1>11 DEF WaitSettles, Cleanup
  <2>4. StateInv'
    BY <1>11 DEF WaitSettles, Cleanup
  <2>5. BufferInv'
    BY <1>11 DEF WaitSettles, Cleanup
  <2>6. QED
    BY <2>1, <2>2, <2>3, <2>4, <2>5
<1>12. CASE WaitContinues
  BY <1>12 DEF WaitContinues, NextAttempt, Doubled
<1>13. CASE Abort
  BY <1>13 DEF Abort
<1>14. CASE Emit
  <2>1. UNCHANGED <<pc, result, state, delay, aborted, listeners, live, position, reports>>
        /\ emitted' = emitted + 1 /\ emitted + 1 <= MaxEmits
        /\ (attached' <=> attached)
        /\ buffer' = IF attached THEN Append(buffer, emitted + 1) ELSE buffer
    BY <1>14 DEF Emit
  <2>2. buffer' \in Seq(1..emitted') /\ BufferInv'
    BY <1>14, EmitBuffer
  <2>3. TypeOK' /\ ResultInv' /\ ListenerInv' /\ StateInv'
    BY <1>f, <2>1, <2>2 DEF FlagsOK
  <2>4. QED
    BY <2>2, <2>3
<1>15. CASE ServerChanges
  BY <1>15 DEF ServerChanges
<1>16. CASE UNCHANGED vars
  BY <1>16 DEF vars
<1>17. QED
  BY <1>1, <1>2, <1>3, <1>4, <1>5, <1>6, <1>7, <1>8, <1>9, <1>10, <1>11, <1>12, <1>13, <1>14, <1>15, <1>16 DEF Next, Continue

\* In every reachable state the loop has what the await it stands at needs, and
\* the buffer continues where the consumer is.
THEOREM Inductive == Spec => []IInv
BY InitIInv, StepIInv, PTL DEF Spec

\* Type correctness; with it, the delay never leaves its two limits.
THEOREM TypeCorrect == Spec => []TypeOK
<1>1. IInv => TypeOK
  BY DEF IInv
<1>2. QED
  BY <1>1, Inductive, PTL

\* However often the loop reconnects, it leaves no listener on the caller's
\* signal and no stream open.
THEOREM NoLeak == Spec => []NothingLeaks
<1>1. IInv => NothingLeaks
  BY DEF IInv, TypeOK, Opening, ListenerInv, ResultInv, NothingLeaks
<1>2. QED
  BY <1>1, Inductive, PTL

-----------------------------------------------------------------------------
(* The loop implements EventFeed *)

FeedView == <<emitted, position, state, reports, pc = "ended">>

LEMMA FeedInit == Init => Feed!Init
BY DEF Init, Feed!Init

LEMMA FeedStep == IInv /\ [Next]_vars => Feed!Next \/ UNCHANGED FeedView
<1> SUFFICES ASSUME IInv, [Next]_vars PROVE Feed!Next \/ UNCHANGED FeedView
  OBVIOUS
<1> USE DEF IInv, TypeOK, Opening, State, ResultInv, StateInv, FeedView
<1>1. CASE Begin
  BY <1>1 DEF Begin, NextAttempt, server, Feed!Next, Feed!End
<1>2. CASE OpenContinues
  <2>1. CASE aborted
    BY <1>2, <2>1 DEF OpenContinues, Consume, Leave, AfterAttempt, SetState, server,
       Feed!Next, Feed!End
  <2>2. CASE ~aborted
    <3>1. Start \in position..emitted
      BY StartInRange DEF BufferInv
    <3>2. QED
      BY <1>2, <2>2, <3>1 DEF OpenContinues, Consume, SetState, server, Feed!Next,
         Feed!Connect
  <2>3. QED
    BY <2>1, <2>2
<1>3. CASE OpenFails
  BY <1>3 DEF OpenFails, Consume, Leave, AfterAttempt, SetState, server, Feed!Next,
     Feed!End
<1>4. CASE EventRead
  <2>1. Head(buffer) = position + 1 /\ position < emitted
    <3>1. pc = "reading" /\ buffer # <<>>
      BY <1>4 DEF EventRead, Consume, BufferInv
    <3>2. QED
      BY <3>1, NextIsFirst
  <2>2. CASE aborted
    BY <1>4, <2>1, <2>2 DEF EventRead, Consume, Leave, AfterAttempt, SetState, server,
       Feed!Next, Feed!Disconnect
  <2>3. CASE ~aborted
    BY <1>4, <2>1, <2>3 DEF EventRead, Consume, server, Feed!Next, Feed!Deliver
  <2>4. QED
    BY <2>2, <2>3
<1>5. CASE ReadEnds
  BY <1>5 DEF ReadEnds, Consume, Leave, AfterAttempt, SetState, server, Feed!Next,
     Feed!Disconnect
<1>6. CASE WaitContinues
  BY <1>6 DEF WaitContinues, Consume, NextAttempt, server, Feed!Next, Feed!End
<1>7. CASE Emit
  BY <1>7 DEF Emit, Feed!Next, Feed!Emit
<1>8. CASE FallBack
  BY <1>8 DEF FallBack, server
<1>9. CASE OpenAnswered \/ OpenRefused \/ OpenAborted
  BY <1>9 DEF OpenAnswered, OpenRefused, OpenAborted, server
<1>10. CASE ReadSettles \/ WaitSettles \/ Abort \/ ServerChanges
  BY <1>10 DEF ReadSettles, WaitSettles, Abort, ServerChanges, server
<1>11. CASE UNCHANGED vars
  BY <1>11 DEF vars
<1>12. QED
  BY <1>1, <1>2, <1>3, <1>4, <1>5, <1>6, <1>7, <1>8, <1>9, <1>10, <1>11
     DEF Next, Continue

\* Whatever fails, times out or is aborted, the consumer of the loop sees a
\* feed: the states in turn, and within a connection every event once, in order.
THEOREM SubscriptionIsFeed == Spec => IsFeed
<1>1. IInv /\ [Next]_vars => [Feed!Next]_FeedView
  BY FeedStep
<1>2. QED
  BY <1>1, FeedInit, Inductive, PTL DEF Spec, IsFeed, Feed!Spec, Feed!feedVars, FeedView
=============================================================================
