------------------------ MODULE PaneMirrorProofs ------------------------
(***************************************************************************)
(* Proofs about PaneMirror, for any windows, any number of streams and any *)
(* number of overlapping ticks: its type, that no interval is left without *)
(* a registration, and that a refused edit ends its stream.                *)
(***************************************************************************)
EXTENDS PaneMirror, SequenceTheorems, TLAPS

\* While a stream is started none is registered for its window.
StartInv ==
  /\ starting.content # None => starting.target # None
  /\ starting.target # None => streams[starting.target] = None

IInv == TypeOK /\ StartInv /\ NoStrayTimer /\ NeverSpins

-----------------------------------------------------------------------------
LEMMA RemoveAtType ==
  ASSUME NEW S, NEW s \in Seq(S), NEW i \in DOMAIN s
  PROVE  RemoveAt(s, i) \in Seq(S)
<1>1. i \in 1..Len(s) /\ Len(s) \in Nat
  OBVIOUS
<1>2. SubSeq(s, 1, i - 1) \in Seq(S) /\ SubSeq(s, i + 1, Len(s)) \in Seq(S)
  <2>1. \A k \in 1..(i - 1) : s[k] \in S
    BY <1>1
  <2>2. \A k \in (i + 1)..Len(s) : s[k] \in S
    BY <1>1
  <2>3. QED
    BY <2>1, <2>2, <1>1
<1>3. QED
  BY <1>2 DEF RemoveAt

\* What stopping a stream by its window does: whatever interval it leaves
\* running belongs to another window.
LEMMA StopStreamStops ==
  ASSUME TypeOK, NoStrayTimer, NEW t \in Target,
         NEW now \in Seq(StreamState), Len(now) = Len(state),
         \A s \in Stream: now[s].target = state[s].target /\ now[s].timer = state[s].timer,
         StopStream(t, now)
  PROVE  /\ state' \in Seq(StreamState) /\ Len(state') = Len(state)
         /\ streams' \in [Target -> Stream \cup {None}]
         /\ \A s \in Stream: /\ state'[s].target = state[s].target
                             /\ state'[s].timer => state[s].timer /\ state[s].target # t
         /\ \A u \in Target: streams'[u] = IF u = t THEN None ELSE streams[u]
<1> USE MirrorAssumption
<1>1. /\ Len(state) \in Nat /\ Stream = 1..Len(state)
      /\ DOMAIN now = Stream /\ \A s \in Stream: now[s] \in StreamState
      /\ streams \in [Target -> Stream \cup {None}]
  BY DEF TypeOK, Stream
<1>2. \A u \in Target: streams'[u] = IF u = t THEN None ELSE streams[u]
  BY <1>1 DEF StopStream
<1>3. streams' \in [Target -> Stream \cup {None}]
  BY <1>1 DEF StopStream
<1>4. CASE streams[t] = None
  <2>1. state' = now
    BY <1>4 DEF StopStream
  <2>2. \A s \in Stream: state[s].timer => state[s].target # t
    BY <1>4, <1>1 DEF NoStrayTimer
  <2>3. QED
    BY <2>1, <2>2, <1>1, <1>2, <1>3
<1>5. CASE streams[t] # None
  <2> DEFINE r == streams[t]
  <2>1. r \in Stream /\ state' = [now EXCEPT ![r] = [@ EXCEPT !.timer = FALSE]]
    BY <1>5, <1>1 DEF StopStream
  <2>2. [now[r] EXCEPT !.timer = FALSE] \in StreamState
    BY <2>1, <1>1 DEF StreamState
  <2>3. state' \in Seq(StreamState) /\ Len(state') = Len(state)
    BY <2>1, <2>2, <1>1
  <2>4. \A s \in Stream: state'[s] = IF s = r THEN [now[r] EXCEPT !.timer = FALSE] ELSE now[s]
    BY <2>1, <1>1
  <2>5. \A s \in Stream: state'[s].target = state[s].target /\ (state'[s].timer => s # r /\ state[s].timer)
    BY <2>4, <2>1, <1>1 DEF StreamState
  <2>6. \A s \in Stream: state[s].timer /\ state[s].target = t => s = r
    BY DEF NoStrayTimer
  <2>7. QED
    BY <2>3, <2>5, <2>6, <1>2, <1>3
<1>6. QED
  BY <1>4, <1>5

\* A step that starts no interval and leaves the registration of those that
\* still run.
LEMMA Fewer ==
  ASSUME TypeOK, NoStrayTimer, NeverSpins,
         Len(state') = Len(state),
         state \in Seq(StreamState), state' \in Seq(StreamState),
         \A s \in Stream: /\ state'[s].target = state[s].target
                          /\ state'[s].timer => /\ state[s].timer
                                                /\ streams'[state[s].target] = streams[state[s].target],
         \A s \in refused': s \in refused \/ ~state'[s].timer,
         refused' \subseteq Stream
  PROVE  Stream' = Stream /\ NoStrayTimer' /\ NeverSpins'
<1>1. Stream' = Stream
  BY DEF Stream
<1>2. QED
  BY <1>1 DEF NoStrayTimer, NeverSpins

-----------------------------------------------------------------------------
LEMMA InitInv == Init => IInv
<1> SUFFICES ASSUME Init PROVE IInv
  OBVIOUS
<1> USE MirrorAssumption
<1>1. TypeOK
  BY DEF Init, TypeOK, Stream, NotStarting
<1>2. StartInv /\ NoStrayTimer /\ NeverSpins
  BY DEF Init, StartInv, NoStrayTimer, NeverSpins, Stream, NotStarting
<1>3. QED
  BY <1>1, <1>2 DEF IInv

\* A step that stops the stream of a window and touches no other interval.
LEMMA StopsOnly ==
  ASSUME IInv, NEW t \in Target,
         NEW now \in Seq(StreamState), Len(now) = Len(state),
         \A s \in Stream: now[s].target = state[s].target /\ now[s].timer = state[s].timer,
         StopStream(t, now),
         UNCHANGED <<screen, idleStop>>,
         captured' \in Seq(Seq(Content)), Len(captured') = Len(captured),
         refused' \subseteq Stream, overtaken' \subseteq Stream,
         \A s \in refused': s \in refused \/ state[s].target = t,
         \/ UNCHANGED starting
         \/ starting = NotStarting /\ starting' = [target |-> t, content |-> None]
  PROVE  IInv'
<1> USE MirrorAssumption
<1>1. state \in Seq(StreamState) /\ TypeOK /\ StartInv /\ NoStrayTimer /\ NeverSpins
  BY DEF IInv, TypeOK
<1>2. /\ state' \in Seq(StreamState) /\ Len(state') = Len(state)
      /\ streams' \in [Target -> Stream \cup {None}]
      /\ \A s \in Stream: /\ state'[s].target = state[s].target
                          /\ state'[s].timer => state[s].timer /\ state[s].target # t
      /\ \A u \in Target: streams'[u] = IF u = t THEN None ELSE streams[u]
  BY <1>1, StopStreamStops
<1>3. \A s \in Stream: state[s].target \in Target
  <2>1. \A s \in Stream: state[s] \in StreamState
    BY <1>1 DEF Stream
  <2>2. QED
    BY <2>1 DEF StreamState
<1>4. Stream' = Stream /\ NoStrayTimer' /\ NeverSpins'
  <2>1. \A s \in refused': s \in refused \/ ~state'[s].timer
    BY <1>2
  <2>2. QED
    BY <1>1, <1>2, <1>3, <2>1, Fewer
<1>5. starting' \in [target: Target \cup {None}, content: Content \cup {None}]
  BY <1>1 DEF TypeOK
<1>6. TypeOK'
  BY <1>1, <1>2, <1>4, <1>5 DEF TypeOK
<1>7. StartInv'
  BY <1>1, <1>2 DEF StartInv, NotStarting, TypeOK
<1>8. QED
  BY <1>4, <1>6, <1>7 DEF IInv

\* A step that leaves every interval and registration alone.
LEMMA RunsOn ==
  ASSUME IInv, Len(state') = Len(state), state' \in Seq(StreamState),
         \A s \in Stream: /\ state'[s].target = state[s].target
                          /\ state'[s].timer = state[s].timer,
         UNCHANGED <<streams, refused, overtaken, idleStop>>,
         screen' \in [Target -> Content],
         captured' \in Seq(Seq(Content)), Len(captured') = Len(captured),
         starting' \in [target: Target \cup {None}, content: Content \cup {None}],
         \/ starting'.target = starting.target /\ starting.target # None
         \/ UNCHANGED starting
         \/ starting' = NotStarting
  PROVE  IInv'
<1>1. TypeOK /\ StartInv /\ NoStrayTimer /\ NeverSpins /\ state \in Seq(StreamState)
  BY DEF IInv, TypeOK
<1>2. Stream' = Stream
  BY DEF Stream
<1>3. NoStrayTimer' /\ NeverSpins'
  BY <1>1, <1>2 DEF NoStrayTimer, NeverSpins, TypeOK
<1>4. TypeOK'
  BY <1>1, <1>2 DEF TypeOK
<1>5. StartInv'
  BY <1>1 DEF StartInv, NotStarting
<1>6. QED
  BY <1>3, <1>4, <1>5 DEF IInv

-----------------------------------------------------------------------------
LEMMA StartKeeps == ASSUME IInv, NEW t \in Target, Start(t) PROVE IInv'
<1>1. /\ refused \subseteq Stream /\ overtaken \subseteq Stream
      /\ state \in Seq(StreamState) /\ captured \in Seq(Seq(Content))
  BY DEF IInv, TypeOK
<1>2. QED
  BY <1>1, StopsOnly DEF Start

LEMMA StopKeeps == ASSUME IInv, NEW t \in Target, Stop(t) PROVE IInv'
<1>1. /\ refused \subseteq Stream /\ overtaken \subseteq Stream
      /\ state \in Seq(StreamState) /\ captured \in Seq(Seq(Content))
  BY DEF IInv, TypeOK
<1>2. QED
  BY <1>1, StopsOnly DEF Stop

LEMMA StartCapturedKeeps == ASSUME IInv, StartCaptured PROVE IInv'
<1>1. TypeOK
  BY DEF IInv
<1>2. /\ starting' \in [target: Target \cup {None}, content: Content \cup {None}]
      /\ starting'.target = starting.target /\ starting.target # None
  BY <1>1 DEF TypeOK, StartCaptured
<1>3. QED
  BY <1>1, <1>2, RunsOn DEF TypeOK, StartCaptured

LEMMA StartFailsKeeps == ASSUME IInv, StartFails PROVE IInv'
<1>1. TypeOK
  BY DEF IInv
<1>2. QED
  BY <1>1, RunsOn DEF TypeOK, StartFails, NotStarting

\* A new stream is registered for a window that has none.
LEMMA StartSentKeeps == ASSUME IInv, StartSent PROVE IInv'
<1> USE MirrorAssumption
<1>1. TypeOK /\ StartInv /\ NoStrayTimer /\ NeverSpins
  BY DEF IInv
<1> DEFINE t == starting.target
           new == [target |-> t, timer |-> TRUE, idleTicks |-> 0,
                   lastHash |-> starting.content,
                   lastBody |-> Body(starting.content, TRUE)]
           n == Len(state) + 1
<1>2. t \in Target /\ starting.content \in Content /\ streams[t] = None
  BY <1>1 DEF StartSent, TypeOK, StartInv
<1>3. new \in StreamState
  BY <1>2 DEF StreamState, Body
<1>4. state \in Seq(StreamState) /\ Len(state) \in Nat /\ state' = Append(state, new)
  BY <1>1 DEF TypeOK, StartSent
<1> HIDE DEF new
<1>5. /\ state' \in Seq(StreamState) /\ Len(state') = n /\ n \in Nat
      /\ state'[n] = new /\ \A s \in 1..Len(state): state'[s] = state[s]
  BY <1>3, <1>4
<1>6. Stream = 1..Len(state) /\ Stream' = Stream \cup {n} /\ n \notin Stream
  BY <1>4, <1>5 DEF Stream
<1>7. streams' = [streams EXCEPT ![t] = n]
  BY <1>5 DEF StartSent
<1>8. streams' \in [Target -> Stream' \cup {None}]
  BY <1>1, <1>2, <1>6, <1>7 DEF TypeOK
<1>9. captured' \in Seq(Seq(Content)) /\ Len(captured') = n
  <2>1. << >> \in Seq(Content)
    OBVIOUS
  <2>2. QED
    BY <1>1, <2>1, <1>4 DEF StartSent, TypeOK
<1>10. TypeOK'
  BY <1>1, <1>5, <1>6, <1>8, <1>9 DEF TypeOK, StartSent, NotStarting
<1>11. StartInv'
  BY DEF StartInv, StartSent, NotStarting
<1>12. NoStrayTimer'
  <2>1. \A s \in Stream: state[s].timer => state[s].target # t /\ state[s].target \in Target
    <3>1. \A s \in Stream: state[s] \in StreamState
      BY <1>4, <1>6
    <3>2. QED
      BY <3>1, <1>1, <1>2, <1>6 DEF NoStrayTimer, StreamState
  <2>2. \A s \in Stream: state'[s].timer => streams'[state'[s].target] = s
    BY <2>1, <1>1, <1>5, <1>6, <1>7 DEF NoStrayTimer, TypeOK
  <2>3. streams'[state'[n].target] = n
    BY <1>1, <1>2, <1>5, <1>7 DEF new, TypeOK
  <2>4. QED
    BY <2>2, <2>3, <1>6 DEF NoStrayTimer
<1>13. NeverSpins'
  BY <1>1, <1>5, <1>6 DEF NeverSpins, StartSent, TypeOK
<1>14. QED
  BY <1>10, <1>11, <1>12, <1>13 DEF IInv

LEMMA CaptureKeeps == ASSUME IInv, NEW s \in Stream, Capture(s) PROVE IInv'
<1>1. TypeOK
  BY DEF IInv
<1>2. state \in Seq(StreamState) /\ Len(captured) = Len(state) /\ captured \in Seq(Seq(Content))
  BY <1>1 DEF TypeOK
<1>3. state[s].target \in Target
  <2>1. state[s] \in StreamState
    BY <1>2 DEF Stream
  <2>2. QED
    BY <2>1 DEF StreamState
<1>4. screen[state[s].target] \in Content
  BY <1>1, <1>3 DEF TypeOK
<1>5. Append(captured[s], screen[state[s].target]) \in Seq(Content) /\ s \in 1..Len(captured)
  BY <1>2, <1>4 DEF Stream
<1>6. captured' \in Seq(Seq(Content)) /\ Len(captured') = Len(captured)
  BY <1>2, <1>5 DEF Capture
<1>7. QED
  BY <1>1, <1>2, <1>6, RunsOn DEF TypeOK, Capture

LEMMA ScreenKeeps ==
  ASSUME IInv, NEW t \in Target, NEW content \in Content, ScreenChanges(t, content)
  PROVE  IInv'
<1>1. TypeOK
  BY DEF IInv
<1>2. QED
  BY <1>1, RunsOn DEF TypeOK, ScreenChanges

LEMMA EditKeeps ==
  ASSUME IInv, NEW s \in Stream, NEW i \in DOMAIN edits[s],
         EditDone(s, i) \/ EditRefused(s, i)
  PROVE  IInv'
<1>1. TypeOK
  BY DEF IInv
<1>2. /\ state \in Seq(StreamState) /\ captured \in Seq(Seq(Content))
      /\ refused \subseteq Stream /\ overtaken \subseteq Stream
  BY <1>1 DEF TypeOK
<1>3. state[s].target \in Target
  <2>1. state[s] \in StreamState
    BY <1>2 DEF Stream
  <2>2. QED
    BY <2>1 DEF StreamState
<1>4. UNCHANGED <<screen, captured, starting, idleStop>> /\ overtaken' \subseteq Stream
  BY <1>2 DEF EditDone, EditRefused, Answered
<1>5. CASE StopStream(state[s].target, state)
  <2>1. refused' \subseteq Stream /\ \A r \in refused': r \in refused \/ r = s
    BY <1>2 DEF EditDone, EditRefused
  <2>2. QED
    BY <1>2, <1>3, <1>4, <1>5, <2>1, StopsOnly
<1>6. CASE UNCHANGED <<streams, state, refused>>
  <2>1. Stream' = Stream
    BY <1>6 DEF Stream
  <2>2. TypeOK'
    BY <1>1, <1>4, <1>6, <2>1 DEF TypeOK
  <2>3. StartInv' /\ NoStrayTimer' /\ NeverSpins'
    BY <1>4, <1>6, <2>1 DEF IInv, StartInv, NoStrayTimer, NeverSpins
  <2>4. QED
    BY <2>2, <2>3 DEF IInv
<1>7. QED
  BY <1>5, <1>6 DEF EditDone, EditRefused

\* A record of the state that a tick has updated, but for its timer.
LEMMA Updated ==
  ASSUME state \in Seq(StreamState), NEW s \in Stream,
         NEW r \in StreamState, r.target = state[s].target, r.timer = state[s].timer
  PROVE  LET now == [state EXCEPT ![s] = r]
         IN /\ now \in Seq(StreamState) /\ Len(now) = Len(state)
            /\ \A q \in Stream: now[q].target = state[q].target /\ now[q].timer = state[q].timer
BY DEF Stream

LEMMA TickKeeps ==
  ASSUME IInv, NEW s \in Stream, NEW i \in DOMAIN captured[s], Tick(s, i)
  PROVE  IInv'
<1> USE MirrorAssumption
<1>1. TypeOK
  BY DEF IInv
<1>2. /\ state \in Seq(StreamState) /\ Len(state) \in Nat /\ Stream = 1..Len(state)
      /\ captured \in Seq(Seq(Content)) /\ Len(captured) = Len(state)
      /\ refused \subseteq Stream /\ overtaken \subseteq Stream
  BY <1>1 DEF TypeOK, Stream
<1>3. state[s] \in StreamState
  BY <1>2
<1> DEFINE old == state[s]
           content == captured[s][i]
<1>4. old.target \in Target /\ old.idleTicks \in Nat
  BY <1>3 DEF StreamState
<1>5. captured[s] \in Seq(Content) /\ content \in Content
  BY <1>2
<1>6. captured' \in Seq(Seq(Content)) /\ Len(captured') = Len(captured)
  <2>1. RemoveAt(captured[s], i) \in Seq(Content)
    BY <1>5, RemoveAtType
  <2>2. captured' = [captured EXCEPT ![s] = RemoveAt(captured[s], i)]
    BY DEF Tick
  <2>3. QED
    BY <1>2, <2>1, <2>2
<1>7. UNCHANGED <<screen, starting, refused, overtaken, idleStop>>
  BY DEF Tick
<1>8. idleStop \in Nat
  BY <1>1 DEF TypeOK
<1>9. CASE IdleTick(s, content)
  <2> DEFINE ticked == [old EXCEPT !.idleTicks = OneMore(@)]
             idle == [state EXCEPT ![s].idleTicks = OneMore(@)]
  <2>1. /\ ticked \in StreamState /\ idle = [state EXCEPT ![s] = ticked]
        /\ ticked.target = old.target /\ ticked.timer = old.timer
    BY <1>3, <1>4, <1>8 DEF StreamState, OneMore
  <2>2. /\ idle \in Seq(StreamState) /\ Len(idle) = Len(state)
        /\ \A q \in Stream: idle[q].target = state[q].target /\ idle[q].timer = state[q].timer
    BY <1>2, <2>1, Updated
  <2>3. CASE StopStream(old.target, idle)
    BY <1>2, <1>4, <1>6, <1>7, <2>2, <2>3, StopsOnly
  <2>4. CASE UNCHANGED streams /\ state' = idle
    BY <1>1, <1>2, <1>6, <1>7, <2>2, <2>4, RunsOn DEF TypeOK
  <2>5. CASE UNCHANGED streams /\ state' = [idle EXCEPT ![s].lastBody = Body(content, FALSE)]
    <3> DEFINE marked == [ticked EXCEPT !.lastBody = Body(content, FALSE)]
    <3>1. marked \in StreamState /\ marked.target = old.target /\ marked.timer = old.timer
      BY <2>1, <1>5 DEF StreamState, Body
    <3>2. state' = [state EXCEPT ![s] = marked]
      BY <2>5, <2>1, <1>2
    <3>3. /\ state' \in Seq(StreamState) /\ Len(state') = Len(state)
          /\ \A q \in Stream: state'[q].target = state[q].target /\ state'[q].timer = state[q].timer
      BY <1>2, <3>1, <3>2, Updated
    <3>4. QED
      BY <1>1, <1>2, <1>6, <1>7, <2>5, <3>3, RunsOn DEF TypeOK
  <2>6. QED
    BY <1>9, <2>3, <2>4, <2>5 DEF IdleTick
<1>10. CASE NewTick(s, content)
  <2> DEFINE fresh == [old EXCEPT !.idleTicks = 0, !.lastHash = content]
             shows == [fresh EXCEPT !.lastBody = Body(content, TRUE)]
  <2>1. /\ fresh \in StreamState /\ fresh.target = old.target /\ fresh.timer = old.timer
        /\ shows \in StreamState /\ shows.target = old.target /\ shows.timer = old.timer
    BY <1>3, <1>5 DEF StreamState, Body
  <2>2. /\ UNCHANGED streams
        /\ state' = [state EXCEPT ![s] = fresh] \/ state' = [state EXCEPT ![s] = shows]
    <3>1. [state EXCEPT ![s].idleTicks = 0, ![s].lastHash = content] = [state EXCEPT ![s] = fresh]
      BY <1>2
    <3>2. [[state EXCEPT ![s] = fresh] EXCEPT ![s].lastBody = Body(content, TRUE)]
            = [state EXCEPT ![s] = shows]
      BY <1>2
    <3>3. QED
      BY <1>10, <3>1, <3>2 DEF NewTick
  <2>3. /\ state' \in Seq(StreamState) /\ Len(state') = Len(state)
        /\ \A q \in Stream: state'[q].target = state[q].target /\ state'[q].timer = state[q].timer
    <3>1. CASE state' = [state EXCEPT ![s] = fresh]
      BY <1>2, <2>1, <3>1, Updated
    <3>2. CASE state' = [state EXCEPT ![s] = shows]
      BY <1>2, <2>1, <3>2, Updated
    <3>3. QED
      BY <2>2, <3>1, <3>2
  <2>4. QED
    BY <1>1, <1>2, <1>6, <1>7, <2>2, <2>3, RunsOn DEF TypeOK
<1>11. QED
  BY <1>9, <1>10 DEF Tick

-----------------------------------------------------------------------------
LEMMA NextInv == IInv /\ [Next]_vars => IInv'
<1> SUFFICES ASSUME IInv, [Next]_vars PROVE IInv'
  OBVIOUS
<1>1. ASSUME NEW t \in Target, Start(t) PROVE IInv'
  BY <1>1, StartKeeps
<1>2. ASSUME NEW t \in Target, Stop(t) PROVE IInv'
  BY <1>2, StopKeeps
<1>3. ASSUME NEW t \in Target, NEW content \in Content, ScreenChanges(t, content) PROVE IInv'
  BY <1>3, ScreenKeeps
<1>4. CASE StartCaptured \/ StartSent \/ StartFails
  BY <1>4, StartCapturedKeeps, StartSentKeeps, StartFailsKeeps
<1>5. ASSUME NEW s \in Stream, Capture(s) PROVE IInv'
  BY <1>5, CaptureKeeps
<1>6. ASSUME NEW s \in Stream, NEW i \in DOMAIN captured[s], Tick(s, i) PROVE IInv'
  BY <1>6, TickKeeps
<1>7. ASSUME NEW s \in Stream, NEW i \in DOMAIN edits[s], EditDone(s, i) \/ EditRefused(s, i)
      PROVE IInv'
  BY <1>7, EditKeeps
<1>8. CASE UNCHANGED vars
  BY <1>8 DEF vars, IInv, TypeOK, StartInv, NoStrayTimer, NeverSpins, Stream
<1>9. QED
  BY <1>1, <1>2, <1>3, <1>4, <1>5, <1>6, <1>7, <1>8 DEF Next

LEMMA Invariant == Spec => []IInv
BY InitInv, NextInv, PTL DEF Spec

\* The state of the streams, of their captures and of the start under way
\* keep their types.
THEOREM TypeCorrect == Spec => []TypeOK
<1>1. IInv => TypeOK
  BY DEF IInv
<1>2. QED
  BY <1>1, Invariant, PTL

\* An interval that runs is the registered one of its window, through starts,
\* restarts, stops by a stale tick and overlapping captures.
THEOREM NoStrayTimers == Spec => []NoStrayTimer
<1>1. IInv => NoStrayTimer
  BY DEF IInv
<1>2. QED
  BY <1>1, Invariant, PTL

\* A stream with a refused edit has no interval, whichever stream its key
\* stands for by then.
THEOREM RefusedStreamsStop == Spec => []NeverSpins
<1>1. IInv => NeverSpins
  BY DEF IInv
<1>2. QED
  BY <1>1, Invariant, PTL
=============================================================================
