-------------------------- MODULE StreamingProofs ---------------------------
(***************************************************************************)
(* Proofs about ResponseStreamer, for any texts, any number of streams,    *)
(* updates and failures, on both transports; and about StreamCoordinator,  *)
(* which drives it, for any sessions, conversations, texts and events.     *)
(***************************************************************************)
EXTENDS StreamCoordinator, SequenceTheorems, FiniteSetTheorems,
        WellFoundedInduction, TLAPS

StreamRec ==
  [key : Key, latest : Payload, sigs : Parts, ids : Seq(Nat), timer : BOOLEAN,
   cancelled : BOOLEAN, broken : BOOLEAN, plainOnly : BOOLEAN, queued : Nat,
   at : {"rest", "call", "delay"}, work : Parts, idx : Nat, ok : BOOLEAN,
   done : {"open", "streamed", "unsent", "cleared"}]

\* parts say the text p, in its rendered or its plain form.
Says(parts, p) == Texts(parts) \in {Texts(p), Texts(Plain[p])}

\* The first n signatures are those of the parts being synced.
Matched(st, n) ==
  \A j \in 1..n : j <= Len(st.sigs) /\ st.sigs[j].text = st.work[j].text

\* Where a flush that awaits Telegram stands: the parts before are as they
\* should be, and there is a part or a surplus message to call for.
InCall(st) ==
  /\ st.idx \in 1..(Len(st.work) + 1)
  /\ st.idx = Len(st.work) + 1 => Len(st.ids) > Len(st.work)
  /\ Matched(st, st.idx - 1)

\* A stream by itself.
Good(st) ==
  /\ st \in StreamRec
  /\ st.at = "call" => InCall(st)
  /\ st.done = "open" => ~st.cancelled
  /\ st.done # "open" => st.cancelled /\ ~st.timer
  /\ st.done \in {"streamed", "unsent"} => ~Tasks(st)
  /\ st.done \in {"open", "cleared"} => Len(st.ids) = Len(st.sigs)

\* A broken stream's last flush has failed, and none runs.
Honest(st) == st.broken => st.at = "rest" /\ ~st.ok

\* What a flush leaves alone.
Same(r, st) ==
  /\ r.key = st.key /\ r.latest = st.latest /\ r.timer = st.timer
  /\ r.cancelled = st.cancelled /\ r.queued = st.queued /\ r.done = st.done

-----------------------------------------------------------------------------
LEMMA Least ==
  ASSUME NEW S \in SUBSET Nat, S # {}
  PROVE  Min(S) \in S /\ \A x \in S : Min(S) <= x
<1>1. \E x \in S : \A y \in S : ~(<<y, x>> \in OpToRel(<, Nat))
  BY NatLessThanWellFounded, WFMin
<1>2. \E x \in S : \A y \in S : x <= y
  <2>1. PICK x \in S : \A y \in S : ~(<<y, x>> \in OpToRel(<, Nat))
    BY <1>1
  <2>2. \A y \in S : ~(y < x)
    BY <2>1 DEF OpToRel
  <2>3. QED
    BY <2>2
<1>3. QED
  BY <1>2 DEF Min

LEMMA PartsOf ==
  ASSUME NEW st \in StreamRec
  PROVE  /\ Target(st) \in Parts /\ Target(st) # <<>>
         /\ Says(Target(st), st.latest)
<1>1. st.latest \in Payload
  BY DEF StreamRec
<1>2. Target(st) \in {st.latest, Plain[st.latest]}
  BY DEF Target, toPlainPayload
<1>3. QED
  BY <1>1, <1>2, StreamerAssumption DEF Says

\* Sequences of parts that agree part by part say the same.
LEMMA SameTexts ==
  ASSUME NEW a \in Parts, NEW b \in Parts, Len(a) = Len(b),
         \A j \in 1..Len(b) : a[j].text = b[j].text
  PROVE  Texts(a) = Texts(b)
BY DEF Texts, Parts

\* A record of which only the part it is at has changed.
LEMMA OtherPart ==
  ASSUME NEW st \in StreamRec, NEW n \in Nat
  PROVE  LET r == [st EXCEPT !.idx = n]
         IN /\ r \in StreamRec /\ Same(r, st) /\ r.idx = n
            /\ r.at = st.at /\ r.work = st.work /\ r.ids = st.ids /\ r.sigs = st.sigs
            /\ r.broken = st.broken /\ r.plainOnly = st.plainOnly
BY DEF StreamRec, Same

LEMMA ReturnKeeps ==
  ASSUME NEW st \in StreamRec, NEW ok \in BOOLEAN
  PROVE  LET r == Return(st, ok)
         IN /\ r \in StreamRec /\ Same(r, st) /\ r.at = "rest" /\ r.ok = ok
            /\ r.ids = st.ids /\ r.sigs = st.sigs
            /\ r.broken = st.broken /\ r.plainOnly = st.plainOnly
<1>1. <<>> \in Parts
  BY DEF Parts
<1>2. QED
  BY <1>1 DEF StreamRec, Same, Return

\* The synchronisation awaits its next call, or has made the stream's
\* messages say the parts.
LEMMA SyncFromKeeps ==
  ASSUME NEW st \in StreamRec, st.at = "call", Len(st.ids) = Len(st.sigs),
         NEW i \in 1..(Len(st.work) + 1), Matched(st, i - 1)
  PROVE  LET r == SyncFrom(st, i)
         IN /\ r \in StreamRec /\ Same(r, st)
            /\ r.ids = st.ids /\ r.sigs = st.sigs
            /\ r.broken = st.broken /\ r.plainOnly = st.plainOnly
            /\ \/ r.at = "call" /\ InCall(r) /\ r.work = st.work
               \/ r.at = "rest" /\ r.ok /\ Texts(st.sigs) = Texts(st.work)
<1>1. /\ st.work \in Parts /\ st.sigs \in Parts /\ st.ids \in Seq(Nat)
      /\ Len(st.work) \in Nat /\ Len(st.sigs) \in Nat /\ Len(st.ids) \in Nat
  BY DEF StreamRec, Parts
<1> DEFINE r == SyncFrom(st, i)
           m == Min(Changed(st, i))
<1>2. CASE Changed(st, i) # {}
  <2>1. Changed(st, i) \subseteq Nat
    BY <1>1 DEF Changed
  <2>2. m \in Changed(st, i) /\ \A x \in Changed(st, i) : m <= x
    BY <1>2, <2>1, Least
  <2>3. m \in i..Len(st.work)
    BY <2>2 DEF Changed
  <2>4. \A j \in 1..(m - 1) : j <= Len(st.sigs) /\ st.sigs[j].text = st.work[j].text
    <3> TAKE j \in 1..(m - 1)
    <3>1. CASE j < i
      BY <3>1, <2>3, <1>1 DEF Matched
    <3>2. CASE j >= i
      <4>1. j \in i..Len(st.work) /\ j \notin Changed(st, i)
        BY <3>2, <2>1, <2>2, <2>3, <1>1
      <4>2. QED
        BY <4>1, <1>1 DEF Changed
    <3>3. QED
      BY <3>1, <3>2, <2>3, <1>1
  <2> HIDE DEF m
  <2>5. r = [st EXCEPT !.idx = m]
    BY <1>2 DEF SyncFrom, m
  <2>6. r \in StreamRec /\ r.idx = m /\ r.at = "call" /\ r.work = st.work
        /\ r.sigs = st.sigs /\ r.ids = st.ids /\ Same(r, st)
        /\ r.broken = st.broken /\ r.plainOnly = st.plainOnly
    BY <2>5, <2>3, <1>1, OtherPart
  <2>7. InCall(r)
    BY <2>3, <2>4, <2>6, <1>1 DEF InCall, Matched
  <2>8. QED
    BY <2>6, <2>7
<1>3. CASE Changed(st, i) = {}
  <2>1. Matched(st, Len(st.work))
    <3>1. \A j \in i..Len(st.work) : j <= Len(st.sigs) /\ st.sigs[j].text = st.work[j].text
      BY <1>3, <1>1 DEF Changed
    <3>2. QED
      BY <3>1, <1>1 DEF Matched
  <2>2. CASE Len(st.ids) > Len(st.work)
    <3>1. r = [st EXCEPT !.idx = Len(st.work) + 1]
      BY <1>3, <2>2 DEF SyncFrom
    <3>2. r \in StreamRec /\ r.idx = Len(st.work) + 1 /\ r.at = "call" /\ r.work = st.work
          /\ r.sigs = st.sigs /\ r.ids = st.ids /\ Same(r, st)
          /\ r.broken = st.broken /\ r.plainOnly = st.plainOnly
      <4> DEFINE n == Len(st.work) + 1
      <4>1. n \in Nat /\ r = [st EXCEPT !.idx = n]
        BY <3>1, <1>1
      <4> HIDE DEF n, r
      <4>2. /\ r \in StreamRec /\ Same(r, st) /\ r.idx = n
            /\ r.at = st.at /\ r.work = st.work /\ r.ids = st.ids /\ r.sigs = st.sigs
            /\ r.broken = st.broken /\ r.plainOnly = st.plainOnly
        BY <4>1, OtherPart
      <4>3. QED
        BY <4>2 DEF n
    <3>3. InCall(r)
      BY <3>2, <2>1, <2>2, <1>1 DEF InCall, Matched
    <3>4. QED
      BY <3>2, <3>3
  <2>3. CASE ~(Len(st.ids) > Len(st.work))
    <3>1. r = Return(st, TRUE)
      BY <1>3, <2>3 DEF SyncFrom
    <3>2. r \in StreamRec /\ r.at = "rest" /\ r.ok /\ r.sigs = st.sigs /\ r.ids = st.ids
          /\ Same(r, st) /\ r.broken = st.broken /\ r.plainOnly = st.plainOnly
      <4> HIDE DEF r
      <4>1. LET q == Return(st, TRUE)
            IN /\ q \in StreamRec /\ Same(q, st) /\ q.at = "rest" /\ q.ok = TRUE
               /\ q.ids = st.ids /\ q.sigs = st.sigs
               /\ q.broken = st.broken /\ q.plainOnly = st.plainOnly
        BY ReturnKeeps
      <4>2. QED
        BY <3>1, <4>1
    <3>3. Len(st.sigs) = Len(st.work)
      BY <2>1, <2>3, <1>1 DEF Matched
    <3>4. Texts(st.sigs) = Texts(st.work)
      BY <3>3, <2>1, <1>1, SameTexts DEF Matched
    <3>5. QED
      BY <3>2, <3>4
  <2>4. QED
    BY <2>2, <2>3
<1>4. QED
  BY <1>2, <1>3

\* What a turn of flushState's loop comes to: if the flush has returned, it
\* was given up or the messages say the latest text, and if it calls
\* Telegram it is for the latest text of a stream that is not cancelled.
Turned(r) ==
  /\ r.at = "rest" => (r.ok \/ ~(r.broken \/ r.cancelled) => Says(r.sigs, r.latest))
  /\ r.at = "call" => Says(r.work, r.latest) /\ ~r.cancelled
  /\ r.at # "delay"
  /\ Honest(r)

LEMMA StaysGood ==
  ASSUME NEW st, Good(st), NEW r \in StreamRec, Same(r, st),
         st.done \in {"open", "cleared"}, Len(r.ids) = Len(r.sigs),
         r.at = "call" => InCall(r)
  PROVE  Good(r)
BY DEF Good, Same

LEMMA FlushStateKeeps ==
  ASSUME NEW st, Good(st), st.done \in {"open", "cleared"}
  PROVE  LET r == FlushState(st)
         IN /\ Good(r) /\ Same(r, st) /\ r.ids = st.ids /\ r.sigs = st.sigs
            /\ r.plainOnly = st.plainOnly /\ Turned(r)
<1> DEFINE r == FlushState(st)
<1>1. st \in StreamRec /\ Len(st.ids) = Len(st.sigs)
  BY DEF Good
<1>2. CASE st.cancelled \/ st.broken
  <2>1. r = Return(st, FALSE)
    BY <1>2 DEF FlushState
  <2> HIDE DEF r
  <2>2. /\ r \in StreamRec /\ Same(r, st) /\ r.at = "rest" /\ ~r.ok
        /\ r.ids = st.ids /\ r.sigs = st.sigs
        /\ r.broken = st.broken /\ r.plainOnly = st.plainOnly
    BY <1>1, <2>1, ReturnKeeps
  <2>3. Turned(r)
    BY <1>2, <2>2 DEF Turned, Same, Honest
  <2>4. QED
    BY <1>1, <2>2, <2>3, StaysGood DEF r
<1>3. CASE ~(st.cancelled \/ st.broken) /\ st.sigs = Target(st)
  <2>1. r = Return(st, st.ids # <<>>)
    BY <1>3 DEF FlushState
  <2> HIDE DEF r
  <2>2. /\ r \in StreamRec /\ Same(r, st) /\ r.at = "rest"
        /\ r.ids = st.ids /\ r.sigs = st.sigs
        /\ r.broken = st.broken /\ r.plainOnly = st.plainOnly
    BY <1>1, <2>1, ReturnKeeps
  <2>3. Turned(r)
    BY <1>1, <1>3, <2>2, PartsOf DEF Turned, Same, Honest
  <2>4. QED
    BY <1>1, <2>2, <2>3, StaysGood DEF r
<1>4. CASE ~(st.cancelled \/ st.broken) /\ st.sigs # Target(st)
  <2> DEFINE c == [st EXCEPT !.at = "call", !.work = Target(st)]
  <2>1. r = SyncFrom(c, 1)
    BY <1>4 DEF FlushState
  <2>2. Target(st) \in Parts /\ Len(Target(st)) \in Nat /\ Says(Target(st), st.latest)
    BY <1>1, PartsOf DEF Parts
  <2>3. /\ c \in StreamRec /\ c.at = "call" /\ c.work = Target(st) /\ Same(c, st)
        /\ c.ids = st.ids /\ c.sigs = st.sigs
        /\ c.broken = st.broken /\ c.plainOnly = st.plainOnly
    BY <1>1, <2>2 DEF StreamRec, Same
  <2> HIDE DEF c, r
  <2>4. Matched(c, 1 - 1) /\ 1 \in 1..(Len(c.work) + 1)
    BY <2>2, <2>3 DEF Matched
  <2>5. /\ r \in StreamRec /\ Same(r, c)
        /\ r.ids = c.ids /\ r.sigs = c.sigs
        /\ r.broken = c.broken /\ r.plainOnly = c.plainOnly
        /\ \/ r.at = "call" /\ InCall(r) /\ r.work = c.work
           \/ r.at = "rest" /\ r.ok /\ Texts(c.sigs) = Texts(c.work)
    BY <1>1, <2>1, <2>3, <2>4, SyncFromKeeps
  <2>6. Same(r, st) /\ Turned(r)
    BY <1>4, <2>2, <2>3, <2>5 DEF Same, Turned, Says, Honest
  <2>7. QED
    BY <1>1, <2>3, <2>5, <2>6, StaysGood DEF r
<1>5. QED
  BY <1>2, <1>3, <1>4

LEMMA FailedKeeps ==
  ASSUME NEW st, Good(st), st.done \in {"open", "cleared"}
  PROVE  LET r == Failed(st)
         IN /\ Good(r) /\ Same(r, st) /\ r.ids = st.ids /\ r.sigs = st.sigs /\ Turned(r)
<1> DEFINE r == Failed(st)
<1>1. st \in StreamRec /\ Len(st.ids) = Len(st.sigs)
  BY DEF Good
<1>2. CASE ~st.plainOnly /\ Native(st.work)
  <2> DEFINE d == [st EXCEPT !.plainOnly = TRUE]
  <2>1. d \in StreamRec /\ Same(d, st) /\ d.ids = st.ids /\ d.sigs = st.sigs
        /\ d.at = st.at /\ d.work = st.work /\ d.idx = st.idx
    BY <1>1 DEF StreamRec, Same
  <2>2. r = FlushState(d)
    BY <1>2 DEF Failed
  <2> HIDE DEF d, r
  <2>3. d.at = "call" => InCall(d)
    BY <2>1 DEF Good, InCall, Matched
  <2>4. Good(d) /\ d.done \in {"open", "cleared"}
    BY <1>1, <2>1, <2>3, StaysGood DEF Same
  <2>5. Good(r) /\ Same(r, d) /\ r.ids = d.ids /\ r.sigs = d.sigs /\ Turned(r)
    BY <2>2, <2>4, FlushStateKeeps
  <2>6. QED
    BY <2>1, <2>5 DEF Same, r
<1>3. CASE ~(~st.plainOnly /\ Native(st.work))
  <2> DEFINE d == [st EXCEPT !.broken = TRUE]
  <2>1. d \in StreamRec /\ Same(d, st) /\ d.ids = st.ids /\ d.sigs = st.sigs /\ d.broken
    BY <1>1 DEF StreamRec, Same
  <2>2. r = Return(d, FALSE)
    BY <1>3 DEF Failed
  <2> HIDE DEF d, r
  <2>3. /\ r \in StreamRec /\ Same(r, d) /\ r.at = "rest" /\ ~r.ok
        /\ r.ids = d.ids /\ r.sigs = d.sigs /\ r.broken
    BY <2>1, <2>2, ReturnKeeps
  <2>4. Same(r, st) /\ Turned(r)
    BY <2>1, <2>3 DEF Same, Turned, Honest
  <2>5. QED
    BY <1>1, <2>1, <2>3, <2>4, StaysGood DEF r
<1>4. QED
  BY <1>2, <1>3

-----------------------------------------------------------------------------
(* What every step keeps, whichever transport the bot uses.                  *)

StreamsOK == stream \in Seq(StreamRec) /\ \A s \in DOMAIN stream : Good(stream[s])

\* The map names the open streams, each under its own key.
MapOK ==
  /\ states \in [Key -> 0..Len(stream)]
  /\ \A k \in Key : states[k] # 0 =>
       stream[states[k]].key = k /\ stream[states[k]].done = "open"
  /\ \A s \in DOMAIN stream : stream[s].done = "open" => states[stream[s].key] = s

\* complete works on an open stream whose timer is stopped, and once it
\* cleans up or persists, no flush of that stream is under way or chained.
CallerOK ==
  /\ caller \in [pc : {"idle", "tasks", "cleanup", "final", "persist"},
                 s : Nat, ids : Seq(Nat)]
  /\ caller.pc = "idle" => caller = Idle
  /\ caller.pc # "idle" =>
       /\ caller.s \in DOMAIN stream
       /\ stream[caller.s].done = "open" /\ ~stream[caller.s].timer
  /\ caller.pc \in {"cleanup", "persist"} => ~Tasks(stream[caller.s])
  /\ caller.pc \in {"tasks", "final"} => caller.ids = <<>>
  /\ caller.pc = "persist" => Len(caller.ids) < Len(Target(stream[caller.s]))

\* A stream whose latest text is shown, or on its way.
Covered(st) ==
  \/ st.timer \/ st.queued > 0 \/ st.at = "delay"
  \/ st.at = "call" /\ Says(st.work, st.latest)
  \/ st.at = "rest" /\ Says(st.sigs, st.latest)

UpdatesOK ==
  \A s \in DOMAIN stream :
    stream[s].done = "open" /\ ~stream[s].broken =>
      Covered(stream[s]) \/ (caller.pc = "tasks" /\ caller.s = s)

Core == StreamsOK /\ MapOK /\ CallerOK /\ UpdatesOK

LEMMA Replaced ==
  ASSUME StreamsOK, NEW s \in DOMAIN stream, NEW r, Good(r),
         stream' = [stream EXCEPT ![s] = r]
  PROVE  /\ StreamsOK'
         /\ DOMAIN stream' = DOMAIN stream /\ Len(stream') = Len(stream)
         /\ stream'[s] = r
         /\ \A t \in DOMAIN stream : t # s => stream'[t] = stream[t]
<1>1. stream \in Seq(StreamRec) /\ s \in 1..Len(stream) /\ r \in StreamRec
  BY DEF StreamsOK, Good
<1>2. stream' \in Seq(StreamRec) /\ Len(stream') = Len(stream)
  BY <1>1, ExceptSeq
<1>3. /\ DOMAIN stream' = DOMAIN stream /\ stream'[s] = r
      /\ \A t \in DOMAIN stream : t # s => stream'[t] = stream[t]
  BY <1>1
<1>4. \A t \in DOMAIN stream' : Good(stream'[t])
  BY <1>3 DEF StreamsOK
<1>5. QED
  BY <1>2, <1>3, <1>4 DEF StreamsOK

-----------------------------------------------------------------------------
(* The steps of a flush and of the timer.                                    *)

\* The stream st becomes r by a step of its timer or of its flushes.
Moves(st, r) ==
  /\ Good(r)
  /\ st.timer \/ Tasks(st)
  /\ r.key = st.key /\ r.latest = st.latest
  /\ r.cancelled = st.cancelled /\ r.done = st.done
  /\ r.timer => st.timer
  /\ Covered(st) \/ st.broken => Covered(r) \/ r.broken \/ r.cancelled
  /\ st.cancelled /\ st.at # "call" => r.at # "call"
  /\ Honest(st) => Honest(r)

LEMMA BusyStream ==
  ASSUME NEW st, Good(st), st.timer \/ Tasks(st)
  PROVE  /\ st \in StreamRec /\ st.done \in {"open", "cleared"}
         /\ Len(st.ids) = Len(st.sigs)
BY DEF Good, StreamRec

LEMMA TimerMoves ==
  ASSUME NEW st, Good(st), st.timer,
         NEW r, r = [st EXCEPT !.timer = FALSE, !.queued = @ + 1]
  PROVE  Moves(st, r) /\ r.ids = st.ids /\ r.sigs = st.sigs
<1>1. /\ st \in StreamRec /\ st.done \in {"open", "cleared"}
      /\ Len(st.ids) = Len(st.sigs)
  BY BusyStream
<1>2. /\ r \in StreamRec /\ r.key = st.key /\ r.latest = st.latest
      /\ r.cancelled = st.cancelled /\ r.done = st.done /\ r.at = st.at
      /\ r.ids = st.ids /\ r.sigs = st.sigs /\ r.work = st.work /\ r.idx = st.idx
      /\ ~r.timer /\ r.queued > 0 /\ r.broken = st.broken /\ r.ok = st.ok
  <2> DEFINE n == st.queued + 1
  <2>1. n \in Nat /\ n > 0
    BY <1>1 DEF StreamRec
  <2>2. r = [st EXCEPT !.timer = FALSE, !.queued = n]
    OBVIOUS
  <2> HIDE DEF n
  <2>3. QED
    BY <1>1, <2>1, <2>2 DEF StreamRec
<1>3. Good(r)
  BY <1>1, <1>2 DEF Good, InCall, Matched
<1>4. QED
  BY <1>2, <1>3 DEF Moves, Covered, Honest

\* A turn of the flush loop from a stream that is not waiting for an answer.
LEMMA TurnMoves ==
  ASSUME NEW st, Good(st), Tasks(st),
         NEW r, Good(r), Turned(r),
         r.key = st.key, r.latest = st.latest, r.timer = st.timer,
         r.cancelled = st.cancelled, r.done = st.done,
         r.ids = st.ids, r.sigs = st.sigs
  PROVE  Moves(st, r) /\ r.ids = st.ids /\ r.sigs = st.sigs
BY DEF Moves, Turned, Covered, Good, StreamRec

LEMMA StartMoves ==
  ASSUME NEW st, Good(st), st.at = "rest", st.queued > 0,
         NEW r, r = FlushState([st EXCEPT !.queued = @ - 1])
  PROVE  Moves(st, r) /\ r.ids = st.ids /\ r.sigs = st.sigs
<1> DEFINE n == st.queued - 1
           d == [st EXCEPT !.queued = n]
<1>1. /\ st \in StreamRec /\ st.done \in {"open", "cleared"}
      /\ Len(st.ids) = Len(st.sigs) /\ Tasks(st)
  BY BusyStream DEF Tasks
<1>2. n \in Nat /\ r = FlushState(d)
  BY <1>1 DEF StreamRec
<1> HIDE DEF n
<1>3. /\ d \in StreamRec /\ d.key = st.key /\ d.latest = st.latest /\ d.timer = st.timer
      /\ d.cancelled = st.cancelled /\ d.done = st.done /\ d.at = st.at
      /\ d.ids = st.ids /\ d.sigs = st.sigs
  BY <1>1, <1>2 DEF StreamRec
<1> HIDE DEF d
<1>4. Good(d)
  BY <1>1, <1>3 DEF Good
<1>5. Good(r) /\ Same(r, d) /\ Turned(r) /\ r.ids = d.ids /\ r.sigs = d.sigs
  BY <1>1, <1>2, <1>3, <1>4, FlushStateKeeps
<1>6. QED
  BY <1>1, <1>3, <1>5, TurnMoves DEF Same

LEMMA RetryMoves ==
  ASSUME NEW st, Good(st), st.at = "delay", NEW r, r = FlushState(st)
  PROVE  Moves(st, r) /\ r.ids = st.ids /\ r.sigs = st.sigs
<1>1. st.done \in {"open", "cleared"} /\ Tasks(st)
  BY BusyStream DEF Tasks
<1>2. Good(r) /\ Same(r, st) /\ Turned(r) /\ r.ids = st.ids /\ r.sigs = st.sigs
  BY <1>1, FlushStateKeeps
<1>3. QED
  BY <1>1, <1>2, TurnMoves DEF Same

LEMMA FailureMoves ==
  ASSUME NEW st, Good(st), st.at = "call", NEW r, r = Failed(st)
  PROVE  Moves(st, r) /\ r.ids = st.ids /\ r.sigs = st.sigs
<1>1. st.done \in {"open", "cleared"} /\ Tasks(st)
  BY BusyStream DEF Tasks
<1>2. Good(r) /\ Same(r, st) /\ Turned(r) /\ r.ids = st.ids /\ r.sigs = st.sigs
  BY <1>1, FailedKeeps
<1>3. QED
  BY <1>1, <1>2, TurnMoves DEF Same

LEMMA LimitMoves ==
  ASSUME NEW st, Good(st), st.at = "call", NEW r, r = [st EXCEPT !.at = "delay"]
  PROVE  Moves(st, r) /\ r.ids = st.ids /\ r.sigs = st.sigs
<1>1. /\ st \in StreamRec /\ st.done \in {"open", "cleared"}
      /\ Len(st.ids) = Len(st.sigs) /\ Tasks(st)
  BY BusyStream DEF Tasks
<1>2. /\ r \in StreamRec /\ Same(r, st) /\ r.at = "delay"
      /\ r.ids = st.ids /\ r.sigs = st.sigs /\ r.broken = st.broken
  BY <1>1 DEF StreamRec, Same
<1>3. Good(r)
  BY <1>1, <1>2, StaysGood
<1>4. QED
  BY <1>1, <1>2, <1>3 DEF Moves, Same, Covered, Honest

\* A call that went through, after which the parts up to i are as they
\* should be.
LEMMA SyncMoves ==
  ASSUME NEW st, Good(st), st.at = "call",
         NEW q \in StreamRec, Same(q, st), q.at = "call", q.work = st.work,
         q.broken = st.broken, Len(q.ids) = Len(q.sigs),
         NEW i \in 1..(Len(q.work) + 1), Matched(q, i - 1),
         NEW r, r = SyncFrom(q, i)
  PROVE  Moves(st, r) /\ r.ids = q.ids /\ r.sigs = q.sigs
<1>1. /\ st \in StreamRec /\ st.done \in {"open", "cleared"} /\ Tasks(st)
  BY BusyStream DEF Tasks
<1>2. /\ r \in StreamRec /\ Same(r, q)
      /\ r.ids = q.ids /\ r.sigs = q.sigs /\ r.broken = q.broken
      /\ \/ r.at = "call" /\ InCall(r) /\ r.work = q.work
         \/ r.at = "rest" /\ r.ok /\ Texts(q.sigs) = Texts(q.work)
  BY SyncFromKeeps
<1>3. Same(r, st)
  BY <1>2 DEF Same
<1>4. Good(r)
  BY <1>1, <1>2, <1>3, StaysGood
<1>5. Covered(st) => Covered(r)
  BY <1>2, <1>3 DEF Covered, Same, Says
<1>6. Honest(st) => Honest(r)
  BY <1>2 DEF Honest
<1>7. QED
  BY <1>1, <1>2, <1>3, <1>4, <1>5, <1>6 DEF Moves, Same

\* The bookkeeping of a call that showed the part it was for.
LEMMA RecordedKeeps ==
  ASSUME Len(chat) \in Nat, NEW s, Good(stream[s]), OnPart(s),
         NEW part \in AnyPart, part.text = CurrentPart(s).text
  PROVE  LET st == stream[s]
             q == Recorded(s, part)
         IN /\ q \in StreamRec /\ Same(q, st)
            /\ q.at = st.at /\ q.work = st.work /\ q.idx = st.idx
            /\ q.broken = st.broken /\ q.plainOnly = st.plainOnly
            /\ Len(q.ids) = Len(q.sigs) /\ Matched(q, st.idx)
            /\ st.idx \in Nat /\ st.idx + 1 \in 1..(Len(q.work) + 1)
<1> DEFINE st == stream[s]
           q == Recorded(s, part)
           n == st.idx
           id == IF Draft THEN DraftId ELSE Len(chat) + 1
<1>1. /\ st \in StreamRec /\ st.at = "call" /\ InCall(st)
      /\ Len(st.ids) = Len(st.sigs)
  BY BusyStream DEF OnPart, Awaiting, Tasks, Good
<1>2. /\ st.sigs \in Seq(AnyPart) /\ st.work \in Seq(AnyPart) /\ st.ids \in Seq(Nat)
      /\ n \in 1..Len(st.work) /\ part.text = st.work[n].text
      /\ \A j \in 1..(n - 1) : j <= Len(st.sigs) /\ st.sigs[j].text = st.work[j].text
      /\ id \in Nat
  BY <1>1 DEF InCall, OnPart, StreamRec, Parts, Matched, CurrentPart, DraftId
<1>3. CASE Editing(s)
  <2> DEFINE sg == [st.sigs EXCEPT ![n] = part]
  <2>1. q = [st EXCEPT !.sigs = sg]
    BY <1>1, <1>3 DEF Recorded, StreamRec
  <2>2. n \in 1..Len(st.sigs)
    BY <1>1, <1>2, <1>3 DEF Editing
  <2>3. sg \in Seq(AnyPart) /\ Len(sg) = Len(st.sigs)
    BY <1>2, <2>2, ExceptSeq
  <2>4. \A j \in 1..n : j <= Len(sg) /\ sg[j].text = st.work[j].text
    BY <1>2, <2>2, <2>3
  <2> HIDE DEF sg, st, q, n
  <2>5. /\ q \in StreamRec /\ Same(q, st) /\ q.at = st.at /\ q.work = st.work
        /\ q.idx = st.idx /\ q.broken = st.broken /\ q.plainOnly = st.plainOnly
        /\ q.ids = st.ids /\ q.sigs = sg
    BY <1>1, <2>1, <2>3 DEF StreamRec, Same, Parts
  <2>6. Matched(q, n)
    BY <2>4, <2>5 DEF Matched
  <2>7. Len(q.ids) = Len(q.sigs) /\ n \in Nat /\ n + 1 \in 1..(Len(q.work) + 1)
    BY <1>1, <1>2, <2>3, <2>5
  <2>8. QED
    BY <2>5, <2>6, <2>7 DEF st, q, n
<1>4. CASE ~Editing(s)
  <2> DEFINE sg == Append(st.sigs, part)
             is == Append(st.ids, id)
  <2>1. q = [st EXCEPT !.ids = is, !.sigs = sg]
    BY <1>1, <1>4 DEF Recorded, StreamRec
  <2>2. Len(st.sigs) = n - 1
    <3>1. Len(st.sigs) < n /\ Len(st.sigs) \in Nat
      BY <1>1, <1>2, <1>4 DEF Editing
    <3>2. n - 1 <= Len(st.sigs)
      <4>1. CASE n = 1
        BY <4>1, <3>1
      <4>2. CASE n # 1
        BY <4>2, <1>2
      <4>3. QED
        BY <4>1, <4>2
    <3>3. QED
      BY <3>1, <3>2, <1>2
  <2>3. /\ sg \in Seq(AnyPart) /\ Len(sg) = n /\ is \in Seq(Nat) /\ Len(is) = n
        /\ sg[n] = part /\ \A j \in 1..(n - 1) : sg[j] = st.sigs[j]
    <3>1. /\ sg \in Seq(AnyPart) /\ Len(sg) = Len(st.sigs) + 1
          /\ sg[Len(st.sigs) + 1] = part /\ \A j \in 1..Len(st.sigs) : sg[j] = st.sigs[j]
      BY <1>2, AppendProperties
    <3>2. is \in Seq(Nat) /\ Len(is) = Len(st.ids) + 1
      BY <1>2, AppendProperties
    <3> HIDE DEF sg, is, st, n
    <3>3. Len(st.sigs) + 1 = n /\ Len(st.ids) + 1 = n
      BY <1>1, <1>2, <2>2
    <3>4. QED
      BY <2>2, <3>1, <3>2, <3>3
  <2>4. \A j \in 1..n : j <= Len(sg) /\ sg[j].text = st.work[j].text
    BY <1>2, <2>3
  <2> HIDE DEF sg, is, st, q, n
  <2>5. /\ q \in StreamRec /\ Same(q, st) /\ q.at = st.at /\ q.work = st.work
        /\ q.idx = st.idx /\ q.broken = st.broken /\ q.plainOnly = st.plainOnly
        /\ q.ids = is /\ q.sigs = sg
    BY <1>1, <2>1, <2>3 DEF StreamRec, Same, Parts
  <2>6. QED
    BY <1>1, <1>2, <2>3, <2>4, <2>5 DEF st, q, n, Matched
<1>5. QED
  BY <1>3, <1>4

LEMMA FrontOf ==
  ASSUME NEW S, NEW q \in Seq(S), q # <<>>
  PROVE  /\ Front(q) \in Seq(S) /\ Len(Front(q)) = Len(q) - 1
         /\ \A j \in 1..(Len(q) - 1) : Front(q)[j] = q[j]
BY DEF Front

\* Each element of the front is the sequence's at the same place.
LEMMA FrontMembers ==
  ASSUME NEW S, NEW q \in Seq(S), q # <<>>
  PROVE  \A j \in DOMAIN Front(q) : j \in DOMAIN q /\ Front(q)[j] = q[j]
<1> DEFINE l == Front(q)
           n == Len(q)
<1>1. /\ l \in Seq(S) /\ Len(l) = n - 1
      /\ \A j \in 1..(n - 1) : l[j] = q[j]
  BY FrontOf
<1>2. DOMAIN q = 1..n /\ n \in Nat
  OBVIOUS
<1> HIDE DEF l, n
<1>3. DOMAIN l = 1..(n - 1)
  BY <1>1
<1>4. QED
  BY <1>1, <1>2, <1>3 DEF l

LEMMA TrimMoves ==
  ASSUME NEW st, Good(st), st.at = "call", st.idx > Len(st.work),
         NEW r, r = Trim(st)
  PROVE  Moves(st, r) /\ r.ids = Front(st.ids) /\ r.sigs = Front(st.sigs)
<1> DEFINE q == [st EXCEPT !.ids = Front(@), !.sigs = Front(@)]
           n == Len(st.work)
<1>1. /\ st \in StreamRec /\ InCall(st) /\ Len(st.ids) = Len(st.sigs)
  BY BusyStream DEF Tasks, Good
<1>2. /\ st.sigs \in Seq(AnyPart) /\ st.work \in Seq(AnyPart) /\ st.ids \in Seq(Nat)
      /\ n \in Nat /\ Len(st.ids) > n
      /\ \A j \in 1..n : j <= Len(st.sigs) /\ st.sigs[j].text = st.work[j].text
  BY <1>1 DEF InCall, StreamRec, Parts, Matched
<1>3. /\ Front(st.ids) \in Seq(Nat) /\ Front(st.sigs) \in Seq(AnyPart)
      /\ Len(Front(st.ids)) = Len(st.ids) - 1 /\ Len(Front(st.sigs)) = Len(st.ids) - 1
      /\ \A j \in 1..(Len(st.ids) - 1) : Front(st.sigs)[j] = st.sigs[j]
  <2>1. st.ids # <<>> /\ st.sigs # <<>>
    BY <1>1, <1>2
  <2>2. /\ Front(st.ids) \in Seq(Nat) /\ Len(Front(st.ids)) = Len(st.ids) - 1
    BY <1>2, <2>1, FrontOf
  <2>3. /\ Front(st.sigs) \in Seq(AnyPart) /\ Len(Front(st.sigs)) = Len(st.sigs) - 1
        /\ \A j \in 1..(Len(st.sigs) - 1) : Front(st.sigs)[j] = st.sigs[j]
    BY <1>2, <2>1, FrontOf
  <2>4. QED
    BY <1>1, <2>2, <2>3
<1>4. /\ q \in StreamRec /\ Same(q, st) /\ q.at = st.at /\ q.work = st.work
      /\ q.broken = st.broken /\ q.ids = Front(st.ids) /\ q.sigs = Front(st.sigs)
  BY <1>1, <1>3 DEF StreamRec, Same, Parts
<1>5. r = SyncFrom(q, n + 1)
  BY DEF Trim
<1> HIDE DEF q
<1>6. Matched(q, (n + 1) - 1) /\ n + 1 \in 1..(Len(q.work) + 1)
  <2> DEFINE m == Len(st.ids) - 1
  <2>1. m \in Nat /\ n <= m /\ Len(q.sigs) = m /\ q.work = st.work /\ (n + 1) - 1 = n
        /\ \A j \in 1..m : q.sigs[j] = st.sigs[j]
    BY <1>2, <1>3, <1>4
  <2> HIDE DEF m
  <2>2. \A j \in 1..n : j <= Len(q.sigs) /\ q.sigs[j].text = q.work[j].text
    BY <1>2, <2>1
  <2>3. QED
    BY <1>2, <2>1, <2>2 DEF Matched
<1>7. q.at = "call" /\ Len(q.ids) = Len(q.sigs)
  BY <1>3, <1>4
<1>8. Moves(st, r) /\ r.ids = q.ids /\ r.sigs = q.sigs
  BY <1>4, <1>5, <1>6, <1>7, SyncMoves
<1>9. QED
  BY <1>4, <1>8

Message == [stream : Nat, part : AnyPart, deleted : BOOLEAN, acked : BOOLEAN]

ChatOK == chat \in Seq(Message)

\* The part of a call is one of the parts of the text being synced.
LEMMA CallPart ==
  ASSUME NEW s, Good(stream[s]), OnPart(s)
  PROVE  CurrentPart(s) \in AnyPart /\ PlainPart(CurrentPart(s)) \in AnyPart
         /\ PlainPart(CurrentPart(s)).text = CurrentPart(s).text
<1>1. CurrentPart(s) \in AnyPart
  BY BusyStream DEF OnPart, Awaiting, Tasks, Good, InCall, StreamRec, Parts, CurrentPart
<1>2. QED
  BY <1>1 DEF AnyPart, PlainPart

\* What a step of a flush does to the chat, and what it notes of it.
Notes(s, r) ==
  LET st == stream[s]
      Unnoted == r.ids = st.ids /\ r.sigs = st.sigs
  IN \/ \E part \in {CurrentPart(s), PlainPart(CurrentPart(s))} :
          /\ OnPart(s) /\ ~Missing(s) /\ Show(s, part, TRUE)
          /\ r.ids = Recorded(s, part).ids /\ r.sigs = Recorded(s, part).sigs
     \/ /\ OnSurplus(s) /\ ~Missing(s) /\ DeleteLast(st.ids)
        /\ r.ids = Front(st.ids) /\ r.sigs = Front(st.sigs)
     \/ OnPart(s) /\ ~Missing(s) /\ Show(s, CurrentPart(s), FALSE) /\ Unnoted
     \/ OnSurplus(s) /\ ~Missing(s) /\ DeleteLast(st.ids) /\ Unnoted
     \/ UNCHANGED chat /\ Unnoted

LEMMA FlushingMoves ==
  ASSUME StreamsOK, ChatOK, NEW s \in DOMAIN stream, Flushing(s)
  PROVE  /\ \E r : /\ stream' = [stream EXCEPT ![s] = r] /\ Moves(stream[s], r)
                   /\ Notes(s, r)
         /\ UNCHANGED <<mode, states, caller, enqueued>>
<1> DEFINE st == stream[s]
<1>1. Good(st) /\ Len(chat) \in Nat
  BY DEF StreamsOK, ChatOK
<1>2. CASE TimerFires(s)
  <2> DEFINE r == [st EXCEPT !.timer = FALSE, !.queued = @ + 1]
  <2>1. stream' = [stream EXCEPT ![s] = r] /\ st.timer
        /\ UNCHANGED <<mode, states, chat, caller, enqueued>>
    BY <1>2, <1>1 DEF TimerFires, Good, StreamRec, StreamsOK
  <2>2. Moves(st, r) /\ r.ids = st.ids /\ r.sigs = st.sigs
    BY <1>1, <2>1, TimerMoves
  <2> HIDE DEF r
  <2>3. Notes(s, r)
    BY <2>1, <2>2 DEF Notes
  <2>4. QED
    BY <2>1, <2>2, <2>3
<1>3. CASE StartFlush(s)
  <2> DEFINE r == FlushState([st EXCEPT !.queued = @ - 1])
  <2>1. st.at = "rest" /\ st.queued > 0 /\ UNCHANGED <<mode, states, chat, caller, enqueued>>
    BY <1>3 DEF StartFlush
  <2>2. stream' = [stream EXCEPT ![s] = r]
    BY <1>3 DEF StartFlush
  <2>3. Moves(st, r) /\ r.ids = st.ids /\ r.sigs = st.sigs
    BY <1>1, <2>1, StartMoves
  <2> HIDE DEF r
  <2>4. Notes(s, r)
    BY <2>1, <2>3 DEF Notes
  <2>5. QED
    BY <2>1, <2>2, <2>3, <2>4
<1>4. CASE DelayEnds(s)
  <2> DEFINE r == FlushState(st)
  <2>1. stream' = [stream EXCEPT ![s] = r] /\ st.at = "delay"
        /\ UNCHANGED <<mode, states, chat, caller, enqueued>>
    BY <1>4 DEF DelayEnds
  <2>2. Moves(st, r) /\ r.ids = st.ids /\ r.sigs = st.sigs
    BY <1>1, <2>1, RetryMoves
  <2> HIDE DEF r
  <2>3. Notes(s, r)
    BY <2>1, <2>2 DEF Notes
  <2>4. QED
    BY <2>1, <2>2, <2>3
<1>5. CASE PartShown(s)
  <2> DEFINE q == Recorded(s, CurrentPart(s))
             r == SyncFrom(q, st.idx + 1)
  <2>1. OnPart(s) /\ ~Missing(s) /\ Show(s, CurrentPart(s), TRUE) /\ st.at = "call"
    BY <1>5 DEF PartShown, OnPart, Awaiting
  <2>2. CurrentPart(s) \in AnyPart
    BY <1>1, <2>1, CallPart
  <2>3. /\ q \in StreamRec /\ Same(q, st)
        /\ q.at = st.at /\ q.work = st.work /\ q.idx = st.idx
        /\ q.broken = st.broken /\ q.plainOnly = st.plainOnly
        /\ Len(q.ids) = Len(q.sigs) /\ Matched(q, st.idx)
        /\ st.idx \in Nat /\ st.idx + 1 \in 1..(Len(q.work) + 1)
    BY <1>1, <2>1, <2>2, RecordedKeeps
  <2>4. stream' = [stream EXCEPT ![s] = r] /\ UNCHANGED <<mode, states, caller, enqueued>>
    BY <1>5 DEF PartShown
  <2> HIDE DEF q
  <2>5. Matched(q, (st.idx + 1) - 1)
    BY <2>3
  <2>6. Moves(st, r) /\ r.ids = q.ids /\ r.sigs = q.sigs
    BY <1>1, <2>1, <2>3, <2>5, SyncMoves
  <2> HIDE DEF r
  <2>7. Notes(s, r)
    BY <2>1, <2>6 DEF Notes, q
  <2>8. QED
    BY <2>4, <2>6, <2>7
<1>6. CASE PartDegraded(s)
  <2> DEFINE part == PlainPart(CurrentPart(s))
             d == Recorded(s, part)
             q == [d EXCEPT !.plainOnly = TRUE]
             r == SyncFrom(q, st.idx + 1)
  <2>1. OnPart(s) /\ ~Missing(s) /\ Show(s, part, TRUE) /\ st.at = "call"
    BY <1>6 DEF PartDegraded, OnPart, Awaiting
  <2>2. part \in AnyPart /\ part.text = CurrentPart(s).text
    BY <1>1, <2>1, CallPart
  <2> HIDE DEF part
  <2>3. /\ d \in StreamRec /\ Same(d, st)
        /\ d.at = st.at /\ d.work = st.work /\ d.idx = st.idx
        /\ d.broken = st.broken /\ d.plainOnly = st.plainOnly
        /\ Len(d.ids) = Len(d.sigs) /\ Matched(d, st.idx)
        /\ st.idx \in Nat /\ st.idx + 1 \in 1..(Len(d.work) + 1)
    BY <1>1, <2>1, <2>2, RecordedKeeps
  <2>4. stream' = [stream EXCEPT ![s] = r] /\ UNCHANGED <<mode, states, caller, enqueued>>
    BY <1>6 DEF PartDegraded, part
  <2> HIDE DEF d
  <2>5. /\ q \in StreamRec /\ Same(q, st)
        /\ q.at = st.at /\ q.work = st.work /\ q.broken = st.broken
        /\ Len(q.ids) = Len(q.sigs) /\ Matched(q, (st.idx + 1) - 1)
        /\ st.idx + 1 \in 1..(Len(q.work) + 1)
        /\ q.ids = d.ids /\ q.sigs = d.sigs
    <3>1. /\ q \in StreamRec /\ Same(q, d) /\ q.at = d.at /\ q.work = d.work
          /\ q.broken = d.broken /\ q.ids = d.ids /\ q.sigs = d.sigs
      BY <2>3 DEF StreamRec, Same
    <3>2. Matched(q, (st.idx + 1) - 1)
      BY <2>3, <3>1 DEF Matched
    <3>3. QED
      BY <2>3, <3>1, <3>2 DEF Same
  <2> HIDE DEF q
  <2>6. Moves(st, r) /\ r.ids = q.ids /\ r.sigs = q.sigs
    BY <1>1, <2>1, <2>5, SyncMoves
  <2> HIDE DEF r
  <2>7. Notes(s, r)
    BY <2>1, <2>5, <2>6 DEF Notes, d, part
  <2>8. QED
    BY <2>4, <2>6, <2>7
<1>7. CASE SurplusDeleted(s)
  <2> DEFINE r == Trim(st)
  <2>1. OnSurplus(s) /\ ~Missing(s) /\ DeleteLast(st.ids)
        /\ st.at = "call" /\ st.idx > Len(st.work)
    BY <1>7 DEF SurplusDeleted, OnSurplus, Awaiting
  <2>2. stream' = [stream EXCEPT ![s] = r] /\ UNCHANGED <<mode, states, caller, enqueued>>
    BY <1>7 DEF SurplusDeleted
  <2>3. Moves(st, r) /\ r.ids = Front(st.ids) /\ r.sigs = Front(st.sigs)
    BY <1>1, <2>1, TrimMoves
  <2> HIDE DEF r
  <2>4. Notes(s, r)
    BY <2>1, <2>3 DEF Notes
  <2>5. QED
    BY <2>2, <2>3, <2>4
<1>8. CASE RateLimited(s)
  <2> DEFINE r == [st EXCEPT !.at = "delay"]
  <2>1. stream' = [stream EXCEPT ![s] = r] /\ st.at = "call"
        /\ UNCHANGED <<mode, states, chat, caller, enqueued>>
    BY <1>8 DEF RateLimited, Awaiting
  <2>2. Moves(st, r) /\ r.ids = st.ids /\ r.sigs = st.sigs
    BY <1>1, <2>1, LimitMoves
  <2> HIDE DEF r
  <2>3. Notes(s, r)
    BY <2>1, <2>2 DEF Notes
  <2>4. QED
    BY <2>1, <2>2, <2>3
<1>9. CASE Refused(s) \/ AnswerLost(s)
  <2> DEFINE r == Failed(st)
  <2>1. stream' = [stream EXCEPT ![s] = r] /\ st.at = "call"
        /\ UNCHANGED <<mode, states, caller, enqueued>>
    BY <1>9 DEF Refused, AnswerLost, Awaiting
  <2>2. Moves(st, r) /\ r.ids = st.ids /\ r.sigs = st.sigs
    BY <1>1, <2>1, FailureMoves
  <2>3. \/ UNCHANGED chat
        \/ OnPart(s) /\ ~Missing(s) /\ Show(s, CurrentPart(s), FALSE)
        \/ OnSurplus(s) /\ ~Missing(s) /\ DeleteLast(st.ids)
    BY <1>9 DEF Refused, AnswerLost
  <2> HIDE DEF r
  <2>4. Notes(s, r)
    BY <2>2, <2>3 DEF Notes
  <2>5. QED
    BY <2>1, <2>2, <2>4
<1>10. QED
  BY <1>2, <1>3, <1>4, <1>5, <1>6, <1>7, <1>8, <1>9 DEF Flushing

-----------------------------------------------------------------------------
(* Core is inductive.                                                        *)

LEMMA MovesKeepCore ==
  ASSUME Core, NEW s \in DOMAIN stream, NEW r, Moves(stream[s], r),
         stream' = [stream EXCEPT ![s] = r], UNCHANGED <<states, caller>>
  PROVE  Core'
<1> DEFINE st == stream[s]
<1>1. /\ StreamsOK' /\ DOMAIN stream' = DOMAIN stream /\ Len(stream') = Len(stream)
      /\ stream'[s] = r /\ \A t \in DOMAIN stream : t # s => stream'[t] = stream[t]
  BY Replaced DEF Core, Moves
<1>2. r.key = st.key /\ r.done = st.done /\ (r.timer => st.timer)
  BY DEF Moves
<1>3. \A t \in DOMAIN stream : stream'[t].key = stream[t].key
        /\ stream'[t].done = stream[t].done /\ (stream'[t].timer => stream[t].timer)
  BY <1>1, <1>2
<1>4. MapOK'
  <2>1. states' \in [Key -> 0..Len(stream')]
    BY <1>1 DEF Core, MapOK
  <2>2. \A k \in Key : states'[k] # 0 => states'[k] \in DOMAIN stream
    BY DEF Core, MapOK, StreamsOK
  <2>3. QED
    BY <1>1, <1>3, <2>1, <2>2 DEF Core, MapOK
<1>5. CallerOK'
  <2>1. CASE caller.pc \in {"cleanup", "persist"}
    <3>1. caller.s # s
      BY <2>1 DEF Core, CallerOK, Moves
    <3>2. caller.s \in DOMAIN stream /\ stream'[caller.s] = stream[caller.s]
      BY <1>1, <2>1, <3>1 DEF Core, CallerOK
    <3>3. QED
      BY <1>1, <3>2 DEF Core, CallerOK
  <2>2. CASE caller.pc \notin {"cleanup", "persist"}
    BY <1>1, <1>3, <2>2 DEF Core, CallerOK
  <2>3. QED
    BY <2>1, <2>2
<1>6. UpdatesOK'
  <2> SUFFICES ASSUME NEW t \in DOMAIN stream,
                      stream'[t].done = "open", ~stream'[t].broken
               PROVE  Covered(stream'[t]) \/ (caller.pc = "tasks" /\ caller.s = t)
    BY <1>1 DEF UpdatesOK
  <2>1. CASE t # s
    BY <1>1, <2>1 DEF Core, UpdatesOK
  <2>2. CASE t = s /\ ~(caller.pc = "tasks" /\ caller.s = s)
    <3>1. st.done = "open" /\ ~r.broken /\ stream'[t] = r
      BY <1>1, <1>2, <2>2
    <3>2. st.broken \/ Covered(st)
      BY <2>2, <3>1 DEF Core, UpdatesOK
    <3>3. ~r.cancelled
      BY <1>2, <3>1 DEF Moves, Good
    <3>4. QED
      BY <3>1, <3>2, <3>3 DEF Moves
  <2>3. QED
    BY <2>1, <2>2
<1>7. QED
  BY <1>1, <1>4, <1>5, <1>6 DEF Core

LEMMA IdleCaller ==
  /\ Idle \in [pc : {"idle", "tasks", "cleanup", "final", "persist"},
               s : Nat, ids : Seq(Nat)]
  /\ Idle.pc = "idle"
BY DEF Idle

\* complete returns with the stream as st.
LEMMA FinishKeepsCore ==
  ASSUME Core, caller.pc # "idle", NEW st \in StreamRec,
         st.key = stream[caller.s].key, ~Tasks(st),
         NEW answer \in {"streamed", "unsent"}, Finish(st, answer)
  PROVE  Core'
<1> DEFINE s == caller.s
           r == [CancelState(st) EXCEPT !.done = answer]
<1>1. s \in DOMAIN stream /\ stream[s].done = "open" /\ s # 0
      /\ \A t \in DOMAIN stream : Good(stream[t])
  BY DEF Core, CallerOK, StreamsOK
<1>2. /\ r \in StreamRec /\ r.key = st.key /\ r.cancelled /\ ~r.timer
      /\ r.done = answer /\ r.at = st.at /\ r.queued = st.queued
  BY DEF StreamRec, CancelState
<1>3. stream' = [stream EXCEPT ![s] = r]
  BY DEF Finish
<1> HIDE DEF r
<1>4. Good(r)
  BY <1>2 DEF Good, Tasks
<1>5. /\ StreamsOK' /\ DOMAIN stream' = DOMAIN stream /\ Len(stream') = Len(stream)
      /\ stream'[s] = r /\ \A t \in DOMAIN stream : t # s => stream'[t] = stream[t]
  BY <1>1, <1>3, <1>4, Replaced DEF Core
<1>6. MapOK'
  <2> DEFINE k0 == stream[s].key
  <2>1. k0 \in Key /\ states[k0] = s /\ states \in [Key -> 0..Len(stream)]
        /\ stream \in Seq(StreamRec)
    BY <1>1 DEF Core, MapOK, StreamsOK, Good, StreamRec
  <2>2. states' = [states EXCEPT ![k0] = 0]
    BY DEF Finish
  <2>3. states' \in [Key -> 0..Len(stream')]
    BY <1>5, <2>1, <2>2
  <2>4. ASSUME NEW k \in Key, states'[k] # 0
        PROVE  stream'[states'[k]].key = k /\ stream'[states'[k]].done = "open"
    <3>1. k # k0 /\ states'[k] = states[k] /\ states[k] \in DOMAIN stream
      BY <2>1, <2>2, <2>4
    <3>2. stream[states[k]].key = k /\ stream[states[k]].done = "open"
      BY <3>1, <2>4 DEF Core, MapOK
    <3>3. QED
      BY <1>5, <3>1, <3>2
  <2>5. ASSUME NEW t \in DOMAIN stream', stream'[t].done = "open"
        PROVE  states'[stream'[t].key] = t
    <3>1. t # s /\ t \in DOMAIN stream /\ stream'[t] = stream[t] /\ t # 0
      BY <1>2, <1>5, <2>1, <2>5
    <3>2. states[stream[t].key] = t /\ stream[t].key \in Key
      BY <1>1, <2>5, <3>1 DEF Core, MapOK, Good, StreamRec
    <3>3. QED
      BY <2>1, <2>2, <3>1, <3>2
  <2>6. QED
    BY <2>3, <2>4, <2>5 DEF MapOK
<1>7. caller' = Idle
  BY DEF Finish
<1>8. CallerOK'
  BY <1>7, IdleCaller DEF CallerOK
<1>9. UpdatesOK'
  <2> SUFFICES ASSUME NEW t \in DOMAIN stream,
                      stream'[t].done = "open", ~stream'[t].broken
               PROVE  Covered(stream'[t])
    BY <1>5 DEF UpdatesOK
  <2>1. t # s /\ stream'[t] = stream[t]
    BY <1>2, <1>5
  <2>2. QED
    BY <2>1 DEF Core, UpdatesOK
<1>10. QED
  BY <1>5, <1>6, <1>8, <1>9 DEF Core

\* What enqueue makes of the stream st when the text is p.
Updated(st, p) ==
  LET q == [st EXCEPT !.latest = p]
  IN IF q.broken THEN q ELSE EnsureTimer(q)

LEMMA UpdatedIsCovered ==
  ASSUME NEW st, Good(st), st.done = "open", NEW p \in Payload
  PROVE  LET r == Updated(st, p)
         IN /\ Good(r) /\ r.key = st.key /\ r.done = "open"
            /\ ~r.broken => Covered(r)
            /\ r.ids = st.ids /\ r.sigs = st.sigs
<1> DEFINE q == [st EXCEPT !.latest = p]
           n == q.queued + 1
           r == Updated(st, p)
<1>1. st \in StreamRec /\ ~st.cancelled /\ Len(st.ids) = Len(st.sigs)
  BY DEF Good
<1>2. /\ q \in StreamRec /\ q.key = st.key /\ q.done = "open" /\ ~q.cancelled
      /\ q.at = st.at /\ q.work = st.work /\ q.idx = st.idx
      /\ q.ids = st.ids /\ q.sigs = st.sigs
  BY <1>1 DEF StreamRec
<1> HIDE DEF q
<1>3. n \in Nat /\ n > 0
  BY <1>2 DEF StreamRec
<1>4. r \in {q, [q EXCEPT !.timer = TRUE], [q EXCEPT !.queued = n]}
  BY DEF Updated, EnsureTimer, q
<1> HIDE DEF n
<1>5. /\ r \in StreamRec /\ r.key = q.key /\ r.done = q.done /\ r.cancelled = q.cancelled
      /\ r.at = q.at /\ r.work = q.work /\ r.idx = q.idx
      /\ r.ids = q.ids /\ r.sigs = q.sigs
  <2> HIDE DEF r
  <2>1. QED
    BY <1>2, <1>3, <1>4 DEF StreamRec
<1>6. ~r.broken => r.timer \/ r.queued > 0
  <2>1. CASE q.broken
    BY <2>1 DEF Updated, q
  <2>2. CASE ~q.broken /\ q.timer
    BY <1>2, <2>2 DEF Updated, EnsureTimer, q
  <2>3. CASE ~q.broken /\ ~q.timer
    <3>1. r \in {[q EXCEPT !.timer = TRUE], [q EXCEPT !.queued = n]}
      BY <1>2, <2>3 DEF Updated, EnsureTimer, q, n
    <3> HIDE DEF r
    <3>2. QED
      BY <1>2, <1>3, <3>1 DEF StreamRec
  <2>4. QED
    BY <2>1, <2>2, <2>3
<1> HIDE DEF r
<1>7. Good(r)
  BY <1>1, <1>2, <1>5 DEF Good, InCall, Matched
<1>8. QED
  BY <1>2, <1>5, <1>6, <1>7 DEF r, Covered

LEMMA NewStateIsGood ==
  ASSUME NEW k \in Key, NEW p \in Payload
  PROVE  /\ Good([NewState(k) EXCEPT !.latest = p])
         /\ Updated([NewState(k) EXCEPT !.latest = p], p) = Updated(NewState(k), p)
         /\ [NewState(k) EXCEPT !.latest = p].key = k
         /\ [NewState(k) EXCEPT !.latest = p].done = "open"
         /\ [NewState(k) EXCEPT !.latest = p].ids = <<>>
         /\ [NewState(k) EXCEPT !.latest = p].sigs = <<>>
<1>1. <<>> \in Parts /\ <<>> \in Seq(Nat)
  BY DEF Parts
<1> DEFINE f == NewState(k)
           n == [f EXCEPT !.latest = p]
<1>2. f \in [key : Key, latest : {<<>>}, sigs : Parts, ids : Seq(Nat), timer : BOOLEAN,
             cancelled : BOOLEAN, broken : BOOLEAN, plainOnly : BOOLEAN, queued : Nat,
             at : {"rest", "call", "delay"}, work : Parts, idx : Nat, ok : BOOLEAN,
             done : {"open", "streamed", "unsent", "cleared"}]
  BY <1>1 DEF NewState
<1>3. /\ f.key = k /\ f.at = "rest" /\ ~f.cancelled /\ f.done = "open"
      /\ f.ids = <<>> /\ f.sigs = <<>>
  BY DEF NewState
<1> HIDE DEF f
<1>4. /\ n \in StreamRec /\ n.key = k /\ n.at = "rest" /\ ~n.cancelled /\ n.done = "open"
      /\ n.ids = <<>> /\ n.sigs = <<>>
  BY <1>2, <1>3 DEF StreamRec
<1>5. [n EXCEPT !.latest = p] = n
  BY <1>2
<1>6. Good(n)
  BY <1>4 DEF Good
<1>7. Updated(n, p) = Updated(f, p)
  BY <1>5 DEF Updated
<1>8. QED
  BY <1>4, <1>6, <1>7 DEF f

LEMMA EnqueueKeepsCore ==
  ASSUME Core, NEW k \in Key, NEW p \in Payload, Enqueue(k, p)
  PROVE  Core'
<1>1. /\ stream \in Seq(StreamRec) /\ \A t \in DOMAIN stream : Good(stream[t])
      /\ states \in [Key -> 0..Len(stream)] /\ Len(stream) \in Nat
      /\ DOMAIN stream = 1..Len(stream) /\ caller = Idle /\ caller' = Idle
  BY DEF Core, StreamsOK, MapOK, Enqueue
<1>2. CASE states[k] # 0
  <2> DEFINE s == states[k]
             r == Updated(stream[s], p)
  <2>1. s \in DOMAIN stream /\ stream[s].key = k /\ stream[s].done = "open"
    BY <1>1, <1>2 DEF Core, MapOK
  <2>2. stream' = [stream EXCEPT ![s] = r] /\ states' = states
    BY <1>1, <1>2, <2>1 DEF Enqueue, Updated
  <2>3. Good(r) /\ r.key = k /\ r.done = "open" /\ (~r.broken => Covered(r))
    BY <1>1, <2>1, UpdatedIsCovered
  <2> HIDE DEF r
  <2>4. /\ StreamsOK' /\ DOMAIN stream' = DOMAIN stream /\ Len(stream') = Len(stream)
        /\ stream'[s] = r /\ \A t \in DOMAIN stream : t # s => stream'[t] = stream[t]
    BY <2>1, <2>2, <2>3, Replaced DEF Core
  <2>5. \A t \in DOMAIN stream : stream'[t].key = stream[t].key
                                 /\ stream'[t].done = stream[t].done
    BY <2>1, <2>3, <2>4
  <2>6. MapOK'
    BY <1>1, <2>2, <2>4, <2>5 DEF Core, MapOK
  <2>7. UpdatesOK'
    BY <1>1, <2>3, <2>4, IdleCaller DEF Core, UpdatesOK
  <2>8. QED
    BY <1>1, <2>4, <2>6, <2>7, IdleCaller DEF Core, CallerOK
<1>3. CASE states[k] = 0
  <2> DEFINE s == Len(stream) + 1
             n == [NewState(k) EXCEPT !.latest = p]
             r == Updated(NewState(k), p)
  <2>1. stream' = Append(stream, r) /\ states' = [states EXCEPT ![k] = s]
    BY <1>1, <1>3 DEF Enqueue, Updated
  <2>2. /\ Good(n) /\ r = Updated(n, p) /\ n.key = k /\ n.done = "open"
    BY NewStateIsGood
  <2> HIDE DEF n, r
  <2>3. Good(r) /\ r.key = k /\ r.done = "open" /\ (~r.broken => Covered(r))
    BY <2>2, UpdatedIsCovered
  <2>4. /\ stream' \in Seq(StreamRec) /\ Len(stream') = s /\ stream'[s] = r
        /\ \A t \in DOMAIN stream : stream'[t] = stream[t]
    BY <1>1, <2>1, <2>3, AppendProperties DEF Good
  <2>5. DOMAIN stream' = 1..s /\ DOMAIN stream' = DOMAIN stream \cup {s} /\ s \notin DOMAIN stream
    BY <1>1, <2>4
  <2> HIDE DEF s
  <2>6. StreamsOK'
    BY <1>1, <2>3, <2>4, <2>5 DEF StreamsOK
  <2>7. MapOK'
    <3>1. s \in Nat /\ s > 0 /\ states' \in [Key -> 0..s] /\ states'[k] = s
          /\ \A l \in Key : l # k => states'[l] = states[l]
      BY <1>1, <2>1 DEF s
    <3>2. ASSUME NEW l \in Key, states'[l] # 0
          PROVE  stream'[states'[l]].key = l /\ stream'[states'[l]].done = "open"
      <4>1. CASE l = k
        BY <2>3, <2>4, <3>1, <4>1
      <4>2. CASE l # k
        <5>1. states[l] \in DOMAIN stream /\ states'[l] = states[l]
          BY <1>1, <3>1, <3>2, <4>2
        <5>2. QED
          BY <2>4, <3>2, <5>1 DEF Core, MapOK
      <4>3. QED
        BY <4>1, <4>2
    <3>3. ASSUME NEW t \in DOMAIN stream', stream'[t].done = "open"
          PROVE  states'[stream'[t].key] = t
      <4>1. CASE t = s
        BY <2>3, <2>4, <3>1, <4>1
      <4>2. CASE t # s
        <5>1. t \in DOMAIN stream /\ stream'[t] = stream[t] /\ t # 0
          BY <1>1, <2>4, <2>5, <4>2
        <5>2. states[stream[t].key] = t /\ stream[t].key \in Key
          BY <1>1, <3>3, <5>1 DEF Core, MapOK, Good, StreamRec
        <5>3. stream[t].key # k
          BY <1>3, <5>1, <5>2
        <5>4. QED
          BY <3>1, <5>1, <5>2, <5>3
      <4>3. QED
        BY <4>1, <4>2
    <3>4. QED
      BY <2>4, <3>1, <3>2, <3>3 DEF MapOK
  <2>8. UpdatesOK'
    <3> SUFFICES ASSUME NEW t \in DOMAIN stream',
                        stream'[t].done = "open", ~stream'[t].broken
                 PROVE  Covered(stream'[t])
      BY DEF UpdatesOK
    <3>1. CASE t = s
      BY <2>3, <2>4, <3>1
    <3>2. CASE t # s
      BY <1>1, <2>4, <2>5, <3>2, IdleCaller DEF Core, UpdatesOK
    <3>3. QED
      BY <3>1, <3>2
  <2>9. QED
    BY <1>1, <2>6, <2>7, <2>8, IdleCaller DEF Core, CallerOK
<1>4. QED
  BY <1>2, <1>3

\* A stream at which only the coordinator's call does something.
LEMMA Quiet ==
  ASSUME Core, NEW s \in DOMAIN stream, stream[s].done = "open",
         NEW r, Good(r), r.key = stream[s].key, r.done = "open",
         stream' = [stream EXCEPT ![s] = r], states' = states
  PROVE  /\ StreamsOK' /\ MapOK'
         /\ DOMAIN stream' = DOMAIN stream /\ stream'[s] = r
         /\ \A t \in DOMAIN stream : t # s => stream'[t] = stream[t]
<1>1. /\ StreamsOK' /\ DOMAIN stream' = DOMAIN stream /\ Len(stream') = Len(stream)
      /\ stream'[s] = r /\ \A t \in DOMAIN stream : t # s => stream'[t] = stream[t]
  BY Replaced DEF Core
<1>2. \A t \in DOMAIN stream : stream'[t].key = stream[t].key
                               /\ stream'[t].done = stream[t].done
  BY <1>1
<1>3. \A l \in Key : states[l] # 0 => states[l] \in DOMAIN stream
  BY DEF Core, MapOK, StreamsOK
<1>4. MapOK'
  BY <1>1, <1>2, <1>3 DEF Core, MapOK
<1>5. QED
  BY <1>1, <1>4

LEMMA CompleteKeepsCore ==
  ASSUME Core, NEW k \in Key, Complete(k)
  PROVE  Core'
<1> DEFINE s == states[k]
           st == stream[s]
           r == [st EXCEPT !.timer = FALSE]
<1>1. s \in DOMAIN stream /\ st.done = "open" /\ Good(st) /\ s \in Nat
      /\ caller = Idle
  BY DEF Core, MapOK, StreamsOK, Complete
<1>2. stream' = [stream EXCEPT ![s] = r] /\ states' = states
      /\ caller' = [pc |-> "tasks", s |-> s, ids |-> <<>>]
  BY <1>1 DEF Complete, Good, StreamRec
<1>3. /\ r \in StreamRec /\ r.key = st.key /\ r.done = "open" /\ ~r.timer
      /\ r.cancelled = st.cancelled /\ r.at = st.at /\ r.work = st.work /\ r.idx = st.idx
      /\ r.ids = st.ids /\ r.sigs = st.sigs
  BY <1>1 DEF Good, StreamRec
<1> HIDE DEF r
<1>4. Good(r)
  BY <1>1, <1>3 DEF Good, InCall, Matched
<1>5. /\ StreamsOK' /\ MapOK'
      /\ DOMAIN stream' = DOMAIN stream /\ stream'[s] = r
      /\ \A t \in DOMAIN stream : t # s => stream'[t] = stream[t]
  BY <1>1, <1>2, <1>3, <1>4, Quiet
<1>6. CallerOK'
  BY <1>1, <1>2, <1>3, <1>5 DEF CallerOK
<1>7. UpdatesOK'
  BY <1>1, <1>2, <1>5, IdleCaller DEF Core, UpdatesOK
<1>8. QED
  BY <1>5, <1>6, <1>7 DEF Core

LEMMA TasksSettledKeepsCore ==
  ASSUME Core, TasksSettled
  PROVE  Core'
<1> DEFINE s == caller.s
           st == stream[s]
<1>1. /\ caller.pc = "tasks" /\ caller.ids = <<>> /\ s \in DOMAIN stream
      /\ st.done = "open" /\ Good(st) /\ ~st.timer /\ ~Tasks(st)
      /\ st \in StreamRec
      /\ caller \in [pc : {"idle", "tasks", "cleanup", "final", "persist"},
                     s : Nat, ids : Seq(Nat)]
  BY DEF Core, CallerOK, StreamsOK, TasksSettled, Good
<1>2. CASE st.broken /\ caller' = [caller EXCEPT !.pc = "cleanup", !.ids = st.ids]
           /\ UNCHANGED <<states, stream>>
  <2>1. /\ caller' \in [pc : {"idle", "tasks", "cleanup", "final", "persist"},
                        s : Nat, ids : Seq(Nat)]
        /\ caller'.pc = "cleanup" /\ caller'.s = s
    BY <1>1, <1>2 DEF StreamRec
  <2>2. CallerOK'
    BY <1>1, <1>2, <2>1 DEF CallerOK
  <2>3. UpdatesOK'
    BY <1>1, <1>2, <2>1 DEF Core, UpdatesOK
  <2>4. QED
    BY <1>2, <2>2, <2>3 DEF Core, StreamsOK, MapOK
<1>3. CASE Finish(st, "unsent")
  BY <1>1, <1>3, FinishKeepsCore
<1>4. CASE /\ stream' = [stream EXCEPT ![s].queued = @ + 1]
           /\ caller' = [caller EXCEPT !.pc = "final"]
           /\ UNCHANGED states
  <2> DEFINE n == st.queued + 1
             r == [st EXCEPT !.queued = n]
  <2>1. n \in Nat /\ n > 0 /\ stream' = [stream EXCEPT ![s] = r]
    BY <1>1, <1>4 DEF StreamRec
  <2> HIDE DEF n
  <2>2. /\ r \in StreamRec /\ r.key = st.key /\ r.done = "open" /\ ~r.timer
        /\ r.cancelled = st.cancelled /\ r.at = st.at /\ r.queued = n
        /\ r.ids = st.ids /\ r.sigs = st.sigs
    BY <1>1, <2>1 DEF StreamRec
  <2> HIDE DEF r
  <2>3. Good(r)
    BY <1>1, <2>2 DEF Good, Tasks
  <2>4. /\ StreamsOK' /\ MapOK'
        /\ DOMAIN stream' = DOMAIN stream /\ stream'[s] = r
        /\ \A t \in DOMAIN stream : t # s => stream'[t] = stream[t]
    BY <1>1, <1>4, <2>1, <2>2, <2>3, Quiet
  <2>5. /\ caller' \in [pc : {"idle", "tasks", "cleanup", "final", "persist"},
                        s : Nat, ids : Seq(Nat)]
        /\ caller'.pc = "final" /\ caller'.s = s /\ caller'.ids = <<>>
    BY <1>1, <1>4
  <2>6. CallerOK'
    BY <1>1, <2>2, <2>4, <2>5 DEF CallerOK
  <2>7. Covered(r)
    BY <2>1, <2>2 DEF Covered
  <2>8. UpdatesOK'
    BY <2>4, <2>7 DEF Core, UpdatesOK
  <2>9. QED
    BY <2>4, <2>6, <2>8 DEF Core
<1>5. QED
  BY <1>2, <1>3, <1>4 DEF TasksSettled

LEMMA CleanupKeepsCore ==
  ASSUME Core, CleanupStep
  PROVE  Core'
<1> DEFINE s == caller.s
           st == stream[s]
           r == [st EXCEPT !.ids = <<>>, !.sigs = <<>>]
<1>1. /\ caller.pc = "cleanup" /\ s \in DOMAIN stream
      /\ st.done = "open" /\ Good(st) /\ ~st.timer /\ ~Tasks(st)
      /\ st \in StreamRec
      /\ caller \in [pc : {"idle", "tasks", "cleanup", "final", "persist"},
                     s : Nat, ids : Seq(Nat)]
  BY DEF Core, CallerOK, StreamsOK, CleanupStep, Good
<1>2. CASE /\ Len(caller.ids) > 1
           /\ caller' = [caller EXCEPT !.ids = Front(@)]
           /\ UNCHANGED <<states, stream>>
  <2>1. Front(caller.ids) \in Seq(Nat)
    BY <1>1, <1>2, FrontOf
  <2>2. /\ caller' \in [pc : {"idle", "tasks", "cleanup", "final", "persist"},
                        s : Nat, ids : Seq(Nat)]
        /\ caller'.pc = "cleanup" /\ caller'.s = s
    BY <1>1, <1>2, <2>1
  <2>3. CallerOK'
    BY <1>1, <1>2, <2>2 DEF CallerOK
  <2>4. UpdatesOK'
    BY <1>1, <1>2, <2>2 DEF Core, UpdatesOK
  <2>5. QED
    BY <1>2, <2>3, <2>4 DEF Core, StreamsOK, MapOK
<1>3. CASE Finish(r, "unsent")
  <2>1. <<>> \in Parts /\ <<>> \in Seq(Nat)
    BY DEF Parts
  <2>2. r \in StreamRec /\ r.key = st.key /\ r.queued = st.queued /\ r.at = st.at
    BY <1>1, <2>1 DEF StreamRec
  <2> HIDE DEF r
  <2>3. ~Tasks(r)
    BY <1>1, <2>2 DEF Tasks
  <2>4. QED
    BY <1>1, <1>3, <2>2, <2>3, FinishKeepsCore
<1>4. QED
  BY <1>2, <1>3 DEF CleanupStep

LEMMA FinalFlushedKeepsCore ==
  ASSUME Core, FinalFlushed
  PROVE  Core'
<1> DEFINE s == caller.s
           st == stream[s]
<1>1. /\ caller.pc = "final" /\ caller.ids = <<>> /\ s \in DOMAIN stream
      /\ st.done = "open" /\ Good(st) /\ ~st.timer /\ ~Tasks(st)
      /\ st \in StreamRec
      /\ caller \in [pc : {"idle", "tasks", "cleanup", "final", "persist"},
                     s : Nat, ids : Seq(Nat)]
  BY DEF Core, CallerOK, StreamsOK, FinalFlushed, Good
<1>2. CASE caller' = [caller EXCEPT !.pc = "persist"] /\ UNCHANGED <<states, stream>>
  <2>1. /\ caller' \in [pc : {"idle", "tasks", "cleanup", "final", "persist"},
                        s : Nat, ids : Seq(Nat)]
        /\ caller'.pc = "persist" /\ caller'.s = s /\ caller'.ids = <<>>
    BY <1>1, <1>2
  <2>2. Len(caller'.ids) < Len(Target(st))
    BY <1>1, <2>1, PartsOf DEF Parts
  <2>3. CallerOK'
    BY <1>1, <1>2, <2>1, <2>2 DEF CallerOK
  <2>4. UpdatesOK'
    BY <1>1, <1>2, <2>1 DEF Core, UpdatesOK
  <2>5. QED
    BY <1>2, <2>3, <2>4 DEF Core, StreamsOK, MapOK
<1>3. CASE Finish(st, Answer(st.ok))
  <2>1. Answer(st.ok) \in {"streamed", "unsent"}
    BY DEF Answer
  <2>2. QED
    BY <1>1, <1>3, <2>1, FinishKeepsCore
<1>4. QED
  BY <1>2, <1>3 DEF FinalFlushed

LEMMA PersistKeepsCore ==
  ASSUME Core, ChatOK, PersistPart
  PROVE  Core'
<1> DEFINE s == caller.s
           st == stream[s]
           ids == Append(caller.ids, Len(chat) + 1)
           r == [st EXCEPT !.ids = ids]
<1>1. /\ caller.pc = "persist" /\ s \in DOMAIN stream
      /\ st.done = "open" /\ Good(st) /\ ~st.timer /\ ~Tasks(st)
      /\ st \in StreamRec
      /\ caller \in [pc : {"idle", "tasks", "cleanup", "final", "persist"},
                     s : Nat, ids : Seq(Nat)]
  BY DEF Core, CallerOK, StreamsOK, PersistPart, Good
<1>2. ids \in Seq(Nat)
  BY <1>1 DEF ChatOK
<1>3. CASE /\ Len(ids) < Len(Target(st))
           /\ caller' = [caller EXCEPT !.ids = ids]
           /\ UNCHANGED <<states, stream>>
  <2> HIDE DEF ids
  <2>1. /\ caller' \in [pc : {"idle", "tasks", "cleanup", "final", "persist"},
                        s : Nat, ids : Seq(Nat)]
        /\ caller'.pc = "persist" /\ caller'.s = s /\ caller'.ids = ids
    BY <1>1, <1>2, <1>3
  <2>2. CallerOK'
    BY <1>1, <1>3, <2>1 DEF CallerOK
  <2>3. UpdatesOK'
    BY <1>1, <1>3, <2>1 DEF Core, UpdatesOK
  <2>4. QED
    BY <1>3, <2>2, <2>3 DEF Core, StreamsOK, MapOK
<1>4. CASE Finish(r, "streamed")
  <2> HIDE DEF ids
  <2>1. r \in StreamRec /\ r.key = st.key /\ r.queued = st.queued /\ r.at = st.at
    BY <1>1, <1>2 DEF StreamRec
  <2> HIDE DEF r
  <2>2. ~Tasks(r)
    BY <1>1, <2>1 DEF Tasks
  <2>3. QED
    BY <1>1, <1>4, <2>1, <2>2, FinishKeepsCore
<1>5. CASE Finish(st, "unsent")
  BY <1>1, <1>5, FinishKeepsCore
<1>6. QED
  BY <1>3, <1>4, <1>5 DEF PersistPart

LEMMA ClearKeepsCore ==
  ASSUME Core, NEW keys \in SUBSET Key, Clear(keys)
  PROVE  Core'
<1> DEFINE gone == Open(keys)
<1>1. /\ stream \in Seq(StreamRec) /\ \A t \in DOMAIN stream : Good(stream[t])
      /\ states \in [Key -> 0..Len(stream)] /\ Len(stream) \in Nat
      /\ DOMAIN stream = 1..Len(stream) /\ caller = Idle /\ caller' = Idle
  BY DEF Core, StreamsOK, MapOK, Clear
<1>2. \A t \in DOMAIN stream :
        t \in gone <=> stream[t].done = "open" /\ stream[t].key \in keys
  <2> TAKE t \in DOMAIN stream
  <2>1. ASSUME t \in gone
        PROVE  stream[t].done = "open" /\ stream[t].key \in keys
    <3>1. PICK k \in keys : states[k] = t /\ t # 0
      BY <2>1 DEF Open
    <3>2. QED
      BY <3>1 DEF Core, MapOK
  <2>2. ASSUME stream[t].done = "open", stream[t].key \in keys
        PROVE  t \in gone
    <3>1. states[stream[t].key] = t /\ t # 0
      BY <1>1, <2>2 DEF Core, MapOK
    <3>2. QED
      BY <2>2, <3>1 DEF Open
  <2>3. QED
    BY <2>1, <2>2
<1> DEFINE r(t) == [CancelState(stream[t]) EXCEPT !.done = "cleared"]
<1>3. ASSUME NEW t \in DOMAIN stream, t \in gone
      PROVE  Good(r(t)) /\ r(t).key = stream[t].key /\ r(t).done = "cleared"
  <2> DEFINE st == stream[t]
             q == r(t)
  <2>1. st \in StreamRec /\ Good(st) /\ st.done = "open"
    BY <1>1, <1>2, <1>3 DEF Good
  <2>2. /\ q \in StreamRec /\ q.key = st.key /\ q.done = "cleared" /\ q.cancelled
        /\ ~q.timer /\ q.at = st.at /\ q.work = st.work /\ q.idx = st.idx
        /\ q.ids = st.ids /\ q.sigs = st.sigs
    BY <2>1 DEF StreamRec, CancelState
  <2> HIDE DEF st, q
  <2>3. Good(q)
    BY <2>1, <2>2 DEF Good, InCall, Matched
  <2>4. QED
    BY <2>2, <2>3 DEF st, q
<1>4. stream' = [t \in DOMAIN stream |-> IF t \in gone THEN r(t) ELSE stream[t]]
      /\ states' = [k \in Key |-> IF k \in keys THEN 0 ELSE states[k]]
  BY DEF Clear
<1> HIDE DEF gone, r
<1>5. /\ DOMAIN stream' = DOMAIN stream
      /\ \A t \in DOMAIN stream : t \in gone =>
           Good(stream'[t]) /\ stream'[t].key = stream[t].key /\ stream'[t].done = "cleared"
      /\ \A t \in DOMAIN stream : t \notin gone => stream'[t] = stream[t]
  BY <1>3, <1>4
<1>6. stream' \in Seq(StreamRec) /\ Len(stream') = Len(stream)
  <2>1. \A t \in 1..Len(stream) : stream'[t] \in StreamRec
    BY <1>1, <1>5 DEF Good
  <2>2. stream' \in [1..Len(stream) -> StreamRec]
    BY <1>1, <1>4, <2>1
  <2>3. QED
    BY <1>1, <2>2
<1>7. StreamsOK'
  BY <1>1, <1>5, <1>6 DEF StreamsOK
<1>8. MapOK'
  <2>1. states' \in [Key -> 0..Len(stream')]
    BY <1>1, <1>4, <1>6
  <2>2. ASSUME NEW k \in Key, states'[k] # 0
        PROVE  stream'[states'[k]].key = k /\ stream'[states'[k]].done = "open"
    <3>1. k \notin keys /\ states'[k] = states[k] /\ states[k] \in DOMAIN stream
      BY <1>1, <1>4, <2>2
    <3>2. stream[states[k]].key = k /\ stream[states[k]].done = "open"
      BY <2>2, <3>1 DEF Core, MapOK
    <3>3. QED
      BY <1>2, <1>5, <3>1, <3>2
  <2>3. ASSUME NEW t \in DOMAIN stream', stream'[t].done = "open"
        PROVE  states'[stream'[t].key] = t
    <3>1. t \in DOMAIN stream /\ t \notin gone /\ stream'[t] = stream[t]
      BY <1>5, <2>3
    <3>2. stream[t].key \in Key /\ stream[t].key \notin keys
          /\ states[stream[t].key] = t
      BY <1>1, <1>2, <2>3, <3>1 DEF Core, MapOK, Good, StreamRec
    <3>3. QED
      BY <1>4, <3>1, <3>2
  <2>4. QED
    BY <2>1, <2>2, <2>3 DEF MapOK
<1>9. UpdatesOK'
  <2> SUFFICES ASSUME NEW t \in DOMAIN stream',
                      stream'[t].done = "open", ~stream'[t].broken
               PROVE  Covered(stream'[t])
    BY DEF UpdatesOK
  <2>1. t \in DOMAIN stream /\ stream'[t] = stream[t]
    BY <1>5
  <2>2. QED
    BY <1>1, <2>1, IdleCaller DEF Core, UpdatesOK
<1>10. QED
  BY <1>1, <1>7, <1>8, <1>9, IdleCaller DEF Core, CallerOK

-----------------------------------------------------------------------------
(* The chat.                                                                 *)

LEMMA ChangedMessage ==
  ASSUME NEW c \in Message, NEW part \in AnyPart, NEW b \in BOOLEAN
  PROVE  /\ [c EXCEPT !.part = part, !.acked = b] \in Message
         /\ [c EXCEPT !.deleted = b] \in Message
         /\ [c EXCEPT !.deleted = b].part = c.part
         /\ [c EXCEPT !.deleted = b].stream = c.stream
         /\ [c EXCEPT !.deleted = b].acked = c.acked
         /\ [c EXCEPT !.part = part, !.acked = b].stream = c.stream
BY DEF Message

LEMMA MessageReplaced ==
  ASSUME ChatOK, NEW m, NEW new, m \in DOMAIN chat => new \in Message
  PROVE  LET c == [chat EXCEPT ![m] = new]
         IN /\ c \in Seq(Message) /\ Len(c) = Len(chat) /\ DOMAIN c = DOMAIN chat
            /\ m \in DOMAIN chat => c[m] = new
            /\ \A n \in DOMAIN chat : n # m => c[n] = chat[n]
<1>1. chat \in Seq(Message)
  BY DEF ChatOK
<1>2. CASE m \in DOMAIN chat
  BY <1>1, <1>2, ExceptSeq
<1>3. CASE m \notin DOMAIN chat
  <2>1. [chat EXCEPT ![m] = new] = chat
    BY <1>1, <1>3
  <2>2. QED
    BY <1>1, <1>3, <2>1
<1>4. QED
  BY <1>2, <1>3

LEMMA ShowKeepsChat ==
  ASSUME ChatOK, NEW s \in Nat, NEW part \in AnyPart, NEW acked \in BOOLEAN,
         Show(s, part, acked)
  PROVE  ChatOK'
<1>1. CASE Draft
  BY <1>1 DEF Show, ChatOK
<1>2. CASE ~Draft /\ Editing(s)
  <2> DEFINE m == stream[s].ids[stream[s].idx]
             new == [chat[m] EXCEPT !.part = part, !.acked = acked]
  <2>1. chat' = [chat EXCEPT ![m] = new]
    BY <1>2 DEF Show
  <2>2. m \in DOMAIN chat => chat[m] \in Message
    BY DEF ChatOK
  <2>3. m \in DOMAIN chat => new \in Message
    BY <2>2, ChangedMessage
  <2> HIDE DEF m, new
  <2>4. QED
    BY <2>1, <2>3, MessageReplaced DEF ChatOK
<1>3. CASE ~Draft /\ ~Editing(s)
  <2>1. NewMessage(s, part, acked) \in Message
    BY DEF NewMessage, Message
  <2>2. QED
    BY <1>3, <2>1 DEF Show, ChatOK
<1>4. QED
  BY <1>1, <1>2, <1>3

LEMMA DeletedKeepsChat ==
  ASSUME ChatOK, NEW m, chat' = [chat EXCEPT ![m].deleted = TRUE]
  PROVE  ChatOK'
<1> DEFINE new == [chat[m] EXCEPT !.deleted = TRUE]
<1>1. chat' = [chat EXCEPT ![m] = new]
  OBVIOUS
<1>2. m \in DOMAIN chat => chat[m] \in Message
  BY DEF ChatOK
<1>3. m \in DOMAIN chat => new \in Message
  <2>1. AnyPart # {} \/ m \notin DOMAIN chat
    BY <1>2 DEF Message
  <2>2. QED
    BY <1>2, <2>1, ChangedMessage
<1> HIDE DEF new
<1>4. [chat EXCEPT ![m] = new] \in Seq(Message)
  BY <1>3, MessageReplaced
<1>5. QED
  BY <1>1, <1>4 DEF ChatOK

LEMMA FlushingKeepsChat ==
  ASSUME StreamsOK, ChatOK, NEW s \in DOMAIN stream, Flushing(s)
  PROVE  ChatOK'
<1>1. Good(stream[s]) /\ s \in Nat
  BY DEF StreamsOK
<1>2. CASE TimerFires(s) \/ StartFlush(s) \/ DelayEnds(s) \/ RateLimited(s) \/ Refused(s)
  BY <1>2 DEF TimerFires, StartFlush, DelayEnds, RateLimited, Refused, ChatOK
<1>3. CASE PartShown(s)
  BY <1>1, <1>3, CallPart, ShowKeepsChat DEF PartShown
<1>4. CASE PartDegraded(s)
  BY <1>1, <1>4, CallPart, ShowKeepsChat DEF PartDegraded
<1>5. CASE SurplusDeleted(s)
  BY <1>5, DeletedKeepsChat DEF SurplusDeleted, DeleteLast
<1>6. CASE AnswerLost(s)
  BY <1>1, <1>6, CallPart, ShowKeepsChat, DeletedKeepsChat DEF AnswerLost, DeleteLast
<1>7. QED
  BY <1>2, <1>3, <1>4, <1>5, <1>6 DEF Flushing

LEMMA PersistKeepsChat ==
  ASSUME Core, ChatOK, PersistPart
  PROVE  ChatOK'
<1> DEFINE s == caller.s
           parts == Target(stream[s])
           part == parts[Len(caller.ids) + 1]
<1>1. /\ s \in DOMAIN stream /\ stream[s] \in StreamRec /\ s \in Nat
      /\ Len(caller.ids) < Len(parts) /\ Len(caller.ids) \in Nat
  BY DEF Core, CallerOK, StreamsOK, PersistPart, Good
<1>2. part \in AnyPart
  BY <1>1, PartsOf DEF Parts
<1>3. PlainPart(part) \in AnyPart
  BY <1>2 DEF AnyPart, PlainPart
<1>4. \A acked \in BOOLEAN : NewMessage(s, part, acked) \in Message
                             /\ NewMessage(s, PlainPart(part), acked) \in Message
  BY <1>1, <1>2, <1>3 DEF NewMessage, Message
<1> HIDE DEF part
<1>5. \/ UNCHANGED chat
      \/ \E acked \in BOOLEAN : \E p \in {part, PlainPart(part)} :
           chat' = Append(chat, NewMessage(s, p, acked))
  BY DEF PersistPart, part
<1>6. QED
  BY <1>4, <1>5 DEF ChatOK

-----------------------------------------------------------------------------
CoreInv == Core /\ ChatOK

LEMMA CoreInit == StreamerInit => CoreInv
<1> SUFFICES ASSUME StreamerInit
             PROVE  CoreInv
  OBVIOUS
<1>1. StreamsOK /\ ChatOK /\ UpdatesOK
  BY DEF StreamerInit, StreamsOK, ChatOK, UpdatesOK
<1>2. MapOK
  BY DEF StreamerInit, MapOK
<1>3. CallerOK
  BY IdleCaller DEF StreamerInit, CallerOK
<1>4. QED
  BY <1>1, <1>2, <1>3 DEF CoreInv, Core

streamVars == <<mode, kept, states, stream, chat, draft, caller, enqueued>>

\* The steps of a stream, whoever takes them: the streamer's own Next or the
\* coordinator, which may also fail to post something of its own.
StreamStep ==
  \/ Background
  \/ \E k \in Key : Complete(k) \/ \E p \in Payload : Enqueue(k, p)
  \/ \E keys \in SUBSET Key : Clear(keys)
  \/ UNCHANGED streamVars

LEMMA NextIsStreamStep == [StreamerNext]_streamerVars => StreamStep
<1>1. \A sess : KeysOf(sess) \in SUBSET Key
  BY DEF KeysOf
<1>2. QED
  BY <1>1 DEF StreamerNext, StreamerRest, StreamStep, streamerVars, streamVars

LEMMA CoreStutters == CoreInv /\ UNCHANGED streamVars => CoreInv'
BY DEF CoreInv, Core, ChatOK, StreamsOK, MapOK, CallerOK, UpdatesOK, streamVars

LEMMA CoreNext == CoreInv /\ StreamStep => CoreInv'
<1> SUFFICES ASSUME CoreInv, StreamStep
             PROVE  CoreInv'
  OBVIOUS
<1>1. Core /\ ChatOK /\ StreamsOK
  BY DEF CoreInv, Core
<1>2. ASSUME NEW s \in DOMAIN stream, Flushing(s)
      PROVE  CoreInv'
  <2>1. PICK r : stream' = [stream EXCEPT ![s] = r] /\ Moves(stream[s], r)
    BY <1>1, <1>2, FlushingMoves
  <2>2. UNCHANGED <<states, caller>>
    BY <1>1, <1>2, FlushingMoves
  <2>3. QED
    BY <1>1, <1>2, <2>1, <2>2, MovesKeepCore, FlushingKeepsChat DEF CoreInv
<1>3. CASE TasksSettled
  BY <1>1, <1>3, TasksSettledKeepsCore DEF CoreInv, TasksSettled, ChatOK
<1>4. CASE CleanupStep
  <2>1. ChatOK'
    BY <1>1, <1>4, DeletedKeepsChat DEF CleanupStep, DeleteLast, ChatOK
  <2>2. QED
    BY <1>1, <1>4, <2>1, CleanupKeepsCore DEF CoreInv
<1>5. CASE FinalFlushed
  BY <1>1, <1>5, FinalFlushedKeepsCore DEF CoreInv, FinalFlushed, ChatOK
<1>6. CASE PersistPart
  BY <1>1, <1>6, PersistKeepsCore, PersistKeepsChat DEF CoreInv
<1>7. ASSUME NEW m \in DOMAIN chat, UserDeletes(m)
      PROVE  CoreInv'
  <2>1. ChatOK'
    BY <1>1, <1>7, DeletedKeepsChat DEF UserDeletes
  <2>2. Core'
    BY <1>1, <1>7 DEF UserDeletes, Core, StreamsOK, MapOK, CallerOK, UpdatesOK
  <2>3. QED
    BY <2>1, <2>2 DEF CoreInv
<1>8. ASSUME NEW k \in Key, Complete(k)
      PROVE  CoreInv'
  BY <1>1, <1>8, CompleteKeepsCore DEF CoreInv, Complete, ChatOK
<1>9. ASSUME NEW k \in Key, NEW p \in Payload, Enqueue(k, p)
      PROVE  CoreInv'
  BY <1>1, <1>9, EnqueueKeepsCore DEF CoreInv, Enqueue, ChatOK
<1>10. ASSUME NEW keys \in SUBSET Key, Clear(keys)
       PROVE  CoreInv'
  BY <1>1, <1>10, ClearKeepsCore DEF CoreInv, Clear, ChatOK
<1>11. CASE UNCHANGED streamVars
  BY <1>11, CoreStutters
<1>12. QED
  BY <1>2, <1>3, <1>4, <1>5, <1>6, <1>7, <1>8, <1>9, <1>10, <1>11
     DEF StreamStep, Background, Completing

LEMMA CoreAlways == StreamerSpec => []CoreInv
BY CoreInit, CoreNext, NextIsStreamStep, PTL DEF StreamerSpec

LEMMA InvGivesNoUpdateLost == CoreInv => NoUpdateLost
<1> SUFFICES ASSUME CoreInv, NEW s \in DOMAIN stream,
                    stream[s].done = "open", ~stream[s].broken
             PROVE  UpToDate(stream[s]) \/ UpdatePending(s)
  BY DEF NoUpdateLost
<1>1. Covered(stream[s]) \/ (caller.pc = "tasks" /\ caller.s = s)
  BY DEF CoreInv, Core, UpdatesOK
<1>2. QED
  BY <1>1 DEF Covered, Says, UpToDate, UpdatePending

\* For any texts, any number of streams, updates and failures and on both
\* transports, no text update is dropped between a flush, the timer and the
\* next flush (enqueue, ensureTimer, flushState): an open stream that is not
\* broken shows its latest text, or something is pending that will bring it
\* there.
THEOREM UpdatesAreNotLost == StreamerSpec => []NoUpdateLost
BY InvGivesNoUpdateLost, CoreAlways, PTL

-----------------------------------------------------------------------------
(* The messages of a stream, without draft streaming.                        *)

\* The list of the stream s is its own: messages of s, in the order of the
\* chat, and while s is open every message it was told of and that is there.
Owns(s) ==
  LET ids == stream[s].ids
  IN /\ Len(ids) = Len(stream[s].sigs)
     /\ \A i \in DOMAIN ids : ids[i] \in DOMAIN chat /\ chat[ids[i]].stream = s
     /\ \A i, j \in DOMAIN ids : i < j => ids[i] < ids[j]
     /\ stream[s].done = "open" => Visible(s) \subseteq Range(ids)

OwnInv ==
  /\ \A m \in DOMAIN chat : chat[m].stream \in DOMAIN stream
  /\ ~Draft => caller.pc # "persist" /\ \A s \in DOMAIN stream : Owns(s)

\* Of the messages of other streams none is changed but by being deleted,
\* and new messages are those of the stream s.
Touches(s) ==
  /\ DOMAIN chat \subseteq DOMAIN chat'
  /\ \A m \in DOMAIN chat : chat'[m].stream = chat[m].stream
  /\ \A m \in DOMAIN chat : chat[m].stream # s =>
       /\ chat'[m].part = chat[m].part /\ chat'[m].acked = chat[m].acked
       /\ chat[m].deleted => chat'[m].deleted
  /\ \A m \in DOMAIN chat' : m \notin DOMAIN chat => chat'[m].stream = s

LEMMA OthersKeepTheirs ==
  ASSUME NEW s, Touches(s), NEW t \in DOMAIN stream, t # s, Owns(t),
         stream'[t].ids = stream[t].ids, stream'[t].sigs = stream[t].sigs,
         stream'[t].done = "open" => stream[t].done = "open"
  PROVE  Owns(t)'
BY DEF Touches, Owns, Visible, Range

\* The list stays as it is, and so do the messages that s must know of.
LEMMA SameList ==
  ASSUME NEW s \in DOMAIN stream, Touches(s), Owns(s),
         stream'[s].ids = stream[s].ids, stream'[s].sigs = stream[s].sigs,
         stream'[s].done = "open" => stream[s].done = "open",
         \A m \in DOMAIN chat' :
           chat'[m].stream = s /\ chat'[m].acked /\ ~chat'[m].deleted =>
             m \in Visible(s) \cup Range(stream[s].ids)
  PROVE  Owns(s)'
BY DEF Touches, Owns, Visible

\* An edit of a message of s.
LEMMA EditTouches ==
  ASSUME ChatOK, NEW m \in DOMAIN chat, NEW s, chat[m].stream = s,
         NEW part \in AnyPart, NEW acked \in BOOLEAN,
         chat' = [chat EXCEPT ![m] = [@ EXCEPT !.part = part, !.acked = acked]]
  PROVE  /\ Touches(s) /\ DOMAIN chat' = DOMAIN chat
         /\ \A n \in DOMAIN chat : n # m => chat'[n] = chat[n]
<1> DEFINE new == [chat[m] EXCEPT !.part = part, !.acked = acked]
<1>1. chat[m] \in Message
  BY DEF ChatOK
<1>2. new \in Message /\ new.stream = s
  BY <1>1, ChangedMessage
<1>3. chat' = [chat EXCEPT ![m] = new]
  OBVIOUS
<1> HIDE DEF new
<1>4. /\ DOMAIN chat' = DOMAIN chat /\ chat'[m] = new
      /\ \A n \in DOMAIN chat : n # m => chat'[n] = chat[n]
  BY <1>2, <1>3, MessageReplaced
<1>5. QED
  BY <1>2, <1>4 DEF Touches

\* A deletion touches no stream's messages but to delete one.
LEMMA DeletionTouches ==
  ASSUME ChatOK, NEW m, chat' = [chat EXCEPT ![m].deleted = TRUE], NEW s
  PROVE  /\ Touches(s) /\ DOMAIN chat' = DOMAIN chat
         /\ \A n \in DOMAIN chat : n # m => chat'[n] = chat[n]
         /\ \A n \in DOMAIN chat :
              /\ chat'[n].stream = chat[n].stream /\ chat'[n].part = chat[n].part
              /\ chat'[n].acked = chat[n].acked
              /\ chat[n].deleted => chat'[n].deleted
         /\ m \in DOMAIN chat => chat'[m].deleted
<1> DEFINE new == [chat[m] EXCEPT !.deleted = TRUE]
<1>1. CASE m \in DOMAIN chat
  <2>1. chat[m] \in Message
    BY <1>1 DEF ChatOK
  <2>2. chat[m].part \in AnyPart
    BY <2>1 DEF Message
  <2>3. /\ new \in Message /\ new.stream = chat[m].stream /\ new.part = chat[m].part
        /\ new.acked = chat[m].acked
    BY <2>1, <2>2, ChangedMessage
  <2>4. new.deleted
    BY <2>1 DEF Message
  <2>5. chat' = [chat EXCEPT ![m] = new]
    OBVIOUS
  <2> HIDE DEF new
  <2>6. /\ DOMAIN chat' = DOMAIN chat /\ chat'[m] = new
        /\ \A n \in DOMAIN chat : n # m => chat'[n] = chat[n]
    BY <1>1, <2>3, <2>5, MessageReplaced
  <2>7. QED
    BY <2>3, <2>4, <2>6 DEF Touches
<1>2. CASE m \notin DOMAIN chat
  <2>1. chat' = chat
    BY <1>2 DEF ChatOK
  <2>2. QED
    BY <1>2, <2>1 DEF Touches
<1>3. QED
  BY <1>1, <1>2

LEMMA AdditionTouches ==
  ASSUME ChatOK, NEW s \in Nat, NEW part \in AnyPart, NEW acked \in BOOLEAN,
         chat' = Append(chat, NewMessage(s, part, acked))
  PROVE  /\ Touches(s) /\ DOMAIN chat' = DOMAIN chat \cup {Len(chat) + 1}
         /\ Len(chat) + 1 \notin DOMAIN chat /\ Len(chat) \in Nat
         /\ \A n \in DOMAIN chat : chat'[n] = chat[n]
         /\ chat'[Len(chat) + 1].stream = s /\ chat'[Len(chat) + 1].acked = acked
         /\ chat'[Len(chat) + 1].part = part
<1> DEFINE new == NewMessage(s, part, acked)
<1>1. new \in Message /\ new.stream = s /\ new.acked = acked /\ new.part = part
  BY DEF NewMessage, Message
<1> HIDE DEF new
<1>2. chat \in Seq(Message) /\ chat' = Append(chat, new)
  BY DEF ChatOK, new
<1>3. /\ Len(chat') = Len(chat) + 1 /\ chat' \in Seq(Message)
      /\ chat'[Len(chat) + 1] = new /\ \A n \in 1..Len(chat) : chat'[n] = chat[n]
  BY <1>1, <1>2, AppendProperties
<1>4. DOMAIN chat = 1..Len(chat) /\ DOMAIN chat' = 1..(Len(chat) + 1) /\ Len(chat) \in Nat
  BY <1>2, <1>3
<1>5. DOMAIN chat' = DOMAIN chat \cup {Len(chat) + 1} /\ Len(chat) + 1 \notin DOMAIN chat
  BY <1>4
<1>6. QED
  BY <1>1, <1>3, <1>4, <1>5 DEF Touches

\* A part shown by a flush of s, and recorded or not.
LEMMA ShownIsOwned ==
  ASSUME ChatOK, StreamsOK, ~Draft, NEW s \in DOMAIN stream, Owns(s), OnPart(s),
         NEW part \in AnyPart, NEW acked \in BOOLEAN, Show(s, part, acked),
         stream'[s].done = stream[s].done,
         \/ /\ stream'[s].ids = Recorded(s, part).ids
            /\ stream'[s].sigs = Recorded(s, part).sigs
         \/ ~acked /\ stream'[s].ids = stream[s].ids /\ stream'[s].sigs = stream[s].sigs
  PROVE  Touches(s) /\ Owns(s)'
<1> DEFINE st == stream[s]
           ids == st.ids
           n == st.idx
           m == ids[n]
           new == Len(chat) + 1
<1>1. /\ st \in StreamRec /\ st.at = "call" /\ InCall(st) /\ s \in Nat
      /\ Len(st.ids) = Len(st.sigs) /\ Good(st)
  BY DEF StreamsOK, Owns, OnPart, Awaiting, Good
<1>2. ids \in Seq(Nat) /\ st.sigs \in Seq(AnyPart) /\ n \in Nat /\ n >= 1
  BY <1>1 DEF StreamRec, InCall, Parts
<1>3. CASE Editing(s)
  <2>1. n \in DOMAIN ids /\ m \in Range(ids) /\ m \in DOMAIN chat /\ chat[m].stream = s
    BY <1>2, <1>3 DEF Editing, Owns, Range
  <2>2. chat' = [chat EXCEPT ![m] = [@ EXCEPT !.part = part, !.acked = acked]]
    BY <1>3 DEF Show
  <2>3. /\ Touches(s) /\ DOMAIN chat' = DOMAIN chat
        /\ \A k \in DOMAIN chat : k # m => chat'[k] = chat[k]
    BY <2>1, <2>2, EditTouches
  <2>4. stream'[s].ids = ids /\ Len(stream'[s].sigs) = Len(st.sigs)
    <3>1. Recorded(s, part) = [st EXCEPT !.sigs[n] = part]
      BY <1>3 DEF Recorded
    <3>2. Recorded(s, part).ids = ids /\ Recorded(s, part).sigs = [st.sigs EXCEPT ![n] = part]
      BY <1>1, <3>1 DEF StreamRec
    <3>3. Len([st.sigs EXCEPT ![n] = part]) = Len(st.sigs)
      BY <1>2
    <3>4. QED
      BY <3>2, <3>3
  <2>5. QED
    BY <2>1, <2>3, <2>4 DEF Owns, Visible, Touches
<1>4. CASE ~Editing(s)
  <2>1. chat' = Append(chat, NewMessage(s, part, acked))
    BY <1>4 DEF Show
  <2>2. /\ Touches(s) /\ DOMAIN chat' = DOMAIN chat \cup {new}
        /\ new \notin DOMAIN chat /\ Len(chat) \in Nat
        /\ \A k \in DOMAIN chat : chat'[k] = chat[k]
        /\ chat'[new].stream = s /\ chat'[new].acked = acked
        /\ chat'[new].part = part
    BY <1>1, <2>1, AdditionTouches
  <2>3. CASE ~acked /\ stream'[s].ids = ids /\ stream'[s].sigs = st.sigs
    BY <2>2, <2>3 DEF Owns, Visible
  <2>4. CASE /\ stream'[s].ids = Recorded(s, part).ids
             /\ stream'[s].sigs = Recorded(s, part).sigs
    <3> DEFINE l == Append(ids, new)
               p == Append(st.sigs, part)
    <3>1. Recorded(s, part) = [st EXCEPT !.ids = Append(@, new), !.sigs = Append(@, part)]
      BY <1>4 DEF Recorded
    <3>2. stream'[s].ids = l /\ stream'[s].sigs = p
      BY <1>1, <2>4, <3>1 DEF StreamRec
    <3>3. /\ l \in Seq(Nat) /\ Len(l) = Len(ids) + 1 /\ Len(p) = Len(st.sigs) + 1
          /\ l[Len(ids) + 1] = new /\ \A i \in 1..Len(ids) : l[i] = ids[i]
      BY <1>2, <2>2, AppendProperties
    <3>4. DOMAIN l = DOMAIN ids \cup {Len(ids) + 1} /\ DOMAIN ids = 1..Len(ids)
          /\ Len(ids) \in Nat
      BY <1>2, <3>3
    <3> HIDE DEF l, p
    <3>5. Len(stream'[s].ids) = Len(stream'[s].sigs)
      BY <1>1, <3>2, <3>3
    <3>6. \A i \in DOMAIN l : l[i] \in DOMAIN chat' /\ chat'[l[i]].stream = s
      BY <2>2, <3>3, <3>4 DEF Owns
    <3>7. \A i, j \in DOMAIN l : i < j => l[i] < l[j]
      <4> SUFFICES ASSUME NEW i \in DOMAIN l, NEW j \in DOMAIN l, i < j
                   PROVE  l[i] < l[j]
        OBVIOUS
      <4>1. i \in DOMAIN ids /\ l[i] = ids[i] /\ ids[i] \in DOMAIN chat
        BY <3>3, <3>4 DEF Owns
      <4>2. CASE j \in DOMAIN ids
        BY <3>3, <3>4, <4>1, <4>2 DEF Owns
      <4>3. CASE j = Len(ids) + 1
        BY <3>3, <4>1, <4>3, <2>2 DEF ChatOK
      <4>4. QED
        BY <3>4, <4>2, <4>3
    <3>8. st.done = "open" => Visible(s)' \subseteq Range(l)
      <4>1. Range(ids) \cup {new} \subseteq Range(l)
        BY <3>3, <3>4 DEF Range
      <4>2. st.done = "open" => Visible(s)' \subseteq Range(ids) \cup {new}
        BY <2>2 DEF Owns, Visible
      <4>3. QED
        BY <4>1, <4>2
    <3>9. QED
      BY <2>2, <3>2, <3>5, <3>6, <3>7, <3>8 DEF Owns
  <2>5. QED
    BY <2>2, <2>3, <2>4
<1>5. QED
  BY <1>3, <1>4

\* A surplus message deleted by a flush of s, and forgotten or not.
LEMMA DeletedIsOwned ==
  ASSUME ChatOK, StreamsOK, NEW s \in DOMAIN stream, Owns(s), OnSurplus(s),
         DeleteLast(stream[s].ids),
         stream'[s].done = stream[s].done,
         \/ /\ stream'[s].ids = Front(stream[s].ids)
            /\ stream'[s].sigs = Front(stream[s].sigs)
         \/ stream'[s].ids = stream[s].ids /\ stream'[s].sigs = stream[s].sigs
  PROVE  Touches(s) /\ Owns(s)'
<1> DEFINE st == stream[s]
           ids == st.ids
           last == Last(ids)
           l == Front(ids)
           n == Len(ids)
<1>1. /\ st \in StreamRec /\ InCall(st) /\ Len(st.ids) = Len(st.sigs)
  BY DEF StreamsOK, Owns, OnSurplus, Awaiting, Good
<1>2. /\ ids \in Seq(Nat) /\ st.sigs \in Seq(AnyPart) /\ n \in Nat /\ n > 0
      /\ DOMAIN ids = 1..n
  BY <1>1 DEF StreamRec, InCall, Parts, OnSurplus
<1>3. /\ l \in Seq(Nat) /\ Len(l) = n - 1 /\ \A i \in 1..(n - 1) : l[i] = ids[i]
  <2>1. ids # <<>>
    BY <1>2
  <2>2. QED
    BY <1>2, <2>1, FrontOf
<1>4. Len(Front(st.sigs)) = n - 1
  <2>1. st.sigs # <<>>
    BY <1>1, <1>2
  <2>2. QED
    BY <1>1, <1>2, <2>1, FrontOf
<1>5. last = ids[n] /\ n \in DOMAIN ids /\ last \in DOMAIN chat /\ chat[last].stream = s
  BY <1>2 DEF Last, Owns
<1>6. /\ Touches(s) /\ DOMAIN chat' = DOMAIN chat
      /\ \A k \in DOMAIN chat :
           /\ chat'[k].stream = chat[k].stream /\ chat'[k].part = chat[k].part
           /\ chat'[k].acked = chat[k].acked
           /\ chat[k].deleted => chat'[k].deleted
      /\ chat'[last].deleted
  <2>1. chat' = [chat EXCEPT ![last].deleted = TRUE]
    BY DEF DeleteLast
  <2> HIDE DEF last
  <2>2. QED
    BY <1>5, <2>1, DeletionTouches
<1>7. CASE stream'[s].ids = ids /\ stream'[s].sigs = st.sigs
  BY <1>6, <1>7 DEF Owns, Visible
<1>8. CASE stream'[s].ids = l /\ stream'[s].sigs = Front(st.sigs)
  <2> HIDE DEF l, last
  <2>1. DOMAIN l = 1..(n - 1) /\ DOMAIN l \subseteq DOMAIN ids
    BY <1>2, <1>3
  <2>2. \A i \in DOMAIN l : l[i] \in DOMAIN chat' /\ chat'[l[i]].stream = s
    <3> TAKE i \in DOMAIN l
    <3>1. i \in DOMAIN ids /\ l[i] = ids[i]
      BY <1>3, <2>1
    <3>2. ids[i] \in DOMAIN chat /\ chat[ids[i]].stream = s
      BY <3>1 DEF Owns
    <3>3. QED
      BY <1>6, <3>1, <3>2
  <2>3. \A i, j \in DOMAIN l : i < j => l[i] < l[j]
    BY <1>3, <2>1 DEF Owns
  <2>4. Visible(s)' \subseteq Visible(s) \ {last}
    BY <1>6 DEF Visible
  <2>5. Range(ids) \subseteq Range(l) \cup {last}
    <3> SUFFICES ASSUME NEW i \in DOMAIN ids, i # n
                 PROVE  \E j \in DOMAIN l : l[j] = ids[i]
      BY <1>5 DEF Range
    <3> HIDE DEF ids, n
    <3>1. DOMAIN ids = 1..n /\ n \in Nat
      BY <1>2
    <3>2. i \in 1..(n - 1)
      BY <3>1
    <3>3. i \in DOMAIN l /\ l[i] = ids[i]
      BY <1>3, <2>1, <3>2
    <3>4. QED
      BY <3>3
  <2>6. st.done = "open" => Visible(s)' \subseteq Range(l)
    BY <2>4, <2>5 DEF Owns
  <2>7. QED
    BY <1>3, <1>4, <1>6, <1>8, <2>2, <2>3, <2>6 DEF Owns
<1>9. QED
  BY <1>6, <1>7, <1>8

LEMMA UnchangedTouches == ASSUME NEW s, UNCHANGED chat PROVE Touches(s)
BY DEF Touches

LEMMA FlushingTouches ==
  ASSUME CoreInv, OwnInv, NEW s \in DOMAIN stream, Flushing(s)
  PROVE  /\ Touches(s) /\ (~Draft => Owns(s)')
         /\ UNCHANGED chat \/ stream[s].at = "call"
<1> DEFINE st == stream[s]
<1>1. StreamsOK /\ ChatOK /\ Good(st) /\ s \in Nat
  BY DEF CoreInv, Core, StreamsOK
<1>2. PICK r : /\ stream' = [stream EXCEPT ![s] = r] /\ Moves(st, r)
               /\ Notes(s, r)
  BY <1>1, FlushingMoves
<1>3. stream'[s] = r /\ r.done = st.done
  BY <1>1, <1>2 DEF StreamsOK, Moves
<1>4. CASE Draft
  <2>1. OnSurplus(s) => Missing(s)
    BY <1>4 DEF Missing
  <2>2. UNCHANGED chat
    BY <1>2, <1>4, <2>1 DEF Notes, Show
  <2>3. QED
    BY <1>4, <2>2, UnchangedTouches
<1>5. CASE ~Draft /\ UNCHANGED chat /\ r.ids = st.ids /\ r.sigs = st.sigs
  BY <1>3, <1>5, UnchangedTouches DEF OwnInv, Owns, Visible
<1>6. CASE ~Draft /\ OnPart(s) /\ \E part \in {CurrentPart(s), PlainPart(CurrentPart(s))} :
             /\ Show(s, part, TRUE)
             /\ r.ids = Recorded(s, part).ids /\ r.sigs = Recorded(s, part).sigs
  <2>1. PICK part \in {CurrentPart(s), PlainPart(CurrentPart(s))} :
             /\ Show(s, part, TRUE)
             /\ r.ids = Recorded(s, part).ids /\ r.sigs = Recorded(s, part).sigs
    BY <1>6
  <2>2. part \in AnyPart
    BY <1>1, <1>6, CallPart
  <2>3. QED
    BY <1>1, <1>3, <1>6, <2>1, <2>2, ShownIsOwned DEF OwnInv, OnPart, Awaiting
<1>7. CASE ~Draft /\ OnPart(s) /\ Show(s, CurrentPart(s), FALSE)
           /\ r.ids = st.ids /\ r.sigs = st.sigs
  BY <1>1, <1>3, <1>7, CallPart, ShownIsOwned DEF OwnInv, OnPart, Awaiting
<1>8. CASE /\ ~Draft /\ OnSurplus(s) /\ DeleteLast(st.ids)
           /\ \/ r.ids = Front(st.ids) /\ r.sigs = Front(st.sigs)
              \/ r.ids = st.ids /\ r.sigs = st.sigs
  BY <1>1, <1>3, <1>8, DeletedIsOwned DEF OwnInv, OnSurplus, Awaiting
<1>9. QED
  BY <1>2, <1>4, <1>5, <1>6, <1>7, <1>8 DEF Notes

\* Nothing happens to the chat but a deletion, and no stream's list changes
\* while it is open.
LEMMA DeletionKeepsOwn ==
  ASSUME CoreInv, OwnInv, mode' = mode,
         UNCHANGED chat \/ \E m : chat' = [chat EXCEPT ![m].deleted = TRUE],
         DOMAIN stream \subseteq DOMAIN stream', caller'.pc # "persist" \/ Draft,
         ~Draft => \A t \in DOMAIN stream' :
           \/ t \in DOMAIN stream /\ (stream'[t].done = "open" => stream[t].done = "open")
              /\ stream'[t].ids = stream[t].ids /\ stream'[t].sigs = stream[t].sigs
           \/ stream'[t].ids = <<>> /\ stream'[t].sigs = <<>>
              /\ (stream'[t].done = "open" => t \notin DOMAIN stream)
  PROVE  OwnInv'
<1>1. ChatOK
  BY DEF CoreInv
<1>2. /\ DOMAIN chat' = DOMAIN chat
      /\ \A n \in DOMAIN chat :
           /\ chat'[n].stream = chat[n].stream /\ chat'[n].acked = chat[n].acked
           /\ chat[n].deleted => chat'[n].deleted
  BY <1>1, DeletionTouches
<1>3. \A m \in DOMAIN chat' : chat'[m].stream \in DOMAIN stream'
  BY <1>2 DEF OwnInv
<1>4. ASSUME ~Draft, NEW t \in DOMAIN stream'
      PROVE  Owns(t)'
  <2>1. CASE t \in DOMAIN stream /\ stream'[t].ids = stream[t].ids
             /\ stream'[t].sigs = stream[t].sigs
             /\ (stream'[t].done = "open" => stream[t].done = "open")
    BY <1>2, <1>4, <2>1 DEF OwnInv, Owns, Visible
  <2>2. CASE stream'[t].ids = <<>> /\ stream'[t].sigs = <<>>
             /\ (stream'[t].done = "open" => t \notin DOMAIN stream)
    <3>1. stream'[t].done = "open" => Visible(t)' = {}
      BY <1>2, <2>2 DEF OwnInv, Visible
    <3>2. QED
      BY <2>2, <3>1 DEF Owns
  <2>3. QED
    BY <1>4, <2>1, <2>2
<1>5. QED
  BY <1>3, <1>4 DEF OwnInv, Draft

\* complete returns with a stream whose list is the one it had, or is empty.
LEMMA FinishKeepsOwn ==
  ASSUME CoreInv, OwnInv, caller.pc # "idle", mode' = mode,
         UNCHANGED chat \/ \E m : chat' = [chat EXCEPT ![m].deleted = TRUE],
         NEW st \in StreamRec, NEW answer \in {"streamed", "unsent"}, Finish(st, answer),
         \/ st.ids = stream[caller.s].ids /\ st.sigs = stream[caller.s].sigs
         \/ st.ids = <<>> /\ st.sigs = <<>>
  PROVE  OwnInv'
<1> DEFINE s == caller.s
           r == [CancelState(st) EXCEPT !.done = answer]
<1>1. /\ r.done = answer /\ r.ids = st.ids /\ r.sigs = st.sigs
  BY DEF StreamRec, CancelState
<1>2. stream' = [stream EXCEPT ![s] = r] /\ caller' = Idle
  BY DEF Finish
<1>3. s \in DOMAIN stream /\ stream \in Seq(StreamRec)
  BY DEF CoreInv, Core, CallerOK, StreamsOK
<1> HIDE DEF r
<1>4. /\ DOMAIN stream' = DOMAIN stream /\ stream'[s] = r
      /\ \A t \in DOMAIN stream : t # s => stream'[t] = stream[t]
  BY <1>2, <1>3
<1>5. \A t \in DOMAIN stream' :
        \/ t \in DOMAIN stream /\ (stream'[t].done = "open" => stream[t].done = "open")
           /\ stream'[t].ids = stream[t].ids /\ stream'[t].sigs = stream[t].sigs
        \/ stream'[t].ids = <<>> /\ stream'[t].sigs = <<>>
           /\ (stream'[t].done = "open" => t \notin DOMAIN stream)
  BY <1>1, <1>4
<1>6. QED
  BY <1>2, <1>4, <1>5, IdleCaller, DeletionKeepsOwn

\* The lists stay as they are, and so does who is open.
LEMMA QuietKeepsOwn ==
  ASSUME CoreInv, OwnInv, mode' = mode, caller'.pc # "persist" \/ Draft,
         UNCHANGED chat \/ \E m : chat' = [chat EXCEPT ![m].deleted = TRUE],
         DOMAIN stream' = DOMAIN stream,
         \A t \in DOMAIN stream :
           /\ stream'[t].done = "open" => stream[t].done = "open"
           /\ stream'[t].ids = stream[t].ids /\ stream'[t].sigs = stream[t].sigs
  PROVE  OwnInv'
BY DeletionKeepsOwn

LEMMA FlushingKeepsOwn ==
  ASSUME CoreInv, OwnInv, NEW s \in DOMAIN stream, Flushing(s)
  PROVE  OwnInv'
<1>1. PICK r : stream' = [stream EXCEPT ![s] = r] /\ Moves(stream[s], r)
  BY FlushingMoves DEF CoreInv, Core
<1>2. UNCHANGED <<mode, caller>>
  BY FlushingMoves DEF CoreInv, Core
<1>3. /\ DOMAIN stream' = DOMAIN stream
      /\ \A t \in DOMAIN stream : t # s => stream'[t] = stream[t]
  BY <1>1 DEF CoreInv, Core, StreamsOK
<1>4. Touches(s) /\ (~Draft => Owns(s)')
  BY FlushingTouches
<1>5. \A m \in DOMAIN chat' : chat'[m].stream \in DOMAIN stream'
  BY <1>3, <1>4 DEF OwnInv, Touches
<1>6. ASSUME ~Draft, NEW t \in DOMAIN stream
      PROVE  Owns(t)'
  <2>1. CASE t = s
    BY <1>4, <1>6, <2>1
  <2>2. CASE t # s
    BY <1>3, <1>4, <1>6, <2>2, OthersKeepTheirs DEF OwnInv
  <2>3. QED
    BY <2>1, <2>2
<1>7. QED
  BY <1>2, <1>3, <1>5, <1>6 DEF OwnInv, Draft

LEMMA EnqueueKeepsOwn ==
  ASSUME CoreInv, OwnInv, NEW k \in Key, NEW p \in Payload, Enqueue(k, p)
  PROVE  OwnInv'
<1>1. /\ stream \in Seq(StreamRec) /\ \A t \in DOMAIN stream : Good(stream[t])
      /\ states \in [Key -> 0..Len(stream)] /\ caller = Idle
      /\ UNCHANGED <<mode, chat, caller>>
  BY DEF CoreInv, Core, StreamsOK, MapOK, Enqueue
<1>2. CASE states[k] # 0
  <2> DEFINE s == states[k]
             r == Updated(stream[s], p)
  <2>1. s \in DOMAIN stream /\ stream[s].done = "open"
    BY <1>1, <1>2 DEF CoreInv, Core, MapOK
  <2>2. stream' = [stream EXCEPT ![s] = r]
    BY <1>1, <1>2, <2>1 DEF Enqueue, Updated
  <2>3. r.ids = stream[s].ids /\ r.sigs = stream[s].sigs
    BY <1>1, <2>1, UpdatedIsCovered
  <2> HIDE DEF r
  <2>4. /\ DOMAIN stream' = DOMAIN stream /\ stream'[s] = r
        /\ \A t \in DOMAIN stream : t # s => stream'[t] = stream[t]
    BY <1>1, <2>1, <2>2
  <2>5. QED
    BY <1>1, <2>1, <2>3, <2>4, IdleCaller, QuietKeepsOwn
<1>3. CASE states[k] = 0
  <2> DEFINE s == Len(stream) + 1
             n == [NewState(k) EXCEPT !.latest = p]
             r == Updated(NewState(k), p)
  <2>1. stream' = Append(stream, r)
    BY <1>1, <1>3 DEF Enqueue, Updated
  <2>2. Good(n) /\ r = Updated(n, p) /\ n.done = "open" /\ n.ids = <<>> /\ n.sigs = <<>>
    BY NewStateIsGood
  <2> HIDE DEF n, r
  <2>3. Good(r) /\ r.ids = <<>> /\ r.sigs = <<>>
    BY <2>2, UpdatedIsCovered
  <2>4. /\ stream' \in Seq(StreamRec) /\ Len(stream') = s /\ stream'[s] = r
        /\ \A t \in DOMAIN stream : stream'[t] = stream[t]
    BY <1>1, <2>1, <2>3, AppendProperties DEF Good
  <2>5. DOMAIN stream' = DOMAIN stream \cup {s} /\ s \notin DOMAIN stream
    BY <1>1, <2>4
  <2> HIDE DEF s
  <2>6. QED
    BY <1>1, <2>3, <2>4, <2>5, IdleCaller, DeletionKeepsOwn
<1>4. QED
  BY <1>2, <1>3

LEMMA CallerStream ==
  ASSUME CoreInv, caller.pc # "idle"
  PROVE  /\ caller.s \in DOMAIN stream /\ stream[caller.s] \in StreamRec
         /\ stream[caller.s].done = "open" /\ caller.s \in Nat
         /\ ~stream[caller.s].cancelled
BY DEF CoreInv, Core, CallerOK, StreamsOK, Good

LEMMA CompletingKeepsOwn ==
  ASSUME CoreInv, OwnInv, Completing
  PROVE  OwnInv'
<1> DEFINE s == caller.s
           st == stream[s]
<1>1. caller.pc # "idle" /\ mode' = mode
  BY DEF Completing, TasksSettled, CleanupStep, FinalFlushed, PersistPart
<1>2. s \in DOMAIN stream /\ st \in StreamRec /\ st.done = "open" /\ s \in Nat
  BY <1>1, CallerStream
<1>3. CASE TasksSettled
  <2>1. UNCHANGED chat
    BY <1>3 DEF TasksSettled
  <2>2. CASE caller' = [caller EXCEPT !.pc = "cleanup", !.ids = st.ids]
             /\ UNCHANGED <<states, stream>>
    BY <1>1, <2>1, <2>2, QuietKeepsOwn DEF CoreInv, Core, CallerOK
  <2>3. CASE Finish(st, "unsent")
    BY <1>1, <1>2, <2>1, <2>3, FinishKeepsOwn
  <2>4. CASE /\ stream' = [stream EXCEPT ![s].queued = @ + 1]
             /\ caller' = [caller EXCEPT !.pc = "final"]
    <3>1. caller'.pc = "final"
      BY <2>4 DEF CoreInv, Core, CallerOK
    <3>2. DOMAIN stream' = DOMAIN stream /\ \A t \in DOMAIN stream :
            /\ stream'[t].done = stream[t].done
            /\ stream'[t].ids = stream[t].ids /\ stream'[t].sigs = stream[t].sigs
      BY <1>2, <2>4 DEF StreamRec
    <3>3. QED
      BY <1>1, <2>1, <3>1, <3>2, QuietKeepsOwn
  <2>5. QED
    BY <1>3, <2>2, <2>3, <2>4 DEF TasksSettled
<1>4. CASE CleanupStep
  <2>1. UNCHANGED chat \/ \E m : chat' = [chat EXCEPT ![m].deleted = TRUE]
    BY <1>4 DEF CleanupStep, DeleteLast
  <2>2. CASE caller' = [caller EXCEPT !.ids = Front(@)] /\ UNCHANGED stream
    <3>1. caller'.pc = "cleanup"
      BY <1>4, <2>2 DEF CleanupStep, CoreInv, Core, CallerOK
    <3>2. QED
      BY <1>1, <2>1, <2>2, <3>1, QuietKeepsOwn
  <2>3. CASE Finish([st EXCEPT !.ids = <<>>, !.sigs = <<>>], "unsent")
    <3> DEFINE r == [st EXCEPT !.ids = <<>>, !.sigs = <<>>]
    <3>1. <<>> \in Parts /\ <<>> \in Seq(Nat)
      BY DEF Parts
    <3>2. r \in StreamRec /\ r.ids = <<>> /\ r.sigs = <<>>
      BY <1>2, <3>1 DEF StreamRec
    <3> HIDE DEF r
    <3>3. QED
      BY <1>1, <2>1, <2>3, <3>2, FinishKeepsOwn DEF r
  <2>4. QED
    BY <1>4, <2>2, <2>3 DEF CleanupStep
<1>5. CASE FinalFlushed
  <2>1. UNCHANGED chat
    BY <1>5 DEF FinalFlushed
  <2>2. CASE Draft /\ UNCHANGED stream
    BY <1>1, <2>1, <2>2, QuietKeepsOwn
  <2>3. CASE Finish(st, Answer(st.ok))
    BY <1>1, <1>2, <2>1, <2>3, FinishKeepsOwn DEF Answer
  <2>4. QED
    BY <1>5, <2>2, <2>3 DEF FinalFlushed
<1>6. CASE PersistPart
  <2>1. Draft
    BY <1>6 DEF OwnInv, PersistPart
  <2>2. \/ UNCHANGED chat
        \/ \E p, acked : chat' = Append(chat, NewMessage(s, p, acked))
    BY <1>6 DEF PersistPart
  <2>3. DOMAIN stream' = DOMAIN stream
    BY <1>6 DEF PersistPart, Finish
  <2>4. chat \in Seq(Message)
    BY DEF CoreInv, ChatOK
  <2>5. \A m \in DOMAIN chat' : chat'[m].stream \in DOMAIN stream
    <3>1. CASE UNCHANGED chat
      BY <3>1 DEF OwnInv
    <3>2. ASSUME NEW p, NEW acked, chat' = Append(chat, NewMessage(s, p, acked))
          PROVE  \A m \in DOMAIN chat' : chat'[m].stream \in DOMAIN stream
      BY <1>2, <2>4, <3>2 DEF OwnInv, NewMessage
    <3>3. QED
      BY <2>2, <3>1, <3>2
  <2>6. QED
    BY <1>1, <2>1, <2>3, <2>5 DEF OwnInv, Draft
<1>7. QED
  BY <1>3, <1>4, <1>5, <1>6 DEF Completing

LEMMA OwnInit == StreamerInit => OwnInv
BY IdleCaller DEF StreamerInit, OwnInv

LEMMA OwnNext == CoreInv /\ OwnInv /\ StreamStep => OwnInv'
<1> SUFFICES ASSUME CoreInv, OwnInv, StreamStep
             PROVE  OwnInv'
  OBVIOUS
<1>1. ASSUME NEW s \in DOMAIN stream, Flushing(s)
      PROVE  OwnInv'
  BY <1>1, FlushingKeepsOwn
<1>2. CASE Completing
  BY <1>2, CompletingKeepsOwn
<1>3. ASSUME NEW m \in DOMAIN chat, UserDeletes(m)
      PROVE  OwnInv'
  BY <1>3, QuietKeepsOwn DEF UserDeletes, OwnInv
<1>4. ASSUME NEW k \in Key, Complete(k)
      PROVE  OwnInv'
  <2>1. UNCHANGED <<mode, chat>> /\ caller'.pc = "tasks"
        /\ stream' = [stream EXCEPT ![states[k]].timer = FALSE]
    BY <1>4 DEF Complete
  <2>2. DOMAIN stream' = DOMAIN stream /\ \A t \in DOMAIN stream :
          /\ stream'[t].done = stream[t].done
          /\ stream'[t].ids = stream[t].ids /\ stream'[t].sigs = stream[t].sigs
    <3>1. \A t \in DOMAIN stream : stream[t] \in StreamRec
      BY DEF CoreInv, Core, StreamsOK, Good
    <3>2. QED
      BY <2>1, <3>1 DEF StreamRec
  <2>3. QED
    BY <2>1, <2>2, QuietKeepsOwn
<1>5. ASSUME NEW k \in Key, NEW p \in Payload, Enqueue(k, p)
      PROVE  OwnInv'
  BY <1>5, EnqueueKeepsOwn
<1>6. ASSUME NEW keys \in SUBSET Key, Clear(keys)
      PROVE  OwnInv'
  <2>1. UNCHANGED <<mode, chat, caller>> /\ caller = Idle
    BY <1>6 DEF Clear
  <2>2. \A t \in DOMAIN stream : stream[t] \in StreamRec
    BY DEF CoreInv, Core, StreamsOK, Good
  <2>3. DOMAIN stream' = DOMAIN stream /\ \A t \in DOMAIN stream :
          stream'[t] \in {stream[t], [CancelState(stream[t]) EXCEPT !.done = "cleared"]}
    BY <1>6 DEF Clear
  <2>4. \A t \in DOMAIN stream :
          /\ stream'[t].done = "open" => stream[t].done = "open"
          /\ stream'[t].ids = stream[t].ids /\ stream'[t].sigs = stream[t].sigs
    <3> TAKE t \in DOMAIN stream
    <3> DEFINE c == [CancelState(stream[t]) EXCEPT !.done = "cleared"]
    <3>1. c.done = "cleared" /\ c.ids = stream[t].ids /\ c.sigs = stream[t].sigs
      BY <2>2 DEF StreamRec, CancelState
    <3> HIDE DEF c
    <3>2. stream'[t] \in {stream[t], c}
      BY <2>3 DEF c
    <3>3. QED
      BY <3>1, <3>2
  <2>5. QED
    BY <2>1, <2>3, <2>4, IdleCaller, QuietKeepsOwn
<1>7. CASE UNCHANGED streamVars
  BY <1>7 DEF streamVars, OwnInv, Owns, Visible, Draft
<1>8. QED
  BY <1>1, <1>2, <1>3, <1>4, <1>5, <1>6, <1>7 DEF StreamStep, Background

LEMMA OwnAlways == StreamerSpec => [](CoreInv /\ OwnInv)
BY CoreInit, CoreNext, OwnInit, OwnNext, NextIsStreamStep, PTL DEF StreamerSpec

LEMMA OwnGivesLists == OwnInv => ListsItsMessages
BY DEF OwnInv, Owns, ListsItsMessages

\* For every text and every failure, a stream's list names messages that this
\* stream sent, in the order of the chat and with one signature each, and no
\* acknowledged message of an open stream stands in the chat without being
\* on its list (syncMessages' bookkeeping of messageIds and signatures).
THEOREM StreamsListTheirMessages == StreamerSpec => []ListsItsMessages
BY OwnGivesLists, OwnAlways, PTL

-----------------------------------------------------------------------------
(* Cancelled streams.                                                        *)

\* What CancelledIsSilent says of the stream s in one step.
Silent(s) ==
  stream[s].cancelled /\ stream[s].at # "call" =>
    /\ stream'[s].at # "call"
    /\ \A m \in DOMAIN chat' : chat'[m].stream = s =>
         m \in DOMAIN chat /\ chat'[m].part = chat[m].part

\* The chat is left alone or changed for a stream that is not cancelled.
LEMMA OthersAreSilent ==
  ASSUME NEW s, NEW t, t # s, Touches(s), stream'[t].at = stream[t].at
  PROVE  Silent(t)
BY DEF Touches, Silent

LEMMA NothingSaid ==
  ASSUME NEW t,
         stream[t].cancelled /\ stream[t].at # "call" => stream'[t].at # "call",
         CoreInv,
         UNCHANGED chat \/ \E m : chat' = [chat EXCEPT ![m].deleted = TRUE]
  PROVE  Silent(t)
<1>1. CASE UNCHANGED chat
  BY <1>1 DEF Silent
<1>2. ASSUME NEW m, chat' = [chat EXCEPT ![m].deleted = TRUE]
      PROVE  Silent(t)
  BY <1>2, DeletionTouches DEF Silent, CoreInv
<1>3. QED
  BY <1>1, <1>2

LEMMA FlushingIsSilent ==
  ASSUME CoreInv, OwnInv, NEW s \in DOMAIN stream, Flushing(s), NEW t \in DOMAIN stream
  PROVE  Silent(t)
<1>1. PICK r : stream' = [stream EXCEPT ![s] = r] /\ Moves(stream[s], r)
  BY FlushingMoves DEF CoreInv, Core
<1>2. stream'[s] = r /\ \A u \in DOMAIN stream : u # s => stream'[u] = stream[u]
  BY <1>1 DEF CoreInv, Core, StreamsOK
<1>3. Touches(s) /\ (UNCHANGED chat \/ stream[s].at = "call")
  BY FlushingTouches
<1>4. CASE t = s
  BY <1>1, <1>2, <1>3, <1>4 DEF Silent, Moves
<1>5. CASE t # s
  BY <1>2, <1>3, <1>5, OthersAreSilent
<1>6. QED
  BY <1>4, <1>5

\* complete returns; the stream was open.
LEMMA FinishIsSilent ==
  ASSUME CoreInv, caller.pc # "idle", NEW st, NEW answer, Finish(st, answer),
         NEW t \in DOMAIN stream
  PROVE  stream[t].cancelled => stream'[t] = stream[t]
BY CallerStream DEF Finish

LEMMA CompletingIsSilent ==
  ASSUME CoreInv, OwnInv, Completing, NEW t \in DOMAIN stream
  PROVE  Silent(t)
<1> DEFINE s == caller.s
           st == stream[s]
<1>1. caller.pc # "idle"
  BY DEF Completing, TasksSettled, CleanupStep, FinalFlushed, PersistPart
<1>2. s \in DOMAIN stream /\ s \in Nat /\ ~stream[s].cancelled
  BY <1>1, CallerStream
<1>3. CASE TasksSettled
  <2>1. UNCHANGED chat
    BY <1>3 DEF TasksSettled
  <2>2. stream[t].cancelled => stream'[t] = stream[t]
    BY <1>1, <1>2, <1>3, FinishIsSilent DEF TasksSettled
  <2>3. QED
    BY <2>1, <2>2, NothingSaid
<1>4. CASE CleanupStep
  <2>1. UNCHANGED chat \/ \E m : chat' = [chat EXCEPT ![m].deleted = TRUE]
    BY <1>4 DEF CleanupStep, DeleteLast
  <2>2. stream[t].cancelled => stream'[t] = stream[t]
    BY <1>1, <1>4, FinishIsSilent DEF CleanupStep
  <2>3. QED
    BY <2>1, <2>2, NothingSaid
<1>5. CASE FinalFlushed
  <2>1. UNCHANGED chat
    BY <1>5 DEF FinalFlushed
  <2>2. stream[t].cancelled => stream'[t] = stream[t]
    BY <1>1, <1>5, FinishIsSilent DEF FinalFlushed
  <2>3. QED
    BY <2>1, <2>2, NothingSaid
<1>6. CASE PersistPart
  <2>1. stream[t].cancelled => stream'[t] = stream[t]
    BY <1>1, <1>6, FinishIsSilent DEF PersistPart
  <2>2. CASE UNCHANGED chat
    BY <2>1, <2>2, NothingSaid
  <2>3. CASE ~UNCHANGED chat
    <3>1. PICK p, acked : chat' = Append(chat, NewMessage(s, p, acked))
      BY <1>6, <2>3 DEF PersistPart
    <3>2. chat \in Seq(Message)
      BY DEF CoreInv, ChatOK
    <3>3. \A m \in DOMAIN chat' : chat'[m].stream # s =>
            m \in DOMAIN chat /\ chat'[m].part = chat[m].part
      BY <3>1, <3>2 DEF NewMessage
    <3>4. QED
      BY <1>2, <2>1, <3>3 DEF Silent
  <2>4. QED
    BY <2>2, <2>3
<1>7. QED
  BY <1>3, <1>4, <1>5, <1>6 DEF Completing

LEMMA StepIsSilent ==
  ASSUME CoreInv, OwnInv, StreamStep, NEW t \in DOMAIN stream
  PROVE  Silent(t)
<1>1. stream \in Seq(StreamRec) /\ \A u \in DOMAIN stream : stream[u] \in StreamRec
  BY DEF CoreInv, Core, StreamsOK
<1>2. ASSUME NEW s \in DOMAIN stream, Flushing(s)
      PROVE  Silent(t)
  BY <1>2, FlushingIsSilent
<1>3. CASE Completing
  BY <1>3, CompletingIsSilent
<1>4. ASSUME NEW m \in DOMAIN chat, UserDeletes(m)
      PROVE  Silent(t)
  BY <1>4, NothingSaid DEF UserDeletes
<1>5. ASSUME NEW k \in Key, Complete(k)
      PROVE  Silent(t)
  <2>1. UNCHANGED chat /\ stream' = [stream EXCEPT ![states[k]].timer = FALSE]
    BY <1>5 DEF Complete
  <2>2. stream'[t].at = stream[t].at
    BY <1>1, <2>1 DEF StreamRec
  <2>3. QED
    BY <2>1, <2>2, NothingSaid
<1>6. ASSUME NEW k \in Key, NEW p \in Payload, Enqueue(k, p)
      PROVE  Silent(t)
  <2>1. UNCHANGED chat
    BY <1>6 DEF Enqueue
  <2>2. stream[t].cancelled => stream'[t] = stream[t]
    <3>1. CASE states[k] # 0
      <4>1. ~stream[states[k]].cancelled
        BY <3>1 DEF CoreInv, Core, MapOK, StreamsOK, Good
      <4>2. \A u \in DOMAIN stream : u # states[k] => stream'[u] = stream[u]
        BY <1>6, <3>1 DEF Enqueue
      <4>3. QED
        BY <4>1, <4>2
    <3>2. CASE states[k] = 0
      <4>1. \E r : stream' = Append(stream, r)
        BY <1>6, <3>2 DEF Enqueue
      <4>2. QED
        BY <1>1, <4>1
    <3>3. QED
      BY <3>1, <3>2
  <2>3. QED
    BY <2>1, <2>2, NothingSaid
<1>7. ASSUME NEW keys \in SUBSET Key, Clear(keys)
      PROVE  Silent(t)
  <2>1. UNCHANGED chat
        /\ stream'[t] \in {stream[t], [CancelState(stream[t]) EXCEPT !.done = "cleared"]}
    BY <1>7 DEF Clear
  <2>2. [CancelState(stream[t]) EXCEPT !.done = "cleared"].at = stream[t].at
    BY <1>1 DEF StreamRec, CancelState
  <2>3. stream'[t].at = stream[t].at
    BY <2>1, <2>2
  <2>4. QED
    BY <2>1, <2>3, NothingSaid
<1>8. CASE UNCHANGED streamVars
  BY <1>8 DEF streamVars, Silent
<1>9. QED
  BY <1>2, <1>3, <1>4, <1>5, <1>6, <1>7, <1>8 DEF StreamStep, Background

\* On both transports and for every failure, no step makes a call for a
\* cancelled stream whose last call was answered, nor changes or adds to what
\* its messages say, whichever timers, flushes and retries were pending
\* (cancelState, the checks of flushState).
THEOREM CancelledStreamsAreSilent == StreamerSpec => CancelledIsSilent
<1>1. CoreInv /\ OwnInv /\ [StreamerNext]_streamerVars =>
        [\A s \in DOMAIN stream :
           stream[s].cancelled /\ stream[s].at # "call" =>
             /\ stream'[s].at # "call"
             /\ \A m \in DOMAIN chat' : chat'[m].stream = s =>
                  m \in DOMAIN chat /\ chat'[m].part = chat[m].part]_streamerVars
  BY StepIsSilent, NextIsStreamStep DEF Silent
<1>2. QED
  BY <1>1, OwnAlways, PTL DEF StreamerSpec, CancelledIsSilent

-----------------------------------------------------------------------------
(* Types.                                                                    *)

\* Ids of messages that Telegram has given out, or of the bubble.
Known(ids) == \A i \in DOMAIN ids : ids[i] <= Len(chat)

IdsOK == Known(caller.ids) /\ \A s \in DOMAIN stream : Known(stream[s].ids)

BoundsOK ==
  mode \in Mode /\ enqueued \in 0..MaxEnqueues /\ faults \in 0..MaxFaults

\* The chat only grows.
LEMMA StillKnown ==
  ASSUME ChatOK, ChatOK', DOMAIN chat \subseteq DOMAIN chat',
         NEW ids \in Seq(Nat), Known(ids)
  PROVE  \A i \in DOMAIN ids : ids[i] <= Len(chat')
<1>1. Len(chat) <= Len(chat') /\ Len(chat) \in Nat /\ Len(chat') \in Nat
  BY DEF ChatOK
<1>2. QED
  BY <1>1 DEF Known

LEMMA ChatGrows ==
  ASSUME CoreInv, OwnInv, StreamStep
  PROVE  DOMAIN chat \subseteq DOMAIN chat'
<1>1. ASSUME NEW s \in DOMAIN stream, Flushing(s)
      PROVE  DOMAIN chat \subseteq DOMAIN chat'
  BY <1>1, FlushingTouches DEF Touches
<1>2. ASSUME NEW p, NEW acked, chat' = Append(chat, NewMessage(caller.s, p, acked))
      PROVE  DOMAIN chat \subseteq DOMAIN chat'
  BY <1>2 DEF CoreInv, ChatOK
<1>3. CASE Completing
  BY <1>2, <1>3 DEF Completing, TasksSettled, CleanupStep, FinalFlushed, PersistPart,
                    DeleteLast
<1>4. CASE /\ ~Completing
           /\ ~\E s \in DOMAIN stream : Flushing(s)
  BY <1>4 DEF StreamStep, Background, UserDeletes, Complete, Enqueue, Clear, streamVars
<1>5. QED
  BY <1>1, <1>3, <1>4

\* The list of a stream whose flush takes a step.
LEMMA FlushingKnows ==
  ASSUME CoreInv, OwnInv, IdsOK, NEW s \in DOMAIN stream, Flushing(s)
  PROVE  \A i \in DOMAIN stream'[s].ids : stream'[s].ids[i] <= Len(chat')
<1> DEFINE st == stream[s]
<1>1. /\ StreamsOK /\ ChatOK /\ Good(st) /\ st \in StreamRec
      /\ st.ids \in Seq(Nat) /\ Known(st.ids)
  BY DEF CoreInv, Core, StreamsOK, IdsOK, Good, StreamRec
<1>2. PICK r : stream' = [stream EXCEPT ![s] = r] /\ Notes(s, r)
  BY <1>1, FlushingMoves
<1>3. stream'[s] = r
  BY <1>1, <1>2 DEF StreamsOK
<1>4. ChatOK' /\ DOMAIN chat \subseteq DOMAIN chat'
  BY <1>1, FlushingKeepsChat, FlushingTouches DEF Touches
<1>5. \A i \in DOMAIN st.ids : st.ids[i] <= Len(chat')
  BY <1>1, <1>4, StillKnown
<1>6. CASE r.ids = st.ids
  BY <1>3, <1>5, <1>6
<1>7. CASE r.ids = Front(st.ids) /\ OnSurplus(s)
  <2>1. st.ids # <<>>
    <3>1. InCall(st)
      BY <1>1, <1>7 DEF Good, OnSurplus, Awaiting
    <3>2. QED
      BY <1>1, <1>7, <3>1 DEF InCall, OnSurplus, StreamRec, Parts
  <2> DEFINE l == Front(st.ids)
  <2>2. st.ids \in Seq(Nat)
    BY <1>1
  <2>3. \A j \in DOMAIN l : j \in DOMAIN st.ids /\ l[j] = st.ids[j]
    BY <2>1, <2>2, FrontMembers
  <2> HIDE DEF l
  <2>4. QED
    BY <1>3, <1>5, <1>7, <2>3 DEF l
<1>8. ASSUME NEW part, Show(s, part, TRUE), r.ids = Recorded(s, part).ids
      PROVE  \A i \in DOMAIN r.ids : r.ids[i] <= Len(chat')
  <2>1. CASE Editing(s)
    <3>1. r.ids = st.ids
      BY <1>1, <1>8, <2>1 DEF Recorded, StreamRec
    <3>2. QED
      BY <1>5, <3>1
  <2>2. CASE ~Editing(s)
    <3> DEFINE id == IF Draft THEN DraftId ELSE Len(chat) + 1
    <3>1. r.ids = Append(st.ids, id)
      BY <1>1, <1>8, <2>2 DEF Recorded, StreamRec
    <3>2. id \in Nat /\ id <= Len(chat')
      <4>1. CASE Draft
        BY <1>4, <4>1 DEF DraftId, ChatOK
      <4>2. CASE ~Draft
        <5>1. chat' = Append(chat, NewMessage(s, part, TRUE))
          BY <1>8, <2>2, <4>2 DEF Show
        <5>2. QED
          BY <1>1, <4>2, <5>1 DEF ChatOK
      <4>3. QED
        BY <4>1, <4>2
    <3> HIDE DEF id
    <3>3. QED
      BY <1>1, <1>5, <3>1, <3>2
  <2>3. QED
    BY <2>1, <2>2
<1>9. QED
  BY <1>2, <1>3, <1>6, <1>7, <1>8 DEF Notes

\* Lists that are as they were, or empty, are still known.
LEMMA IdsKept ==
  ASSUME CoreInv, CoreInv', IdsOK, DOMAIN chat \subseteq DOMAIN chat',
         caller'.ids \in {caller.ids, <<>>} \/ Known(caller'.ids)
           \/ Known(caller.ids)',
         \A t \in DOMAIN stream' :
           \/ t \in DOMAIN stream /\ stream'[t].ids = stream[t].ids
           \/ stream'[t].ids = <<>>
           \/ Known(stream[t].ids)'
  PROVE  IdsOK'
<1>1. /\ ChatOK /\ ChatOK' /\ caller.ids \in Seq(Nat) /\ caller'.ids \in Seq(Nat)
      /\ \A t \in DOMAIN stream : stream[t].ids \in Seq(Nat)
  BY DEF CoreInv, Core, CallerOK, StreamsOK, Good, StreamRec
<1>2. Known(caller.ids)'
  <2>1. CASE Known(caller'.ids)
    BY <1>1, <2>1, StillKnown DEF Known
  <2>2. CASE caller'.ids = caller.ids
    BY <1>1, <2>2, StillKnown DEF IdsOK, Known
  <2>3. CASE caller'.ids = <<>>
    BY <2>3 DEF Known
  <2>4. QED
    BY <2>1, <2>2, <2>3
<1>3. ASSUME NEW t \in DOMAIN stream'
      PROVE  Known(stream[t].ids)'
  <2>1. CASE t \in DOMAIN stream /\ stream'[t].ids = stream[t].ids
    BY <1>1, <2>1, StillKnown DEF IdsOK, Known
  <2>2. CASE stream'[t].ids = <<>>
    BY <2>2 DEF Known
  <2>3. QED
    BY <1>3, <2>1, <2>2
<1>4. QED
  BY <1>2, <1>3 DEF IdsOK

LEMMA FinishKeepsIds ==
  ASSUME CoreInv, CoreInv', IdsOK, DOMAIN chat \subseteq DOMAIN chat',
         caller.pc # "idle", NEW st \in StreamRec, NEW answer, Finish(st, answer),
         \/ st.ids \in {stream[caller.s].ids, <<>>}
         \/ \A i \in DOMAIN st.ids : st.ids[i] <= Len(chat')
  PROVE  IdsOK'
<1> DEFINE s == caller.s
           r == [CancelState(st) EXCEPT !.done = answer]
<1>1. r.ids = st.ids
  BY DEF StreamRec, CancelState
<1>2. stream' = [stream EXCEPT ![s] = r] /\ caller'.ids = <<>>
  BY DEF Finish, Idle
<1> HIDE DEF r
<1>3. \A t \in DOMAIN stream' :
        \/ t \in DOMAIN stream /\ stream'[t].ids = stream[t].ids
        \/ stream'[t].ids = <<>>
        \/ Known(stream[t].ids)'
  BY <1>1, <1>2 DEF CoreInv, Core, CallerOK, Known
<1>4. QED
  BY <1>2, <1>3, IdsKept

LEMMA CompletingKeepsIds ==
  ASSUME CoreInv, CoreInv', IdsOK, DOMAIN chat \subseteq DOMAIN chat', Completing
  PROVE  IdsOK'
<1> DEFINE s == caller.s
           st == stream[s]
<1>1. caller.pc # "idle"
  BY DEF Completing, TasksSettled, CleanupStep, FinalFlushed, PersistPart
<1>2. /\ s \in DOMAIN stream /\ st \in StreamRec /\ Known(st.ids) /\ Known(caller.ids)
      /\ caller.ids \in Seq(Nat) /\ DOMAIN caller = {"pc", "s", "ids"}
  BY <1>1, CallerStream DEF IdsOK, CoreInv, Core, CallerOK
<1>3. CASE TasksSettled
  <2>1. CASE caller' = [caller EXCEPT !.pc = "cleanup", !.ids = st.ids] /\ UNCHANGED stream
    <3>1. caller'.ids = st.ids
      BY <1>2, <2>1
    <3>2. QED
      BY <1>2, <2>1, <3>1, IdsKept
  <2>2. CASE Finish(st, "unsent")
    BY <1>1, <1>2, <2>2, FinishKeepsIds
  <2>3. CASE /\ stream' = [stream EXCEPT ![s].queued = @ + 1]
             /\ caller' = [caller EXCEPT !.pc = "final"]
    <3>1. caller'.ids = caller.ids
      BY <1>2, <2>3
    <3>2. DOMAIN stream' = DOMAIN stream
          /\ \A t \in DOMAIN stream : stream'[t].ids = stream[t].ids
      BY <1>2, <2>3 DEF StreamRec
    <3>3. QED
      BY <3>1, <3>2, IdsKept
  <2>4. QED
    BY <1>3, <2>1, <2>2, <2>3 DEF TasksSettled
<1>4. CASE CleanupStep
  <2>1. CASE /\ Len(caller.ids) > 1
             /\ caller' = [caller EXCEPT !.ids = Front(@)] /\ UNCHANGED stream
    <3> DEFINE l == Front(caller.ids)
    <3>1. \A j \in DOMAIN l : j \in DOMAIN caller.ids /\ l[j] = caller.ids[j]
      <4>1. caller.ids \in Seq(Nat) /\ caller.ids # <<>>
        BY <1>2, <2>1
      <4>2. QED
        BY <4>1, FrontMembers
    <3>2. caller'.ids = l
      BY <1>2, <2>1
    <3> HIDE DEF l
    <3>3. Known(l)
      BY <1>2, <3>1 DEF Known
    <3>4. QED
      BY <2>1, <3>2, <3>3, IdsKept
  <2>2. CASE Finish([st EXCEPT !.ids = <<>>, !.sigs = <<>>], "unsent")
    <3> DEFINE r == [st EXCEPT !.ids = <<>>, !.sigs = <<>>]
    <3>1. <<>> \in Parts /\ <<>> \in Seq(Nat)
      BY DEF Parts
    <3>2. r \in StreamRec /\ r.ids = <<>>
      BY <1>2, <3>1 DEF StreamRec
    <3> HIDE DEF r
    <3>3. QED
      BY <1>1, <2>2, <3>2, FinishKeepsIds DEF r
  <2>3. QED
    BY <1>4, <2>1, <2>2 DEF CleanupStep
<1>5. CASE FinalFlushed
  <2>1. CASE caller' = [caller EXCEPT !.pc = "persist"] /\ UNCHANGED stream
    <3>1. caller'.ids = caller.ids
      BY <1>2, <2>1
    <3>2. QED
      BY <2>1, <3>1, IdsKept
  <2>2. CASE Finish(st, Answer(st.ok))
    BY <1>1, <1>2, <2>2, FinishKeepsIds
  <2>3. QED
    BY <1>5, <2>1, <2>2 DEF FinalFlushed
<1>6. CASE PersistPart
  <2> DEFINE new == Len(chat) + 1
             l == Append(caller.ids, new)
             part == Target(st)[Len(caller.ids) + 1]
             r == [st EXCEPT !.ids = l]
  <2>1. CASE Finish(st, "unsent")
    BY <1>1, <1>2, <2>1, FinishKeepsIds
  <2>2. CASE /\ \E p \in {part, PlainPart(part)} : chat' = Append(chat, NewMessage(s, p, TRUE))
             /\ \/ caller' = [caller EXCEPT !.ids = l] /\ UNCHANGED stream
                \/ Finish(r, "streamed")
    <3>1. Len(chat') = new /\ new \in Nat /\ Len(chat) \in Nat
      BY <2>2 DEF CoreInv, ChatOK
    <3>2. l \in Seq(Nat) /\ \A i \in DOMAIN l : l[i] <= Len(chat')
      <4> HIDE DEF new
      <4>1. /\ l \in Seq(Nat) /\ Len(l) = Len(caller.ids) + 1 /\ l[Len(caller.ids) + 1] = new
            /\ \A i \in 1..Len(caller.ids) : l[i] = caller.ids[i]
        BY <1>2, <3>1, AppendProperties
      <4> HIDE DEF l, part
      <4>2. \A i \in DOMAIN l : i = Len(caller.ids) + 1 \/ i \in DOMAIN caller.ids
        BY <1>2, <4>1
      <4>3. \A i \in DOMAIN caller.ids : caller.ids[i] \in Nat /\ caller.ids[i] <= Len(chat)
        BY <1>2 DEF Known
      <4>4. new = Len(chat) + 1
        BY DEF new
      <4>5. ASSUME NEW i \in DOMAIN l
            PROVE  l[i] <= Len(chat')
        <5>1. CASE i = Len(caller.ids) + 1
          BY <3>1, <4>1, <5>1
        <5>2. CASE i \in DOMAIN caller.ids
          <6>1. l[i] = caller.ids[i]
            BY <1>2, <4>1, <5>2
          <6>2. QED
            BY <3>1, <4>3, <4>4, <5>2, <6>1
        <5>3. QED
          BY <4>2, <5>1, <5>2
      <4>6. QED
        BY <4>1, <4>5
    <3>3. CASE caller' = [caller EXCEPT !.ids = l] /\ UNCHANGED stream
      <4>1. caller'.ids = l
        BY <1>2, <3>3
      <4>2. Known(caller.ids)'
        BY <3>2, <4>1 DEF Known
      <4>3. QED
        BY <3>3, <4>2, IdsKept
    <3>4. CASE Finish(r, "streamed")
      <4> HIDE DEF l
      <4>1. r \in StreamRec /\ r.ids = l
        BY <1>2, <3>2 DEF StreamRec
      <4> HIDE DEF r
      <4>2. QED
        BY <1>1, <3>2, <3>4, <4>1, FinishKeepsIds
    <3>5. QED
      BY <2>2, <3>3, <3>4
  <2>3. QED
    BY <1>6, <2>1, <2>2 DEF PersistPart
<1>7. QED
  BY <1>3, <1>4, <1>5, <1>6 DEF Completing

LEMMA IdsInit == StreamerInit => IdsOK /\ BoundsOK
BY StreamerAssumption DEF StreamerInit, IdsOK, Known, BoundsOK, Idle

LEMMA IdsNext == CoreInv /\ OwnInv /\ IdsOK /\ StreamStep => IdsOK'
<1> SUFFICES ASSUME CoreInv, OwnInv, IdsOK, StreamStep
             PROVE  IdsOK'
  OBVIOUS
<1>1. CoreInv' /\ DOMAIN chat \subseteq DOMAIN chat'
  BY CoreNext, ChatGrows
<1>2. /\ stream \in Seq(StreamRec)
      /\ \A t \in DOMAIN stream : Good(stream[t]) /\ stream[t] \in StreamRec
  BY DEF CoreInv, Core, StreamsOK, Good
<1>3. ASSUME NEW s \in DOMAIN stream, Flushing(s)
      PROVE  IdsOK'
  <2>1. PICK r : stream' = [stream EXCEPT ![s] = r]
    BY <1>3, FlushingMoves DEF CoreInv, Core
  <2>2. caller' = caller
    BY <1>3, FlushingMoves DEF CoreInv, Core
  <2>3. Known(stream[s].ids)'
    BY <1>3, FlushingKnows DEF Known
  <2>4. \A t \in DOMAIN stream' :
          \/ t \in DOMAIN stream /\ stream'[t].ids = stream[t].ids
          \/ Known(stream[t].ids)'
    BY <1>2, <2>1, <2>3
  <2>5. QED
    BY <1>1, <2>2, <2>4, IdsKept
<1>4. CASE Completing
  BY <1>1, <1>4, CompletingKeepsIds
<1>5. ASSUME NEW m \in DOMAIN chat, UserDeletes(m)
      PROVE  IdsOK'
  BY <1>1, <1>5, IdsKept DEF UserDeletes
<1>6. ASSUME NEW k \in Key, Complete(k)
      PROVE  IdsOK'
  <2>1. caller'.ids = <<>> /\ stream' = [stream EXCEPT ![states[k]].timer = FALSE]
    BY <1>6 DEF Complete
  <2>2. DOMAIN stream' = DOMAIN stream /\ \A t \in DOMAIN stream : stream'[t].ids = stream[t].ids
    BY <1>2, <2>1 DEF StreamRec
  <2>3. QED
    BY <1>1, <2>1, <2>2, IdsKept
<1>7. ASSUME NEW k \in Key, NEW p \in Payload, Enqueue(k, p)
      PROVE  IdsOK'
  <2>1. caller' = caller
    BY <1>7 DEF Enqueue
  <2>2. CASE states[k] # 0
    <3> DEFINE s == states[k]
               r == Updated(stream[s], p)
    <3>1. s \in DOMAIN stream /\ stream[s].done = "open"
      BY <2>2 DEF CoreInv, Core, MapOK, StreamsOK
    <3>2. stream' = [stream EXCEPT ![s] = r]
      BY <1>7, <2>2, <3>1 DEF Enqueue, Updated
    <3>3. r.ids = stream[s].ids
      BY <1>2, <3>1, UpdatedIsCovered
    <3> HIDE DEF r
    <3>4. \A t \in DOMAIN stream' : t \in DOMAIN stream /\ stream'[t].ids = stream[t].ids
      BY <1>2, <3>1, <3>2, <3>3
    <3>5. QED
      BY <1>1, <2>1, <3>4, IdsKept
  <2>3. CASE states[k] = 0
    <3> DEFINE n == [NewState(k) EXCEPT !.latest = p]
               r == Updated(NewState(k), p)
    <3>1. stream' = Append(stream, r)
      BY <1>7, <2>3 DEF Enqueue, Updated
    <3>2. Good(n) /\ r = Updated(n, p) /\ n.done = "open" /\ n.ids = <<>>
      BY NewStateIsGood
    <3> HIDE DEF n, r
    <3>3. r.ids = <<>>
      BY <3>2, UpdatedIsCovered
    <3>4. \A t \in DOMAIN stream' :
            \/ t \in DOMAIN stream /\ stream'[t].ids = stream[t].ids
            \/ stream'[t].ids = <<>>
      BY <1>2, <3>1, <3>3
    <3>5. QED
      BY <1>1, <2>1, <3>4, IdsKept
  <2>4. QED
    BY <2>2, <2>3
<1>8. ASSUME NEW keys \in SUBSET Key, Clear(keys)
      PROVE  IdsOK'
  <2>1. caller' = caller
    BY <1>8 DEF Clear
  <2>2. DOMAIN stream' = DOMAIN stream /\ \A t \in DOMAIN stream :
          stream'[t] \in {stream[t], [CancelState(stream[t]) EXCEPT !.done = "cleared"]}
    BY <1>8 DEF Clear
  <2>3. \A t \in DOMAIN stream :
          [CancelState(stream[t]) EXCEPT !.done = "cleared"].ids = stream[t].ids
    BY <1>2 DEF StreamRec, CancelState
  <2>4. \A t \in DOMAIN stream : stream'[t].ids = stream[t].ids
    BY <2>2, <2>3
  <2>5. QED
    BY <1>1, <2>1, <2>2, <2>4, IdsKept
<1>9. CASE UNCHANGED streamVars
  BY <1>1, <1>9, IdsKept DEF streamVars
<1>10. QED
  BY <1>3, <1>4, <1>5, <1>6, <1>7, <1>8, <1>9 DEF StreamStep, Background

\* The bounds of the model, whichever step of a stream is taken.
LEMMA BoundsNext ==
  ASSUME CoreInv, BoundsOK,
         \/ Background
         \/ \E k \in Key : Complete(k) \/ \E p \in Payload : Enqueue(k, p)
         \/ \E keys \in SUBSET Key : Clear(keys)
         \/ UNCHANGED streamerVars
  PROVE  BoundsOK' /\ faults <= faults'
<1>1. MaxFaults \in Nat /\ MaxEnqueues \in Nat
  BY StreamerAssumption
<1>2. faults' = faults \/ (faults < MaxFaults /\ faults' = faults + 1)
  BY DEF Background, Flushing, TimerFires, StartFlush, DelayEnds, PartShown, PartDegraded,
         SurplusDeleted, RateLimited, Refused, AnswerLost, Completing, TasksSettled,
         CleanupStep, FinalFlushed, PersistPart, UserDeletes, Complete, Enqueue, Clear,
         streamerVars, MayFail
<1>3. enqueued' = enqueued \/ (enqueued < MaxEnqueues /\ enqueued' = enqueued + 1)
  BY DEF Background, Flushing, TimerFires, StartFlush, DelayEnds, PartShown, PartDegraded,
         SurplusDeleted, RateLimited, Refused, AnswerLost, Completing, TasksSettled,
         CleanupStep, FinalFlushed, PersistPart, UserDeletes, Complete, Enqueue, Clear,
         streamerVars
<1>4. mode' = mode
  BY DEF Background, Flushing, TimerFires, StartFlush, DelayEnds, PartShown, PartDegraded,
         SurplusDeleted, RateLimited, Refused, AnswerLost, Completing, TasksSettled,
         CleanupStep, FinalFlushed, PersistPart, UserDeletes, Complete, Enqueue, Clear,
         streamerVars
<1>5. QED
  BY <1>1, <1>2, <1>3, <1>4 DEF BoundsOK

-----------------------------------------------------------------------------
(* Replies that complete has answered for.                                   *)

\* complete has returned for this stream.
Settled(st) == st.done \in {"streamed", "unsent"}

\* A stream to which a step does nothing that its flushes look at.
Calm(r, st) == r.at = st.at /\ r.broken = st.broken /\ r.ok = st.ok

\* Nothing happens to the messages of the stream t but deletions.
Untouched(t) ==
  /\ \A m \in DOMAIN chat : m \in DOMAIN chat' /\ chat'[m].stream = chat[m].stream
  /\ \A m \in DOMAIN chat : chat[m].stream = t =>
       /\ chat'[m].part = chat[m].part /\ chat'[m].acked = chat[m].acked
       /\ chat[m].deleted => chat'[m].deleted
  /\ \A m \in DOMAIN chat' : chat'[m].stream = t => m \in DOMAIN chat

LEMMA OthersUntouched ==
  ASSUME NEW s, Touches(s), NEW t, t # s
  PROVE  Untouched(t)
BY DEF Touches, Untouched

LEMMA DeletionUntouched ==
  ASSUME ChatOK, UNCHANGED chat \/ \E m : chat' = [chat EXCEPT ![m].deleted = TRUE], NEW t
  PROVE  Untouched(t) /\ Touches(t) /\ DOMAIN chat' = DOMAIN chat
<1>1. CASE UNCHANGED chat
  BY <1>1 DEF Untouched, Touches
<1>2. ASSUME NEW m, chat' = [chat EXCEPT ![m].deleted = TRUE]
      PROVE  Untouched(t) /\ Touches(t) /\ DOMAIN chat' = DOMAIN chat
  BY <1>2, DeletionTouches DEF Untouched
<1>3. QED
  BY <1>1, <1>2

\* complete returns with the list of the caller's stream replaced by l.
LEMMA FinishedStream ==
  ASSUME CoreInv, caller.pc # "idle", NEW st \in StreamRec, Calm(st, stream[caller.s]),
         st.latest = stream[caller.s].latest, NEW answer, Finish(st, answer)
  PROVE  LET r == stream'[caller.s]
         IN /\ DOMAIN stream' = DOMAIN stream
            /\ \A t \in DOMAIN stream : t # caller.s => stream'[t] = stream[t]
            /\ Calm(r, stream[caller.s]) /\ r.latest = stream[caller.s].latest
            /\ r.done = answer /\ r.ids = st.ids /\ r.sigs = st.sigs /\ caller' = Idle
<1> DEFINE r == [CancelState(st) EXCEPT !.done = answer]
<1>1. /\ r.at = st.at /\ r.broken = st.broken /\ r.ok = st.ok /\ r.latest = st.latest
      /\ r.done = answer /\ r.ids = st.ids /\ r.sigs = st.sigs
  BY DEF StreamRec, CancelState
<1>2. stream' = [stream EXCEPT ![caller.s] = r] /\ caller' = Idle
  BY DEF Finish
<1> HIDE DEF r
<1>3. caller.s \in DOMAIN stream
  BY CallerStream
<1>4. stream'[caller.s] = r
  BY <1>2, <1>3 DEF CoreInv, Core, StreamsOK
<1>5. QED
  BY <1>1, <1>2, <1>4 DEF Calm

LEMMA PersistedPart ==
  ASSUME CoreInv, caller.pc = "persist"
  PROVE  LET parts == Target(stream[caller.s])
             part == parts[Len(caller.ids) + 1]
         IN /\ part \in AnyPart /\ PlainPart(part) \in AnyPart
            /\ PlainPart(part).text = part.text
            /\ Len(caller.ids) + 1 \in DOMAIN parts /\ caller.ids \in Seq(Nat)
<1> DEFINE parts == Target(stream[caller.s])
           n == Len(caller.ids)
<1>1. stream[caller.s] \in StreamRec
  BY CallerStream
<1>2. parts \in Seq(AnyPart)
  BY <1>1, PartsOf DEF Parts
<1>3. n < Len(parts) /\ caller.ids \in Seq(Nat) /\ n \in Nat
  BY DEF CoreInv, Core, CallerOK
<1> HIDE DEF parts, n
<1>4. n + 1 \in DOMAIN parts /\ parts[n + 1] \in AnyPart
  BY <1>2, <1>3
<1>5. PlainPart(parts[n + 1]) \in AnyPart /\ PlainPart(parts[n + 1]).text = parts[n + 1].text
  BY <1>4 DEF AnyPart, PlainPart
<1>6. QED
  BY <1>3, <1>4, <1>5 DEF parts, n

LEMMA CompletingCalls ==
  ASSUME CoreInv, Completing
  PROVE  /\ caller.pc # "idle" /\ DOMAIN stream' = DOMAIN stream
         /\ \A t \in DOMAIN stream : t # caller.s => stream'[t] = stream[t]
         /\ Calm(stream'[caller.s], stream[caller.s])
         /\ Touches(caller.s)
<1> DEFINE s == caller.s
           st == stream[s]
<1>1. caller.pc # "idle"
  BY DEF Completing, TasksSettled, CleanupStep, FinalFlushed, PersistPart
<1>2. s \in DOMAIN stream /\ st \in StreamRec /\ s \in Nat /\ ChatOK /\ StreamsOK
  BY <1>1, CallerStream DEF CoreInv, Core
<1>3. Calm(st, st)
  BY DEF Calm
<1> DEFINE Goal == /\ DOMAIN stream' = DOMAIN stream
                   /\ \A t \in DOMAIN stream : t # s => stream'[t] = stream[t]
                   /\ Calm(stream'[s], st)
<1>4. \A answer : Finish(st, answer) => Goal
  BY <1>1, <1>2, <1>3, FinishedStream
<1>5. ASSUME NEW l \in Seq(Nat), NEW g \in Parts, NEW answer,
             Finish([st EXCEPT !.ids = l, !.sigs = g], answer)
      PROVE  Goal
  <2> DEFINE r == [st EXCEPT !.ids = l, !.sigs = g]
  <2>1. r \in StreamRec /\ Calm(r, st) /\ r.latest = st.latest
    BY <1>2, <1>5 DEF StreamRec, Calm
  <2>2. Finish(r, answer)
    BY <1>5
  <2> HIDE DEF r
  <2>3. QED
    BY <1>1, <2>1, <2>2, FinishedStream
<1>6. CASE TasksSettled
  <2>1. UNCHANGED chat
    BY <1>6 DEF TasksSettled
  <2>2. CASE UNCHANGED stream
    BY <1>1, <1>3, <2>1, <2>2, UnchangedTouches
  <2>3. CASE stream' = [stream EXCEPT ![s].queued = @ + 1]
    <3>1. Goal
      BY <1>2, <2>3 DEF Calm, StreamRec, StreamsOK
    <3>2. QED
      BY <1>1, <2>1, <3>1, UnchangedTouches
  <2>4. CASE Finish(st, "unsent")
    BY <1>1, <1>4, <2>1, <2>4, UnchangedTouches
  <2>5. QED
    BY <1>6, <2>2, <2>3, <2>4 DEF TasksSettled
<1>7. CASE CleanupStep
  <2>1. UNCHANGED chat \/ \E m : chat' = [chat EXCEPT ![m].deleted = TRUE]
    BY <1>7 DEF CleanupStep, DeleteLast
  <2>2. Touches(s)
    BY <1>2, <2>1, DeletionUntouched
  <2>3. <<>> \in Parts /\ <<>> \in Seq(Nat)
    BY DEF Parts
  <2>4. Goal
    BY <1>3, <1>5, <1>7, <2>3 DEF CleanupStep
  <2>5. QED
    BY <1>1, <2>2, <2>4
<1>8. CASE FinalFlushed
  <2>1. Goal
    BY <1>3, <1>4, <1>8 DEF FinalFlushed
  <2>2. UNCHANGED chat
    BY <1>8 DEF FinalFlushed
  <2>3. QED
    BY <1>1, <2>1, <2>2, UnchangedTouches
<1>9. CASE PersistPart
  <2> DEFINE part == Target(st)[Len(caller.ids) + 1]
             l == Append(caller.ids, Len(chat) + 1)
  <2>1. part \in AnyPart /\ PlainPart(part) \in AnyPart /\ caller.ids \in Seq(Nat)
    BY <1>9, PersistedPart DEF PersistPart
  <2>2. UNCHANGED chat \/ \E p \in {part, PlainPart(part)}, acked \in BOOLEAN :
                            chat' = Append(chat, NewMessage(s, p, acked))
    BY <1>9 DEF PersistPart
  <2>3. Touches(s)
    BY <1>2, <2>1, <2>2, AdditionTouches, UnchangedTouches
  <2>4. UNCHANGED stream \/ Finish(st, "unsent") \/ Finish([st EXCEPT !.ids = l], "streamed")
    BY <1>9 DEF PersistPart
  <2>5. l \in Seq(Nat) /\ st.sigs \in Parts
    BY <1>2, <2>1 DEF ChatOK, StreamRec
  <2>6. [st EXCEPT !.ids = l] = [st EXCEPT !.ids = l, !.sigs = st.sigs]
    BY <1>2, <2>5 DEF StreamRec
  <2> HIDE DEF l
  <2>7. Goal
    BY <1>3, <1>4, <1>5, <2>4, <2>5, <2>6
  <2>8. QED
    BY <1>1, <2>3, <2>7
<1>10. QED
  BY <1>6, <1>7, <1>8, <1>9 DEF Completing
LEMMA UpdatedIsCalm ==
  ASSUME NEW st \in StreamRec, NEW p \in Payload
  PROVE  Calm(Updated(st, p), st)
<1> DEFINE q == [st EXCEPT !.latest = p]
           n == q.queued + 1
<1>1. q \in StreamRec /\ Calm(q, st)
  BY DEF StreamRec, Calm
<1>2. Updated(st, p) \in {q, [q EXCEPT !.timer = TRUE], [q EXCEPT !.queued = n]}
  BY DEF Updated, EnsureTimer
<1> HIDE DEF q, n
<1>3. QED
  BY <1>1, <1>2 DEF StreamRec, Calm

\* What complete has answered for stays as it is, and only complete answers.
LEMMA StepsSettle ==
  ASSUME CoreInv, OwnInv, StreamStep
  PROVE  /\ \A t \in DOMAIN stream : Settled(stream[t]) =>
              t \in DOMAIN stream' /\ stream'[t] = stream[t] /\ Untouched(t)
         /\ \A t \in DOMAIN stream' : Settled(stream'[t]) =>
              \/ t \in DOMAIN stream /\ Settled(stream[t])
              \/ Completing /\ t = caller.s
<1>1. /\ ChatOK /\ stream \in Seq(StreamRec)
      /\ \A t \in DOMAIN stream : Good(stream[t]) /\ stream[t] \in StreamRec
  BY DEF CoreInv, Core, StreamsOK, Good
<1> DEFINE Goal == /\ \A t \in DOMAIN stream : Settled(stream[t]) =>
                        t \in DOMAIN stream' /\ stream'[t] = stream[t] /\ Untouched(t)
                   /\ \A t \in DOMAIN stream' : Settled(stream'[t]) =>
                        \/ t \in DOMAIN stream /\ Settled(stream[t])
                        \/ Completing /\ t = caller.s
<1>2. ASSUME UNCHANGED chat, NEW s \in DOMAIN stream, ~Settled(stream[s]),
             DOMAIN stream' = DOMAIN stream, ~Settled(stream'[s]),
             \A t \in DOMAIN stream : t # s => stream'[t] = stream[t]
      PROVE  Goal
  BY <1>1, <1>2, DeletionUntouched
<1>3. ASSUME NEW s \in DOMAIN stream, Flushing(s)
      PROVE  Goal
  <2>1. PICK r : stream' = [stream EXCEPT ![s] = r] /\ Moves(stream[s], r)
    BY <1>3, FlushingMoves DEF CoreInv, Core
  <2>2. Touches(s)
    BY <1>3, FlushingTouches
  <2>3. ~Settled(stream[s]) /\ ~Settled(r)
    BY <1>1, <2>1 DEF Moves, Good, Settled
  <2>4. QED
    BY <1>1, <2>1, <2>2, <2>3, OthersUntouched
<1>4. CASE Completing
  <2>1. /\ caller.pc # "idle" /\ DOMAIN stream' = DOMAIN stream
        /\ \A t \in DOMAIN stream : t # caller.s => stream'[t] = stream[t]
        /\ Touches(caller.s)
    BY <1>4, CompletingCalls
  <2>2. ~Settled(stream[caller.s])
    BY <2>1, CallerStream DEF Settled
  <2>3. QED
    BY <1>4, <2>1, <2>2, OthersUntouched
<1>5. ASSUME NEW m \in DOMAIN chat, UserDeletes(m)
      PROVE  Goal
  BY <1>1, <1>5, DeletionUntouched DEF UserDeletes
<1>6. ASSUME NEW k \in Key, Complete(k)
      PROVE  Goal
  <2> DEFINE s == states[k]
  <2>1. s \in DOMAIN stream /\ stream[s].done = "open"
    BY <1>6 DEF CoreInv, Core, MapOK, StreamsOK, Complete
  <2>2. stream' = [stream EXCEPT ![s].timer = FALSE] /\ UNCHANGED chat
    BY <1>6 DEF Complete
  <2>3. stream'[s].done = "open"
    BY <1>1, <2>1, <2>2 DEF StreamRec
  <2>4. QED
    BY <1>1, <1>2, <2>1, <2>2, <2>3 DEF Settled
<1>7. ASSUME NEW k \in Key, NEW p \in Payload, Enqueue(k, p)
      PROVE  Goal
  <2>1. UNCHANGED chat
    BY <1>7 DEF Enqueue
  <2>2. CASE states[k] # 0
    <3> DEFINE s == states[k]
               r == Updated(stream[s], p)
    <3>1. s \in DOMAIN stream /\ stream[s].done = "open"
      BY <2>2 DEF CoreInv, Core, MapOK, StreamsOK
    <3>2. stream' = [stream EXCEPT ![s] = r]
      BY <1>7, <2>2, <3>1 DEF Enqueue, Updated
    <3>3. r.done = "open"
      BY <1>1, <3>1, UpdatedIsCovered
    <3> HIDE DEF r
    <3>4. QED
      BY <1>1, <1>2, <2>1, <3>1, <3>2, <3>3 DEF Settled
  <2>3. CASE states[k] = 0
    <3> DEFINE n == [NewState(k) EXCEPT !.latest = p]
               r == Updated(NewState(k), p)
    <3>1. stream' = Append(stream, r)
      BY <1>7, <2>3 DEF Enqueue, Updated
    <3>2. Good(n) /\ r = Updated(n, p) /\ n.done = "open"
      BY NewStateIsGood
    <3> HIDE DEF n, r
    <3>3. r.done = "open"
      BY <3>2, UpdatedIsCovered
    <3>4. \A t \in DOMAIN stream' : t \in DOMAIN stream \/ stream'[t] = r
      BY <1>1, <3>1
    <3>5. \A t \in DOMAIN stream : t \in DOMAIN stream' /\ stream'[t] = stream[t]
      BY <1>1, <3>1
    <3>6. QED
      BY <1>1, <2>1, <3>3, <3>4, <3>5, DeletionUntouched DEF Settled
  <2>4. QED
    BY <2>2, <2>3
<1>8. ASSUME NEW keys \in SUBSET Key, Clear(keys)
      PROVE  Goal
  <2>1. UNCHANGED chat /\ DOMAIN stream' = DOMAIN stream
        /\ \A t \in DOMAIN stream :
             stream'[t] = IF t \in Open(keys)
                          THEN [CancelState(stream[t]) EXCEPT !.done = "cleared"]
                          ELSE stream[t]
    BY <1>8 DEF Clear
  <2>2. ASSUME NEW t \in DOMAIN stream, t \in Open(keys)
        PROVE  ~Settled(stream[t]) /\ ~Settled(stream'[t])
    <3>1. stream[t].done = "open"
      BY <2>2 DEF Open, CoreInv, Core, MapOK
    <3>2. stream'[t] = [CancelState(stream[t]) EXCEPT !.done = "cleared"]
      BY <2>1, <2>2
    <3>3. stream'[t].done = "cleared"
      BY <1>1, <3>2 DEF StreamRec, CancelState
    <3>4. QED
      BY <3>1, <3>3 DEF Settled
  <2>3. \A t \in DOMAIN stream : t \notin Open(keys) => stream'[t] = stream[t]
    BY <2>1
  <2>4. \A t \in DOMAIN stream : Untouched(t)
    BY <1>1, <2>1, DeletionUntouched
  <2>5. QED
    BY <2>1, <2>2, <2>3, <2>4
<1>9. CASE UNCHANGED streamVars
  BY <1>1, <1>9, DeletionUntouched DEF streamVars
<1>10. QED
  BY <1>3, <1>4, <1>5, <1>6, <1>7, <1>8, <1>9 DEF StreamStep, Background

\* Every broken stream has failed its last flush.
HonestInv == \A s \in DOMAIN stream : Honest(stream[s])

LEMMA HonestNext ==
  ASSUME CoreInv, OwnInv, HonestInv, StreamStep
  PROVE  HonestInv'
<1>1. /\ ChatOK /\ stream \in Seq(StreamRec)
      /\ \A t \in DOMAIN stream : Good(stream[t]) /\ stream[t] \in StreamRec
  BY DEF CoreInv, Core, StreamsOK, Good
<1>2. ASSUME NEW s \in DOMAIN stream, Calm(stream'[s], stream[s]),
             DOMAIN stream' = DOMAIN stream,
             \A t \in DOMAIN stream : t # s => stream'[t] = stream[t]
      PROVE  HonestInv'
  <2>1. Honest(stream'[s])
    BY <1>2 DEF HonestInv, Honest, Calm
  <2>2. QED
    BY <1>2, <2>1 DEF HonestInv
<1>3. ASSUME NEW s \in DOMAIN stream, Flushing(s)
      PROVE  HonestInv'
  <2>1. PICK r : stream' = [stream EXCEPT ![s] = r] /\ Moves(stream[s], r)
    BY <1>3, FlushingMoves DEF CoreInv, Core
  <2>2. Honest(r)
    BY <2>1 DEF HonestInv, Moves
  <2>3. DOMAIN stream' = DOMAIN stream /\ stream'[s] = r
        /\ \A t \in DOMAIN stream : t # s => stream'[t] = stream[t]
    BY <1>1, <2>1
  <2>4. QED
    BY <2>2, <2>3 DEF HonestInv
<1>4. CASE Completing
  <2>1. caller.s \in DOMAIN stream
    BY <1>4, CompletingCalls, CallerStream
  <2>2. QED
    BY <1>2, <1>4, <2>1, CompletingCalls
<1>5. CASE UNCHANGED stream
  BY <1>5 DEF HonestInv
<1>6. ASSUME NEW k \in Key, Complete(k)
      PROVE  HonestInv'
  <2> DEFINE s == states[k]
  <2>1. s \in DOMAIN stream
    BY <1>6 DEF CoreInv, Core, MapOK, StreamsOK, Complete
  <2>2. stream' = [stream EXCEPT ![s].timer = FALSE]
    BY <1>6 DEF Complete
  <2>3. Calm(stream'[s], stream[s])
    BY <1>1, <2>1, <2>2 DEF StreamRec, Calm
  <2>4. QED
    BY <1>1, <1>2, <2>1, <2>2, <2>3
<1>7. ASSUME NEW k \in Key, NEW p \in Payload, Enqueue(k, p)
      PROVE  HonestInv'
  <2>1. CASE states[k] # 0
    <3> DEFINE s == states[k]
               r == Updated(stream[s], p)
    <3>1. s \in DOMAIN stream
      BY <2>1 DEF CoreInv, Core, MapOK, StreamsOK
    <3>2. stream' = [stream EXCEPT ![s] = r]
      BY <1>7, <2>1, <3>1 DEF Enqueue, Updated
    <3>3. Calm(r, stream[s])
      BY <1>1, <3>1, UpdatedIsCalm
    <3> HIDE DEF r
    <3>4. QED
      BY <1>1, <1>2, <3>1, <3>2, <3>3
  <2>2. CASE states[k] = 0
    <3> DEFINE n == [NewState(k) EXCEPT !.latest = p]
               r == Updated(NewState(k), p)
    <3>1. stream' = Append(stream, r)
      BY <1>7, <2>2 DEF Enqueue, Updated
    <3>2. Good(n) /\ r = Updated(n, p) /\ ~n.broken
      BY NewStateIsGood DEF NewState
    <3> HIDE DEF n, r
    <3>3. Honest(r)
      BY <3>2, UpdatedIsCalm DEF Calm, Good, Honest
    <3>4. \A t \in DOMAIN stream' :
            (t \in DOMAIN stream /\ stream'[t] = stream[t]) \/ stream'[t] = r
      BY <1>1, <3>1
    <3>5. QED
      BY <3>3, <3>4 DEF HonestInv
  <2>3. QED
    BY <2>1, <2>2
<1>8. ASSUME NEW keys \in SUBSET Key, Clear(keys)
      PROVE  HonestInv'
  <2>1. DOMAIN stream' = DOMAIN stream
        /\ \A t \in DOMAIN stream :
             stream'[t] \in {stream[t], [CancelState(stream[t]) EXCEPT !.done = "cleared"]}
    BY <1>8 DEF Clear
  <2>2. \A t \in DOMAIN stream :
          Calm([CancelState(stream[t]) EXCEPT !.done = "cleared"], stream[t])
    BY <1>1 DEF StreamRec, CancelState, Calm
  <2>3. QED
    BY <2>1, <2>2 DEF HonestInv, Honest, Calm
<1>9. QED
  BY <1>3, <1>4, <1>5, <1>6, <1>7, <1>8
     DEF StreamStep, Background, UserDeletes, streamVars

-----------------------------------------------------------------------------
(* The messages of a stream say what it has noted of them.                   *)

Accurate(s) ==
  LET st == stream[s]
  IN \A i \in DOMAIN st.ids :
       chat[st.ids[i]].acked => chat[st.ids[i]].part = st.sigs[i]

AccurateInv == ~Draft => \A s \in DOMAIN stream : Accurate(s)

LEMMA AccurateStays ==
  ASSUME NEW t, Owns(t), Accurate(t), Untouched(t),
         stream'[t].ids = stream[t].ids, stream'[t].sigs = stream[t].sigs
  PROVE  Accurate(t)'
BY DEF Owns, Accurate, Untouched

\* A call that Telegram confirmed is noted, and one it did not confirm leaves
\* the message it was for unconfirmed.
LEMMA ShownIsAccurate ==
  ASSUME ChatOK, StreamsOK, ~Draft, NEW s \in DOMAIN stream, Owns(s), Accurate(s), OnPart(s),
         NEW part \in AnyPart, NEW acked \in BOOLEAN, Show(s, part, acked),
         \/ /\ stream'[s].ids = Recorded(s, part).ids
            /\ stream'[s].sigs = Recorded(s, part).sigs
         \/ ~acked /\ stream'[s].ids = stream[s].ids /\ stream'[s].sigs = stream[s].sigs
  PROVE  Accurate(s)'
<1> DEFINE st == stream[s]
           ids == st.ids
           n == st.idx
           m == ids[n]
           new == Len(chat) + 1
<1>1. /\ st \in StreamRec /\ st.at = "call" /\ InCall(st) /\ s \in Nat
      /\ Len(st.ids) = Len(st.sigs) /\ Good(st)
  BY DEF StreamsOK, Owns, OnPart, Awaiting, Good
<1>2. ids \in Seq(Nat) /\ st.sigs \in Seq(AnyPart) /\ n \in Nat /\ n >= 1
  BY <1>1 DEF StreamRec, InCall, Parts
<1>3. CASE Editing(s)
  <2>1. n \in DOMAIN ids /\ n \in DOMAIN st.sigs /\ m \in DOMAIN chat /\ chat[m].stream = s
    BY <1>1, <1>2, <1>3 DEF Editing, Owns
  <2>2. chat' = [chat EXCEPT ![m] = [@ EXCEPT !.part = part, !.acked = acked]]
    BY <1>3 DEF Show
  <2>3. /\ \A k \in DOMAIN chat : k # m => chat'[k] = chat[k]
        /\ chat'[m].part = part /\ chat'[m].acked = acked
    <3>1. chat[m] \in Message
      BY <2>1 DEF ChatOK
    <3>2. QED
      BY <2>1, <2>2, <3>1 DEF ChatOK, Message
  <2>4. \A i \in DOMAIN ids : i # n => ids[i] # m /\ ids[i] \in DOMAIN chat
    BY <1>2, <2>1 DEF Owns
  <2>5. \A i \in DOMAIN ids : i # n /\ chat'[ids[i]].acked => chat'[ids[i]].part = st.sigs[i]
    BY <2>3, <2>4 DEF Accurate
  <2>6. CASE /\ stream'[s].ids = Recorded(s, part).ids
             /\ stream'[s].sigs = Recorded(s, part).sigs
    <3>1. stream'[s].ids = ids /\ stream'[s].sigs = [st.sigs EXCEPT ![n] = part]
      BY <1>1, <1>3, <2>6 DEF Recorded, StreamRec
    <3>2. QED
      BY <2>1, <2>3, <2>5, <3>1 DEF Accurate
  <2>7. CASE ~acked /\ stream'[s].ids = ids /\ stream'[s].sigs = st.sigs
    BY <2>3, <2>5, <2>7 DEF Accurate
  <2>8. QED
    BY <2>6, <2>7
<1>4. CASE ~Editing(s)
  <2>1. chat' = Append(chat, NewMessage(s, part, acked))
    BY <1>4 DEF Show
  <2>2. /\ \A k \in DOMAIN chat : chat'[k] = chat[k]
        /\ chat'[new].part = part /\ chat'[new].acked = acked
    BY <1>1, <2>1, AdditionTouches
  <2>3. \A i \in DOMAIN ids : chat'[ids[i]].acked => chat'[ids[i]].part = st.sigs[i]
    BY <2>2 DEF Accurate, Owns
  <2>4. CASE /\ stream'[s].ids = Recorded(s, part).ids
             /\ stream'[s].sigs = Recorded(s, part).sigs
    <3> DEFINE is == Append(ids, new)
               sg == Append(st.sigs, part)
    <3>1. stream'[s].ids = is /\ stream'[s].sigs = sg
      BY <1>1, <1>4, <2>4 DEF Recorded, StreamRec
    <3>2. new \in Nat
      BY DEF ChatOK
    <3> HIDE DEF new
    <3>3. /\ Len(is) = Len(ids) + 1 /\ is[Len(ids) + 1] = new /\ is \in Seq(Nat)
          /\ \A i \in 1..Len(ids) : is[i] = ids[i]
      BY <1>2, <3>2, AppendProperties
    <3>4. /\ sg[Len(st.sigs) + 1] = part
          /\ \A i \in 1..Len(st.sigs) : sg[i] = st.sigs[i]
      BY <1>2, AppendProperties
    <3> HIDE DEF is, sg
    <3>5. \A i \in DOMAIN is : i \in DOMAIN ids \/ i = Len(ids) + 1
      BY <1>2, <3>3
    <3>6. ASSUME NEW i \in DOMAIN is, chat'[is[i]].acked
          PROVE  chat'[is[i]].part = sg[i]
      <4>1. CASE i \in DOMAIN ids
        <5>1. i \in 1..Len(ids) /\ Len(ids) = Len(st.sigs)
          BY <1>1, <1>2, <4>1
        <5>2. is[i] = ids[i] /\ sg[i] = st.sigs[i]
          BY <3>3, <3>4, <5>1
        <5>3. QED
          BY <2>3, <3>6, <4>1, <5>2
      <4>2. CASE i = Len(ids) + 1
        <5>1. is[i] = new /\ sg[i] = part
          BY <1>1, <3>3, <3>4, <4>2
        <5>2. QED
          BY <2>2, <5>1
      <4>3. QED
        BY <3>5, <4>1, <4>2
    <3>7. QED
      BY <3>1, <3>6 DEF Accurate
  <2>5. CASE stream'[s].ids = ids /\ stream'[s].sigs = st.sigs
    BY <2>3, <2>5 DEF Accurate
  <2>6. QED
    BY <2>4, <2>5
<1>5. QED
  BY <1>3, <1>4

\* complete keeps the list of messages or, when it has cleaned up, drops it.
LEMMA CompletingLists ==
  ASSUME CoreInv, OwnInv, ~Draft, Completing
  PROVE  \/ stream'[caller.s].ids = <<>>
         \/ /\ stream'[caller.s].ids = stream[caller.s].ids
            /\ stream'[caller.s].sigs = stream[caller.s].sigs
<1> DEFINE s == caller.s
           st == stream[s]
<1>1. caller.pc \notin {"idle", "persist"}
  BY DEF Completing, TasksSettled, CleanupStep, FinalFlushed, PersistPart, OwnInv
<1>2. s \in DOMAIN stream /\ st \in StreamRec /\ StreamsOK
  BY <1>1, CallerStream DEF CoreInv, Core
<1>3. Calm(st, st)
  BY DEF Calm
<1>4. ASSUME NEW answer, Finish(st, answer)
      PROVE  stream'[s].ids = st.ids /\ stream'[s].sigs = st.sigs
  BY <1>1, <1>2, <1>3, <1>4, FinishedStream
<1>5. CASE TasksSettled
  <2>1. CASE stream' = [stream EXCEPT ![s].queued = @ + 1]
    BY <1>2, <2>1 DEF StreamRec, StreamsOK
  <2>2. QED
    BY <1>4, <1>5, <2>1 DEF TasksSettled
<1>6. CASE CleanupStep
  <2> DEFINE r == [st EXCEPT !.ids = <<>>, !.sigs = <<>>]
  <2>1. <<>> \in Parts /\ <<>> \in Seq(Nat)
    BY DEF Parts
  <2>2. r \in StreamRec /\ Calm(r, st) /\ r.latest = st.latest /\ r.ids = <<>>
    BY <1>2, <2>1 DEF StreamRec, Calm
  <2>3. UNCHANGED stream \/ Finish(r, "unsent")
    BY <1>6 DEF CleanupStep
  <2> HIDE DEF r
  <2>4. QED
    BY <1>1, <2>2, <2>3, FinishedStream
<1>7. CASE FinalFlushed
  BY <1>4, <1>7 DEF FinalFlushed
<1>8. QED
  BY <1>1, <1>5, <1>6, <1>7 DEF Completing, PersistPart

\* A deleted message, with its signature dropped or kept.
LEMMA DeletionIsAccurate ==
  ASSUME ChatOK, StreamsOK, NEW s \in DOMAIN stream, Owns(s), Accurate(s),
         stream[s].ids # <<>>, DeleteLast(stream[s].ids),
         \/ /\ stream'[s].ids = Front(stream[s].ids)
            /\ stream'[s].sigs = Front(stream[s].sigs)
         \/ stream'[s].ids = stream[s].ids /\ stream'[s].sigs = stream[s].sigs
  PROVE  Accurate(s)'
<1> DEFINE st == stream[s]
<1>1. st.ids \in Seq(Nat) /\ st.sigs \in Seq(AnyPart) /\ Len(st.ids) = Len(st.sigs)
  BY DEF StreamsOK, Good, StreamRec, Parts, Owns
<1>2. \A n \in DOMAIN chat : chat'[n].part = chat[n].part /\ chat'[n].acked = chat[n].acked
  BY DeletionTouches DEF DeleteLast
<1>3. \A i \in DOMAIN st.ids : chat'[st.ids[i]].acked => chat'[st.ids[i]].part = st.sigs[i]
  BY <1>2 DEF Accurate, Owns
<1>4. CASE stream'[s].ids = Front(st.ids) /\ stream'[s].sigs = Front(st.sigs)
  <2>1. \A i \in DOMAIN Front(st.ids) : i \in DOMAIN st.ids /\ Front(st.ids)[i] = st.ids[i]
    BY <1>1, FrontMembers
  <2>2. DOMAIN Front(st.sigs) = DOMAIN Front(st.ids)
    <3>1. st.sigs # <<>>
      BY <1>1
    <3>2. /\ Len(Front(st.ids)) = Len(st.ids) - 1 /\ Front(st.ids) \in Seq(Nat)
          /\ Len(Front(st.sigs)) = Len(st.sigs) - 1 /\ Front(st.sigs) \in Seq(AnyPart)
      BY <1>1, <3>1, FrontOf
    <3>3. QED
      BY <1>1, <3>2
  <2>3. \A i \in DOMAIN Front(st.sigs) : Front(st.sigs)[i] = st.sigs[i]
    BY <1>1, FrontMembers
  <2>4. QED
    BY <1>3, <1>4, <2>1, <2>2, <2>3 DEF Accurate
<1>5. CASE stream'[s].ids = st.ids /\ stream'[s].sigs = st.sigs
  BY <1>3, <1>5 DEF Accurate
<1>6. QED
  BY <1>4, <1>5

LEMMA FlushingKeepsAccurate ==
  ASSUME CoreInv, OwnInv, ~Draft, AccurateInv, NEW s \in DOMAIN stream, Flushing(s)
  PROVE  Accurate(s)'
<1> DEFINE st == stream[s]
<1>1. StreamsOK /\ ChatOK /\ Good(st) /\ s \in Nat /\ Owns(s) /\ Accurate(s)
  BY DEF CoreInv, Core, StreamsOK, OwnInv, AccurateInv
<1>2. PICK r : stream' = [stream EXCEPT ![s] = r] /\ Notes(s, r)
  BY <1>1, FlushingMoves
<1>3. stream'[s] = r
  BY <1>1, <1>2 DEF StreamsOK
<1>4. CASE UNCHANGED chat /\ r.ids = st.ids /\ r.sigs = st.sigs
  BY <1>1, <1>3, <1>4 DEF Accurate
<1>5. CASE OnPart(s) /\ \E part \in {CurrentPart(s), PlainPart(CurrentPart(s))} :
             /\ Show(s, part, TRUE)
             /\ r.ids = Recorded(s, part).ids /\ r.sigs = Recorded(s, part).sigs
  <2>1. PICK part \in {CurrentPart(s), PlainPart(CurrentPart(s))} :
             /\ Show(s, part, TRUE)
             /\ r.ids = Recorded(s, part).ids /\ r.sigs = Recorded(s, part).sigs
    BY <1>5
  <2>2. part \in AnyPart
    BY <1>1, <1>5, CallPart
  <2>3. QED
    BY <1>1, <1>3, <1>5, <2>1, <2>2, ShownIsAccurate
<1>6. CASE OnPart(s) /\ Show(s, CurrentPart(s), FALSE) /\ r.ids = st.ids /\ r.sigs = st.sigs
  BY <1>1, <1>3, <1>6, CallPart, ShownIsAccurate
<1>7. CASE /\ OnSurplus(s) /\ DeleteLast(st.ids)
           /\ \/ r.ids = Front(st.ids) /\ r.sigs = Front(st.sigs)
              \/ r.ids = st.ids /\ r.sigs = st.sigs
  <2>1. st.ids # <<>>
    BY <1>1, <1>7, BusyStream DEF OnSurplus, Awaiting, Tasks, Good, InCall, StreamRec, Parts
  <2>2. QED
    BY <1>1, <1>3, <1>7, <2>1, DeletionIsAccurate
<1>8. QED
  BY <1>2, <1>4, <1>5, <1>6, <1>7 DEF Notes

LEMMA StepKeepsMode == ASSUME CoreInv, StreamStep PROVE mode' = mode
<1>1. ASSUME NEW s \in DOMAIN stream, Flushing(s)
      PROVE  mode' = mode
  BY <1>1, FlushingMoves DEF CoreInv, Core
<1>2. QED
  BY <1>1 DEF StreamStep, Background, Completing, TasksSettled, CleanupStep, FinalFlushed,
              PersistPart, UserDeletes, Complete, Enqueue, Clear, streamVars

LEMMA AccurateNext ==
  ASSUME CoreInv, OwnInv, AccurateInv, StreamStep
  PROVE  AccurateInv'
<1>1. /\ ChatOK /\ stream \in Seq(StreamRec)
      /\ \A t \in DOMAIN stream : Good(stream[t]) /\ stream[t] \in StreamRec
  BY DEF CoreInv, Core, StreamsOK, Good
<1>2. Draft' = Draft
  BY StepKeepsMode DEF Draft
<1> SUFFICES ASSUME ~Draft
             PROVE  \A t \in DOMAIN stream' : Accurate(t)'
  BY <1>2 DEF AccurateInv
<1>3. ASSUME UNCHANGED chat \/ \E m : chat' = [chat EXCEPT ![m].deleted = TRUE],
             \A t \in DOMAIN stream' :
               \/ t \in DOMAIN stream /\ stream'[t].ids = stream[t].ids
                                      /\ stream'[t].sigs = stream[t].sigs
               \/ stream'[t].ids = <<>>
      PROVE  \A t \in DOMAIN stream' : Accurate(t)'
  <2> TAKE t \in DOMAIN stream'
  <2>1. CASE t \in DOMAIN stream /\ stream'[t].ids = stream[t].ids
             /\ stream'[t].sigs = stream[t].sigs
    BY <1>1, <1>3, <2>1, DeletionUntouched, AccurateStays DEF OwnInv, AccurateInv
  <2>2. CASE stream'[t].ids = <<>>
    BY <2>2 DEF Accurate
  <2>3. QED
    BY <1>3, <2>1, <2>2
<1>4. ASSUME NEW s \in DOMAIN stream, Flushing(s)
      PROVE  \A t \in DOMAIN stream' : Accurate(t)'
  <2>1. PICK r : stream' = [stream EXCEPT ![s] = r]
    BY <1>4, FlushingMoves DEF CoreInv, Core
  <2>2. DOMAIN stream' = DOMAIN stream
        /\ \A t \in DOMAIN stream : t # s => stream'[t] = stream[t]
    BY <1>1, <2>1
  <2>3. Accurate(s)'
    BY <1>4, FlushingKeepsAccurate
  <2>4. Touches(s)
    BY <1>4, FlushingTouches
  <2>5. ASSUME NEW t \in DOMAIN stream, t # s
        PROVE  Accurate(t)'
    <3>1. Untouched(t)
      BY <2>4, <2>5, OthersUntouched
    <3>2. QED
      BY <2>2, <2>5, <3>1, AccurateStays DEF OwnInv, AccurateInv
  <2>6. QED
    BY <2>2, <2>3, <2>5
<1>5. CASE Completing
  <2>1. UNCHANGED chat \/ \E m : chat' = [chat EXCEPT ![m].deleted = TRUE]
    BY <1>5 DEF Completing, TasksSettled, CleanupStep, DeleteLast, FinalFlushed, PersistPart,
                OwnInv
  <2>2. /\ DOMAIN stream' = DOMAIN stream /\ caller.pc # "idle"
        /\ \A t \in DOMAIN stream : t # caller.s => stream'[t] = stream[t]
    BY <1>5, CompletingCalls
  <2>3. \/ stream'[caller.s].ids = <<>>
        \/ /\ stream'[caller.s].ids = stream[caller.s].ids
           /\ stream'[caller.s].sigs = stream[caller.s].sigs
    BY <1>5, CompletingLists
  <2>4. QED
    BY <1>3, <2>1, <2>2, <2>3
<1>6. ASSUME NEW m \in DOMAIN chat, UserDeletes(m)
      PROVE  \A t \in DOMAIN stream' : Accurate(t)'
  BY <1>3, <1>6 DEF UserDeletes
<1>7. ASSUME NEW k \in Key, Complete(k)
      PROVE  \A t \in DOMAIN stream' : Accurate(t)'
  <2>1. UNCHANGED chat /\ stream' = [stream EXCEPT ![states[k]].timer = FALSE]
    BY <1>7 DEF Complete
  <2>2. DOMAIN stream' = DOMAIN stream /\ \A t \in DOMAIN stream :
          stream'[t].ids = stream[t].ids /\ stream'[t].sigs = stream[t].sigs
    BY <1>1, <2>1 DEF StreamRec
  <2>3. QED
    BY <1>3, <2>1, <2>2
<1>8. ASSUME NEW k \in Key, NEW p \in Payload, Enqueue(k, p)
      PROVE  \A t \in DOMAIN stream' : Accurate(t)'
  <2>1. UNCHANGED chat
    BY <1>8 DEF Enqueue
  <2>2. CASE states[k] # 0
    <3> DEFINE s == states[k]
               r == Updated(stream[s], p)
    <3>1. s \in DOMAIN stream /\ stream[s].done = "open"
      BY <2>2 DEF CoreInv, Core, MapOK, StreamsOK
    <3>2. stream' = [stream EXCEPT ![s] = r]
      BY <1>8, <2>2, <3>1 DEF Enqueue, Updated
    <3>3. r.ids = stream[s].ids /\ r.sigs = stream[s].sigs
      BY <1>1, <3>1, UpdatedIsCovered
    <3> HIDE DEF r
    <3>4. QED
      BY <1>1, <1>3, <2>1, <3>1, <3>2, <3>3
  <2>3. CASE states[k] = 0
    <3> DEFINE n == [NewState(k) EXCEPT !.latest = p]
               r == Updated(NewState(k), p)
    <3>1. stream' = Append(stream, r)
      BY <1>8, <2>3 DEF Enqueue, Updated
    <3>2. Good(n) /\ r = Updated(n, p) /\ n.done = "open" /\ n.ids = <<>>
      BY NewStateIsGood
    <3> HIDE DEF n, r
    <3>3. r.ids = <<>>
      BY <3>2, UpdatedIsCovered
    <3>4. \A t \in DOMAIN stream' :
            (t \in DOMAIN stream /\ stream'[t] = stream[t]) \/ stream'[t] = r
      BY <1>1, <3>1
    <3>5. QED
      BY <1>3, <2>1, <3>3, <3>4
  <2>4. QED
    BY <2>2, <2>3
<1>9. ASSUME NEW keys \in SUBSET Key, Clear(keys)
      PROVE  \A t \in DOMAIN stream' : Accurate(t)'
  <2>1. UNCHANGED chat /\ DOMAIN stream' = DOMAIN stream
        /\ \A t \in DOMAIN stream :
             stream'[t] \in {stream[t], [CancelState(stream[t]) EXCEPT !.done = "cleared"]}
    BY <1>9 DEF Clear
  <2>2. \A t \in DOMAIN stream :
          LET c == [CancelState(stream[t]) EXCEPT !.done = "cleared"]
          IN c.ids = stream[t].ids /\ c.sigs = stream[t].sigs
    BY <1>1 DEF StreamRec, CancelState
  <2>3. \A t \in DOMAIN stream :
          stream'[t].ids = stream[t].ids /\ stream'[t].sigs = stream[t].sigs
    BY <2>1, <2>2
  <2>4. QED
    BY <1>3, <2>1, <2>3
<1>10. CASE UNCHANGED streamVars
  BY <1>3, <1>10 DEF streamVars
<1>11. QED
  BY <1>4, <1>5, <1>6, <1>7, <1>8, <1>9, <1>10 DEF StreamStep, Background

-----------------------------------------------------------------------------
(* What complete reports as streamed is on screen.                           *)

\* A streamed reply is shown, by messages of its own stream.
Kept(s) ==
  stream[s].done = "streamed" =>
    Shown(s) /\ \A i \in DOMAIN stream[s].ids : chat[stream[s].ids[i]].stream = s

\* A draft is in the chat only as far as its final persisting has come.
PersistInv ==
  Draft =>
    /\ \A m \in DOMAIN chat :
         \/ Settled(stream[chat[m].stream])
         \/ caller.pc = "persist" /\ caller.s = chat[m].stream /\ m \in Range(caller.ids)
    /\ caller.pc = "persist" => \A i \in DOMAIN caller.ids :
         /\ caller.ids[i] \in DOMAIN chat
         /\ chat[caller.ids[i]].stream = caller.s
         /\ chat[caller.ids[i]].part.text = Target(stream[caller.s])[i].text

KeptInv == \A s \in DOMAIN stream : Kept(s)

ShownInv == HonestInv /\ AccurateInv /\ PersistInv /\ KeptInv

LEMMA KeptStays ==
  ASSUME NEW t, Kept(t), Untouched(t), stream'[t] = stream[t]
  PROVE  Kept(t)'
<1> SUFFICES ASSUME stream[t].done = "streamed"
             PROVE  /\ Shown(t)'
                    /\ \A i \in DOMAIN stream[t].ids : chat'[stream[t].ids[i]].stream = t
  BY DEF Kept
<1> DEFINE st == stream[t]
<1>1. \A i \in DOMAIN st.ids : chat[st.ids[i]].stream = t
  BY DEF Kept
<1>2. PICK parts \in {st.latest, Plain[st.latest]} :
        /\ Len(parts) = Len(st.ids)
        /\ \A i \in DOMAIN parts :
             /\ st.ids[i] \in DOMAIN chat
             /\ chat[st.ids[i]].acked => chat[st.ids[i]].part.text = parts[i].text
  BY DEF Kept, Shown
<1>3. Visible(t) \subseteq Range(st.ids)
  BY DEF Kept, Shown
<1>4. Visible(t)' \subseteq Visible(t)
  BY DEF Visible, Untouched
<1>5. QED
  BY <1>1, <1>2, <1>3, <1>4 DEF Shown, Untouched

\* What complete finds when the last flush is through.
LEMMA FinalIsShown ==
  ASSUME CoreInv, OwnInv, HonestInv, AccurateInv, FinalFlushed,
         NEW s, s = caller.s, stream'[s].done = "streamed"
  PROVE  Kept(s)'
<1> DEFINE st == stream[s]
<1>1. /\ caller.pc = "final" /\ s \in DOMAIN stream /\ st.done = "open" /\ st \in StreamRec
      /\ ~st.timer /\ ~Tasks(st) /\ st.latest \in Payload /\ st.sigs \in Parts
  BY CallerStream DEF FinalFlushed, CoreInv, Core, CallerOK, StreamRec
<1>2. ~(Draft /\ st.ok) /\ Finish(st, Answer(st.ok)) /\ UNCHANGED chat
  BY <1>1 DEF FinalFlushed
<1>3. /\ stream'[s].done = Answer(st.ok) /\ stream'[s].ids = st.ids
      /\ stream'[s].latest = st.latest
  BY <1>1, <1>2, FinishedStream DEF Calm
<1>4. st.ok /\ ~Draft /\ ~st.broken
  BY <1>1, <1>2, <1>3 DEF Answer, HonestInv, Honest
<1>5. Says(st.sigs, st.latest)
  <2>1. Covered(st)
    BY <1>1, <1>4 DEF CoreInv, Core, UpdatesOK
  <2>2. QED
    BY <1>1, <2>1 DEF Covered, Tasks, StreamRec
<1>6. PICK parts \in {st.latest, Plain[st.latest]} : Texts(st.sigs) = Texts(parts)
  BY <1>5 DEF Says
<1>7. parts \in Parts
  BY <1>1, <1>6, StreamerAssumption
<1>8. DOMAIN parts = DOMAIN st.sigs /\ \A i \in DOMAIN parts : parts[i].text = st.sigs[i].text
  BY <1>6 DEF Texts
<1>9. /\ Len(st.ids) = Len(st.sigs) /\ st.ids \in Seq(Nat)
      /\ \A i \in DOMAIN st.ids : st.ids[i] \in DOMAIN chat /\ chat[st.ids[i]].stream = s
      /\ Visible(s) \subseteq Range(st.ids)
  BY <1>1, <1>4 DEF OwnInv, Owns, StreamRec
<1>10. Len(parts) = Len(st.ids) /\ DOMAIN parts = DOMAIN st.ids
  BY <1>1, <1>7, <1>8, <1>9 DEF Parts
<1>11. \A i \in DOMAIN parts :
         /\ st.ids[i] \in DOMAIN chat
         /\ chat[st.ids[i]].acked => chat[st.ids[i]].part.text = parts[i].text
  BY <1>1, <1>4, <1>8, <1>9, <1>10 DEF AccurateInv, Accurate
<1>12. Visible(s)' = Visible(s)
  BY <1>2 DEF Visible
<1>13. Shown(s)'
  <2> DEFINE r == stream'[s]
  <2>1. /\ parts \in {r.latest, Plain[r.latest]} /\ Len(parts) = Len(r.ids)
        /\ \A i \in DOMAIN parts :
             /\ r.ids[i] \in DOMAIN chat'
             /\ chat'[r.ids[i]].acked => chat'[r.ids[i]].part.text = parts[i].text
    BY <1>2, <1>3, <1>6, <1>10, <1>11
  <2>2. Visible(s)' \subseteq Range(r.ids)
    BY <1>3, <1>9, <1>12
  <2>3. QED
    BY <2>1, <2>2 DEF Shown
<1>14. QED
  BY <1>2, <1>3, <1>9, <1>13 DEF Kept

\* The messages of the part that is persisted and of those before it.
LEMMA PersistedSoFar ==
  ASSUME CoreInv, OwnInv, PersistInv, caller.pc = "persist",
         NEW p \in AnyPart, p.text = Target(stream[caller.s])[Len(caller.ids) + 1].text,
         chat' = Append(chat, NewMessage(caller.s, p, TRUE))
  PROVE  LET l == Append(caller.ids, Len(chat) + 1)
         IN /\ Len(l) = Len(caller.ids) + 1
            /\ \A i \in DOMAIN l : /\ l[i] \in DOMAIN chat'
                                   /\ chat'[l[i]].stream = caller.s
                                   /\ chat'[l[i]].part.text = Target(stream[caller.s])[i].text
            /\ Range(l) = Range(caller.ids) \cup {Len(chat) + 1}
<1> DEFINE s == caller.s
           new == Len(chat) + 1
           l == Append(caller.ids, new)
           n == Len(caller.ids)
           parts == Target(stream[s])
<1>1. s \in Nat /\ ChatOK /\ Draft
  BY CallerStream DEF CoreInv, OwnInv
<1>2. /\ DOMAIN chat' = DOMAIN chat \cup {new} /\ new \notin DOMAIN chat /\ Len(chat) \in Nat
      /\ \A k \in DOMAIN chat : chat'[k] = chat[k]
      /\ chat'[new].stream = s /\ chat'[new].part = p
  BY <1>1, AdditionTouches
<1>3. new \in Nat /\ caller.ids \in Seq(Nat) /\ n \in Nat
  BY <1>2 DEF CoreInv, Core, CallerOK
<1>4. \A i \in DOMAIN caller.ids : /\ caller.ids[i] \in DOMAIN chat
                                   /\ chat[caller.ids[i]].stream = s
                                   /\ chat[caller.ids[i]].part.text = parts[i].text
  BY <1>1 DEF PersistInv
<1> HIDE DEF new, parts
<1>5. /\ Len(l) = n + 1 /\ l[n + 1] = new /\ l \in Seq(Nat)
      /\ \A i \in 1..n : l[i] = caller.ids[i]
  BY <1>3, AppendProperties
<1> HIDE DEF l
<1>6. DOMAIN caller.ids = 1..n /\ DOMAIN l = 1..(n + 1)
  BY <1>3, <1>5
<1> HIDE DEF n
<1>7. /\ \A i \in DOMAIN l : i \in 1..n \/ i = n + 1
      /\ 1..n \subseteq DOMAIN l /\ n + 1 \in DOMAIN l
  BY <1>3, <1>6
<1>8. ASSUME NEW i \in DOMAIN l
      PROVE  /\ l[i] \in DOMAIN chat' /\ chat'[l[i]].stream = s
             /\ chat'[l[i]].part.text = parts[i].text
  <2>1. CASE i \in 1..n
    <3>1. l[i] = caller.ids[i] /\ i \in DOMAIN caller.ids
      BY <1>5, <1>6, <2>1
    <3>2. /\ l[i] \in DOMAIN chat /\ chat[l[i]].stream = s
          /\ chat[l[i]].part.text = parts[i].text
      BY <1>4, <3>1
    <3>3. QED
      BY <1>2, <3>2
  <2>2. CASE i = n + 1
    <3>1. l[i] = new /\ p.text = parts[n + 1].text
      BY <1>5, <2>2 DEF parts, n
    <3>2. QED
      BY <1>2, <2>2, <3>1
  <2>3. QED
    BY <1>7, <2>1, <2>2
<1>9. Range(l) = Range(caller.ids) \cup {new}
  BY <1>5, <1>6, <1>7 DEF Range
<1>10. QED
  BY <1>5, <1>8, <1>9 DEF l, n, new, parts

\* The last part has been persisted.
LEMMA PersistIsShown ==
  ASSUME CoreInv, OwnInv, PersistInv, PersistPart,
         NEW s, s = caller.s, stream'[s].done = "streamed"
  PROVE  Kept(s)'
<1> DEFINE st == stream[s]
           parts == Target(st)
           part == parts[Len(caller.ids) + 1]
           l == Append(caller.ids, Len(chat) + 1)
           r == [st EXCEPT !.ids = l]
<1>1. /\ caller.pc = "persist" /\ s \in DOMAIN stream /\ st.done = "open" /\ st \in StreamRec
      /\ s \in Nat /\ Draft
  BY CallerStream DEF PersistPart, OwnInv
<1>2. /\ part \in AnyPart /\ PlainPart(part) \in AnyPart /\ PlainPart(part).text = part.text
      /\ caller.ids \in Seq(Nat)
  BY <1>1, PersistedPart
<1>3. l \in Seq(Nat)
  BY <1>2 DEF CoreInv, ChatOK
<1>4. ~Finish(st, "unsent")
  <2>1. Calm(st, st)
    BY DEF Calm
  <2>2. QED
    BY <1>1, <2>1, FinishedStream
<1>5. PICK p \in {part, PlainPart(part)} :
        /\ chat' = Append(chat, NewMessage(s, p, TRUE))
        /\ Len(l) = Len(parts) /\ Finish(r, "streamed")
  BY <1>1, <1>4 DEF PersistPart
<1>6. p \in AnyPart /\ p.text = part.text
  BY <1>2
<1>7. /\ \A i \in DOMAIN l : /\ l[i] \in DOMAIN chat' /\ chat'[l[i]].stream = s
                             /\ chat'[l[i]].part.text = parts[i].text
      /\ Range(l) = Range(caller.ids) \cup {Len(chat) + 1}
  BY <1>1, <1>5, <1>6, PersistedSoFar
<1> HIDE DEF l
<1>8. /\ stream'[s].ids = l /\ stream'[s].latest = st.latest
  <2>1. r \in StreamRec /\ Calm(r, st) /\ r.latest = st.latest /\ r.ids = l
    BY <1>1, <1>3 DEF StreamRec, Calm
  <2> HIDE DEF r
  <2>2. QED
    BY <1>1, <1>5, <2>1, FinishedStream
<1>9. parts \in {st.latest, Plain[st.latest]} /\ parts \in Parts /\ DOMAIN parts = DOMAIN l
  <2>1. parts \in {st.latest, Plain[st.latest]}
    BY DEF Target, toPlainPayload
  <2>2. parts \in Parts
    BY <1>1, PartsOf
  <2>3. QED
    BY <1>3, <1>5, <2>1, <2>2 DEF Parts
<1>10. Visible(s)' \subseteq Range(l)
  <2>1. \A m \in DOMAIN chat : chat[m].stream = s => m \in Range(caller.ids)
    BY <1>1 DEF PersistInv, Settled
  <2>2. /\ DOMAIN chat' = DOMAIN chat \cup {Len(chat) + 1}
        /\ \A k \in DOMAIN chat : chat'[k] = chat[k]
    BY <1>1, <1>5, <1>6, AdditionTouches DEF CoreInv
  <2>3. QED
    BY <1>7, <2>1, <2>2 DEF Visible
<1> HIDE DEF parts, part, r
<1>11. Shown(s)'
  <2>1. \A i \in DOMAIN parts : l[i] \in DOMAIN chat' /\ chat'[l[i]].part.text = parts[i].text
    BY <1>7, <1>9
  <2>2. \E q \in {st.latest, Plain[st.latest]} :
          /\ Len(q) = Len(l)
          /\ \A i \in DOMAIN q :
               /\ l[i] \in DOMAIN chat'
               /\ chat'[l[i]].acked => chat'[l[i]].part.text = q[i].text
    BY <1>5, <1>9, <2>1
  <2>3. QED
    BY <1>8, <1>10, <2>2 DEF Shown
<1>12. QED
  BY <1>7, <1>8, <1>11 DEF Kept

LEMMA KeptNext ==
  ASSUME CoreInv, OwnInv, ShownInv, StreamStep
  PROVE  KeptInv'
<1> SUFFICES ASSUME NEW t \in DOMAIN stream', stream'[t].done = "streamed"
             PROVE  Kept(t)'
  BY DEF KeptInv, Kept
<1>1. CASE t \in DOMAIN stream /\ Settled(stream[t])
  BY <1>1, StepsSettle, KeptStays DEF ShownInv, KeptInv
<1>2. CASE ~(t \in DOMAIN stream /\ Settled(stream[t]))
  <2>1. Completing /\ t = caller.s
    BY <1>2, StepsSettle DEF Settled
  <2>2. caller.pc # "idle" /\ stream[t].done = "open" /\ stream[t] \in StreamRec
        /\ t \in DOMAIN stream /\ StreamsOK
    BY <2>1, CompletingCalls, CallerStream DEF CoreInv, Core
  <2>3. \A st \in StreamRec : Calm(st, stream[t]) /\ st.latest = stream[t].latest
          => ~Finish(st, "unsent")
    BY <2>1, <2>2, FinishedStream
  <2>4. Calm(stream[t], stream[t])
    BY DEF Calm
  <2>5. ~TasksSettled
    <3>1. stream' # stream
      BY <2>2
    <3>2. stream' # [stream EXCEPT ![t].queued = @ + 1]
      BY <2>2 DEF StreamRec, StreamsOK
    <3>3. QED
      BY <2>1, <2>2, <2>3, <2>4, <3>1, <3>2 DEF TasksSettled
  <2>6. ~CleanupStep
    <3> DEFINE r == [stream[t] EXCEPT !.ids = <<>>, !.sigs = <<>>]
    <3>1. <<>> \in Parts /\ <<>> \in Seq(Nat)
      BY DEF Parts
    <3>2. r \in StreamRec /\ Calm(r, stream[t]) /\ r.latest = stream[t].latest
      BY <2>2, <3>1 DEF StreamRec, Calm
    <3> HIDE DEF r
    <3>3. ~Finish(r, "unsent") /\ stream' # stream
      BY <2>2, <2>3, <3>2
    <3>4. QED
      BY <2>1, <3>3 DEF CleanupStep, r
  <2>7. QED
    BY <2>1, <2>5, <2>6, FinalIsShown, PersistIsShown DEF Completing, ShownInv
<1>3. QED
  BY <1>1, <1>2

-----------------------------------------------------------------------------
(* What of a draft is in the chat.                                           *)

\* Nothing is persisted by the step, and no answered stream is touched.
LEMMA PersistStays ==
  ASSUME CoreInv, OwnInv, PersistInv, Draft => caller.pc # "persist", mode' = mode,
         caller'.pc = "persist" => caller'.ids = <<>>,
         Draft => DOMAIN chat' = DOMAIN chat
                  /\ \A m \in DOMAIN chat : chat'[m].stream = chat[m].stream,
         \A t \in DOMAIN stream : Settled(stream[t]) => Settled(stream'[t])
  PROVE  PersistInv'
<1> SUFFICES ASSUME Draft
             PROVE  /\ \A m \in DOMAIN chat' : Settled(stream'[chat'[m].stream])
                    /\ caller'.pc = "persist" => DOMAIN caller'.ids = {}
  BY DEF PersistInv, Draft
<1>1. \A m \in DOMAIN chat : chat[m].stream \in DOMAIN stream /\ Settled(stream[chat[m].stream])
  BY DEF OwnInv, PersistInv
<1>2. QED
  BY <1>1

\* One more part, or the end of it.
LEMMA PersistKeepsDrafts ==
  ASSUME CoreInv, OwnInv, PersistInv, PersistPart
  PROVE  PersistInv'
<1> DEFINE s == caller.s
           st == stream[s]
           parts == Target(st)
           part == parts[Len(caller.ids) + 1]
           l == Append(caller.ids, Len(chat) + 1)
<1>1. /\ caller.pc = "persist" /\ s \in DOMAIN stream /\ st.done = "open" /\ st \in StreamRec
      /\ s \in Nat /\ Draft /\ ChatOK /\ StreamsOK
  BY CallerStream DEF PersistPart, OwnInv, CoreInv, Core
<1>2. /\ part \in AnyPart /\ PlainPart(part) \in AnyPart /\ PlainPart(part).text = part.text
      /\ caller.ids \in Seq(Nat)
  BY <1>1, PersistedPart
<1>3. mode' = mode
  BY DEF PersistPart
<1>4. Draft'
  BY <1>1, <1>3 DEF Draft
<1>5. UNCHANGED chat \/ \E p \in {part, PlainPart(part)}, acked \in BOOLEAN :
                          chat' = Append(chat, NewMessage(s, p, acked))
  BY DEF PersistPart
<1>6. \A m \in DOMAIN chat' :
        \/ m \in DOMAIN chat /\ chat'[m].stream = chat[m].stream
        \/ chat'[m].stream = s
  BY <1>1, <1>2, <1>5, AdditionTouches
<1>7. \A m \in DOMAIN chat : Settled(stream[chat[m].stream]) \/ chat[m].stream = s
  BY <1>1 DEF PersistInv
<1>8. ASSUME caller' = Idle, Settled(stream'[s]),
             \A t \in DOMAIN stream : Settled(stream[t]) => Settled(stream'[t])
      PROVE  PersistInv'
  <2>1. \A m \in DOMAIN chat' : Settled(stream'[chat'[m].stream])
    BY <1>6, <1>7, <1>8 DEF OwnInv
  <2>2. QED
    BY <1>8, <2>1, IdleCaller DEF PersistInv
<1>9. CASE \E answer : Settled([done |-> answer]) /\ stream'[s].done = answer /\ caller' = Idle
  <2>1. \A t \in DOMAIN stream : Settled(stream[t]) => Settled(stream'[t])
    BY <1>9, StepsSettle DEF StreamStep, Background, Completing
  <2>2. QED
    BY <1>8, <1>9, <2>1 DEF Settled
<1>10. CASE Finish(st, "unsent")
  <2>1. Calm(st, st)
    BY DEF Calm
  <2>2. stream'[s].done = "unsent" /\ caller' = Idle
    BY <1>1, <1>10, <2>1, FinishedStream
  <2>3. QED
    BY <1>9, <2>2 DEF Settled
<1>11. CASE Finish([st EXCEPT !.ids = l], "streamed")
  <2> DEFINE r == [st EXCEPT !.ids = l]
  <2>1. l \in Seq(Nat)
    BY <1>1, <1>2 DEF ChatOK
  <2> HIDE DEF l
  <2>2. r \in StreamRec /\ Calm(r, st) /\ r.latest = st.latest
    BY <1>1, <2>1 DEF StreamRec, Calm
  <2>3. Finish(r, "streamed")
    BY <1>11
  <2> HIDE DEF r
  <2>4. stream'[s].done = "streamed" /\ caller' = Idle
    BY <1>1, <2>2, <2>3, FinishedStream
  <2>5. QED
    BY <1>9, <2>4 DEF Settled
<1>12. CASE /\ \E p \in {part, PlainPart(part)} : chat' = Append(chat, NewMessage(s, p, TRUE))
            /\ caller' = [caller EXCEPT !.ids = l] /\ UNCHANGED stream
  <2>1. PICK p \in {part, PlainPart(part)} : chat' = Append(chat, NewMessage(s, p, TRUE))
    BY <1>12
  <2>2. /\ \A i \in DOMAIN l : /\ l[i] \in DOMAIN chat' /\ chat'[l[i]].stream = s
                               /\ chat'[l[i]].part.text = parts[i].text
        /\ Range(l) = Range(caller.ids) \cup {Len(chat) + 1}
    BY <1>1, <1>2, <2>1, PersistedSoFar
  <2>3. /\ DOMAIN chat' = DOMAIN chat \cup {Len(chat) + 1}
        /\ \A k \in DOMAIN chat : chat'[k] = chat[k]
    BY <1>1, <1>2, <2>1, AdditionTouches
  <2>4. caller'.pc = "persist" /\ caller'.s = s /\ caller'.ids = l
    BY <1>1, <1>12 DEF CoreInv, Core, CallerOK
  <2> HIDE DEF l, parts
  <2>5. \A m \in DOMAIN chat' :
          \/ Settled(stream'[chat'[m].stream])
          \/ s = chat'[m].stream /\ m \in Range(l)
    <3> TAKE m \in DOMAIN chat'
    <3>1. CASE m \in DOMAIN chat
      BY <1>1, <1>12, <2>2, <2>3, <3>1 DEF PersistInv
    <3>2. CASE m = Len(chat) + 1
      <4>1. m \in Range(l)
        BY <2>2, <3>2
      <4>2. chat'[m].stream = s
        BY <2>2, <4>1 DEF Range
      <4>3. QED
        BY <4>1, <4>2
    <3>3. QED
      BY <2>3, <3>1, <3>2
  <2>6. \A i \in DOMAIN l : /\ l[i] \in DOMAIN chat' /\ chat'[l[i]].stream = s
                           /\ chat'[l[i]].part.text = Target(stream'[s])[i].text
    BY <1>12, <2>2 DEF parts
  <2>7. QED
    BY <2>4, <2>5, <2>6 DEF PersistInv
<1>13. QED
  BY <1>10, <1>11, <1>12 DEF PersistPart

LEMMA PersistNext ==
  ASSUME CoreInv, OwnInv, PersistInv, StreamStep
  PROVE  PersistInv'
<1>1. /\ ChatOK /\ stream \in Seq(StreamRec)
      /\ \A t \in DOMAIN stream : Good(stream[t]) /\ stream[t] \in StreamRec
  BY DEF CoreInv, Core, StreamsOK, Good
<1>2. \A t \in DOMAIN stream : Settled(stream[t]) => Settled(stream'[t])
  BY StepsSettle
<1>3. ASSUME UNCHANGED chat \/ \E m : chat' = [chat EXCEPT ![m].deleted = TRUE], mode' = mode,
             UNCHANGED caller,
             caller.pc = "persist" => Target(stream'[caller.s]) = Target(stream[caller.s])
      PROVE  PersistInv'
  <2>1. /\ DOMAIN chat' = DOMAIN chat
        /\ \A m \in DOMAIN chat : chat'[m].stream = chat[m].stream
                                  /\ chat'[m].part = chat[m].part
    BY <1>1, <1>3, DeletionTouches
  <2>2. \A m \in DOMAIN chat : chat[m].stream \in DOMAIN stream
    BY DEF OwnInv
  <2>3. QED
    BY <1>2, <1>3, <2>1, <2>2 DEF PersistInv, Draft
<1>4. ASSUME NEW s \in DOMAIN stream, Flushing(s)
      PROVE  PersistInv'
  <2>1. PICK r : stream' = [stream EXCEPT ![s] = r] /\ Moves(stream[s], r) /\ Notes(s, r)
    BY <1>4, FlushingMoves DEF CoreInv, Core
  <2>2. UNCHANGED <<mode, caller>>
    BY <1>4, FlushingMoves DEF CoreInv, Core
  <2>3. caller.pc = "persist" => caller.s # s
    BY <2>1 DEF Moves, CoreInv, Core, CallerOK
  <2>4. Draft => UNCHANGED chat
    BY <2>1 DEF Notes, Show, Missing
  <2>5. CASE Draft
    <3>1. caller.pc = "persist" => caller.s \in DOMAIN stream
      BY CallerStream
    <3>2. caller.pc = "persist" => stream'[caller.s] = stream[caller.s]
      BY <1>1, <2>1, <2>3, <3>1
    <3>3. QED
      BY <1>3, <2>2, <2>4, <2>5, <3>2
  <2>6. CASE ~Draft
    BY <2>2, <2>6 DEF PersistInv, Draft
  <2>7. QED
    BY <2>5, <2>6
<1>5. CASE TasksSettled
  <2>1. caller.pc = "tasks" /\ caller'.pc # "persist" /\ UNCHANGED <<chat, mode>>
    BY <1>5, IdleCaller DEF TasksSettled, Finish, CoreInv, Core, CallerOK
  <2>2. QED
    BY <1>2, <2>1, PersistStays
<1>6. CASE CleanupStep
  <2>1. caller.pc = "cleanup" /\ caller'.pc # "persist" /\ mode' = mode
    BY <1>6, IdleCaller DEF CleanupStep, Finish, CoreInv, Core, CallerOK
  <2>2. Draft => UNCHANGED chat
    BY <1>6 DEF CleanupStep
  <2>3. QED
    BY <1>2, <2>1, <2>2, PersistStays
<1>7. CASE FinalFlushed
  <2>1. caller.pc = "final" /\ caller.ids = <<>> /\ UNCHANGED <<chat, mode>>
    BY <1>7 DEF FinalFlushed, CoreInv, Core, CallerOK
  <2>2. caller'.pc = "persist" => caller'.ids = <<>>
    BY <1>7, <2>1, IdleCaller DEF FinalFlushed, Finish, CoreInv, Core, CallerOK
  <2>3. QED
    BY <1>2, <2>1, <2>2, PersistStays
<1>8. CASE PersistPart
  BY <1>8, PersistKeepsDrafts
<1>9. ASSUME NEW m \in DOMAIN chat, UserDeletes(m)
       PROVE  PersistInv'
  BY <1>3, <1>9 DEF UserDeletes
<1>10. ASSUME caller = Idle, caller'.pc # "persist", UNCHANGED <<chat, mode>>
       PROVE  PersistInv'
  BY <1>2, <1>10, IdleCaller, PersistStays
<1>11. ASSUME NEW k \in Key, Complete(k)
       PROVE  PersistInv'
  BY <1>10, <1>11 DEF Complete
<1>12. ASSUME NEW k \in Key, NEW p \in Payload, Enqueue(k, p)
       PROVE  PersistInv'
  BY <1>10, <1>12, IdleCaller DEF Enqueue
<1>13. ASSUME NEW keys \in SUBSET Key, Clear(keys)
       PROVE  PersistInv'
  BY <1>10, <1>13, IdleCaller DEF Clear
<1>14. CASE UNCHANGED streamVars
  BY <1>3, <1>14 DEF streamVars
<1>15. QED
  BY <1>4, <1>5, <1>6, <1>7, <1>8, <1>9, <1>11, <1>12, <1>13, <1>14
     DEF StreamStep, Background, Completing

-----------------------------------------------------------------------------
(* What a reply that was given up leaves behind.                             *)

\* The messages that the clean-up has passed over, and those that a reply
\* given up without a list has left, are deletions that Telegram refused.
CleanInv ==
  ~Draft =>
    /\ caller.pc = "cleanup" =>
         caller.ids # <<>> /\ Visible(caller.s) \subseteq Range(caller.ids) \cup kept
    /\ \A s \in DOMAIN stream :
         stream[s].done = "unsent" /\ stream[s].ids = <<>> => Visible(s) \subseteq kept

\* A clean-up only adds to the refusals, and those are messages.
LEMMA RefusalsStay ==
  ASSUME CoreInv, StreamStep
  PROVE  kept \subseteq kept' /\ (kept \subseteq Nat => kept' \subseteq Nat)
<1>1. ASSUME CleanupStep, kept' # kept
      PROVE  kept' = kept \cup {Last(caller.ids)} /\ Last(caller.ids) \in Nat
  <2>1. caller.ids \in Seq(Nat) /\ caller # Idle
    BY <1>1 DEF CleanupStep, Idle, CoreInv, Core, CallerOK
  <2>2. Len(caller.ids) >= 1
    BY <1>1 DEF CleanupStep
  <2>3. QED
    BY <1>1, <2>1, <2>2 DEF CleanupStep, Last
<1>2. CASE CleanupStep
  BY <1>1, <1>2
<1>3. CASE ~CleanupStep
  BY <1>3
     DEF StreamStep, Background, Flushing, TimerFires, StartFlush, DelayEnds, PartShown,
         PartDegraded, SurplusDeleted, RateLimited, Refused, AnswerLost, Completing,
         TasksSettled, FinalFlushed, PersistPart, UserDeletes, Complete, Enqueue, Clear,
         streamVars
<1>4. QED
  BY <1>2, <1>3

\* The clean-up deletes the last message of the list l, or is refused: what is
\* visible is in the rest of the list or among the refusals.
LEMMA OnePassedOver ==
  ASSUME ChatOK, NEW s, NEW l \in Seq(Nat), l # <<>>,
         Visible(s) \subseteq Range(l) \cup kept,
         NEW k, Range(l) \subseteq k \cup {Last(l)},
         \/ DeleteLast(l) /\ UNCHANGED kept
         \/ chat[Last(l)].deleted /\ UNCHANGED <<chat, kept>>
         \/ kept' = kept \cup {Last(l)} /\ UNCHANGED chat
  PROVE  Visible(s)' \subseteq k \cup kept'
<1> DEFINE m == Last(l)
<1>1. Visible(s)' \subseteq Visible(s)
  <2>1. UNCHANGED chat \/ \E n : chat' = [chat EXCEPT ![n].deleted = TRUE]
    BY DEF DeleteLast
  <2>2. QED
    BY <2>1, DeletionUntouched DEF Visible, Untouched
<1>2. Visible(s)' \subseteq k \cup {m} \cup kept
  BY <1>1
<1>3. CASE m \notin Visible(s)' /\ UNCHANGED kept
  BY <1>2, <1>3
<1>4. CASE kept' = kept \cup {m}
  BY <1>2, <1>4
<1>5. CASE DeleteLast(l) /\ UNCHANGED kept
  <2>1. m \in DOMAIN chat => chat'[m].deleted
    BY <1>5, DeletionTouches DEF DeleteLast
  <2>2. DOMAIN chat' = DOMAIN chat
    BY <1>5, DeletionTouches DEF DeleteLast
  <2>3. m \notin Visible(s)'
    BY <2>1, <2>2 DEF Visible
  <2>4. QED
    BY <1>3, <1>5, <2>3
<1>6. CASE chat[m].deleted /\ UNCHANGED <<chat, kept>>
  BY <1>3, <1>6 DEF Visible
<1>7. QED
  BY <1>4, <1>5, <1>6

LEMMA AllButLast ==
  ASSUME NEW l \in Seq(Nat), Len(l) > 1
  PROVE  /\ Front(l) # <<>> /\ Range(Front(l)) \subseteq Nat
         /\ Range(l) \subseteq Range(Front(l)) \cup {Last(l)}
<1> DEFINE f == Front(l)
           n == Len(l)
<1>1. n \in Nat /\ n > 1 /\ DOMAIN l = 1..n /\ Last(l) = l[n]
  BY DEF Last
<1>2. f \in Seq(Nat) /\ Len(f) = n - 1 /\ \A j \in 1..(n - 1) : f[j] = l[j]
  BY FrontOf
<1> HIDE DEF f, n
<1>3. DOMAIN f = 1..(n - 1) /\ f # <<>>
  BY <1>1, <1>2
<1>4. \A j \in DOMAIN l : j \in DOMAIN f \/ j = n
  BY <1>1, <1>3
<1>5. Range(f) \subseteq Nat
  BY <1>2 DEF Range
<1>6. QED
  BY <1>1, <1>2, <1>3, <1>4, <1>5 DEF Range, f

\* complete has given up the reply t and kept no list.
LEMMA EndsClean ==
  ASSUME CoreInv, OwnInv, CleanInv, ~Draft, Completing,
         NEW t, t = caller.s, stream'[t].done = "unsent", stream'[t].ids = <<>>
  PROVE  Visible(t)' \subseteq kept'
<1> DEFINE st == stream[t]
<1>1. caller.pc \notin {"idle", "persist"}
  BY DEF Completing, TasksSettled, CleanupStep, FinalFlushed, PersistPart, OwnInv
<1>2. t \in DOMAIN stream /\ st \in StreamRec /\ st.done = "open" /\ StreamsOK /\ ChatOK
      /\ Owns(t)
  BY <1>1, CallerStream DEF CoreInv, Core, OwnInv
<1>3. stream' # stream /\ Calm(st, st)
  BY <1>2 DEF Calm
<1>4. ASSUME UNCHANGED chat, st.ids = <<>>
      PROVE  Visible(t)' \subseteq kept'
  <2>1. Visible(t)' = {}
    BY <1>2, <1>4 DEF Owns, Visible, Range
  <2>2. QED
    BY <2>1
<1>5. ASSUME NEW answer, Finish(st, answer)
      PROVE  stream'[t].ids = st.ids
  BY <1>1, <1>2, <1>3, <1>5, FinishedStream
<1>6. CASE TasksSettled
  <2>1. ASSUME stream' = [stream EXCEPT ![t].queued = @ + 1]
        PROVE  FALSE
    <3>1. stream'[t] = [st EXCEPT !.queued = @ + 1]
      BY <1>2, <2>1 DEF StreamsOK
    <3>2. stream'[t].done = st.done
      BY <1>2, <3>1 DEF StreamRec
    <3>3. QED
      BY <1>2, <3>2
  <2>2. QED
    BY <1>3, <1>4, <1>5, <1>6, <2>1 DEF TasksSettled
<1>7. CASE FinalFlushed
  BY <1>3, <1>4, <1>5, <1>7 DEF FinalFlushed
<1>8. CASE CleanupStep
  <2> DEFINE l == caller.ids
  <2>1. /\ caller.pc = "cleanup" /\ Len(l) = 1 /\ l \in Seq(Nat) /\ l # <<>>
        /\ Visible(t) \subseteq Range(l) \cup kept
    BY <1>3, <1>8 DEF CleanupStep, CleanInv, CoreInv, Core, CallerOK
  <2>2. Range(l) \subseteq {} \cup {Last(l)}
    BY <2>1 DEF Range, Last
  <2>3. \/ DeleteLast(l) /\ UNCHANGED kept
        \/ chat[Last(l)].deleted /\ UNCHANGED <<chat, kept>>
        \/ kept' = kept \cup {Last(l)} /\ UNCHANGED chat
    BY <1>8 DEF CleanupStep
  <2> HIDE DEF l
  <2>4. Visible(t)' \subseteq {} \cup kept'
    BY <1>2, <2>1, <2>2, <2>3, OnePassedOver
  <2>5. QED
    BY <2>4
<1>9. QED
  BY <1>1, <1>6, <1>7, <1>8 DEF Completing, PersistPart

\* The clean-up goes on.
LEMMA CleanupGoesOn ==
  ASSUME CoreInv, OwnInv, CleanInv, ~Draft, Completing,
         NEW s, s = caller.s, caller'.pc = "cleanup"
  PROVE  /\ caller'.s = s /\ caller'.ids # <<>>
         /\ Visible(s)' \subseteq Range(caller'.ids) \cup kept'
<1> DEFINE st == stream[s]
<1>1. /\ s \in DOMAIN stream /\ st \in StreamRec /\ st.done = "open" /\ Owns(s) /\ ChatOK
      /\ caller \in [pc : {"idle", "tasks", "cleanup", "final", "persist"},
                     s : Nat, ids : Seq(Nat)]
  BY CompletingCalls, CallerStream DEF OwnInv, CoreInv, Core, CallerOK
<1>2. caller' # Idle
  BY IdleCaller
<1>3. CASE TasksSettled
  <2>1. st.ids # <<>> /\ caller' = [caller EXCEPT !.pc = "cleanup", !.ids = st.ids]
        /\ UNCHANGED chat
    BY <1>1, <1>2, <1>3 DEF TasksSettled, Finish
  <2>2. caller'.s = s /\ caller'.ids = st.ids
    BY <1>1, <2>1
  <2>3. Visible(s)' \subseteq Range(st.ids)
    BY <1>1, <2>1 DEF Owns, Visible
  <2>4. QED
    BY <2>1, <2>2, <2>3
<1>4. CASE CleanupStep
  <2> DEFINE l == caller.ids
  <2>1. /\ caller.pc = "cleanup" /\ Len(l) > 1 /\ caller' = [caller EXCEPT !.ids = Front(@)]
    BY <1>2, <1>4 DEF CleanupStep, Finish
  <2>2. l \in Seq(Nat) /\ l # <<>> /\ Visible(s) \subseteq Range(l) \cup kept
    BY <1>1, <2>1 DEF CleanInv
  <2>3. caller'.s = s /\ caller'.ids = Front(l)
    BY <1>1, <2>1
  <2>4. \/ DeleteLast(l) /\ UNCHANGED kept
        \/ chat[Last(l)].deleted /\ UNCHANGED <<chat, kept>>
        \/ kept' = kept \cup {Last(l)} /\ UNCHANGED chat
    BY <1>4 DEF CleanupStep
  <2>5. /\ Front(l) # <<>>
        /\ Range(l) \subseteq Range(Front(l)) \cup {Last(l)}
    BY <2>1, <2>2, AllButLast
  <2> HIDE DEF l
  <2>6. Visible(s)' \subseteq Range(Front(l)) \cup kept'
    BY <1>1, <2>2, <2>4, <2>5, OnePassedOver
  <2>7. QED
    BY <2>3, <2>5, <2>6
<1>5. CASE FinalFlushed \/ PersistPart
  BY <1>1, <1>2, <1>5 DEF FinalFlushed, PersistPart, Finish
<1>6. QED
  BY <1>3, <1>4, <1>5 DEF Completing

LEMMA CleanNext ==
  ASSUME CoreInv, OwnInv, CleanInv, StreamStep
  PROVE  CleanInv'
<1>1. /\ ChatOK /\ stream \in Seq(StreamRec)
      /\ \A t \in DOMAIN stream : Good(stream[t]) /\ stream[t] \in StreamRec
  BY DEF CoreInv, Core, StreamsOK, Good
<1>2. mode' = mode
  BY StepKeepsMode
<1> SUFFICES ASSUME ~Draft
             PROVE  /\ caller'.pc = "cleanup" =>
                         /\ caller'.ids # <<>>
                         /\ Visible(caller.s)' \subseteq Range(caller'.ids) \cup kept'
                    /\ \A t \in DOMAIN stream' :
                         stream'[t].done = "unsent" /\ stream'[t].ids = <<>> =>
                           Visible(t)' \subseteq kept'
  BY <1>2 DEF CleanInv, Draft
<1>3. ASSUME NEW t, NEW k, Untouched(t), Visible(t) \subseteq k \cup kept
      PROVE  Visible(t)' \subseteq k \cup kept'
  <2>1. Visible(t)' \subseteq Visible(t)
    BY <1>3 DEF Untouched, Visible
  <2>2. QED
    BY <1>3, <2>1, RefusalsStay
<1>4. ASSUME NEW t \in DOMAIN stream', stream'[t].done = "unsent", stream'[t].ids = <<>>
      PROVE  Visible(t)' \subseteq kept'
  <2>1. CASE t \in DOMAIN stream /\ Settled(stream[t])
    <3>1. stream'[t] = stream[t] /\ Untouched(t)
      BY <2>1, StepsSettle
    <3>2. Visible(t) \subseteq {} \cup kept
      BY <1>4, <2>1, <3>1 DEF CleanInv
    <3>3. Visible(t)' \subseteq {} \cup kept'
      BY <1>3, <3>1, <3>2
    <3>4. QED
      BY <3>3
  <2>2. CASE ~(t \in DOMAIN stream /\ Settled(stream[t]))
    <3>1. Completing /\ t = caller.s
      BY <1>4, <2>2, StepsSettle DEF Settled
    <3>2. QED
      BY <1>4, <3>1, EndsClean
  <2>3. QED
    BY <2>1, <2>2
<1>5. ASSUME caller'.pc = "cleanup", NEW s, s = caller.s
      PROVE  /\ caller'.s = s /\ caller'.ids # <<>>
             /\ Visible(s)' \subseteq Range(caller'.ids) \cup kept'
  <2>1. CASE Completing
    BY <1>5, <2>1, CleanupGoesOn
  <2>2. ASSUME caller' = caller, Untouched(s)
        PROVE  /\ caller'.s = s /\ caller'.ids # <<>>
               /\ Visible(s)' \subseteq Range(caller'.ids) \cup kept'
    <3> DEFINE k == Range(caller.ids)
    <3>1. caller.ids # <<>> /\ Visible(s) \subseteq k \cup kept
      BY <1>5, <2>2 DEF CleanInv
    <3> HIDE DEF k
    <3>2. Visible(s)' \subseteq k \cup kept'
      BY <1>3, <2>2, <3>1
    <3>3. QED
      BY <1>5, <2>2, <3>1, <3>2 DEF k
  <2>3. ASSUME NEW u \in DOMAIN stream, Flushing(u)
        PROVE  caller' = caller /\ Untouched(s)
    <3>1. PICK r : Moves(stream[u], r)
      BY <2>3, FlushingMoves DEF CoreInv, Core
    <3>2. caller' = caller
      BY <2>3, FlushingMoves DEF CoreInv, Core
    <3>3. u # s
      BY <1>5, <3>1, <3>2 DEF Moves, CoreInv, Core, CallerOK
    <3>4. QED
      BY <2>3, <3>2, <3>3, FlushingTouches, OthersUntouched
  <2>4. ASSUME NEW m \in DOMAIN chat, UserDeletes(m)
        PROVE  caller' = caller /\ Untouched(s)
    BY <1>1, <2>4, DeletionUntouched DEF UserDeletes
  <2>5. ASSUME NEW x \in Key, Complete(x)
        PROVE  FALSE
    BY <1>5, <2>5 DEF Complete
  <2>6. ASSUME NEW x \in Key, NEW p \in Payload, Enqueue(x, p)
        PROVE  FALSE
    BY <1>5, <2>6, IdleCaller DEF Enqueue
  <2>7. ASSUME NEW keys \in SUBSET Key, Clear(keys)
        PROVE  FALSE
    BY <1>5, <2>7, IdleCaller DEF Clear
  <2>8. ASSUME UNCHANGED streamVars
        PROVE  caller' = caller /\ Untouched(s)
    BY <1>1, <2>8, DeletionUntouched DEF streamVars
  <2>9. QED
    BY <2>1, <2>2, <2>3, <2>4, <2>5, <2>6, <2>7, <2>8 DEF StreamStep, Background
<1>6. ASSUME caller'.pc = "cleanup"
      PROVE  /\ caller'.ids # <<>>
             /\ Visible(caller.s)' \subseteq Range(caller'.ids) \cup kept'
  <2>1. PICK s : s = caller.s
    OBVIOUS
  <2>2. /\ caller'.s = s /\ caller'.ids # <<>>
        /\ Visible(s)' \subseteq Range(caller'.ids) \cup kept'
    BY <1>5, <1>6, <2>1
  <2>3. QED
    BY <2>2 DEF Visible
<1>7. QED
  BY <1>4, <1>6

-----------------------------------------------------------------------------
(* The invariant of the streamer.                                            *)

LEMMA ShownInit == StreamerInit => ShownInv /\ CleanInv
BY DEF StreamerInit, ShownInv, HonestInv, AccurateInv, PersistInv, KeptInv, CleanInv, Idle

LEMMA ShownNext == CoreInv /\ OwnInv /\ ShownInv /\ StreamStep => ShownInv'
BY HonestNext, AccurateNext, PersistNext, KeptNext DEF ShownInv

StreamerInv ==
  CoreInv /\ OwnInv /\ IdsOK /\ ShownInv /\ CleanInv /\ BoundsOK /\ kept \subseteq Nat

LEMMA StreamerInitial == StreamerInit => StreamerInv
<1>1. StreamerInit => kept \subseteq Nat
  BY DEF StreamerInit
<1>2. QED
  BY <1>1, CoreInit, OwnInit, IdsInit, ShownInit DEF StreamerInv

\* Whoever takes the steps of the streams keeps what is known of them.
LEMMA StreamerKept ==
  ASSUME StreamerInv, StreamStep, BoundsOK', faults <= faults'
  PROVE  StreamerInv'
<1>2. CleanInv' /\ kept' \subseteq Nat
  BY CleanNext, RefusalsStay DEF StreamerInv
<1>3. QED
  BY <1>2, CoreNext, OwnNext, IdsNext, ShownNext DEF StreamerInv

LEMMA StreamerInvNext == StreamerInv /\ [StreamerNext]_streamerVars => StreamerInv'
<1> SUFFICES ASSUME StreamerInv, [StreamerNext]_streamerVars
             PROVE  StreamerInv'
  OBVIOUS
<1>1. \A sess : KeysOf(sess) \in SUBSET Key
  BY DEF KeysOf
<1>2. BoundsOK' /\ faults <= faults'
  BY <1>1, BoundsNext DEF StreamerInv, StreamerNext, StreamerRest
<1>3. QED
  BY <1>2, NextIsStreamStep, StreamerKept

LEMMA StreamerInvAlways == StreamerSpec => []StreamerInv
BY StreamerInitial, StreamerInvNext, PTL DEF StreamerSpec

LEMMA InvGivesShown == ShownInv => StreamedIsShown
BY DEF ShownInv, KeptInv, Kept, StreamedIsShown

\* What complete reports as streamed is on screen: the messages it returns
\* say the final text, rich or plain, and no other message of the stream that
\* it knows of is left beside them (complete, completePart), on either
\* transport and whatever failed before.
THEOREM StreamedRepliesAreShown == StreamerSpec => []StreamedIsShown
<1>1. StreamerInv => StreamedIsShown
  BY InvGivesShown DEF StreamerInv
<1>2. QED
  BY <1>1, StreamerInvAlways, PTL

LEMMA InvGivesCleaned == CleanInv => GivenUpIsCleaned
BY DEF CleanInv, GivenUpIsCleaned

\* A reply given up with an empty list of messages leaves none behind but the
\* very ones whose deletion Telegram refused to its clean-up, whatever broke
\* the stream before (cleanupBrokenStream).
THEOREM GivenUpRepliesAreCleaned == StreamerSpec => []GivenUpIsCleaned
<1>1. StreamerInv => GivenUpIsCleaned
  BY InvGivesCleaned DEF StreamerInv
<1>2. QED
  BY <1>1, StreamerInvAlways, PTL

-----------------------------------------------------------------------------
(* Types.                                                                    *)

LEMMA LargerOfTwo ==
  ASSUME NEW a \in Nat, NEW b \in Nat
  PROVE  Max({a, b}) \in Nat /\ a <= Max({a, b}) /\ b <= Max({a, b})
<1>1. \E x \in {a, b} : \A y \in {a, b} : x >= y
  <2>1. CASE a >= b
    BY <2>1
  <2>2. CASE ~(a >= b)
    BY <2>2
  <2>3. QED
    BY <2>1, <2>2
<1>2. Max({a, b}) \in {a, b} /\ \A y \in {a, b} : Max({a, b}) >= y
  BY <1>1 DEF Max
<1>3. QED
  BY <1>2

LEMMA StreamTyped ==
  ASSUME StreamerInv, NEW s \in DOMAIN stream
  PROVE  LET st == stream[s]
         IN /\ st.key \in Key /\ st.latest \in Payload
            /\ st.sigs \in Parts /\ st.ids \in Seq(0..Len(chat))
            /\ {st.timer, st.cancelled, st.broken, st.plainOnly, st.ok} \subseteq BOOLEAN
            /\ st.queued \in Nat /\ st.at \in {"rest", "call", "delay"}
            /\ st.at = "call" => st.idx \in 1..(Max({Len(st.work), Len(st.ids)}))
            /\ st.done \in {"open", "streamed", "unsent", "cleared"}
<1> DEFINE st == stream[s]
<1>1. Good(st) /\ st \in StreamRec /\ Len(chat) \in Nat
  BY DEF StreamerInv, CoreInv, Core, StreamsOK, ChatOK, Good
<1>2. st.ids \in Seq(0..Len(chat))
  <2>1. st.ids \in Seq(Nat) /\ Known(st.ids)
    BY <1>1 DEF StreamerInv, IdsOK, StreamRec
  <2>2. \A i \in 1..Len(st.ids) : st.ids[i] \in 0..Len(chat)
    BY <1>1, <2>1 DEF Known
  <2>3. QED
    BY <2>1, <2>2
<1>3. st.at = "call" => st.idx \in 1..(Max({Len(st.work), Len(st.ids)}))
  <2> DEFINE w == Len(st.work)
             n == Len(st.ids)
  <2>1. w \in Nat /\ n \in Nat
    BY <1>1 DEF StreamRec, Parts
  <2>2. Max({w, n}) \in Nat /\ w <= Max({w, n}) /\ n <= Max({w, n})
    BY <2>1, LargerOfTwo
  <2>3. st.at = "call" => st.idx \in 1..(w + 1) /\ (st.idx = w + 1 => n > w)
    BY <1>1 DEF Good, InCall
  <2> DEFINE x == Max({w, n})
  <2> HIDE DEF w, n, x
  <2>4. st.at = "call" => st.idx \in 1..x
    BY <2>1, <2>2, <2>3 DEF x
  <2>5. QED
    BY <2>4 DEF x, w, n
<1>4. QED
  BY <1>1, <1>2, <1>3 DEF StreamRec

LEMMA InvGivesTypeOK == StreamerInv => TypeOK
<1> SUFFICES ASSUME StreamerInv
             PROVE  TypeOK
  OBVIOUS
<1>1. chat \in Seq([stream : DOMAIN stream, part : AnyPart,
                    deleted : BOOLEAN, acked : BOOLEAN])
  <2>1. chat \in Seq(Message) /\ \A m \in DOMAIN chat : chat[m].stream \in DOMAIN stream
    BY DEF StreamerInv, CoreInv, ChatOK, OwnInv
  <2> DEFINE D == DOMAIN stream
             S == [stream : D, part : AnyPart, deleted : BOOLEAN, acked : BOOLEAN]
  <2> HIDE DEF D
  <2>2. ASSUME NEW c \in Message, c.stream \in D
        PROVE  c \in S
    BY <2>2 DEF Message
  <2>3. \A m \in 1..Len(chat) : chat[m] \in Message /\ chat[m].stream \in D
    BY <2>1 DEF D
  <2> HIDE DEF S
  <2>4. \A m \in 1..Len(chat) : chat[m] \in S
    BY <2>2, <2>3
  <2>5. chat \in Seq(S)
    BY <2>1, <2>4
  <2>6. QED
    BY <2>5 DEF S, D
<1>2. /\ caller.pc \in {"idle", "tasks", "cleanup", "final", "persist"}
      /\ caller.s \in 0..Len(stream)
  BY DEF StreamerInv, CoreInv, Core, CallerOK, StreamsOK, Idle
<1>3. QED
  BY <1>1, <1>2, StreamTyped
     DEF TypeOK, StreamerInv, BoundsOK, CoreInv, Core, MapOK

\* Every variable of the streamer has its type: a flush at a call has a part
\* or a surplus message to call for, the list holds ids that Telegram gave
\* out, and the map names only open streams, each under its key (states,
\* cancelState, complete).
THEOREM TypeCorrect == StreamerSpec => []TypeOK
BY InvGivesTypeOK, StreamerInvAlways, PTL

-----------------------------------------------------------------------------
(* The coordinator.                                                          *)

HandlerRec == [pc : {"idle", "post"}, what : Posts \cup {"none"}, left : SUBSET Conv]

\* The running operation: none, or one that awaits its posts, and then the
\* streamer has no call of the queue.
HandlerOK ==
  \/ handler = Nothing
  \/ /\ handler \in HandlerRec /\ handler.pc = "post"
     /\ handler.what \in Posts /\ handler.left # {} /\ caller = Idle

\* At most one last message of each session.
LastOK ==
  /\ lastMessage \subseteq Key
  /\ \A k, l \in lastMessage : SessionOf[k] = SessionOf[l] => k = l

QueueOK == queue \in Seq(Operations) /\ Len(queue) <= events /\ events \in 0..MaxEvents

\* What a conversation was to be told, and whether it was.
Entry == [what : Posts, told : BOOLEAN]

RestOK ==
  /\ {down, connected} \subseteq BOOLEAN /\ bound \subseteq Session
  /\ posted \in [Conv -> Seq(Entry)]
  /\ feed \in {"live", "aborted", "ended"}
  /\ stopped \in {"no", "stopping", "stopped"}

\* Once stop() has returned, nothing is left that could start again.
StoppedOK ==
  stopped = "stopped" =>
    /\ feed = "ended" /\ queue = <<>> /\ handler = Nothing /\ caller = Idle /\ lastMessage = {}
    /\ \A k \in Key : states[k] = 0

CoordInv ==
  StreamerInv /\ HandlerOK /\ LastOK /\ QueueOK /\ RestOK /\ StoppedOK

coordOnly == <<down, connected, feed, bound, posted, stopped, events>>

-----------------------------------------------------------------------------
(* The streamer under the coordinator.                                       *)

\* Whatever the coordinator calls keeps what is known of the streams.
LEMMA CallKeepsStreamer ==
  ASSUME StreamerInv,
         \/ Background
         \/ \E k \in Key : Complete(k) \/ \E p \in Payload : Enqueue(k, p)
         \/ \E keys \in SUBSET Key : Clear(keys)
         \/ UNCHANGED streamerVars
  PROVE  StreamerInv'
<1>1. StreamStep
  BY DEF StreamStep, streamerVars, streamVars
<1>2. BoundsOK' /\ faults <= faults'
  BY BoundsNext DEF StreamerInv
<1>3. QED
  BY <1>1, <1>2, StreamerKept

\* Background work never calls the streamer for the queue.
LEMMA IdleStays ==
  ASSUME caller = Idle, Background
  PROVE  caller' = Idle /\ states' = states
BY IdleCaller
   DEF Background, Flushing, TimerFires, StartFlush, DelayEnds, PartShown, PartDegraded,
       SurplusDeleted, RateLimited, Refused, AnswerLost, Completing, TasksSettled,
       CleanupStep, FinalFlushed, PersistPart, UserDeletes

-----------------------------------------------------------------------------
(* The queue.                                                                *)

LEMMA Started ==
  ASSUME QueueOK, NEW what, Start(what)
  PROVE  /\ Head(queue) \in Operations /\ Head(queue).what = what
         /\ QueueOK' /\ Free /\ queue # <<>>
         /\ UNCHANGED <<connected, feed, bound, posted, stopped, events>>
<1>1. queue \in Seq(Operations) /\ queue # <<>> /\ queue' = Tail(queue) /\ events' = events
  BY DEF QueueOK, Start
<1>2. Head(queue) \in Operations /\ queue' \in Seq(Operations)
      /\ Len(queue') = Len(queue) - 1 /\ Len(queue) \in Nat
  BY <1>1
<1>3. QED
  BY <1>1, <1>2 DEF QueueOK, Start

\* The queue is not empty, so stop() has not returned.
LEMMA NotStopped ==
  ASSUME CoordInv, NEW what, Start(what)
  PROVE  stopped # "stopped"
BY DEF CoordInv, StoppedOK, Start

LEMMA PartOf ==
  ASSUME NEW op \in Operations, op.what = "part"
  PROVE  op.key \in Key /\ op.text \in Payload \cup {Empty} /\ SessionOf[op.key] \in Session
<1>1. op \in [what : {"part"}, key : Key, text : Payload \cup {Empty}]
  BY DEF Operations, Event
<1>2. QED
  BY <1>1, StreamerAssumption

LEMMA SessionIn ==
  ASSUME NEW op \in Operations, op.what \in {"idle", "ask", "error"}
  PROVE  op.session \in Session
<1>1. op \in [what : {"idle", "ask", "error"}, session : Session]
  BY DEF Operations, Event
<1>2. QED
  BY <1>1

LEMMA UpIn ==
  ASSUME NEW op \in Operations, op.what = "state"
  PROVE  op.up \in BOOLEAN
<1>1. op \in [what : {"state"}, up : BOOLEAN]
  BY DEF Operations, Event
<1>2. QED
  BY <1>1

LEMMA ScheduleKeeps ==
  ASSUME QueueOK, NEW op \in Operations, Schedule(op)
  PROVE  QueueOK' /\ (stopped = "stopped" => queue' = queue)
BY CoordinatorAssumption DEF QueueOK, Schedule

\* An operation begins to post.
LEMMA PostKeeps ==
  ASSUME NEW what \in Posts, NEW convs \in SUBSET Conv, convs # {},
         Post(what, convs), caller' = Idle
  PROVE  HandlerOK'
BY DEF Post, HandlerOK, HandlerRec

-----------------------------------------------------------------------------
(* The operations.                                                           *)

LEMMA PartUpdateKeeps == ASSUME CoordInv, PartUpdate PROVE CoordInv'
<1> DEFINE op == Head(queue)
           k == op.key
<1>1. /\ op \in Operations /\ op.what = "part" /\ QueueOK' /\ Free
      /\ UNCHANGED <<connected, feed, bound, posted, stopped, events>>
  BY Started DEF PartUpdate, CoordInv
<1>2. k \in Key /\ op.text \in Payload \cup {Empty}
  BY <1>1, PartOf
<1>3. stopped # "stopped"
  BY NotStopped DEF PartUpdate
<1>4. UNCHANGED <<handler, down>> /\ handler = Nothing
  BY <1>1 DEF PartUpdate, Free
<1>5. StreamerInv'
  BY <1>2, CallKeepsStreamer DEF PartUpdate, CoordInv
<1>6. LastOK'
  <2>1. lastMessage' = lastMessage \/ lastMessage' = Tracked(k)
    BY DEF PartUpdate
  <2>2. Tracked(k) \subseteq Key
        /\ \A i, j \in Tracked(k) : SessionOf[i] = SessionOf[j] => i = j
    BY <1>2 DEF Tracked, LastOf, CoordInv, LastOK
  <2>3. QED
    BY <2>1, <2>2 DEF CoordInv, LastOK
<1>7. QED
  BY <1>1, <1>3, <1>4, <1>5, <1>6 DEF CoordInv, HandlerOK, RestOK, StoppedOK

LEMMA SessionIdleKeeps == ASSUME CoordInv, SessionIdle PROVE CoordInv'
<1> DEFINE op == Head(queue)
           last == LastOf(op.session)
<1>1. /\ op \in Operations /\ op.what = "idle" /\ QueueOK' /\ Free
      /\ UNCHANGED <<connected, feed, bound, posted, stopped, events>>
  BY Started DEF SessionIdle, CoordInv
<1>2. stopped # "stopped"
  BY NotStopped DEF SessionIdle
<1>3. UNCHANGED <<handler, down>> /\ handler = Nothing
  BY <1>1 DEF SessionIdle, Free
<1>4. last \subseteq Key
  BY DEF LastOf, CoordInv, LastOK
<1>5. StreamerInv'
  BY <1>4, CallKeepsStreamer DEF SessionIdle, CoordInv
<1>6. LastOK'
  BY DEF SessionIdle, CoordInv, LastOK
<1>7. QED
  BY <1>1, <1>2, <1>3, <1>5, <1>6 DEF CoordInv, HandlerOK, RestOK, StoppedOK

LEMMA AskedKeeps == ASSUME CoordInv, Asked PROVE CoordInv'
<1> DEFINE op == Head(queue)
<1>1. /\ op \in Operations /\ op.what = "ask" /\ QueueOK' /\ Free
      /\ UNCHANGED <<connected, feed, bound, posted, stopped, events>>
  BY Started DEF Asked, CoordInv
<1>2. stopped # "stopped"
  BY NotStopped DEF Asked
<1>3. UNCHANGED <<streamerVars, lastMessage, down>> /\ handler = Nothing /\ caller = Idle
  BY <1>1 DEF Asked, Free
<1>4. StreamerInv' /\ caller' = Idle
  BY <1>3, CallKeepsStreamer DEF CoordInv, streamerVars
<1>5. HandlerOK'
  <2>1. CASE op.session \in bound
    <3>1. ConvOf[op.session] \in Conv
      BY <1>1, SessionIn, CoordinatorAssumption
    <3>2. Post("ask", {ConvOf[op.session]})
      BY <2>1 DEF Asked
    <3>3. QED
      BY <1>4, <3>1, <3>2, PostKeeps DEF Posts
  <2>2. CASE op.session \notin bound
    BY <1>3, <2>2 DEF Asked, HandlerOK
  <2>3. QED
    BY <2>1, <2>2
<1>6. QED
  BY <1>1, <1>2, <1>3, <1>4, <1>5 DEF CoordInv, LastOK, RestOK, StoppedOK

LEMMA SessionErrorKeeps == ASSUME CoordInv, SessionError PROVE CoordInv'
<1> DEFINE op == Head(queue)
           sess == op.session
<1>1. /\ op \in Operations /\ op.what = "error" /\ QueueOK' /\ Free
      /\ UNCHANGED <<connected, feed, bound, posted, stopped, events>>
  BY Started DEF SessionError, CoordInv
<1>2. stopped # "stopped"
  BY NotStopped DEF SessionError
<1>3. UNCHANGED down /\ handler = Nothing /\ caller = Idle
  BY <1>1 DEF SessionError, Free
<1>4. KeysOf(sess) \in SUBSET Key
  BY DEF KeysOf
<1>5. StreamerInv' /\ caller' = Idle
  <2>1. Clear(KeysOf(sess)) \/ UNCHANGED streamerVars
    BY DEF SessionError
  <2>2. StreamerInv'
    BY <1>4, <2>1, CallKeepsStreamer DEF CoordInv
  <2>3. QED
    BY <1>3, <2>1, <2>2 DEF Clear, streamerVars
<1>6. HandlerOK'
  <2>1. CASE sess \in bound
    <3>1. ConvOf[sess] \in Conv
      BY <1>1, SessionIn, CoordinatorAssumption
    <3>2. Post("error", {ConvOf[sess]})
      BY <2>1 DEF SessionError
    <3>3. QED
      BY <1>5, <3>1, <3>2, PostKeeps DEF Posts
  <2>2. CASE sess \notin bound
    BY <1>3, <2>2 DEF SessionError, HandlerOK
  <2>3. QED
    BY <2>1, <2>2
<1>7. LastOK'
  BY DEF SessionError, CoordInv, LastOK
<1>8. QED
  BY <1>1, <1>2, <1>3, <1>5, <1>6, <1>7 DEF CoordInv, RestOK, StoppedOK

LEMMA StateChangeKeeps == ASSUME CoordInv, StateChange PROVE CoordInv'
<1> DEFINE op == Head(queue)
           up == op.up
<1>1. /\ op \in Operations /\ op.what = "state" /\ QueueOK' /\ Free
      /\ UNCHANGED <<connected, feed, bound, posted, stopped, events>>
  BY Started DEF StateChange, CoordInv
<1>2. stopped # "stopped" /\ up \in BOOLEAN
  BY <1>1, NotStopped, UpIn DEF StateChange
<1>3. UNCHANGED <<streamerVars, lastMessage>> /\ handler = Nothing /\ caller = Idle
  BY <1>1 DEF StateChange, Free
<1>4. StreamerInv' /\ caller' = Idle
  BY <1>3, CallKeepsStreamer DEF CoordInv, streamerVars
<1>5. HandlerOK' /\ down' \in BOOLEAN
  <2>1. CASE Notable(up)
    <3> DEFINE what == IF up THEN "restored" ELSE "lost"
    <3>1. what \in Posts
      BY DEF Posts
    <3>2. Post(what, Conv) /\ down' = ~up
      BY <2>1 DEF StateChange
    <3> HIDE DEF what
    <3>3. QED
      BY <1>2, <1>4, <3>1, <3>2, PostKeeps, CoordinatorAssumption
  <2>2. CASE ~Notable(up)
    BY <1>3, <2>2 DEF StateChange, HandlerOK, CoordInv, RestOK
  <2>3. QED
    BY <2>1, <2>2
<1>6. QED
  BY <1>1, <1>2, <1>3, <1>4, <1>5 DEF CoordInv, LastOK, RestOK, StoppedOK

LEMMA PostedKeeps ==
  ASSUME CoordInv, NEW c \in Conv, Posted(c)
  PROVE  CoordInv'
<1>1. c \in handler.left /\ UNCHANGED <<streamerVars, queue, lastMessage, down, connected,
                                        feed, bound, stopped, events>>
  BY DEF Posted
<1>2. /\ handler \in HandlerRec /\ handler.pc = "post" /\ handler.what \in Posts
      /\ caller = Idle
  BY <1>1 DEF CoordInv, HandlerOK, Nothing
<1>3. StreamerInv' /\ caller' = Idle
  BY <1>1, <1>2, CallKeepsStreamer DEF CoordInv, streamerVars
<1>4. HandlerOK'
  <2>1. CASE handler.left = {c}
    BY <2>1 DEF Posted, HandlerOK
  <2>2. CASE handler.left # {c}
    <3> DEFINE l == handler.left \ {c}
    <3>1. handler' = [handler EXCEPT !.left = l] /\ l # {} /\ l \in SUBSET Conv
      BY <1>1, <1>2, <2>2 DEF Posted, HandlerRec
    <3> HIDE DEF l
    <3>2. /\ handler' \in HandlerRec /\ handler'.pc = "post" /\ handler'.what \in Posts
          /\ handler'.left # {}
      BY <1>2, <3>1 DEF HandlerRec
    <3>3. QED
      BY <1>3, <3>2 DEF HandlerOK
  <2>3. QED
    BY <2>1, <2>2
<1>5. posted' \in [Conv -> Seq(Entry)]
  <2> DEFINE e == [what |-> handler.what, told |-> TRUE]
  <2>1. posted \in [Conv -> Seq(Entry)] /\ posted' = [posted EXCEPT ![c] = Append(@, e)]
    BY DEF CoordInv, RestOK, Posted
  <2>2. e \in Entry
    BY <1>2 DEF Entry
  <2> HIDE DEF e
  <2>3. posted[c] \in Seq(Entry) /\ Append(posted[c], e) \in Seq(Entry)
    BY <2>1, <2>2
  <2>4. QED
    BY <2>1, <2>3
<1>6. handler # Nothing
  BY <1>1 DEF Nothing
<1>7. QED
  BY <1>1, <1>3, <1>4, <1>5, <1>6 DEF CoordInv, LastOK, QueueOK, RestOK, StoppedOK

LEMMA PostFailsKeeps ==
  ASSUME CoordInv, NEW c \in Conv, PostFails(c)
  PROVE  CoordInv'
<1>1. /\ c \in handler.left /\ MayFail("error") /\ handler' = Nothing
      /\ UNCHANGED <<mode, kept, states, stream, chat, draft, caller, enqueued>>
      /\ UNCHANGED <<queue, lastMessage, down, connected, feed, bound, stopped, events>>
  BY DEF PostFails
<1>2. handler # Nothing
  BY <1>1 DEF Nothing
<1>3. BoundsOK' /\ faults <= faults'
  BY <1>1, StreamerAssumption DEF CoordInv, StreamerInv, BoundsOK, MayFail
<1>4. StreamerInv'
  BY <1>1, <1>3, StreamerKept DEF CoordInv, StreamStep, streamVars
<1>5. posted' \in [Conv -> Seq(Entry)]
  <2> DEFINE e == [what |-> handler.what, told |-> FALSE]
  <2>1. posted \in [Conv -> Seq(Entry)]
        /\ posted' = [d \in Conv |-> IF d \in handler.left THEN Append(posted[d], e)
                                     ELSE posted[d]]
    BY DEF CoordInv, RestOK, PostFails
  <2>2. e \in Entry
    BY <1>2 DEF CoordInv, HandlerOK, Entry
  <2> HIDE DEF e
  <2>3. \A d \in Conv : posted[d] \in Seq(Entry) /\ Append(posted[d], e) \in Seq(Entry)
    BY <2>1, <2>2
  <2>4. QED
    BY <2>1, <2>3
<1>6. QED
  BY <1>1, <1>2, <1>4, <1>5 DEF CoordInv, HandlerOK, LastOK, QueueOK, RestOK, StoppedOK

-----------------------------------------------------------------------------
(* What arrives, and the end.                                                *)

LEMMA ArrivalKeeps ==
  ASSUME CoordInv, NEW op \in Operations, Schedule(op), connected' \in BOOLEAN,
         UNCHANGED <<streamerVars, handler, lastMessage, down, feed, bound, posted,
                     stopped>>
  PROVE  CoordInv'
<1>1. QueueOK' /\ (stopped = "stopped" => queue' = queue)
  BY ScheduleKeeps DEF CoordInv
<1>2. StreamerInv'
  BY CallKeepsStreamer DEF CoordInv
<1>3. QED
  BY <1>1, <1>2 DEF CoordInv, HandlerOK, LastOK, RestOK, StoppedOK, streamerVars

LEMMA StreamingKeeps == ASSUME CoordInv, Streaming PROVE CoordInv'
<1>1. StreamerInv'
  BY CallKeepsStreamer DEF CoordInv, Streaming
<1>2. UNCHANGED coordVars /\ (caller = Idle => caller' = Idle /\ states' = states)
  BY IdleStays DEF Streaming
<1>3. QED
  BY <1>1, <1>2 DEF CoordInv, HandlerOK, LastOK, QueueOK, RestOK, StoppedOK, coordVars

LEMMA StopEndsKeeps == ASSUME CoordInv, StopEnds PROVE CoordInv'
<1>1. /\ Drained /\ Clear(Key) /\ lastMessage' = {} /\ stopped' = "stopped"
      /\ UNCHANGED <<queue, handler, down, connected, feed, bound, posted, events>>
  BY DEF StopEnds
<1>2. StreamerInv'
  BY <1>1, CallKeepsStreamer DEF CoordInv
<1>3. caller' = Idle /\ \A k \in Key : states'[k] = 0
  BY <1>1 DEF Clear
<1>4. QED
  BY <1>1, <1>2, <1>3
     DEF CoordInv, HandlerOK, LastOK, QueueOK, RestOK, StoppedOK, Drained, Free

LEMMA StillKeeps == CoordInv /\ UNCHANGED vars => CoordInv'
<1> SUFFICES ASSUME CoordInv, UNCHANGED vars
             PROVE  CoordInv'
  OBVIOUS
<1>1. StreamerInv'
  BY CallKeepsStreamer DEF CoordInv, vars
<1>2. QED
  BY <1>1 DEF CoordInv, HandlerOK, LastOK, QueueOK, RestOK, StoppedOK, vars, coordVars,
              streamerVars

LEMMA CoordInitial == CoordInit => CoordInv
<1> SUFFICES ASSUME CoordInit
             PROVE  CoordInv
  OBVIOUS
<1>1. StreamerInv
  BY StreamerInitial DEF CoordInit
<1>2. HandlerOK /\ LastOK /\ QueueOK /\ StoppedOK
  BY CoordinatorAssumption DEF CoordInit, HandlerOK, LastOK, QueueOK, StoppedOK
<1>3. posted \in [Conv -> Seq(Entry)]
  <2>1. <<>> \in Seq(Entry)
    OBVIOUS
  <2>2. QED
    BY <2>1 DEF CoordInit
<1>4. RestOK
  BY <1>3 DEF CoordInit, RestOK
<1>5. QED
  BY <1>1, <1>2, <1>4 DEF CoordInv

LEMMA CoordStep == CoordInv /\ [CoordNext]_vars => CoordInv'
<1> SUFFICES ASSUME CoordInv, [CoordNext]_vars
             PROVE  CoordInv'
  OBVIOUS
<1>1. ASSUME NEW e \in Event, EventArrives(e)
      PROVE  CoordInv'
  BY <1>1, ArrivalKeeps DEF EventArrives, Operations, CoordInv, RestOK
<1>2. CASE ConnectionChanges
  <2>1. [what |-> "state", up |-> ~connected] \in Operations /\ connected' \in BOOLEAN
    BY <1>2 DEF Operations, ConnectionChanges, CoordInv, RestOK
  <2>2. QED
    BY <1>2, <2>1, ArrivalKeeps DEF ConnectionChanges
<1>3. ASSUME NEW sess \in Session, Unbind(sess)
      PROVE  CoordInv'
  <2>1. StreamerInv'
    BY <1>3, CallKeepsStreamer DEF CoordInv, Unbind
  <2>2. QED
    BY <1>3, <2>1 DEF CoordInv, HandlerOK, LastOK, QueueOK, RestOK, StoppedOK, Unbind,
                      streamerVars
<1>4. CASE Operation
  BY <1>4, PartUpdateKeeps, SessionIdleKeeps, AskedKeeps, SessionErrorKeeps,
     StateChangeKeeps, PostedKeeps, PostFailsKeeps DEF Operation
<1>5. CASE Streaming
  BY <1>5, StreamingKeeps
<1>6. CASE Stop
  <2>1. StreamerInv'
    BY <1>6, CallKeepsStreamer DEF CoordInv, Stop
  <2>2. QED
    BY <1>6, <2>1 DEF CoordInv, HandlerOK, LastOK, QueueOK, RestOK, StoppedOK, Stop,
                      streamerVars
<1>7. CASE StopEnds
  BY <1>7, StopEndsKeeps
<1>8. CASE CoordRest \/ UNCHANGED vars
  BY <1>8, StillKeeps DEF CoordRest
<1>9. CASE SubscriptionEnds
  <2>1. StreamerInv'
    BY <1>9, CallKeepsStreamer DEF CoordInv, SubscriptionEnds
  <2>2. QED
    BY <1>9, <2>1 DEF CoordInv, HandlerOK, LastOK, QueueOK, RestOK, StoppedOK,
                      SubscriptionEnds, streamerVars
<1>10. QED
  BY <1>1, <1>2, <1>3, <1>4, <1>5, <1>6, <1>7, <1>8, <1>9 DEF CoordNext

LEMMA CoordInvAlways == CoordSpec => []CoordInv
BY CoordInitial, CoordStep, PTL DEF CoordSpec

-----------------------------------------------------------------------------
\* Every variable of the coordinator and of its streamer has its type, each
\* session has at most one last message (lastMessageIds), and an operation
\* that awaits Telegram has somebody left to write to.
THEOREM CoordTypeCorrect == CoordSpec => []CoordTypeOK
<1>1. CoordInv => CoordTypeOK
  <2> SUFFICES ASSUME CoordInv
               PROVE  CoordTypeOK
    OBVIOUS
  <2>1. TypeOK
    BY InvGivesTypeOK DEF CoordInv
  <2>2. ASSUME NEW sess \in Session
        PROVE  Cardinality(LastOf(sess)) <= 1
    <3>1. CASE LastOf(sess) = {}
      BY <3>1, FS_EmptySet
    <3>2. CASE LastOf(sess) # {}
      <4>1. PICK k : LastOf(sess) = {k}
        BY <3>2 DEF LastOf, CoordInv, LastOK
      <4>2. Cardinality({k}) = 1
        BY FS_Singleton
      <4>3. QED
        BY <4>1, <4>2
    <3>3. QED
      BY <3>1, <3>2
  <2>3. handler.pc \in {"idle", "post"} /\ handler.left \subseteq Conv
        /\ (handler.pc = "post" <=> handler.left # {})
        /\ (handler # Nothing => caller = Idle)
    BY DEF CoordInv, HandlerOK, HandlerRec, Nothing
  <2>4. QED
    BY <2>1, <2>2, <2>3 DEF CoordTypeOK, CoordInv, LastOK, QueueOK, RestOK, Entry
<1>2. QED
  BY <1>1, CoordInvAlways, PTL

\* After stop() has returned nothing can start again, however many events,
\* flushes and retries were under way: the subscription has ended, no
\* operation waits, no stream is in the map, and every stream is cancelled without a timer (stop, clearAll).
THEOREM StoppedIsQuiet == CoordSpec => []QuietAfterStop
<1>1. CoordInv => QuietAfterStop
  <2> SUFFICES ASSUME CoordInv, stopped = "stopped"
               PROVE  /\ Drained /\ lastMessage = {}
                      /\ Open(Key) = {}
                      /\ \A s \in DOMAIN stream : stream[s].cancelled /\ ~stream[s].timer
    BY DEF QuietAfterStop
  <2>1. /\ feed = "ended" /\ queue = <<>> /\ handler = Nothing /\ caller = Idle
        /\ lastMessage = {} /\ \A k \in Key : states[k] = 0
    BY DEF CoordInv, StoppedOK
  <2>2. ASSUME NEW s \in DOMAIN stream
        PROVE  stream[s].cancelled /\ ~stream[s].timer
    <3>1. MapOK /\ Good(stream[s]) /\ stream[s].key \in Key /\ s # 0
      BY DEF CoordInv, StreamerInv, CoreInv, Core, StreamsOK, Good, StreamRec
    <3>2. stream[s].done # "open"
      BY <2>1, <3>1 DEF MapOK
    <3>3. QED
      BY <3>1, <3>2 DEF Good
  <2>3. QED
    BY <2>1, <2>2 DEF Drained, Free, Open
<1>2. QED
  BY <1>1, CoordInvAlways, PTL

\* Driven by the coordinator, with its queue, its own failures and its stop,
\* the streams lose no update, list their own messages, show what they report
\* as streamed and clean up what they give up.
THEOREM CoordinatedStreams ==
  CoordSpec => [](NoUpdateLost /\ ListsItsMessages /\ StreamedIsShown /\ GivenUpIsCleaned)
<1>1. CoordInv => NoUpdateLost /\ ListsItsMessages /\ StreamedIsShown /\ GivenUpIsCleaned
  BY InvGivesNoUpdateLost, OwnGivesLists, InvGivesShown, InvGivesCleaned
     DEF CoordInv, StreamerInv
<1>2. QED
  BY <1>1, CoordInvAlways, PTL

-----------------------------------------------------------------------------
(* The notices.                                                              *)

Notice == {"lost", "restored"}

\* The round of notices under way has not reached the conversation yet.
InRound(c) == c \in handler.left /\ handler.what \in Notice

\* The conversation had its turn in every round but the one under way.
Told(c) ==
  /\ \A i \in Notices(c) : posted[c][i].what = "lost" <=> Odd(NoticesTo(c, i))
  /\ InRound(c) <=> (down # Odd(Notices(c)))

NoticeInv ==
  /\ handler.what = "lost" => down
  /\ handler.what = "restored" => ~down
  /\ \A c \in Conv : Told(c)

LEMMA NoticesFinite ==
  ASSUME RestOK, NEW c \in Conv
  PROVE  IsFiniteSet(Notices(c)) /\ Cardinality(Notices(c)) \in Nat
<1>1. posted[c] \in Seq(Entry) /\ Notices(c) \in SUBSET (1..Len(posted[c]))
  BY DEF RestOK, Notices
<1>2. IsFiniteSet(1..Len(posted[c]))
  BY <1>1, FS_Interval
<1>3. QED
  BY <1>1, <1>2, FS_Subset, FS_CardinalityType

\* One more entry, the n-th, is one more notice or none, and leaves the others
\* as they are.
Added(c, what, n) ==
  /\ n \notin Notices(c) /\ posted'[c][n].what = what
  /\ Notices(c)' = IF what \in Notice THEN Notices(c) \cup {n} ELSE Notices(c)
  /\ \A i \in Notices(c) : posted'[c][i] = posted[c][i] /\ ~(n <= i)
  /\ NoticesTo(c, n)' = Notices(c)'

LEMMA NoticeAdded ==
  ASSUME RestOK, NEW c \in Conv, NEW e \in Entry, NEW n, n = Len(posted[c]) + 1,
         posted'[c] = Append(posted[c], e)
  PROVE  Added(c, e.what, n)
<1> DEFINE p == posted[c]
           q == posted'[c]
<1>1. p \in Seq(Entry) /\ q = Append(p, e)
  BY DEF RestOK
<1> HIDE DEF q
<1>2. /\ Len(p) \in Nat /\ n = Len(p) + 1 /\ DOMAIN p = 1..Len(p) /\ DOMAIN q = 1..n
      /\ q[n] = e /\ \A i \in 1..Len(p) : q[i] = p[i]
  BY <1>1
<1> HIDE DEF p
<1>3. Notices(c) = {i \in DOMAIN p : p[i].what \in Notice}
      /\ Notices(c)' = {i \in DOMAIN q : q[i].what \in Notice}
  BY DEF Notices, Notice, p, q
<1>4. /\ n \notin DOMAIN p /\ DOMAIN q = DOMAIN p \cup {n}
      /\ \A i \in DOMAIN q : i <= n
      /\ \A i \in DOMAIN p : ~(n <= i)
  BY <1>2
<1>5. n \notin Notices(c)
      /\ Notices(c)' = IF e.what \in Notice THEN Notices(c) \cup {n} ELSE Notices(c)
  BY <1>2, <1>3, <1>4
<1>6. \A i \in Notices(c) : q[i] = p[i] /\ ~(n <= i)
  BY <1>2, <1>3, <1>4
<1>7. NoticesTo(c, n)' = Notices(c)'
  BY <1>3, <1>4 DEF NoticesTo
<1>8. QED
  BY <1>1, <1>2, <1>5, <1>6, <1>7 DEF p, q, Added

\* A conversation that the running operation writes to has its turn, and may
\* have it refused or cut off.
LEMMA TurnTaken ==
  ASSUME CoordInv, NoticeInv, NEW c \in Conv, c \in handler.left, down' = down,
         NEW n, Added(c, handler.what, n), ~InRound(c)'
  PROVE  Told(c)'
<1>0. PICK what : what = handler.what
  OBVIOUS
<1>1. Told(c) /\ Added(c, what, n) /\ down \in BOOLEAN /\ RestOK
  BY <1>0 DEF NoticeInv, CoordInv, RestOK
<1>2. CASE what \in Notice
  <2>1. InRound(c) /\ (what = "lost" <=> down)
    BY <1>0, <1>2 DEF InRound, NoticeInv, Notice
  <2>2. Odd(Notices(c)') <=> ~Odd(Notices(c))
    <3>1. Cardinality(Notices(c)') = Cardinality(Notices(c)) + 1
          /\ Cardinality(Notices(c)) \in Nat
      BY <1>1, <1>2, NoticesFinite, FS_AddElement DEF Added
    <3> DEFINE k == Cardinality(Notices(c))
               m == Cardinality(Notices(c)')
    <3> HIDE DEF k, m
    <3>2. m % 2 = 1 <=> ~(k % 2 = 1)
      BY <3>1 DEF k, m
    <3>3. QED
      BY <3>2 DEF Odd, k, m
  <2>3. down <=> Odd(Notices(c)')
    BY <1>1, <2>1, <2>2 DEF Told, Odd
  <2>4. posted'[c][n].what = "lost" <=> Odd(NoticesTo(c, n)')
    <3>1. posted'[c][n].what = what /\ NoticesTo(c, n)' = Notices(c)'
      BY <1>1 DEF Added
    <3>2. QED
      BY <2>1, <2>3, <3>1
  <2>5. ASSUME NEW i \in Notices(c)'
        PROVE  posted'[c][i].what = "lost" <=> Odd(NoticesTo(c, i)')
    <3>1. CASE i = n
      BY <2>4, <3>1
    <3>2. CASE i # n
      <4>1. i \in Notices(c) /\ NoticesTo(c, i)' = NoticesTo(c, i)
        BY <1>1, <1>2, <2>5, <3>2 DEF NoticesTo, Added
      <4>2. QED
        BY <1>1, <4>1 DEF Told, Odd, Added
    <3>3. QED
      BY <3>1, <3>2
  <2>6. QED
    BY <2>3, <2>5 DEF Told, Odd
<1>3. CASE what \notin Notice
  <2>1. ~InRound(c)
    BY <1>0, <1>3 DEF InRound
  <2>2. Notices(c)' = Notices(c) /\ \A i \in Notices(c) : posted'[c][i] = posted[c][i]
    BY <1>1, <1>3 DEF Added
  <2>3. ASSUME NEW i \in Notices(c)'
        PROVE  posted'[c][i].what = "lost" <=> Odd(NoticesTo(c, i)')
    <3>1. NoticesTo(c, i)' = NoticesTo(c, i)
      BY <2>2 DEF NoticesTo
    <3>2. QED
      BY <1>1, <2>2, <2>3, <3>1 DEF Told
  <2>4. QED
    BY <1>1, <2>1, <2>2, <2>3 DEF Told, Odd
<1>4. QED
  BY <1>2, <1>3

\* The others are left as they are.
LEMMA TurnNotTaken ==
  ASSUME NEW d \in Conv, Told(d), posted'[d] = posted[d], down' = down,
         InRound(d)' <=> InRound(d)
  PROVE  Told(d)'
<1>1. Notices(d)' = Notices(d) /\ \A i : NoticesTo(d, i)' = NoticesTo(d, i)
  BY DEF Notices, NoticesTo
<1>2. QED
  BY <1>1 DEF Told

LEMMA NoticeKept ==
  ASSUME NoticeInv, posted' = posted, down' = down,
         \/ handler' = handler
         \/ /\ handler.left = {} \/ handler.what \notin Notice
            /\ handler'.left = {} \/ handler'.what \notin Notice
            /\ handler'.what \notin Notice
  PROVE  NoticeInv'
<1>1. ASSUME NEW c \in Conv
      PROVE  Told(c)' <=> Told(c)
  <2>1. InRound(c)' <=> InRound(c)
    BY DEF InRound
  <2>2. Notices(c)' = Notices(c) /\ \A i : NoticesTo(c, i)' = NoticesTo(c, i)
    BY DEF Notices, NoticesTo
  <2>3. QED
    BY <2>1, <2>2 DEF Told
<1>2. QED
  BY <1>1 DEF NoticeInv, Notice

LEMMA RoundBegins == ASSUME CoordInv, NoticeInv, StateChange PROVE NoticeInv'
<1> DEFINE up == Head(queue).up
<1>1. Free /\ Head(queue) \in Operations /\ Head(queue).what = "state"
      /\ UNCHANGED posted
  BY Started DEF StateChange, CoordInv
<1>2. up \in BOOLEAN /\ handler = Nothing /\ down \in BOOLEAN
  BY <1>1, UpIn DEF Free, CoordInv, RestOK
<1>3. CASE Notable(up)
  <2>1. /\ down' = ~up /\ up = down /\ handler'.left = Conv
        /\ handler'.what = IF up THEN "restored" ELSE "lost"
    BY <1>3 DEF StateChange, Post, Notable
  <2>2. ASSUME NEW c \in Conv, Told(c)
        PROVE  Told(c)'
    <3>1. ~InRound(c) /\ InRound(c)'
      BY <1>2, <2>1 DEF InRound, Nothing, Notice
    <3>2. Notices(c)' = Notices(c) /\ \A i : NoticesTo(c, i)' = NoticesTo(c, i)
      BY <1>1 DEF Notices, NoticesTo
    <3>3. QED
      BY <1>1, <1>2, <2>1, <2>2, <3>1, <3>2 DEF Told, Odd
  <2>3. QED
    BY <1>1, <1>2, <2>1, <2>2 DEF NoticeInv
<1>4. CASE ~Notable(up)
  BY <1>1, <1>4, NoticeKept DEF StateChange
<1>5. QED
  BY <1>3, <1>4

LEMMA RoundGoesOn ==
  ASSUME CoordInv, NoticeInv, NEW c \in Conv, Posted(c)
  PROVE  NoticeInv'
<1> DEFINE e == [what |-> handler.what, told |-> TRUE]
<1>1. /\ c \in handler.left /\ down' = down /\ posted \in [Conv -> Seq(Entry)]
      /\ posted' = [posted EXCEPT ![c] = Append(@, e)]
  BY DEF Posted, CoordInv, RestOK
<1>2. handler \in HandlerRec /\ e \in Entry /\ RestOK
  BY <1>1 DEF CoordInv, HandlerOK, HandlerRec, Nothing, Entry
<1>3. /\ handler'.left = handler.left \ {c}
      /\ handler'.what = handler.what \/ (handler'.what = "none" /\ handler'.left = {})
  <2>1. CASE handler.left = {c}
    BY <2>1 DEF Posted, Nothing
  <2>2. CASE handler.left # {c}
    BY <1>2, <2>2 DEF Posted, HandlerRec
  <2>3. QED
    BY <2>1, <2>2
<1>4. Told(c)'
  <2>1. posted'[c] = Append(posted[c], e) /\ e.what = handler.what
    BY <1>1
  <2> HIDE DEF e
  <2>2. Added(c, handler.what, Len(posted[c]) + 1)
    BY <1>2, <2>1, NoticeAdded
  <2>3. ~InRound(c)'
    BY <1>3 DEF InRound
  <2>4. QED
    BY <1>1, <2>2, <2>3, TurnTaken
<1>5. ASSUME NEW d \in Conv, d # c
      PROVE  Told(d)'
  <2>1. InRound(d)' <=> InRound(d)
    BY <1>3, <1>5 DEF InRound, Notice
  <2>2. QED
    BY <1>1, <1>5, <2>1, TurnNotTaken DEF NoticeInv
<1>6. QED
  BY <1>1, <1>3, <1>4, <1>5 DEF NoticeInv

\* Telegram refuses a post: the rest of the round is cut off, and nobody is
\* put out of step by it.
LEMMA RoundEnds ==
  ASSUME CoordInv, NoticeInv, NEW c \in Conv, PostFails(c)
  PROVE  NoticeInv'
<1> DEFINE e == [what |-> handler.what, told |-> FALSE]
<1>1. /\ handler' = Nothing /\ down' = down
      /\ posted' = [d \in Conv |-> IF d \in handler.left THEN Append(posted[d], e)
                                   ELSE posted[d]]
  BY DEF PostFails
<1>2. e \in Entry /\ RestOK
  BY DEF PostFails, CoordInv, HandlerOK, Nothing, Entry
<1>3. ASSUME NEW d \in Conv
      PROVE  Told(d)'
  <2>1. ~InRound(d)'
    BY <1>1 DEF InRound, Nothing
  <2>2. CASE d \in handler.left
    <3>1. posted'[d] = Append(posted[d], e) /\ e.what = handler.what
      BY <1>1, <2>2
    <3> HIDE DEF e
    <3>2. Added(d, handler.what, Len(posted[d]) + 1)
      BY <1>2, <3>1, NoticeAdded
    <3>3. QED
      BY <1>1, <2>1, <2>2, <3>2, TurnTaken
  <2>3. CASE d \notin handler.left
    <3>1. ~InRound(d)
      BY <2>3 DEF InRound
    <3>2. QED
      BY <1>1, <2>1, <2>3, <3>1, TurnNotTaken DEF NoticeInv
  <2>4. QED
    BY <2>2, <2>3
<1>4. QED
  BY <1>1, <1>3 DEF NoticeInv, Nothing

LEMMA NoticeNext == CoordInv /\ NoticeInv /\ [CoordNext]_vars => NoticeInv'
<1> SUFFICES ASSUME CoordInv, NoticeInv, [CoordNext]_vars
             PROVE  NoticeInv'
  OBVIOUS
<1>1. ASSUME UNCHANGED <<handler, down, posted>>
      PROVE  NoticeInv'
  BY <1>1, NoticeKept
<1>2. CASE Asked \/ SessionError
  <2>1. UNCHANGED <<down, posted>> /\ handler = Nothing
    BY <1>2 DEF Asked, SessionError, Start, Free
  <2>2. handler' = Nothing \/ handler'.what \in {"ask", "error"}
    BY <1>2, <2>1 DEF Asked, SessionError, Post
  <2>3. QED
    BY <2>1, <2>2, NoticeKept DEF Nothing, Notice
<1>3. CASE StateChange
  BY <1>3, RoundBegins
<1>4. ASSUME NEW c \in Conv, Posted(c) \/ PostFails(c)
      PROVE  NoticeInv'
  BY <1>4, RoundGoesOn, RoundEnds
<1>5. QED
  BY <1>1, <1>2, <1>3, <1>4
     DEF CoordNext, EventArrives, ConnectionChanges, SubscriptionEnds, Unbind, Operation,
         PartUpdate, SessionIdle, Start, Streaming, Stop, StopEnds, CoordRest, vars,
         coordVars

LEMMA NoticeInit == CoordInit => NoticeInv
<1> SUFFICES ASSUME CoordInit
             PROVE  NoticeInv
  OBVIOUS
<1>1. ASSUME NEW c \in Conv
      PROVE  Told(c)
  <2>1. Notices(c) = {} /\ InRound(c) = FALSE /\ down = FALSE
    BY DEF CoordInit, Notices, InRound, Nothing
  <2>2. Odd({}) = FALSE
    BY FS_EmptySet DEF Odd
  <2>3. QED
    BY <2>1, <2>2 DEF Told
<1>2. QED
  BY <1>1 DEF NoticeInv, CoordInit, Nothing

\* Whatever fails, each conversation has its turn once in every round of
\* notices, told or cut off, the rounds say "lost" and "restored" in turn,
\* beginning with "lost", however often the connection changed and however
\* late the queue got round to it; and the last round that has reached a
\* conversation tells the state that the coordinator is in
\* (handleStateChange, disconnectedNoticeSent).
THEOREM NoticesTakeTurns == CoordSpec => []NoticesAlternate
<1>1. NoticeInv /\ CoordInv => NoticesAlternate
  BY DEF NoticeInv, NoticesAlternate, Told, InRound, Notice, CoordInv, RestOK, Odd
<1>2. CoordInit => NoticeInv /\ CoordInv
  BY NoticeInit, CoordInitial
<1>3. NoticeInv /\ CoordInv /\ [CoordNext]_vars => (NoticeInv /\ CoordInv)'
  BY NoticeNext, CoordStep
<1>4. QED
  BY <1>1, <1>2, <1>3, PTL DEF CoordSpec

-----------------------------------------------------------------------------
(* The coordinator as a client of the streamer.                              *)

\* The budget of failures also pays for the coordinator's own posts.
PostFailure == MayFail("error") /\ UNCHANGED streamVars

\* Clearing keys that have no stream changes nothing.
LEMMA ClearedNothing ==
  ASSUME CoreInv, NEW keys \in SUBSET Key, Open(keys) = {}, Clear(keys)
  PROVE  UNCHANGED streamerVars
<1>1. stream \in Seq(StreamRec) /\ states \in [Key -> 0..Len(stream)]
  BY DEF CoreInv, Core, StreamsOK, MapOK
<1>2. stream' = stream
  BY <1>1 DEF Clear
<1>3. \A k \in keys : states[k] = 0
  BY DEF Open
<1>4. states' = states
  BY <1>1, <1>3 DEF Clear
<1>5. QED
  BY <1>2, <1>4 DEF Clear, streamerVars

LEMMA CallIsStreamerStep ==
  ASSUME CoordInv, [CoordNext]_vars
  PROVE  [StreamerNext \/ PostFailure]_streamerVars
<1>1. CASE PartUpdate
  <2>1. Head(queue).key \in Key /\ Head(queue).text \in Payload \cup {Empty}
    BY <1>1, Started, PartOf DEF PartUpdate, CoordInv
  <2>2. QED
    BY <1>1, <2>1 DEF PartUpdate, StreamerNext
<1>2. CASE SessionIdle
  <2>1. LastOf(Head(queue).session) \subseteq Key
    BY DEF LastOf, CoordInv, LastOK
  <2>2. QED
    BY <1>2, <2>1 DEF SessionIdle, StreamerNext
<1>3. CASE SessionError
  <2>1. KeysOf(Head(queue).session) \in SUBSET Key /\ Head(queue).session \in Session
    BY <1>3, Started, SessionIn DEF SessionError, CoordInv, KeysOf
  <2>2. QED
    BY <1>3, <2>1, ClearedNothing DEF SessionError, StreamerNext, CoordInv, StreamerInv
<1>4. CASE StopEnds
  BY <1>4, ClearedNothing DEF StopEnds, StreamerNext, CoordInv, StreamerInv
<1>5. ASSUME NEW c \in Conv, PostFails(c)
      PROVE  PostFailure
  BY <1>5 DEF PostFails, PostFailure, streamVars
<1>6. CASE Streaming
  BY <1>6 DEF Streaming, StreamerNext
<1>7. ASSUME UNCHANGED streamerVars
      PROVE  [StreamerNext \/ PostFailure]_streamerVars
  BY <1>7
<1>8. ASSUME NEW c \in Conv, Posted(c)
      PROVE  UNCHANGED streamerVars
  BY <1>8 DEF Posted
<1>9. Asked \/ StateChange => UNCHANGED streamerVars
  BY DEF Asked, StateChange
<1>10. QED
  BY <1>1, <1>2, <1>3, <1>4, <1>5, <1>6, <1>7, <1>8, <1>9
     DEF CoordNext, EventArrives, ConnectionChanges, SubscriptionEnds, Unbind, Operation, Stop,
         CoordRest, vars

\* The coordinator uses the streamer as module ResponseStreamer has its
\* clients use it: every step of the whole is, for the streamer, one of its own
\* steps or none, but for the failures of the coordinator's own posts.
THEOREM CoordinatorDrivesStreams ==
  CoordSpec => [][StreamerNext \/ PostFailure]_streamerVars
<1>1. CoordInv /\ [CoordNext]_vars => [StreamerNext \/ PostFailure]_streamerVars
  BY CallIsStreamerStep
<1>2. QED
  BY <1>1, CoordInvAlways, PTL DEF CoordSpec

\* A stream that the coordinator cancelled falls silent too: once no call of
\* it awaits Telegram, no timer, chained flush or retry adds to its messages
\* or edits them (cancelState, flushState's checks).
THEOREM ClearedStreamsAreSilent == CoordSpec => CancelledIsSilent
<1>1. CoordInv /\ [CoordNext]_vars =>
        [\A s \in DOMAIN stream :
           stream[s].cancelled /\ stream[s].at # "call" =>
             /\ stream'[s].at # "call"
             /\ \A m \in DOMAIN chat' : chat'[m].stream = s =>
                  m \in DOMAIN chat /\ chat'[m].part = chat[m].part]_streamerVars
  <2> SUFFICES ASSUME CoordInv, [CoordNext]_vars, NEW s \in DOMAIN stream
               PROVE  Silent(s)
    BY DEF Silent
  <2>1. [StreamerNext \/ PostFailure]_streamerVars
    BY CallIsStreamerStep
  <2>2. StreamStep
    BY <2>1, NextIsStreamStep DEF PostFailure, StreamStep
  <2>3. QED
    BY <2>2, StepIsSilent DEF CoordInv, StreamerInv
<1>2. QED
  BY <1>1, CoordInvAlways, PTL DEF CoordSpec, CancelledIsSilent
=============================================================================
