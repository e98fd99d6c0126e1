------------------------- MODULE EventSubscription -------------------------
(***************************************************************************)
(* The subscription to opencode's events as written in                     *)
(* telegram/tmux-bot/src/lib/opencode/events.ts: a loop that opens an      *)
(* event stream, reads it until it ends, fails or has been silent for 30   *)
(* seconds, and opens the next one after a delay that doubles.  The        *)
(* caller's signal may abort it at every await.                            *)
(*                                                                         *)
(* An await is two steps here: first it settles, and later the code behind *)
(* it runs with the result it settled with; the signal may be aborted, and *)
(* opencode may go down or emit, in between.                               *)
(***************************************************************************)
EXTENDS Naturals, Sequences

CONSTANTS
  RECONNECT_BASE,   \* RECONNECT_BASE_MS and RECONNECT_MAX_MS, in seconds
  RECONNECT_MAX,
  MaxEmits          \* bound: events opencode emits

ASSUME DelayAssumption ==
  /\ {RECONNECT_BASE, RECONNECT_MAX, MaxEmits} \subseteq Nat
  /\ 0 < RECONNECT_BASE /\ RECONNECT_BASE <= RECONNECT_MAX

VARIABLES
  pc,          \* what the loop awaits
  result,      \* what that await has settled with
  state,       \* the local variable: what onStateChange said last
  delay,       \* reconnectDelay
  aborted,     \* options.signal
  listeners,   \* listeners the loop has on that signal
  live,        \* streams opened and not closed
  up,          \* opencode answers
  attached,    \* opencode still writes to the stream at hand
  buffer,      \* what it wrote and the loop has not consumed
  emitted,     \* history: events emitted so far
  position,    \* history: the last event handed to onEvent, or before the
               \* first one of the stream at hand
  reports      \* history: calls of onStateChange, modulo 2

vars == <<pc, result, state, delay, aborted, listeners, live, up, attached,
          buffer, emitted, position, reports>>
server == <<up, emitted>>
consumer == <<state, position, reports>>

Opening == {"global", "scoped"}
State == {"connected", "disconnected"}

TypeOK ==
  /\ pc \in Opening \cup {"start", "reading", "waiting", "ended"}
  /\ result \in {"none", "stream", "event", "timeout", "failed", "aborted"}
  /\ state \in State /\ reports \in {0, 1}
  /\ delay \in RECONNECT_BASE..RECONNECT_MAX
  /\ {aborted, up, attached} \subseteq BOOLEAN
  /\ listeners \in Nat /\ live \in Nat
  /\ emitted \in 0..MaxEmits /\ position \in 0..emitted
  /\ buffer \in Seq(1..emitted)

Init ==
  /\ pc = "start" /\ result = "none"
  /\ state = "disconnected" /\ delay = RECONNECT_BASE
  /\ aborted = FALSE /\ listeners = 0 /\ live = 0
  /\ up \in BOOLEAN /\ attached = FALSE /\ buffer = <<>>
  /\ emitted = 0 /\ position = 0 /\ reports = 0

-----------------------------------------------------------------------------
(* Pieces of the loop *)

\* Plausible bug: every call is reported, whether or not the state changed.
SetStateAlways(next) == state' = next /\ reports' = 1 - reports

\* Only a change is reported.
SetState(next) ==
  /\ state' = next
  /\ reports' = IF state = next THEN reports ELSE 1 - reports

\* The head of the loop: a signal of its own for the attempt, and the call.
NextAttempt ==
  IF aborted THEN pc' = "ended" /\ UNCHANGED listeners
  ELSE pc' = "global" /\ listeners' = listeners + 1

\* Plausible bug: the attempt's listener stays on the caller's signal.
CleanupForgets(n) == n

\* The attempt's listener is removed; an abort has removed it before.
Cleanup(n) == IF n = 0 THEN 0 ELSE n - 1

\* Plausible bug: an attempt that never connected ends the subscription.
AfterAttemptGivesUp ==
  IF aborted \/ state = "disconnected" THEN pc' = "ended" /\ listeners' = Cleanup(listeners)
  ELSE pc' = "waiting" /\ listeners' = Cleanup(listeners) + 1

\* What follows an attempt: the end, or the wait for the next one.
AfterAttempt ==
  IF aborted THEN pc' = "ended" /\ listeners' = Cleanup(listeners)
  ELSE pc' = "waiting" /\ listeners' = Cleanup(listeners) + 1

\* The finally block: the attempt is aborted, its stream is closed, and what
\* the stream still held is dropped.
Leave(opened) ==
  /\ AfterAttempt
  /\ live' = live - opened
  /\ attached' = FALSE /\ buffer' = <<>>
  /\ SetState("disconnected")

Settled(outcome) == result = "none" /\ result' = outcome
Consume == result # "none" /\ result' = "none"

Begin ==
  /\ pc = "start"
  /\ NextAttempt
  /\ UNCHANGED <<result, state, delay, aborted, live, attached, buffer, position,
                 reports, server>>

-----------------------------------------------------------------------------
(* openStream: the global stream, and if that fails the one of a directory *)

\* opencode takes the call, and writes to the stream from now on; an older
\* server has no global stream.
OpenAnswered ==
  /\ up
  /\ \/ pc \in Opening /\ Settled("stream") /\ attached' = TRUE
     \/ pc = "global" /\ Settled("failed") /\ UNCHANGED attached
  /\ UNCHANGED <<pc, state, delay, aborted, listeners, live, buffer, position,
                 reports, server>>

\* The connection is refused; it may also hang, for there is no timeout here.
OpenRefused ==
  /\ pc \in Opening /\ ~up
  /\ Settled("failed")
  /\ UNCHANGED <<pc, state, delay, aborted, listeners, live, attached, buffer,
                 position, reports, server>>

\* Plausible bug: the signal is not passed on to the second call.
OpenAbortedGlobal ==
  /\ pc = "global" /\ aborted
  /\ Settled("failed")
  /\ UNCHANGED <<pc, state, delay, aborted, listeners, live, attached, buffer,
                 position, reports, server>>

\* The signal of the attempt follows the caller's and rejects the call.
OpenAborted ==
  /\ pc \in Opening /\ aborted
  /\ Settled("failed")
  /\ UNCHANGED <<pc, state, delay, aborted, listeners, live, attached, buffer,
                 position, reports, server>>

\* The first event of the stream at hand is the one after this.
Start == IF buffer = <<>> THEN emitted ELSE Head(buffer) - 1

\* A stream is there: the delay starts again and the consumer is told, also
\* when the signal was aborted meanwhile, which closes the stream at once.
OpenContinues ==
  /\ pc \in Opening /\ result = "stream" /\ Consume
  /\ delay' = RECONNECT_BASE
  /\ IF aborted
       THEN Leave(0) /\ UNCHANGED position
       ELSE /\ pc' = "reading"
            /\ SetState("connected")
            /\ position' = Start
            /\ live' = live + 1
            /\ UNCHANGED <<listeners, attached, buffer>>
  /\ UNCHANGED <<aborted, server>>

FallBack ==
  /\ pc = "global" /\ ~aborted /\ result = "failed" /\ Consume
  /\ pc' = "scoped"
  /\ UNCHANGED <<state, delay, aborted, listeners, live, attached, buffer, position,
                 reports, server>>

OpenFails ==
  /\ pc = "scoped" \/ (pc = "global" /\ aborted)
  /\ result = "failed" /\ Consume
  /\ Leave(0)
  /\ UNCHANGED <<delay, aborted, position, server>>

-----------------------------------------------------------------------------
(* Reading *)

\* The first of next(), the timer and the abort listener decides.  The timer
\* may come first although an event has arrived, if the process was busy.
ReadSettles ==
  /\ pc = "reading"
  /\ \/ buffer # <<>> /\ Settled("event")
     \/ buffer = <<>> /\ ~attached /\ Settled("failed")
     \/ Settled("timeout")
     \/ aborted /\ Settled("aborted")
  /\ UNCHANGED <<pc, state, delay, aborted, listeners, live, attached, buffer,
                 position, reports, server>>

\* onEvent gets the event, then the loop looks at the signal.
EventRead ==
  /\ pc = "reading" /\ result = "event" /\ Consume
  /\ position' = Head(buffer)
  /\ IF aborted
       THEN Leave(1)
       ELSE buffer' = Tail(buffer) /\ UNCHANGED <<pc, state, listeners, live, attached, reports>>
  /\ UNCHANGED <<delay, aborted, server>>

\* End of the stream, error, timeout and abort all leave the attempt.
ReadEnds ==
  /\ pc = "reading" /\ result # "event" /\ Consume
  /\ Leave(1)
  /\ UNCHANGED <<delay, aborted, position, server>>

-----------------------------------------------------------------------------
(* waitForReconnect *)

\* The listener goes in both cases: the timer removes it, the abort uses it up.
WaitSettles ==
  /\ pc = "waiting"
  /\ \/ Settled("timeout") /\ listeners' = Cleanup(listeners)
     \/ aborted /\ Settled("aborted") /\ UNCHANGED listeners
  /\ UNCHANGED <<pc, state, delay, aborted, live, attached, buffer, position,
                 reports, server>>

\* Plausible bug: the delay has no upper limit.
DoubledUnlimited == 2 * delay

Doubled == IF 2 * delay > RECONNECT_MAX THEN RECONNECT_MAX ELSE 2 * delay

WaitContinues ==
  /\ pc = "waiting" /\ Consume
  /\ IF result = "aborted"
       THEN pc' = "ended" /\ UNCHANGED <<delay, listeners>>
       ELSE delay' = Doubled /\ NextAttempt
  /\ UNCHANGED <<state, aborted, live, attached, buffer, position, reports, server>>

-----------------------------------------------------------------------------
(* The environment *)

\* The coordinator stops; a listener added with once is used up.
Abort ==
  /\ ~aborted /\ aborted' = TRUE
  /\ listeners' = 0
  /\ UNCHANGED <<pc, result, state, delay, live, attached, buffer, position,
                 reports, server>>

Emit ==
  /\ up /\ emitted < MaxEmits
  /\ emitted' = emitted + 1
  /\ buffer' = IF attached THEN Append(buffer, emitted + 1) ELSE buffer
  /\ UNCHANGED <<pc, result, state, delay, aborted, listeners, live, up, attached,
                 position, reports>>

\* opencode goes down or comes back, or only drops the connection.
ServerChanges ==
  /\ up' \in BOOLEAN
  /\ attached' = FALSE
  /\ <<up, attached>>' # <<up, attached>>
  /\ UNCHANGED <<pc, result, state, delay, aborted, listeners, live, buffer,
                 emitted, position, reports>>

Continue ==
  \/ Begin \/ OpenContinues \/ FallBack \/ OpenFails
  \/ EventRead \/ ReadEnds \/ WaitContinues

Next ==
  \/ Continue
  \/ OpenAnswered \/ OpenRefused \/ OpenAborted \/ ReadSettles \/ WaitSettles
  \/ Abort \/ Emit \/ ServerChanges

Spec == Init /\ [][Next]_vars

\* The event loop runs what has settled and fires its timers; a call is
\* answered while opencode is up, and rejected once its signal is aborted.
FairSpec ==
  /\ Spec
  /\ WF_vars(Continue)
  /\ WF_vars(OpenAnswered) /\ WF_vars(OpenAborted)
  /\ WF_vars(ReadSettles) /\ WF_vars(WaitSettles)

-----------------------------------------------------------------------------
(* Properties *)

\* Any number of reconnections leaves nothing behind: at most one listener
\* sits on the caller's signal and at most one stream is open, and while the
\* loop waits or is over no stream is open (createAttemptSignal, closeStream).
NothingLeaks ==
  /\ listeners <= 1 /\ live <= 1
  /\ live = 1 <=> pc = "reading"
  /\ pc = "ended" => listeners = 0

\* The subscription is a feed: onStateChange tells the two states in turn, and
\* between two of its calls onEvent gets a run of events with no gap and none
\* twice, whatever fails, times out or is aborted.
Feed == INSTANCE EventFeed WITH over <- (pc = "ended")
IsFeed == Feed!Spec

\* An aborted subscription ends, whatever it awaits, also if opencode hangs.
AbortEnds == aborted ~> pc = "ended"

\* While opencode answers, the subscription connects again and again, however
\* often it was refused before and however long opencode says nothing.
Reconnects ==
  <>[](up /\ ~aborted) => []<>(state = "connected")
=============================================================================
