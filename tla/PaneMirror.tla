---------------------------- MODULE PaneMirror ----------------------------
(***************************************************************************)
(* The pane mirror of the Telegram bot, telegram/tmux-bot/src/lib/stream.ts*)
(* a window of tmux is captured at an interval, and the message that shows *)
(* it is edited.                                                           *)
(*                                                                         *)
(* The interval does not wait for a tick to end, so captures and edits of  *)
(* one stream overlap; updates of the chat, that start and stop streams,   *)
(* are handled one at a time, and their awaits interleave with the ticks.  *)
(* The chat is one, as the streams of two chats share nothing.             *)
(***************************************************************************)
EXTENDS Naturals, SequencesExt

CONSTANTS
  Target,          \* the windows
  Content,         \* what a window may show
  IdleStops,       \* the settings of STREAM_IDLE_STOP_TICKS: 0 is never
  MaxStreams,      \* bound on the streams that are started
  MaxTicks,        \* bound on the ticks of a stream under way at once
  None                   \* no stream

ASSUME MirrorAssumption ==
  /\ Target # {} /\ Content # {}
  /\ IdleStops \subseteq Nat /\ MaxStreams \in Nat /\ MaxTicks \in Nat \ {0}
  /\ None \notin Nat \cup Target \cup Content

VARIABLES
  screen,    \* what every window shows
  streams,   \* the map from chat and target to a stream
  state,     \* the StreamStates there have been
  shown,     \* the message of every stream
  captured,  \* captures of a stream whose tick has not gone on
  edits,     \* edits of a stream's message under way, oldest first
  starting,  \* the startStream under way
  refused,   \* streams that had an edit refused
  overtaken, \* streams that had an edit overtaken by a later one
  idleStop   \* config.stream.idleStopTicks

vars == <<screen, streams, state, shown, captured, edits, starting, refused, overtaken,
          idleStop>>

Stream == DOMAIN state
Body(content, live) == [content |-> content, live |-> live]
NotStarting == [target |-> None, content |-> None]

Init ==
  /\ screen \in [Target -> Content]
  /\ streams = [t \in Target |-> None]
  /\ state = <<>>
  /\ shown = <<>>
  /\ captured = <<>>
  /\ edits = <<>>
  /\ starting = NotStarting
  /\ refused = {}
  /\ overtaken = {}
  /\ idleStop \in IdleStops

---------------------------------------------------------------------------
(* stopStream, which knows a stream by its target only.                    *)
(* A mutant: the timer of the stream goes on.                              *)
StopStreamOnly(t, now) ==
  /\ streams' = [streams EXCEPT ![t] = None]
  /\ state' = now

StopStream(t, now) ==
  /\ streams' = [streams EXCEPT ![t] = None]
  /\ state' = IF streams[t] = None THEN now
              ELSE [now EXCEPT ![streams[t]].timer = FALSE]

(* startStream: stop, capture, send, register.                             *)
Start(t) ==
  /\ starting = NotStarting /\ Len(state) < MaxStreams
  /\ StopStream(t, state)
  /\ starting' = [target |-> t, content |-> None]
  /\ UNCHANGED <<screen, shown, captured, edits, refused, overtaken, idleStop>>

StartCaptured ==
  /\ starting.target # None /\ starting.content = None
  /\ starting' = [starting EXCEPT !.content = screen[starting.target]]
  /\ UNCHANGED <<screen, streams, state, shown, captured, edits, refused, overtaken, idleStop>>

StartSent ==
  /\ starting.content # None
  /\ state' = Append(state, [target |-> starting.target, timer |-> TRUE, idleTicks |-> 0,
                             lastHash |-> starting.content,
                             lastBody |-> Body(starting.content, TRUE)])
  /\ streams' = [streams EXCEPT ![starting.target] = Len(state')]
  /\ shown' = Append(shown, Body(starting.content, TRUE))
  /\ captured' = Append(captured, <<>>)
  /\ edits' = Append(edits, <<>>)
  /\ starting' = NotStarting
  /\ UNCHANGED <<screen, refused, overtaken, idleStop>>

StartFails ==
  /\ starting.content # None
  /\ starting' = NotStarting
  /\ UNCHANGED <<screen, streams, state, shown, captured, edits, refused, overtaken, idleStop>>

(* /stop                                                                   *)
Stop(t) ==
  /\ starting = NotStarting
  /\ streams[t] # None
  /\ StopStream(t, state)
  /\ UNCHANGED <<screen, shown, captured, edits, starting, refused, overtaken, idleStop>>

---------------------------------------------------------------------------
(* The interval fires, and tmux captures the window.                       *)
Capture(s) ==
  /\ state[s].timer
  /\ Len(captured[s]) + Len(edits[s]) < MaxTicks
  /\ captured' = [captured EXCEPT ![s] = Append(@, screen[state[s].target])]
  /\ UNCHANGED <<screen, streams, state, shown, edits, starting, refused, overtaken, idleStop>>

(* An edit is asked for; what it will do when it is answered depends on    *)
(* why it was.                                                             *)
AskEdit(s, body, idle) ==
  edits' = [edits EXCEPT ![s] = Append(@, [body |-> body, idle |-> idle])]

Idle(now, s) == idleStop > 0 /\ now[s].idleTicks >= idleStop

(* idleTicks matters up to one more than the first and the last that count.*)
OneMore(n) == IF n > 1 /\ n > idleStop THEN n ELSE n + 1

(* The rest of a tick whose capture shows nothing new: the first one marks *)
(* the message idle, and the stream stops when there have been enough.     *)
IdleTick(s, content) ==
  LET idle == [state EXCEPT ![s].idleTicks = OneMore(@)]
      body == Body(content, FALSE)
      marks == idle[s].idleTicks = 1 /\ body # state[s].lastBody
  IN IF marks
     THEN /\ state' = [idle EXCEPT ![s].lastBody = body]
          /\ AskEdit(s, body, TRUE)
          /\ UNCHANGED streams
     ELSE /\ IF Idle(idle, s) THEN StopStream(state[s].target, idle)
             ELSE state' = idle /\ UNCHANGED streams
          /\ UNCHANGED edits

(* A mutant: only idle ticks touch idleTicks.                              *)
NewTickStillIdle(s, content) ==
  LET body == Body(content, TRUE)
      fresh == [state EXCEPT ![s].lastHash = content]
  IN /\ IF body = state[s].lastBody
        THEN state' = fresh /\ UNCHANGED edits
        ELSE /\ state' = [fresh EXCEPT ![s].lastBody = body]
             /\ AskEdit(s, body, FALSE)
     /\ UNCHANGED streams

NewTick(s, content) ==
  LET body == Body(content, TRUE)
      fresh == [state EXCEPT ![s].idleTicks = 0, ![s].lastHash = content]
  IN /\ IF body = state[s].lastBody
        THEN state' = fresh /\ UNCHANGED edits
        ELSE /\ state' = [fresh EXCEPT ![s].lastBody = body]
             /\ AskEdit(s, body, FALSE)
     /\ UNCHANGED streams

(* A tick goes on with its capture, maybe after a later tick.              *)
Tick(s, i) ==
  /\ captured' = [captured EXCEPT ![s] = RemoveAt(@, i)]
  /\ IF captured[s][i] = state[s].lastHash
     THEN IdleTick(s, captured[s][i])
     ELSE NewTick(s, captured[s][i])
  /\ UNCHANGED <<screen, shown, starting, refused, overtaken, idleStop>>

---------------------------------------------------------------------------
(* An edit is answered, maybe before one that was asked for earlier.       *)
Answered(s, i) ==
  /\ edits' = [edits EXCEPT ![s] = RemoveAt(@, i)]
  /\ overtaken' = IF i > 1 THEN overtaken \cup {s} ELSE overtaken
  /\ UNCHANGED <<screen, captured, starting, idleStop>>

EditDone(s, i) ==
  /\ Answered(s, i)
  /\ shown' = [shown EXCEPT ![s] = edits[s][i].body]
  /\ IF edits[s][i].idle /\ Idle(state, s)
     THEN StopStream(state[s].target, state)
     ELSE UNCHANGED <<streams, state>>
  /\ UNCHANGED refused

(* Any error but "message is not modified" stops the stream: the message   *)
(* may be gone.                                                            *)
(* A mutant: an error of an edit is left for the next tick.                *)
EditRefusedOnce(s, i) ==
  /\ Answered(s, i)
  /\ refused' = refused \cup {s}
  /\ UNCHANGED <<shown, streams, state>>

EditRefused(s, i) ==
  /\ Answered(s, i)
  /\ refused' = refused \cup {s}
  /\ StopStream(state[s].target, state)
  /\ UNCHANGED shown

ScreenChanges(t, content) ==
  /\ screen[t] # content
  /\ screen' = [screen EXCEPT ![t] = content]
  /\ UNCHANGED <<streams, state, shown, captured, edits, starting, refused, overtaken, idleStop>>

Next ==
  \/ \E t \in Target: Start(t) \/ Stop(t) \/ \E content \in Content: ScreenChanges(t, content)
  \/ StartCaptured \/ StartSent \/ StartFails
  \/ \E s \in Stream: \/ Capture(s)
                      \/ \E i \in DOMAIN captured[s]: Tick(s, i)
                      \/ \E i \in DOMAIN edits[s]: EditDone(s, i) \/ EditRefused(s, i)

(* The interval goes on, tmux answers, and Telegram answers an edit.       *)
Fairness ==
  \A s \in 1..MaxStreams:
    /\ WF_vars(s \in Stream /\ Capture(s))
    /\ WF_vars(s \in Stream /\ \E i \in DOMAIN captured[s]: Tick(s, i))
    /\ WF_vars(s \in Stream /\ \E i \in DOMAIN edits[s]: EditDone(s, i) \/ EditRefused(s, i))

Spec == Init /\ [][Next]_vars /\ Fairness

---------------------------------------------------------------------------
StreamState ==
  [target: Target, timer: BOOLEAN, idleTicks: Nat, lastHash: Content,
   lastBody: [content: Content, live: BOOLEAN]]

TypeOK ==
  /\ screen \in [Target -> Content]
  /\ state \in Seq(StreamState)
  /\ streams \in [Target -> Stream \cup {None}]
  /\ starting \in [target: Target \cup {None}, content: Content \cup {None}]
  /\ captured \in Seq(Seq(Content)) /\ Len(captured) = Len(state)
  /\ refused \subseteq Stream /\ overtaken \subseteq Stream
  /\ idleStop \in IdleStops

(* Every interval that runs belongs to the stream that is registered for   *)
(* its window, and can be stopped: no restart, failure or overlapping tick *)
(* leaves one behind that would edit a message for ever.                   *)
NoStrayTimer == \A s \in Stream: state[s].timer => streams[state[s].target] = s

(* A stream whose edit was refused does not go on: its message may be gone,*)
(* and it must not spin, also when another stream has taken its key.       *)
NeverSpins == \A s \in refused: ~state[s].timer

(* When a window stays as it is, a stream that stays registered shows it   *)
(* in the end and marks it idle, in whatever order its captures came back; *)
(* unless Telegram carries out its edits in another order than asked.      *)
ShownAtLast ==
  \A s \in 1..MaxStreams, t \in Target, content \in Content:
    <>[](screen[t] = content /\ streams[t] = s /\ s \notin overtaken)
      => <>[](s \in Stream => shown[s] = Body(content, FALSE))
===========================================================================
