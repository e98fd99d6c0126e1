------------------------- MODULE ResponseStreamer -------------------------
(***************************************************************************)
(* The streaming of one reply into Telegram messages, as written in        *)
(* telegram/tmux-bot/src/streaming/response-streamer.ts on top of          *)
(* telegram-transport.ts.                                                  *)
(*                                                                         *)
(* A stream mirrors the latest text of one opencode message as a list of   *)
(* Telegram messages, one per rendered part.  enqueue replaces the text    *)
(* and arms a throttle timer; when the timer fires a flush is chained      *)
(* behind the flushes already running; a flush awaits one Telegram call    *)
(* per changed part, may be told to wait (429), may fall back to plain     *)
(* text, and may give the stream up as broken.  complete and the clear     *)
(* operations come from the coordinator, whose event queue runs one of     *)
(* them at a time; timers, flushes and Telegram's answers interleave with  *)
(* it freely.                                                              *)
(***************************************************************************)
EXTENDS Naturals, Sequences, FiniteSets, FiniteSetsExt, SequencesExt

CONSTANTS
  Session,        \* opencode sessions
  Key,            \* stream keys: one per (session, message)
  SessionOf,      \* [Key -> Session]
  Payload,        \* rendered texts: non-empty sequences of parts
  Plain,          \* [Payload -> sequence of plain parts]: chunkPlainText
  Mode,           \* the configurations: draft streaming in a private chat
                  \* or not, STREAM_THROTTLE_MS above 0 or not
  Fault,          \* which failures Telegram may show
  MaxEnqueues,    \* bound on text updates
  MaxFaults       \* bound on failures

AllFaults == {"parse", "limited", "error", "lost", "gone"}

Native(p) == \E i \in DOMAIN p : p[i].rich
PlainPart(part) == [part EXCEPT !.rich = FALSE]
toPlainPayload(p) == IF Native(p) THEN Plain[p] ELSE p

AnyPart == [rich : BOOLEAN,
            text : UNION {{part.text : part \in Range(p) \cup Range(Plain[p])}
                            : p \in Payload}]
Parts == Seq(AnyPart)

(* What the model assumes of the constants: a part is [rich, text], a      *)
(* rendered text is never empty (normalizePayload drops empty ones) and    *)
(* its plain form holds no rich part.                                      *)
ASSUME StreamerAssumption ==
  /\ SessionOf \in [Key -> Session]
  /\ \A p \in Payload : {p, Plain[p]} \subseteq Parts
  /\ \A p \in Payload : p # <<>> /\ Plain[p] # <<>> /\ ~Native(Plain[p])
  /\ Mode \subseteq [draft : BOOLEAN, throttled : BOOLEAN]
  /\ Fault \subseteq AllFaults
  /\ {MaxEnqueues, MaxFaults} \subseteq Nat

VARIABLES
  mode,       \* the configuration the bot runs in
  states,     \* the map from key to stream, 0 when absent
  stream,     \* every stream object made so far, reachable or not
  chat,       \* the messages Telegram holds, in the order it got them
  kept,       \* history: messages whose deletion a cleanup was refused
  draft,      \* the part the draft bubble shows
  caller,     \* where the coordinator's call stands
  enqueued,   \* text updates so far
  faults      \* failures so far

streamerVars ==
  <<mode, states, stream, chat, kept, draft, caller, enqueued, faults>>

(* The call under way; ids are the messages cleanup has still to delete or *)
(* those completePart has made.                                            *)
Idle == [pc |-> "idle", s |-> 0, ids |-> <<>>]

(* A fresh StreamState; at, work, idx and ok stand for the flush that runs *)
(* (where it awaits, the parts it syncs, the part it is at, what it        *)
(* returned), queued for the flushes chained behind it, and done for what  *)
(* complete answered at the end.                                           *)
NewState(k) ==
  [key |-> k, latest |-> <<>>, sigs |-> <<>>, ids |-> <<>>, timer |-> FALSE,
   cancelled |-> FALSE, broken |-> FALSE, plainOnly |-> FALSE,
   queued |-> 0, at |-> "rest", work |-> <<>>, idx |-> 0, ok |-> TRUE,
   done |-> "open"]

Draft == mode.draft            \* telegram.draftStreaming, in a private chat
Throttled == mode.throttled    \* stream.throttleMs above 0

StreamerInit ==
  /\ mode \in Mode
  /\ states = [k \in Key |-> 0]
  /\ stream = <<>>
  /\ chat = <<>>
  /\ kept = {}
  /\ draft = <<>>
  /\ caller = Idle
  /\ enqueued = 0
  /\ faults = 0

(* Plausible bug: no timer is armed while a flush is under way.            *)
EnsureTimerWhenQuiet(st) ==
  IF st.timer \/ st.cancelled \/ st.at # "rest" THEN st
  ELSE IF Throttled THEN [st EXCEPT !.timer = TRUE]
  ELSE [st EXCEPT !.queued = @ + 1]

EnsureTimer(st) ==
  IF st.timer \/ st.cancelled THEN st
  ELSE IF Throttled THEN [st EXCEPT !.timer = TRUE]
  ELSE [st EXCEPT !.queued = @ + 1]

CancelState(st) == [st EXCEPT !.cancelled = TRUE, !.timer = FALSE]

---------------------------------------------------------------------------
(* The flush.                                                              *)

Target(st) == IF st.plainOnly THEN toPlainPayload(st.latest) ELSE st.latest

Return(st, ok) ==
  [st EXCEPT !.at = "rest", !.work = <<>>, !.idx = 0, !.ok = ok]

(* The parts from i on that syncMessages has to send or to edit.           *)
Changed(st, i) ==
  {j \in i..Len(st.work) : j > Len(st.ids) \/ st.sigs[j] # st.work[j]}

(* Where syncMessages awaits next, from part i on: a changed part, then    *)
(* the last surplus message, then the end of the flush.                    *)
SyncFrom(st, i) ==
  IF Changed(st, i) # {} THEN [st EXCEPT !.idx = Min(Changed(st, i))]
  ELSE IF Len(st.ids) > Len(st.work) THEN [st EXCEPT !.idx = Len(st.work) + 1]
  ELSE Return(st, TRUE)

(* Plausible bug: a flush woken from its retry delay does not look at      *)
(* cancelled again.                                                        *)
FlushStateCancelled(st) ==
  IF st.broken THEN Return(st, FALSE)
  ELSE IF st.sigs = Target(st) THEN Return(st, st.ids # <<>>)
  ELSE SyncFrom([st EXCEPT !.at = "call", !.work = Target(st)], 1)

(* Plausible bug: a text with as many parts as before counts as unchanged. *)
FlushStateByLength(st) ==
  IF st.cancelled \/ st.broken THEN Return(st, FALSE)
  ELSE IF Len(st.sigs) = Len(Target(st)) THEN Return(st, st.ids # <<>>)
  ELSE SyncFrom([st EXCEPT !.at = "call", !.work = Target(st)], 1)

(* One turn of flushState's loop, up to its first await.                   *)
FlushState(st) ==
  IF st.cancelled \/ st.broken THEN Return(st, FALSE)
  ELSE IF st.sigs = Target(st) THEN Return(st, st.ids # <<>>)
  ELSE SyncFrom([st EXCEPT !.at = "call", !.work = Target(st)], 1)

(* The catch clause: a first native failure degrades the stream to plain   *)
(* text and the loop goes on; any other failure breaks the stream.         *)
Failed(st) ==
  IF ~st.plainOnly /\ Native(st.work)
  THEN FlushState([st EXCEPT !.plainOnly = TRUE])
  ELSE Return([st EXCEPT !.broken = TRUE], FALSE)

(* Only one flush of a stream runs at a time: the next one starts when the *)
(* one before it has returned.                                             *)
StartFlush(s) ==
  /\ stream[s].at = "rest" /\ stream[s].queued > 0
  /\ stream' = [stream EXCEPT ![s] =
                  FlushState([stream[s] EXCEPT !.queued = @ - 1])]
  /\ UNCHANGED <<mode, kept, states, chat, draft, caller, enqueued, faults>>

TimerFires(s) ==
  /\ stream[s].timer
  /\ stream' = [stream EXCEPT ![s].timer = FALSE, ![s].queued = @ + 1]
  /\ UNCHANGED <<mode, kept, states, chat, draft, caller, enqueued, faults>>

---------------------------------------------------------------------------
(* Telegram's answers to the call a flush awaits.                          *)

Awaiting(s) == stream[s].at = "call"
OnPart(s) == Awaiting(s) /\ stream[s].idx <= Len(stream[s].work)
OnSurplus(s) == Awaiting(s) /\ stream[s].idx > Len(stream[s].work)
CurrentPart(s) == stream[s].work[stream[s].idx]
Editing(s) == stream[s].idx <= Len(stream[s].ids)

(* The bubble's id, which no message has.                                  *)
DraftId == 0

(* A call on a message that is not there can only be refused.              *)
Missing(s) ==
  LET ids == stream[s].ids
  IN IF Draft THEN OnSurplus(s)
     ELSE /\ OnSurplus(s) \/ Editing(s)
          /\ IF OnSurplus(s) THEN chat[Last(ids)].deleted
             ELSE chat[ids[stream[s].idx]].deleted

MayFail(fault) ==
  /\ fault \in Fault /\ faults < MaxFaults
  /\ faults' = faults + 1

(* acked: the bot was told that Telegram did what the message shows.       *)
NewMessage(s, part, acked) ==
  [stream |-> s, part |-> part, deleted |-> FALSE, acked |-> acked]

(* Telegram shows the part: in the draft bubble, in the message being      *)
(* edited, or in a new message.                                            *)
Show(s, part, acked) ==
  IF Draft THEN draft' = <<part>> /\ UNCHANGED chat
  ELSE /\ chat' = IF Editing(s)
                  THEN [chat EXCEPT ![stream[s].ids[stream[s].idx]] =
                         [@ EXCEPT !.part = part, !.acked = acked]]
                  ELSE Append(chat, NewMessage(s, part, acked))
       /\ UNCHANGED draft

(* The bookkeeping after a call that went through, showing part.           *)
Recorded(s, part) ==
  LET st == stream[s]
      id == IF Draft THEN DraftId ELSE Len(chat) + 1
  IN IF Editing(s) THEN [st EXCEPT !.sigs[st.idx] = part]
     ELSE [st EXCEPT !.ids = Append(@, id), !.sigs = Append(@, part)]

PartShown(s) ==
  /\ OnPart(s) /\ ~Missing(s)
  /\ Show(s, CurrentPart(s), TRUE)
  /\ stream' = [stream EXCEPT ![s] =
                  SyncFrom(Recorded(s, CurrentPart(s)), stream[s].idx + 1)]
  /\ UNCHANGED <<mode, kept, states, caller, enqueued, faults>>

(* Telegram cannot parse a rich part; the transport sends its fallback     *)
(* text instead and reports the degradation.                               *)
PartDegraded(s) ==
  /\ OnPart(s) /\ ~Missing(s) /\ CurrentPart(s).rich
  /\ MayFail("parse")
  /\ LET part == PlainPart(CurrentPart(s))
     IN /\ Show(s, part, TRUE)
        /\ stream' = [stream EXCEPT ![s] =
             SyncFrom([Recorded(s, part) EXCEPT !.plainOnly = TRUE],
                      stream[s].idx + 1)]
  /\ UNCHANGED <<mode, kept, states, caller, enqueued>>

(* Plausible bug: the first message is forgotten, not the last.            *)
TrimShifts(st) ==
  SyncFrom([st EXCEPT !.ids = Tail(@), !.sigs = Tail(@)], Len(st.work) + 1)

(* The last surplus message is deleted and forgotten.                      *)
Trim(st) ==
  SyncFrom([st EXCEPT !.ids = Front(@), !.sigs = Front(@)], Len(st.work) + 1)

(* Plausible bug: the first message is deleted, not the last.              *)
DeleteFirst(ids) == chat' = [chat EXCEPT ![Head(ids)].deleted = TRUE]

DeleteLast(ids) == chat' = [chat EXCEPT ![Last(ids)].deleted = TRUE]

SurplusDeleted(s) ==
  /\ OnSurplus(s) /\ ~Missing(s)
  /\ DeleteLast(stream[s].ids)
  /\ stream' = [stream EXCEPT ![s] = Trim(@)]
  /\ UNCHANGED <<mode, kept, states, draft, caller, enqueued, faults>>

(* 429 with a retry-after: the flush waits before its next turn.           *)
RateLimited(s) ==
  /\ Awaiting(s)
  /\ MayFail("limited")
  /\ stream' = [stream EXCEPT ![s].at = "delay"]
  /\ UNCHANGED <<mode, kept, states, chat, draft, caller, enqueued>>

DelayEnds(s) ==
  /\ stream[s].at = "delay"
  /\ stream' = [stream EXCEPT ![s] = FlushState(@)]
  /\ UNCHANGED <<mode, kept, states, chat, draft, caller, enqueued, faults>>

(* Telegram refuses the call: it must when the message is gone.            *)
Refused(s) ==
  /\ Awaiting(s)
  /\ \/ Missing(s) /\ UNCHANGED faults
     \/ MayFail("error")
  /\ stream' = [stream EXCEPT ![s] = Failed(@)]
  /\ UNCHANGED <<mode, kept, states, chat, draft, caller, enqueued>>

(* Telegram does what it was asked to, and its answer is lost.             *)
AnswerLost(s) ==
  /\ Awaiting(s) /\ ~Missing(s)
  /\ MayFail("lost")
  /\ \/ OnPart(s) /\ Show(s, CurrentPart(s), FALSE)
     \/ OnSurplus(s) /\ DeleteLast(stream[s].ids) /\ UNCHANGED draft
  /\ stream' = [stream EXCEPT ![s] = Failed(@)]
  /\ UNCHANGED <<mode, kept, states, caller, enqueued>>

(* Someone deletes one of the bot's messages.                              *)
UserDeletes(m) ==
  /\ m \in DOMAIN chat /\ ~chat[m].deleted
  /\ MayFail("gone")
  /\ chat' = [chat EXCEPT ![m].deleted = TRUE]
  /\ UNCHANGED <<mode, kept, states, stream, draft, caller, enqueued>>

---------------------------------------------------------------------------
(* The calls of the coordinator, one at a time.                            *)

(* A text update: the stream is created on the first one.                  *)
Enqueue(k, p) ==
  LET known == states[k] # 0
      s == IF known THEN states[k] ELSE Len(stream) + 1
      st == [(IF known THEN stream[s] ELSE NewState(k)) EXCEPT !.latest = p]
      next == IF st.broken THEN st ELSE EnsureTimer(st)
  IN /\ caller = Idle /\ enqueued < MaxEnqueues
     /\ states' = [states EXCEPT ![k] = s]
     /\ stream' = IF known THEN [stream EXCEPT ![s] = next]
                  ELSE Append(stream, next)
     /\ enqueued' = enqueued + 1
     /\ UNCHANGED <<mode, kept, chat, draft, caller, faults>>

Tasks(st) == st.queued > 0 \/ st.at # "rest"

(* complete(k) stops the timer and waits for the flushes under way.        *)
Complete(k) ==
  /\ caller = Idle /\ states[k] # 0
  /\ stream' = [stream EXCEPT ![states[k]].timer = FALSE]
  /\ caller' = [pc |-> "tasks", s |-> states[k], ids |-> <<>>]
  /\ UNCHANGED <<mode, kept, states, chat, draft, enqueued, faults>>

(* Plausible bug: a completed stream stays in the map.                     *)
FinishKeepsState(st, answer) ==
  /\ stream' = [stream EXCEPT ![caller.s] =
                  [CancelState(st) EXCEPT !.done = answer]]
  /\ states' = states
  /\ caller' = Idle

(* complete returns: the stream is cancelled and leaves the map.           *)
Finish(st, answer) ==
  /\ stream' = [stream EXCEPT ![caller.s] =
                  [CancelState(st) EXCEPT !.done = answer]]
  /\ states' = [states EXCEPT ![st.key] = 0]
  /\ caller' = Idle

(* The flushes are through: a broken stream is cleaned up, a stream that   *)
(* shows nothing is dropped, and any other is flushed once more.           *)
TasksSettled ==
  LET st == stream[caller.s]
  IN /\ caller.pc = "tasks" /\ ~Tasks(st)
     /\ \/ /\ st.broken /\ st.ids # <<>>
           /\ caller' = [caller EXCEPT !.pc = "cleanup", !.ids = st.ids]
           /\ UNCHANGED <<states, stream>>
        \/ /\ st.ids = <<>>
           /\ Finish(st, "unsent")
        \/ /\ ~st.broken /\ st.ids # <<>>
           /\ stream' = [stream EXCEPT ![caller.s].queued = @ + 1]
           /\ caller' = [caller EXCEPT !.pc = "final"]
           /\ UNCHANGED states
     /\ UNCHANGED <<mode, kept, chat, draft, enqueued, faults>>

(* cleanupBrokenStream deletes what is visible, from the last message to   *)
(* the first; a failed deletion is only logged.                            *)
CleanupStep ==
  LET gone == IF Draft THEN TRUE ELSE chat[Last(caller.ids)].deleted
  IN /\ caller.pc = "cleanup"
     /\ \/ ~gone /\ DeleteLast(caller.ids) /\ UNCHANGED <<kept, faults>>
        \/ gone /\ UNCHANGED <<chat, kept, faults>>
        \/ /\ MayFail("error")
           /\ kept' = kept \cup {Last(caller.ids)}
           /\ UNCHANGED chat
     /\ \/ /\ Len(caller.ids) > 1
           /\ caller' = [caller EXCEPT !.ids = Front(@)]
           /\ UNCHANGED <<states, stream>>
        \/ /\ Len(caller.ids) = 1
           /\ Finish([stream[caller.s] EXCEPT !.ids = <<>>, !.sigs = <<>>],
                     "unsent")
     /\ UNCHANGED <<mode, draft, enqueued>>

Answer(ok) == IF ok THEN "streamed" ELSE "unsent"

(* The last flush is through: a draft is now persisted part by part.       *)
FinalFlushed ==
  LET st == stream[caller.s]
  IN /\ caller.pc = "final" /\ ~Tasks(st)
     /\ \/ /\ Draft /\ st.ok
           /\ caller' = [caller EXCEPT !.pc = "persist"]
           /\ UNCHANGED <<states, stream>>
        \/ /\ ~(Draft /\ st.ok)
           /\ Finish(st, Answer(st.ok))
     /\ UNCHANGED <<mode, kept, chat, draft, enqueued, faults>>

(* completePart: the real messages of a finished draft.  One failure gives *)
(* the reply up, with the parts sent so far left in the chat.              *)
PersistPart ==
  LET st == stream[caller.s]
      parts == Target(st)
      part == parts[Len(caller.ids) + 1]
      ids == Append(caller.ids, Len(chat) + 1)
      Send(p, acked) == chat' = Append(chat, NewMessage(caller.s, p, acked))
  IN /\ caller.pc = "persist"
     /\ \/ /\ \/ Send(part, TRUE) /\ UNCHANGED faults
              \/ part.rich /\ MayFail("parse") /\ Send(PlainPart(part), TRUE)
           /\ \/ /\ Len(ids) < Len(parts)
                 /\ caller' = [caller EXCEPT !.ids = ids]
                 /\ UNCHANGED <<states, stream>>
              \/ /\ Len(ids) = Len(parts)
                 /\ Finish([st EXCEPT !.ids = ids], "streamed")
        \/ /\ \/ MayFail("error") /\ UNCHANGED chat
              \/ MayFail("lost") /\ Send(part, FALSE)
           /\ Finish(st, "unsent")
     /\ UNCHANGED <<mode, kept, draft, enqueued>>

Open(keys) == {states[k] : k \in keys} \ {0}

(* clearMessage, clearSession and clearAll cancel the streams of the given *)
(* keys and forget them; what is on screen stays, and a flush that awaits  *)
(* Telegram goes on until it next looks at cancelled.                      *)
Clear(keys) ==
  LET gone == Open(keys)
  IN /\ caller = Idle
     /\ stream' = [s \in DOMAIN stream |->
          IF s \in gone THEN [CancelState(stream[s]) EXCEPT !.done = "cleared"]
          ELSE stream[s]]
     /\ states' = [k \in Key |-> IF k \in keys THEN 0 ELSE states[k]]
     /\ UNCHANGED <<mode, kept, chat, draft, caller, enqueued, faults>>

KeysOf(sess) == {k \in Key : SessionOf[k] = sess}

---------------------------------------------------------------------------
Flushing(s) ==
  \/ TimerFires(s) \/ StartFlush(s) \/ DelayEnds(s)
  \/ PartShown(s) \/ PartDegraded(s) \/ SurplusDeleted(s)
  \/ RateLimited(s) \/ Refused(s) \/ AnswerLost(s)

Completing == TasksSettled \/ CleanupStep \/ FinalFlushed \/ PersistPart

Background ==
  \/ \E s \in DOMAIN stream : Flushing(s)
  \/ Completing
  \/ \E m \in DOMAIN chat : UserDeletes(m)

(* Nothing is left to do: the bounds are reached and no reply is open.     *)
StreamerRest ==
  /\ caller = Idle /\ enqueued = MaxEnqueues
  /\ \A s \in DOMAIN stream : stream[s].done # "open" /\ ~Tasks(stream[s])
  /\ UNCHANGED streamerVars

StreamerNext ==
  \/ Background
  \/ \E k \in Key : Complete(k) \/ \E p \in Payload : Enqueue(k, p)
  \/ \E sess \in Session : Open(KeysOf(sess)) # {} /\ Clear(KeysOf(sess))
  \/ Open(Key) # {} /\ Clear(Key)
  \/ StreamerRest

StreamerSpec == StreamerInit /\ [][StreamerNext]_streamerVars

---------------------------------------------------------------------------
(* Properties.                                                             *)

(* Every variable has its type: in particular a flush at a call has a part *)
(* or a surplus message to call for, and the map names only streams that   *)
(* are open and that belong to the key (states, cancelState, complete).    *)
TypeOK ==
  /\ mode \in Mode
  /\ states \in [Key -> 0..Len(stream)]
  /\ \A k \in Key : states[k] # 0 =>
       stream[states[k]].key = k /\ stream[states[k]].done = "open"
  /\ \A s \in DOMAIN stream :
       LET st == stream[s]
       IN /\ st.key \in Key /\ st.latest \in Payload
          /\ st.sigs \in Parts /\ st.ids \in Seq(0..Len(chat))
          /\ {st.timer, st.cancelled, st.broken, st.plainOnly, st.ok} \subseteq BOOLEAN
          /\ st.queued \in Nat /\ st.at \in {"rest", "call", "delay"}
          /\ st.at = "call" => st.idx \in 1..(Max({Len(st.work), Len(st.ids)}))
          /\ st.done \in {"open", "streamed", "unsent", "cleared"}
  /\ chat \in Seq([stream : DOMAIN stream, part : AnyPart,
                   deleted : BOOLEAN, acked : BOOLEAN])
  /\ kept \subseteq Nat
  /\ caller.pc \in {"idle", "tasks", "cleanup", "final", "persist"}
  /\ caller.s \in 0..Len(stream)
  /\ enqueued \in 0..MaxEnqueues /\ faults \in 0..MaxFaults

(* The messages of the stream that it knows of and that are on screen.     *)
Visible(s) == {m \in DOMAIN chat :
                 chat[m].stream = s /\ chat[m].acked /\ ~chat[m].deleted}

Texts(parts) == [i \in DOMAIN parts |-> parts[i].text]

(* The stream's record of the chat says the latest text, rich or plain.    *)
UpToDate(st) == Texts(st.sigs) \in {Texts(st.latest), Texts(Plain[st.latest])}

(* What will still look at the latest text: the timer, a chained flush, a  *)
(* flush that waits to retry, a flush that is sending that very text, or   *)
(* complete, which flushes once more.                                      *)
UpdatePending(s) ==
  LET st == stream[s]
  IN \/ st.timer \/ st.queued > 0 \/ st.at = "delay"
     \/ st.at = "call" /\ Texts(st.work) \in {Texts(st.latest), Texts(Plain[st.latest])}
     \/ caller.pc = "tasks" /\ caller.s = s

(* No text update is dropped between a flush, the timer and the next       *)
(* flush: while a stream is open and not broken, either its messages say   *)
(* its latest text or something is pending that will bring it there.       *)
NoUpdateLost ==
  \A s \in DOMAIN stream :
    stream[s].done = "open" /\ ~stream[s].broken =>
      UpToDate(stream[s]) \/ UpdatePending(s)

(* The stream's list of messages is its own: it names messages this stream *)
(* sent and was told of, each once, in the order they stand in the chat,   *)
(* with one signature each; and no message it was told of is on screen     *)
(* without being on the list of a stream that is open (syncMessages).      *)
ListsItsMessages ==
  ~Draft =>
    \A s \in DOMAIN stream :
      LET ids == stream[s].ids
      IN /\ Len(ids) = Len(stream[s].sigs)
         /\ \A i \in DOMAIN ids : chat[ids[i]].stream = s
         /\ \A i, j \in DOMAIN ids : i < j => ids[i] < ids[j]
         /\ stream[s].done = "open" => Visible(s) \subseteq Range(ids)

(* The messages the stream lists say its latest text, part by part, except *)
(* one whose last edit went through unanswered, and no other message of it *)
(* is on screen.                                                           *)
Shown(s) ==
  LET st == stream[s]
      Shows(i, text) ==
        /\ st.ids[i] \in DOMAIN chat
        /\ chat[st.ids[i]].acked => chat[st.ids[i]].part.text = text
  IN /\ \E parts \in {st.latest, Plain[st.latest]} :
          /\ Len(parts) = Len(st.ids)
          /\ \A i \in DOMAIN parts : Shows(i, parts[i].text)
     /\ Visible(s) \subseteq Range(st.ids)

(* What complete reports as streamed is on screen: the messages it returns *)
(* say the final text, and no other message of the stream that it knows of *)
(* is left beside them.                                                    *)
StreamedIsShown ==
  \A s \in DOMAIN stream : stream[s].done = "streamed" => Shown(s)

(* A reply that complete gives up with an empty list of messages leaves    *)
(* none behind, except the very ones whose deletion Telegram refused to    *)
(* its cleanup, whatever broke the stream before (cleanupBrokenStream).    *)
GivenUpIsCleaned ==
  ~Draft =>
    \A s \in DOMAIN stream :
      stream[s].done = "unsent" /\ stream[s].ids = <<>> =>
        Visible(s) \subseteq kept

(* A cancelled stream falls silent: once it is cancelled and no call of it *)
(* awaits Telegram, no step makes another call for it and none adds to its *)
(* messages or edits them, whichever timers, chained flushes and retries   *)
(* were pending (cancelState, flushState's checks).                        *)
CancelledIsSilent ==
  [][\A s \in DOMAIN stream :
       stream[s].cancelled /\ stream[s].at # "call" =>
         /\ stream'[s].at # "call"
         /\ \A m \in DOMAIN chat' : chat'[m].stream = s =>
              m \in DOMAIN chat /\ chat'[m].part = chat[m].part]_streamerVars
===========================================================================
