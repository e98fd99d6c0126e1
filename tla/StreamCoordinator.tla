------------------------ MODULE StreamCoordinator ------------------------
(***************************************************************************)
(* The coordinator of telegram/tmux-bot/src/bot/stream-coordinator.ts: it  *)
(* subscribes to opencode's events, serialises them in one queue, streams  *)
(* text updates to the conversation a session is bound to, completes the   *)
(* reply when the session goes idle, forwards questions and errors, and    *)
(* tells every conversation when the event stream breaks and returns.      *)
(*                                                                         *)
(* An operation of the queue starts when the one before it has ended, and  *)
(* ends when its last awaited call has; a failure is logged and ends only  *)
(* its own operation.  The streams' timers, flushes and Telegram's answers *)
(* (module ResponseStreamer) interleave with the queue.                    *)
(***************************************************************************)
EXTENDS ResponseStreamer

CONSTANTS
  Conv,        \* the bound conversations, chat and thread
  ConvOf,      \* [Session -> Conv]: the conversation of a bound session
  MaxEvents    \* bound on events and connection changes

ASSUME CoordinatorAssumption ==
  /\ Conv # {} /\ ConvOf \in [Session -> Conv]
  /\ MaxEvents \in Nat /\ MaxEvents <= MaxEnqueues

VARIABLES
  queue,        \* the scheduled operations not yet started
  handler,      \* the awaited call of the running operation
  lastMessage,  \* lastMessageIds: the set of keys it holds, one per session
  down,         \* disconnectedNoticeSent
  connected,    \* the state the subscription reported last
  feed,         \* the subscription: "live", told to end, or "ended"
  bound,        \* the sessions the binding store resolves
  posted,       \* history: what each conversation was to be told beside
                \* replies, and whether it was told
  stopped,      \* how far stop() has come: "no", "stopping", "stopped"
  events        \* events and connection changes so far

coordVars == <<queue, handler, lastMessage, down, connected, feed, bound,
               posted, stopped, events>>
vars == <<streamerVars, coordVars>>

Nothing == [pc |-> "idle", what |-> "none", left |-> {}]

CoordInit ==
  /\ StreamerInit
  /\ queue = <<>>
  /\ handler = Nothing
  /\ lastMessage = {}
  /\ down = FALSE
  /\ connected = FALSE
  /\ feed = "live"
  /\ bound = Session
  /\ posted = [c \in Conv |-> <<>>]
  /\ stopped = "no"
  /\ events = 0

Free == handler = Nothing /\ caller = Idle

LastOf(sess) == {k \in lastMessage : SessionOf[k] = sess}

---------------------------------------------------------------------------
(* What arrives: events of the subscription, in the order opencode sends   *)
(* them, and the changes of its connection, until it has ended.  After     *)
(* stop() nothing more is scheduled.                                       *)

Empty == <<>>

Event == [what : {"part"}, key : Key, text : Payload \cup {Empty}]
           \cup [what : {"idle", "ask", "error"}, session : Session]

Schedule(op) ==
  /\ feed # "ended" /\ events < MaxEvents
  /\ events' = events + 1
  /\ queue' = IF stopped = "no" THEN Append(queue, op) ELSE queue

EventArrives(e) ==
  /\ connected
  /\ Schedule(e)
  /\ UNCHANGED <<streamerVars, handler, lastMessage, down, connected, feed,
                 bound, posted, stopped>>

ConnectionChanges ==
  /\ connected' = ~connected
  /\ Schedule([what |-> "state", up |-> ~connected])
  /\ UNCHANGED <<streamerVars, handler, lastMessage, down, feed, bound, posted,
                 stopped>>

(* The subscription returns some time after its signal was aborted         *)
(* (EventSubscription's AbortEnds), and not before (subscribeEvents).      *)
SubscriptionEnds ==
  /\ feed = "aborted" /\ feed' = "ended"
  /\ UNCHANGED <<streamerVars, queue, handler, lastMessage, down, connected,
                 bound, posted, stopped, events>>

(* A command moves the conversation on to another session.                 *)
Unbind(sess) ==
  /\ sess \in bound
  /\ bound' = bound \ {sess}
  /\ UNCHANGED <<streamerVars, queue, handler, lastMessage, down, connected,
                 feed, posted, stopped, events>>

---------------------------------------------------------------------------
(* The operations.                                                         *)

Start(what) ==
  /\ Free /\ queue # <<>> /\ Head(queue).what = what
  /\ queue' = Tail(queue)
  /\ UNCHANGED <<connected, feed, bound, posted, stopped, events>>

(* Plausible bug: the message before stays the last one as well.           *)
TrackedAlso(k) == lastMessage \cup {k}

Tracked(k) == (lastMessage \ LastOf(SessionOf[k])) \cup {k}

(* handlePartUpdate: the reply's stream gets the new text, none if it is   *)
(* empty, and the message becomes the one an idle session completes.       *)
PartUpdate ==
  LET k == Head(queue).key
      sess == SessionOf[k]
  IN /\ Start("part")
     /\ \/ /\ sess \in bound
           /\ lastMessage' = Tracked(k)
           /\ \/ Head(queue).text # Empty /\ Enqueue(k, Head(queue).text)
              \/ Head(queue).text = Empty /\ UNCHANGED streamerVars
        \/ sess \notin bound /\ UNCHANGED <<lastMessage, streamerVars>>
     /\ UNCHANGED <<handler, down>>

(* handleIdle: the last message of the session is completed; the queue     *)
(* waits for complete to return.                                           *)
SessionIdle ==
  LET last == LastOf(Head(queue).session)
  IN /\ Start("idle")
     /\ \/ /\ last # {} /\ Head(queue).session \in bound
           /\ lastMessage' = lastMessage \ last
           /\ \/ \E k \in last : Complete(k)
              \/ Open(last) = {} /\ UNCHANGED streamerVars
        \/ /\ last = {} \/ Head(queue).session \notin bound
           /\ UNCHANGED <<lastMessage, streamerVars>>
     /\ UNCHANGED <<handler, down>>

Post(what, convs) == handler' = [pc |-> "post", what |-> what, left |-> convs]

(* handlePermission and handleQuestion: one message to the conversation.   *)
Asked ==
  /\ Start("ask")
  /\ IF Head(queue).session \in bound
     THEN Post("ask", {ConvOf[Head(queue).session]})
     ELSE UNCHANGED handler
  /\ UNCHANGED <<streamerVars, lastMessage, down>>

(* handleSessionError: the session's streams are dropped as they stand,    *)
(* and the error is posted.                                                *)
SessionError ==
  LET sess == Head(queue).session
  IN /\ Start("error")
     /\ IF sess \in bound
        THEN /\ Clear(KeysOf(sess))
             /\ lastMessage' = lastMessage \ LastOf(sess)
             /\ Post("error", {ConvOf[sess]})
        ELSE UNCHANGED <<streamerVars, lastMessage, handler>>
     /\ UNCHANGED down

(* Plausible bug: a notice for every change, whatever was said before.     *)
NotableAlways(up) == TRUE

Notable(up) == up = down

(* handleStateChange: one notice when the stream goes down, one when it    *)
(* has come back after that, each to every bound conversation in turn.     *)
StateChange ==
  LET up == Head(queue).up
  IN /\ Start("state")
     /\ IF Notable(up)
        THEN down' = ~up /\ Post(IF up THEN "restored" ELSE "lost", Conv)
        ELSE UNCHANGED <<down, handler>>
     /\ UNCHANGED <<streamerVars, lastMessage>>

(* Telegram answers the message that the operation awaits: the next        *)
(* conversation has its turn, or the operation ends.                       *)
Posted(c) ==
  /\ c \in handler.left
  /\ posted' = [posted EXCEPT ![c] = Append(@, [what |-> handler.what, told |-> TRUE])]
  /\ handler' = IF handler.left = {c} THEN Nothing
               ELSE [handler EXCEPT !.left = @ \ {c}]
  /\ UNCHANGED <<streamerVars, queue, lastMessage, down, connected, feed, bound,
                 stopped, events>>

(* Plausible bug: the failure is not caught, and nothing runs after it.    *)
PostFailsForGood(c) ==
  /\ c \in handler.left
  /\ MayFail("error")
  /\ handler' = [pc |-> "dead", what |-> "none", left |-> {}]
  /\ UNCHANGED <<mode, kept, states, stream, chat, draft, caller, enqueued>>
  /\ UNCHANGED <<queue, lastMessage, down, connected, feed, bound, posted,
                 stopped, events>>

(* Telegram refuses it: the operation ends there, and the conversations    *)
(* still to be told are not.                                               *)
PostFails(c) ==
  /\ c \in handler.left
  /\ MayFail("error")
  /\ handler' = Nothing
  /\ posted' = [d \in Conv |->
       IF d \in handler.left
         THEN Append(posted[d], [what |-> handler.what, told |-> FALSE])
         ELSE posted[d]]
  /\ UNCHANGED <<mode, kept, states, stream, chat, draft, caller, enqueued>>
  /\ UNCHANGED <<queue, lastMessage, down, connected, feed, bound, stopped,
                 events>>

---------------------------------------------------------------------------
(* stop() refuses what arrives, aborts the subscription and waits for it   *)
(* to end, lets the queue run dry and then drops every stream.             *)

(* Plausible bug: stop() forgets to abort what it waits for.               *)
StopWithoutAbort ==
  /\ stopped = "no"
  /\ stopped' = "stopping"
  /\ UNCHANGED <<streamerVars, queue, handler, lastMessage, down, connected,
                 feed, bound, posted, events>>

Stop ==
  /\ stopped = "no"
  /\ stopped' = "stopping" /\ feed' = "aborted"
  /\ UNCHANGED <<streamerVars, queue, handler, lastMessage, down, connected,
                 bound, posted, events>>

(* Plausible bug: stop() waits for the running operation only.             *)
DrainedSoon == feed = "ended" /\ Free

Drained == feed = "ended" /\ queue = <<>> /\ Free

StopEnds ==
  /\ stopped = "stopping" /\ Drained
  /\ Clear(Key)
  /\ lastMessage' = {}
  /\ stopped' = "stopped"
  /\ UNCHANGED <<queue, handler, down, connected, feed, bound, posted, events>>

Operation ==
  \/ PartUpdate \/ SessionIdle \/ Asked \/ SessionError \/ StateChange
  \/ \E c \in Conv : Posted(c) \/ PostFails(c)

(* The streamers' own steps.                                               *)
Streaming == Background /\ UNCHANGED coordVars

CoordRest ==
  /\ stopped = "stopped" /\ bound = {}
  /\ \A s \in DOMAIN stream : ~Tasks(stream[s])
  /\ UNCHANGED vars

CoordNext ==
  \/ \E e \in Event : EventArrives(e)
  \/ ConnectionChanges \/ SubscriptionEnds
  \/ \E sess \in Session : Unbind(sess)
  \/ Operation \/ Streaming \/ Stop \/ StopEnds \/ CoordRest

CoordSpec == CoordInit /\ [][CoordNext]_vars

(* The event loop runs what is queued, timers fire, Telegram answers, an   *)
(* aborted subscription ends.                                              *)
CoordFairness ==
  /\ WF_vars(Operation) /\ WF_vars(SubscriptionEnds) /\ WF_vars(StopEnds)
  /\ WF_vars(Completing /\ UNCHANGED coordVars)
  /\ \A s \in 1..MaxEnqueues :
       WF_vars(s \in DOMAIN stream /\ Flushing(s) /\ UNCHANGED coordVars)

FairCoordSpec == CoordSpec /\ CoordFairness

---------------------------------------------------------------------------
(* Properties.                                                             *)

Operations == Event \cup [what : {"state"}, up : BOOLEAN]
Posts == {"ask", "error", "lost", "restored"}

(* Every variable has its type; each session has at most one last message; *)
(* and an operation that awaits Telegram has somebody left to write to.    *)
CoordTypeOK ==
  /\ TypeOK
  /\ queue \in Seq(Operations) /\ Len(queue) <= events
  /\ handler.pc \in {"idle", "post"} /\ handler.left \subseteq Conv
  /\ handler.pc = "post" <=> handler.left # {}
  /\ handler # Nothing => caller = Idle
  /\ lastMessage \subseteq Key
  /\ \A sess \in Session : Cardinality(LastOf(sess)) <= 1
  /\ {down, connected} \subseteq BOOLEAN
  /\ bound \subseteq Session
  /\ feed \in {"live", "aborted", "ended"}
  /\ posted \in [Conv -> Seq([what : Posts, told : BOOLEAN])]
  /\ stopped \in {"no", "stopping", "stopped"}
  /\ events \in 0..MaxEvents

(* Where the notices are among what c was to be told, and those of them up *)
(* to the i-th entry.                                                      *)
Notices(c) ==
  {i \in DOMAIN posted[c] : posted[c][i].what \in {"lost", "restored"}}
NoticesTo(c, i) == {j \in Notices(c) : j <= i}

Odd(S) == Cardinality(S) % 2 = 1

(* Each conversation takes part once in every round of notices, and the    *)
(* rounds say "lost" and "restored" in turn, beginning with "lost",        *)
(* however often the connection changed and however late the queue got     *)
(* round to it; and once a round is over for a conversation, it told the   *)
(* state the coordinator is in (disconnectedNoticeSent).  A failing notice *)
(* costs the conversations not yet told this one notice and does not put   *)
(* the rounds out of step, so that nobody reads the same notice twice      *)
(* unless the one between was cut off.                                     *)
NoticesAlternate ==
  \A c \in Conv :
    /\ \A i \in Notices(c) : posted[c][i].what = "lost" <=> Odd(NoticesTo(c, i))
    /\ ~(c \in handler.left /\ handler.what \in {"lost", "restored"})
         => (down <=> Odd(Notices(c)))

(* After stop() has returned nothing can start again: no event can arrive, *)
(* no operation is waiting, no stream is in the map, and no stream has a   *)
(* timer or is uncancelled.  A flush that awaits Telegram may still go on  *)
(* through its remaining parts (syncMessages does not look at cancelled).  *)
QuietAfterStop ==
  stopped = "stopped" =>
    /\ Drained /\ lastMessage = {}
    /\ Open(Key) = {}
    /\ \A s \in DOMAIN stream : stream[s].cancelled /\ ~stream[s].timer

(* The queue never gets stuck: whatever fails and however long Telegram    *)
(* makes a flush wait, the waiting operations are all run in time.         *)
QueueServed == queue # <<>> ~> queue = <<>>

(* stop() returns: neither the subscription nor the queue it waits for     *)
(* keeps it, whatever fails while they come to their end.                  *)
StopReturns == stopped = "stopping" ~> stopped = "stopped"

(* The README's claim on streaming ("the message is sent once, then edited *)
(* in place as more text streams in"): a reply that has text is sent, so   *)
(* as long as Telegram takes every message no reply is given up.  The code *)
(* gives up a reply whose session goes idle before its first flush, and    *)
(* handleIdle does not look at complete's answer.                          *)
ReplyIsSent ==
  faults = 0 => \A s \in DOMAIN stream : stream[s].done # "unsent"
===========================================================================
