----------------------------- MODULE BridgeBot -----------------------------
(***************************************************************************)
(* The conversation side of the Telegram bot: updates from Telegram are    *)
(* taken one at a time (grammY's long polling awaits each handler before   *)
(* the next update), and the handlers of bot/commands.ts, bot/callbacks.ts *)
(* and the plain-text route of index.ts bind conversations, open opencode  *)
(* sessions and prompt them.  A handler is cut at each of its awaits.      *)
(*                                                                         *)
(* External, as the code uses them: tmux (a name that comes and goes, and  *)
(* may come back in another directory), Telegram (redelivers what a crashed    *)
(* bot had not confirmed) and the opencode server (a prompt call returns   *)
(* when the turn is over; a turn may stop to ask for a permission).        *)
(***************************************************************************)
EXTENDS BindingStore, Sequences

CONSTANTS
  MayFail,      \* handler steps whose pending call may fail
  MaxUpdates,   \* bound: updates sent by users
  MaxAsks,      \* bound: permissions one session asks for
  MaxCrashes    \* bound: crashes of the bot

ASSUME BoundAssumption == {MaxUpdates, MaxAsks, MaxCrashes} \subseteq Nat
ASSUME MayFailAssumption ==
  MayFail \subseteq {"listing", "creating", "prompting", "inTurn", "aborting",
                     "replying"}

VARIABLES
  sent,      \* number of updates sent so far
  queue,     \* updates Telegram holds, oldest first
  done,      \* updates handled but not yet confirmed to Telegram
  handler,   \* the handler that is running, with what it has read so far
  store,     \* the binding store in memory
  disk,      \* the bindings in the store file
  home,      \* opencode: directory each session was created in
  turn,      \* opencode: what each session is doing
  asked,     \* opencode: number of permissions each session asked for
  buttons,   \* permission prompts with live buttons in the chats
  crashes    \* number of crashes so far

vars == <<sent, queue, done, handler, store, disk, home, turn, asked,
          buttons, crashes>>
opencode == <<home, turn, asked>>
telegram == <<sent, queue, done, crashes>>

Request == [session: Session, number: 1..MaxAsks]
Update ==
  [kind: {"bind"}, conv: Conv, name: Name]
    \cup [kind: {"new", "text", "abort"}, conv: Conv]
    \cup [kind: {"permission"}, conv: Conv, request: Request]

Step == {"listing", "binding", "creating", "storing", "prompting", "inTurn",
         "aborting", "replying"}
Handler == [update: Update, step: Step, dir: Dir \cup {None},
            session: Session \cup {None}]

TypeOK ==
  /\ sent \in 0..MaxUpdates /\ crashes \in 0..MaxCrashes
  /\ queue \in Seq(Update) /\ done \in Seq(Update)
  /\ handler \in Handler \cup {None}
  /\ store \in Store /\ disk \in Bindings
  /\ home \in [Session -> Dir \cup {None}]
  /\ turn \in [Session -> {"idle", "running", "asking"}]
  /\ asked \in [Session -> 0..MaxAsks]
  /\ buttons \subseteq [conv: Conv, request: Request]

\* The bot starts from its file: some conversations were bound before.
Init ==
  /\ sent = 0 /\ queue = <<>> /\ done = <<>> /\ handler = None /\ crashes = 0
  /\ disk \in {b \in Bindings : \A c \in Conv : SessionOf(b, c) = None}
  /\ store = LoadStore(disk)
  /\ home = [s \in Session |-> None]
  /\ turn = [s \in Session |-> "idle"]
  /\ asked = [s \in Session |-> 0]
  /\ buttons = {}

At(step) == handler # None /\ handler.step = step
TheConv == handler.update.conv

-----------------------------------------------------------------------------
(* Dispatch *)

\* The handler returned or threw (bot.catch logs it): the update is handled.
Finish(u) == handler' = None /\ done' = Append(done, u)

\* What a handler does before its first await.
Begin(u) ==
  LET binding == store.bindings[u.conv]
      Wait(step, dir, session) ==
        /\ handler' = [update |-> u, step |-> step, dir |-> dir, session |-> session]
        /\ UNCHANGED done
  IN \/ u.kind = "bind" /\ Wait("listing", None, None)
     \/ u.kind # "bind" /\ binding = None /\ Finish(u)
     \/ u.kind = "new" /\ binding # None /\ Wait("creating", binding.directory, None)
     \/ /\ u.kind = "text" /\ binding # None
        /\ IF binding.opencodeSession # None
             THEN Wait("prompting", binding.directory, binding.opencodeSession)
             ELSE Wait("creating", binding.directory, None)
     \/ /\ u.kind = "abort" /\ binding # None
        /\ IF binding.opencodeSession # None
             THEN Wait("aborting", None, binding.opencodeSession)
             ELSE Finish(u)
     \/ u.kind = "permission" /\ binding # None
          /\ Wait("replying", binding.directory, None)

\* The polling loop hands over the next update once the last is handled.
TakeUpdate ==
  /\ handler = None /\ queue # <<>>
  /\ queue' = Tail(queue)
  /\ Begin(Head(queue))
  /\ UNCHANGED <<sent, crashes, store, disk, opencode, buttons>>

\* The next getUpdates call confirms everything handled so far.
Confirm ==
  /\ handler = None /\ done # <<>>
  /\ done' = <<>>
  /\ UNCHANGED <<sent, queue, crashes, handler, store, disk, opencode, buttons>>

\* A pending call of a handler fails: it says so to the user and ends.  An
\* HTTP connection may also drop while the turn goes on without it.
CallFails ==
  /\ handler # None /\ handler.step \in MayFail
  /\ Finish(handler.update)
  /\ UNCHANGED <<sent, queue, crashes, store, disk, opencode, buttons>>

-----------------------------------------------------------------------------
(* Router.bind, for /use and the session picker *)

\* Plausible bug: the result of the lookup is used without a check.
ListSessionsUnchecked ==
  /\ At("listing")
  /\ \E dir \in Dir \cup {None} :
       handler' = [handler EXCEPT !.step = "binding", !.dir = dir]
  /\ UNCHANGED done
  /\ UNCHANGED <<sent, queue, crashes, store, disk, opencode, buttons>>

\* tmux answers list-sessions: no session has that name, or one has, in the
\* directory it was started in (not the same each time: names are reused).
ListSessions ==
  /\ At("listing")
  /\ \/ Finish(handler.update)
     \/ \E dir \in Dir :
          /\ handler' = [handler EXCEPT !.step = "binding", !.dir = dir]
          /\ UNCHANGED done
  /\ UNCHANGED <<sent, queue, crashes, store, disk, opencode, buttons>>

\* The map is changed before the file is written, which may fail.
Save(new) == store' = new /\ disk' \in {disk, new.bindings}

\* Plausible bug: a rebind keeps whatever session there was.
CarriedAlways(c, dir) == SessionOf(store.bindings, c)

\* Only a rebind that keeps the directory carries the opencode session over.
Carried(c, dir) ==
  IF store.bindings[c] # None /\ store.bindings[c].directory = dir
    THEN store.bindings[c].opencodeSession ELSE None

Bind ==
  /\ At("binding")
  /\ Save(Upsert(store, TheConv, handler.update.name, handler.dir,
                 Carried(TheConv, handler.dir)))
  /\ Finish(handler.update)
  /\ UNCHANGED <<sent, queue, crashes, opencode, buttons>>

-----------------------------------------------------------------------------
(* /new and promptBoundSession *)

\* The server makes up a fresh id (which one makes no difference).  Bound: once
\* all of Session is used up, it answers with an error.
Fresh == {s \in Session : home[s] = None}
CreateSession ==
  /\ At("creating")
  /\ IF Fresh = {}
       THEN Finish(handler.update) /\ UNCHANGED home
       ELSE LET s == CHOOSE s \in Fresh : TRUE IN
            /\ home' = [home EXCEPT ![s] = handler.dir]
            /\ handler' = [handler EXCEPT !.step = "storing", !.session = s]
            /\ UNCHANGED done
  /\ UNCHANGED <<sent, queue, crashes, store, disk, turn, asked, buttons>>

StoreSession ==
  /\ At("storing")
  /\ Save(SetOpencodeSession(store, TheConv, handler.session))
  /\ IF handler.update.kind = "text" /\ disk' = store'.bindings
       THEN handler' = [handler EXCEPT !.step = "prompting"] /\ UNCHANGED done
       ELSE Finish(handler.update)
  /\ UNCHANGED <<sent, queue, crashes, opencode, buttons>>

\* The server runs one turn of a session at a time.
StartTurn ==
  /\ At("prompting") /\ turn[handler.session] = "idle"
  /\ turn' = [turn EXCEPT ![handler.session] = "running"]
  /\ handler' = [handler EXCEPT !.step = "inTurn"]
  /\ UNCHANGED <<telegram, store, disk, home, asked, buttons>>

\* The prompt call returns when the turn is over.
TurnReturns ==
  /\ At("inTurn") /\ turn[handler.session] = "idle"
  /\ Finish(handler.update)
  /\ UNCHANGED <<sent, queue, crashes, store, disk, opencode, buttons>>

-----------------------------------------------------------------------------
(* /abort and the permission buttons *)

Abort ==
  /\ At("aborting")
  /\ turn' = [turn EXCEPT ![handler.session] = "idle"]
  /\ Finish(handler.update)
  /\ UNCHANGED <<sent, queue, crashes, store, disk, home, asked, buttons>>

Pending(r) == turn[r.session] = "asking" /\ asked[r.session] = r.number

\* Plausible bug: a refused answer is tried again until it is accepted.
ReplyUntilAccepted ==
  /\ At("replying")
  /\ LET r == handler.update.request IN
       /\ Pending(r) /\ home[r.session] = handler.dir
       /\ turn' = [turn EXCEPT ![r.session] = "running"]
       /\ buttons' = buttons \ {[conv |-> TheConv, request |-> r]}
  /\ Finish(handler.update)
  /\ UNCHANGED <<sent, queue, crashes, store, disk, home, asked>>

\* opencode looks the request up among those of the directory it is given;
\* once it is answered the message loses its buttons.
Reply ==
  /\ At("replying")
  /\ LET r == handler.update.request IN
       IF Pending(r) /\ home[r.session] = handler.dir
         THEN /\ turn' = [turn EXCEPT ![r.session] = "running"]
              /\ buttons' = buttons \ {[conv |-> TheConv, request |-> r]}
         ELSE UNCHANGED <<turn, buttons>>
  /\ Finish(handler.update)
  /\ UNCHANGED <<sent, queue, crashes, store, disk, home, asked>>

-----------------------------------------------------------------------------
(* The environment *)

\* A user types a command or a text, or presses a button that is there.
Send ==
  /\ sent < MaxUpdates
  /\ \E u \in Update :
       /\ u.kind = "permission" => [conv |-> u.conv, request |-> u.request] \in buttons
       /\ queue' = Append(queue, u)
  /\ sent' = sent + 1
  /\ UNCHANGED <<done, crashes, handler, store, disk, opencode, buttons>>

\* A turn stops to ask; the coordinator posts the request to the conversation
\* the session is indexed under.
Ask(s) ==
  /\ turn[s] = "running" /\ asked[s] < MaxAsks
  /\ turn' = [turn EXCEPT ![s] = "asking"]
  /\ asked' = [asked EXCEPT ![s] = @ + 1]
  /\ buttons' = buttons \cup
       {b \in [conv: {store.byOpencodeSession[s]} \ {None},
               request: {[session |-> s, number |-> asked[s] + 1]}] : TRUE}
  /\ UNCHANGED <<telegram, handler, store, disk, home>>

EndTurn(s) ==
  /\ turn[s] = "running"
  /\ turn' = [turn EXCEPT ![s] = "idle"]
  /\ UNCHANGED <<telegram, handler, store, disk, home, asked, buttons>>

\* Someone answers in opencode's own interface.
AnswerElsewhere(s) ==
  /\ turn[s] = "asking"
  /\ turn' = [turn EXCEPT ![s] = "running"]
  /\ UNCHANGED <<telegram, handler, store, disk, home, asked, buttons>>

\* The bot dies and starts again from its file; Telegram redelivers every
\* update that was not confirmed.  A turn under way goes on by itself.
Crash ==
  /\ crashes < MaxCrashes
  /\ crashes' = crashes + 1
  /\ queue' = done \o (IF handler = None THEN <<>> ELSE <<handler.update>>) \o queue
  /\ done' = <<>> /\ handler' = None
  /\ store' = LoadStore(disk)
  /\ UNCHANGED <<sent, disk, opencode, buttons>>

HandlerStep ==
  \/ ListSessions \/ Bind \/ CreateSession \/ StoreSession \/ StartTurn
  \/ TurnReturns \/ Abort \/ Reply

Environment ==
  \/ Send \/ Crash \/ CallFails
  \/ \E s \in Session : Ask(s) \/ EndTurn(s) \/ AnswerElsewhere(s)

\* Every update of the bound is handled and no turn is under way.
Rest ==
  /\ sent = MaxUpdates /\ queue = <<>> /\ handler = None
  /\ \A s \in Session : turn[s] = "idle"
  /\ UNCHANGED vars

Next == TakeUpdate \/ Confirm \/ HandlerStep \/ Environment \/ Rest

Spec == Init /\ [][Next]_vars

\* The event loop runs the poller and the handler, and calls that are answered
\* return; opencode ends a turn that is not waiting for anybody.
FairSpec ==
  /\ Spec
  /\ WF_vars(TakeUpdate) /\ WF_vars(HandlerStep)
  /\ \A s \in Session : WF_vars(EndTurn(s))

\* The same, with somebody at opencode's own interface.
AttendedSpec == FairSpec /\ \A s \in Session : WF_vars(AnswerElsewhere(s))

-----------------------------------------------------------------------------
(* Properties *)

\* The two maps of the store agree through rebinds, new sessions, failed saves
\* and restarts: an event finds the one conversation that drives its session.
IndexCoherent == Coherent(store) /\ Coherent(LoadStore(disk))

\* An opencode session belongs to a directory: no conversation, in memory or
\* in the file, holds a session that was opened in another one, although the
\* directory is read before the call that opens the session and used after it.
InHome(bindings) ==
  \A c \in Conv : SessionOf(bindings, c) # None =>
    home[SessionOf(bindings, c)] = bindings[c].directory
SessionInDirectory ==
  /\ InHome(store.bindings) /\ InHome(disk)
  /\ At("inTurn") => home[handler.session] = handler.dir

\* While a conversation waits for the turn it prompted, the events of that turn
\* are delivered to it and to no other.
OwnTurnRouted ==
  At("inTurn") => store.byOpencodeSession[handler.session] = TheConv

\* As long as somebody answers what opencode asks, no update waits for ever.
UpdatesHandled == <>[](queue = <<>> /\ handler = None)

\* What the README says of /abort: "Interrupt the bound conversation's running
\* opencode session".  Does not hold: the command is an update, and is not
\* taken before the prompt call of that very turn returns; and if the turn waits
\* for a permission, whose button is an update too, the call does not return
\* before the HTTP client gives it up.
Sent(c) == \E i \in DOMAIN queue : queue[i] = [kind |-> "abort", conv |-> c]
Busy(c) == LET s == SessionOf(store.bindings, c) IN s # None /\ turn[s] # "idle"
AbortInterrupts == \A c \in Conv : (Sent(c) /\ Busy(c)) ~> ~Busy(c)
=============================================================================
