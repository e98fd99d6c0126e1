--------------------------- MODULE Sessionizer ---------------------------
(***************************************************************************)
(* The session chooser, tui/sessionizer: a list of sessions that the       *)
(* person's client follows with a delay of 150 ms, a filter, and three     *)
(* dialogs that create, rename and kill sessions.  Every tmux command is a *)
(* spawnSync, so a key is handled in one step; the timer, the keys and     *)
(* what others do to the server interleave.                                *)
(*                                                                         *)
(* Which component has the keyboard's focus is OpenTUI's affair: the list  *)
(* is taken to have it unless an input or another list asks for it.        *)
(***************************************************************************)
EXTENDS TmuxServer, Naturals

CONSTANTS
  Query,       \* what may stand in the filter
  Matches,     \* the names that a query lets through
  NoQuery,     \* the empty query
  Layouts,     \* whether sessionizer.conf names a layout
  Dir,         \* the session names of the directories that scanDirs finds
  MaxOutside,  \* bound on what others do to the server
  None         \* "" or undefined

ASSUME SessionizerAssumption ==
  /\ NoQuery \in Query /\ Matches \in [Query -> SUBSET Name]
  /\ Matches[NoQuery] = Name
  /\ Layouts \in BOOLEAN /\ Dir \subseteq Name
  /\ MaxOutside \in Nat /\ None \notin Typed

VARIABLES
  list,          \* sessions
  active,        \* activeSessionName
  original,      \* originalSessionName
  query,         \* filterQuery
  filterActive,
  dialog,        \* wizardOpen, renameOpen and killConfirmOpen: those that are TRUE
  typed,         \* renameValue, or the wizard's session name
  step,          \* the wizard's step
  pending,       \* the name that the timer will switch to
  running,       \* process.exit has not been called
  outside        \* how often others have changed the server's sessions

tuiVars == <<list, active, original, query, filterActive, dialog, typed, step,
             pending, running>>
vars == <<tmuxVars, tuiVars, outside>>

(* filtered[0] of a list with a filter, and the session that is shown as   *)
(* chosen: the active one unless the filter hides it.                      *)
Filtered(sessions, q) == sessions \cap Matches[q]
Effective(sessions, name, q) ==
  LET shown == Filtered(sessions, q)
  IN IF shown = {} THEN None ELSE IF name \in shown THEN name ELSE First[shown]

effective == Effective(list, active, query)

Init ==
  /\ live \in (SUBSET Name) \ {{}}
  /\ client \in live
  /\ list = live
  /\ active = client
  /\ original = client
  /\ query = NoQuery
  /\ filterActive = FALSE
  /\ dialog = {}
  /\ typed = None
  /\ step = 1
  /\ pending = client
  /\ running = TRUE
  /\ outside = 0

---------------------------------------------------------------------------
(* The effect on the chosen session runs when it changes, which it may do  *)
(* twice in one step: a new list is set before the new active name.  It    *)
(* replaces the timer, and leaves it alone when nothing is chosen.         *)
(* A mutant: the effect watches the active name only.                      *)
RescheduledByName(sessions, name, q) == IF name = active THEN pending ELSE name

Rescheduled(sessions, name, q) ==
  LET between == Effective(sessions, active, q)
      after == Effective(sessions, name, q)
  IN IF after # None /\ (between # effective \/ after # between)
     THEN after ELSE pending

Exit(to) ==
  /\ client' = to
  /\ running' = FALSE
  /\ pending' = None
  /\ UNCHANGED <<live, list, active, original, query, filterActive, dialog, typed,
                 step, outside>>

(* A mutant: going back to the original session is taken for done.         *)
TimerFiresElsewhere ==
  /\ running /\ pending # None
  /\ client' = IF pending = original THEN client ELSE Switched(client, pending, live)
  /\ pending' = None
  /\ UNCHANGED <<live, list, active, original, query, filterActive, dialog, typed,
                 step, running, outside>>

TimerFires ==
  /\ running /\ pending # None
  /\ client' = Switched(client, pending, live)
  /\ pending' = None
  /\ UNCHANGED <<live, list, active, original, query, filterActive, dialog, typed,
                 step, running, outside>>

Escape == running /\ Exit(Switched(client, original, live))

Quit == running /\ dialog = {} /\ ~filterActive /\ Exit(Switched(client, original, live))

---------------------------------------------------------------------------
(* The list and the filter.                                                *)
ListHasFocus == running /\ dialog \subseteq {"kill"} /\ ~filterActive

SelectionChange(n) ==
  /\ n \in Filtered(list, query)
  /\ active' = n
  /\ pending' = n
  /\ UNCHANGED <<tmuxVars, list, original, query, dialog, typed, step, running, outside>>

MoveSelection(n) ==
  /\ ListHasFocus
  /\ SelectionChange(n)
  /\ UNCHANGED filterActive

Confirm ==
  /\ ListHasFocus
  /\ effective # None
  /\ Exit(Switched(client, effective, live))

OpenFilter ==
  /\ running /\ dialog = {} /\ ~filterActive
  /\ filterActive' = TRUE
  /\ UNCHANGED <<tmuxVars, list, active, original, query, dialog, typed, step, pending,
                 running, outside>>

TypeFilter(q) ==
  /\ running /\ filterActive
  /\ query' = q
  /\ pending' = Rescheduled(list, active, q)
  /\ UNCHANGED <<tmuxVars, list, active, original, filterActive, dialog, typed, step,
                 running, outside>>

(* Enter takes the chosen session, backspace leaves an empty filter.       *)
LeaveFilter ==
  /\ running /\ dialog = {} /\ filterActive
  /\ filterActive' = FALSE
  /\ \/ effective # None /\ SelectionChange(effective)
     \/ /\ query = NoQuery
        /\ UNCHANGED <<tmuxVars, list, active, original, query, dialog, typed, step,
                       pending, running, outside>>

---------------------------------------------------------------------------
(* The dialogs.                                                            *)
(* A mutant: a dialog opens above another one.                             *)
OpenAbove(which, value) ==
  /\ running
  /\ dialog' = dialog \cup {which}
  /\ typed' = value
  /\ filterActive' = FALSE
  /\ step' = 1
  /\ UNCHANGED <<tmuxVars, list, active, original, query, pending, running, outside>>

Open(which, value) ==
  /\ running /\ dialog = {}
  /\ dialog' = {which}
  /\ typed' = value
  /\ filterActive' = FALSE
  /\ step' = 1
  /\ UNCHANGED <<tmuxVars, list, active, original, query, pending, running, outside>>

FirstDirectory == IF Dir = {} THEN {None} ELSE Dir

OpenWizard == \E n \in FirstDirectory: Open("wizard", n)
OpenRename == effective # None /\ Open("rename", effective)
OpenKill == effective # None /\ Open("kill", None)

(* A new list, a new active name, and where the client goes.               *)
Refresh(sessions, name, to) ==
  /\ live' = sessions
  /\ list' = sessions
  /\ active' = name
  /\ pending' = Rescheduled(sessions, name, query)
  /\ client' = to
  /\ dialog' = {}
  /\ UNCHANGED <<original, query, filterActive, typed, step, running, outside>>

Close ==
  /\ dialog' = {}
  /\ UNCHANGED <<tmuxVars, list, active, original, query, filterActive, typed, step,
                 pending, running, outside>>

TypeName(t) ==
  /\ running
  /\ "rename" \in dialog \/ ("wizard" \in dialog /\ step = 3)
  /\ typed' = t
  /\ UNCHANGED <<tmuxVars, list, active, original, query, filterActive, dialog, step,
                 pending, running, outside>>

(* A mutant: the list is not read again after a rename.                    *)
RenameConfirmUnread ==
  LET target == effective
  IN /\ running /\ "rename" \in dialog /\ typed \notin {None, target}
     /\ target # None /\ MayRename(target, typed)
     /\ live' = Renamed(target, typed)
     /\ client' = Switched(Following(target, typed), typed, live')
     /\ active' = typed
     /\ dialog' = {}
     /\ UNCHANGED <<list, pending, original, query, filterActive, typed, step, running, outside>>

(* The new name is asked for as typed and becomes the active one, also     *)
(* when tmux keeps another.                                                *)
RenameConfirm ==
  LET target == effective
      renames == target # None /\ typed \notin {None, target} /\ MayRename(target, typed)
      sessions == Renamed(target, typed)
  IN /\ running /\ "rename" \in dialog
     /\ IF renames
        THEN Refresh(sessions, typed, Switched(Following(target, typed), typed, sessions))
        ELSE Close

KillCancel == running /\ "kill" \in dialog /\ Close

KillConfirm ==
  LET target == effective
      left == live \ {target}
  IN /\ running /\ "kill" \in dialog
     /\ \/ target \notin live /\ Close
        \/ /\ target \in live /\ left # {}
           /\ Refresh(left, First[left], IF target = client THEN First[left] ELSE client)
        \/ /\ live = {target}      \* the server ends, and the chooser with it
           /\ live' = {}
           /\ client' = None
           /\ running' = FALSE
           /\ pending' = None
           /\ UNCHANGED <<list, active, original, query, filterActive, dialog, typed,
                          step, outside>>

---------------------------------------------------------------------------
(* The wizard: a directory, a layout, a name.                              *)
WizardMoves(to, name) ==
  /\ running /\ "wizard" \in dialog
  /\ step' = to
  /\ typed' = name
  /\ UNCHANGED <<tmuxVars, list, active, original, query, filterActive, dialog, pending,
                 running, outside>>

WizardNext ==
  \/ step = 1 /\ \E n \in FirstDirectory: WizardMoves(2, n)
  \/ step = 2 /\ WizardMoves(3, typed)

WizardBack ==
  \/ step > 1 /\ WizardMoves(step - 1, typed)
  \/ running /\ "wizard" \in dialog /\ step = 1 /\ Close

(* createSession: without a directory, a layout or a name, or with a name  *)
(* that is taken, the wizard stays open.  The name is sanitized before it  *)
(* is used.                                                                *)
Create ==
  LET name == Stored[typed]
  IN /\ running /\ "wizard" \in dialog /\ step = 3
     /\ Dir # {} /\ Layouts /\ typed # None
     /\ MayCreate(name)
     /\ Refresh(live \cup {name}, name, name)

---------------------------------------------------------------------------
(* The same server has other users; the Slack bridge's session commands    *)
(* and buttons name their target without "=".                              *)
Others(sessions, to) ==
  /\ running
  /\ sessions # live \/ to # client
  /\ sessions # {}
  /\ outside < MaxOutside
  /\ outside' = outside + 1
  /\ live' = sessions
  /\ client' = to
  /\ UNCHANGED tuiVars

SlackNew(n) == MayCreate(n) /\ Others(live \cup {Stored[n]}, client)
SlackKill(n) ==
  \E s \in Resolved(n): \E to \in AfterKill(s): Others(live \ {s}, to)
SlackRename(n, m) ==
  \E s \in Resolved(n): MayRename(s, m) /\ Others(Renamed(s, m), Following(s, m))
ClientMoves(n) == n \in live /\ Others(live, n)

UserStep ==
  \/ Escape \/ Quit \/ Confirm
  \/ \E n \in Name: MoveSelection(n)
  \/ OpenFilter \/ LeaveFilter \/ \E q \in Query: TypeFilter(q)
  \/ OpenWizard \/ OpenRename \/ OpenKill
  \/ \E t \in Typed \cup {None}: TypeName(t)
  \/ RenameConfirm \/ KillCancel \/ KillConfirm
  \/ WizardNext \/ WizardBack \/ Create

OthersStep ==
  \/ \E n \in Typed: SlackNew(n)
  \/ \E n \in Name: SlackKill(n) \/ ClientMoves(n)
  \/ \E n \in Name, m \in Typed: SlackRename(n, m)

Next == TimerFires \/ UserStep \/ OthersStep

(* A timer of 150 ms fires in the end.                                     *)
Spec == Init /\ [][Next]_vars /\ WF_vars(TimerFires)

---------------------------------------------------------------------------
Dialogs == {"wizard", "rename", "kill"}

(* Types; besides, no two dialogs are open at once and none together with  *)
(* the filter, so that a key has one meaning.                              *)
TypeOK ==
  /\ live \subseteq Name /\ list \subseteq Name
  /\ IF live = {} THEN client = None /\ ~running ELSE client \in live
  /\ active \in Typed /\ original \in Name /\ query \in Query
  /\ pending \in Name \cup {None} /\ typed \in Typed \cup {None}
  /\ filterActive \in BOOLEAN /\ running \in BOOLEAN
  /\ step \in 1..3 /\ outside \in Nat
  /\ dialog \in {{}} \cup {{d}: d \in Dialogs}
  /\ ~(filterActive /\ dialog # {})

(* A timer set for one session does not survive the choice of another: if  *)
(* a session is chosen, it is the one a pending timer switches to, through *)
(* filtering, renaming, killing and creating, whoever else uses tmux.      *)
LatestChoice == effective # None /\ pending # None => pending = effective

(* With no timer pending the client shows the chosen session, or one that  *)
(* was created or renamed while the filter hides it.  Not so after a rename*)
(* to a name that tmux does not keep: the list has no active session then, *)
(* and what the effect goes by may stay the same.  What others did to the  *)
(* server since is unknown to the chooser.                                 *)
ClientFollows ==
  /\ running /\ outside = 0 /\ pending = None
  /\ effective # None /\ active \in list
  => client = effective \/ client \notin Matches[query]

(* A session that stays chosen and alive is shown for good in the end.     *)
ChosenIsShown ==
  \A n \in Name:
    <>[](running /\ outside = 0 /\ active = n /\ effective = n) => <>[](client = n)
===========================================================================
