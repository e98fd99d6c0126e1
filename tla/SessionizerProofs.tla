------------------------ MODULE SessionizerProofs ------------------------
(***************************************************************************)
(* Proofs about Sessionizer, for any names, filters and directories, any   *)
(* order in which tmux lists sessions, and whatever others do: its type,   *)
(* that a timer belongs to the latest choice, and that the client follows. *)
(***************************************************************************)
EXTENDS Sessionizer, TLAPS

\* The list is up to date until others change the server's sessions.
UpToDate == running /\ outside = 0 => list = live

\* As ClientFollows; a client on a hidden session is on the active one, so
\* that it is the chosen one again when the filter changes.
ClientPlace ==
  /\ running /\ outside = 0 /\ pending = None
  /\ effective # None /\ active \in list
  => client = effective \/ (client = active /\ client \notin Matches[query])

IInv == TypeOK /\ UpToDate /\ LatestChoice /\ ClientPlace

-----------------------------------------------------------------------------
(* The chosen session *)

LEMMA Names ==
  /\ None \notin Name /\ Name \subseteq Typed /\ NoQuery \in Query
  /\ \A q \in Query: Matches[q] \subseteq Name
  /\ Matches[NoQuery] = Name
  /\ \A n \in Typed: Stored[n] \in Name
  /\ \A n \in Name: Stored[n] = n
  /\ \A S \in SUBSET Name: S # {} => First[S] \in S
BY TmuxAssumption, SessionizerAssumption

LEMMA Chosen ==
  ASSUME NEW sessions \in SUBSET Name, NEW n, NEW q \in Query
  PROVE  /\ Effective(sessions, n, q) # None
              => Effective(sessions, n, q) \in sessions \cap Matches[q]
         /\ Effective(sessions, n, q) \in Name \cup {None}
         /\ n \in sessions \cap Matches[q] => Effective(sessions, n, q) = n
<1>1. sessions \cap Matches[q] \in SUBSET Name
  OBVIOUS
<1>2. QED
  BY <1>1, Names DEF Effective, Filtered

\* When something is chosen the timer is for it, and if none is set the choice
\* is what it was.
LEMMA Timer ==
  ASSUME TypeOK, LatestChoice,
         NEW sessions \in SUBSET Name, NEW n, NEW q \in Query
  PROVE  LET e == Effective(sessions, n, q)
             p == Rescheduled(sessions, n, q)
         IN /\ p \in Name \cup {None}
            /\ e # None /\ p # None => p = e
            /\ e # None /\ p = None => e = effective /\ pending = None
<1>1. pending \in Name \cup {None}
  BY DEF TypeOK
<1>2. Effective(sessions, n, q) \in Name \cup {None}
  BY Chosen
<1>3. QED
  BY <1>1, <1>2 DEF Rescheduled, LatestChoice

-----------------------------------------------------------------------------
LEMMA InitInv == Init => IInv
<1> SUFFICES ASSUME Init PROVE IInv
  OBVIOUS
<1>1. /\ live \in SUBSET Name /\ live # {} /\ client \in live /\ list = live
      /\ active = client /\ original = client /\ pending = client /\ query = NoQuery
  BY DEF Init
<1>2. client \in Name /\ client # None /\ client \in Matches[query] /\ query \in Query
  BY <1>1, Names
<1>3. TypeOK
  <2>1. IF live = {} THEN client = None /\ ~running ELSE client \in live
    BY <1>1
  <2>2. /\ active \in Typed /\ original \in Name /\ typed \in Typed \cup {None}
        /\ pending \in Name \cup {None}
    BY <1>1, <1>2, Names DEF Init
  <2>3. /\ dialog \in {{}} \cup {{d}: d \in Dialogs} /\ ~(filterActive /\ dialog # {})
        /\ filterActive \in BOOLEAN /\ running \in BOOLEAN
    BY Zenon DEF Init
  <2>4. step \in 1..3 /\ outside \in Nat
    BY DEF Init
  <2>5. QED
    BY <1>1, <1>2, <2>1, <2>2, <2>3, <2>4 DEF TypeOK
<1>4. effective = client
  BY <1>1, <1>2, Chosen DEF effective
<1>5. QED
  BY <1>1, <1>2, <1>3, <1>4 DEF IInv, UpToDate, LatestChoice, ClientPlace

\* Steps of the dialogs and the filter that choose nothing.
LEMMA Neutral ==
  ASSUME IInv,
         UNCHANGED <<tmuxVars, list, active, original, query, pending, running, outside>>,
         TypeOK'
  PROVE  IInv'
BY DEF IInv, tmuxVars, UpToDate, LatestChoice, ClientPlace, effective

LEMMA DialogTypes ==
  ASSUME IInv,
         UNCHANGED <<tmuxVars, list, active, original, query, pending, running, outside>>,
         typed' \in Typed \cup {None}, step' \in 1..3, filterActive' \in BOOLEAN,
         dialog' \in {{}} \cup {{d}: d \in Dialogs}, ~(filterActive' /\ dialog' # {})
  PROVE  IInv'
<1>1. TypeOK'
  BY DEF IInv, TypeOK, tmuxVars
<1>2. QED
  BY <1>1, Neutral

\* A session is chosen in the list.
LEMMA SelectionKeeps ==
  ASSUME IInv, NEW n, SelectionChange(n), filterActive' \in BOOLEAN,
         filterActive' => filterActive
  PROVE  IInv'
<1>1. TypeOK /\ UpToDate
  BY DEF IInv
<1>2. list \in SUBSET Name /\ query \in Query /\ n \in list \cap Matches[query]
  BY <1>1 DEF TypeOK, SelectionChange, Filtered
<1>3. n \in Name /\ n # None
  BY <1>2, Names
<1>4. /\ active' = n /\ pending' = n
      /\ UNCHANGED <<live, client, list, original, query, dialog, typed, step, running, outside>>
  BY DEF SelectionChange, tmuxVars
<1>5. TypeOK'
  BY <1>1, <1>3, <1>4, Names DEF TypeOK
<1>6. effective' = n
  BY <1>2, <1>4, Chosen DEF effective
<1>7. QED
  BY <1>1, <1>3, <1>4, <1>5, <1>6 DEF IInv, UpToDate, LatestChoice, ClientPlace

LEMMA TypeFilterKeeps == ASSUME IInv, NEW q \in Query, TypeFilter(q) PROVE IInv'
<1>1. TypeOK /\ UpToDate /\ LatestChoice /\ ClientPlace
  BY DEF IInv
<1>2. list \in SUBSET Name /\ query \in Query
  BY <1>1 DEF TypeOK
<1>3. /\ query' = q /\ pending' = Rescheduled(list, active, q)
      /\ UNCHANGED <<live, client, list, active, original, filterActive, dialog, typed, step,
                     running, outside>>
  BY DEF TypeFilter, tmuxVars
<1>4. effective' = Effective(list, active, q)
  BY <1>3 DEF effective
<1>5. /\ pending' \in Name \cup {None}
      /\ effective' # None /\ pending' # None => pending' = effective'
      /\ effective' # None /\ pending' = None => effective' = effective /\ pending = None
  BY <1>1, <1>2, <1>3, <1>4, Timer
<1>6. TypeOK'
  BY <1>1, <1>3, <1>5 DEF TypeOK
<1>7. ClientPlace'
  <2> SUFFICES ASSUME running, outside = 0, pending' = None, effective' # None, active \in list
               PROVE  client = effective' \/ (client = active /\ client \notin Matches[q])
    BY <1>3 DEF ClientPlace
  <2>1. effective' = effective /\ pending = None
    BY <1>5
  <2>2. client = effective \/ client = active
    BY <1>1, <2>1 DEF ClientPlace
  <2>3. CASE client = active /\ client \in Matches[q]
    BY <1>2, <1>4, <2>3, Chosen
  <2>4. QED
    BY <2>1, <2>2, <2>3
<1>8. QED
  BY <1>1, <1>3, <1>5, <1>6, <1>7 DEF IInv, UpToDate, LatestChoice

\* A command of the chooser changes the sessions, and the list is read again.
LEMMA RefreshKeeps ==
  ASSUME IInv, running, NEW sessions \in SUBSET Name, NEW name \in Typed,
         NEW to \in sessions, Refresh(sessions, name, to),
         name \in sessions => to = name \/ effective \notin sessions
  PROVE  IInv'
<1>1. TypeOK /\ UpToDate /\ LatestChoice
  BY DEF IInv
<1>2. query \in Query
  BY <1>1 DEF TypeOK
<1>3. /\ live' = sessions /\ list' = sessions /\ active' = name /\ client' = to /\ dialog' = {}
      /\ pending' = Rescheduled(sessions, name, query)
      /\ UNCHANGED <<original, query, filterActive, typed, step, running, outside>>
  BY DEF Refresh
<1>4. effective' = Effective(sessions, name, query)
  BY <1>3 DEF effective
<1>5. /\ pending' \in Name \cup {None}
      /\ effective' # None /\ pending' # None => pending' = effective'
      /\ effective' # None /\ pending' = None => effective' = effective /\ pending = None
  BY <1>1, <1>2, <1>3, <1>4, Timer
<1>6. TypeOK'
  BY <1>1, <1>3, <1>5 DEF TypeOK
<1>7. ClientPlace'
  <2> SUFFICES ASSUME pending' = None, effective' # None, name \in sessions
               PROVE  to = effective' \/ (to = name /\ to \notin Matches[query])
    BY <1>3 DEF ClientPlace
  <2>1. effective' = effective /\ effective' \in sessions
    BY <1>2, <1>4, <1>5, Chosen
  <2>2. to = name
    BY <2>1
  <2>3. CASE name \in Matches[query]
    BY <1>2, <1>4, <2>2, <2>3, Chosen
  <2>4. QED
    BY <2>2, <2>3
<1>8. QED
  BY <1>1, <1>3, <1>5, <1>6, <1>7 DEF IInv, UpToDate, LatestChoice

-----------------------------------------------------------------------------
\* The chooser ends, with the client where it goes to.
LEMMA ExitKeeps ==
  ASSUME IInv, running, NEW to, Exit(to), to \in live
  PROVE  IInv'
<1>1. /\ client' = to /\ running' = FALSE /\ pending' = None
      /\ UNCHANGED <<live, list, active, original, query, filterActive, dialog, typed,
                     step, outside>>
  BY DEF Exit
<1>2. TypeOK'
  BY <1>1 DEF IInv, TypeOK
<1>3. QED
  BY <1>1, <1>2 DEF IInv, UpToDate, LatestChoice, ClientPlace

LEMMA SwitchedStays ==
  ASSUME TypeOK, running, NEW n
  PROVE  client \in live /\ Switched(client, n, live) \in live
BY DEF TypeOK, Switched

LEMMA TimerKeeps == ASSUME IInv, TimerFires PROVE IInv'
<1>1. TypeOK /\ UpToDate /\ LatestChoice /\ running /\ pending # None
  BY DEF IInv, TimerFires
<1>2. /\ client' = Switched(client, pending, live) /\ pending' = None
      /\ UNCHANGED <<live, list, active, original, query, filterActive, dialog, typed,
                     step, running, outside>>
  BY DEF TimerFires
<1>3. client' \in live
  BY <1>1, <1>2, SwitchedStays
<1>4. TypeOK'
  BY <1>1, <1>2, <1>3 DEF TypeOK
<1>5. effective' = effective
  BY <1>2 DEF effective
<1>6. ClientPlace'
  <2> SUFFICES ASSUME outside = 0, effective # None PROVE client' = effective
    BY <1>2, <1>5 DEF ClientPlace
  <2>1. pending = effective
    BY <1>1 DEF LatestChoice
  <2>2. list \in SUBSET Name /\ query \in Query
    BY <1>1 DEF TypeOK
  <2>3. effective \in list
    BY <2>2, Chosen DEF effective
  <2>4. effective \in live
    BY <1>1, <2>3 DEF UpToDate
  <2>5. QED
    BY <1>2, <2>1, <2>4 DEF Switched
<1>7. QED
  BY <1>1, <1>2, <1>4, <1>5, <1>6 DEF IInv, UpToDate, LatestChoice

LEMMA RenameKeeps == ASSUME IInv, RenameConfirm PROVE IInv'
<1>1. TypeOK /\ running /\ client \in live /\ live \subseteq Name
  BY SwitchedStays DEF IInv, RenameConfirm, TypeOK
<1> DEFINE sessions == Renamed(effective, typed)
<1>2. CASE Close
  BY <1>1, <1>2, DialogTypes DEF Close, TypeOK
<1>3. CASE /\ typed \notin {None, effective} /\ MayRename(effective, typed)
           /\ Refresh(sessions, typed, Switched(Following(effective, typed), typed, sessions))
  <2>1. typed \in Typed /\ Stored[typed] \in Name
    BY <1>1, <1>3, Names DEF TypeOK
  <2>2. sessions = (live \ {effective}) \cup {Stored[typed]} /\ sessions \in SUBSET Name
    BY <1>1, <2>1 DEF Renamed
  <2>3. Following(effective, typed) \in sessions
    BY <1>1, <2>2 DEF Following
  <2>4. Switched(Following(effective, typed), typed, sessions) \in sessions
    BY <2>3 DEF Switched
  <2>5. typed \in sessions => Switched(Following(effective, typed), typed, sessions) = typed
    BY DEF Switched
  <2> HIDE DEF sessions
  <2>6. QED
    BY <1>1, <1>3, <2>1, <2>2, <2>4, <2>5, RefreshKeeps
<1>4. QED
  BY <1>2, <1>3 DEF RenameConfirm

LEMMA KillKeeps == ASSUME IInv, KillConfirm PROVE IInv'
<1>1. TypeOK /\ running /\ client \in live /\ live \subseteq Name
  BY SwitchedStays DEF IInv, KillConfirm, TypeOK
<1> DEFINE left == live \ {effective}
<1>2. CASE Close
  BY <1>1, <1>2, DialogTypes DEF Close, TypeOK
<1>3. CASE /\ left # {}
           /\ Refresh(left, First[left], IF effective = client THEN First[left] ELSE client)
  <2>1. left \in SUBSET Name /\ First[left] \in left /\ First[left] \in Typed
    BY <1>1, <1>3, Names
  <2>2. (IF effective = client THEN First[left] ELSE client) \in left
    BY <1>1, <2>1
  <2>3. effective \notin left
    OBVIOUS
  <2> HIDE DEF left
  <2>4. QED
    BY <1>1, <1>3, <2>1, <2>2, <2>3, RefreshKeeps
<1>4. CASE /\ live' = {} /\ client' = None /\ running' = FALSE /\ pending' = None
           /\ UNCHANGED <<list, active, original, query, filterActive, dialog, typed,
                          step, outside>>
  <2>1. TypeOK'
    BY <1>1, <1>4 DEF TypeOK
  <2>2. QED
    BY <1>4, <2>1 DEF IInv, UpToDate, LatestChoice, ClientPlace
<1>5. QED
  BY <1>2, <1>3, <1>4 DEF KillConfirm

LEMMA CreateKeeps == ASSUME IInv, Create PROVE IInv'
<1>1. TypeOK /\ running /\ live \subseteq Name
  BY DEF IInv, Create, TypeOK
<1> DEFINE name == Stored[typed]
           sessions == live \cup {name}
<1>2. typed \in Typed
  BY <1>1 DEF Create, TypeOK
<1>3. name \in Name /\ name \in Typed /\ sessions \in SUBSET Name
  BY <1>1, <1>2, Names
<1>4. Refresh(sessions, name, name) /\ name \in sessions
  BY DEF Create
<1> HIDE DEF name, sessions
<1>5. QED
  BY <1>1, <1>3, <1>4, RefreshKeeps

\* The other users of the server.
LEMMA OthersKeep ==
  ASSUME IInv, NEW sessions \in SUBSET Name, NEW to \in sessions, Others(sessions, to)
  PROVE  IInv'
<1>1. /\ live' = sessions /\ client' = to /\ outside' = outside + 1 /\ running
      /\ UNCHANGED <<list, active, original, query, filterActive, dialog, typed, step,
                     pending, running>>
  BY DEF Others, tuiVars
<1>2. outside \in Nat
  BY DEF IInv, TypeOK
<1>3. TypeOK'
  BY <1>1, <1>2 DEF IInv, TypeOK
<1>4. outside' # 0
  BY <1>1, <1>2
<1>5. QED
  BY <1>1, <1>3, <1>4 DEF IInv, UpToDate, LatestChoice, ClientPlace, effective

LEMMA OthersStepKeeps == ASSUME IInv, OthersStep PROVE IInv'
<1>1. TypeOK /\ live \in SUBSET Name
  BY DEF IInv, TypeOK
<1>2. ASSUME NEW n \in Typed, SlackNew(n) PROVE IInv'
  <2>1. running /\ Stored[n] \in Name
    BY <1>2, Names DEF SlackNew, Others
  <2>2. client \in live
    BY <1>1, <2>1, SwitchedStays
  <2>3. Others(live \cup {Stored[n]}, client)
    BY <1>2 DEF SlackNew
  <2>4. live \cup {Stored[n]} \in SUBSET Name /\ client \in live \cup {Stored[n]}
    BY <1>1, <2>1, <2>2
  <2>5. QED
    BY <2>3, <2>4, OthersKeep
<1>3. ASSUME NEW n \in Name, SlackKill(n) PROVE IInv'
  <2>1. PICK s \in Resolved(n): \E to \in AfterKill(s): Others(live \ {s}, to)
    BY <1>3 DEF SlackKill
  <2>2. PICK to \in AfterKill(s): Others(live \ {s}, to)
    BY <2>1
  <2>3. client \in live
    BY <1>1, <2>2, SwitchedStays DEF Others
  <2>4. to \in live \ {s} /\ live \ {s} \in SUBSET Name
    BY <1>1, <2>3 DEF AfterKill
  <2>5. QED
    BY <2>2, <2>4, OthersKeep
<1>4. ASSUME NEW n \in Name, ClientMoves(n) PROVE IInv'
  BY <1>1, <1>4, OthersKeep DEF ClientMoves
<1>5. ASSUME NEW n \in Name, NEW m \in Typed, SlackRename(n, m) PROVE IInv'
  <2>1. PICK s \in Resolved(n): Others(Renamed(s, m), Following(s, m))
    BY <1>5 DEF SlackRename
  <2>2. client \in live
    BY <1>1, <2>1, SwitchedStays DEF Others
  <2>3. Renamed(s, m) \in SUBSET Name /\ Following(s, m) \in Renamed(s, m)
    BY <1>1, <2>2, Names DEF Renamed, Following
  <2>4. QED
    BY <2>1, <2>3, OthersKeep
<1>6. QED
  BY <1>2, <1>3, <1>4, <1>5 DEF OthersStep

-----------------------------------------------------------------------------
LEMMA EndsKeep == ASSUME IInv, Escape \/ Quit \/ Confirm PROVE IInv'
<1>1. PICK n: running /\ Exit(Switched(client, n, live))
  BY DEF Escape, Quit, Confirm, ListHasFocus
<1>2. Switched(client, n, live) \in live
  BY <1>1, SwitchedStays DEF IInv
<1>3. QED
  BY <1>1, <1>2, ExitKeeps

LEMMA FilterKeeps ==
  ASSUME IInv,
         OpenFilter \/ LeaveFilter \/ \E n \in Name: MoveSelection(n)
  PROVE  IInv'
<1>1. TypeOK
  BY DEF IInv
<1>2. CASE OpenFilter
  BY <1>1, <1>2, DialogTypes DEF OpenFilter, TypeOK
<1>3. CASE LeaveFilter
  <2>1. CASE SelectionChange(effective)
    BY <1>1, <1>3, <2>1, SelectionKeeps DEF LeaveFilter, TypeOK
  <2>2. CASE UNCHANGED <<tmuxVars, list, active, original, query, dialog, typed, step, pending,
                         running, outside>>
    BY <1>1, <1>3, <2>2, DialogTypes DEF LeaveFilter, TypeOK
  <2>3. QED
    BY <1>3, <2>1, <2>2 DEF LeaveFilter
<1>4. ASSUME NEW n \in Name, MoveSelection(n) PROVE IInv'
  BY <1>1, <1>4, SelectionKeeps DEF MoveSelection, TypeOK
<1>5. QED
  BY <1>2, <1>3, <1>4

LEMMA DialogKeeps ==
  ASSUME IInv,
         \/ OpenWizard \/ OpenRename \/ OpenKill \/ KillCancel \/ WizardNext \/ WizardBack
         \/ \E t \in Typed \cup {None}: TypeName(t)
  PROVE  IInv'
<1>1. TypeOK
  BY DEF IInv
<1>2. FirstDirectory \subseteq Typed \cup {None} /\ effective \in Typed \cup {None}
  <2>1. list \in SUBSET Name /\ query \in Query
    BY <1>1 DEF TypeOK
  <2>2. effective \in Name \cup {None}
    BY <2>1, Chosen DEF effective
  <2>3. QED
    BY <2>2, Names, SessionizerAssumption DEF FirstDirectory
<1>3. ASSUME NEW which \in Dialogs, NEW value \in Typed \cup {None}, Open(which, value)
      PROVE  IInv'
  <2>1. /\ dialog' = {which} /\ filterActive' = FALSE /\ typed' = value /\ step' = 1
        /\ UNCHANGED <<tmuxVars, list, active, original, query, pending, running, outside>>
    BY <1>3 DEF Open
  <2>2. /\ dialog' \in {{}} \cup {{d}: d \in Dialogs} /\ filterActive' \in BOOLEAN
        /\ ~(filterActive' /\ dialog' # {})
    BY <2>1, Zenon
  <2>3. typed' \in Typed \cup {None} /\ step' \in 1..3
    BY <2>1
  <2>4. QED
    BY <2>1, <2>2, <2>3, DialogTypes
<1>4. ASSUME NEW to \in 1..3, NEW value \in Typed \cup {None}, WizardMoves(to, value)
      PROVE  IInv'
  BY <1>1, <1>4, DialogTypes DEF WizardMoves, TypeOK
<1>5. CASE Close
  BY <1>1, <1>5, DialogTypes DEF Close, TypeOK
<1>6. ASSUME NEW t \in Typed \cup {None}, TypeName(t) PROVE IInv'
  BY <1>1, <1>6, DialogTypes DEF TypeName, TypeOK
<1>7. CASE OpenWizard \/ OpenRename \/ OpenKill
  BY <1>2, <1>3, <1>7 DEF OpenWizard, OpenRename, OpenKill, Dialogs
<1>8. CASE WizardNext \/ WizardBack
  <2>1. typed \in Typed \cup {None} /\ step \in 1..3
    BY <1>1 DEF TypeOK
  <2>2. CASE WizardNext
    BY <1>2, <1>4, <2>1, <2>2 DEF WizardNext
  <2>3. CASE WizardBack
    BY <1>4, <1>5, <2>1, <2>3 DEF WizardBack
  <2>4. QED
    BY <1>8, <2>2, <2>3
<1>9. QED
  BY <1>5, <1>6, <1>7, <1>8 DEF KillCancel

LEMMA NextInv == IInv /\ [Next]_vars => IInv'
<1> SUFFICES ASSUME IInv, [Next]_vars PROVE IInv'
  OBVIOUS
<1>1. CASE TimerFires
  BY <1>1, TimerKeeps
<1>2. CASE UserStep
  <2>1. ASSUME NEW q \in Query, TypeFilter(q) PROVE IInv'
    BY <2>1, TypeFilterKeeps
  <2>2. QED
    BY <1>2, <2>1, EndsKeep, FilterKeeps, DialogKeeps, RenameKeeps, KillKeeps, CreateKeeps
       DEF UserStep
<1>3. CASE OthersStep
  BY <1>3, OthersStepKeeps
<1>4. CASE UNCHANGED vars
  BY <1>4 DEF vars, tmuxVars, tuiVars, IInv, TypeOK, UpToDate, LatestChoice, ClientPlace, effective
<1>5. QED
  BY <1>1, <1>2, <1>3, <1>4 DEF Next

LEMMA Invariant == Spec => []IInv
BY InitInv, NextInv, PTL DEF Spec

\* The chooser's variables keep their types, and at no time are two dialogs
\* open, or one together with the filter.
THEOREM TypeCorrect == Spec => []TypeOK
<1>1. IInv => TypeOK
  BY DEF IInv
<1>2. QED
  BY <1>1, Invariant, PTL

\* The debounced switch never goes to a session that is no longer the chosen
\* one while another is.
THEOREM TimerIsForLatestChoice == Spec => []LatestChoice
<1>1. IInv => LatestChoice
  BY DEF IInv
<1>2. QED
  BY <1>1, Invariant, PTL

\* When the timer has fired, the client is where the chooser says.
THEOREM ClientIsWhereShown == Spec => []ClientFollows
<1>1. IInv => ClientFollows
  BY DEF IInv, ClientPlace, ClientFollows
<1>2. QED
  BY <1>1, Invariant, PTL
=============================================================================
