----------------------------- MODULE EventFeed -----------------------------
(***************************************************************************)
(* What the opencode event subscription promises to its consumer: told     *)
(* that it is connected and disconnected in turn, the consumer gets, while *)
(* connected, every event from some point on, each once and in order.      *)
(* Events that come while it is not connected may be lost.                 *)
(***************************************************************************)
EXTENDS Naturals

VARIABLES
  emitted,    \* events opencode has emitted, numbered from 1
  position,   \* the last event the consumer has, or need not have
  state,      \* what the consumer was told last
  reports,    \* how often it was told something, modulo 2
  over        \* the subscription has ended

feedVars == <<emitted, position, state, reports, over>>

Init ==
  /\ emitted = 0 /\ position = 0
  /\ state = "disconnected" /\ reports = 0
  /\ over = FALSE

Emit ==
  /\ emitted' = emitted + 1
  /\ UNCHANGED <<position, state, reports, over>>

Connect ==
  /\ ~over /\ state = "disconnected"
  /\ state' = "connected" /\ reports' = 1 - reports
  /\ position' \in position..emitted
  /\ UNCHANGED <<emitted, over>>

Deliver ==
  /\ state = "connected" /\ position < emitted
  /\ position' = position + 1
  /\ UNCHANGED <<emitted, state, reports, over>>

\* The subscription may end in the same step, or take the last event with it.
Disconnect ==
  /\ state = "connected"
  /\ state' = "disconnected" /\ reports' = 1 - reports
  /\ position' \in {position, position + 1} /\ position' <= emitted
  /\ over' \in BOOLEAN
  /\ UNCHANGED emitted

End ==
  /\ ~over /\ state = "disconnected"
  /\ over' = TRUE
  /\ UNCHANGED <<emitted, position, state, reports>>

Next == Emit \/ Connect \/ Deliver \/ Disconnect \/ End

Spec == Init /\ [][Next]_feedVars
=============================================================================
