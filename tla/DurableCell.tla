---------------------------- MODULE DurableCell ----------------------------
(***************************************************************************)
(* What the bot's binding file promises: one durable value that a save     *)
(* replaces in a single step, whatever happens in between.  A process      *)
(* starts from the value of the last completed save, or, when that cannot  *)
(* be read, from the one it replaced.  Damage from outside sets the value  *)
(* back by one save, a power loss to what was on the disk by then.         *)
(***************************************************************************)
EXTENDS Naturals

CONSTANT Unusable   \* what a restart reports when no copy can be read

VARIABLES
  value,      \* what a restart would load now, if its reads succeed
  previous,   \* what the last save replaced
  damaged,    \* the store file was damaged and not loaded since
  current,    \* what the process runs on
  stored      \* <<value, previous, damaged>> as they are on the disk

vars == <<value, previous, damaged, current, stored>>

Init ==
  /\ value = 0 /\ previous = 0 /\ damaged = FALSE
  /\ current = 0
  /\ stored = <<value, previous, damaged>>

\* Values are numbered in the order they are saved.
Replace ==
  /\ value \in Nat /\ ~damaged
  /\ value' \in Nat /\ value' > value
  /\ previous' = current /\ current' = value'
  /\ UNCHANGED <<damaged, stored>>

FallBack ==
  /\ ~damaged /\ damaged' = TRUE
  /\ value' \in {previous, Unusable}
  /\ UNCHANGED <<previous, current, stored>>

\* A process starts.  After damage it settles for what it finds; otherwise it
\* may have to do with the value that the last save replaced.
Open ==
  /\ value \in Nat
  /\ current' \in {value} \cup (IF damaged THEN {} ELSE {previous})
  /\ damaged' = FALSE
  /\ UNCHANGED <<value, previous, stored>>

Sync ==
  /\ stored' = <<value, previous, damaged>>
  /\ UNCHANGED <<value, previous, damaged, current>>

\* A power loss: back to what was on the disk.
SetBack ==
  /\ <<value', previous', damaged'>> = stored
  /\ UNCHANGED <<current, stored>>

Next == Replace \/ FallBack \/ Open \/ Sync \/ SetBack

Spec == Init /\ [][Next]_vars
=============================================================================
