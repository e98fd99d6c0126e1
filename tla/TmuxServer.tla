---------------------------- MODULE TmuxServer ----------------------------
(***************************************************************************)
(* The tmux server, as the programs of the toolkit use it: named sessions, *)
(* one client that a person looks at, and the commands that create, kill   *)
(* and rename sessions and switch the client.  External.                   *)
(*                                                                         *)
(* Some names can be typed that tmux does not keep: it writes "_" for the  *)
(* "." and ":" of a name.                                                  *)
(***************************************************************************)
EXTENDS FiniteSets

CONSTANTS
  Name,       \* the names sessions have
  Typed,      \* the names that are asked for
  Stored,     \* the name tmux keeps of one that is asked for
  PrefixOf,   \* PrefixOf[n]: the names that start with n, n left out
  First       \* First[S]: of a set of names, the one tmux lists first

ASSUME TmuxAssumption ==
  /\ Name # {} /\ Name \subseteq Typed /\ "" \notin Typed
  /\ Stored \in [Typed -> Name] /\ \A n \in Name: Stored[n] = n
  /\ PrefixOf \in [Name -> SUBSET Name]
  /\ First \in [(SUBSET Name) \ {{}} -> Name]
  /\ \A S \in (SUBSET Name) \ {{}}: First[S] \in S

VARIABLES
  live,     \* the names of the sessions there are
  client    \* the session the person's client shows

tmuxVars == <<live, client>>

(* The sessions a target names: "=n" is exact, a plain "n" falls back on   *)
(* the only session whose name starts with n.                              *)
Exact(n) == live \cap {n}
Resolved(n) ==
  IF n \in live THEN {n}
  ELSE LET longer == live \cap PrefixOf[n]
       IN IF Cardinality(longer) = 1 THEN longer ELSE {}

(* switch-client fails for a session that is not there.                    *)
Switched(from, n, sessions) == IF n \in sessions THEN n ELSE from

(* A client whose session is killed goes on to another one                 *)
(* (detach-on-destroy off).                                                *)
AfterKill(s) == IF client = s THEN live \ {s} ELSE {client}

MayCreate(n) == Stored[n] \notin live
MayRename(s, n) == s \in live /\ (Stored[n] = s \/ Stored[n] \notin live)
Renamed(s, n) == (live \ {s}) \cup {Stored[n]}
Following(s, n) == IF client = s THEN Stored[n] ELSE client
===========================================================================
