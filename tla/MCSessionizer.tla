-------------------------- MODULE MCSessionizer --------------------------
(* Three sessions, one of whose names starts with another, a name that     *)
(* tmux does not keep, and a filter that hides any of them.                *)
EXTENDS Sessionizer

MCName == {"web", "web2", "a_1"}
MCTyped == MCName \cup {"a.1"}
MCStored == [n \in MCTyped |-> IF n = "a.1" THEN "a_1" ELSE n]
MCPrefixOf == [n \in MCName |-> IF n = "web" THEN {"web2"} ELSE {}]
MCRank == [a_1 |-> 1, web |-> 2, web2 |-> 3]
MCFirst ==
  [S \in (SUBSET MCName) \ {{}} |-> CHOOSE n \in S: \A m \in S: MCRank[n] <= MCRank[m]]
MCQuery == {"all", "w", "a", "x"}
MCMatches ==
  [q \in MCQuery |-> CASE q = "all" -> MCName [] q = "w" -> {"web", "web2"}
                       [] q = "a" -> {"a_1"} [] q = "x" -> {}]
===========================================================================
