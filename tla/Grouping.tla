------------------------------ MODULE Grouping ------------------------------
(***************************************************************************)
(* Items are packed into groups that keep two budgets:                     *)
(* groupRenderedBlocks of telegram/tmux-bot/src/render/chunker.ts, and     *)
(* groupItems of block-splitter.ts, which counts every item as one unit.   *)
(***************************************************************************)
EXTENDS Integers, Sequences

NoGroups == [groups |-> <<>>, current |-> <<>>, chars |-> 0, units |-> 0]

(* A turn of the loop: the current group is closed if the item would       *)
(* exceed a budget, unless it is empty.                                    *)
AddItem(acc, item, chars, units, limits) ==
  LET full == /\ acc.current # <<>>
              /\ \/ acc.chars + chars > limits.maxChars
                 \/ acc.units + units > limits.maxBlocks
  IN IF full
     THEN [groups |-> Append(acc.groups, acc.current),
           current |-> <<item>>, chars |-> chars, units |-> units]
     ELSE [acc EXCEPT !.current = Append(@, item), !.chars = @ + chars,
                      !.units = @ + units]

AllGroups(acc) ==
  acc.groups \o (IF acc.current = <<>> THEN <<>> ELSE <<acc.current>>)

(* items in groups, where items[i] has chars[i] characters and is worth    *)
(* units[i] units; an item too large for any group is alone in its own.    *)
GroupsOf(items, chars, units, limits) ==
  LET turn[i \in 0..Len(items)] ==
        IF i = 0 THEN NoGroups
        ELSE AddItem(turn[i - 1], items[i], chars[i], units[i], limits)
  IN AllGroups(turn[Len(items)])
=============================================================================
