--------------------------- MODULE BlockSplitter ---------------------------
(***************************************************************************)
(* Blocks larger than a message are split into blocks that fit:            *)
(* telegram/tmux-bot/src/render/block-splitter.ts.  A pair of limits is a  *)
(* record with maxChars and maxBlocks.                                     *)
(***************************************************************************)
EXTENDS RichBlocks, TextSplitter, Grouping

SplitLimits == [maxChars: Nat \ {0, 1}, maxBlocks: Nat \ {0}]

(* items in groups of at most maxItems items and at most maxChars          *)
(* characters, chars[i] being the characters of items[i].                  *)
GroupItems(items, chars, maxChars, maxItems) ==
  GroupsOf(items, chars, [i \in DOMAIN items |-> 1],
           [maxChars |-> maxChars, maxBlocks |-> Max({1, maxItems})])

MeasureItem(item) ==
  Total([i \in DOMAIN item.blocks |-> Len(PlainText[item.blocks[i]]) + 1])

MeasureItemUnits(item) ==
  1 + Total([i \in DOMAIN item.blocks |-> Units[RichBlock[item.blocks[i]]]])

(* A mutant: only characters are counted.                                  *)
FitsLimitsChars(block, limits) == Chars[RichBlock[block]] <= limits.maxChars

FitsLimits(block, limits) ==
  /\ Chars[RichBlock[block]] <= limits.maxChars
  /\ Units[RichBlock[block]] <= limits.maxBlocks

---------------------------------------------------------------------------
TextBlocks(type, texts) == [i \in DOMAIN texts |-> [type |-> type, text |-> texts[i]]]
Lists(block, groups) == [g \in DOMAIN groups |-> [block EXCEPT !.items = groups[g]]]

SplitToPlain(block, limits) ==
  TextBlocks("plain", SplitText(PlainText[block], limits.maxChars))

GroupLines(lines, limit) ==
  GroupItems(lines, [i \in DOMAIN lines |-> Len(lines[i]) + 1], limit, Len(lines))

SplitGroups(groups, limit) ==
  FlattenSeq([g \in DOMAIN groups |-> SplitText(Join(groups[g], <<"\n">>), limit)])

SplitCode(block, limits) ==
  TextBlocks("code", SplitGroups(GroupLines(SplitLines(block.text), limits.maxChars),
                            limits.maxChars))

SplitTable(block, limits) ==
  LET header == Head(block.rows)
      RowChars(row) == Len(FlattenSeq(row))
      rows == Tail(block.rows)
      Headed(groups) ==
        [g \in DOMAIN groups |-> [type |-> "table", rows |-> <<header>> \o groups[g]]]
  IN Headed(GroupItems(rows, [i \in DOMAIN rows |-> RowChars(rows[i])],
                       Max({1, limits.maxChars - RowChars(header)}),
                       limits.maxBlocks - 2))

(* A mutant: every piece of a numbered list starts where the list did.     *)
SplitTextListRestarting(block, limits) ==
  LET chars == [i \in DOMAIN block.items |-> MeasureItem(block.items[i])]
  IN Lists(block, GroupItems(block.items, chars, limits.maxChars, Len(block.items)))

SplitTextList(block, limits) ==
  LET chars == [i \in DOMAIN block.items |->
        MeasureItem(block.items[i]) + 1
        + Len(ListMarker(block.items[i], block.start + i - 1, block.ordered, "*"))]
      Numbered(groups) ==
        [g \in DOMAIN groups |->
          [block EXCEPT !.items = groups[g],
                        !.start = @ + Total([k \in 1..(g - 1) |-> Len(groups[k])])]]
  IN Numbered(GroupItems(block.items, chars, limits.maxChars, Len(block.items)))

SplitNativeList(block, limits) ==
  LET dearest == Max({MeasureItemUnits(block.items[i]) : i \in DOMAIN block.items})
      chars == [i \in DOMAIN block.items |-> MeasureItem(block.items[i])]
  IN Lists(block, GroupItems(block.items, chars, limits.maxChars,
                             (limits.maxBlocks - 1) \div dearest))

(* Blocks of a quote are grouped by their number and characters.           *)
Quotes(blocks, limits) ==
  LET chars == [i \in DOMAIN blocks |-> Chars[RichBlock[blocks[i]]]]
      Quoting(groups) ==
        [g \in DOMAIN groups |-> [type |-> "blockquote", blocks |-> groups[g]]]
  IN Quoting(GroupItems(blocks, chars, limits.maxChars, limits.maxBlocks))

(* A piece that is still too large is degraded to plain text.              *)
Fitted(pieces, limits) ==
  FlattenSeq([i \in DOMAIN pieces |->
    IF FitsLimits(pieces[i], limits) THEN <<pieces[i]>>
    ELSE SplitToPlain(pieces[i], limits)])

(* The limits of what a quote holds.                                       *)
InnerLimits(limits) == [limits EXCEPT !.maxBlocks = Max({1, limits.maxBlocks - 1})]

SplitByType(block, limits) ==
  CASE block.type = "code" -> SplitCode(block, limits)
    [] block.type = "table" /\ Len(block.rows) > 1 -> SplitTable(block, limits)
    [] block.type = "list" -> IF IsTextRendered(block)
                              THEN SplitTextList(block, limits)
                              ELSE SplitNativeList(block, limits)
    [] OTHER -> SplitToPlain(block, limits)

SplitOversize[block \in Block] ==
  [limits \in SplitLimits |->
    LET inner == InnerLimits(limits)
        Inner == FlattenSeq([i \in DOMAIN block.blocks |->
                               SplitOversize[block.blocks[i]][inner]])
    IN IF FitsLimits(block, limits) THEN <<block>>
       ELSE Fitted(IF block.type = "blockquote" THEN Quotes(Inner, inner)
                   ELSE SplitByType(block, limits), limits)]
===========================================================================
