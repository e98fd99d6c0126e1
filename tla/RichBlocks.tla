---------------------------- MODULE RichBlocks ----------------------------
(***************************************************************************)
(* The two forms a parsed block of a reply is delivered in: the native     *)
(* rich block (telegram/tmux-bot/src/render/rich-blocks.ts) and its plain  *)
(* text (block-plain-text.ts), with the sizes Telegram counts.             *)
(*                                                                         *)
(* A text is the sequence of its UTF-16 code units, each a short string;   *)
(* "H" and "L" stand for the two halves of a surrogate pair.  Of a rich    *)
(* text only what the reader sees is kept: formatting changes neither the  *)
(* sizes nor the words.  Blocks are records with the source's type names;  *)
(* start is 1 where the source leaves it out.                              *)
(*                                                                         *)
(* Lists and quotes hold blocks.  The parser stops at MaxNestingDepth, so  *)
(* the blocks are a set of that many layers, and what the source computes  *)
(* by recursion over a block is a function on this set.                    *)
(***************************************************************************)
EXTENDS Integers, Sequences, SequencesExt

CONSTANTS
  Unit,                 \* the code units of texts
  RichTableMaxColumns,  \* RICH_TABLE_MAX_COLUMNS: 20
  MaxNestingDepth       \* MAX_NESTING_DEPTH: 6

(* The units the program writes itself.                                    *)
Digit == <<"0", "1", "2", "3", "4", "5", "6", "7", "8", "9">>
Signs == {" ", "\n", ".", ">", "-", "|", "*", "Y", "H", "L"}
         \cup {Digit[i] : i \in 1..10}

ASSUME BlocksAssumption ==
  /\ Signs \subseteq Unit
  /\ RichTableMaxColumns \in Nat \ {0} /\ MaxNestingDepth \in Nat

---------------------------------------------------------------------------
AnyText == Seq(Unit)

(* The blocks with texts of T that hold no others, and those that hold     *)
(* blocks of S.                                                            *)
LeafBlocks(T) ==
  [type: {"paragraph", "heading", "code", "plain"}, text: T]
  \cup [type: {"table"}, rows: Seq(Seq(T)) \ {<<>>}] \cup [type: {"rule"}]

Items(S) == [blocks: Seq(S), checked: {"done", "open", "unset"}]
ListsOf(S) ==
  [type: {"list"}, ordered: BOOLEAN, start: Nat, items: Seq(Items(S)) \ {<<>>}]
BlocksOf(S) == [type: {"blockquote"}, blocks: Seq(S)] \cup ListsOf(S)

Blocks(T) ==
  LET layer[depth \in 0..MaxNestingDepth] ==
        IF depth = 0 THEN LeafBlocks(T)
        ELSE LeafBlocks(T) \cup BlocksOf(layer[depth - 1])
  IN layer

Block == Blocks(AnyText)[MaxNestingDepth]

(* The same of native blocks.                                              *)
LeafRich(T) ==
  [type: {"paragraph", "heading", "pre"}, text: T]
  \cup [type: {"table"}, cells: Seq(Seq(T))] \cup [type: {"divider"}]

RichOf(S) ==
  [type: {"blockquote"}, blocks: Seq(S)] \cup [type: {"list"}, items: Seq(Seq(S))]

Riches(T) ==
  LET layer[depth \in 0..MaxNestingDepth] ==
        IF depth = 0 THEN LeafRich(T)
        ELSE LeafRich(T) \cup RichOf(layer[depth - 1])
  IN layer

Rich == Riches(AnyText)[MaxNestingDepth]

---------------------------------------------------------------------------
(* Texts.                                                                  *)
Spaces(n) == [i \in 1..n |-> " "]

Join(texts, separator) ==
  FlattenSeq([i \in DOMAIN texts |->
                IF i = 1 THEN texts[i] ELSE separator \o texts[i]])

(* lines[n] are the lines of the last n units.                             *)
SplitLines(text) ==
  LET lines[n \in 0..Len(text)] ==
        LET start == Len(text) - n
            breaks == {i \in (start + 1)..Len(text): text[i] = "\n"}
        IN IF breaks = {} THEN <<SubSeq(text, start + 1, Len(text))>>
           ELSE <<SubSeq(text, start + 1, Min(breaks) - 1)>>
                \o lines[Len(text) - Min(breaks)]
  IN lines[Len(text)]

PrefixLines(text, prefix) ==
  LET lines == SplitLines(text)
  IN Join([i \in DOMAIN lines |-> prefix \o lines[i]], <<"\n">>)

NonEmpty(texts) ==
  FlattenSeq([i \in DOMAIN texts |-> IF texts[i] = <<>> THEN <<>> ELSE <<texts[i]>>])

Total(sizes) ==
  LET sum[i \in 0..Len(sizes)] == IF i = 0 THEN 0 ELSE sum[i - 1] + sizes[i]
  IN sum[Len(sizes)]

Decimal(number) ==
  LET digits[n \in 0..number] ==
        IF n < 10 THEN <<Digit[n + 1]>> ELSE digits[n \div 10] \o <<Digit[(n % 10) + 1]>>
  IN digits[number]

---------------------------------------------------------------------------
(* Lists written out as text.                                              *)
TaskMarker(item) ==
  CASE item.checked = "done"  -> <<"Y", " ">>
    [] item.checked = "open"  -> <<"H", "L", " ">>
    [] item.checked = "unset" -> <<>>

ListMarker(item, number, ordered, bullet) ==
  IF ordered THEN Decimal(number) \o <<".", " ">> \o TaskMarker(item)
  ELSE IF TaskMarker(item) # <<>> THEN TaskMarker(item)
  ELSE <<bullet, " ">>

IsTextRendered(list) ==
  list.ordered \/ \E i \in DOMAIN list.items: list.items[i].checked # "unset"

(* An item is its leading paragraph, if it has one, and what follows.      *)
LeadsWithParagraph(item) ==
  item.blocks # <<>> /\ Head(item.blocks).type = "paragraph"
LeadingBlocks(item) ==
  IF LeadsWithParagraph(item) THEN <<Head(item.blocks)>> ELSE <<>>
TrailingBlocks(item) ==
  IF LeadsWithParagraph(item) THEN Tail(item.blocks) ELSE item.blocks

---------------------------------------------------------------------------
(* Plain text.  texts are the plain texts of the blocks a block holds.     *)
AlignedTable(rows) ==
  LET columns == 1..Max({Len(rows[r]) : r \in DOMAIN rows})
      Cell(r, c) == IF c <= Len(rows[r]) THEN rows[r][c] ELSE <<>>
      width == [c \in columns |-> Max({Len(Cell(r, c)) : r \in DOMAIN rows})]
      Row(r) == Join([c \in columns |->
                        Cell(r, c) \o Spaces(width[c] - Len(Cell(r, c)))],
                     <<" ", "|", " ">>)
      divider == Join([c \in columns |-> [i \in 1..width[c] |-> "-"]],
                      <<"-", "|", "-">>)
      body == [r \in 1..(Len(rows) - 1) |-> Row(r + 1)]
  IN Join(IF Len(rows) = 1 THEN <<Row(1)>> ELSE <<Row(1), divider>> \o body,
          <<"\n">>)

QuoteText(texts) ==
  LET shown == NonEmpty(texts)
  IN Join([i \in DOMAIN shown |-> PrefixLines(shown[i], <<">", " ">>)], <<"\n">>)

ItemText(marker, texts) ==
  LET lines == SplitLines(Join(NonEmpty(texts), <<"\n">>))
  IN Join([i \in DOMAIN lines |->
             (IF i = 1 THEN marker ELSE Spaces(Len(marker))) \o lines[i]],
          <<"\n">>)

ListText(list, texts) ==
  Join([i \in DOMAIN list.items |->
          ItemText(ListMarker(list.items[i], list.start + i - 1, list.ordered, "-"),
                   texts[i])], <<"\n">>)

LeafText(block) ==
  CASE block.type \in {"paragraph", "heading", "code", "plain"} -> block.text
    [] block.type = "table" -> AlignedTable(block.rows)
    [] block.type = "rule" -> [i \in 1..10 |-> "-"]

PlainText[block \in Block] ==
  IF block.type = "blockquote"
  THEN QuoteText([i \in DOMAIN block.blocks |-> PlainText[block.blocks[i]]])
  ELSE IF block.type = "list"
  THEN ListText(block, [i \in DOMAIN block.items |->
         [j \in DOMAIN block.items[i].blocks |-> PlainText[block.items[i].blocks[j]]]])
  ELSE LeafText(block)

---------------------------------------------------------------------------
(* The native form.  A rich text is what it shows.                         *)
TextItem(item, indent) ==
  LET trailing == TrailingBlocks(item)
      texts == NonEmpty([i \in DOMAIN trailing |-> PlainText[trailing[i]]])
  IN (IF LeadsWithParagraph(item) THEN Head(item.blocks).text ELSE <<>>)
     \o FlattenSeq([i \in DOMAIN texts |->
                      <<"\n">> \o PrefixLines(texts[i], indent)])

TextList(list) ==
  Join([i \in DOMAIN list.items |->
          LET marker == ListMarker(list.items[i], list.start + i - 1,
                                   list.ordered, "*")
          IN marker \o TextItem(list.items[i], Spaces(Len(marker)))],
       <<"\n">>)

RichTable(rows) ==
  IF \E r \in DOMAIN rows: Len(rows[r]) > RichTableMaxColumns
  THEN [type |-> "pre", text |-> AlignedTable(rows)]
  ELSE [type |-> "table", cells |-> rows]

LeafBlock(block) ==
  CASE block.type \in {"paragraph", "heading"} ->
         [type |-> block.type, text |-> block.text]
    [] block.type = "code" -> [type |-> "pre", text |-> block.text]
    [] block.type = "table" -> RichTable(block.rows)
    [] block.type = "rule" -> [type |-> "divider"]
    [] block.type = "plain" -> [type |-> "paragraph", text |-> block.text]

RichBlock[block \in Block] ==
  IF block.type = "blockquote"
  THEN [type |-> "blockquote",
        blocks |-> [i \in DOMAIN block.blocks |-> RichBlock[block.blocks[i]]]]
  ELSE IF block.type = "list" /\ IsTextRendered(block)
  THEN [type |-> "paragraph", text |-> TextList(block)]
  ELSE IF block.type = "list"
  THEN [type |-> "list",
        items |-> [i \in DOMAIN block.items |->
          [j \in DOMAIN block.items[i].blocks |-> RichBlock[block.items[i].blocks[j]]]]]
  ELSE LeafBlock(block)

(* The units and the characters Telegram counts for a rich block.          *)
Units[rich \in Rich] ==
  IF rich.type = "blockquote"
  THEN 1 + Total([i \in DOMAIN rich.blocks |-> Units[rich.blocks[i]]])
  ELSE IF rich.type = "list"
  THEN 1 + Total([i \in DOMAIN rich.items |->
             1 + Total([j \in DOMAIN rich.items[i] |-> Units[rich.items[i][j]]])])
  ELSE IF rich.type = "table" THEN 1 + Len(rich.cells) ELSE 1

Chars[rich \in Rich] ==
  IF rich.type = "blockquote"
  THEN Total([i \in DOMAIN rich.blocks |-> Chars[rich.blocks[i]]])
  ELSE IF rich.type = "list"
  THEN Total([i \in DOMAIN rich.items |->
         Total([j \in DOMAIN rich.items[i] |-> Chars[rich.items[i][j]]])])
  ELSE IF rich.type = "table" THEN Len(FlattenSeq(FlattenSeq(rich.cells)))
  ELSE IF rich.type = "divider" THEN 0 ELSE Len(rich.text)

---------------------------------------------------------------------------
(* Native content is lifted out of lists that are written out as text.     *)
StaysInside[block \in Block] ==
  /\ block.type = "list"
  /\ IsTextRendered(block)
  /\ \A i \in DOMAIN block.items: \A j \in DOMAIN block.items[i].blocks:
       \/ block.items[i].blocks[j].type = "paragraph"
       \/ StaysInside[block.items[i].blocks[j]]

(* How many of an item's trailing blocks stay with it: those before the    *)
(* first one that has a native form.                                       *)
Staying(item) ==
  LET trailing == TrailingBlocks(item)
      native == {j \in DOMAIN trailing: ~StaysInside[trailing[j]]}
  IN IF native = {} THEN Len(trailing) ELSE Min(native) - 1

Kept(item) ==
  [item EXCEPT !.blocks = LeadingBlocks(item)
                          \o SubSeq(TrailingBlocks(item), 1, Staying(item))]
Lifted(item) ==
  SubSeq(TrailingBlocks(item), Staying(item) + 1, Len(TrailingBlocks(item)))

(* A piece of the list takes up the numbers where the one before stopped.  *)
FlushPiece(acc, ordered) ==
  IF acc.items = <<>> THEN acc
  ELSE [out |-> Append(acc.out, [type |-> "list", ordered |-> ordered,
                                 items |-> acc.items, start |-> acc.start]),
        items |-> <<>>, start |-> acc.start + Len(acc.items)]

AddToPiece(acc, item, lifts, ordered) ==
  LET grown == [acc EXCEPT !.items = Append(@, Kept(item))]
  IN IF Lifted(item) = <<>> THEN grown
     ELSE [FlushPiece(grown, ordered) EXCEPT !.out = @ \o lifts]

(* A list in pieces, with lifts[i], lifted from its i-th item, between.    *)
PiecesOfList(list, lifts) ==
  LET turn[i \in 0..Len(list.items)] ==
        IF i = 0 THEN [out |-> <<>>, items |-> <<>>, start |-> list.start]
        ELSE AddToPiece(turn[i - 1], list.items[i], lifts[i], list.ordered)
  IN FlushPiece(turn[Len(list.items)], list.ordered).out

LiftBlock[block \in Block] ==
  IF block.type = "list" /\ IsTextRendered(block)
  THEN PiecesOfList(block, [i \in DOMAIN block.items |->
         FlattenSeq([j \in DOMAIN Lifted(block.items[i]) |->
                       LiftBlock[Lifted(block.items[i])[j]]])])
  ELSE <<block>>

Lift(blocks) == FlattenSeq([i \in DOMAIN blocks |-> LiftBlock[blocks[i]]])
===========================================================================
