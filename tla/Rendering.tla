---------------------------- MODULE Rendering ----------------------------
(***************************************************************************)
(* The rendering pipeline, telegram/tmux-bot/src/render/pipeline.ts: the   *)
(* text of a reply is normalized line by line, parsed into blocks, native  *)
(* content is lifted out of lists that are written as text, oversize       *)
(* blocks are split, and the blocks are packed into messages (chunker.ts). *)
(*                                                                         *)
(* opencode streams the reply: every update of it is rendered anew.  The   *)
(* model grows the text a line at a time; remark, a library, then makes    *)
(* some sequence of nodes of it.  As the text grows, a node is added, the  *)
(* last one becomes longer or another one, or a late definition of a link  *)
(* changes nodes before it.                                                *)
(***************************************************************************)
EXTENDS BlockParser, MarkdownNormalizer

CONSTANTS
  Node,        \* the nodes remark may make of a piece of text
  Revised,     \* those it may put in the place of others when the text grows
  LimitPairs,  \* the limits a reply may be rendered with
  PlainMaxPartChars,  \* PLAIN_MAX_PART_CHARS: 3800
  MaxNodes     \* bound on the nodes of a reply

ASSUME RenderingAssumption ==
  /\ MaxNodes \in Nat /\ PlainMaxPartChars \in Nat \ {0, 1}
  /\ Node \subseteq Content /\ Revised \subseteq Node
  /\ LimitPairs \subseteq SplitLimits

VARIABLES
  reading,  \* the text is still being normalized
  tree,     \* the children of remark's root
  limits,   \* the limits of this run of the program
  parts     \* the messages the reply is rendered to

vars == <<normVars, reading, tree, limits, parts>>

RenderInit ==
  /\ NormInit
  /\ reading = TRUE
  /\ tree = <<>>
  /\ limits \in LimitPairs
  /\ parts = <<>>

---------------------------------------------------------------------------
(* Every block of the nodes, in its native form with its plain text.       *)
RenderedBlock(block) == [block |-> RichBlock[block], plainText |-> PlainText[block]]

RenderedBlocks(nodes) ==
  LET Split(blocks) ==
        FlattenSeq([i \in DOMAIN blocks |-> SplitOversize[blocks[i]][limits]])
      Both(blocks) == [i \in DOMAIN blocks |-> RenderedBlock(blocks[i])]
  IN Both(Split(Lift(FlattenSeq([i \in DOMAIN nodes |-> ParseContent[nodes[i]][0]]))))

(* A mutant: the blocks are spread evenly over the messages needed.        *)
GroupBlocksEvenly(rendered) ==
  LET needed == 1 + Total([i \in DOMAIN rendered |-> Chars[rendered[i].block]])
                    \div limits.maxChars
      size == Max({1, Len(rendered) \div needed})
  IN [g \in 1..((Len(rendered) + size - 1) \div size) |->
        SubSeq(rendered, (g - 1) * size + 1, Min({g * size, Len(rendered)}))]

(* Blocks are packed into a message while both budgets last.               *)
GroupBlocks(rendered) ==
  GroupsOf(rendered, [i \in DOMAIN rendered |-> Chars[rendered[i].block]],
           [i \in DOMAIN rendered |-> Units[rendered[i].block]], limits)

Part(group) ==
  [blocks |-> [i \in DOMAIN group |-> group[i].block],
   fallbackText |-> Join(NonEmpty([i \in DOMAIN group |-> group[i].plainText]),
                         <<"\n", "\n">>)]

Rendered(nodes) ==
  LET Parts(groups) == [g \in DOMAIN groups |-> Part(groups[g])]
  IN Parts(GroupBlocks(RenderedBlocks(nodes)))

(* What the streamer sends instead of the parts once a native send failed  *)
(* (toPlainPayload, chunkPlainText): the plain texts, cut anew.            *)
PlainParts ==
  SplitText(Join(NonEmpty([p \in DOMAIN parts |-> parts[p].fallbackText]),
                 <<"\n", "\n">>), PlainMaxPartChars)

---------------------------------------------------------------------------
ReadLine ==
  /\ reading
  /\ NormNext
  /\ UNCHANGED <<reading, tree, limits, parts>>

(* The normalized text is given to remark.                                 *)
TakeText ==
  /\ reading
  /\ reading' = FALSE
  /\ lines' = <<>>
  /\ output' = <<>>
  /\ inCodeFence' = FALSE
  /\ inQuote' = FALSE
  /\ UNCHANGED <<tree, limits, parts>>

(* Of the longer reply remark makes the first kept nodes it made before    *)
(* and one that is new, and the reply is rendered anew.  An update that    *)
(* makes several new nodes is several steps.                               *)
Parse(kept, node) ==
  /\ ~reading
  /\ kept < MaxNodes
  /\ tree' = Append(SubSeq(tree, 1, kept), node)
  /\ parts' = Rendered(tree')
  /\ UNCHANGED <<normVars, reading, limits>>

Next == \/ ReadLine \/ TakeText
        \/ \E node \in Node: Parse(Len(tree), node)
        \/ \E kept \in 0..(Len(tree) - 1), node \in Revised: Parse(kept, node)

RenderSpec == RenderInit /\ [][Next]_vars

---------------------------------------------------------------------------
(* What the reader reads, in order: words, the numbers and task marks of   *)
(* lists, and tags shown as written.                                       *)
Decoration == {" ", "\n", ".", ">", "-", "|", "*", "=="}
Words(text) == SelectSeq(text, LAMBDA u: u \notin Decoration)

RichText[rich \in Rich] ==
  IF rich.type = "blockquote"
  THEN FlattenSeq([i \in DOMAIN rich.blocks |-> RichText[rich.blocks[i]]])
  ELSE IF rich.type = "list"
  THEN FlattenSeq([i \in DOMAIN rich.items |->
         FlattenSeq([j \in DOMAIN rich.items[i] |-> RichText[rich.items[i][j]]])])
  ELSE IF rich.type = "table" THEN FlattenSeq(FlattenSeq(rich.cells))
  ELSE IF rich.type = "divider" THEN <<>> ELSE rich.text

(* What the nodes say, read straight off them, except that the items of a  *)
(* list are counted from 1 as the program counts them.  Tags and the cells *)
(* of a table's header are left out: a tag may turn into formatting, and a *)
(* header is repeated in every piece of its table.                         *)
Said[node \in Content \cup Phrase] ==
  LET All(nodes) == FlattenSeq([i \in DOMAIN nodes |-> Said[nodes[i]]])
  IN CASE node.type \in {"text", "inlineCode", "image", "imageReference", "code",
                         "footnoteReference", "footnoteDefinition"} -> node.value
       [] node.type = "html" -> IF node.name = "" THEN node.value ELSE <<>>
       [] node.type \in {"break", "thematicBreak", "definition"} -> <<>>
       [] node.type = "list" ->
            FlattenSeq([i \in DOMAIN node.children |->
              (IF node.ordered THEN Decimal(i) ELSE <<>>)
              \o TaskMarker(node.children[i]) \o All(node.children[i].children)])
       [] node.type = "table" ->
            LET body == FlattenSeq(Tail(node.children))
            IN FlattenSeq([c \in DOMAIN body |-> All(body[c])])
       [] OTHER -> All(node.children)

Tag == {"<b>", "</b>", "<i>", "</i>", "<kbd>", "</kbd>", "<x>", "</x>"}
HeaderCell == {"X"}
Unrepeated(text) == SelectSeq(Words(text), LAMBDA u: u \notin Tag \cup HeaderCell)
Count(text, u) == Len(SelectSeq(text, LAMBDA v: v = u))

TagsOf[node \in Content \cup Phrase] ==
  CASE node.type = "html" /\ node.name # "" -> node.value
    [] node.type \in {"paragraph", "heading"} \cup Holding ->
         FlattenSeq([i \in DOMAIN node.children |-> TagsOf[node.children[i]]])
    [] OTHER -> <<>>

(* The parts of a reply say what the reply says: no word is lost, repeated *)
(* or moved, every item of a list keeps its task mark and its place in the *)
(* list as its number, when lists are written as text, lifted apart, split *)
(* and degraded to plain text, in the native form of the parts, in their   *)
(* plain one and in what is sent after a failure.  The number a list       *)
(* starts with is the one thing lost: parseListBlock drops it, and the     *)
(* first item is number 1 (which rich-blocks.test.ts expects).  A tag      *)
(* disappears only with its partner, however tags overlap, stay open or    *)
(* close what was not opened.                                              *)
NothingLost ==
  LET said == Unrepeated(FlattenSeq([i \in DOMAIN tree |-> Said[tree[i]]]))
      native == FlattenSeq([p \in DOMAIN parts |->
                  FlattenSeq([i \in DOMAIN parts[p].blocks |->
                                RichText[parts[p].blocks[i]]])])
      plain == FlattenSeq([p \in DOMAIN parts |-> parts[p].fallbackText])
      written == FlattenSeq([i \in DOMAIN tree |-> TagsOf[tree[i]]])
      Hidden(tag) == Count(written, tag) - Count(native, tag)
  IN /\ \A text \in {native, plain, FlattenSeq(PlainParts)}: Unrepeated(text) = said
     /\ Hidden("<b>") = Hidden("</b>") /\ Hidden("<i>") = Hidden("</i>")
     /\ Hidden("<kbd>") = Hidden("</kbd>")
     /\ Hidden("<x>") = 0 /\ Hidden("</x>") = 0

(* Every part keeps both of Telegram's budgets, although the splitters     *)
(* measure the pieces they make in ways of their own.                      *)
WithinBudgets ==
  \A p \in DOMAIN parts:
    LET blocks == parts[p].blocks
    IN /\ Total([i \in DOMAIN blocks |-> Chars[blocks[i]]]) <= limits.maxChars
       /\ Total([i \in DOMAIN blocks |-> Units[blocks[i]]]) <= limits.maxBlocks

(* The texts without half a surrogate pair.                                *)
WholeText == {text \in AnyText: Whole(text)}

(* A cut never separates the halves of a surrogate pair, wherever a text   *)
(* is cut and whatever was written before it.                              *)
PairsWhole ==
  /\ \A i \in DOMAIN PlainParts: Whole(PlainParts[i])
  /\ \A p \in DOMAIN parts:
       \A i \in DOMAIN parts[p].blocks: Whole(RichText[parts[p].blocks[i]])

(* The number of parts that nodes fill: the last one may take in more.     *)
Filled(nodes) == Len(Rendered(nodes)) - 1

(* When the reply grows, a part changes only if a node changed that begins *)
(* in it or before it: the parts that the nodes an update leaves alone     *)
(* fill stand, however the nodes after them grow, change or are split      *)
(* anew.  The streamer edits a message only if its part is another one, so *)
(* those are never sent again.                                             *)
EarlierPartsStand ==
  [][\A k \in 1..Len(tree):
       k <= Len(tree') /\ SubSeq(tree', 1, k) = SubSeq(tree, 1, k)
         => \A p \in 1..Filled(SubSeq(tree, 1, k)):
              p <= Len(parts) /\ p <= Len(parts') /\ parts'[p] = parts[p]]_vars
===========================================================================
