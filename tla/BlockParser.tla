---------------------------- MODULE BlockParser ----------------------------
(***************************************************************************)
(* From the nodes remark makes of a Markdown text to the blocks that are   *)
(* rendered: telegram/tmux-bot/src/render/block-parser.ts.                 *)
(*                                                                         *)
(* A node is a record with the type names of mdast.  An html node carries  *)
(* the tag it is, with the empty name for markup that is no single tag;    *)
(* the text of a tag, and the pair of signs around marked text, count as   *)
(* one unit each.  Inline nodes are parsed to what they show: which words  *)
(* are bold is not kept, which tags stay visible is.                       *)
(***************************************************************************)
EXTENDS BlockSplitter

CONSTANT MaxTreeDepth    \* bound on the layers of a tree of nodes

ASSUME TreeAssumption == MaxTreeDepth \in Nat

(* The phrasing content of mdast with texts of T, by layers.  The value of *)
(* an image or of a reference to one is its alternative text, that of a    *)
(* reference to a footnote what is shown of it, "[^1]".                    *)
Marked == {"strong", "emphasis", "delete", "link"}
Holding == Marked \cup {"linkReference"}

LeafPhrases(T) ==
  [type: {"text", "inlineCode", "image", "imageReference", "footnoteReference"}, value: T]
  \cup [type: {"break"}]
  \cup [type: {"html"}, name: STRING, closing: BOOLEAN, value: T]

PhrasesOf(S) == [type: Holding, children: Seq(S)]

Phrases(T) ==
  LET layer[depth \in 0..MaxTreeDepth] ==
        IF depth = 0 THEN LeafPhrases(T)
        ELSE LeafPhrases(T) \cup PhrasesOf(layer[depth - 1])
  IN layer

Phrase == Phrases(AnyText)[MaxTreeDepth]

(* The flow content: P is the phrasing content it holds.  The value of a   *)
(* footnote's definition is the text of what it holds, run together by     *)
(* mdast's toString; a link's definition shows nothing.                    *)
LeafContents(T, P) ==
  [type: {"paragraph", "heading"}, children: Seq(P)]
  \cup [type: {"table"}, children: Seq(Seq(Seq(P))) \ {<<>>}]
  \cup [type: {"code"}, value: T] \cup [type: {"html"}, name: STRING, value: T]
  \cup [type: {"footnoteDefinition"}, value: T]
  \cup [type: {"thematicBreak", "definition"}]

ListItems(S) == [children: Seq(S), checked: {"done", "open", "unset"}]

(* start is the number an ordered list begins with in the text.            *)
ContentsOf(S) ==
  [type: {"blockquote"}, children: Seq(S)]
  \cup [type: {"list"}, ordered: BOOLEAN, start: Nat, children: Seq(ListItems(S)) \ {<<>>}]

Contents(T) ==
  LET leaves == LeafContents(T, Phrases(T)[MaxTreeDepth])
      layer[depth \in 0..MaxTreeDepth] ==
        IF depth = 0 THEN leaves ELSE leaves \cup ContentsOf(layer[depth - 1])
  IN layer

Content == Contents(AnyText)[MaxTreeDepth]

---------------------------------------------------------------------------
(* The tags Telegram can express.                                          *)
InlineHtmlWrappers ==
  {"b", "strong", "i", "em", "s", "del", "strike", "u", "ins", "tg-spoiler",
   "sub", "sup", "mark", "kbd", "code"}

(* A text without the == around ==words==: the first sign that opens a run *)
(* up to the first that closes it.  shown[n] is what the last n units show.*)
MarkedText(value) ==
  LET Solid(i) == value[i] \notin {" ", "\n"}
      Run(i, j) == /\ value[i] = "==" /\ value[j] = "==" /\ i + 1 < j
                   /\ Solid(i + 1) /\ Solid(j - 1)
      Closes(i) == {j \in (i + 1)..Len(value): Run(i, j)}
      shown[n \in 0..Len(value)] ==
        LET start == Len(value) - n
            opens == {i \in (start + 1)..Len(value): Closes(i) # {}}
            open == Min(opens)
            close == Min(Closes(open))
        IN IF opens = {} THEN SubSeq(value, start + 1, Len(value))
           ELSE SubSeq(value, start + 1, open - 1)
                \o SubSeq(value, open + 1, close - 1) \o shown[Len(value) - close]
  IN shown[Len(value)]

(* The tags that are open are a stack of frames, each with the text it     *)
(* collects; the one at the bottom collects the result.                    *)
Frame(name, raw) == [name |-> name, raw |-> raw, text |-> <<>>]

CloseFrame(frame, closed) == IF closed THEN frame.text ELSE frame.raw \o frame.text

PushText(stack, text) == [stack EXCEPT ![Len(stack)].text = @ \o text]

(* Closes the frames from the index-th up, and that one with closed: the   *)
(* tags opened inside it never closed themselves and stay visible.         *)
Unwind(stack, index, closed) ==
  PushText(SubSeq(stack, 1, index - 1),
           FlattenSeq([k \in 1..(Len(stack) - index + 1) |->
             CloseFrame(stack[index + k - 1], closed /\ k = 1)]))

HtmlTag(stack, node) ==
  LET opened == {k \in 2..Len(stack): stack[k].name = node.name}
  IN IF node.name = "br" THEN PushText(stack, <<"\n">>)
     ELSE IF ~node.closing /\ node.name \in InlineHtmlWrappers
     THEN Append(stack, Frame(node.name, node.value))
     ELSE IF node.closing /\ opened # {} THEN Unwind(stack, Max(opened), TRUE)
     ELSE PushText(stack, node.value)

(* What nodes show, a node that is no tag showing texts[i]: the loop of    *)
(* parseInlineNodes.                                                       *)
InlineText(nodes, texts) ==
  LET stack[i \in 0..Len(nodes)] ==
        IF i = 0 THEN <<Frame("", <<>>)>>
        ELSE IF nodes[i].type = "html" THEN HtmlTag(stack[i - 1], nodes[i])
        ELSE PushText(stack[i - 1], texts[i])
  IN Unwind(stack[Len(nodes)], 2, FALSE)[1].text

Shown[node \in Phrase] ==
  IF node.type \in Holding
  THEN InlineText(node.children,
                  [i \in DOMAIN node.children |-> Shown[node.children[i]]])
  ELSE IF node.type = "text" THEN MarkedText(node.value)
  ELSE IF node.type = "break" THEN <<"\n">> ELSE node.value

InlineNodes(nodes) == InlineText(nodes, [i \in DOMAIN nodes |-> Shown[nodes[i]]])

(* Where parseInlineNodes returns null the caller falls back to plain text.*)
Expressible[node \in Phrase] ==
  \/ node.type \in {"text", "inlineCode", "break"}
  \/ node.type = "html" /\ node.name # ""
  \/ node.type \in Marked /\ \A i \in DOMAIN node.children: Expressible[node.children[i]]

---------------------------------------------------------------------------
(* What is left of a node that cannot be expressed.                        *)
PhraseText[node \in Phrase] ==
  IF node.type \in Holding
  THEN FlattenSeq([i \in DOMAIN node.children |-> PhraseText[node.children[i]]])
  ELSE IF node.type = "break" THEN <<"\n">> ELSE node.value

PhrasingText(nodes) == FlattenSeq([i \in DOMAIN nodes |-> PhraseText[nodes[i]]])

Cells(rows) ==
  [r \in DOMAIN rows |-> [c \in DOMAIN rows[r] |-> PhrasingText(rows[r][c])]]

TrimText(text) ==
  LET solid == {i \in DOMAIN text: text[i] \notin {" ", "\n"}}
  IN IF solid = {} THEN <<>> ELSE SubSeq(text, Min(solid), Max(solid))

(* texts[i] are the texts of what the i-th item holds.                     *)
NodeListText(list, texts) ==
  LET Marker(i) == IF list.ordered THEN Decimal(i) \o <<".", " ">> ELSE <<"-", " ">>
  IN Join([i \in DOMAIN list.children |->
             TrimText(Marker(i) \o TaskMarker(list.children[i])
                      \o Join(NonEmpty(texts[i]), <<"\n">>))], <<"\n">>)

LeafNodeText(node) ==
  CASE node.type \in {"paragraph", "heading"} -> PhrasingText(node.children)
    [] node.type = "table" ->
         LET cells == Cells(node.children)
         IN Join([r \in DOMAIN cells |-> Join(cells[r], <<" ", "|", " ">>)], <<"\n">>)
    [] node.type \in {"code", "html", "footnoteDefinition"} -> node.value
    [] node.type = "thematicBreak" -> [i \in 1..10 |-> "-"]
    [] node.type = "definition" -> <<>>

NodeText[node \in Content] ==
  IF node.type = "blockquote"
  THEN QuoteText([i \in DOMAIN node.children |-> NodeText[node.children[i]]])
  ELSE IF node.type = "list"
  THEN NodeListText(node, [i \in DOMAIN node.children |->
         [j \in DOMAIN node.children[i].children |->
            NodeText[node.children[i].children[j]]]])
  ELSE LeafNodeText(node)

PlainBlock(node) ==
  IF TrimText(NodeText[node]) = <<>> THEN <<>>
  ELSE <<[type |-> "plain", text |-> TrimText(NodeText[node])]>>

(* A node that is no list or quote, or lies too deep to be one.            *)
ParseLeaf(node) ==
  CASE node.type \in {"paragraph", "heading"}
       /\ \A i \in DOMAIN node.children: Expressible[node.children[i]] ->
         <<[type |-> node.type, text |-> InlineNodes(node.children)]>>
    [] node.type = "code" -> <<[type |-> "code", text |-> node.value]>>
    [] node.type = "table" -> <<[type |-> "table", rows |-> Cells(node.children)]>>
    [] node.type = "thematicBreak" -> <<[type |-> "rule"]>>
    [] OTHER -> PlainBlock(node)

(* The blocks of a node that lies within depth lists and quotes.  A list   *)
(* is parsed without the number it starts with.                            *)
ParseContent[node \in Content] ==
  [depth \in Nat |->
    LET Parsed(nodes) ==
          FlattenSeq([i \in DOMAIN nodes |-> ParseContent[nodes[i]][depth + 1]])
    IN IF node.type = "blockquote" /\ depth < MaxNestingDepth
       THEN IF Parsed(node.children) = <<>> THEN <<>>
            ELSE <<[type |-> "blockquote", blocks |-> Parsed(node.children)]>>
       ELSE IF node.type = "list" /\ depth < MaxNestingDepth
       THEN <<[type |-> "list", ordered |-> node.ordered, start |-> 1,
               items |-> [i \in DOMAIN node.children |->
                            [blocks |-> Parsed(node.children[i].children),
                             checked |-> node.children[i].checked]]]>>
       ELSE ParseLeaf(node)]
============================================================================
