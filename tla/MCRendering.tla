--------------------------- MODULE MCRendering ---------------------------
(* Replies of up to MaxNodes nodes, of every type the parser knows, with   *)
(* limits small enough that every kind of block has to be split.           *)
EXTENDS Rendering

MCUnit == STRING

Text(value) == [type |-> "text", value |-> value]
OpenTag(name, raw) ==
  [type |-> "html", name |-> name, closing |-> FALSE, value |-> <<raw>>]
CloseTag(name, raw) == [OpenTag(name, raw) EXCEPT !.closing = TRUE]
Paragraph(children) == [type |-> "paragraph", children |-> children]
Says(value) == Paragraph(<<Text(value)>>)
Quote(children) == [type |-> "blockquote", children |-> children]
Code(value) == [type |-> "code", value |-> value]
Table(rows) ==
  [type |-> "table",
   children |-> [r \in DOMAIN rows |-> [c \in DOMAIN rows[r] |-> <<Text(rows[r][c])>>]]]
Task(checked, children) == [checked |-> checked, children |-> children]
Item(children) == Task("unset", children)
ListFrom(start, ordered, items) ==
  [type |-> "list", ordered |-> ordered, start |-> start, children |-> items]
List(ordered, items) == ListFrom(1, ordered, items)

LongText == Says(<<"a", "b", "c", " ", "d", "H", "L", "H", "L", "e", "f", "\n", "g">>)
Overlapping ==
  Paragraph(<<OpenTag("b", "<b>"), Text(<<"a">>), OpenTag("i", "<i>"), Text(<<"b">>),
              CloseTag("b", "</b>"), CloseTag("i", "</i>"), OpenTag("kbd", "<kbd>"),
              Text(<<"c">>), [type |-> "break"], CloseTag("x", "</x>")>>)
NestedTags ==
  Paragraph(<<OpenTag("b", "<b>"), OpenTag("x", "<x>"), OpenTag("kbd", "<kbd>"), Text(<<"a">>),
              OpenTag("br", "<br>"), CloseTag("kbd", "</kbd>"), CloseTag("b", "</b>"),
              [type |-> "strong", children |-> <<OpenTag("i", "<i>"), Text(<<"b">>)>>]>>)
References ==
  Paragraph(<<OpenTag("b", "<b>"),
              [type |-> "linkReference", children |-> <<Text(<<"a", " ">>), [type |-> "break"]>>],
              [type |-> "image", value |-> <<"b", "c">>], CloseTag("b", "</b>"),
              [type |-> "imageReference", value |-> <<"d">>],
              [type |-> "footnoteReference", value |-> <<"c">>]>>)
Footnote == [type |-> "footnoteDefinition", value |-> <<"c", "d", "H", "L", "e", " ", "f">>]
Nothing == Quote(<<[type |-> "definition"]>>)
MarkedHeading ==
  [type |-> "heading",
   children |-> <<Text(<<"a", "==", "b", "==", "c", "==", " ">>),
                  [type |-> "inlineCode", value |-> <<"d">>]>>]
Listing == Code(<<"a", "b", "\n", "\n", "c", "d", "e", "f", "g", "H", "L", "h", "i", "\n", "j">>)
Figures ==
  Table(<<<<(<<"X">>), (<<"X">>)>>, <<(<<"a", "b">>), (<<"c">>)>>, <<(<<"d">>), <<>> >>,
          <<(<<"e", "f", "g", "h">>), (<<"i">>)>>>>)
WideTable ==
  Table(<<<<(<<"X">>), (<<"X">>), (<<"X">>)>>, <<(<<"a">>), (<<"b">>), (<<"c">>)>>>>)
HeaderOnly == Table(<<<<(<<"X">>), (<<"X">>)>>>>)
Bullets == List(FALSE, <<Item(<<Says(<<"p">>)>>), Item(<<Says(<<"q">>)>>)>>)
Numbered ==
  ListFrom(5, TRUE,
           <<Item(<<Says(<<"a">>), Bullets, Says(<<"b">>)>>),
             Task("open", <<Code(<<"c">>)>>), Item(<<Says(<<"d", "e", "f">>)>>)>>)
SubNumbered ==
  List(TRUE, <<Item(<<Says(<<"a">>), List(TRUE, <<Item(<<Says(<<"b">>)>>),
                                                Item(<<Says(<<"c">>)>>)>>)>>),
               Item(<<Says(<<"d">>), List(TRUE, <<Item(<<Code(<<"e">>)>>)>>)>>)>>)
NestedBullets ==
  List(FALSE, <<Item(<<Says(<<"a">>), List(TRUE, <<Item(<<Says(<<"b">>)>>),
                                                 Item(<<Says(<<"c">>)>>)>>)>>),
                Item(<<Bullets>>), Item(<<Says(<<"d">>)>>)>>)
Tasks ==
  List(FALSE, <<Task("done", <<Says(<<"a">>)>>), Task("open", <<Says(<<"b">>)>>),
                Item(<<Says(<<"c">>)>>)>>)
Eleven == List(TRUE, [n \in 1..11 |-> Item(<<Says(<<"a">>)>>)])
Quoting ==
  Quote(<<Says(<<"a">>), Figures, Numbered, Says(<<"b">>), Bullets>>)
Deep == Quote(<<Quote(<<Quote(<<Says(<<"a">>), Says(<<"b">>)>>),
                        List(TRUE, <<Task("done", <<Says(<<"c">>)>>)>>)>>)>>)

MCNode ==
  {LongText, Overlapping, NestedTags, References, MarkedHeading, Listing,
   Figures, WideTable, HeaderOnly, Numbered, SubNumbered, NestedBullets, Tasks, Eleven,
   Quoting, Deep, Footnote, Nothing, [type |-> "thematicBreak"],
   [type |-> "html", name |-> "", value |-> <<" ", "a", "b">>]}

MCRevised == {LongText}

(* remark gets a text without half a surrogate pair.                       *)
ASSUME WholeAssumption == Node \subseteq Contents(WholeText)[MaxTreeDepth]

Limit(chars, blocks) == [maxChars |-> chars, maxBlocks |-> blocks]
MCLimitPairs == {Limit(2, 3), Limit(6, 5), Limit(12, 4), Limit(1000, 7), Limit(1000, 1000)}
===========================================================================
