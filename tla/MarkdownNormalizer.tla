------------------------ MODULE MarkdownNormalizer ------------------------
(***************************************************************************)
(* The pass over the lines of a reply before remark parses it:             *)
(* telegram/tmux-bot/src/render/markdown-normalizer.ts, with               *)
(* preserveBlockMarkup, the way the renderer calls it.  It spells out the  *)
(* quotes whose later lines leave out the ">".                             *)
(*                                                                         *)
(* A line is its kind, whether it begins with ">", and whether its text    *)
(* (what follows the ">") is indented: code and nested lists are.  One     *)
(* action is one turn of the loop.                                         *)
(***************************************************************************)
EXTENDS Integers, Sequences, FiniteSets

CONSTANT MaxLines    \* bound on the lines of a text

ASSUME LinesAssumption == MaxLines \in Nat

VARIABLES
  lines,        \* the lines read so far
  output,       \* the lines written
  inCodeFence,
  inQuote

normVars == <<lines, output, inCodeFence, inQuote>>

Line ==
  [kind: {"fence", "blank", "heading", "rule"}, quoted: {FALSE}, indented: {FALSE}]
  \cup [kind: {"text"}, quoted: {FALSE}, indented: BOOLEAN]
  \cup [kind: {"text", "fence"}, quoted: {TRUE}, indented: BOOLEAN]

NormInit ==
  /\ lines = <<>>
  /\ output = <<>>
  /\ inCodeFence = FALSE
  /\ inQuote = FALSE

(* A line of a quote is written as "> " and its text, trimmed on the left. *)
Quoted(line) == [line EXCEPT !.quoted = TRUE, !.indented = FALSE]

(* A mutant: a fence leaves the quote before it open.                      *)
QuoteAfterFenceToo(line) ==
  CASE line.quoted -> TRUE
    [] ~line.quoted /\ line.kind \in {"blank", "heading", "rule"} -> FALSE
    [] OTHER -> inQuote

(* A line that ends a quote, or begins one.                                *)
QuoteAfter(line) ==
  CASE line.quoted -> TRUE
    [] ~line.quoted /\ line.kind \in {"fence", "blank", "heading", "rule"} -> FALSE
    [] OTHER -> inQuote

NormalizeLine(line) ==
  /\ Len(lines) < MaxLines
  /\ lines' = Append(lines, line)
  /\ IF inCodeFence /\ (line.kind # "fence" \/ line.quoted)
     THEN /\ output' = Append(output, line)
          /\ UNCHANGED <<inCodeFence, inQuote>>
     ELSE /\ inCodeFence' = (inCodeFence # (line.kind = "fence" /\ ~line.quoted))
          /\ inQuote' = QuoteAfter(line)
          /\ output' = Append(output, IF inQuote' THEN Quoted(line) ELSE line)

NormNext == \E line \in Line: NormalizeLine(line)

NormSpec == NormInit /\ [][NormNext]_normVars

---------------------------------------------------------------------------
(* A text line is shown as part of a quote exactly if a line with a ">"    *)
(* precedes it outside code, with no blank line, heading, rule or fence    *)
(* between; it loses its indentation, code and lists inside the quote      *)
(* included.  Every other line, and all of a code block that is in no      *)
(* quote, is left as it is.  The loop of normalizeMarkdown carries two     *)
(* flags from line to line; this says what they must amount to for the     *)
(* text as a whole.                                                        *)
QuotesSpelledOut ==
  LET Fence(i) == lines[i].kind = "fence" /\ ~lines[i].quoted
      InCode(i) == Cardinality({j \in 1..(i - 1): Fence(j)}) % 2 = 1
      Ends(i) == ~lines[i].quoted /\ lines[i].kind # "text"
      InQuote(i) == \E j \in 1..i: /\ lines[j].quoted /\ ~InCode(j)
                                   /\ \A k \in j..i: ~Ends(k)
  IN \A i \in DOMAIN lines:
       output[i] = IF ~InCode(i) /\ InQuote(i) THEN Quoted(lines[i]) ELSE lines[i]
===========================================================================
