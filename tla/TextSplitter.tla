---------------------------- MODULE TextSplitter ----------------------------
(***************************************************************************)
(* Texts that are too long for a message are cut into pieces:              *)
(* telegram/tmux-bot/src/render/text-splitter.ts.  A text is the sequence  *)
(* of its UTF-16 code units; "H" and "L" are the halves of a surrogate     *)
(* pair.                                                                   *)
(***************************************************************************)
EXTENDS Integers, Sequences, FiniteSetsExt

Null == 0      \* findSplitBoundary's null

(* A mutant: any unit is a place to cut at.                                *)
SplitBoundaryAnywhere(text, start, maxLength) ==
  IF start + maxLength >= Len(text) THEN Len(text) ELSE start + maxLength

(* The largest safe cut within maxLength units of start, after a line      *)
(* break if there is one, else after white space, else anywhere.           *)
SplitBoundary(text, start, maxLength) ==
  LET hardEnd == start + maxLength
      safe == {i \in (start + 1)..hardEnd:
                 ~(text[i] = "H" /\ text[i + 1] = "L")}
      newlines == {i \in safe: text[i] = "\n"}
      blanks == {i \in safe: text[i] \in {" ", "\n"}}
  IN IF hardEnd >= Len(text) THEN Len(text)
     ELSE IF newlines # {} THEN Max(newlines)
     ELSE IF blanks # {} THEN Max(blanks)
     ELSE IF safe # {} THEN Max(safe)
     ELSE Null

(* splitTextIntoChunks throws where there is no safe cut; with limits of 2 *)
(* and more, as everywhere in the program, there always is one.            *)
(* pieces[n] are the pieces of the last n units.                           *)
SplitText(text, limit) ==
  LET pieces[n \in 0..Len(text)] ==
        IF n = 0 THEN <<>>
        ELSE LET start == Len(text) - n
                 end == SplitBoundary(text, start, limit)
             IN <<SubSeq(text, start + 1, end)>> \o pieces[Len(text) - end]
  IN pieces[Len(text)]

(* Neither half of a pair is without the other.                            *)
Whole(text) ==
  \A i \in DOMAIN text:
    /\ text[i] = "H" => i < Len(text) /\ text[i + 1] = "L"
    /\ text[i] = "L" => i > 1 /\ text[i - 1] = "H"
=============================================================================
