-------------------------- MODULE RenderingProofs --------------------------
(***************************************************************************)
(* Proofs about the rendering pipeline, for replies of any length.         *)
(*                                                                         *)
(* A loop of the source is a recursive function here.  RecursiveFunction   *)
(* says once that such a function exists; that a value of it has some      *)
(* property follows from Least: there would be a first value without it.   *)
(* Blocks and nodes are trees: TreeRecursion says the same of functions    *)
(* over the layers the trees are built in.                                 *)
(*                                                                         *)
(* In the order of the file: the pass of MarkdownNormalizer, the cuts of   *)
(* TextSplitter and the groups of Grouping; what is written, in classes of *)
(* texts that everything the program does to a text stays in; blocks in    *)
(* their plain and native form, lifted and split; nodes and their blocks;  *)
(* and last the parts of a growing reply.                                  *)
(***************************************************************************)
EXTENDS Rendering, FiniteSetTheorems, SequenceTheorems, WellFoundedInduction, TLAPS

-----------------------------------------------------------------------------
(* What the lines ls of a text say of its i-th line.                         *)

Fence(ls, i) == ls[i].kind = "fence" /\ ~ls[i].quoted
FencesBefore(ls, i) == {j \in 1..(i - 1) : Fence(ls, j)}
InCode(ls, i) == Cardinality(FencesBefore(ls, i)) % 2 = 1
Ends(ls, i) == ~ls[i].quoted /\ ls[i].kind # "text"
InQuote(ls, i) ==
  \E j \in 1..i : ls[j].quoted /\ ~InCode(ls, j) /\ \A k \in j..i : ~Ends(ls, k)

\* The flags of the loop are what the lines read so far amount to: an odd
\* number of fences, and a quote that the last line belongs to; code is in no
\* quote, since the fence that opens it ends the quote before.
NormInv ==
  /\ lines \in Seq(Line) /\ output \in Seq(Line) /\ Len(output) = Len(lines)
  /\ inCodeFence = InCode(lines, Len(lines) + 1)
  /\ inQuote = InQuote(lines, Len(lines))
  /\ inCodeFence => ~inQuote
  /\ \A i \in DOMAIN lines :
       output[i] = IF ~InCode(lines, i) /\ InQuote(lines, i) THEN Quoted(lines[i])
                   ELSE lines[i]

LEMMA FencesFinite ==
  ASSUME NEW ls, NEW i \in Nat
  PROVE  IsFiniteSet(FencesBefore(ls, i)) /\ Cardinality(FencesBefore(ls, i)) \in Nat
<1>1. IsFiniteSet(1..(i - 1))
  BY FS_Interval
<1>2. FencesBefore(ls, i) \in SUBSET (1..(i - 1))
  BY DEF FencesBefore
<1>3. QED
  BY <1>1, <1>2, FS_Subset, FS_CardinalityType

\* A line that is added changes nothing for the lines before it.
LEMMA EarlierLines ==
  ASSUME NEW ls \in Seq(Line), NEW line \in Line, NEW i \in 1..Len(ls)
  PROVE  /\ Append(ls, line)[i] = ls[i]
         /\ InCode(Append(ls, line), i) = InCode(ls, i)
         /\ InQuote(Append(ls, line), i) = InQuote(ls, i)
<1> DEFINE ms == Append(ls, line)
<1>1. Len(ls) \in Nat /\ \A j \in 1..Len(ls) : ms[j] = ls[j]
  BY AppendProperties
<1> HIDE DEF ms
<1>2. ASSUME NEW j \in 1..i
      PROVE  InCode(ms, j) = InCode(ls, j)
  <2>1. \A k \in 1..(j - 1) : ms[k] = ls[k]
    BY <1>1
  <2>2. FencesBefore(ms, j) = FencesBefore(ls, j)
    BY <2>1 DEF FencesBefore, Fence
  <2>3. QED
    BY <2>2 DEF InCode
<1>3. \A j \in 1..i : ms[j] = ls[j] /\ \A k \in j..i : ms[k] = ls[k]
  BY <1>1
<1>4. InQuote(ms, i) = InQuote(ls, i)
  BY <1>2, <1>3 DEF InQuote, Ends
<1>5. QED
  BY <1>1, <1>2, <1>4 DEF ms

\* Whether the text is in code after one more line.
LEMMA CodeAfter ==
  ASSUME NEW ls \in Seq(Line), NEW line \in Line
  PROVE  LET ms == Append(ls, line)
             n == Len(ls) + 1
         IN /\ InCode(ms, n) = InCode(ls, n)
            /\ InCode(ms, n + 1) = (InCode(ls, n) # (line.kind = "fence" /\ ~line.quoted))
<1> DEFINE ms == Append(ls, line)
           n == Len(ls) + 1
<1>1. /\ Len(ls) \in Nat /\ n \in Nat /\ n - 1 = Len(ls) /\ ms[n] = line
      /\ \A j \in 1..(n - 1) : ms[j] = ls[j]
  BY AppendProperties
<1> HIDE DEF ms, n
<1>2. FencesBefore(ms, n) = FencesBefore(ls, n)
  BY <1>1 DEF FencesBefore, Fence
<1> DEFINE b == FencesBefore(ls, n)
           x == Cardinality(b)
           y == Cardinality(FencesBefore(ms, n + 1))
<1>3. IsFiniteSet(b) /\ x \in Nat /\ n \notin b
  <2>1. IsFiniteSet(b) /\ x \in Nat
    BY <1>1, FencesFinite
  <2>2. n \notin 1..(n - 1)
    BY <1>1
  <2>3. QED
    BY <2>1, <2>2 DEF FencesBefore
<1>4. 1..((n + 1) - 1) = (1..(n - 1)) \cup {n} /\ n \notin 1..(n - 1)
  BY <1>1 DEF n
<1>5. CASE line.kind = "fence" /\ ~line.quoted
  <2>1. FencesBefore(ms, n + 1) = b \cup {n}
    BY <1>1, <1>4, <1>5 DEF FencesBefore, Fence
  <2>2. y = x + 1
    BY <1>3, <2>1, FS_AddElement
  <2> HIDE DEF b, x, y
  <2>3. (y % 2 = 1) = (x % 2 # 1)
    BY <1>3, <2>2
  <2>4. QED
    BY <1>2, <1>5, <2>3 DEF InCode, b, x, y, ms, n
<1>6. CASE ~(line.kind = "fence" /\ ~line.quoted)
  <2>1. FencesBefore(ms, n + 1) = b
    BY <1>1, <1>4, <1>6 DEF FencesBefore, Fence
  <2>2. QED
    BY <1>2, <1>6, <2>1 DEF InCode, ms, n
<1>7. QED
  BY <1>5, <1>6

\* Whether the line that is added belongs to a quote.
LEMMA QuoteAfterLine ==
  ASSUME NEW ls \in Seq(Line), NEW line \in Line
  PROVE  LET ms == Append(ls, line)
             n == Len(ls) + 1
         IN InQuote(ms, n) = /\ ~Ends(ms, n)
                             /\ \/ line.quoted /\ ~InCode(ls, n)
                                \/ InQuote(ls, Len(ls))
<1> DEFINE ms == Append(ls, line)
           l == Len(ls)
           n == l + 1
<1>1. l \in Nat /\ ms[n] = line /\ \A j \in 1..l : ms[j] = ls[j]
  BY AppendProperties
<1>2. InCode(ms, n) = InCode(ls, n) /\ \A j \in 1..l : InCode(ms, j) = InCode(ls, j)
  BY CodeAfter, EarlierLines
<1> HIDE DEF ms, l
<1>3. /\ 1..n = (1..l) \cup {n} /\ n..n = {n}
      /\ \A j \in 1..l : j..n = (j..l) \cup {n} /\ j..l \subseteq 1..l
  BY <1>1
<1> HIDE DEF n
<1>4. \A j \in 1..l : (\A k \in j..l : ~Ends(ms, k)) = (\A k \in j..l : ~Ends(ls, k))
  BY <1>1, <1>3 DEF Ends
<1>5. InQuote(ms, n) = \/ ms[n].quoted /\ ~InCode(ms, n) /\ ~Ends(ms, n)
                       \/ \E j \in 1..l : /\ ms[j].quoted /\ ~InCode(ms, j)
                                          /\ \A k \in j..l : ~Ends(ms, k)
                                          /\ ~Ends(ms, n)
  BY <1>3 DEF InQuote
<1>6. InQuote(ls, l) = \E j \in 1..l : /\ ls[j].quoted /\ ~InCode(ls, j)
                                       /\ \A k \in j..l : ~Ends(ls, k)
  BY DEF InQuote
<1>7. InQuote(ms, n) = (~Ends(ms, n) /\ ((line.quoted /\ ~InCode(ls, n)) \/ InQuote(ls, l)))
  BY <1>1, <1>2, <1>4, <1>5, <1>6
<1>8. QED
  BY <1>7 DEF ms, l, n

\* One turn of the loop.
LEMMA NormStep ==
  ASSUME NormInv, NEW line \in Line, NormalizeLine(line)
  PROVE  NormInv'
<1> DEFINE ms == Append(lines, line)
           n == Len(lines) + 1
           out == IF ~InCode(ms, n) /\ InQuote(ms, n) THEN Quoted(line) ELSE line
<1>1. /\ lines \in Seq(Line) /\ output \in Seq(Line) /\ Len(output) = Len(lines)
      /\ lines' = ms
  BY DEF NormInv, NormalizeLine
<1>2. /\ Len(lines) \in Nat /\ ms \in Seq(Line) /\ Len(ms) = n /\ ms[n] = line
      /\ DOMAIN ms = 1..n
  BY <1>1, AppendProperties
<1>3. /\ InCode(ms, n) = inCodeFence
      /\ InCode(ms, n + 1) = (inCodeFence # (line.kind = "fence" /\ ~line.quoted))
  BY <1>1, CodeAfter DEF NormInv
<1>4. InQuote(ms, n) = (~Ends(ms, n) /\ ((line.quoted /\ ~inCodeFence) \/ inQuote))
  BY <1>1, QuoteAfterLine DEF NormInv
<1>5. Ends(ms, n) = (~line.quoted /\ line.kind # "text")
  BY <1>2 DEF Ends
<1>6. /\ line.quoted \in BOOLEAN
      /\ line.kind \in {"fence", "blank", "heading", "rule", "text"}
      /\ inCodeFence \in BOOLEAN /\ inQuote \in BOOLEAN
      /\ inCodeFence => ~inQuote
  BY DEF Line, NormInv, InCode, InQuote
<1> HIDE DEF ms, n
<1>7. /\ inCodeFence' = InCode(ms, n + 1) /\ inQuote' = InQuote(ms, n)
      /\ output' = Append(output, out)
  <2>1. CASE inCodeFence /\ (line.kind # "fence" \/ line.quoted)
    BY <1>3, <1>4, <1>6, <2>1 DEF NormalizeLine
  <2>2. CASE ~(inCodeFence /\ (line.kind # "fence" \/ line.quoted))
    <3>1. QuoteAfter(line) = InQuote(ms, n)
      BY <1>4, <1>5, <1>6, <2>2 DEF QuoteAfter
    <3>2. inCodeFence => ~InQuote(ms, n)
      BY <1>4, <1>5, <1>6, <2>2
    <3>3. QED
      BY <1>3, <1>6, <2>2, <3>1, <3>2 DEF NormalizeLine
  <2>3. QED
    BY <2>1, <2>2
<1>8. inCodeFence' => ~inQuote'
  BY <1>3, <1>4, <1>5, <1>6, <1>7
<1>9. out \in Line
  BY <1>3, <1>4, <1>5, <1>6 DEF Quoted, Line
<1>10. /\ output' \in Seq(Line) /\ Len(output') = n /\ output'[n] = out
       /\ \A i \in 1..Len(lines) : output'[i] = output[i]
  BY <1>1, <1>7, <1>9, AppendProperties DEF n
<1>11. ASSUME NEW i \in 1..n
       PROVE  output'[i] = IF ~InCode(ms, i) /\ InQuote(ms, i) THEN Quoted(ms[i]) ELSE ms[i]
  <2>1. CASE i = n
    BY <1>2, <1>10, <2>1
  <2>2. CASE i # n
    <3>1. i \in 1..Len(lines) /\ i \in DOMAIN lines
      BY <1>1, <1>2, <2>2 DEF n
    <3>2. /\ ms[i] = lines[i] /\ InCode(ms, i) = InCode(lines, i)
          /\ InQuote(ms, i) = InQuote(lines, i)
      BY <1>1, <3>1, EarlierLines DEF ms
    <3>3. QED
      BY <1>10, <3>1, <3>2 DEF NormInv
  <2>3. QED
    BY <2>1, <2>2
<1>12. QED
  BY <1>1, <1>2, <1>7, <1>8, <1>10, <1>11 DEF NormInv

LEMMA NormInitial == NormInit => NormInv
<1> SUFFICES ASSUME NormInit
             PROVE  NormInv
  OBVIOUS
<1>1. FencesBefore(<<>>, 1) = {} /\ InQuote(<<>>, 0) = FALSE
  BY DEF FencesBefore, InQuote
<1>2. InCode(<<>>, 1) = FALSE
  BY <1>1, FS_EmptySet DEF InCode
<1>3. /\ <<>> \in Seq(Line) /\ Len(<<>>) = 0 /\ Len(<<>>) + 1 = 1
      /\ DOMAIN <<>> = {}
  OBVIOUS
<1>4. QED
  BY <1>1, <1>2, <1>3 DEF NormInit, NormInv

\* A text line is shown as part of a quote exactly if a line with a ">"
\* precedes it outside code, with no blank line, heading, rule or fence
\* between; every other line, and all of a code block, is left as it is: so
\* much the two flags of normalizeMarkdown's loop amount to, however long the
\* text is.
THEOREM QuotesAreSpelledOut == NormSpec => []QuotesSpelledOut
<1>1. NormInv => QuotesSpelledOut
  BY DEF NormInv, QuotesSpelledOut, InCode, FencesBefore, Fence, InQuote, Ends
<1>2. NormInv /\ [NormNext]_normVars => NormInv'
  <2>1. NormInv /\ UNCHANGED normVars => NormInv'
    BY DEF NormInv, normVars
  <2>2. QED
    BY <2>1, NormStep DEF NormNext
<1>3. QED
  BY <1>1, <1>2, NormInitial, PTL DEF NormSpec

-----------------------------------------------------------------------------
(* Recursive functions.                                                      *)

\* Every set of numbers has a least one.
LEMMA Least ==
  ASSUME NEW S \in SUBSET Nat, S # {}
  PROVE  \E x \in S : \A y \in S : x <= y
<1>1. PICK x \in S : \A y \in S : ~(<<y, x>> \in OpToRel(<, Nat))
  BY NatLessThanWellFounded, WFMin
<1>2. \A y \in S : ~(y < x)
  BY <1>1 DEF OpToRel
<1>3. QED
  BY <1>2

\* A function on 0..N may be defined by a value at 0 and by one at i that is
\* computed from the value at an earlier place.
Recursion(N, base, prev, step, f) ==
  f = [i \in 0..N |-> IF i = 0 THEN base ELSE step[<<i, f[prev[i]]>>]]

LEMMA RecursiveFunction ==
  ASSUME NEW N \in Nat, NEW S, NEW base \in S, NEW prev \in [1..N -> Nat],
         \A i \in 1..N : prev[i] < i,
         NEW step \in [(1..N) \X S -> S]
  PROVE  \E f \in [0..N -> S] : Recursion(N, base, prev, step, f)
<1> DEFINE Until(n, f) == \A i \in 0..n : f[i] = IF i = 0 THEN base ELSE step[<<i, f[prev[i]]>>]
           Has(n) == \E f \in [0..n -> S] : Until(n, f)
           Bad == {n \in 0..N : ~Has(n)}
<1>1. Has(0)
  <2> DEFINE f == [i \in 0..0 |-> base]
  <2>1. f \in [0..0 -> S] /\ Until(0, f)
    OBVIOUS
  <2>2. QED
    BY <2>1
<1>2. ASSUME NEW n \in 1..N, Has(n - 1)
      PROVE  Has(n)
  <2>1. n - 1 \in 0..N
    OBVIOUS
  <2>2. PICK g \in [0..(n - 1) -> S] : Until(n - 1, g)
    BY <1>2
  <2>3. prev[n] \in 0..(n - 1)
    OBVIOUS
  <2> DEFINE v == step[<<n, g[prev[n]]>>]
  <2>4. v \in S
    BY <2>1, <2>2, <2>3
  <2> HIDE DEF v
  <2> DEFINE f == [i \in 0..n |-> IF i = n THEN v ELSE g[i]]
  <2>5. f \in [0..n -> S]
    BY <2>1, <2>4
  <2>f. /\ f[n] = v
        /\ \A i \in 0..(n - 1) : f[i] = g[i]
    BY <2>1
  <2> HIDE DEF f
  <2>6. ASSUME NEW i \in 0..n
        PROVE  f[i] = IF i = 0 THEN base ELSE step[<<i, f[prev[i]]>>]
    <3>1. CASE i = n
      <4>1. f[prev[n]] = g[prev[n]]
        BY <2>3, <2>f
      <4>2. f[n] = step[<<n, f[prev[n]]>>]
        BY <4>1, <2>f DEF v
      <4>3. n # 0
        OBVIOUS
      <4>4. QED
        BY <4>2, <4>3, <3>1
    <3>2. CASE i = 0
      <4>1. 0 \in 0..(n - 1)
        OBVIOUS
      <4>2. f[0] = g[0] /\ g[0] = base
        BY <4>1, <2>f, <2>2
      <4>3. QED
        BY <4>2, <3>2
    <3>3. CASE i \in 1..(n - 1)
      <4>1. prev[i] \in 0..(n - 1)
        BY <3>3, <2>1
      <4>2. f[prev[i]] = g[prev[i]] /\ f[i] = g[i]
        BY <4>1, <3>3, <2>f
      <4>3. g[i] = step[<<i, g[prev[i]]>>]
        BY <2>2, <3>3
      <4>4. QED
        BY <4>2, <4>3, <3>3
    <3>4. QED
      BY <3>1, <3>2, <3>3, <2>1
  <2>7. Until(n, f)
    BY <2>5, <2>6
  <2>8. QED
    BY <2>5, <2>7
<1> HIDE DEF Has
<1>3. Bad = {}
  <2>1. SUFFICES ASSUME Bad # {} PROVE FALSE
    OBVIOUS
  <2>2. Bad \in SUBSET Nat
    OBVIOUS
  <2>3. PICK n \in Bad : \A m \in Bad : n <= m
    BY <2>1, <2>2, Least
  <2>4. n \in 0..N /\ ~Has(n)
    OBVIOUS
  <2>5. n \in 1..N
    BY <2>4, <1>1
  <2>6. n - 1 \in 0..N /\ ~(n <= n - 1)
    BY <2>5
  <2>7. Has(n - 1)
    BY <2>3, <2>6
  <2>8. QED
    BY <1>2, <2>4, <2>5, <2>7
<1>4. Has(N)
  BY <1>3
<1>5. QED
  BY <1>4 DEF Has, Recursion

-----------------------------------------------------------------------------
(* Runs of a sequence: what lies between two cuts of it.                     *)

LEMMA ShortRun ==
  ASSUME NEW Item, NEW items \in Seq(Item), NEW from \in Nat, NEW to \in 1..Len(items),
         from < to
  PROVE  /\ SubSeq(items, from + 1, to) \in Seq(Item) /\ SubSeq(items, from + 1, to) # <<>>
         /\ Len(SubSeq(items, from + 1, to)) = to - from
         /\ \A j \in 1..(to - from) : SubSeq(items, from + 1, to)[j] = items[from + j]
         /\ to = from + 1 => SubSeq(items, from + 1, to) = <<items[to]>>
<1> DEFINE s == SubSeq(items, from + 1, to)
<1>1. /\ s \in Seq(Item) /\ Len(s) = to - from /\ to - from > 0
      /\ \A j \in 1..(to - from) : s[j] = items[from + j]
  OBVIOUS
<1>2. items[to] \in Item
  OBVIOUS
<1> HIDE DEF s
<1>3. s # <<>>
  BY <1>1
<1>4. ASSUME to = from + 1
      PROVE  s = <<items[to]>>
  <2>1. Len(s) = 1 /\ s[1] = items[to]
    BY <1>1, <1>4
  <2>2. QED
    BY <2>1, <1>1, <1>2
<1>5. QED
  BY <1>1, <1>3, <1>4 DEF s

LEMMA LongerRun ==
  ASSUME NEW Item, NEW items \in Seq(Item), NEW from \in Nat, NEW to \in 1..Len(items),
         from < to - 1
  PROVE  SubSeq(items, from + 1, to) = Append(SubSeq(items, from + 1, to - 1), items[to])
<1> DEFINE s == SubSeq(items, from + 1, to)
           r == SubSeq(items, from + 1, to - 1)
<1>1. /\ s \in Seq(Item) /\ Len(s) = to - from
      /\ \A j \in 1..(to - from) : s[j] = items[from + j]
  <2>1. from < to
    OBVIOUS
  <2>2. QED
    BY <2>1, ShortRun
<1>2. /\ r \in Seq(Item) /\ Len(r) = to - 1 - from
      /\ \A j \in 1..(to - 1 - from) : r[j] = items[from + j]
  <2>1. to - 1 \in 1..Len(items)
    OBVIOUS
  <2>2. QED
    BY <2>1, ShortRun
<1>3. items[to] \in Item
  OBVIOUS
<1> HIDE DEF s, r
<1> DEFINE a == Append(r, items[to])
<1>4. /\ a \in Seq(Item) /\ Len(a) = to - from /\ a[to - from] = items[to]
      /\ \A j \in 1..(to - 1 - from) : a[j] = r[j]
  BY <1>2, <1>3, AppendProperties
<1> HIDE DEF a
<1>5. \A j \in 1..(to - from) : s[j] = a[j]
  <2>1. \A j \in 1..(to - from) : j = to - from \/ j \in 1..(to - 1 - from)
    OBVIOUS
  <2>2. from + (to - from) = to
    OBVIOUS
  <2>3. QED
    BY <2>1, <2>2, <1>1, <1>2, <1>4
<1>6. s = a
  BY <1>1, <1>4, <1>5
<1>7. QED
  BY <1>6 DEF s, r, a

-----------------------------------------------------------------------------
(* Texts: text-splitter.ts.                                                  *)

\* A set of numbers up to n has a largest one.
LEMMA Largest ==
  ASSUME NEW n \in Nat, NEW S \in SUBSET (0..n), S # {}
  PROVE  Max(S) \in S /\ \A x \in S : x <= Max(S)
<1> DEFINE T == {n - x : x \in S}
<1>1. T \in SUBSET Nat /\ T # {}
  <2>1. \A x \in S : n - x \in Nat
    OBVIOUS
  <2>2. QED
    BY <2>1
<1>2. PICK t \in T : \A y \in T : t <= y
  BY <1>1, Least
<1>3. PICK x \in S : t = n - x
  OBVIOUS
<1>4. \A y \in S : y <= x
  <2>1. ASSUME NEW y \in S PROVE y <= x
    <3>1. n - y \in T
      OBVIOUS
    <3>2. n - x <= n - y
      BY <1>2, <1>3, <3>1
    <3>3. QED
      BY <3>2
  <2>2. QED
    BY <2>1
<1>5. \A y \in S : x >= y
  BY <1>4
<1>6. Max(S) \in S /\ \A y \in S : Max(S) >= y
  BY <1>5 DEF Max
<1>7. QED
  BY <1>6

\* A cut of a text behind its i-th unit leaves a pair whole.
SafeCut(text, i) == ~(i < Len(text) /\ text[i] = "H" /\ text[i + 1] = "L")

\* A piece goes from a cut to one at most limit units on; a pair of units stays
\* whole, and no line break within reach is left unused.
LEMMA BoundaryIsSafe ==
  ASSUME NEW Letter, NEW text \in Seq(Letter), NEW limit \in Nat \ {0, 1},
         NEW start \in 0..(Len(text) - 1)
  PROVE  LET end == SplitBoundary(text, start, limit)
         IN /\ end \in (start + 1)..Len(text) /\ end <= start + limit
            /\ SafeCut(text, end)
            /\ \/ end = Len(text)
               \/ text[end] = "\n"
               \/ \A i \in (start + 1)..(start + limit) : text[i] # "\n"
<1> DEFINE hardEnd == start + limit
           safe == {i \in (start + 1)..hardEnd : ~(text[i] = "H" /\ text[i + 1] = "L")}
           newlines == {i \in safe : text[i] = "\n"}
           blanks == {i \in safe : text[i] \in {" ", "\n"}}
           end == SplitBoundary(text, start, limit)
<1>1. Len(text) \in Nat /\ hardEnd \in Nat
  OBVIOUS
<1>2. CASE hardEnd >= Len(text)
  <2>1. end = Len(text)
    BY <1>2 DEF SplitBoundary
  <2>2. QED
    BY <2>1, <1>1, <1>2 DEF SafeCut
<1>3. CASE ~(hardEnd >= Len(text))
  <2>h. hardEnd < Len(text) /\ start \in Nat
    <3> HIDE DEF safe, end
    <3>1. start \in Nat
      BY <1>1
    <3>2. hardEnd < Len(text)
      BY <1>1, <1>3
    <3>3. QED
      BY <3>1, <3>2
  <2>1. safe # {}
    <3>1. hardEnd \in (start + 1)..hardEnd /\ hardEnd - 1 \in (start + 1)..hardEnd
      BY <1>1
    <3>2. hardEnd - 1 + 1 = hardEnd
      BY <1>1
    <3>3. hardEnd \in safe \/ hardEnd - 1 \in safe
      BY <3>1, <3>2
    <3>4. QED
      BY <3>3
  <2>2. safe \in SUBSET (0..hardEnd) /\ newlines \subseteq safe /\ blanks \subseteq safe
    <3>1. (start + 1)..hardEnd \subseteq 0..hardEnd
      BY <1>1
    <3>2. QED
      BY <3>1
  <2>3. PICK cuts \in {newlines, blanks, safe} :
          cuts # {} /\ end = Max(cuts) /\ (cuts = newlines \/ newlines = {})
    BY <1>3, <2>1 DEF SplitBoundary
  <2>4. end \in cuts
    <3>1. cuts \in SUBSET (0..hardEnd) /\ cuts # {}
      BY <2>2, <2>3
    <3>2. Max(cuts) \in cuts
      BY <3>1, <1>1, Largest
    <3>3. QED
      BY <3>2, <2>3
  <2>5. end \in safe
    BY <2>2, <2>3, <2>4
  <2>6. end \in (start + 1)..hardEnd /\ ~(text[end] = "H" /\ text[end + 1] = "L")
    BY <2>5
  <2>7. text[end] = "\n" \/ \A i \in (start + 1)..hardEnd : text[i] # "\n"
    BY <2>3, <2>4
  <2>8. end \in (start + 1)..Len(text) /\ end <= start + limit
    <3> HIDE DEF end, safe, newlines, blanks, hardEnd
    <3>1. hardEnd <= Len(text) /\ start \in Nat
      BY <1>1, <2>h
    <3>2. end \in Nat /\ start + 1 <= end /\ end <= hardEnd
      BY <2>6, <1>1, <3>1
    <3>3. QED
      BY <1>1, <3>1, <3>2 DEF hardEnd
  <2>9. QED
    BY <2>6, <2>7, <2>8 DEF SafeCut
<1>4. QED
  BY <1>1, <1>2, <1>3

\* The pieces of the last n units of a text.
Pieces(text, limit) ==
  CHOOSE f : f = [n \in 0..Len(text) |->
    IF n = 0 THEN <<>>
    ELSE LET start == Len(text) - n
             end == SplitBoundary(text, start, limit)
         IN <<SubSeq(text, start + 1, end)>> \o f[Len(text) - end]]

LEMMA SplitTextPieces ==
  ASSUME NEW text, NEW limit
  PROVE  SplitText(text, limit) = Pieces(text, limit)[Len(text)]
BY DEF SplitText, Pieces

IsCut(text, limit, from, to, piece) ==
  /\ from < to /\ to <= from + limit
  /\ piece = SubSeq(text, from + 1, to)
  /\ SafeCut(text, to)
  /\ \/ to = Len(text)
     \/ text[to] = "\n"
     \/ \A i \in (from + 1)..(from + limit) : text[i] # "\n"

\* pieces are what lies between the cuts of a text, from the first unit to the
\* last, each of at most limit units, with no pair cut in two, and no cut
\* elsewhere where there was a line break to cut at.
Cuts(text, limit, from, pieces) ==
  \E cut \in [0..Len(pieces) -> from..Len(text)] :
    /\ cut[0] = from /\ cut[Len(pieces)] = Len(text)
    /\ \A i \in 1..Len(pieces) : IsCut(text, limit, cut[i - 1], cut[i], pieces[i])

LEMMA PiecesUnfold ==
  ASSUME NEW Letter, NEW text \in Seq(Letter), NEW limit \in Nat \ {0, 1}
  PROVE  /\ Pieces(text, limit)[0] = <<>>
         /\ \A n \in 1..Len(text) :
              LET start == Len(text) - n
                  end == SplitBoundary(text, start, limit)
              IN Pieces(text, limit)[n] =
                   <<SubSeq(text, start + 1, end)>> \o Pieces(text, limit)[Len(text) - end]
<1> DEFINE N == Len(text)
           S == Seq(Seq(Letter))
           end(n) == SplitBoundary(text, N - n, limit)
           prev == [n \in 1..N |-> N - end(n)]
           piece(n) == SubSeq(text, N - n + 1, end(n))
           step == [p \in (1..N) \X S |-> <<piece(p[1])>> \o p[2]]
           Unfolds(f) == f = [n \in 0..N |-> IF n = 0 THEN <<>>
                                             ELSE <<piece(n)>> \o f[N - end(n)]]
<1>1. N \in Nat /\ <<>> \in S
  OBVIOUS
<1>2. ASSUME NEW n \in 1..N
      PROVE  end(n) \in Nat /\ N - n < end(n) /\ end(n) <= N /\ piece(n) \in Seq(Letter)
  <2>1. N - n \in 0..(N - 1)
    BY <1>1
  <2>2. end(n) \in (N - n + 1)..N
    BY <2>1, BoundaryIsSafe
  <2> HIDE DEF end
  <2>3. SubSeq(text, N - n + 1, end(n)) \in Seq(Letter)
    BY <2>1, <2>2, <1>1
  <2>4. QED
    BY <2>2, <2>3, <1>1
<1> HIDE DEF end, piece
<1>3. prev \in [1..N -> Nat] /\ \A n \in 1..N : prev[n] < n
  BY <1>1, <1>2
<1>4. step \in [(1..N) \X S -> S]
  <2>1. \A p \in (1..N) \X S : <<piece(p[1])>> \o p[2] \in S
    BY <1>2
  <2>2. QED
    BY <2>1
<1> HIDE DEF N, S
<1>5. PICK f \in [0..N -> S] : Recursion(N, <<>>, prev, step, f)
  <2> HIDE DEF prev, step
  <2>1. QED
    BY <1>1, <1>3, <1>4, RecursiveFunction
<1>6. Unfolds(f)
  <2>1. ASSUME NEW n \in 1..N
        PROVE  step[<<n, f[prev[n]]>>] = <<piece(n)>> \o f[N - end(n)]
    <3>1. prev[n] = N - end(n) /\ prev[n] \in 0..N
      BY <1>1, <1>2
    <3>2. <<n, f[prev[n]]>> \in (1..N) \X S
      BY <3>1
    <3>3. QED
      BY <3>1, <3>2
  <2>2. f = [n \in 0..N |-> IF n = 0 THEN <<>> ELSE step[<<n, f[prev[n]]>>]]
    BY <1>5 DEF Recursion
  <2> HIDE DEF step, prev
  <2>3. \A n \in 0..N : f[n] = IF n = 0 THEN <<>> ELSE <<piece(n)>> \o f[N - end(n)]
    <3>1. ASSUME NEW n \in 0..N
          PROVE  f[n] = IF n = 0 THEN <<>> ELSE step[<<n, f[prev[n]]>>]
      BY <2>2
    <3>2. \A n \in 0..N : n = 0 \/ n \in 1..N
      BY <1>1
    <3>3. QED
      BY <2>1, <3>1, <3>2
  <2>4. QED
    BY <2>3
<1>7. Unfolds(CHOOSE g : Unfolds(g))
  <2> HIDE DEF Unfolds
  <2>1. QED
    BY <1>6
<1>8. Pieces(text, limit) = CHOOSE g : Unfolds(g)
  BY DEF Pieces, N, end, piece
<1>9. Unfolds(Pieces(text, limit))
  BY <1>7, <1>8
<1> HIDE DEF Unfolds
<1>10. \A n \in 1..N : n \in 0..N /\ n # 0
  BY <1>1
<1>11. \A n \in 0..N : Pieces(text, limit)[n] =
          IF n = 0 THEN <<>> ELSE <<piece(n)>> \o Pieces(text, limit)[N - end(n)]
  BY <1>9 DEF Unfolds
<1>12. QED
  BY <1>1, <1>10, <1>11 DEF N, end, piece

LEMMA PiecesAreCuts ==
  ASSUME NEW Letter, NEW text \in Seq(Letter), NEW limit \in Nat \ {0, 1}
  PROVE  \A n \in 0..Len(text) :
           /\ Pieces(text, limit)[n] \in Seq(Seq(Letter))
           /\ Cuts(text, limit, Len(text) - n, Pieces(text, limit)[n])
<1> DEFINE N == Len(text)
           all == Pieces(text, limit)
           OK(n) == all[n] \in Seq(Seq(Letter)) /\ Cuts(text, limit, N - n, all[n])
           Bad == {n \in 0..N : ~OK(n)}
<1>1. N \in Nat
  OBVIOUS
<1>2. OK(0)
  <2>1. all[0] = <<>>
    BY PiecesUnfold, <1>1
  <2> HIDE DEF all
  <2> DEFINE cut == [i \in 0..0 |-> N]
  <2>2. cut \in [0..Len(<<>>) -> (N - 0)..N] /\ cut[0] = N - 0 /\ cut[Len(<<>>)] = N
    BY <1>1
  <2>3. 1..Len(<<>>) = {}
    OBVIOUS
  <2>4. Cuts(text, limit, N - 0, <<>>)
    BY <2>2, <2>3 DEF Cuts
  <2>5. QED
    BY <2>1, <2>4
<1>3. ASSUME NEW n \in 1..N, \A m \in 0..(n - 1) : OK(m)
      PROVE  OK(n)
  <2> DEFINE start == N - n
             end == SplitBoundary(text, start, limit)
             piece == SubSeq(text, start + 1, end)
             rest == all[N - end]
  <2>1. all[n] = <<piece>> \o rest
    BY PiecesUnfold, <1>1
  <2>2. start \in 0..(N - 1)
    BY <1>1
  <2>3. /\ end \in (start + 1)..N /\ end <= start + limit /\ SafeCut(text, end)
        /\ \/ end = N
           \/ text[end] = "\n"
           \/ \A i \in (start + 1)..(start + limit) : text[i] # "\n"
    BY <2>2, BoundaryIsSafe
  <2> HIDE DEF all, end
  <2>4. N - end \in 0..(n - 1) /\ N - (N - end) = end /\ end \in 0..N /\ start < end
    BY <2>2, <2>3, <1>1
  <2>5. rest \in Seq(Seq(Letter)) /\ Cuts(text, limit, end, rest)
    BY <1>3, <2>4
  <2>6. piece \in Seq(Letter)
    BY <2>2, <2>3, <2>4, <1>1
  <2> HIDE DEF N, rest, start, piece
  <2> DEFINE k == Len(rest)
             whole == <<piece>> \o rest
  <2>7. /\ k \in Nat /\ whole \in Seq(Seq(Letter)) /\ Len(whole) = k + 1 /\ whole[1] = piece
        /\ \A i \in 2..(k + 1) : whole[i] = rest[i - 1]
    BY <2>5, <2>6
  <2> HIDE DEF k, whole
  <2>8. PICK c \in [0..k -> end..N] :
          /\ c[0] = end /\ c[k] = N
          /\ \A i \in 1..k : IsCut(text, limit, c[i - 1], c[i], rest[i])
    BY <2>5 DEF Cuts, N, k
  <2> DEFINE cut == [i \in 0..(k + 1) |-> IF i = 0 THEN start ELSE c[i - 1]]
  <2>9. start \in start..N /\ \A i \in 1..(k + 1) : i - 1 \in 0..k /\ c[i - 1] \in start..N
    <3>1. end..N \subseteq start..N /\ start \in start..N
      BY <2>2, <2>4, <1>1
    <3>2. \A i \in 1..(k + 1) : i - 1 \in 0..k
      BY <2>7
    <3>3. QED
      BY <3>1, <3>2
  <2>10. cut \in [0..(k + 1) -> start..N]
    BY <2>9, <2>7
  <2>11. /\ cut[0] = start
         /\ \A i \in 1..(k + 1) : cut[i] = c[i - 1]
    BY <2>7
  <2> HIDE DEF cut
  <2>12. cut[k + 1] = N /\ cut[1] = end
    BY <2>11, <2>8, <2>7
  <2>13. ASSUME NEW i \in 1..(k + 1)
         PROVE  IsCut(text, limit, cut[i - 1], cut[i], whole[i])
    <3>1. CASE i = 1
      <4>1. IsCut(text, limit, start, end, piece)
        BY <2>3, <2>4 DEF IsCut, piece, N
      <4>2. i - 1 = 0
        BY <3>1
      <4>3. QED
        BY <4>1, <4>2, <3>1, <2>7, <2>11, <2>12
    <3>2. CASE i # 1
      <4>1. i \in 2..(k + 1) /\ i - 1 \in 1..k /\ i - 1 \in 1..(k + 1)
        <5>1. k \in Nat
          BY <2>7
        <5>2. QED
          BY <5>1, <3>2
      <4>2. cut[i] = c[i - 1] /\ cut[i - 1] = c[(i - 1) - 1]
        BY <4>1, <2>11
      <4>3. whole[i] = rest[i - 1]
        BY <4>1, <2>7
      <4>4. QED
        BY <4>1, <4>2, <4>3, <2>8
    <3>3. QED
      BY <3>1, <3>2
  <2>14. Cuts(text, limit, start, whole)
    BY <2>10, <2>11, <2>12, <2>13, <2>7 DEF Cuts, N
  <2>15. QED
    BY <2>14, <2>7, <2>1 DEF whole, start
<1> HIDE DEF OK
<1>4. Bad = {}
  <2>1. SUFFICES ASSUME Bad # {} PROVE FALSE
    OBVIOUS
  <2>2. Bad \in SUBSET Nat
    BY <1>1
  <2>3. PICK n \in Bad : \A m \in Bad : n <= m
    BY <2>1, <2>2, Least
  <2>4. n \in 1..N /\ ~OK(n)
    BY <1>1, <1>2
  <2>5. \A m \in 0..(n - 1) : m \in 0..N /\ ~(n <= m)
    BY <2>4, <1>1
  <2>6. \A m \in 0..(n - 1) : OK(m)
    BY <2>3, <2>5
  <2>7. QED
    BY <1>3, <2>4, <2>6
<1>5. QED
  BY <1>4 DEF OK

\* splitTextIntoChunks never fails with a limit of 2 or more: its chunks are the
\* text, cut where it may be cut, for texts of any length.
THEOREM TextsAreCutSafely ==
  ASSUME NEW Letter, NEW text \in Seq(Letter), NEW limit \in Nat \ {0, 1}
  PROVE  /\ SplitText(text, limit) \in Seq(Seq(Letter))
         /\ Cuts(text, limit, 0, SplitText(text, limit))
<1>1. Len(text) \in 0..Len(text) /\ Len(text) - Len(text) = 0
  OBVIOUS
<1>2. QED
  BY <1>1, PiecesAreCuts, SplitTextPieces

\* What lies between two safe cuts of a whole text is whole.
LEMMA WholeRun ==
  ASSUME NEW Letter, NEW text \in Seq(Letter), Whole(text),
         NEW from \in Nat, NEW to \in 1..Len(text), from < to,
         from = 0 \/ SafeCut(text, from), SafeCut(text, to)
  PROVE  Whole(SubSeq(text, from + 1, to))
<1> DEFINE N == Len(text)
           piece == SubSeq(text, from + 1, to)
<1>2. N \in Nat /\ DOMAIN text = 1..N
  OBVIOUS
<1>5. from \in 0..N /\ to \in 0..N
  BY <1>2
<1>6. from < to /\ SafeCut(text, to)
  OBVIOUS
<1>7. from = 0 \/ SafeCut(text, from)
  OBVIOUS
<1>8. /\ Len(piece) = to - from /\ DOMAIN piece = 1..(to - from)
      /\ \A i \in 1..(to - from) : piece[i] = text[from + i]
  <2>1. piece \in Seq(Letter)
    BY ShortRun
  <2>2. Len(piece) = to - from /\ \A i \in 1..(to - from) : piece[i] = text[from + i]
    BY ShortRun
  <2>3. QED
    BY <2>1, <2>2
<1> HIDE DEF piece, N
<1>9. ASSUME NEW i \in 1..(to - from)
      PROVE  /\ piece[i] = "H" => i < to - from /\ piece[i + 1] = "L"
             /\ piece[i] = "L" => i > 1 /\ piece[i - 1] = "H"
  <2> DEFINE j == from + i
  <2>1. j \in 1..N /\ piece[i] = text[j] /\ j \in Nat /\ i \in Nat
    BY <1>2, <1>5, <1>8
  <2>2. /\ text[j] = "H" => j < N /\ text[j + 1] = "L"
        /\ text[j] = "L" => j > 1 /\ text[j - 1] = "H"
    BY <1>2, <2>1 DEF Whole, N
  <2>3. ASSUME piece[i] = "H"
        PROVE  i < to - from /\ piece[i + 1] = "L"
    <3>1. j < N /\ text[j + 1] = "L" /\ text[j] = "H"
      BY <2>1, <2>2, <2>3
    <3>2. j # to
      BY <3>1, <1>6 DEF SafeCut, N
    <3>3. i < to - from
      BY <3>2, <1>5, <2>1
    <3>4. i + 1 \in 1..(to - from) /\ from + (i + 1) = j + 1
      BY <3>3, <1>5, <2>1
    <3>5. piece[i + 1] = text[j + 1]
      BY <3>4, <1>8
    <3>6. QED
      BY <3>1, <3>3, <3>5
  <2>4. ASSUME piece[i] = "L"
        PROVE  i > 1 /\ piece[i - 1] = "H"
    <3>1. j > 1 /\ text[j - 1] = "H" /\ text[j] = "L"
      BY <2>1, <2>2, <2>4
    <3>2. i # 1
      <4>1. SUFFICES ASSUME i = 1 PROVE FALSE
        OBVIOUS
      <4>2. from = j - 1 /\ from # 0 /\ from < N /\ from + 1 = j
        BY <4>1, <3>1, <1>5, <2>1, <1>2
      <4>3. QED
        BY <4>2, <3>1, <1>7 DEF SafeCut, N
    <3>3. i > 1 /\ i - 1 \in 1..(to - from) /\ from + (i - 1) = j - 1
      BY <3>2, <1>5, <2>1
    <3>4. piece[i - 1] = text[j - 1]
      BY <3>3, <1>8
    <3>5. QED
      BY <3>1, <3>3, <3>4
  <2>5. QED
    BY <2>3, <2>4
<1>10. Whole(piece)
  BY <1>8, <1>9 DEF Whole
<1>11. QED
  BY <1>10 DEF piece

\* No chunk of a text begins or ends with half of a surrogate pair, if the text
\* has none.
THEOREM PiecesStayWhole ==
  ASSUME NEW Letter, NEW text \in Seq(Letter), NEW limit \in Nat \ {0, 1}, Whole(text),
         NEW p \in 1..Len(SplitText(text, limit))
  PROVE  Whole(SplitText(text, limit)[p])
<1> DEFINE N == Len(text)
           all == SplitText(text, limit)
           k == Len(all)
           piece == all[p]
<1>1. all \in Seq(Seq(Letter)) /\ Cuts(text, limit, 0, all)
  BY TextsAreCutSafely
<1>2. N \in Nat /\ k \in Nat /\ DOMAIN text = 1..N
  BY <1>1
<1>3. PICK cut \in [0..k -> 0..N] :
        /\ cut[0] = 0
        /\ \A i \in 1..k : IsCut(text, limit, cut[i - 1], cut[i], all[i])
  BY <1>1 DEF Cuts
<1> HIDE DEF all, k
<1>4. p \in 1..k /\ p - 1 \in 0..k /\ p \in 0..k
  BY <1>2 DEF k, all
<1> DEFINE from == cut[p - 1]
           to == cut[p]
<1>5. from \in 0..N /\ to \in 0..N
  BY <1>3, <1>4
<1>6. from < to /\ piece = SubSeq(text, from + 1, to) /\ SafeCut(text, to)
  BY <1>3, <1>4 DEF IsCut
<1>7. from = 0 \/ SafeCut(text, from)
  <2>1. CASE p - 1 = 0
    BY <1>3, <2>1
  <2>2. CASE p - 1 # 0
    <3>1. p - 1 \in 1..k
      BY <1>4, <1>2, <2>2
    <3>2. QED
      BY <1>3, <3>1 DEF IsCut
  <2>3. QED
    BY <2>1, <2>2
<1>8. from \in Nat /\ to \in 1..Len(text)
  BY <1>2, <1>5, <1>6
<1> HIDE DEF from, to
<1>9. Whole(SubSeq(text, from + 1, to))
  BY <1>6, <1>7, <1>8, WholeRun
<1>10. QED
  BY <1>6, <1>9 DEF piece, all

-----------------------------------------------------------------------------
(* Groups: chunker.ts and groupItems of block-splitter.ts.                   *)

Acc(Item) ==
  [groups : Seq(Seq(Item)), current : Seq(Item), chars : Nat, units : Nat]

Limits == [maxChars : Nat, maxBlocks : Nat]

\* What the loop has after its i-th turn.
Turns(items, chars, units, lim) ==
  CHOOSE f : f = [i \in 0..Len(items) |->
    IF i = 0 THEN NoGroups
    ELSE AddItem(f[i - 1], items[i], chars[i], units[i], lim)]

LEMMA GroupsOfTurns ==
  ASSUME NEW items, NEW chars, NEW units, NEW lim
  PROVE  GroupsOf(items, chars, units, lim)
           = AllGroups(Turns(items, chars, units, lim)[Len(items)])
BY DEF GroupsOf, Turns

LEMMA AddItemType ==
  ASSUME NEW Item, NEW acc \in Acc(Item), NEW item \in Item, NEW c \in Nat, NEW u \in Nat,
         NEW lim \in Limits
  PROVE  AddItem(acc, item, c, u, lim) \in Acc(Item)
<1>1. /\ Append(acc.groups, acc.current) \in Seq(Seq(Item))
      /\ <<item>> \in Seq(Item) /\ Append(acc.current, item) \in Seq(Item)
      /\ acc.chars + c \in Nat /\ acc.units + u \in Nat
  BY DEF Acc
<1>2. QED
  BY <1>1 DEF Acc, AddItem

\* The turns of the loop follow one another.
TurnsFollow(Item, items, chars, units, lim, turn) ==
  /\ turn \in [0..Len(items) -> Acc(Item)]
  /\ turn[0] = NoGroups
  /\ \A i \in 1..Len(items) :
       turn[i] = AddItem(turn[i - 1], items[i], chars[i], units[i], lim)

LEMMA TurnsUnfold ==
  ASSUME NEW Item, NEW items \in Seq(Item), NEW chars \in [1..Len(items) -> Nat],
         NEW units \in [1..Len(items) -> Nat], NEW lim \in Limits
  PROVE  TurnsFollow(Item, items, chars, units, lim, Turns(items, chars, units, lim))
<1> DEFINE N == Len(items)
           S == Acc(Item)
           prev == [i \in 1..N |-> i - 1]
           step == [p \in (1..N) \X S |->
                      AddItem(p[2], items[p[1]], chars[p[1]], units[p[1]], lim)]
           Unfolds(f) == f = [i \in 0..N |-> IF i = 0 THEN NoGroups
                                ELSE AddItem(f[i - 1], items[i], chars[i], units[i], lim)]
<1>1. N \in Nat /\ NoGroups \in S
  BY DEF NoGroups, Acc
<1>2. prev \in [1..N -> Nat] /\ \A i \in 1..N : prev[i] < i
  BY <1>1
<1>3. step \in [(1..N) \X S -> S]
  <2>1. \A i \in 1..N : items[i] \in Item /\ chars[i] \in Nat /\ units[i] \in Nat
    BY <1>1
  <2>2. \A p \in (1..N) \X S :
          AddItem(p[2], items[p[1]], chars[p[1]], units[p[1]], lim) \in S
    BY <2>1, AddItemType
  <2>3. QED
    BY <2>2
<1>4. PICK f \in [0..N -> S] : Recursion(N, NoGroups, prev, step, f)
  <2> HIDE DEF prev, step, S, N
  <2>1. QED
    BY <1>1, <1>2, <1>3, RecursiveFunction
<1>5. Unfolds(f)
  <2>1. ASSUME NEW i \in 1..N
        PROVE  step[<<i, f[prev[i]]>>] = AddItem(f[i - 1], items[i], chars[i], units[i], lim)
    <3>1. prev[i] = i - 1 /\ prev[i] \in 0..N
      BY <1>1
    <3>2. <<i, f[prev[i]]>> \in (1..N) \X S
      BY <3>1
    <3>3. QED
      BY <3>1, <3>2
  <2>2. f = [i \in 0..N |-> IF i = 0 THEN NoGroups ELSE step[<<i, f[prev[i]]>>]]
    BY <1>4 DEF Recursion
  <2> HIDE DEF step, prev, N
  <2>3. \A i \in 0..N : f[i] = IF i = 0 THEN NoGroups
                        ELSE AddItem(f[i - 1], items[i], chars[i], units[i], lim)
    <3>1. ASSUME NEW i \in 0..N
          PROVE  f[i] = IF i = 0 THEN NoGroups ELSE step[<<i, f[prev[i]]>>]
      BY <2>2
    <3>2. \A i \in 0..N : i = 0 \/ i \in 1..N
      BY <1>1
    <3>3. QED
      BY <2>1, <3>1, <3>2
  <2>4. QED
    BY <2>3
<1> DEFINE turn == Turns(items, chars, units, lim)
<1>6. Unfolds(CHOOSE g : Unfolds(g))
  <2> HIDE DEF Unfolds
  <2>1. QED
    BY <1>5
<1>7. turn = CHOOSE g : Unfolds(g)
  BY DEF Turns
<1>8. Unfolds(turn)
  BY <1>6, <1>7
<1> HIDE DEF turn
<1>9. \A i \in 0..N : turn[i] = IF i = 0 THEN NoGroups
                     ELSE AddItem(turn[i - 1], items[i], chars[i], units[i], lim)
  BY <1>8
<1>10. DOMAIN turn = 0..N /\ turn = [i \in 0..N |-> turn[i]]
  <2>1. turn = [i \in 0..N |-> IF i = 0 THEN NoGroups
                     ELSE AddItem(turn[i - 1], items[i], chars[i], units[i], lim)]
    BY <1>8
  <2> DEFINE e(i) == IF i = 0 THEN NoGroups
                     ELSE AddItem(turn[i - 1], items[i], chars[i], units[i], lim)
  <2> HIDE DEF e
  <2>2. turn = [i \in 0..N |-> e(i)]
    BY <2>1 DEF e
  <2>3. QED
    BY <2>2
<1> HIDE DEF Unfolds, S
<1>11. turn[0] = NoGroups
  BY <1>9, <1>1
<1>12. \A i \in 1..N : /\ i \in 0..N
                       /\ turn[i] = AddItem(turn[i - 1], items[i], chars[i], units[i], lim)
  BY <1>9, <1>1
<1>13. \A i \in 0..N : turn[i] \in S
  <2> DEFINE Bad == {i \in 0..N : turn[i] \notin S}
  <2>1. SUFFICES ASSUME Bad # {} PROVE FALSE
    OBVIOUS
  <2>2. Bad \in SUBSET Nat
    BY <1>1
  <2>3. PICK i \in Bad : \A j \in Bad : i <= j
    BY <2>1, <2>2, Least
  <2>4. i \in 1..N
    BY <1>1, <1>11
  <2>5. i - 1 \in 0..N /\ ~(i <= i - 1)
    BY <2>4, <1>1
  <2>6. turn[i - 1] \in S
    BY <2>3, <2>5
  <2>7. items[i] \in Item /\ chars[i] \in Nat /\ units[i] \in Nat
    BY <2>4
  <2>8. turn[i] \in S
    BY <1>12, <2>4, <2>6, <2>7, AddItemType DEF S
  <2>9. QED
    BY <2>8
<1>14. turn \in [0..N -> S]
  BY <1>10, <1>13
<1>15. QED
  BY <1>11, <1>12, <1>14 DEF turn, S, TurnsFollow

\* The first i items measure total[i].
RunningTotal(total, measure, n) ==
  total[0] = 0 /\ \A i \in 1..n : total[i] = total[i - 1] + measure[i]

\* The running totals of what is counted exist for whatever is counted.
LEMMA TotalsExist ==
  ASSUME NEW n \in Nat, NEW measure \in [1..n -> Nat]
  PROVE  \E total \in [0..n -> Nat] : RunningTotal(total, measure, n)
<1> DEFINE prev == [i \in 1..n |-> i - 1]
           step == [p \in (1..n) \X Nat |-> p[2] + measure[p[1]]]
<1>1. prev \in [1..n -> Nat] /\ \A i \in 1..n : prev[i] < i
  OBVIOUS
<1>2. step \in [(1..n) \X Nat -> Nat]
  OBVIOUS
<1>3. PICK f \in [0..n -> Nat] : Recursion(n, 0, prev, step, f)
  <2> HIDE DEF prev, step
  <2>1. QED
    BY <1>1, <1>2, RecursiveFunction
<1>4. f = [i \in 0..n |-> IF i = 0 THEN 0 ELSE step[<<i, f[prev[i]]>>]]
  BY <1>3 DEF Recursion
<1>5. f[0] = 0
  <2> HIDE DEF prev, step
  <2>1. 0 \in 0..n
    OBVIOUS
  <2>2. QED
    BY <1>4, <2>1
<1>6. ASSUME NEW i \in 1..n
      PROVE  f[i] = f[i - 1] + measure[i]
  <2>1. f[i] = step[<<i, f[prev[i]]>>]
    <3> HIDE DEF prev, step
    <3>1. i \in 0..n /\ i # 0
      OBVIOUS
    <3>2. QED
      BY <1>4, <3>1
  <2>2. prev[i] = i - 1 /\ i - 1 \in 0..n
    OBVIOUS
  <2>3. QED
    BY <2>1, <2>2
<1>7. QED
  BY <1>5, <1>6 DEF RunningTotal

\* A group goes from one cut to a later one, and keeps both budgets if it has
\* more than one item.
IsGroup(items, C, U, lim, from, to, group) ==
  /\ from < to /\ group = SubSeq(items, from + 1, to)
  /\ \/ to = from + 1
     \/ C[to] - C[from] <= lim.maxChars /\ U[to] - U[from] <= lim.maxBlocks

\* The group from one cut to another has no room for the item that follows.
IsFull(items, C, U, lim, from, to) ==
  /\ to < Len(items)
  /\ \/ C[to + 1] - C[from] > lim.maxChars
     \/ U[to + 1] - U[from] > lim.maxBlocks

\* The loop after its i-th turn: full groups, and one that is being filled.
TurnIs(items, C, U, lim, i, acc) ==
  \E cut \in [0..Len(acc.groups) -> 0..i] :
    LET k == Len(acc.groups)
    IN /\ cut[0] = 0
       /\ \A g \in 1..k : /\ IsGroup(items, C, U, lim, cut[g - 1], cut[g], acc.groups[g])
                          /\ IsFull(items, C, U, lim, cut[g - 1], cut[g])
       /\ IF i = 0 THEN k = 0 /\ acc.current = <<>>
          ELSE IsGroup(items, C, U, lim, cut[k], i, acc.current)
       /\ acc.chars = C[i] - C[cut[k]] /\ acc.units = U[i] - U[cut[k]]

LEMMA NotMore ==
  ASSUME NEW a \in Nat, NEW b \in Nat, NEW m \in Nat
  PROVE  ~(a + b > m) => a + b <= m
OBVIOUS

LEMMA OneMore ==
  ASSUME NEW x \in Nat, NEW y \in Nat, NEW z \in Nat, NEW c \in Nat, x = y + c
  PROVE  x - z = (y - z) + c
OBVIOUS

LEMMA TurnStep ==
  ASSUME NEW Item, NEW items \in Seq(Item), NEW chars \in [1..Len(items) -> Nat],
         NEW units \in [1..Len(items) -> Nat], NEW lim \in Limits,
         NEW C \in [0..Len(items) -> Nat], RunningTotal(C, chars, Len(items)),
         NEW U \in [0..Len(items) -> Nat], RunningTotal(U, units, Len(items)),
         NEW i \in 1..Len(items), NEW acc \in Acc(Item),
         TurnIs(items, C, U, lim, i - 1, acc)
  PROVE  TurnIs(items, C, U, lim, i, AddItem(acc, items[i], chars[i], units[i], lim))
<1> DEFINE N == Len(items)
           k == Len(acc.groups)
           c == chars[i]
           u == units[i]
           new == AddItem(acc, items[i], c, u, lim)
<1>1. /\ N \in Nat /\ i \in Nat /\ k \in Nat /\ items[i] \in Item /\ c \in Nat /\ u \in Nat
      /\ i - 1 \in 0..N /\ i \in 0..N /\ acc.chars \in Nat /\ acc.units \in Nat
      /\ acc.groups \in Seq(Seq(Item)) /\ acc.current \in Seq(Item)
      /\ lim.maxChars \in Nat /\ lim.maxBlocks \in Nat
  BY DEF Acc, Limits
<1>c. C \in [0..N -> Nat] /\ U \in [0..N -> Nat] /\ items \in Seq(Item)
  OBVIOUS
<1>t. RunningTotal(C, chars, N) /\ RunningTotal(U, units, N) /\ i \in 1..N /\ N = Len(items)
  OBVIOUS
<1> HIDE DEF N
<1>2. C[i] = C[i - 1] + c /\ U[i] = U[i - 1] + u
  BY <1>t DEF RunningTotal
<1> HIDE DEF c, u
<1>3. PICK cut \in [0..k -> 0..(i - 1)] :
        /\ cut[0] = 0
        /\ \A g \in 1..k : /\ IsGroup(items, C, U, lim, cut[g - 1], cut[g], acc.groups[g])
                           /\ IsFull(items, C, U, lim, cut[g - 1], cut[g])
        /\ IF i - 1 = 0 THEN k = 0 /\ acc.current = <<>>
           ELSE IsGroup(items, C, U, lim, cut[k], i - 1, acc.current)
        /\ acc.chars = C[i - 1] - C[cut[k]] /\ acc.units = U[i - 1] - U[cut[k]]
  BY DEF TurnIs
<1> HIDE DEF k
<1>4. /\ cut[k] \in 0..(i - 1) /\ C[i] \in Nat /\ C[i - 1] \in Nat /\ C[cut[k]] \in Nat
      /\ U[i] \in Nat /\ U[i - 1] \in Nat /\ U[cut[k]] \in Nat
  <2>1. cut[k] \in 0..(i - 1)
    BY <1>1
  <2>2. cut[k] \in 0..N
    BY <2>1, <1>1
  <2>3. QED
    BY <2>1, <2>2, <1>1, <1>c
<1>5. SubSeq(items, i - 1 + 1, i) = <<items[i]>> /\ i = (i - 1) + 1 /\ i - 1 < i
  <2>1. i = (i - 1) + 1 /\ i - 1 < i /\ i - 1 \in Nat /\ i \in 1..Len(items)
    BY <1>1, <1>t
  <2>2. QED
    BY <2>1, <1>c, ShortRun
<1>6. i - 1 # 0 => /\ acc.current = SubSeq(items, cut[k] + 1, i - 1) /\ cut[k] < i - 1
                   /\ acc.current # <<>>
  <2>1. SUFFICES ASSUME i - 1 # 0
        PROVE  /\ acc.current = SubSeq(items, cut[k] + 1, i - 1) /\ cut[k] < i - 1
               /\ acc.current # <<>>
    OBVIOUS
  <2>2. acc.current = SubSeq(items, cut[k] + 1, i - 1) /\ cut[k] < i - 1
    BY <1>3, <2>1 DEF IsGroup
  <2>3. i - 1 \in 1..Len(items) /\ cut[k] \in Nat
    BY <1>1, <1>4, <1>t, <2>1
  <2>4. SubSeq(items, cut[k] + 1, i - 1) # <<>>
    BY <2>2, <2>3, <1>c, ShortRun
  <2>5. QED
    BY <2>2, <2>4
<1>n. /\ c \in Nat /\ u \in Nat /\ acc.chars \in Nat /\ acc.units \in Nat
      /\ C[i] \in Nat /\ C[i - 1] \in Nat /\ C[cut[k]] \in Nat
      /\ U[i] \in Nat /\ U[i - 1] \in Nat /\ U[cut[k]] \in Nat
      /\ lim.maxChars \in Nat /\ lim.maxBlocks \in Nat
  BY <1>1, <1>4
<1>f. /\ ~(acc.chars + c > lim.maxChars) => acc.chars + c <= lim.maxChars
      /\ ~(acc.units + u > lim.maxBlocks) => acc.units + u <= lim.maxBlocks
  BY <1>n, NotMore, Zenon
<1>s. acc.chars + c = C[i] - C[cut[k]] /\ acc.units + u = U[i] - U[cut[k]]
  <2>1. acc.chars = C[i - 1] - C[cut[k]] /\ acc.units = U[i - 1] - U[cut[k]]
    BY <1>3
  <2>2. C[i] - C[cut[k]] = (C[i - 1] - C[cut[k]]) + c
    <3>1. C[i] = C[i - 1] + c
      BY <1>2
    <3>2. QED
      BY <3>1, <1>n, OneMore
  <2>3. U[i] - U[cut[k]] = (U[i - 1] - U[cut[k]]) + u
    <3>1. U[i] = U[i - 1] + u
      BY <1>2
    <3>2. QED
      BY <3>1, <1>n, OneMore
  <2>4. QED
    BY <2>1, <2>2, <2>3
<1> DEFINE full == /\ acc.current # <<>>
                   /\ \/ acc.chars + c > lim.maxChars
                      \/ acc.units + u > lim.maxBlocks
<1>7. CASE full
  <2>1. /\ new.groups = Append(acc.groups, acc.current)
        /\ new.current = <<items[i]>> /\ new.chars = c /\ new.units = u
    BY <1>7 DEF AddItem
  <2>2. i - 1 # 0
    BY <1>3, <1>7
  <2> HIDE DEF new
  <2>3. /\ Len(new.groups) = k + 1
        /\ \A g \in 1..k : new.groups[g] = acc.groups[g]
        /\ new.groups[k + 1] = acc.current
    BY <2>1, <1>1, AppendProperties DEF k
  <2> DEFINE d == [g \in 0..(k + 1) |-> IF g = k + 1 THEN i - 1 ELSE cut[g]]
  <2>4. d \in [0..(k + 1) -> 0..i]
    <3>0. 0..(i - 1) \subseteq 0..i
      BY <1>1
    <3>1. \A g \in 0..k : cut[g] \in 0..i
      BY <3>0, <1>3
    <3>2. \A g \in 0..(k + 1) : g = k + 1 \/ g \in 0..k
      BY <1>1
    <3>3. i - 1 \in 0..i
      BY <1>1
    <3>4. QED
      BY <3>1, <3>2, <3>3
  <2>5. /\ d[k + 1] = i - 1
        /\ \A g \in 0..k : d[g] = cut[g]
    BY <1>1
  <2> HIDE DEF d
  <2>6. IsGroup(items, C, U, lim, cut[k], i - 1, acc.current)
    BY <1>3, <2>2
  <2>7. IsFull(items, C, U, lim, cut[k], i - 1)
    <3>1. i - 1 < N
      BY <1>1
    <3>2. C[i] - C[cut[k]] > lim.maxChars \/ U[i] - U[cut[k]] > lim.maxBlocks
      <4>1. acc.chars + c > lim.maxChars \/ acc.units + u > lim.maxBlocks
        BY <1>7
      <4>2. acc.chars + c = C[i] - C[cut[k]] /\ acc.units + u = U[i] - U[cut[k]]
        BY <1>s
      <4>3. QED
        BY <4>1, <4>2
    <3>3. QED
      BY <3>1, <3>2, <1>5 DEF IsFull
  <2>8. ASSUME NEW g \in 1..(k + 1)
        PROVE  /\ IsGroup(items, C, U, lim, d[g - 1], d[g], new.groups[g])
               /\ IsFull(items, C, U, lim, d[g - 1], d[g])
    <3>1. CASE g = k + 1
      <4>1. g - 1 = k /\ k \in 0..k
        BY <3>1, <1>1
      <4>2. d[g - 1] = cut[k] /\ d[g] = i - 1 /\ new.groups[g] = acc.current
        BY <4>1, <3>1, <2>3, <2>5
      <4>3. QED
        BY <4>2, <2>6, <2>7
    <3>2. CASE g # k + 1
      <4>1. g \in 1..k /\ g \in 0..k /\ g - 1 \in 0..k
        BY <3>2, <1>1
      <4>2. d[g - 1] = cut[g - 1] /\ d[g] = cut[g] /\ new.groups[g] = acc.groups[g]
        BY <4>1, <2>3, <2>5
      <4>3. QED
        BY <4>1, <4>2, <1>3
    <3>3. QED
      BY <3>1, <3>2
  <2>9. IsGroup(items, C, U, lim, d[k + 1], i, new.current)
    BY <1>5, <2>1, <2>5 DEF IsGroup
  <2>10. new.chars = C[i] - C[d[k + 1]] /\ new.units = U[i] - U[d[k + 1]]
    <3>1. c = C[i] - C[i - 1] /\ u = U[i] - U[i - 1]
      BY <1>n, <1>2
    <3>2. QED
      BY <3>1, <2>1, <2>5
  <2>11. d[0] = 0
    BY <2>5, <1>3, <1>1
  <2>12. i # 0
    BY <1>1
  <2>13. QED
    BY <2>3, <2>4, <2>8, <2>9, <2>10, <2>11, <2>12 DEF TurnIs, new, c, u
<1>8. CASE ~full
  <2>1. /\ new.groups = acc.groups /\ new.current = Append(acc.current, items[i])
        /\ new.chars = acc.chars + c /\ new.units = acc.units + u
    BY <1>8 DEF AddItem, Acc
  <2> HIDE DEF new
  <2>2. cut \in [0..k -> 0..i]
    <3>0. 0..(i - 1) \subseteq 0..i
      BY <1>1
    <3>1. \A g \in 0..k : cut[g] \in 0..i
      BY <3>0, <1>3
    <3>2. QED
      BY <3>1
  <2>3. new.chars = C[i] - C[cut[k]] /\ new.units = U[i] - U[cut[k]]
    BY <2>1, <1>s
  <2>4. IsGroup(items, C, U, lim, cut[k], i, new.current)
    <3>1. CASE i - 1 = 0
      <4>1. k = 0 /\ acc.current = <<>> /\ cut[k] = 0
        BY <1>3, <3>1
      <4>2. Append(<<>>, items[i]) = <<items[i]>>
        OBVIOUS
      <4>3. QED
        BY <3>1, <4>1, <4>2, <2>1, <1>5 DEF IsGroup
    <3>2. CASE i - 1 # 0
      <4>1. acc.current = SubSeq(items, cut[k] + 1, i - 1) /\ cut[k] < i - 1
            /\ acc.current # <<>>
        BY <1>6, <3>2
      <4>2. new.current = SubSeq(items, cut[k] + 1, i)
        <5>1. cut[k] \in Nat
          BY <1>4
        <5>2. QED
          BY <5>1, <4>1, <2>1, <1>1, LongerRun
      <4>3. acc.chars + c <= lim.maxChars /\ acc.units + u <= lim.maxBlocks
        <5>1. ~(acc.chars + c > lim.maxChars) /\ ~(acc.units + u > lim.maxBlocks)
          BY <1>8, <4>1
        <5>2. QED
          BY <5>1, <1>f
      <4>4. C[i] - C[cut[k]] <= lim.maxChars /\ U[i] - U[cut[k]] <= lim.maxBlocks
        BY <4>3, <2>1, <2>3
      <4>5. cut[k] < i
        BY <4>1, <1>1, <1>4
      <4>6. QED
        BY <4>2, <4>4, <4>5 DEF IsGroup
    <3>3. QED
      BY <3>1, <3>2
  <2>5. i # 0
    BY <1>1
  <2>6. QED
    BY <1>3, <2>1, <2>2, <2>3, <2>4, <2>5 DEF TurnIs, new, k, c, u
<1>9. QED
  BY <1>7, <1>8

LEMMA TurnsAreGroups ==
  ASSUME NEW Item, NEW items \in Seq(Item), NEW chars \in [1..Len(items) -> Nat],
         NEW units \in [1..Len(items) -> Nat], NEW lim \in Limits,
         NEW C \in [0..Len(items) -> Nat], RunningTotal(C, chars, Len(items)),
         NEW U \in [0..Len(items) -> Nat], RunningTotal(U, units, Len(items))
  PROVE  \A i \in 0..Len(items) :
           TurnIs(items, C, U, lim, i, Turns(items, chars, units, lim)[i])
<1> DEFINE N == Len(items)
           turn == Turns(items, chars, units, lim)
           OK(i) == TurnIs(items, C, U, lim, i, turn[i])
           Bad == {i \in 0..N : ~OK(i)}
<1>1. /\ N \in Nat /\ turn \in [0..N -> Acc(Item)] /\ turn[0] = NoGroups
      /\ \A i \in 1..N : turn[i] = AddItem(turn[i - 1], items[i], chars[i], units[i], lim)
  <2>1. TurnsFollow(Item, items, chars, units, lim, turn)
    BY TurnsUnfold
  <2> HIDE DEF turn
  <2>2. QED
    BY <2>1 DEF TurnsFollow
<1> HIDE DEF turn
<1>2. OK(0)
  <2> DEFINE cut == [g \in 0..0 |-> 0]
  <2>1. cut \in [0..0 -> 0..0] /\ cut[0] = 0
    OBVIOUS
  <2> HIDE DEF cut
  <2>2. NoGroups.groups = <<>> /\ NoGroups.current = <<>> /\ Len(NoGroups.groups) = 0
        /\ NoGroups.chars = 0 /\ NoGroups.units = 0 /\ 1..0 = {}
    BY DEF NoGroups
  <2>3. C[0] - C[0] = 0 /\ U[0] - U[0] = 0
    <3>1. 0 \in 0..N
      BY <1>1
    <3>2. C[0] \in Nat /\ U[0] \in Nat
      BY <3>1
    <3>3. QED
      BY <3>2
  <2>4. TurnIs(items, C, U, lim, 0, NoGroups)
    BY <2>1, <2>2, <2>3 DEF TurnIs
  <2>5. QED
    BY <2>4, <1>1
<1>3. ASSUME NEW i \in 1..N, OK(i - 1)
      PROVE  OK(i)
  <2>1. i - 1 \in 0..N /\ turn[i - 1] \in Acc(Item)
    <3>1. i - 1 \in 0..N
      BY <1>1
    <3>2. QED
      BY <3>1, <1>1
  <2>2. TurnIs(items, C, U, lim, i, AddItem(turn[i - 1], items[i], chars[i], units[i], lim))
    BY <2>1, <1>3, TurnStep
  <2>3. QED
    BY <2>2, <1>1
<1> HIDE DEF OK
<1>4. SUFFICES ASSUME Bad # {} PROVE FALSE
  BY DEF OK, turn
<1>5. Bad \in SUBSET Nat
  BY <1>1
<1>6. PICK i \in Bad : \A j \in Bad : i <= j
  BY <1>4, <1>5, Least
<1>7. i \in 1..N /\ ~OK(i)
  BY <1>1, <1>2
<1>8. i - 1 \in 0..N /\ ~(i <= i - 1)
  BY <1>7, <1>1
<1>9. OK(i - 1)
  BY <1>6, <1>8
<1>10. QED
  BY <1>3, <1>7, <1>9

LEMMA GroupCount ==
  ASSUME NEW Item, NEW items \in Seq(Item), NEW chars \in [1..Len(items) -> Nat],
         NEW units \in [1..Len(items) -> Nat], NEW lim \in Limits
  PROVE  Len(GroupsOf(items, chars, units, lim)) \in Nat
<1> DEFINE acc == Turns(items, chars, units, lim)[Len(items)]
<1>1. Len(items) \in 0..Len(items)
  OBVIOUS
<1>2. acc \in Acc(Item)
  BY <1>1, TurnsUnfold DEF TurnsFollow
<1> HIDE DEF acc
<1>3. AllGroups(acc) \in Seq(Seq(Item))
  BY <1>2 DEF AllGroups, Acc
<1>4. QED
  BY <1>3, GroupsOfTurns DEF acc

\* The groups are what lies between the cuts of the items, in order and with
\* none left out; one of several items keeps both budgets, and each but the
\* last has no room for the item that follows it.
AreGroups(items, C, U, lim, groups) ==
  \E cut \in [0..Len(groups) -> 0..Len(items)] :
    /\ cut[0] = 0 /\ cut[Len(groups)] = Len(items)
    /\ \A g \in 1..Len(groups) :
         /\ IsGroup(items, C, U, lim, cut[g - 1], cut[g], groups[g])
         /\ g < Len(groups) => IsFull(items, C, U, lim, cut[g - 1], cut[g])

\* groupRenderedBlocks and groupItems lose, repeat and move nothing, close no
\* group too early, and exceed a budget only for an item that does by itself;
\* C and U are the running totals of characters and units (TotalsExist).
THEOREM GroupsAreRuns ==
  ASSUME NEW Item, NEW items \in Seq(Item), NEW chars \in [1..Len(items) -> Nat],
         NEW units \in [1..Len(items) -> Nat], NEW lim \in Limits,
         NEW C \in [0..Len(items) -> Nat], RunningTotal(C, chars, Len(items)),
         NEW U \in [0..Len(items) -> Nat], RunningTotal(U, units, Len(items))
  PROVE  AreGroups(items, C, U, lim, GroupsOf(items, chars, units, lim))
<1> DEFINE N == Len(items)
           acc == Turns(items, chars, units, lim)[N]
           k == Len(acc.groups)
           G == AllGroups(acc)
<1>1. N \in Nat /\ N \in 0..N
  OBVIOUS
<1>2. acc \in Acc(Item)
  <2>1. TurnsFollow(Item, items, chars, units, lim, Turns(items, chars, units, lim))
    BY TurnsUnfold
  <2>2. QED
    BY <1>1, <2>1 DEF TurnsFollow
<1>3. TurnIs(items, C, U, lim, N, acc)
  BY <1>1, TurnsAreGroups
<1>4. GroupsOf(items, chars, units, lim) = G
  BY GroupsOfTurns
<1> HIDE DEF acc, N
<1>r. \A from \in Nat, to \in 1..Len(items) : from < to => SubSeq(items, from + 1, to) # <<>>
  BY ShortRun
<1>5. acc.groups \in Seq(Seq(Item)) /\ acc.current \in Seq(Item) /\ k \in Nat
  BY <1>2 DEF Acc
<1>6. PICK cut \in [0..k -> 0..N] :
        /\ cut[0] = 0
        /\ \A g \in 1..k : /\ IsGroup(items, C, U, lim, cut[g - 1], cut[g], acc.groups[g])
                           /\ IsFull(items, C, U, lim, cut[g - 1], cut[g])
        /\ IF N = 0 THEN k = 0 /\ acc.current = <<>>
           ELSE IsGroup(items, C, U, lim, cut[k], N, acc.current)
  BY <1>3 DEF TurnIs
<1>7. CASE N = 0
  <2>1. acc.groups = <<>> /\ acc.current = <<>>
    BY <1>6, <1>5, <1>7
  <2>2. G = <<>>
    BY <2>1 DEF AllGroups
  <2>3. Len(<<>>) = 0 /\ 1..0 = {} /\ k = 0
    BY <1>6, <1>7
  <2>4. AreGroups(items, C, U, lim, <<>>)
    BY <1>6, <1>7, <2>3 DEF AreGroups, N
  <2>5. QED
    BY <2>2, <2>4, <1>4
<1>8. CASE N # 0
  <2>1. IsGroup(items, C, U, lim, cut[k], N, acc.current)
    BY <1>6, <1>8
  <2>2. acc.current # <<>>
    <3>1. acc.current = SubSeq(items, cut[k] + 1, N) /\ cut[k] < N
      BY <2>1 DEF IsGroup
    <3>2. cut[k] \in Nat /\ N \in 1..Len(items)
      <4>1. N \in 1..N
        BY <1>1, <1>8
      <4>2. k \in 0..k
        BY <1>5
      <4>3. cut[k] \in 0..N
        BY <4>2, <1>6
      <4>4. QED
        BY <4>1, <4>3 DEF N
    <3>3. SubSeq(items, cut[k] + 1, N) # <<>>
      BY <3>1, <3>2, <1>r
    <3>4. QED
      BY <3>1, <3>3
  <2>3. G = acc.groups \o <<acc.current>>
    BY <2>2 DEF AllGroups
  <2> HIDE DEF G
  <2>4. /\ Len(G) = k + 1
        /\ \A g \in 1..k : G[g] = acc.groups[g]
        /\ G[k + 1] = acc.current
    BY <2>3, <1>5
  <2> HIDE DEF k
  <2> DEFINE d == [g \in 0..(k + 1) |-> IF g = k + 1 THEN N ELSE cut[g]]
  <2>5. d \in [0..(k + 1) -> 0..N]
    <3>1. \A g \in 0..(k + 1) : g = k + 1 \/ g \in 0..k
      BY <1>5
    <3>2. QED
      BY <3>1, <1>1
  <2>6. d[k + 1] = N /\ \A g \in 0..k : d[g] = cut[g]
    BY <1>5
  <2> HIDE DEF d
  <2>7. ASSUME NEW g \in 1..(k + 1)
        PROVE  /\ IsGroup(items, C, U, lim, d[g - 1], d[g], G[g])
               /\ g < k + 1 => IsFull(items, C, U, lim, d[g - 1], d[g])
    <3>1. CASE g = k + 1
      <4>1. g - 1 = k /\ k \in 0..k /\ ~(g < k + 1)
        BY <3>1, <1>5
      <4>2. d[g - 1] = cut[k] /\ d[g] = N /\ G[g] = acc.current
        BY <4>1, <3>1, <2>4, <2>6
      <4>3. QED
        BY <4>1, <4>2, <2>1
    <3>2. CASE g # k + 1
      <4>1. g \in 1..k /\ g \in 0..k /\ g - 1 \in 0..k
        BY <3>2, <1>5
      <4>2. d[g - 1] = cut[g - 1] /\ d[g] = cut[g] /\ G[g] = acc.groups[g]
        BY <4>1, <2>4, <2>6
      <4>3. QED
        BY <4>1, <4>2, <1>6
    <3>3. QED
      BY <3>1, <3>2
  <2>8. d[0] = 0
    BY <2>6, <1>5, <1>6
  <2>9. QED
    BY <2>4, <2>5, <2>6, <2>7, <2>8, <1>4 DEF AreGroups, N
<1>9. QED
  BY <1>7, <1>8

\* If every block fits a message by itself, every message keeps both budgets.
THEOREM GroupsKeepBudgets ==
  ASSUME NEW Item, NEW items \in Seq(Item), NEW chars \in [1..Len(items) -> Nat],
         NEW units \in [1..Len(items) -> Nat], NEW lim \in Limits,
         NEW C \in [0..Len(items) -> Nat], RunningTotal(C, chars, Len(items)),
         NEW U \in [0..Len(items) -> Nat], RunningTotal(U, units, Len(items)),
         \A i \in 1..Len(items) : chars[i] <= lim.maxChars /\ units[i] <= lim.maxBlocks
  PROVE  LET groups == GroupsOf(items, chars, units, lim)
         IN \E cut \in [0..Len(groups) -> 0..Len(items)] :
              /\ cut[0] = 0 /\ cut[Len(groups)] = Len(items)
              /\ \A g \in 1..Len(groups) :
                   /\ groups[g] = SubSeq(items, cut[g - 1] + 1, cut[g])
                   /\ C[cut[g]] - C[cut[g - 1]] <= lim.maxChars
                   /\ U[cut[g]] - U[cut[g - 1]] <= lim.maxBlocks
<1> DEFINE N == Len(items)
           G == GroupsOf(items, chars, units, lim)
           k == Len(G)
<1>1. PICK cut \in [0..k -> 0..N] :
        /\ cut[0] = 0 /\ cut[k] = N
        /\ \A g \in 1..k : IsGroup(items, C, U, lim, cut[g - 1], cut[g], G[g])
  BY GroupsAreRuns DEF AreGroups
<1> HIDE DEF G, k
<1>2. ASSUME NEW from \in 0..N, NEW to \in 0..N, NEW group,
             IsGroup(items, C, U, lim, from, to, group)
      PROVE  /\ group = SubSeq(items, from + 1, to)
             /\ C[to] - C[from] <= lim.maxChars
             /\ U[to] - U[from] <= lim.maxBlocks
  <2>1. CASE to = from + 1
    <3>1. to \in 1..N /\ to - 1 = from
      BY <2>1
    <3>2. /\ C[to] = C[from] + chars[to] /\ C[from] \in Nat /\ chars[to] \in Nat
          /\ U[to] = U[from] + units[to] /\ U[from] \in Nat /\ units[to] \in Nat
      BY <3>1 DEF RunningTotal
    <3>3. chars[to] <= lim.maxChars /\ units[to] <= lim.maxBlocks
      BY <3>1
    <3>4. C[to] - C[from] = chars[to] /\ U[to] - U[from] = units[to]
      BY <3>2
    <3>5. QED
      BY <1>2, <3>3, <3>4 DEF IsGroup
  <2>2. CASE to # from + 1
    BY <1>2, <2>2 DEF IsGroup
  <2>3. QED
    BY <2>1, <2>2
<1>3. ASSUME NEW g \in 1..k
      PROVE  cut[g] \in 0..N /\ cut[g - 1] \in 0..N
  <2>1. k \in Nat
    BY <1>1, GroupCount DEF G, k
  <2>2. g \in 0..k /\ g - 1 \in 0..k
    BY <2>1
  <2>3. QED
    BY <2>2
<1>4. QED
  BY <1>1, <1>2, <1>3 DEF G, k

\* Items are added at the end of others, which keep their sizes.
Lengthens(items, chars, units, longer, chars2, units2) ==
  /\ chars \in [1..Len(items) -> Nat] /\ units \in [1..Len(items) -> Nat]
  /\ chars2 \in [1..Len(longer) -> Nat] /\ units2 \in [1..Len(longer) -> Nat]
  /\ Len(items) <= Len(longer)
  /\ \A i \in 1..Len(items) :
       longer[i] = items[i] /\ chars2[i] = chars[i] /\ units2[i] = units[i]

\* What is packed in one group stays there when items are added at the end: an
\* item only ever joins the last group, or begins one behind it.
THEOREM EarlierGroupsStand ==
  ASSUME NEW Item, NEW items \in Seq(Item), NEW chars, NEW units, NEW lim \in Limits,
         NEW longer \in Seq(Item), NEW chars2, NEW units2,
         Lengthens(items, chars, units, longer, chars2, units2)
  PROVE  \A g \in 1..(Len(GroupsOf(items, chars, units, lim)) - 1) :
           /\ g <= Len(GroupsOf(longer, chars2, units2, lim))
           /\ GroupsOf(longer, chars2, units2, lim)[g]
                = GroupsOf(items, chars, units, lim)[g]
<1>0. SUFFICES ASSUME NEW g \in 1..(Len(GroupsOf(items, chars, units, lim)) - 1)
               PROVE  /\ g <= Len(GroupsOf(longer, chars2, units2, lim))
                      /\ GroupsOf(longer, chars2, units2, lim)[g]
                           = GroupsOf(items, chars, units, lim)[g]
  OBVIOUS
<1>s. /\ chars \in [1..Len(items) -> Nat] /\ units \in [1..Len(items) -> Nat]
      /\ chars2 \in [1..Len(longer) -> Nat] /\ units2 \in [1..Len(longer) -> Nat]
  BY DEF Lengthens
<1> DEFINE N == Len(items)
           M == Len(longer)
           turn == Turns(items, chars, units, lim)
           turn2 == Turns(longer, chars2, units2, lim)
           done == turn[N].groups
           Stand(groups) == /\ groups \in Seq(Seq(Item)) /\ Len(done) <= Len(groups)
                            /\ \A h \in 1..Len(done) : groups[h] = done[h]
<1>a. TurnsFollow(Item, items, chars, units, lim, turn)
  BY <1>s, TurnsUnfold
<1>b. TurnsFollow(Item, longer, chars2, units2, lim, turn2)
  BY <1>s, TurnsUnfold
<1>1. /\ N \in Nat /\ M \in Nat /\ N <= M
      /\ turn \in [0..N -> Acc(Item)] /\ turn[0] = NoGroups
      /\ \A i \in 1..N : turn[i] = AddItem(turn[i - 1], items[i], chars[i], units[i], lim)
  <2> HIDE DEF turn
  <2>1. N \in Nat /\ M \in Nat /\ N <= M
    BY DEF Lengthens
  <2>2. QED
    BY <1>a, <2>1 DEF TurnsFollow
<1>2. /\ turn2 \in [0..M -> Acc(Item)] /\ turn2[0] = NoGroups
      /\ \A i \in 1..M : turn2[i] = AddItem(turn2[i - 1], longer[i], chars2[i], units2[i], lim)
  <2> HIDE DEF turn2
  <2>1. QED
    BY <1>b DEF TurnsFollow
<1>3. /\ GroupsOf(items, chars, units, lim) = AllGroups(turn[N])
      /\ GroupsOf(longer, chars2, units2, lim) = AllGroups(turn2[M])
  BY GroupsOfTurns
<1>4. \A i \in 1..N : i \in 1..M /\ longer[i] = items[i] /\ chars2[i] = chars[i] /\ units2[i] = units[i]
  BY <1>1 DEF Lengthens
<1> HIDE DEF turn, turn2, N, M
<1>5. \A i \in 0..N : turn2[i] = turn[i]
  <2> DEFINE Bad == {i \in 0..N : turn2[i] # turn[i]}
  <2>1. SUFFICES ASSUME Bad # {} PROVE FALSE
    OBVIOUS
  <2>2. Bad \in SUBSET Nat
    BY <1>1
  <2>3. PICK i \in Bad : \A j \in Bad : i <= j
    BY <2>1, <2>2, Least
  <2>4. i \in 1..N
    BY <1>1, <1>2
  <2>5. i - 1 \in 0..N /\ ~(i <= i - 1)
    BY <2>4, <1>1
  <2>6. turn2[i - 1] = turn[i - 1]
    BY <2>3, <2>5
  <2>7. turn2[i] = turn[i]
    BY <2>4, <2>6, <1>1, <1>2, <1>4
  <2>8. QED
    BY <2>7
<1>6. N \in 0..N /\ M \in 0..M /\ N \in 0..M
  BY <1>1
<1>7. done \in Seq(Seq(Item)) /\ turn[N].current \in Seq(Item)
  BY <1>1, <1>6 DEF Acc
<1>8. Stand(turn2[N].groups)
  BY <1>5, <1>6, <1>7
<1>9. ASSUME NEW i \in (N + 1)..M, Stand(turn2[i - 1].groups)
      PROVE  Stand(turn2[i].groups)
  <2>1. i \in 1..M /\ i - 1 \in 0..M /\ i \in 0..M
    BY <1>1
  <2>2. turn2[i - 1] \in Acc(Item) /\ turn2[i] \in Acc(Item)
    BY <2>1, <1>2
  <2> DEFINE old == turn2[i - 1]
  <2>3. /\ old.groups \in Seq(Seq(Item)) /\ old.current \in Seq(Item)
        /\ turn2[i].groups \in Seq(Seq(Item))
    BY <2>2 DEF Acc
  <2>4. turn2[i].groups \in {old.groups, Append(old.groups, old.current)}
    <3>1. turn2[i] = AddItem(old, longer[i], chars2[i], units2[i], lim)
      BY <2>1, <1>2
    <3> HIDE DEF old
    <3>2. old \in Acc(Item)
      BY <2>2 DEF old
    <3>3. QED
      BY <3>1, <3>2 DEF AddItem, Acc
  <2> HIDE DEF old
  <2>5. Stand(old.groups)
    BY <1>9 DEF old
  <2>6. /\ Len(Append(old.groups, old.current)) = Len(old.groups) + 1
        /\ \A h \in 1..Len(old.groups) : Append(old.groups, old.current)[h] = old.groups[h]
    BY <2>3, AppendProperties
  <2>7. Len(old.groups) \in Nat /\ Len(done) \in Nat
    BY <2>3, <1>7
  <2>8. QED
    <3>1. CASE turn2[i].groups = old.groups
      BY <2>5, <3>1
    <3>2. CASE turn2[i].groups = Append(old.groups, old.current)
      <4>1. Len(done) <= Len(turn2[i].groups)
        BY <2>5, <2>6, <2>7, <3>2
      <4>2. ASSUME NEW h \in 1..Len(done)
            PROVE  turn2[i].groups[h] = done[h]
        <5>1. h \in 1..Len(old.groups)
          BY <2>5, <2>7
        <5>2. QED
          BY <5>1, <2>5, <2>6, <3>2
      <4>3. QED
        BY <4>1, <4>2, <2>3
    <3>3. QED
      BY <2>4, <3>1, <3>2
<1> HIDE DEF Stand
<1>10. Stand(turn2[M].groups)
  <2> DEFINE Bad == {i \in N..M : ~Stand(turn2[i].groups)}
  <2>0. M \in N..M
    BY <1>1
  <2>1. SUFFICES ASSUME Bad # {} PROVE FALSE
    BY <2>0
  <2>2. Bad \in SUBSET Nat
    BY <1>1
  <2>3. PICK i \in Bad : \A j \in Bad : i <= j
    BY <2>1, <2>2, Least
  <2>4. i \in (N + 1)..M
    BY <1>1, <1>8
  <2>5. i - 1 \in N..M /\ ~(i <= i - 1)
    BY <2>4, <1>1
  <2>6. Stand(turn2[i - 1].groups)
    BY <2>3, <2>5
  <2>7. QED
    BY <1>9, <2>4, <2>6
<1>11. turn2[M].groups \in Seq(Seq(Item)) /\ turn2[M].current \in Seq(Item)
  BY <1>2, <1>6 DEF Acc
<1>12. ASSUME NEW acc, acc.groups \in Seq(Seq(Item)), acc.current \in Seq(Item)
       PROVE  /\ Len(AllGroups(acc)) \in {Len(acc.groups), Len(acc.groups) + 1}
              /\ \A h \in 1..Len(acc.groups) : AllGroups(acc)[h] = acc.groups[h]
  <2>1. CASE acc.current = <<>>
    <3>1. AllGroups(acc) = acc.groups
      BY <2>1, <1>12 DEF AllGroups
    <3>2. QED
      BY <3>1
  <2>2. CASE acc.current # <<>>
    <3>1. AllGroups(acc) = acc.groups \o <<acc.current>>
      BY <2>2 DEF AllGroups
    <3>2. QED
      BY <3>1, <1>12
  <2>3. QED
    BY <2>1, <2>2
<1>13. g \in 1..Len(done) /\ AllGroups(turn[N])[g] = done[g]
  <2>1. /\ Len(AllGroups(turn[N])) \in {Len(done), Len(done) + 1}
        /\ \A h \in 1..Len(done) : AllGroups(turn[N])[h] = done[h]
    BY <1>7, <1>12
  <2>2. g \in 1..(Len(AllGroups(turn[N])) - 1) /\ Len(done) \in Nat
    BY <1>3, <1>7
  <2>3. g \in 1..Len(done)
    BY <2>1, <2>2
  <2>4. QED
    BY <2>1, <2>3
<1>14. g <= Len(AllGroups(turn2[M])) /\ AllGroups(turn2[M])[g] = done[g]
  <2>1. /\ Len(AllGroups(turn2[M])) \in {Len(turn2[M].groups), Len(turn2[M].groups) + 1}
        /\ \A h \in 1..Len(turn2[M].groups) : AllGroups(turn2[M])[h] = turn2[M].groups[h]
    BY <1>11, <1>12
  <2>2. /\ Len(turn2[M].groups) \in Nat /\ Len(done) \in Nat
        /\ Len(done) <= Len(turn2[M].groups) /\ turn2[M].groups[g] = done[g]
    <3>1. Len(turn2[M].groups) \in Nat /\ Len(done) \in Nat
      BY <1>7, <1>11
    <3>2. /\ Len(done) <= Len(turn2[M].groups)
          /\ \A h \in 1..Len(done) : turn2[M].groups[h] = done[h]
      BY <1>10 DEF Stand
    <3> HIDE DEF done
    <3>3. QED
      BY <3>1, <3>2, <1>13
  <2>3. g \in 1..Len(turn2[M].groups)
    BY <1>13, <2>2
  <2>4. QED
    BY <2>1, <2>2, <2>3
<1>15. QED
  BY <1>3, <1>13, <1>14

-----------------------------------------------------------------------------
(* Sequences that are flattened, numbers that are added up.                  *)

LEMMA SeqOfMore ==
  ASSUME NEW S, NEW S2, S \subseteq S2
  PROVE  Seq(S) \subseteq Seq(S2)
BY SeqMonotonic

\* FlattenSeq of the first i sequences.
Flat(seqs) ==
  CHOOSE f : f = [i \in 1..Len(seqs) |->
                    IF i = 1 THEN seqs[i] ELSE f[i - 1] \o seqs[i]]

LEMMA FlattenFlat ==
  ASSUME NEW A, NEW seqs \in Seq(A)
  PROVE  /\ seqs = <<>> => FlattenSeq(seqs) = <<>>
         /\ seqs # <<>> => FlattenSeq(seqs) = Flat(seqs)[Len(seqs)]
BY DEF FlattenSeq, Flat

LEMMA FlatUnfold ==
  ASSUME NEW A, NEW seqs \in Seq(Seq(A))
  PROVE  \A i \in 1..Len(seqs) :
           Flat(seqs)[i] = IF i = 1 THEN seqs[i] ELSE Flat(seqs)[i - 1] \o seqs[i]
<1> DEFINE N == Len(seqs)
           S == Seq(A)
           prev == [i \in 1..N |-> i - 1]
           step == [p \in (1..N) \X S |-> p[2] \o seqs[p[1]]]
           Unfolds(f) == f = [i \in 1..N |-> IF i = 1 THEN seqs[i] ELSE f[i - 1] \o seqs[i]]
<1>1. N \in Nat /\ <<>> \in S /\ \A i \in 1..N : seqs[i] \in S
  OBVIOUS
<1>2. prev \in [1..N -> Nat] /\ \A i \in 1..N : prev[i] < i
  BY <1>1
<1>3. step \in [(1..N) \X S -> S]
  <2>1. \A p \in (1..N) \X S : p[2] \o seqs[p[1]] \in S
    BY <1>1
  <2>2. QED
    BY <2>1
<1>4. PICK f \in [0..N -> S] : Recursion(N, <<>>, prev, step, f)
  <2> HIDE DEF prev, step, S, N
  <2>1. QED
    BY <1>1, <1>2, <1>3, RecursiveFunction
<1>5. f = [i \in 0..N |-> IF i = 0 THEN <<>> ELSE step[<<i, f[prev[i]]>>]]
  BY <1>4 DEF Recursion
<1>6. f[0] = <<>>
  <2> HIDE DEF prev, step, S, N
  <2>1. 0 \in 0..N
    BY <1>1
  <2>2. QED
    BY <1>5, <2>1
<1>7. ASSUME NEW i \in 1..N
      PROVE  f[i] = f[i - 1] \o seqs[i]
  <2>1. f[i] = step[<<i, f[prev[i]]>>]
    <3> HIDE DEF prev, step, S, N
    <3>1. i \in 0..N /\ i # 0
      BY <1>1
    <3>2. QED
      BY <1>5, <3>1
  <2>2. prev[i] = i - 1 /\ i - 1 \in 0..N
    BY <1>1
  <2>3. <<i, f[prev[i]]>> \in (1..N) \X S
    BY <2>2
  <2>4. QED
    BY <2>1, <2>2, <2>3
<1> DEFINE g == [i \in 1..N |-> f[i]]
<1>8. \A i \in 1..N : g[i] = IF i = 1 THEN seqs[i] ELSE g[i - 1] \o seqs[i]
  <2>1. ASSUME NEW i \in 1..N, i = 1
        PROVE  g[i] = seqs[i]
    <3>0. i - 1 = 0
      BY <2>1
    <3>1. f[i] = <<>> \o seqs[i]
      BY <1>6, <1>7, <3>0, Zenon
    <3>2. seqs[i] \in Seq(A)
      BY <1>1
    <3>3. QED
      BY <3>1, <3>2
  <2>2. ASSUME NEW i \in 1..N, i # 1
        PROVE  g[i] = g[i - 1] \o seqs[i]
    <3>1. i - 1 \in 1..N
      BY <1>1, <2>2
    <3>2. QED
      BY <3>1, <1>7
  <2>3. QED
    BY <2>1, <2>2
<1>9. Unfolds(g)
  <2> HIDE DEF N
  <2>1. g = [i \in 1..N |-> g[i]]
    OBVIOUS
  <2> HIDE DEF g
  <2>2. QED
    BY <1>8, <2>1
<1>10. Unfolds(CHOOSE h : Unfolds(h))
  <2> HIDE DEF Unfolds, g
  <2>1. QED
    BY <1>9
<1>11. Flat(seqs) = CHOOSE h : Unfolds(h)
  BY DEF Flat
<1>12. Unfolds(Flat(seqs))
  BY <1>10, <1>11
<1> HIDE DEF N
<1>13. \A i \in 1..N : Flat(seqs)[i] = IF i = 1 THEN seqs[i] ELSE Flat(seqs)[i - 1] \o seqs[i]
  BY <1>12
<1>14. QED
  BY <1>13 DEF N

\* What is closed under concatenation holds what is flattened.
Concatenates(S) == <<>> \in S /\ \A s \in S, t \in S : s \o t \in S

LEMMA SeqConcatenates ==
  ASSUME NEW A
  PROVE  Concatenates(Seq(A))
BY DEF Concatenates

LEMMA FlattenType ==
  ASSUME NEW A, NEW S \in SUBSET Seq(A), Concatenates(S), NEW seqs \in Seq(S)
  PROVE  FlattenSeq(seqs) \in S
<1> DEFINE N == Len(seqs)
           Bad == {i \in 1..N : Flat(seqs)[i] \notin S}
<1>1. N \in Nat /\ seqs \in Seq(Seq(A)) /\ \A i \in 1..N : seqs[i] \in S
  BY SeqMonotonic
<1>2. \A i \in 1..N : Flat(seqs)[i] = IF i = 1 THEN seqs[i] ELSE Flat(seqs)[i - 1] \o seqs[i]
  BY <1>1, FlatUnfold
<1>3. Bad = {}
  <2>1. SUFFICES ASSUME Bad # {} PROVE FALSE
    OBVIOUS
  <2>2. Bad \in SUBSET Nat
    BY <1>1
  <2>3. PICK i \in Bad : \A j \in Bad : i <= j
    BY <2>1, <2>2, Least
  <2>4. i \in 1..N /\ i # 1
    BY <1>1, <1>2
  <2>5. i - 1 \in 1..N /\ ~(i <= i - 1)
    BY <2>4, <1>1
  <2>6. Flat(seqs)[i - 1] \in S
    BY <2>3, <2>5
  <2>7. Flat(seqs)[i] \in S
    BY <2>4, <2>6, <1>1, <1>2 DEF Concatenates
  <2>8. QED
    BY <2>7
<1>4. CASE seqs = <<>>
  BY <1>1, <1>4, FlattenFlat DEF Concatenates
<1>5. CASE seqs # <<>>
  <2>1. N \in 1..N
    BY <1>1, <1>5
  <2>2. QED
    BY <2>1, <1>1, <1>3, <1>5, FlattenFlat
<1>6. QED
  BY <1>4, <1>5

LEMMA FlattenSeqType ==
  ASSUME NEW A, NEW seqs \in Seq(Seq(A))
  PROVE  FlattenSeq(seqs) \in Seq(A)
BY FlattenType, SeqConcatenates

\* What is added at the end comes at the end.
LEMMA FlattenAppend ==
  ASSUME NEW A, NEW seqs \in Seq(Seq(A)), NEW last \in Seq(A)
  PROVE  FlattenSeq(Append(seqs, last)) = FlattenSeq(seqs) \o last
<1> DEFINE N == Len(seqs)
           more == Append(seqs, last)
           Bad == {i \in 1..N : Flat(more)[i] # Flat(seqs)[i]}
<1>1. /\ N \in Nat /\ more \in Seq(Seq(A)) /\ Len(more) = N + 1 /\ more[N + 1] = last
      /\ more # <<>> /\ \A i \in 1..N : more[i] = seqs[i]
  BY AppendProperties
<1> HIDE DEF more
<1>2. \A i \in 1..(N + 1) : Flat(more)[i] = IF i = 1 THEN more[i] ELSE Flat(more)[i - 1] \o more[i]
  BY <1>1, FlatUnfold
<1>3. \A i \in 1..N : Flat(seqs)[i] = IF i = 1 THEN seqs[i] ELSE Flat(seqs)[i - 1] \o seqs[i]
  BY FlatUnfold
<1>4. FlattenSeq(more) = Flat(more)[N + 1]
  BY <1>1, FlattenFlat
<1>5. Bad = {}
  <2>1. SUFFICES ASSUME Bad # {} PROVE FALSE
    OBVIOUS
  <2>2. Bad \in SUBSET Nat
    BY <1>1
  <2>3. PICK i \in Bad : \A j \in Bad : i <= j
    BY <2>1, <2>2, Least
  <2>4. i \in 1..N /\ i \in 1..(N + 1) /\ i # 1
    BY <1>1, <1>2, <1>3
  <2>5. i - 1 \in 1..N /\ ~(i <= i - 1)
    BY <2>4, <1>1
  <2>6. Flat(more)[i - 1] = Flat(seqs)[i - 1]
    BY <2>3, <2>5
  <2>7. QED
    BY <2>3, <2>4, <2>6, <1>1, <1>2, <1>3
<1>6. CASE seqs = <<>>
  <2>1. FlattenSeq(seqs) = <<>>
    BY <1>6, FlattenFlat
  <2>2. N = 0 /\ <<>> \o last = last
    BY <1>6
  <2>3. QED
    BY <2>1, <2>2, <1>1, <1>2, <1>4 DEF more
<1>7. CASE seqs # <<>>
  <2>1. N \in 1..N /\ N + 1 \in 1..(N + 1) /\ (N + 1) - 1 = N /\ N + 1 # 1
    BY <1>1, <1>7
  <2>2. FlattenSeq(seqs) = Flat(seqs)[N]
    BY <1>7, FlattenFlat
  <2>3. Flat(more)[N + 1] = Flat(more)[N] \o last
    BY <1>1, <1>2, <2>1
  <2>4. QED
    BY <2>1, <2>2, <2>3, <1>4, <1>5 DEF more
<1>8. QED
  BY <1>6, <1>7

\* Total of the first i sizes.
Sums(sizes) ==
  CHOOSE f : f = [i \in 0..Len(sizes) |-> IF i = 0 THEN 0 ELSE f[i - 1] + sizes[i]]

LEMMA TotalSums ==
  ASSUME NEW sizes
  PROVE  Total(sizes) = Sums(sizes)[Len(sizes)]
BY DEF Total, Sums

LEMMA SumsUnfold ==
  ASSUME NEW sizes \in Seq(Nat)
  PROVE  Sums(sizes) \in [0..Len(sizes) -> Nat] /\ RunningTotal(Sums(sizes), sizes, Len(sizes))
<1> DEFINE N == Len(sizes)
           Unfolds(f) == f = [i \in 0..N |-> IF i = 0 THEN 0 ELSE f[i - 1] + sizes[i]]
<1>1. N \in Nat /\ sizes \in [1..N -> Nat]
  OBVIOUS
<1>2. PICK c \in [0..N -> Nat] : RunningTotal(c, sizes, N)
  BY <1>1, TotalsExist
<1> HIDE DEF N
<1>3. Unfolds(c)
  <2>1. \A i \in 0..N : i = 0 \/ i \in 1..N
    BY <1>1
  <2>2. \A i \in 0..N : c[i] = IF i = 0 THEN 0 ELSE c[i - 1] + sizes[i]
    BY <1>2, <2>1 DEF RunningTotal
  <2>3. QED
    BY <2>2
<1>4. Unfolds(CHOOSE g : Unfolds(g))
  <2> HIDE DEF Unfolds
  <2>1. QED
    BY <1>3
<1>5. Sums(sizes) = CHOOSE g : Unfolds(g)
  BY DEF Sums, N
<1>6. Unfolds(Sums(sizes))
  BY <1>4, <1>5
<1> DEFINE s == Sums(sizes)
<1> HIDE DEF s
<1>7. s = [i \in 0..N |-> IF i = 0 THEN 0 ELSE s[i - 1] + sizes[i]]
  BY <1>6 DEF s
<1>8. \A i \in 0..N : s[i] = IF i = 0 THEN 0 ELSE s[i - 1] + sizes[i]
  BY <1>7
<1>9. RunningTotal(s, sizes, N)
  <2>1. 0 \in 0..N /\ \A i \in 1..N : i \in 0..N /\ i # 0
    BY <1>1
  <2>2. QED
    BY <1>8, <2>1 DEF RunningTotal
<1>10. \A i \in 0..N : s[i] \in Nat
  <2> DEFINE Bad == {i \in 0..N : s[i] \notin Nat}
  <2>1. SUFFICES ASSUME Bad # {} PROVE FALSE
    OBVIOUS
  <2>2. Bad \in SUBSET Nat
    BY <1>1
  <2>3. PICK i \in Bad : \A j \in Bad : i <= j
    BY <2>1, <2>2, Least
  <2>4. i \in 1..N
    BY <1>1, <1>8
  <2>5. i - 1 \in 0..N /\ ~(i <= i - 1)
    BY <2>4, <1>1
  <2>6. s[i - 1] \in Nat /\ sizes[i] \in Nat
    BY <2>3, <2>4, <2>5, <1>1
  <2>7. s[i] \in Nat
    BY <2>4, <2>6, <1>8
  <2>8. QED
    BY <2>7
<1>11. DOMAIN s = 0..N /\ s = [i \in 0..N |-> s[i]]
  <2> DEFINE e(i) == IF i = 0 THEN 0 ELSE s[i - 1] + sizes[i]
  <2> HIDE DEF e
  <2>1. s = [i \in 0..N |-> e(i)]
    BY <1>7 DEF e
  <2>2. QED
    BY <2>1
<1>12. s \in [0..N -> Nat]
  BY <1>10, <1>11
<1>13. QED
  BY <1>9, <1>12 DEF s, N

LEMMA TotalType ==
  ASSUME NEW sizes \in Seq(Nat)
  PROVE  Total(sizes) \in Nat
<1>1. Len(sizes) \in 0..Len(sizes)
  OBVIOUS
<1>2. QED
  BY <1>1, SumsUnfold, TotalSums

\* The total of a run is what the running total grows by.
LEMMA TotalOfRun ==
  ASSUME NEW n \in Nat, NEW measure \in [1..n -> Nat], NEW C \in [0..n -> Nat],
         RunningTotal(C, measure, n), NEW from \in 0..n, NEW to \in 0..n, from <= to,
         NEW sizes \in Seq(Nat), Len(sizes) = to - from,
         \A i \in 1..(to - from) : sizes[i] = measure[from + i]
  PROVE  Total(sizes) = C[to] - C[from]
<1> DEFINE N == to - from
           s == Sums(sizes)
           Bad == {i \in 0..N : s[i] # C[from + i] - C[from]}
<1>1. N \in Nat /\ from + N = to /\ N \in 0..N
  OBVIOUS
<1>2. s \in [0..N -> Nat] /\ RunningTotal(s, sizes, N)
  BY SumsUnfold
<1> HIDE DEF s
<1>3. \A i \in 0..N : from + i \in 0..n /\ C[from + i] \in Nat /\ C[from] \in Nat
  OBVIOUS
<1>4. Bad = {}
  <2>1. SUFFICES ASSUME Bad # {} PROVE FALSE
    OBVIOUS
  <2>2. Bad \in SUBSET Nat
    BY <1>1
  <2>3. PICK i \in Bad : \A j \in Bad : i <= j
    BY <2>1, <2>2, Least
  <2>4. i # 0
    <3>1. SUFFICES ASSUME i = 0 PROVE FALSE
      OBVIOUS
    <3>2. s[0] = 0 /\ from + 0 = from /\ C[from] - C[from] = 0
      BY <1>2, <1>3 DEF RunningTotal
    <3>3. QED
      BY <2>3, <3>1, <3>2
  <2>5. i \in 1..N /\ i - 1 \in 0..N /\ ~(i <= i - 1)
    BY <2>3, <2>4, <1>1
  <2>6. s[i - 1] = C[from + (i - 1)] - C[from]
    BY <2>3, <2>5
  <2>7. s[i] = s[i - 1] + sizes[i]
    BY <2>5, <1>2 DEF RunningTotal
  <2>8. from + i \in 1..n /\ (from + i) - 1 = from + (i - 1)
    BY <2>5
  <2>9. C[from + i] = C[from + (i - 1)] + measure[from + i]
    BY <2>8 DEF RunningTotal
  <2>10. sizes[i] = measure[from + i] /\ sizes[i] \in Nat
    BY <2>5, <2>8
  <2>11. C[from + (i - 1)] \in Nat /\ C[from] \in Nat
    BY <2>5, <1>3
  <2>12. s[i] = C[from + i] - C[from]
    BY <2>6, <2>7, <2>9, <2>10, <2>11
  <2>13. QED
    BY <2>3, <2>12
<1>5. s[N] = C[from + N] - C[from]
  BY <1>1, <1>4
<1>6. QED
  BY <1>1, <1>5, TotalSums DEF s

-----------------------------------------------------------------------------
(* Classes of texts that whatever the program writes stays in: all texts,    *)
(* and those without half a pair.                                            *)

Plain(text) == \A i \in DOMAIN text : text[i] \notin {"H", "L"}

IsTextClass(T) ==
  /\ T \in SUBSET AnyText /\ Concatenates(T)
  /\ \A t \in AnyText : Plain(t) => t \in T
  /\ <<"H", "L", " ">> \in T
  /\ \A t \in T : \A from \in Nat, to \in 1..Len(t) :
       from < to /\ (from = 0 \/ SafeCut(t, from)) /\ SafeCut(t, to)
         => SubSeq(t, from + 1, to) \in T

LEMMA SignsAreUnits ==
  /\ " " \in Unit /\ "\n" \in Unit /\ "." \in Unit /\ ">" \in Unit /\ "-" \in Unit
  /\ "|" \in Unit /\ "*" \in Unit /\ "Y" \in Unit /\ "H" \in Unit /\ "L" \in Unit
  /\ \A i \in 1..10 : Digit[i] \in Unit
BY BlocksAssumption DEF Signs

LEMMA Triple ==
  ASSUME NEW S, NEW a \in S, NEW b \in S, NEW c \in S
  PROVE  <<a, b, c>> \in Seq(S)
OBVIOUS

LEMMA PairAndOne ==
  ASSUME NEW a, NEW b, NEW c
  PROVE  <<a, b>> \o <<c>> = <<a, b, c>>
<1> DEFINE S == {a, b, c}
           s == <<a, b, c>>
           t == <<a, b>>
           u == <<c>>
<1>1. s \in Seq(S) /\ t \in Seq(S) /\ u \in Seq(S)
  OBVIOUS
<1>2. Len(s) = 3 /\ Len(t) = 2 /\ Len(u) = 1
  OBVIOUS
<1>3. s[1] = a /\ s[2] = b /\ s[3] = c /\ t[1] = a /\ t[2] = b /\ u[1] = c
  OBVIOUS
<1> HIDE DEF s, t, u, S
<1>4. /\ t \o u \in Seq(S) /\ Len(t \o u) = 3
      /\ (t \o u)[1] = t[1] /\ (t \o u)[2] = t[2] /\ (t \o u)[3] = u[1]
  BY <1>1, <1>2, ConcatProperties
<1>5. \A i \in 1..3 : (t \o u)[i] = s[i]
  <2>1. \A i \in 1..3 : i = 1 \/ i = 2 \/ i = 3
    OBVIOUS
  <2>2. QED
    BY <2>1, <1>3, <1>4
<1>6. t \o u = s
  BY <1>1, <1>2, <1>4, <1>5, SeqEqual
<1>7. QED
  BY <1>6 DEF s, t, u

LEMMA AnyIsClass == IsTextClass(AnyText)
<1>1. Concatenates(AnyText)
  BY SeqConcatenates DEF AnyText
<1>2. <<"H", "L", " ">> \in AnyText
  BY SignsAreUnits, Triple, Zenon DEF AnyText
<1>3. \A t \in AnyText : \A from \in Nat, to \in 1..Len(t) :
        from < to => SubSeq(t, from + 1, to) \in AnyText
  BY ShortRun DEF AnyText
<1>4. QED
  BY <1>1, <1>2, <1>3 DEF IsTextClass

LEMMA WholeConcat ==
  ASSUME NEW s \in AnyText, NEW t \in AnyText, Whole(s), Whole(t)
  PROVE  Whole(s \o t)
<1> DEFINE m == Len(s)
           n == Len(t)
           u == s \o t
<1>1. /\ m \in Nat /\ n \in Nat /\ u \in AnyText /\ Len(u) = m + n
      /\ DOMAIN s = 1..m /\ DOMAIN t = 1..n /\ DOMAIN u = 1..(m + n)
      /\ \A i \in 1..(m + n) : u[i] = IF i <= m THEN s[i] ELSE t[i - m]
  BY ConcatProperties, LenProperties DEF AnyText
<1> HIDE DEF m, n, u
<1>2. \A i \in 1..m : u[i] = s[i]
  BY <1>1
<1>3. \A i \in 1..n : u[m + i] = t[i]
  BY <1>1
<1>4. \A i \in 1..m : /\ s[i] = "H" => i < m /\ s[i + 1] = "L"
                      /\ s[i] = "L" => i > 1 /\ s[i - 1] = "H"
  BY <1>1 DEF Whole, m
<1>5. \A i \in 1..n : /\ t[i] = "H" => i < n /\ t[i + 1] = "L"
                      /\ t[i] = "L" => i > 1 /\ t[i - 1] = "H"
  BY <1>1 DEF Whole, n
<1>6. ASSUME NEW i \in 1..m
      PROVE  /\ u[i] = "H" => i < m + n /\ u[i + 1] = "L"
             /\ u[i] = "L" => i > 1 /\ u[i - 1] = "H"
  <2>1. i < m => i + 1 \in 1..m /\ i < m + n
    BY <1>1
  <2>2. i > 1 => i - 1 \in 1..m
    BY <1>1
  <2>3. QED
    BY <2>1, <2>2, <1>2, <1>4
<1>7. ASSUME NEW i \in Nat, NEW j \in 1..n, i = m + j
      PROVE  /\ u[i] = "H" => i < m + n /\ u[i + 1] = "L"
             /\ u[i] = "L" => i > 1 /\ u[i - 1] = "H"
  <2>1. j < n => j + 1 \in 1..n /\ i < m + n /\ i + 1 = m + (j + 1)
    BY <1>1, <1>7
  <2>2. j > 1 => j - 1 \in 1..n /\ i > 1 /\ i - 1 = m + (j - 1)
    BY <1>1, <1>7
  <2>3. QED
    BY <2>1, <2>2, <1>3, <1>5, <1>7
<1>8. \A i \in 1..(m + n) : i \in 1..m \/ (i - m \in 1..n /\ m + (i - m) = i)
  BY <1>1
<1>9. \A i \in 1..(m + n) : /\ u[i] = "H" => i < m + n /\ u[i + 1] = "L"
                            /\ u[i] = "L" => i > 1 /\ u[i - 1] = "H"
  <2>1. ASSUME NEW i \in 1..(m + n)
        PROVE  /\ u[i] = "H" => i < m + n /\ u[i + 1] = "L"
               /\ u[i] = "L" => i > 1 /\ u[i - 1] = "H"
    <3>1. CASE i \in 1..m
      BY <3>1, <1>6
    <3>2. CASE i \notin 1..m
      <4>1. PICK j \in 1..n : i = m + j
        BY <3>2, <1>8
      <4>2. i \in Nat
        BY <1>1
      <4>3. QED
        BY <4>1, <4>2, <1>7
    <3>3. QED
      BY <3>1, <3>2
  <2>2. QED
    BY <2>1
<1>10. QED
  BY <1>1, <1>9 DEF Whole, u

LEMMA WholeIsClass == IsTextClass(WholeText)
<1>1. WholeText \in SUBSET AnyText
  BY DEF WholeText
<1>2. <<>> \in WholeText
  <2>1. <<>> \in AnyText /\ DOMAIN <<>> = {}
    BY DEF AnyText
  <2>2. QED
    BY <2>1 DEF WholeText, Whole
<1>3. Concatenates(WholeText)
  <2>1. \A s \in WholeText, t \in WholeText : s \o t \in WholeText
    <3>1. \A s \in AnyText, t \in AnyText : s \o t \in AnyText
      BY DEF AnyText
    <3>2. QED
      BY <3>1, WholeConcat DEF WholeText
  <2>2. QED
    BY <1>2, <2>1 DEF Concatenates
<1>4. \A t \in AnyText : Plain(t) => t \in WholeText
  BY DEF WholeText, Whole, Plain
<1>5. <<"H", "L", " ">> \in WholeText
  <2> DEFINE t == <<"H", "L", " ">>
  <2>1. t \in AnyText /\ Len(t) = 3 /\ DOMAIN t = 1..3 /\ t[1] = "H" /\ t[2] = "L" /\ t[3] = " "
    <3>1. "H" \in Unit /\ "L" \in Unit /\ " " \in Unit
      BY SignsAreUnits
    <3>2. t \in Seq(Unit)
      BY <3>1, Triple
    <3>3. Len(t) = 3 /\ DOMAIN t = 1..3
      OBVIOUS
    <3>4. t[1] = "H" /\ t[2] = "L" /\ t[3] = " "
      OBVIOUS
    <3>5. QED
      BY <3>2, <3>3, <3>4 DEF AnyText
  <2> HIDE DEF t
  <2>2. \A i \in 1..3 : i = 1 \/ i = 2 \/ i = 3
    OBVIOUS
  <2>3. /\ t[1] # "L" /\ t[1 + 1] = "L" /\ t[2] # "H" /\ t[2 - 1] = "H" /\ 1 < 3 /\ 2 > 1
        /\ t[3] # "H" /\ t[3] # "L"
    <3>1. 1 + 1 = 2 /\ 2 - 1 = 1 /\ 1 < 3 /\ 2 > 1
      OBVIOUS
    <3>2. t[1] # "L" /\ t[2] # "H" /\ t[3] # "H" /\ t[3] # "L"
      BY <2>1
    <3>3. t[1 + 1] = "L" /\ t[2 - 1] = "H"
      BY <3>1, <2>1, Zenon
    <3>4. QED
      BY <3>1, <3>2, <3>3
  <2>4. Whole(t)
    BY <2>1, <2>2, <2>3 DEF Whole
  <2>5. QED
    BY <2>1, <2>4 DEF WholeText, t
<1>6. ASSUME NEW t \in WholeText, NEW from \in Nat, NEW to \in 1..Len(t), from < to,
             from = 0 \/ SafeCut(t, from), SafeCut(t, to)
      PROVE  SubSeq(t, from + 1, to) \in WholeText
  <2>1. t \in Seq(Unit) /\ Whole(t)
    BY DEF WholeText, AnyText
  <2>2. Whole(SubSeq(t, from + 1, to))
    BY <1>6, <2>1, WholeRun
  <2>3. SubSeq(t, from + 1, to) \in Seq(Unit)
    BY <1>6, <2>1, ShortRun
  <2>4. QED
    BY <2>2, <2>3 DEF WholeText, AnyText
<1>7. QED
  BY <1>1, <1>3, <1>4, <1>5, <1>6 DEF IsTextClass

-----------------------------------------------------------------------------
(* What the operators on texts return.                                       *)

LEMMA ClassBasics ==
  ASSUME NEW T, IsTextClass(T)
  PROVE  /\ <<>> \in T /\ T \in SUBSET Seq(Unit)
         /\ \A s \in T, t \in T : s \o t \in T
         /\ \A t \in T : t \in Seq(Unit) /\ Len(t) \in Nat
<1>1. T \in SUBSET Seq(Unit) /\ Concatenates(T)
  BY DEF IsTextClass, AnyText
<1>2. \A t \in T : t \in Seq(Unit)
  BY <1>1, Zenon
<1>3. \A t \in T : t \in Seq(Unit) /\ Len(t) \in Nat
  BY <1>2
<1>4. QED
  BY <1>1, <1>3 DEF Concatenates

\* A run of a text between two places where no pair is cut.
LEMMA RunType ==
  ASSUME NEW T, IsTextClass(T), NEW t \in T, NEW from \in Nat, NEW to \in Int,
         to <= Len(t), from = 0 \/ SafeCut(t, from), to <= from \/ SafeCut(t, to)
  PROVE  SubSeq(t, from + 1, to) \in T
<1>1. t \in Seq(Unit) /\ Len(t) \in Nat
  BY ClassBasics
<1>2. CASE from < to
  <2>1. to \in 1..Len(t) /\ ~(to <= from)
    BY <1>1, <1>2
  <2>2. QED
    BY <2>1, <1>2, Zenon DEF IsTextClass
<1>3. CASE ~(from < to)
  <2>1. from + 1 \in Int /\ to < from + 1
    BY <1>3
  <2>2. SubSeq(t, from + 1, to) = <<>>
    BY <2>1, SubSeqEmpty
  <2>3. QED
    BY <2>2, ClassBasics
<1>4. QED
  BY <1>2, <1>3

\* A text of one or two signs none of which is half a pair.
LEMMA SignType ==
  ASSUME NEW T, IsTextClass(T), NEW a \in Unit \ {"H", "L"},
         NEW b \in Unit \ {"H", "L"}
  PROVE  <<a>> \in T /\ <<a, b>> \in T
<1>1. <<a>> \in AnyText /\ Plain(<<a>>)
  BY DEF AnyText, Plain
<1>2. <<a, b>> \in AnyText /\ Plain(<<a, b>>)
  <2>1. DOMAIN <<a, b>> = 1..2 /\ \A i \in 1..2 : i = 1 \/ i = 2
    OBVIOUS
  <2>2. QED
    BY <2>1 DEF AnyText, Plain
<1>3. QED
  BY <1>1, <1>2 DEF IsTextClass

LEMMA MarksType ==
  ASSUME NEW T, IsTextClass(T)
  PROVE  /\ <<" ">> \in T /\ <<"\n">> \in T
         /\ <<"Y", " ">> \in T /\ <<"H", "L", " ">> \in T /\ <<".", " ">> \in T
         /\ <<"-", " ">> \in T /\ <<"*", " ">> \in T /\ <<">", " ">> \in T
         /\ <<"\n", "\n">> \in T /\ <<" ", "|", " ">> \in T /\ <<"-", "|", "-">> \in T
<1>1. /\ " " \in Unit \ {"H", "L"} /\ "\n" \in Unit \ {"H", "L"}
      /\ "Y" \in Unit \ {"H", "L"} /\ "." \in Unit \ {"H", "L"}
      /\ "-" \in Unit \ {"H", "L"} /\ "*" \in Unit \ {"H", "L"}
      /\ ">" \in Unit \ {"H", "L"} /\ "|" \in Unit \ {"H", "L"}
  BY SignsAreUnits
<1>2. /\ <<" ">> \in T /\ <<"\n">> \in T /\ <<"-">> \in T /\ <<" ", "|">> \in T /\ <<"-", "|">> \in T
      /\ <<"Y", " ">> \in T /\ <<".", " ">> \in T
      /\ <<"-", " ">> \in T /\ <<"*", " ">> \in T /\ <<">", " ">> \in T
      /\ <<"\n", "\n">> \in T
  BY <1>1, SignType
<1>3. <<" ", "|">> \o <<" ">> \in T /\ <<"-", "|">> \o <<"-">> \in T
  BY <1>2, ClassBasics
<1>4. <<" ", "|">> \o <<" ">> = <<" ", "|", " ">> /\ <<"-", "|">> \o <<"-">> = <<"-", "|", "-">>
  BY PairAndOne, Zenon
<1>5. QED
  BY <1>2, <1>3, <1>4 DEF IsTextClass

\* A sign written any number of times.
LEMMA RepeatType ==
  ASSUME NEW T, IsTextClass(T), NEW n \in Int, NEW sign \in Unit \ {"H", "L"}
  PROVE  [i \in 1..n |-> sign] \in T
<1> DEFINE m == IF n < 0 THEN 0 ELSE n
           text == [i \in 1..m |-> sign]
<1>1. m \in Nat /\ 1..n = 1..m
  OBVIOUS
<1> HIDE DEF m
<1>2. text \in AnyText /\ DOMAIN text = 1..m /\ \A i \in 1..m : text[i] = sign
  BY <1>1 DEF AnyText
<1> HIDE DEF text
<1>3. Plain(text)
  BY <1>2 DEF Plain
<1>4. text \in T
  BY <1>2, <1>3 DEF IsTextClass
<1>5. QED
  BY <1>1, <1>4 DEF text

LEMMA SpacesType ==
  ASSUME NEW T, IsTextClass(T), NEW n \in Int
  PROVE  Spaces(n) \in T
<1>1. " " \in Unit \ {"H", "L"}
  BY SignsAreUnits
<1>2. QED
  BY <1>1, RepeatType DEF Spaces

LEMMA FlattenTexts ==
  ASSUME NEW T, IsTextClass(T), NEW texts \in Seq(T)
  PROVE  FlattenSeq(texts) \in T
BY FlattenType DEF IsTextClass, AnyText

LEMMA JoinType ==
  ASSUME NEW T, IsTextClass(T), NEW texts \in Seq(T), NEW separator \in T
  PROVE  Join(texts, separator) \in T
<1> DEFINE all == [i \in DOMAIN texts |->
                     IF i = 1 THEN texts[i] ELSE separator \o texts[i]]
<1>0. DOMAIN texts = 1..Len(texts) /\ Len(texts) \in Nat
  OBVIOUS
<1>1. \A i \in 1..Len(texts) : texts[i] \in T /\ separator \o texts[i] \in T
  BY ClassBasics
<1>2. all \in Seq(T)
  BY <1>0, <1>1
<1> HIDE DEF all
<1>3. FlattenSeq(all) \in T
  BY <1>2, FlattenTexts
<1>4. QED
  BY <1>3 DEF Join, all

LEMMA NonEmptyType ==
  ASSUME NEW T, NEW texts \in Seq(T)
  PROVE  NonEmpty(texts) \in Seq(T)
<1> DEFINE all == [i \in DOMAIN texts |-> IF texts[i] = <<>> THEN <<>> ELSE <<texts[i]>>]
<1>0. DOMAIN texts = 1..Len(texts) /\ Len(texts) \in Nat
  OBVIOUS
<1>1. \A i \in 1..Len(texts) : <<>> \in Seq(T) /\ <<texts[i]>> \in Seq(T)
  OBVIOUS
<1>2. all \in Seq(Seq(T))
  BY <1>0, <1>1
<1> HIDE DEF all
<1>3. FlattenSeq(all) \in Seq(T)
  BY <1>2, FlattenSeqType
<1>4. QED
  BY <1>3 DEF NonEmpty, all

LEMMA Smallest ==
  ASSUME NEW S \in SUBSET Nat, S # {}
  PROVE  Min(S) \in S /\ \A x \in S : Min(S) <= x
<1>1. PICK x \in S : \A y \in S : x <= y
  BY Least
<1>2. Min(S) \in S /\ \A y \in S : Min(S) =< y
  BY <1>1 DEF Min
<1>3. QED
  BY <1>2

\* A recursive function turn by turn, and that there is only one.
IsLoop(N, S, base, prev, step, f) ==
  /\ f[0] = base
  /\ \A i \in 1..N : /\ prev[i] \in 0..N /\ f[prev[i]] \in S
                     /\ f[i] = step[<<i, f[prev[i]]>>]

LEMMA Loop ==
  ASSUME NEW N \in Nat, NEW S, NEW base \in S, NEW prev \in [1..N -> Nat],
         \A i \in 1..N : prev[i] < i,
         NEW step \in [(1..N) \X S -> S]
  PROVE  \E f \in [0..N -> S] : IsLoop(N, S, base, prev, step, f)
<1>1. PICK f \in [0..N -> S] : Recursion(N, base, prev, step, f)
  BY RecursiveFunction
<1>2. \A i \in 0..N : f[i] = IF i = 0 THEN base ELSE step[<<i, f[prev[i]]>>]
  <2>1. f = [i \in 0..N |-> IF i = 0 THEN base ELSE step[<<i, f[prev[i]]>>]]
    BY <1>1 DEF Recursion
  <2>2. QED
    BY <2>1
<1>3. 0 \in 0..N /\ \A i \in 1..N : i \in 0..N /\ i # 0
  OBVIOUS
<1>4. ASSUME NEW i \in 1..N
      PROVE  prev[i] \in 0..N
  <2>1. prev[i] \in Nat /\ prev[i] < i
    OBVIOUS
  <2>2. QED
    BY <2>1
<1>5. QED
  BY <1>2, <1>3, <1>4 DEF IsLoop

AreSame(N, f, g) == \A i \in 0..N : f[i] = g[i]

LEMMA SameLoop ==
  ASSUME NEW N \in Nat, NEW prev \in [1..N -> Nat], \A i \in 1..N : prev[i] < i,
         NEW f, NEW g, f[0] = g[0],
         \A i \in 1..N : f[prev[i]] = g[prev[i]] => f[i] = g[i]
  PROVE  AreSame(N, f, g)
<1> DEFINE Bad == {i \in 0..N : f[i] # g[i]}
<1>1. SUFFICES ASSUME Bad # {} PROVE FALSE
  BY DEF AreSame
<1>2. Bad \in SUBSET Nat
  OBVIOUS
<1>3. PICK i \in Bad : \A j \in Bad : i <= j
  BY <1>1, <1>2, Least
<1>4. i \in 1..N
  BY <1>3
<1>5. prev[i] \in Nat /\ prev[i] < i
  BY <1>4
<1>6. prev[i] \in 0..N /\ ~(i <= prev[i])
  BY <1>4, <1>5
<1>7. f[prev[i]] = g[prev[i]]
  BY <1>3, <1>6
<1>8. QED
  BY <1>3, <1>4, <1>7

-----------------------------------------------------------------------------
(* Lines.                                                                    *)

Breaks(text, n) == {i \in (Len(text) - n + 1)..Len(text) : text[i] = "\n"}

\* The lines of the last n units of a text.
Lines(text) ==
  CHOOSE f : f = [n \in 0..Len(text) |->
    LET start == Len(text) - n
        breaks == {i \in (start + 1)..Len(text) : text[i] = "\n"}
    IN IF breaks = {} THEN <<SubSeq(text, start + 1, Len(text))>>
       ELSE <<SubSeq(text, start + 1, Min(breaks) - 1)>>
            \o f[Len(text) - Min(breaks)]]

LEMMA SplitLinesLines ==
  ASSUME NEW text
  PROVE  SplitLines(text) = Lines(text)[Len(text)]
BY DEF SplitLines, Lines

LEMMA BreaksProperties ==
  ASSUME NEW text \in AnyText, NEW n \in 0..Len(text), Breaks(text, n) # {}
  PROVE  /\ Min(Breaks(text, n)) \in (Len(text) - n + 1)..Len(text)
         /\ text[Min(Breaks(text, n))] = "\n"
         /\ Len(text) - Min(Breaks(text, n)) \in Nat
         /\ Len(text) - Min(Breaks(text, n)) < n
<1>1. Len(text) \in Nat
  BY DEF AnyText
<1>2. Breaks(text, n) \in SUBSET Nat
  BY <1>1 DEF Breaks
<1>3. Min(Breaks(text, n)) \in Breaks(text, n)
  BY <1>2, Smallest
<1> DEFINE m == Min(Breaks(text, n))
<1> HIDE DEF m
<1>4. m \in (Len(text) - n + 1)..Len(text) /\ text[m] = "\n"
  BY <1>3 DEF Breaks, m
<1>5. Len(text) - m \in Nat /\ Len(text) - m < n
  BY <1>1, <1>4
<1>6. QED
  BY <1>4, <1>5 DEF m

LEMMA LinesUnfold ==
  ASSUME NEW text \in AnyText
  PROVE  \A n \in 0..Len(text) :
           Lines(text)[n] =
             IF Breaks(text, n) = {} THEN <<SubSeq(text, Len(text) - n + 1, Len(text))>>
             ELSE <<SubSeq(text, Len(text) - n + 1, Min(Breaks(text, n)) - 1)>>
                  \o Lines(text)[Len(text) - Min(Breaks(text, n))]
<1> DEFINE N == Len(text)
           S == Seq(AnyText)
           last(n) == SubSeq(text, N - n + 1, N)
           first(n) == SubSeq(text, N - n + 1, Min(Breaks(text, n)) - 1)
           prev == [n \in 1..N |-> IF Breaks(text, n) = {} THEN 0
                                   ELSE N - Min(Breaks(text, n))]
           step == [p \in (1..N) \X S |-> IF Breaks(text, p[1]) = {} THEN <<last(p[1])>>
                                          ELSE <<first(p[1])>> \o p[2]]
           Value(n, f) == IF Breaks(text, n) = {} THEN <<last(n)>>
                          ELSE <<first(n)>> \o f[N - Min(Breaks(text, n))]
           Unfolds(f) == f = [n \in 0..N |-> Value(n, f)]
<1>1. N \in Nat /\ text \in Seq(Unit)
  BY DEF AnyText
<1>2. ASSUME NEW n \in 0..N
      PROVE  last(n) \in AnyText
  <2>1. \A i \in (N - n + 1)..N : text[i] \in Unit
    BY <1>1
  <2>2. N - n + 1 \in Int /\ N \in Int
    BY <1>1
  <2>3. QED
    BY <2>1, <2>2, SubSeqProperties DEF AnyText
<1>3. ASSUME NEW n \in 0..N, Breaks(text, n) # {}
      PROVE  first(n) \in AnyText
  <2>1. Min(Breaks(text, n)) \in (N - n + 1)..N
    BY <1>3, BreaksProperties
  <2>2. \A i \in (N - n + 1)..(Min(Breaks(text, n)) - 1) : text[i] \in Unit
    BY <2>1, <1>1
  <2>3. N - n + 1 \in Int /\ Min(Breaks(text, n)) - 1 \in Int
    BY <2>1, <1>1
  <2>4. QED
    BY <2>2, <2>3, SubSeqProperties DEF AnyText
<1>4. prev \in [1..N -> Nat] /\ \A n \in 1..N : prev[n] < n
  <2>1. \A n \in 1..N : n \in 0..N /\ 0 < n
    BY <1>1
  <2>2. \A n \in 1..N : Breaks(text, n) # {} =>
          N - Min(Breaks(text, n)) \in Nat /\ N - Min(Breaks(text, n)) < n
    BY <2>1, BreaksProperties
  <2>3. QED
    BY <2>1, <2>2
<1> HIDE DEF last, first
<1>5. step \in [(1..N) \X S -> S]
  <2>1. \A p \in (1..N) \X S : p[1] \in 0..N /\ p[2] \in S
    BY <1>1
  <2>2. \A p \in (1..N) \X S :
          (IF Breaks(text, p[1]) = {} THEN <<last(p[1])>> ELSE <<first(p[1])>> \o p[2]) \in S
    BY <2>1, <1>2, <1>3
  <2>3. QED
    BY <2>2
<1>6. <<last(0)>> \in S /\ Breaks(text, 0) = {}
  <2>1. 0 \in 0..N /\ (N - 0 + 1)..N = {}
    BY <1>1
  <2>2. QED
    BY <2>1, <1>2 DEF Breaks
<1> HIDE DEF N, S
<1>7. PICK f \in [0..N -> S] : IsLoop(N, S, <<last(0)>>, prev, step, f)
  <2> HIDE DEF prev, step
  <2>1. QED
    BY <1>1, <1>4, <1>5, <1>6, Loop
<1>8. \A n \in 0..N : f[n] = Value(n, f)
  <2>1. f[0] = Value(0, f)
    BY <1>6, <1>7 DEF IsLoop
  <2>2. ASSUME NEW n \in 1..N
        PROVE  f[n] = Value(n, f)
    <3>1. <<n, f[prev[n]]>> \in (1..N) \X S /\ f[n] = step[<<n, f[prev[n]]>>]
      <4> HIDE DEF prev, step
      <4>1. QED
        BY <1>7 DEF IsLoop
    <3>2. f[n] = IF Breaks(text, n) = {} THEN <<last(n)>> ELSE <<first(n)>> \o f[prev[n]]
      <4> HIDE DEF prev
      <4>1. QED
        BY <3>1
    <3>3. QED
      BY <3>2
  <2>3. \A n \in 0..N : n = 0 \/ n \in 1..N
    BY <1>1
  <2> HIDE DEF Value
  <2>4. QED
    BY <2>1, <2>2, <2>3
<1>9. Unfolds(f)
  <2> HIDE DEF Value
  <2>1. f = [n \in 0..N |-> f[n]]
    OBVIOUS
  <2>2. QED
    BY <2>1, <1>8
<1>10. Unfolds(CHOOSE g : Unfolds(g))
  <2> HIDE DEF Unfolds
  <2>1. QED
    BY <1>9
<1>11. Lines(text) = CHOOSE g : Unfolds(g)
  BY DEF Lines, N, Breaks, last, first
<1>12. Unfolds(Lines(text))
  BY <1>10, <1>11
<1>13. \A n \in 0..N : Lines(text)[n] = Value(n, Lines(text))
  <2> HIDE DEF Value
  <2>1. QED
    BY <1>12
<1>14. QED
  BY <1>13 DEF N, last, first

\* A cut beside a line break is safe.
LEMMA BreakIsSafe ==
  ASSUME NEW text, NEW i, text[i] = "\n"
  PROVE  SafeCut(text, i)
BY DEF SafeCut

LEMMA BeforeBreakIsSafe ==
  ASSUME NEW text, NEW i \in Int, text[i] \notin {"H", "L"}
  PROVE  SafeCut(text, i - 1) /\ SafeCut(text, i)
<1>1. (i - 1) + 1 = i
  OBVIOUS
<1>2. QED
  BY <1>1 DEF SafeCut

LEMMA SplitLinesType ==
  ASSUME NEW T, IsTextClass(T), NEW text \in T
  PROVE  SplitLines(text) \in Seq(T)
<1> DEFINE N == Len(text)
           Good(n) == n = N \/ text[N - n] = "\n"
           Bad == {n \in 0..N : Good(n) /\ Lines(text)[n] \notin Seq(T)}
<1>1. text \in AnyText /\ N \in Nat
  BY ClassBasics DEF AnyText
<1>2. \A n \in 0..N :
        Lines(text)[n] = IF Breaks(text, n) = {} THEN <<SubSeq(text, N - n + 1, N)>>
                         ELSE <<SubSeq(text, N - n + 1, Min(Breaks(text, n)) - 1)>>
                              \o Lines(text)[N - Min(Breaks(text, n))]
  BY <1>1, LinesUnfold
<1>3. Bad = {}
  <2>1. SUFFICES ASSUME Bad # {} PROVE FALSE
    OBVIOUS
  <2>2. Bad \in SUBSET Nat
    BY <1>1
  <2>3. PICK n \in Bad : \A m \in Bad : n <= m
    BY <2>1, <2>2, Least
  <2>4. n \in 0..N /\ Good(n) /\ Lines(text)[n] \notin Seq(T) /\ N - n \in Nat /\ N - n <= N
    BY <2>3, <1>1
  <2>5. N - n = 0 \/ SafeCut(text, N - n)
    BY <2>4, <1>1, BreakIsSafe
  <2>6. CASE Breaks(text, n) = {}
    <3>1. SafeCut(text, N) /\ N <= N /\ N \in Int
      BY <1>1 DEF SafeCut
    <3>2. SubSeq(text, N - n + 1, N) \in T
      BY <2>4, <2>5, <3>1, RunType
    <3>3. Lines(text)[n] = <<SubSeq(text, N - n + 1, N)>>
      BY <2>4, <2>6, <1>2
    <3>4. QED
      BY <3>2, <3>3, <2>4
  <2>7. CASE Breaks(text, n) # {}
    <3> DEFINE m == Min(Breaks(text, n))
    <3>1. m \in (N - n + 1)..N /\ text[m] = "\n" /\ N - m \in Nat /\ N - m < n
      BY <1>1, <2>4, <2>7, BreaksProperties
    <3> HIDE DEF m
    <3>2. m \in Int /\ SafeCut(text, m - 1) /\ m - 1 <= N /\ m - 1 \in Int
      BY <3>1, <1>1, BeforeBreakIsSafe
    <3>3. SubSeq(text, N - n + 1, m - 1) \in T
      BY <2>4, <2>5, <3>2, RunType
    <3>4. N - m \in 0..N /\ N - (N - m) = m /\ ~(n <= N - m)
      BY <3>1, <2>4, <1>1
    <3>5. Lines(text)[N - m] \in Seq(T)
      BY <2>3, <3>1, <3>4
    <3>6. Lines(text)[n] = <<SubSeq(text, N - n + 1, m - 1)>> \o Lines(text)[N - m]
      BY <2>4, <2>7, <1>2 DEF m
    <3>7. Lines(text)[n] \in Seq(T)
      BY <3>3, <3>5, <3>6
    <3>8. QED
      BY <3>7, <2>4
  <2>8. QED
    BY <2>6, <2>7
<1>4. N \in 0..N
  BY <1>1
<1>5. QED
  BY <1>3, <1>4, SplitLinesLines

LEMMA PrefixLinesType ==
  ASSUME NEW T, IsTextClass(T), NEW text \in T, NEW prefix \in T
  PROVE  PrefixLines(text, prefix) \in T
<1> DEFINE ls == SplitLines(text)
           all == [i \in DOMAIN ls |-> prefix \o ls[i]]
<1>1. ls \in Seq(T)
  BY SplitLinesType
<1> HIDE DEF ls
<1>2. DOMAIN ls = 1..Len(ls) /\ Len(ls) \in Nat
  BY <1>1
<1>3. \A i \in 1..Len(ls) : prefix \o ls[i] \in T
  BY <1>1, ClassBasics
<1>4. all \in Seq(T)
  BY <1>2, <1>3
<1> HIDE DEF all
<1>5. Join(all, <<"\n">>) \in T
  BY <1>4, JoinType, MarksType
<1>6. QED
  BY <1>5 DEF PrefixLines, ls, all

-----------------------------------------------------------------------------
(* Numbers and markers.                                                      *)

LEMMA Tenth ==
  ASSUME NEW n \in Nat
  PROVE  /\ n \div 10 \in Nat /\ (n % 10) + 1 \in 1..10
         /\ n # 0 => n \div 10 < n
OBVIOUS

LEMMA DigitType ==
  ASSUME NEW T, IsTextClass(T), NEW i \in 1..10
  PROVE  <<Digit[i]>> \in T
<1>1. Digit[i] \in Unit
  BY SignsAreUnits
<1>2. Digit[i] \notin {"H", "L"}
  <2>1. \A j \in 1..10 : j \in {1, 2, 3, 4, 5, 6, 7, 8, 9, 10}
    OBVIOUS
  <2>2. \A j \in {1, 2, 3, 4, 5, 6, 7, 8, 9, 10} : Digit[j] \notin {"H", "L"}
    BY DEF Digit
  <2>3. QED
    BY <2>1, <2>2
<1>3. QED
  BY <1>1, <1>2, SignType

\* The digits of every number up to n.
Numerals(n) ==
  CHOOSE f : f = [i \in 0..n |->
    IF i < 10 THEN <<Digit[i + 1]>> ELSE f[i \div 10] \o <<Digit[(i % 10) + 1]>>]

LEMMA DecimalNumerals ==
  ASSUME NEW n
  PROVE  Decimal(n) = Numerals(n)[n]
BY DEF Decimal, Numerals

LEMMA DecimalType ==
  ASSUME NEW T, IsTextClass(T), NEW n \in Nat
  PROVE  Decimal(n) \in T
<1> DEFINE prev == [i \in 1..n |-> i \div 10]
           low(i) == <<Digit[i + 1]>>
           high(i) == <<Digit[(i % 10) + 1]>>
           step == [p \in (1..n) \X T |-> IF p[1] < 10 THEN low(p[1]) ELSE p[2] \o high(p[1])]
           Value(i, f) == IF i < 10 THEN low(i) ELSE f[i \div 10] \o high(i)
           Unfolds(f) == f = [i \in 0..n |-> Value(i, f)]
<1>1. ASSUME NEW i \in Nat
      PROVE  high(i) \in T /\ (i < 10 => low(i) \in T)
  <2>1. (i % 10) + 1 \in 1..10 /\ (i < 10 => i + 1 \in 1..10)
    BY Tenth
  <2>2. QED
    BY <2>1, DigitType
<1> HIDE DEF low, high
<1>2. prev \in [1..n -> Nat] /\ \A i \in 1..n : prev[i] < i
  BY Tenth
<1>3. step \in [(1..n) \X T -> T]
  <2>1. \A p \in (1..n) \X T : p[1] \in Nat /\ p[2] \in T
    OBVIOUS
  <2>2. \A p \in (1..n) \X T :
          (IF p[1] < 10 THEN low(p[1]) ELSE p[2] \o high(p[1])) \in T
    BY <2>1, <1>1, ClassBasics
  <2>3. QED
    BY <2>2
<1>4. low(0) \in T
  BY <1>1
<1>5. PICK f \in [0..n -> T] : IsLoop(n, T, low(0), prev, step, f)
  <2> HIDE DEF prev, step
  <2>1. QED
    BY <1>2, <1>3, <1>4, Loop
<1>6. \A i \in 0..n : f[i] = Value(i, f)
  <2>1. f[0] = Value(0, f)
    BY <1>5 DEF IsLoop
  <2>2. ASSUME NEW i \in 1..n
        PROVE  f[i] = Value(i, f)
    <3>1. <<i, f[prev[i]]>> \in (1..n) \X T /\ f[i] = step[<<i, f[prev[i]]>>]
      <4> HIDE DEF prev, step
      <4>1. QED
        BY <1>5 DEF IsLoop
    <3>2. f[i] = IF i < 10 THEN low(i) ELSE f[prev[i]] \o high(i)
      <4> HIDE DEF prev
      <4>1. QED
        BY <3>1
    <3>3. QED
      BY <3>2
  <2>3. \A i \in 0..n : i = 0 \/ i \in 1..n
    OBVIOUS
  <2> HIDE DEF Value
  <2>4. QED
    BY <2>1, <2>2, <2>3
<1>7. Unfolds(f)
  <2> HIDE DEF Value
  <2>1. f = [i \in 0..n |-> f[i]]
    OBVIOUS
  <2>2. QED
    BY <2>1, <1>6
<1>8. Unfolds(CHOOSE g : Unfolds(g))
  <2> HIDE DEF Unfolds
  <2>1. QED
    BY <1>7
<1>9. Numerals(n) = CHOOSE g : Unfolds(g)
  BY DEF Numerals, low, high
<1> DEFINE g == Numerals(n)
<1>10. Unfolds(g)
  BY <1>8, <1>9
<1> HIDE DEF g
<1>11. \A i \in 0..n : g[i] = Value(i, g)
  <2> HIDE DEF Value
  <2>1. QED
    BY <1>10
<1>12. g[0] = f[0]
  BY <1>6, <1>11
<1>13. ASSUME NEW i \in 1..n, g[prev[i]] = f[prev[i]]
       PROVE  g[i] = f[i]
  <2>1. prev[i] = i \div 10 /\ i \in 0..n
    OBVIOUS
  <2>2. g[i \div 10] = f[i \div 10]
    BY <2>1, <1>13
  <2>3. Value(i, g) = Value(i, f)
    BY <2>2
  <2> HIDE DEF Value
  <2>4. QED
    BY <2>1, <2>3, <1>6, <1>11
<1>14. \A i \in 0..n : g[i] = f[i]
  <2> HIDE DEF prev, Value
  <2>1. \A i \in 1..n : g[prev[i]] = f[prev[i]] => g[i] = f[i]
    BY <1>13
  <2>2. AreSame(n, g, f)
    BY <2>1, <1>2, <1>12, SameLoop
  <2>3. QED
    BY <2>2 DEF AreSame
<1>15. g[n] \in T
  BY <1>14
<1>16. QED
  BY <1>15, DecimalNumerals DEF g

LEMMA TaskMarkerType ==
  ASSUME NEW T, IsTextClass(T), NEW item, item.checked \in {"done", "open", "unset"}
  PROVE  TaskMarker(item) \in T
BY MarksType, ClassBasics DEF TaskMarker

LEMMA ListMarkerType ==
  ASSUME NEW T, IsTextClass(T), NEW item, item.checked \in {"done", "open", "unset"},
         NEW number \in Nat, NEW ordered \in BOOLEAN, NEW bullet \in {"-", "*"}
  PROVE  ListMarker(item, number, ordered, bullet) \in T
<1>1. TaskMarker(item) \in T
  BY TaskMarkerType
<1>2. Decimal(number) \in T
  BY DecimalType
<1>3. <<".", " ">> \in T /\ <<bullet, " ">> \in T
  BY MarksType
<1>4. Decimal(number) \o <<".", " ">> \o TaskMarker(item) \in T
  BY <1>1, <1>2, <1>3, ClassBasics
<1>5. QED
  BY <1>1, <1>3, <1>4 DEF ListMarker

-----------------------------------------------------------------------------
(* Tables.                                                                   *)

\* The largest of the numbers a sequence has.
LEMMA LargestOf ==
  ASSUME NEW n \in Nat \ {0}, NEW size \in [1..n -> Nat]
  PROVE  /\ Max({size[i] : i \in 1..n}) \in Nat
         /\ \A i \in 1..n : size[i] <= Max({size[j] : j \in 1..n})
<1>1. PICK C \in [0..n -> Nat] : RunningTotal(C, size, n)
  BY TotalsExist
<1> DEFINE Bad == {i \in 0..n : \E j \in 1..i : size[j] > C[i]}
<1>2. Bad = {}
  <2>1. SUFFICES ASSUME Bad # {} PROVE FALSE
    OBVIOUS
  <2>2. Bad \in SUBSET Nat
    OBVIOUS
  <2>3. PICK i \in Bad : \A j \in Bad : i <= j
    BY <2>1, <2>2, Least
  <2>4. PICK j \in 1..i : size[j] > C[i]
    BY <2>3
  <2>5. i \in 1..n /\ i - 1 \in 0..n /\ ~(i <= i - 1) /\ j \in 1..n
    BY <2>3, <2>4
  <2>6. C[i] = C[i - 1] + size[i] /\ C[i - 1] \in Nat /\ size[i] \in Nat /\ size[j] \in Nat
    BY <1>1, <2>5 DEF RunningTotal
  <2>7. j # i
    BY <2>4, <2>6
  <2>8. j \in 1..(i - 1)
    BY <2>4, <2>5, <2>7
  <2>9. ~(size[j] > C[i - 1])
    BY <2>3, <2>5, <2>8
  <2>10. QED
    BY <2>4, <2>6, <2>9
<1>3. n \in 0..n /\ C[n] \in Nat
  OBVIOUS
<1>4. \A j \in 1..n : size[j] \in 0..C[n]
  <2>1. ASSUME NEW j \in 1..n
        PROVE  size[j] \in 0..C[n]
    <3>1. ~(size[j] > C[n]) /\ size[j] \in Nat
      BY <1>2, <1>3
    <3>2. QED
      BY <3>1, <1>3
  <2>2. QED
    BY <2>1
<1> DEFINE S == {size[i] : i \in 1..n}
<1>5. S \in SUBSET (0..C[n])
  BY <1>4
<1>6. S # {} /\ \A i \in 1..n : size[i] \in S
  <2>1. 1 \in 1..n
    OBVIOUS
  <2>2. QED
    BY <2>1
<1> HIDE DEF S
<1>7. Max(S) \in S /\ \A x \in S : x <= Max(S)
  BY <1>3, <1>5, <1>6, Largest
<1>8. Max(S) \in Nat
  <2>1. Max(S) \in 0..C[n]
    BY <1>5, <1>7
  <2>2. QED
    BY <2>1, <1>3
<1>9. QED
  BY <1>6, <1>7, <1>8 DEF S

LEMMA CellsType ==
  ASSUME NEW T, IsTextClass(T), NEW rows \in Seq(Seq(T)), rows # <<>>
  PROVE  AlignedTable(rows) \in T
<1> DEFINE n == Len(rows)
           count == [r \in 1..n |-> Len(rows[r])]
           m == Max({Len(rows[r]) : r \in DOMAIN rows})
           Cell(r, c) == IF c <= Len(rows[r]) THEN rows[r][c] ELSE <<>>
           sizes(c) == [r \in 1..n |-> Len(Cell(r, c))]
           widest(c) == Max({Len(Cell(r, c)) : r \in DOMAIN rows})
           width == [c \in 1..m |-> widest(c)]
           cells(r) == [c \in 1..m |-> Cell(r, c) \o Spaces(width[c] - Len(Cell(r, c)))]
           Row(r) == Join(cells(r), <<" ", "|", " ">>)
           rules == [c \in 1..m |-> [i \in 1..width[c] |-> "-"]]
           divider == Join(rules, <<"-", "|", "-">>)
           body == [r \in 1..(Len(rows) - 1) |-> Row(r + 1)]
           all == IF Len(rows) = 1 THEN <<Row(1)>> ELSE <<Row(1), divider>> \o body
<1>1. n \in Nat \ {0} /\ DOMAIN rows = 1..n /\ \A r \in 1..n : rows[r] \in Seq(T)
  OBVIOUS
<1>2. m \in Nat
  <2>1. count \in [1..n -> Nat]
    BY <1>1
  <2>2. \A r \in 1..n : count[r] = Len(rows[r])
    OBVIOUS
  <2> HIDE DEF count, n
  <2>3. Max({count[r] : r \in 1..n}) \in Nat
    BY <1>1, <2>1, LargestOf
  <2>4. {count[r] : r \in 1..n} = {Len(rows[r]) : r \in DOMAIN rows}
    BY <1>1, <2>2
  <2>5. QED
    BY <2>3, <2>4
<1> HIDE DEF n, m
<1>3. ASSUME NEW r \in 1..n, NEW c \in 1..m
      PROVE  Cell(r, c) \in T /\ Len(Cell(r, c)) \in Nat
  <2>1. rows[r] \in Seq(T) /\ c \in Nat /\ c >= 1
    BY <1>1, <1>2
  <2>2. c <= Len(rows[r]) => rows[r][c] \in T
    BY <2>1
  <2>3. QED
    BY <2>2, ClassBasics
<1> HIDE DEF Cell
<1>4. ASSUME NEW c \in 1..m
      PROVE  widest(c) \in Nat
  <2>1. sizes(c) \in [1..n -> Nat]
    BY <1>3
  <2>2. \A r \in 1..n : sizes(c)[r] = Len(Cell(r, c))
    OBVIOUS
  <2> HIDE DEF sizes
  <2>3. Max({sizes(c)[r] : r \in 1..n}) \in Nat
    BY <1>1, <2>1, LargestOf
  <2>4. {sizes(c)[r] : r \in 1..n} = {Len(Cell(r, c)) : r \in DOMAIN rows}
    BY <1>1, <2>2
  <2>5. QED
    BY <2>3, <2>4
<1> HIDE DEF widest
<1>5. \A c \in 1..m : width[c] \in Nat
  BY <1>4
<1> HIDE DEF width
<1>6. ASSUME NEW r \in 1..n
      PROVE  Row(r) \in T
  <2>1. ASSUME NEW c \in 1..m
        PROVE  Cell(r, c) \o Spaces(width[c] - Len(Cell(r, c))) \in T
    <3>1. width[c] - Len(Cell(r, c)) \in Int
      BY <1>3, <1>5
    <3>2. Spaces(width[c] - Len(Cell(r, c))) \in T
      BY <3>1, SpacesType
    <3>3. QED
      BY <3>2, <1>3, ClassBasics
  <2>2. cells(r) \in Seq(T)
    BY <2>1, <1>2
  <2> HIDE DEF cells
  <2>3. QED
    BY <2>2, JoinType, MarksType
<1>7. divider \in T
  <2>1. "-" \in Unit \ {"H", "L"}
    BY SignsAreUnits
  <2>2. ASSUME NEW c \in 1..m
        PROVE  [i \in 1..width[c] |-> "-"] \in T
    <3>1. width[c] \in Int
      BY <1>5
    <3>2. QED
      BY <2>1, <3>1, RepeatType
  <2>3. rules \in Seq(T)
    BY <2>2, <1>2
  <2> HIDE DEF rules
  <2>4. QED
    BY <2>3, JoinType, MarksType
<1> HIDE DEF Row, divider
<1>8. all \in Seq(T)
  <2>1. 1 \in 1..n /\ Row(1) \in T
    BY <1>1, <1>6
  <2>2. n - 1 \in Nat /\ \A r \in 1..(n - 1) : r + 1 \in 1..n
    BY <1>1
  <2>3. \A r \in 1..(n - 1) : Row(r + 1) \in T
    BY <2>2, <1>6
  <2>4. body \in Seq(T)
    BY <2>2, <2>3 DEF n
  <2> HIDE DEF body
  <2>5. QED
    BY <2>1, <2>4, <1>7
<1> HIDE DEF all
<1>9. Join(all, <<"\n">>) \in T
  BY <1>8, JoinType, MarksType
<1>10. AlignedTable(rows) = Join(all, <<"\n">>)
  BY DEF AlignedTable, all, body, divider, rules, Row, cells, width, widest, Cell, m
<1>11. QED
  BY <1>9, <1>10

LEMMA QuoteTextType ==
  ASSUME NEW T, IsTextClass(T), NEW texts \in Seq(T)
  PROVE  QuoteText(texts) \in T
<1> DEFINE shown == NonEmpty(texts)
           prefix == <<">", " ">>
           all == [i \in DOMAIN shown |-> PrefixLines(shown[i], prefix)]
<1>1. shown \in Seq(T) /\ prefix \in T
  BY NonEmptyType, MarksType
<1> HIDE DEF shown, prefix
<1>2. DOMAIN shown = 1..Len(shown) /\ Len(shown) \in Nat
  BY <1>1
<1>3. \A i \in 1..Len(shown) : PrefixLines(shown[i], prefix) \in T
  BY <1>1, PrefixLinesType
<1>4. all \in Seq(T)
  BY <1>2, <1>3
<1> HIDE DEF all
<1>5. Join(all, <<"\n">>) \in T
  BY <1>4, JoinType, MarksType
<1>6. QED
  BY <1>5 DEF QuoteText, shown, all, prefix

LEMMA ItemTextType ==
  ASSUME NEW T, IsTextClass(T), NEW marker \in T, NEW texts \in Seq(T)
  PROVE  ItemText(marker, texts) \in T
<1> DEFINE ls == SplitLines(Join(NonEmpty(texts), <<"\n">>))
           all == [i \in DOMAIN ls |->
                     (IF i = 1 THEN marker ELSE Spaces(Len(marker))) \o ls[i]]
<1>1. ls \in Seq(T)
  BY NonEmptyType, JoinType, MarksType, SplitLinesType
<1> HIDE DEF ls
<1>2. DOMAIN ls = 1..Len(ls) /\ Len(ls) \in Nat
  BY <1>1
<1>3. Spaces(Len(marker)) \in T
  BY ClassBasics, SpacesType
<1>4. \A i \in 1..Len(ls) : (IF i = 1 THEN marker ELSE Spaces(Len(marker))) \o ls[i] \in T
  BY <1>1, <1>3, ClassBasics
<1>5. all \in Seq(T)
  BY <1>2, <1>4
<1> HIDE DEF all
<1>6. Join(all, <<"\n">>) \in T
  BY <1>5, JoinType, MarksType
<1>7. QED
  BY <1>6 DEF ItemText, ls, all

\* The head of a list: what its markers are made of.
IsListHead(list) ==
  /\ list.ordered \in BOOLEAN /\ list.start \in Nat
  /\ DOMAIN list.items = 1..Len(list.items) /\ Len(list.items) \in Nat
  /\ \A i \in 1..Len(list.items) : list.items[i].checked \in {"done", "open", "unset"}

LEMMA ListTextType ==
  ASSUME NEW T, IsTextClass(T), NEW list, IsListHead(list), NEW texts,
         \A i \in 1..Len(list.items) : texts[i] \in Seq(T)
  PROVE  ListText(list, texts) \in T
<1> DEFINE marker(i) == ListMarker(list.items[i], list.start + i - 1, list.ordered, "-")
           all == [i \in DOMAIN list.items |-> ItemText(marker(i), texts[i])]
           n == Len(list.items)
<1>1. n \in Nat /\ DOMAIN list.items = 1..n
  BY DEF IsListHead
<1> HIDE DEF n
<1>2. ASSUME NEW i \in 1..n
      PROVE  ItemText(marker(i), texts[i]) \in T
  <2>1. /\ list.items[i].checked \in {"done", "open", "unset"}
        /\ list.start + i - 1 \in Nat /\ list.ordered \in BOOLEAN
    BY <1>1 DEF IsListHead, n
  <2>2. marker(i) \in T
    BY <2>1, ListMarkerType
  <2>3. texts[i] \in Seq(T)
    BY DEF n
  <2> HIDE DEF marker
  <2>4. QED
    BY <2>2, <2>3, ItemTextType
<1>3. all \in Seq(T)
  BY <1>1, <1>2
<1> HIDE DEF all
<1>4. Join(all, <<"\n">>) \in T
  BY <1>3, JoinType, MarksType
<1>5. QED
  BY <1>4 DEF ListText, all, marker

\* The pieces a text is split into.
LEMMA SplitTextType ==
  ASSUME NEW T, IsTextClass(T), NEW text \in T, NEW limit \in Nat \ {0, 1}
  PROVE  /\ SplitText(text, limit) \in Seq(T)
         /\ \A i \in DOMAIN SplitText(text, limit) : Len(SplitText(text, limit)[i]) <= limit
<1> DEFINE N == Len(text)
           all == SplitText(text, limit)
           k == Len(all)
<1>1. text \in Seq(Unit) /\ N \in Nat
  BY ClassBasics
<1>2. all \in Seq(Seq(Unit)) /\ Cuts(text, limit, 0, all)
  BY <1>1, TextsAreCutSafely
<1>3. PICK cut \in [0..k -> 0..N] :
        /\ cut[0] = 0
        /\ \A i \in 1..k : IsCut(text, limit, cut[i - 1], cut[i], all[i])
  BY <1>2 DEF Cuts
<1>4. k \in Nat /\ DOMAIN all = 1..k /\ all = [i \in 1..k |-> all[i]]
  BY <1>2
<1> HIDE DEF all, k
<1>5. ASSUME NEW i \in 1..k
      PROVE  all[i] \in T /\ Len(all[i]) <= limit
  <2> DEFINE from == cut[i - 1]
             to == cut[i]
  <2>1. i - 1 \in 0..k /\ i \in 0..k
    BY <1>4
  <2>2. from \in 0..N /\ to \in 0..N
    BY <2>1, <1>3
  <2>3. /\ from < to /\ to <= from + limit /\ SafeCut(text, to)
        /\ all[i] = SubSeq(text, from + 1, to)
    BY <1>3 DEF IsCut
  <2>4. from = 0 \/ SafeCut(text, from)
    <3>1. CASE i - 1 = 0
      BY <3>1, <1>3
    <3>2. CASE i - 1 # 0
      <4>1. i - 1 \in 1..k
        BY <3>2, <1>4
      <4>2. QED
        BY <4>1, <1>3 DEF IsCut
    <3>3. QED
      BY <3>1, <3>2
  <2> HIDE DEF from, to
  <2>5. from \in Nat /\ to \in Int /\ to <= Len(text) /\ to \in 1..Len(text)
    BY <2>2, <2>3, <1>1
  <2>6. SubSeq(text, from + 1, to) \in T
    BY <2>3, <2>4, <2>5, RunType
  <2>7. Len(SubSeq(text, from + 1, to)) = to - from
    BY <2>3, <2>5, <1>1, ShortRun
  <2>8. to - from <= limit
    BY <2>3, <2>5
  <2>9. QED
    BY <2>3, <2>6, <2>7, <2>8
<1>6. all \in Seq(T)
  BY <1>4, <1>5
<1>7. QED
  BY <1>4, <1>5, <1>6 DEF all

LEMMA TrimTextType ==
  ASSUME NEW T, IsTextClass(T), NEW text \in T
  PROVE  TrimText(text) \in T
<1> DEFINE N == Len(text)
           solid == {i \in DOMAIN text : text[i] \notin {" ", "\n"}}
<1>1. text \in Seq(Unit) /\ N \in Nat /\ DOMAIN text = 1..N
  BY ClassBasics
<1> HIDE DEF N
<1>2. CASE solid = {}
  BY <1>2, ClassBasics DEF TrimText
<1>3. CASE solid # {}
  <2>1. solid \in SUBSET Nat /\ solid \in SUBSET (0..N)
    <3>1. \A i \in 1..N : i \in Nat /\ i \in 0..N
      BY <1>1
    <3>2. QED
      BY <1>1, <3>1
  <2> DEFINE m == Min(solid)
             k == Max(solid)
  <2> HIDE DEF solid
  <2>2. m \in solid /\ k \in solid /\ \A x \in solid : m <= x /\ x <= k
    BY <2>1, <1>1, <1>3, Smallest, Largest
  <2>3. TrimText(text) = SubSeq(text, m, k)
    BY <1>3 DEF TrimText, solid
  <2> HIDE DEF m, k
  <2>4. m \in 1..N /\ k \in 1..N
    BY <2>2, <1>1 DEF solid
  <2>5. m - 1 = 0 \/ SafeCut(text, m - 1)
    <3>1. CASE m = 1
      BY <3>1
    <3>2. CASE m # 1
      <4>1. m - 1 \in 1..N /\ ~(m <= m - 1)
        BY <3>2, <2>4, <1>1
      <4>2. m - 1 \notin solid
        BY <4>1, <2>2
      <4>3. text[m - 1] \in {" ", "\n"}
        BY <4>1, <4>2, <1>1 DEF solid
      <4>4. QED
        BY <4>3 DEF SafeCut
    <3>3. QED
      BY <3>1, <3>2
  <2>6. SafeCut(text, k)
    <3>1. CASE k = N
      BY <3>1, <1>1 DEF SafeCut, N
    <3>2. CASE k # N
      <4>1. k + 1 \in 1..N /\ ~(k + 1 <= k)
        BY <3>2, <2>4, <1>1
      <4>2. k + 1 \notin solid
        BY <4>1, <2>2
      <4>3. text[k + 1] \in {" ", "\n"}
        BY <4>1, <4>2, <1>1 DEF solid
      <4>4. QED
        BY <4>3 DEF SafeCut
    <3>3. QED
      BY <3>1, <3>2
  <2>7. m - 1 \in Nat /\ k \in Int /\ k <= Len(text) /\ (m - 1) + 1 = m
    BY <2>4, <1>1 DEF N
  <2>8. SubSeq(text, (m - 1) + 1, k) \in T
    BY <2>5, <2>6, <2>7, RunType
  <2>9. QED
    BY <2>3, <2>7, <2>8
<1>4. QED
  BY <1>2, <1>3

-----------------------------------------------------------------------------
(* Sets of trees in layers.                                                  *)

LayersGrow(D, B) == \A d \in 1..D : B[d - 1] \subseteq B[d]

LEMMA Increasing ==
  ASSUME NEW D \in Nat, NEW B, LayersGrow(D, B), NEW d \in 0..D
  PROVE  B[d] \subseteq B[D]
<1> DEFINE Far == {n \in 0..D : n >= d /\ ~(B[d] \subseteq B[n])}
<1>1. Far = {}
  <2>1. SUFFICES ASSUME Far # {} PROVE FALSE
    OBVIOUS
  <2>2. Far \in SUBSET Nat
    OBVIOUS
  <2>3. PICK n \in Far : \A m \in Far : n <= m
    BY <2>1, <2>2, Least
  <2>4. n # d
    BY <2>3
  <2>5. n \in 1..D /\ n - 1 \in 0..D /\ n - 1 >= d /\ ~(n <= n - 1)
    BY <2>3, <2>4
  <2>6. B[d] \subseteq B[n - 1] /\ B[n - 1] \subseteq B[n]
    BY <2>3, <2>5 DEF LayersGrow
  <2>7. QED
    BY <2>3, <2>6
<1>2. D \in 0..D /\ D >= d
  OBVIOUS
<1>3. QED
  BY <1>1, <1>2

LEMMA ItemsGrow ==
  ASSUME NEW S, NEW S2, S \subseteq S2
  PROVE  Items(S) \subseteq Items(S2)
BY SeqOfMore DEF Items

LEMMA BlocksOfGrows ==
  ASSUME NEW S, NEW S2, S \subseteq S2
  PROVE  BlocksOf(S) \subseteq BlocksOf(S2)
<1>1. Seq(S) \subseteq Seq(S2) /\ Seq(Items(S)) \subseteq Seq(Items(S2))
  BY ItemsGrow, SeqOfMore
<1>2. ListsOf(S) \subseteq ListsOf(S2)
  BY <1>1 DEF ListsOf
<1>3. QED
  BY <1>1, <1>2 DEF BlocksOf

LEMMA LeafBlocksGrows ==
  ASSUME NEW T, NEW T2, T \subseteq T2
  PROVE  LeafBlocks(T) \subseteq LeafBlocks(T2)
<1>1. Seq(Seq(T)) \subseteq Seq(Seq(T2))
  BY SeqOfMore
<1>2. QED
  BY <1>1 DEF LeafBlocks

LEMMA RichOfGrows ==
  ASSUME NEW S, NEW S2, S \subseteq S2
  PROVE  RichOf(S) \subseteq RichOf(S2)
<1>1. Seq(S) \subseteq Seq(S2) /\ Seq(Seq(S)) \subseteq Seq(Seq(S2))
  BY SeqOfMore
<1>2. QED
  BY <1>1 DEF RichOf

LEMMA LeafRichGrows ==
  ASSUME NEW T, NEW T2, T \subseteq T2
  PROVE  LeafRich(T) \subseteq LeafRich(T2)
<1>1. Seq(Seq(T)) \subseteq Seq(Seq(T2))
  BY SeqOfMore
<1>2. QED
  BY <1>1 DEF LeafRich

\* The layers of Blocks.
LEMMA BlocksUnfold ==
  ASSUME NEW T
  PROVE  \A d \in 0..MaxNestingDepth :
           Blocks(T)[d] = IF d = 0 THEN LeafBlocks(T)
                          ELSE LeafBlocks(T) \cup BlocksOf(Blocks(T)[d - 1])
<1> DEFINE D == MaxNestingDepth
           leaves == LeafBlocks(T)
           Value(d, f) == IF d = 0 THEN leaves ELSE leaves \cup BlocksOf(f[d - 1])
           Until(n, f) == f = [d \in 0..n |-> Value(d, f)]
           Bad == {n \in 0..D : ~\E f : Until(n, f)}
<1>1. D \in Nat
  BY BlocksAssumption, TreeAssumption
<1> HIDE DEF D, leaves
<1>2. \E f : Until(0, f)
  <2> DEFINE f == [d \in 0..0 |-> leaves]
  <2>1. f = [d \in 0..0 |-> Value(d, f)]
    <3>1. \A d \in 0..0 : d = 0
      OBVIOUS
    <3>2. QED
      BY <3>1
  <2> HIDE DEF f, Value
  <2>2. QED
    BY <2>1
<1>3. ASSUME NEW n \in 1..D, \E f : Until(n - 1, f)
      PROVE  \E f : Until(n, f)
  <2>1. PICK f : Until(n - 1, f)
    BY <1>3
  <2> DEFINE g == [d \in 0..n |-> Value(d, f)]
  <2>2. \A d \in 0..(n - 1) : d \in 0..n /\ f[d] = Value(d, f)
    <3> HIDE DEF Value
    <3>1. QED
      BY <2>1, <1>1
  <2>3. \A d \in 0..(n - 1) : g[d] = f[d]
    <3> HIDE DEF Value
    <3>1. QED
      BY <2>2
  <2>4. \A d \in 0..n : d = 0 \/ d - 1 \in 0..(n - 1)
    BY <1>1
  <2> HIDE DEF g
  <2>5. \A d \in 0..n : Value(d, f) = Value(d, g)
    BY <2>3, <2>4
  <2> HIDE DEF Value
  <2>6. g = [d \in 0..n |-> Value(d, g)]
    BY <2>5 DEF g
  <2>7. QED
    BY <2>6
<1> HIDE DEF Until
<1>4. Bad = {}
  <2>1. SUFFICES ASSUME Bad # {} PROVE FALSE
    OBVIOUS
  <2>2. Bad \in SUBSET Nat
    BY <1>1
  <2>3. PICK n \in Bad : \A m \in Bad : n <= m
    BY <2>1, <2>2, Least
  <2>4. n \in 1..D
    BY <1>1, <1>2
  <2>5. n - 1 \in 0..D /\ ~(n <= n - 1)
    BY <2>4, <1>1
  <2>6. \E f : Until(n - 1, f)
    BY <2>3, <2>5
  <2>7. QED
    BY <1>3, <2>3, <2>4, <2>6
<1>5. D \in 0..D
  BY <1>1
<1>6. Until(D, CHOOSE f : Until(D, f))
  BY <1>4, <1>5
<1>7. Blocks(T) = CHOOSE f : Until(D, f)
  BY DEF Blocks, Until, D, leaves
<1> DEFINE layer == Blocks(T)
<1>8. layer = [d \in 0..D |-> Value(d, layer)]
  BY <1>6, <1>7 DEF Until
<1> HIDE DEF layer
<1>9. \A d \in 0..D : layer[d] = Value(d, layer)
  <2> HIDE DEF Value
  <2>1. QED
    BY <1>8
<1>10. QED
  BY <1>9 DEF layer, D, leaves

LEMMA BlocksGrow ==
  ASSUME NEW T
  PROVE  LayersGrow(MaxNestingDepth, Blocks(T))
<1> DEFINE D == MaxNestingDepth
           leaves == LeafBlocks(T)
           B == Blocks(T)
           Bad == {d \in 1..D : ~(B[d - 1] \subseteq B[d])}
<1>1. D \in Nat /\ \A d \in 0..D : B[d] = IF d = 0 THEN leaves ELSE leaves \cup BlocksOf(B[d - 1])
  BY BlocksUnfold, BlocksAssumption, TreeAssumption
<1> HIDE DEF D, leaves, B
<1>2. Bad = {}
  <2>1. SUFFICES ASSUME Bad # {} PROVE FALSE
    OBVIOUS
  <2>2. Bad \in SUBSET Nat
    BY <1>1
  <2>3. PICK d \in Bad : \A m \in Bad : d <= m
    BY <2>1, <2>2, Least
  <2>4. d \in 1..D /\ d \in 0..D /\ d # 0 /\ d - 1 \in 0..D
    BY <2>3, <1>1
  <2>5. B[d] = leaves \cup BlocksOf(B[d - 1])
    BY <2>4, <1>1
  <2>6. CASE d - 1 = 0
    <3>1. B[d - 1] = leaves
      BY <2>4, <2>6, <1>1
    <3>2. QED
      BY <2>3, <2>5, <3>1
  <2>7. CASE d - 1 # 0
    <3>1. d - 1 \in 1..D /\ ~(d <= d - 1)
      BY <2>4, <2>7, <1>1
    <3>2. B[d - 1 - 1] \subseteq B[d - 1]
      BY <2>3, <3>1
    <3>3. B[d - 1] = leaves \cup BlocksOf(B[d - 1 - 1])
      BY <2>4, <2>7, <1>1
    <3>4. BlocksOf(B[d - 1 - 1]) \subseteq BlocksOf(B[d - 1])
      BY <3>2, BlocksOfGrows
    <3>5. QED
      BY <2>3, <2>5, <3>3, <3>4
  <2>8. QED
    BY <2>6, <2>7
<1>3. QED
  BY <1>2 DEF LayersGrow, D, B

LEMMA BlocksOfMore ==
  ASSUME NEW T, NEW T2, T \subseteq T2, NEW d \in 0..MaxNestingDepth
  PROVE  Blocks(T)[d] \subseteq Blocks(T2)[d]
<1> DEFINE D == MaxNestingDepth
           B == Blocks(T)
           B2 == Blocks(T2)
           Bad == {n \in 0..D : ~(B[n] \subseteq B2[n])}
<1>1. /\ D \in Nat
      /\ \A n \in 0..D : B[n] = IF n = 0 THEN LeafBlocks(T) ELSE LeafBlocks(T) \cup BlocksOf(B[n - 1])
  BY BlocksUnfold, BlocksAssumption, TreeAssumption
<1>2. \A n \in 0..D : B2[n] = IF n = 0 THEN LeafBlocks(T2) ELSE LeafBlocks(T2) \cup BlocksOf(B2[n - 1])
  BY BlocksUnfold
<1>3. LeafBlocks(T) \subseteq LeafBlocks(T2)
  BY LeafBlocksGrows
<1> HIDE DEF D, B, B2
<1>4. Bad = {}
  <2>1. SUFFICES ASSUME Bad # {} PROVE FALSE
    OBVIOUS
  <2>2. Bad \in SUBSET Nat
    BY <1>1
  <2>3. PICK n \in Bad : \A m \in Bad : n <= m
    BY <2>1, <2>2, Least
  <2>4. n # 0
    BY <2>3, <1>1, <1>2, <1>3
  <2>5. n \in 0..D /\ n - 1 \in 0..D /\ ~(n <= n - 1)
    BY <2>3, <2>4, <1>1
  <2>6. B[n - 1] \subseteq B2[n - 1]
    BY <2>3, <2>5
  <2>7. BlocksOf(B[n - 1]) \subseteq BlocksOf(B2[n - 1])
    BY <2>6, BlocksOfGrows
  <2>8. B[n] \subseteq B2[n]
    BY <2>4, <2>5, <2>7, <1>1, <1>2, <1>3
  <2>9. QED
    BY <2>3, <2>8
<1>5. QED
  BY <1>4 DEF D, B, B2

\* The layers of Riches.
LEMMA RichesUnfold ==
  ASSUME NEW T
  PROVE  \A d \in 0..MaxNestingDepth :
           Riches(T)[d] = IF d = 0 THEN LeafRich(T)
                          ELSE LeafRich(T) \cup RichOf(Riches(T)[d - 1])
<1> DEFINE D == MaxNestingDepth
           leaves == LeafRich(T)
           Value(d, f) == IF d = 0 THEN leaves ELSE leaves \cup RichOf(f[d - 1])
           Until(n, f) == f = [d \in 0..n |-> Value(d, f)]
           Bad == {n \in 0..D : ~\E f : Until(n, f)}
<1>1. D \in Nat
  BY BlocksAssumption, TreeAssumption
<1> HIDE DEF D, leaves
<1>2. \E f : Until(0, f)
  <2> DEFINE f == [d \in 0..0 |-> leaves]
  <2>1. f = [d \in 0..0 |-> Value(d, f)]
    <3>1. \A d \in 0..0 : d = 0
      OBVIOUS
    <3>2. QED
      BY <3>1
  <2> HIDE DEF f, Value
  <2>2. QED
    BY <2>1
<1>3. ASSUME NEW n \in 1..D, \E f : Until(n - 1, f)
      PROVE  \E f : Until(n, f)
  <2>1. PICK f : Until(n - 1, f)
    BY <1>3
  <2> DEFINE g == [d \in 0..n |-> Value(d, f)]
  <2>2. \A d \in 0..(n - 1) : d \in 0..n /\ f[d] = Value(d, f)
    <3> HIDE DEF Value
    <3>1. QED
      BY <2>1, <1>1
  <2>3. \A d \in 0..(n - 1) : g[d] = f[d]
    <3> HIDE DEF Value
    <3>1. QED
      BY <2>2
  <2>4. \A d \in 0..n : d = 0 \/ d - 1 \in 0..(n - 1)
    BY <1>1
  <2> HIDE DEF g
  <2>5. \A d \in 0..n : Value(d, f) = Value(d, g)
    BY <2>3, <2>4
  <2> HIDE DEF Value
  <2>6. g = [d \in 0..n |-> Value(d, g)]
    BY <2>5 DEF g
  <2>7. QED
    BY <2>6
<1> HIDE DEF Until
<1>4. Bad = {}
  <2>1. SUFFICES ASSUME Bad # {} PROVE FALSE
    OBVIOUS
  <2>2. Bad \in SUBSET Nat
    BY <1>1
  <2>3. PICK n \in Bad : \A m \in Bad : n <= m
    BY <2>1, <2>2, Least
  <2>4. n \in 1..D
    BY <1>1, <1>2
  <2>5. n - 1 \in 0..D /\ ~(n <= n - 1)
    BY <2>4, <1>1
  <2>6. \E f : Until(n - 1, f)
    BY <2>3, <2>5
  <2>7. QED
    BY <1>3, <2>3, <2>4, <2>6
<1>5. D \in 0..D
  BY <1>1
<1>6. Until(D, CHOOSE f : Until(D, f))
  BY <1>4, <1>5
<1>7. Riches(T) = CHOOSE f : Until(D, f)
  BY DEF Riches, Until, D, leaves
<1> DEFINE layer == Riches(T)
<1>8. layer = [d \in 0..D |-> Value(d, layer)]
  BY <1>6, <1>7 DEF Until
<1> HIDE DEF layer
<1>9. \A d \in 0..D : layer[d] = Value(d, layer)
  <2> HIDE DEF Value
  <2>1. QED
    BY <1>8
<1>10. QED
  BY <1>9 DEF layer, D, leaves

LEMMA RichesGrow ==
  ASSUME NEW T
  PROVE  LayersGrow(MaxNestingDepth, Riches(T))
<1> DEFINE D == MaxNestingDepth
           leaves == LeafRich(T)
           B == Riches(T)
           Bad == {d \in 1..D : ~(B[d - 1] \subseteq B[d])}
<1>1. D \in Nat /\ \A d \in 0..D : B[d] = IF d = 0 THEN leaves ELSE leaves \cup RichOf(B[d - 1])
  BY RichesUnfold, BlocksAssumption, TreeAssumption
<1> HIDE DEF D, leaves, B
<1>2. Bad = {}
  <2>1. SUFFICES ASSUME Bad # {} PROVE FALSE
    OBVIOUS
  <2>2. Bad \in SUBSET Nat
    BY <1>1
  <2>3. PICK d \in Bad : \A m \in Bad : d <= m
    BY <2>1, <2>2, Least
  <2>4. d \in 1..D /\ d \in 0..D /\ d # 0 /\ d - 1 \in 0..D
    BY <2>3, <1>1
  <2>5. B[d] = leaves \cup RichOf(B[d - 1])
    BY <2>4, <1>1
  <2>6. CASE d - 1 = 0
    <3>1. B[d - 1] = leaves
      BY <2>4, <2>6, <1>1
    <3>2. QED
      BY <2>3, <2>5, <3>1
  <2>7. CASE d - 1 # 0
    <3>1. d - 1 \in 1..D /\ ~(d <= d - 1)
      BY <2>4, <2>7, <1>1
    <3>2. B[d - 1 - 1] \subseteq B[d - 1]
      BY <2>3, <3>1
    <3>3. B[d - 1] = leaves \cup RichOf(B[d - 1 - 1])
      BY <2>4, <2>7, <1>1
    <3>4. RichOf(B[d - 1 - 1]) \subseteq RichOf(B[d - 1])
      BY <3>2, RichOfGrows
    <3>5. QED
      BY <2>3, <2>5, <3>3, <3>4
  <2>8. QED
    BY <2>6, <2>7
<1>3. QED
  BY <1>2 DEF LayersGrow, D, B

LEMMA RichesOfMore ==
  ASSUME NEW T, NEW T2, T \subseteq T2, NEW d \in 0..MaxNestingDepth
  PROVE  Riches(T)[d] \subseteq Riches(T2)[d]
<1> DEFINE D == MaxNestingDepth
           B == Riches(T)
           B2 == Riches(T2)
           Bad == {n \in 0..D : ~(B[n] \subseteq B2[n])}
<1>1. /\ D \in Nat
      /\ \A n \in 0..D : B[n] = IF n = 0 THEN LeafRich(T) ELSE LeafRich(T) \cup RichOf(B[n - 1])
  BY RichesUnfold, BlocksAssumption, TreeAssumption
<1>2. \A n \in 0..D : B2[n] = IF n = 0 THEN LeafRich(T2) ELSE LeafRich(T2) \cup RichOf(B2[n - 1])
  BY RichesUnfold
<1>3. LeafRich(T) \subseteq LeafRich(T2)
  BY LeafRichGrows
<1> HIDE DEF D, B, B2
<1>4. Bad = {}
  <2>1. SUFFICES ASSUME Bad # {} PROVE FALSE
    OBVIOUS
  <2>2. Bad \in SUBSET Nat
    BY <1>1
  <2>3. PICK n \in Bad : \A m \in Bad : n <= m
    BY <2>1, <2>2, Least
  <2>4. n # 0
    BY <2>3, <1>1, <1>2, <1>3
  <2>5. n \in 0..D /\ n - 1 \in 0..D /\ ~(n <= n - 1)
    BY <2>3, <2>4, <1>1
  <2>6. B[n - 1] \subseteq B2[n - 1]
    BY <2>3, <2>5
  <2>7. RichOf(B[n - 1]) \subseteq RichOf(B2[n - 1])
    BY <2>6, RichOfGrows
  <2>8. B[n] \subseteq B2[n]
    BY <2>4, <2>5, <2>7, <1>1, <1>2, <1>3
  <2>9. QED
    BY <2>3, <2>8
<1>5. QED
  BY <1>4 DEF D, B, B2

-----------------------------------------------------------------------------
(* Functions on trees.  B[d] are the trees of depth d, V[d] what the         *)
(* function makes of them; step computes it, given the function below.       *)

StepTyped(D, B, V, W, step) ==
  \A d \in 0..D : \A b \in B[d] : \A g \in [B[D] -> W] :
    (d = 0 \/ \A c \in B[d - 1] : g[c] \in V[d - 1]) => step[<<b, g>>] \in V[d]

StepLocal(D, B, W, step) ==
  \A d \in 0..D : \A b \in B[d] : \A g \in [B[D] -> W], h \in [B[D] -> W] :
    (d = 0 \/ \A c \in B[d - 1] : g[c] = h[c]) => step[<<b, g>>] = step[<<b, h>>]

TreeSolves(D, B, step, f) == \A b \in B[D] : f[b] = step[<<b, f>>]

LEMMA TreeRecursion ==
  ASSUME NEW D \in Nat, NEW B, NEW V, NEW W, NEW w \in W, LayersGrow(D, B),
         \A d \in 0..D : V[d] \subseteq W,
         NEW step, StepTyped(D, B, V, W, step), StepLocal(D, B, W, step)
  PROVE  \E f \in [B[D] -> W] : TreeSolves(D, B, step, f)
<1> DEFINE F == [B[D] -> W]
           Until(n, g) == /\ \A b \in B[n] : g[b] = step[<<b, g>>]
                          /\ \A d \in 0..n : \A b \in B[d] : g[b] \in V[d]
           Has(n) == \E g \in F : Until(n, g)
           Bad == {n \in 0..D : ~Has(n)}
<1>1. ASSUME NEW n \in 0..D, NEW g \in F,
             \A d \in 0..(n - 1) : \A b \in B[d] : g[b] \in V[d],
             n = 0 \/ \A b \in B[n - 1] : g[b] = step[<<b, g>>]
      PROVE  Has(n)
  <2> DEFINE h == [b \in B[D] |-> IF b \in B[n] THEN step[<<b, g>>] ELSE w]
  <2>1. B[n] \subseteq B[D]
    BY Increasing
  <2>2. ASSUME NEW b \in B[n]
        PROVE  step[<<b, g>>] \in V[n]
    <3>1. n = 0 \/ \A c \in B[n - 1] : g[c] \in V[n - 1]
      <4>1. n # 0 => n - 1 \in 0..(n - 1)
        OBVIOUS
      <4>2. QED
        BY <4>1, <1>1
    <3>2. QED
      BY <3>1 DEF StepTyped
  <2>3. h \in F /\ \A b \in B[n] : h[b] = step[<<b, g>>] /\ h[b] \in V[n]
    <3>1. \A b \in B[n] : step[<<b, g>>] \in W
      BY <2>2
    <3>2. QED
      BY <3>1, <2>1, <2>2
  <2> HIDE DEF h
  <2>4. \A d \in 0..(n - 1) : \A b \in B[d] : b \in B[n] /\ h[b] = g[b] /\ h[b] \in V[d]
    <3>1. ASSUME NEW d \in 0..(n - 1), NEW b \in B[d]
          PROVE  b \in B[n] /\ b \in B[n - 1]
      <4>1. n - 1 \in Nat /\ n \in 1..D /\ d \in 0..(n - 1)
        OBVIOUS
      <4>2. LayersGrow(n - 1, B)
        BY <4>1 DEF LayersGrow
      <4>3. B[d] \subseteq B[n - 1]
        BY <4>1, <4>2, Increasing
      <4>4. B[n - 1] \subseteq B[n]
        BY <4>1 DEF LayersGrow
      <4>5. QED
        BY <4>3, <4>4
    <3>2. ASSUME NEW d \in 0..(n - 1), NEW b \in B[d]
          PROVE  h[b] = g[b] /\ g[b] \in V[d]
      <4>1. b \in B[n] /\ b \in B[n - 1] /\ n # 0
        BY <3>1
      <4>2. g[b] = step[<<b, g>>]
        BY <4>1, <1>1
      <4>3. QED
        BY <4>1, <4>2, <2>3, <1>1
    <3>3. QED
      BY <3>1, <3>2
  <2>5. ASSUME NEW b \in B[n]
        PROVE  h[b] = step[<<b, h>>]
    <3>1. n = 0 \/ \A c \in B[n - 1] : g[c] = h[c]
      <4>1. n # 0 => n - 1 \in 0..(n - 1)
        OBVIOUS
      <4>2. QED
        BY <4>1, <2>4
    <3>2. step[<<b, g>>] = step[<<b, h>>]
      BY <3>1, <2>3 DEF StepLocal
    <3>3. QED
      BY <3>2, <2>3
  <2>6. \A d \in 0..n : \A b \in B[d] : h[b] \in V[d]
    <3>1. \A d \in 0..n : d = n \/ d \in 0..(n - 1)
      OBVIOUS
    <3>2. QED
      BY <3>1, <2>3, <2>4
  <2>7. QED
    BY <2>3, <2>5, <2>6
<1>2. Has(0)
  <2> DEFINE g == [b \in B[D] |-> w]
  <2>1. g \in F
    OBVIOUS
  <2>2. 0 \in 0..D /\ 0..(0 - 1) = {}
    OBVIOUS
  <2> HIDE DEF g, F, Has
  <2>3. QED
    BY <2>1, <2>2, <1>1
<1>3. ASSUME NEW n \in 1..D, Has(n - 1)
      PROVE  Has(n)
  <2>1. PICK g \in F : Until(n - 1, g)
    BY <1>3
  <2>2. n \in 0..D
    OBVIOUS
  <2> HIDE DEF F, Has
  <2>3. QED
    BY <2>1, <2>2, <1>1
<1> HIDE DEF Has
<1>4. Bad = {}
  <2>1. SUFFICES ASSUME Bad # {} PROVE FALSE
    OBVIOUS
  <2>2. Bad \in SUBSET Nat
    OBVIOUS
  <2>3. PICK n \in Bad : \A m \in Bad : n <= m
    BY <2>1, <2>2, Least
  <2>4. n \in 1..D
    BY <2>3, <1>2
  <2>5. n - 1 \in 0..D /\ ~(n <= n - 1)
    BY <2>4
  <2>6. Has(n - 1)
    BY <2>3, <2>5
  <2>7. QED
    BY <1>3, <2>3, <2>4, <2>6
<1>5. Has(D)
  <2>1. D \in 0..D
    OBVIOUS
  <2>2. QED
    BY <1>4, <2>1
<1>6. QED
  BY <1>5 DEF Has, TreeSolves

TreeTyped(D, B, V, f) == \A d \in 0..D : \A b \in B[d] : f[b] \in V[d]

LEMMA TreeTypes ==
  ASSUME NEW D \in Nat, NEW B, NEW V, NEW f,
         \A d \in 0..D : \A b \in B[d] :
           (d = 0 \/ \A c \in B[d - 1] : f[c] \in V[d - 1]) => f[b] \in V[d]
  PROVE  TreeTyped(D, B, V, f)
<1> DEFINE Bad == {d \in 0..D : ~\A b \in B[d] : f[b] \in V[d]}
<1>1. SUFFICES ASSUME Bad # {} PROVE FALSE
  BY DEF TreeTyped
<1>2. Bad \in SUBSET Nat
  OBVIOUS
<1>3. PICK d \in Bad : \A m \in Bad : d <= m
  BY <1>1, <1>2, Least
<1>4. d = 0 \/ (d - 1 \in 0..D /\ ~(d <= d - 1))
  OBVIOUS
<1>5. d = 0 \/ \A c \in B[d - 1] : f[c] \in V[d - 1]
  BY <1>3, <1>4
<1>6. QED
  BY <1>3, <1>5

-----------------------------------------------------------------------------
(* What a block, native or not, has in it.                                   *)

LEMMA BlockKinds ==
  ASSUME NEW T, NEW d \in 0..MaxNestingDepth, NEW b \in Blocks(T)[d]
  PROVE  /\ b.type \in {"paragraph", "heading", "code", "plain", "table", "rule",
                        "blockquote", "list"}
         /\ b.type \in {"paragraph", "heading", "code", "plain"} => b.text \in T
         /\ b.type = "table" => b.rows \in Seq(Seq(T)) /\ b.rows # <<>>
         /\ b.type = "blockquote" => /\ d # 0 /\ d - 1 \in 0..MaxNestingDepth
                                     /\ b.blocks \in Seq(Blocks(T)[d - 1])
         /\ b.type = "list" => /\ d # 0 /\ d - 1 \in 0..MaxNestingDepth
                               /\ b \in ListsOf(Blocks(T)[d - 1])
<1>1. b \in LeafBlocks(T) \/ (d # 0 /\ b \in BlocksOf(Blocks(T)[d - 1]))
  BY BlocksUnfold
<1>2. CASE b \in LeafBlocks(T)
  BY <1>2 DEF LeafBlocks
<1>3. CASE d # 0 /\ b \in BlocksOf(Blocks(T)[d - 1])
  <2>1. d - 1 \in 0..MaxNestingDepth
    BY <1>3, BlocksAssumption
  <2>2. CASE b \in [type: {"blockquote"}, blocks: Seq(Blocks(T)[d - 1])]
    BY <1>3, <2>1, <2>2
  <2>3. CASE b \in ListsOf(Blocks(T)[d - 1])
    <3>1. b.type = "list"
      BY <2>3 DEF ListsOf
    <3>2. QED
      BY <1>3, <2>1, <2>3, <3>1
  <2>4. QED
    BY <1>3, <2>2, <2>3 DEF BlocksOf
<1>4. QED
  BY <1>1, <1>2, <1>3

LEMMA ListKinds ==
  ASSUME NEW S, NEW list \in ListsOf(S)
  PROVE  /\ list.type = "list" /\ IsListHead(list)
         /\ list.items \in Seq(Items(S)) /\ list.items # <<>>
         /\ \A i \in 1..Len(list.items) :
              list.items[i] \in Items(S) /\ list.items[i].blocks \in Seq(S)
<1>1. /\ list.type = "list" /\ list.ordered \in BOOLEAN /\ list.start \in Nat
      /\ list.items \in Seq(Items(S)) /\ list.items # <<>>
  BY DEF ListsOf
<1>2. /\ DOMAIN list.items = 1..Len(list.items) /\ Len(list.items) \in Nat
      /\ \A i \in 1..Len(list.items) : list.items[i] \in Items(S)
  BY <1>1
<1>3. \A item \in Items(S) : /\ item.blocks \in Seq(S)
                             /\ item.checked \in {"done", "open", "unset"}
  BY DEF Items
<1>4. QED
  BY <1>1, <1>2, <1>3 DEF IsListHead

LEMMA LeafIsBlock ==
  ASSUME NEW T, NEW d \in 0..MaxNestingDepth
  PROVE  LeafBlocks(T) \subseteq Blocks(T)[d]
BY BlocksUnfold

LEMMA HolderIsBlock ==
  ASSUME NEW T, NEW d \in 0..MaxNestingDepth, d # 0
  PROVE  BlocksOf(Blocks(T)[d - 1]) \subseteq Blocks(T)[d]
BY BlocksUnfold

LEMMA RichKinds ==
  ASSUME NEW T, NEW d \in 0..MaxNestingDepth, NEW b \in Riches(T)[d]
  PROVE  /\ b.type \in {"paragraph", "heading", "pre", "table", "divider",
                        "blockquote", "list"}
         /\ b.type \in {"paragraph", "heading", "pre"} => b.text \in T
         /\ b.type = "table" => b.cells \in Seq(Seq(T))
         /\ b.type = "blockquote" => /\ d # 0 /\ d - 1 \in 0..MaxNestingDepth
                                     /\ b.blocks \in Seq(Riches(T)[d - 1])
         /\ b.type = "list" => /\ d # 0 /\ d - 1 \in 0..MaxNestingDepth
                               /\ b.items \in Seq(Seq(Riches(T)[d - 1]))
<1>1. b \in LeafRich(T) \/ (d # 0 /\ b \in RichOf(Riches(T)[d - 1]))
  BY RichesUnfold
<1>2. CASE b \in LeafRich(T)
  BY <1>2 DEF LeafRich
<1>3. CASE d # 0 /\ b \in RichOf(Riches(T)[d - 1])
  <2>1. d - 1 \in 0..MaxNestingDepth
    BY <1>3, BlocksAssumption
  <2>2. QED
    BY <1>3, <2>1 DEF RichOf
<1>4. QED
  BY <1>1, <1>2, <1>3

LEMMA LeafIsRich ==
  ASSUME NEW T, NEW d \in 0..MaxNestingDepth
  PROVE  LeafRich(T) \subseteq Riches(T)[d]
BY RichesUnfold

LEMMA HolderIsRich ==
  ASSUME NEW T, NEW d \in 0..MaxNestingDepth, d # 0
  PROVE  RichOf(Riches(T)[d - 1]) \subseteq Riches(T)[d]
BY RichesUnfold

-----------------------------------------------------------------------------
(* A function on blocks is computed from its values for what a block holds.  *)

Mapped(s, g) == [i \in DOMAIN s |-> g[s[i]]]
MappedAll(ss, g) == [i \in DOMAIN ss |-> Mapped(ss[i], g)]
MappedItems(items, g) == [i \in DOMAIN items |-> Mapped(items[i].blocks, g)]

LEMMA MappedType ==
  ASSUME NEW S, NEW V, NEW s \in Seq(S), NEW g, \A c \in S : g[c] \in V
  PROVE  Mapped(s, g) \in Seq(V) /\ Len(Mapped(s, g)) = Len(s)
<1>1. DOMAIN s = 1..Len(s) /\ Len(s) \in Nat /\ \A i \in 1..Len(s) : s[i] \in S
  OBVIOUS
<1>2. \A i \in 1..Len(s) : g[s[i]] \in V
  BY <1>1
<1>3. QED
  BY <1>1, <1>2 DEF Mapped

LEMMA MappedSame ==
  ASSUME NEW S, NEW s \in Seq(S), NEW g, NEW h, \A c \in S : g[c] = h[c]
  PROVE  Mapped(s, g) = Mapped(s, h)
<1>1. \A i \in DOMAIN s : g[s[i]] = h[s[i]]
  OBVIOUS
<1>2. QED
  BY <1>1 DEF Mapped

LEMMA MappedAllType ==
  ASSUME NEW S, NEW V, NEW ss \in Seq(Seq(S)), NEW g, \A c \in S : g[c] \in V
  PROVE  MappedAll(ss, g) \in Seq(Seq(V))
<1>1. DOMAIN ss = 1..Len(ss) /\ Len(ss) \in Nat /\ \A i \in 1..Len(ss) : ss[i] \in Seq(S)
  OBVIOUS
<1>2. \A i \in 1..Len(ss) : Mapped(ss[i], g) \in Seq(V)
  BY <1>1, MappedType
<1>3. QED
  BY <1>1, <1>2 DEF MappedAll

LEMMA MappedAllSame ==
  ASSUME NEW S, NEW ss \in Seq(Seq(S)), NEW g, NEW h, \A c \in S : g[c] = h[c]
  PROVE  MappedAll(ss, g) = MappedAll(ss, h)
<1>1. \A i \in DOMAIN ss : Mapped(ss[i], g) = Mapped(ss[i], h)
  BY MappedSame
<1>2. QED
  BY <1>1 DEF MappedAll

LEMMA MappedItemsType ==
  ASSUME NEW S, NEW V, NEW items \in Seq(Items(S)), NEW g, \A c \in S : g[c] \in V
  PROVE  /\ MappedItems(items, g) \in Seq(Seq(V))
         /\ \A i \in 1..Len(items) : MappedItems(items, g)[i] \in Seq(V)
<1>a. /\ DOMAIN items = 1..Len(items) /\ Len(items) \in Nat
      /\ \A i \in 1..Len(items) : items[i] \in Items(S)
  OBVIOUS
<1>b. \A item \in Items(S) : item.blocks \in Seq(S)
  BY DEF Items
<1>1. /\ DOMAIN items = 1..Len(items) /\ Len(items) \in Nat
      /\ \A i \in 1..Len(items) : items[i].blocks \in Seq(S)
  BY <1>a, <1>b
<1>2. \A i \in 1..Len(items) : Mapped(items[i].blocks, g) \in Seq(V)
  BY <1>1, MappedType
<1>3. QED
  BY <1>1, <1>2 DEF MappedItems

LEMMA MappedItemsSame ==
  ASSUME NEW S, NEW items \in Seq(Items(S)), NEW g, NEW h, \A c \in S : g[c] = h[c]
  PROVE  MappedItems(items, g) = MappedItems(items, h)
<1>a. \A item \in Items(S) : item.blocks \in Seq(S)
  BY DEF Items
<1>1. \A i \in DOMAIN items : items[i].blocks \in Seq(S)
  BY <1>a
<1>2. \A i \in DOMAIN items : Mapped(items[i].blocks, g) = Mapped(items[i].blocks, h)
  BY <1>1, MappedSame
<1>3. QED
  BY <1>2 DEF MappedItems

LEMMA SameBelow ==
  ASSUME NEW T, NEW d \in 0..MaxNestingDepth, NEW b \in Blocks(T)[d], NEW g, NEW h,
         d = 0 \/ \A c \in Blocks(T)[d - 1] : g[c] = h[c]
  PROVE  /\ b.type = "blockquote" => Mapped(b.blocks, g) = Mapped(b.blocks, h)
         /\ b.type = "list" => MappedItems(b.items, g) = MappedItems(b.items, h)
<1>1. CASE b.type = "blockquote"
  <2>1. d # 0 /\ b.blocks \in Seq(Blocks(T)[d - 1])
    BY <1>1, BlockKinds
  <2>2. QED
    BY <1>1, <2>1, MappedSame
<1>2. CASE b.type = "list"
  <2>1. d # 0 /\ b \in ListsOf(Blocks(T)[d - 1])
    BY <1>2, BlockKinds
  <2>2. b.items \in Seq(Items(Blocks(T)[d - 1]))
    BY <2>1, ListKinds
  <2>3. QED
    BY <1>2, <2>1, <2>2, MappedItemsSame
<1>3. QED
  BY <1>1, <1>2

-----------------------------------------------------------------------------
(* Plain text.                                                               *)

PlainStep(block, g) ==
  IF block.type = "blockquote" THEN QuoteText(Mapped(block.blocks, g))
  ELSE IF block.type = "list" THEN ListText(block, MappedItems(block.items, g))
  ELSE LeafText(block)

LEMMA RuleType ==
  ASSUME NEW T, IsTextClass(T)
  PROVE  [i \in 1..10 |-> "-"] \in T
<1>1. "-" \in Unit \ {"H", "L"}
  BY SignsAreUnits
<1>2. 10 \in Int
  OBVIOUS
<1>3. QED
  BY <1>1, <1>2, RepeatType

LEMMA PlainStepType ==
  ASSUME NEW T, IsTextClass(T), NEW d \in 0..MaxNestingDepth, NEW b \in Blocks(T)[d],
         NEW g, d = 0 \/ \A c \in Blocks(T)[d - 1] : g[c] \in T
  PROVE  PlainStep(b, g) \in T
<1>1. CASE b.type \in {"paragraph", "heading", "code", "plain"}
  BY <1>1, BlockKinds DEF PlainStep, LeafText
<1>2. CASE b.type = "blockquote"
  <2>1. d # 0 /\ b.blocks \in Seq(Blocks(T)[d - 1])
    BY <1>2, BlockKinds
  <2>2. Mapped(b.blocks, g) \in Seq(T)
    BY <2>1, MappedType
  <2>3. QED
    BY <1>2, <2>2, QuoteTextType DEF PlainStep
<1>3. CASE b.type = "list"
  <2>1. d # 0 /\ b \in ListsOf(Blocks(T)[d - 1])
    BY <1>3, BlockKinds
  <2>2. IsListHead(b) /\ b.items \in Seq(Items(Blocks(T)[d - 1]))
    BY <2>1, ListKinds
  <2>3. \A i \in 1..Len(b.items) : MappedItems(b.items, g)[i] \in Seq(T)
    BY <2>1, <2>2, MappedItemsType
  <2>4. QED
    BY <1>3, <2>2, <2>3, ListTextType DEF PlainStep
<1>4. CASE b.type = "table"
  BY <1>4, BlockKinds, CellsType DEF PlainStep, LeafText
<1>5. CASE b.type = "rule"
  BY <1>5, RuleType DEF PlainStep, LeafText
<1>6. QED
  BY <1>1, <1>2, <1>3, <1>4, <1>5, BlockKinds

LEMMA PlainStepLocal ==
  ASSUME NEW T, NEW d \in 0..MaxNestingDepth, NEW b \in Blocks(T)[d], NEW g, NEW h,
         d = 0 \/ \A c \in Blocks(T)[d - 1] : g[c] = h[c]
  PROVE  PlainStep(b, g) = PlainStep(b, h)
<1>1. /\ b.type = "blockquote" => Mapped(b.blocks, g) = Mapped(b.blocks, h)
      /\ b.type = "list" => MappedItems(b.items, g) = MappedItems(b.items, h)
  BY SameBelow
<1>2. CASE b.type = "blockquote"
  BY <1>1, <1>2 DEF PlainStep
<1>3. CASE b.type = "list"
  BY <1>1, <1>3 DEF PlainStep
<1>4. CASE b.type \notin {"blockquote", "list"}
  BY <1>4 DEF PlainStep
<1>5. QED
  BY <1>2, <1>3, <1>4

LEMMA PlainTextUnfold == \A b \in Block : PlainText[b] = PlainStep(b, PlainText)
<1> DEFINE D == MaxNestingDepth
           B == Blocks(AnyText)
           W == AnyText
           V == [d \in 0..D |-> AnyText]
           step == [p \in B[D] \X [B[D] -> W] |-> PlainStep(p[1], p[2])]
           Unfolds(f) == f = [b \in Block |-> PlainStep(b, f)]
<1>1. D \in Nat /\ LayersGrow(D, B) /\ IsTextClass(AnyText) /\ B[D] = Block
  BY BlocksGrow, AnyIsClass, BlocksAssumption, TreeAssumption DEF Block
<1>2. <<>> \in W /\ \A d \in 0..D : V[d] \subseteq W
  BY AnyIsClass, ClassBasics
<1>3. \A d \in 0..D : B[d] \subseteq B[D]
  <2> HIDE DEF D, B
  <2>1. QED
    BY <1>1, Increasing
<1>4. ASSUME NEW b \in B[D], NEW g \in [B[D] -> W]
      PROVE  step[<<b, g>>] = PlainStep(b, g)
  <2>1. <<b, g>> \in B[D] \X [B[D] -> W]
    OBVIOUS
  <2>2. QED
    BY <2>1
<1> HIDE DEF step
<1>5. StepTyped(D, B, V, W, step)
  <2> SUFFICES ASSUME NEW d \in 0..D, NEW b \in B[d], NEW g \in [B[D] -> W],
                      d = 0 \/ \A c \in B[d - 1] : g[c] \in V[d - 1]
               PROVE  step[<<b, g>>] \in V[d]
    BY DEF StepTyped
  <2>1. d = 0 \/ d - 1 \in 0..D
    BY <1>1
  <2>2. PlainStep(b, g) \in V[d]
    BY <1>1, <2>1, PlainStepType
  <2>3. QED
    BY <1>3, <1>4, <2>2
<1>6. StepLocal(D, B, W, step)
  <2> SUFFICES ASSUME NEW d \in 0..D, NEW b \in B[d],
                      NEW g \in [B[D] -> W], NEW h \in [B[D] -> W],
                      d = 0 \/ \A c \in B[d - 1] : g[c] = h[c]
               PROVE  step[<<b, g>>] = step[<<b, h>>]
    BY DEF StepLocal
  <2>1. PlainStep(b, g) = PlainStep(b, h)
    BY PlainStepLocal
  <2>2. b \in B[D]
    BY <1>3
  <2>3. QED
    BY <1>4, <2>1, <2>2
<1>7. PICK f \in [B[D] -> W] : TreeSolves(D, B, step, f)
  <2> HIDE DEF D, B, V, W
  <2>1. QED
    BY <1>1, <1>2, <1>5, <1>6, TreeRecursion
<1>8. Unfolds(f)
  <2> HIDE DEF D, B, W
  <2>1. \A b \in B[D] : f[b] = PlainStep(b, f)
    BY <1>4, <1>7 DEF TreeSolves
  <2>2. f = [b \in B[D] |-> f[b]]
    BY <1>7
  <2>3. f = [b \in B[D] |-> PlainStep(b, f)]
    BY <2>1, <2>2, Zenon
  <2>4. QED
    BY <1>1, <2>3, Zenon
<1>9. Unfolds(CHOOSE g : Unfolds(g))
  <2> HIDE DEF Unfolds
  <2>1. QED
    BY <1>8
<1>10. PlainText = CHOOSE g : Unfolds(g)
  BY DEF PlainText, PlainStep, Mapped, MappedItems
<1>11. Unfolds(PlainText)
  BY <1>9, <1>10
<1>12. PlainText = [b \in Block |-> PlainStep(b, PlainText)]
  BY <1>11
<1>13. QED
  BY <1>12, Zenon

LEMMA PlainTextType ==
  ASSUME NEW T, IsTextClass(T), NEW d \in 0..MaxNestingDepth, NEW b \in Blocks(T)[d]
  PROVE  PlainText[b] \in T
<1> DEFINE D == MaxNestingDepth
           B == Blocks(T)
           W == [n \in 0..D |-> T]
<1>1. D \in Nat /\ T \subseteq AnyText /\ LayersGrow(D, Blocks(AnyText))
  BY BlocksGrow, BlocksAssumption, TreeAssumption DEF IsTextClass
<1>2. \A n \in 0..D : B[n] \subseteq Block
  <2>1. \A n \in 0..D : B[n] \subseteq Blocks(AnyText)[n]
    BY <1>1, BlocksOfMore
  <2>2. \A n \in 0..D : Blocks(AnyText)[n] \subseteq Blocks(AnyText)[D]
    BY <1>1, Increasing
  <2>3. QED
    BY <2>1, <2>2 DEF Block
<1>3. ASSUME NEW n \in 0..D, NEW c \in B[n], n = 0 \/ \A e \in B[n - 1] : PlainText[e] \in W[n - 1]
      PROVE  PlainText[c] \in W[n]
  <2>1. PlainText[c] = PlainStep(c, PlainText)
    BY <1>2, PlainTextUnfold
  <2>2. n = 0 \/ n - 1 \in 0..D
    BY <1>1
  <2>3. PlainStep(c, PlainText) \in W[n]
    BY <1>3, <2>2, PlainStepType
  <2>4. QED
    BY <2>1, <2>3
<1>4. TreeTyped(D, B, W, PlainText)
  <2> HIDE DEF B, D, W
  <2>1. QED
    BY <1>1, <1>3, TreeTypes
<1>5. QED
  BY <1>4 DEF TreeTyped

-----------------------------------------------------------------------------
(* The native form.                                                          *)

LEMMA TrailingType ==
  ASSUME NEW S, NEW item, item.blocks \in Seq(S)
  PROVE  /\ TrailingBlocks(item) \in Seq(S) /\ LeadingBlocks(item) \in Seq(S)
         /\ LeadsWithParagraph(item) => /\ Head(item.blocks) \in S
                                        /\ Head(item.blocks).type = "paragraph"
<1>1. CASE LeadsWithParagraph(item)
  <2>1. /\ item.blocks # <<>> /\ Head(item.blocks) \in S
        /\ Head(item.blocks).type = "paragraph" /\ Tail(item.blocks) \in Seq(S)
    BY <1>1 DEF LeadsWithParagraph
  <2>2. QED
    BY <1>1, <2>1 DEF TrailingBlocks, LeadingBlocks
<1>2. CASE ~LeadsWithParagraph(item)
  BY <1>2 DEF TrailingBlocks, LeadingBlocks
<1>3. QED
  BY <1>1, <1>2

LEMMA TextItemType ==
  ASSUME NEW T, IsTextClass(T), NEW d \in 0..MaxNestingDepth, NEW item,
         item.blocks \in Seq(Blocks(T)[d]), NEW indent \in T
  PROVE  TextItem(item, indent) \in T
<1> DEFINE trailing == TrailingBlocks(item)
           all == [i \in DOMAIN trailing |-> PlainText[trailing[i]]]
           texts == NonEmpty(all)
           pieces == [i \in DOMAIN texts |-> <<"\n">> \o PrefixLines(texts[i], indent)]
           lead == IF LeadsWithParagraph(item) THEN Head(item.blocks).text ELSE <<>>
<1>1. trailing \in Seq(Blocks(T)[d])
  BY TrailingType
<1> HIDE DEF trailing
<1>2. all \in Seq(T)
  <2>1. DOMAIN trailing = 1..Len(trailing) /\ Len(trailing) \in Nat
    BY <1>1
  <2>2. \A i \in 1..Len(trailing) : PlainText[trailing[i]] \in T
    BY <1>1, PlainTextType
  <2>3. QED
    BY <2>1, <2>2
<1> HIDE DEF all
<1>3. texts \in Seq(T)
  BY <1>2, NonEmptyType
<1> HIDE DEF texts
<1>4. pieces \in Seq(T)
  <2>1. DOMAIN texts = 1..Len(texts) /\ Len(texts) \in Nat
    BY <1>3
  <2>2. ASSUME NEW i \in 1..Len(texts)
        PROVE  <<"\n">> \o PrefixLines(texts[i], indent) \in T
    <3>1. texts[i] \in T
      BY <1>3
    <3>2. <<"\n">> \in T /\ PrefixLines(texts[i], indent) \in T
      BY <3>1, MarksType, PrefixLinesType
    <3>3. QED
      BY <3>2, ClassBasics
  <2>3. QED
    BY <2>1, <2>2
<1> HIDE DEF pieces
<1>5. FlattenSeq(pieces) \in T
  BY <1>4, FlattenTexts
<1>6. lead \in T
  <2>1. CASE LeadsWithParagraph(item)
    <3>1. Head(item.blocks) \in Blocks(T)[d] /\ Head(item.blocks).type = "paragraph"
      BY <2>1, TrailingType
    <3>2. QED
      BY <2>1, <3>1, BlockKinds
  <2>2. CASE ~LeadsWithParagraph(item)
    BY <2>2, ClassBasics
  <2>3. QED
    BY <2>1, <2>2
<1> HIDE DEF lead
<1>7. lead \o FlattenSeq(pieces) \in T
  BY <1>5, <1>6, ClassBasics
<1>8. QED
  BY <1>7 DEF TextItem, lead, pieces, texts, all, trailing

LEMMA TextListType ==
  ASSUME NEW T, IsTextClass(T), NEW d \in 0..MaxNestingDepth,
         NEW list \in ListsOf(Blocks(T)[d])
  PROVE  TextList(list) \in T
<1> DEFINE n == Len(list.items)
           marker(i) == ListMarker(list.items[i], list.start + i - 1, list.ordered, "*")
           text(i) == marker(i) \o TextItem(list.items[i], Spaces(Len(marker(i))))
           texts == [i \in DOMAIN list.items |-> text(i)]
<1>1. /\ DOMAIN list.items = 1..n /\ n \in Nat /\ list.ordered \in BOOLEAN
      /\ list.start \in Nat
      /\ \A i \in 1..n : list.items[i].checked \in {"done", "open", "unset"}
      /\ \A i \in 1..n : list.items[i].blocks \in Seq(Blocks(T)[d])
  BY ListKinds DEF IsListHead
<1>2. ASSUME NEW i \in 1..n
      PROVE  text(i) \in T
  <2>1. list.start + i - 1 \in Nat
    BY <1>1
  <2>a. "*" \in {"-", "*"}
    OBVIOUS
  <2>b. list.items[i].checked \in {"done", "open", "unset"} /\ list.ordered \in BOOLEAN
    BY <1>1
  <2>2. marker(i) \in T
    BY <2>1, <2>a, <2>b, ListMarkerType
  <2> HIDE DEF marker
  <2>3. Len(marker(i)) \in Int
    BY <2>2, ClassBasics
  <2>4. Spaces(Len(marker(i))) \in T
    BY <2>3, SpacesType
  <2>5. TextItem(list.items[i], Spaces(Len(marker(i)))) \in T
    BY <1>1, <2>4, TextItemType
  <2>6. QED
    BY <2>2, <2>5, ClassBasics
<1> HIDE DEF text
<1>3. texts \in Seq(T)
  BY <1>1, <1>2
<1> HIDE DEF texts
<1>4. Join(texts, <<"\n">>) \in T
  BY <1>3, MarksType, JoinType
<1>5. QED
  BY <1>4 DEF TextList, texts, text, marker

\* A native block that holds no others.
LEMMA RichLeafType ==
  ASSUME NEW T, NEW kind \in {"paragraph", "heading", "pre"}, NEW text \in T
  PROVE  [type |-> kind, text |-> text] \in LeafRich(T)
BY DEF LeafRich

LEMMA RichTableType ==
  ASSUME NEW T, IsTextClass(T), NEW rows \in Seq(Seq(T)), rows # <<>>
  PROVE  RichTable(rows) \in LeafRich(T)
<1>1. AlignedTable(rows) \in T
  BY CellsType
<1>2. [type |-> "pre", text |-> AlignedTable(rows)] \in LeafRich(T)
  BY <1>1, RichLeafType
<1>3. [type |-> "table", cells |-> rows] \in LeafRich(T)
  BY DEF LeafRich
<1>4. QED
  BY <1>2, <1>3 DEF RichTable

RichStep(block, g) ==
  IF block.type = "blockquote"
  THEN [type |-> "blockquote", blocks |-> Mapped(block.blocks, g)]
  ELSE IF block.type = "list" /\ IsTextRendered(block)
  THEN [type |-> "paragraph", text |-> TextList(block)]
  ELSE IF block.type = "list"
  THEN [type |-> "list", items |-> MappedItems(block.items, g)]
  ELSE LeafBlock(block)

LEMMA RichStepType ==
  ASSUME NEW T, IsTextClass(T), NEW d \in 0..MaxNestingDepth, NEW b \in Blocks(T)[d],
         NEW g, d = 0 \/ \A c \in Blocks(T)[d - 1] : g[c] \in Riches(T)[d - 1]
  PROVE  RichStep(b, g) \in Riches(T)[d]
<1>1. CASE b.type = "blockquote"
  <2>1. d # 0 /\ b.blocks \in Seq(Blocks(T)[d - 1])
    BY <1>1, BlockKinds
  <2>2. Mapped(b.blocks, g) \in Seq(Riches(T)[d - 1])
    BY <2>1, MappedType
  <2>3. [type |-> "blockquote", blocks |-> Mapped(b.blocks, g)] \in RichOf(Riches(T)[d - 1])
    BY <2>2 DEF RichOf
  <2>4. QED
    BY <1>1, <2>1, <2>3, HolderIsRich DEF RichStep
<1>2. CASE b.type = "list"
  <2>1. d # 0 /\ d - 1 \in 0..MaxNestingDepth /\ b \in ListsOf(Blocks(T)[d - 1])
    BY <1>2, BlockKinds
  <2>2. CASE IsTextRendered(b)
    <3>1. TextList(b) \in T
      BY <2>1, TextListType
    <3>2. [type |-> "paragraph", text |-> TextList(b)] \in LeafRich(T)
      BY <3>1, RichLeafType
    <3>3. QED
      BY <1>2, <2>2, <3>2, LeafIsRich DEF RichStep
  <2>3. CASE ~IsTextRendered(b)
    <3>1. b.items \in Seq(Items(Blocks(T)[d - 1]))
      BY <2>1, ListKinds
    <3>2. MappedItems(b.items, g) \in Seq(Seq(Riches(T)[d - 1]))
      BY <2>1, <3>1, MappedItemsType
    <3>3. [type |-> "list", items |-> MappedItems(b.items, g)] \in RichOf(Riches(T)[d - 1])
      BY <3>2 DEF RichOf
    <3>4. QED
      BY <1>2, <2>1, <2>3, <3>3, HolderIsRich DEF RichStep
  <2>4. QED
    BY <2>2, <2>3
<1>3. CASE b.type \notin {"blockquote", "list"}
  <2>1. RichStep(b, g) = LeafBlock(b)
    BY <1>3 DEF RichStep
  <2>2. LeafBlock(b) \in LeafRich(T)
    <3>1. CASE b.type \in {"paragraph", "heading"}
      BY <3>1, BlockKinds, RichLeafType DEF LeafBlock
    <3>2. CASE b.type = "code"
      BY <3>2, BlockKinds, RichLeafType DEF LeafBlock
    <3>3. CASE b.type = "table"
      BY <3>3, BlockKinds, RichTableType DEF LeafBlock
    <3>4. CASE b.type = "rule"
      BY <3>4 DEF LeafBlock, LeafRich
    <3>5. CASE b.type = "plain"
      BY <3>5, BlockKinds, RichLeafType DEF LeafBlock
    <3>6. QED
      BY <1>3, <3>1, <3>2, <3>3, <3>4, <3>5, BlockKinds
  <2>3. QED
    BY <2>1, <2>2, LeafIsRich
<1>4. QED
  BY <1>1, <1>2, <1>3

LEMMA RichStepLocal ==
  ASSUME NEW T, NEW d \in 0..MaxNestingDepth, NEW b \in Blocks(T)[d], NEW g, NEW h,
         d = 0 \/ \A c \in Blocks(T)[d - 1] : g[c] = h[c]
  PROVE  RichStep(b, g) = RichStep(b, h)
<1>1. /\ b.type = "blockquote" => Mapped(b.blocks, g) = Mapped(b.blocks, h)
      /\ b.type = "list" => MappedItems(b.items, g) = MappedItems(b.items, h)
  BY SameBelow
<1>2. CASE b.type = "blockquote"
  BY <1>1, <1>2 DEF RichStep
<1>3. CASE b.type = "list"
  BY <1>1, <1>3 DEF RichStep
<1>4. CASE b.type \notin {"blockquote", "list"}
  BY <1>4 DEF RichStep
<1>5. QED
  BY <1>2, <1>3, <1>4

LEMMA RichBlockUnfold == \A b \in Block : RichBlock[b] = RichStep(b, RichBlock)
<1> DEFINE D == MaxNestingDepth
           B == Blocks(AnyText)
           W == Riches(AnyText)[D]
           V == [d \in 0..D |-> Riches(AnyText)[d]]
           step == [p \in B[D] \X [B[D] -> W] |-> RichStep(p[1], p[2])]
           Unfolds(f) == f = [b \in Block |-> RichStep(b, f)]
<1>1. D \in Nat /\ LayersGrow(D, B) /\ IsTextClass(AnyText) /\ B[D] = Block
  BY BlocksGrow, AnyIsClass, BlocksAssumption, TreeAssumption DEF Block
<1>2. [type |-> "divider"] \in W /\ \A d \in 0..D : V[d] \subseteq W
  <2>1. [type |-> "divider"] \in Riches(AnyText)[D]
    <3>1. D \in 0..D
      BY <1>1
    <3>2. [type |-> "divider"] \in LeafRich(AnyText)
      BY DEF LeafRich
    <3>3. QED
      BY <3>1, <3>2, LeafIsRich
  <2>2. \A d \in 0..D : Riches(AnyText)[d] \subseteq Riches(AnyText)[D]
    BY <1>1, RichesGrow, Increasing
  <2>3. QED
    BY <2>1, <2>2
<1>3. \A d \in 0..D : B[d] \subseteq B[D]
  <2> HIDE DEF D, B
  <2>1. QED
    BY <1>1, Increasing
<1>4. ASSUME NEW b \in B[D], NEW g \in [B[D] -> W]
      PROVE  step[<<b, g>>] = RichStep(b, g)
  <2>1. <<b, g>> \in B[D] \X [B[D] -> W]
    OBVIOUS
  <2>2. QED
    BY <2>1
<1> HIDE DEF step
<1>5. StepTyped(D, B, V, W, step)
  <2> SUFFICES ASSUME NEW d \in 0..D, NEW b \in B[d], NEW g \in [B[D] -> W],
                      d = 0 \/ \A c \in B[d - 1] : g[c] \in V[d - 1]
               PROVE  step[<<b, g>>] \in V[d]
    BY DEF StepTyped
  <2>1. d = 0 \/ d - 1 \in 0..D
    BY <1>1
  <2>2. RichStep(b, g) \in V[d]
    BY <1>1, <2>1, RichStepType
  <2>3. QED
    BY <1>3, <1>4, <2>2
<1>6. StepLocal(D, B, W, step)
  <2> SUFFICES ASSUME NEW d \in 0..D, NEW b \in B[d],
                      NEW g \in [B[D] -> W], NEW h \in [B[D] -> W],
                      d = 0 \/ \A c \in B[d - 1] : g[c] = h[c]
               PROVE  step[<<b, g>>] = step[<<b, h>>]
    BY DEF StepLocal
  <2>1. RichStep(b, g) = RichStep(b, h)
    BY RichStepLocal
  <2>2. b \in B[D]
    BY <1>3
  <2>3. QED
    BY <1>4, <2>1, <2>2
<1>7. PICK f \in [B[D] -> W] : TreeSolves(D, B, step, f)
  <2> HIDE DEF D, B, V, W
  <2>1. QED
    BY <1>1, <1>2, <1>5, <1>6, TreeRecursion
<1>8. Unfolds(f)
  <2> HIDE DEF D, B, W
  <2>1. \A b \in B[D] : f[b] = RichStep(b, f)
    BY <1>4, <1>7 DEF TreeSolves
  <2>2. f = [b \in B[D] |-> f[b]]
    BY <1>7
  <2>3. f = [b \in B[D] |-> RichStep(b, f)]
    BY <2>1, <2>2, Zenon
  <2>4. QED
    BY <1>1, <2>3, Zenon
<1>9. Unfolds(CHOOSE g : Unfolds(g))
  <2> HIDE DEF Unfolds
  <2>1. QED
    BY <1>8
<1>10. RichBlock = CHOOSE g : Unfolds(g)
  BY DEF RichBlock, RichStep, Mapped, MappedItems
<1>11. Unfolds(RichBlock)
  BY <1>9, <1>10
<1>12. RichBlock = [b \in Block |-> RichStep(b, RichBlock)]
  BY <1>11
<1>13. QED
  BY <1>12, Zenon

LEMMA RichBlockType ==
  ASSUME NEW T, IsTextClass(T), NEW d \in 0..MaxNestingDepth, NEW b \in Blocks(T)[d]
  PROVE  RichBlock[b] \in Riches(T)[d]
<1> DEFINE D == MaxNestingDepth
           B == Blocks(T)
           W == [n \in 0..D |-> Riches(T)[n]]
<1>1. D \in Nat /\ T \subseteq AnyText /\ LayersGrow(D, Blocks(AnyText))
  BY BlocksGrow, BlocksAssumption, TreeAssumption DEF IsTextClass
<1>2. \A n \in 0..D : B[n] \subseteq Block
  <2>1. \A n \in 0..D : B[n] \subseteq Blocks(AnyText)[n]
    BY <1>1, BlocksOfMore
  <2>2. \A n \in 0..D : Blocks(AnyText)[n] \subseteq Blocks(AnyText)[D]
    BY <1>1, Increasing
  <2>3. QED
    BY <2>1, <2>2 DEF Block
<1>3. ASSUME NEW n \in 0..D, NEW c \in B[n], n = 0 \/ \A e \in B[n - 1] : RichBlock[e] \in W[n - 1]
      PROVE  RichBlock[c] \in W[n]
  <2>1. RichBlock[c] = RichStep(c, RichBlock)
    BY <1>2, RichBlockUnfold
  <2>2. n = 0 \/ n - 1 \in 0..D
    BY <1>1
  <2>3. RichStep(c, RichBlock) \in W[n]
    BY <1>3, <2>2, RichStepType
  <2>4. QED
    BY <2>1, <2>3
<1>4. TreeTyped(D, B, W, RichBlock)
  <2> HIDE DEF B, D, W
  <2>1. QED
    BY <1>1, <1>3, TreeTypes
<1>5. QED
  BY <1>4 DEF TreeTyped

-----------------------------------------------------------------------------
(* Sizes, and what is read.                                                  *)

Totals(ss, g) == [i \in DOMAIN ss |-> Total(Mapped(ss[i], g))]
TotalsAndOne(ss, g) == [i \in DOMAIN ss |-> 1 + Total(Mapped(ss[i], g))]
Texts(ss, g) == [i \in DOMAIN ss |-> FlattenSeq(Mapped(ss[i], g))]

LEMMA TotalsType ==
  ASSUME NEW S, NEW ss \in Seq(Seq(S)), NEW g, \A c \in S : g[c] \in Nat
  PROVE  Totals(ss, g) \in Seq(Nat) /\ TotalsAndOne(ss, g) \in Seq(Nat)
<1>1. DOMAIN ss = 1..Len(ss) /\ Len(ss) \in Nat /\ \A i \in 1..Len(ss) : ss[i] \in Seq(S)
  OBVIOUS
<1>2. \A i \in 1..Len(ss) : Mapped(ss[i], g) \in Seq(Nat)
  BY <1>1, MappedType
<1>3. \A i \in 1..Len(ss) : Total(Mapped(ss[i], g)) \in Nat
  BY <1>2, TotalType
<1>4. Totals(ss, g) \in Seq(Nat)
  BY <1>1, <1>3 DEF Totals
<1>5. TotalsAndOne(ss, g) \in Seq(Nat)
  BY <1>1, <1>3 DEF TotalsAndOne
<1>6. QED
  BY <1>4, <1>5

LEMMA TextsType ==
  ASSUME NEW T, IsTextClass(T), NEW S, NEW ss \in Seq(Seq(S)), NEW g,
         \A c \in S : g[c] \in T
  PROVE  Texts(ss, g) \in Seq(T)
<1>1. DOMAIN ss = 1..Len(ss) /\ Len(ss) \in Nat /\ \A i \in 1..Len(ss) : ss[i] \in Seq(S)
  OBVIOUS
<1>2. \A i \in 1..Len(ss) : Mapped(ss[i], g) \in Seq(T)
  BY <1>1, MappedType
<1>3. \A i \in 1..Len(ss) : FlattenSeq(Mapped(ss[i], g)) \in T
  BY <1>2, FlattenTexts
<1>4. QED
  BY <1>1, <1>3 DEF Texts

LEMMA SameBelowRich ==
  ASSUME NEW T, NEW d \in 0..MaxNestingDepth, NEW b \in Riches(T)[d], NEW g, NEW h,
         d = 0 \/ \A c \in Riches(T)[d - 1] : g[c] = h[c]
  PROVE  /\ b.type = "blockquote" => Mapped(b.blocks, g) = Mapped(b.blocks, h)
         /\ b.type = "list" => /\ Totals(b.items, g) = Totals(b.items, h)
                               /\ TotalsAndOne(b.items, g) = TotalsAndOne(b.items, h)
                               /\ Texts(b.items, g) = Texts(b.items, h)
<1>1. CASE b.type = "blockquote"
  <2>1. d # 0 /\ b.blocks \in Seq(Riches(T)[d - 1])
    BY <1>1, RichKinds
  <2>2. QED
    BY <1>1, <2>1, MappedSame
<1>2. CASE b.type = "list"
  <2>1. d # 0 /\ b.items \in Seq(Seq(Riches(T)[d - 1]))
    BY <1>2, RichKinds
  <2>2. \A i \in DOMAIN b.items : b.items[i] \in Seq(Riches(T)[d - 1])
    BY <2>1
  <2>3. \A i \in DOMAIN b.items : Mapped(b.items[i], g) = Mapped(b.items[i], h)
    BY <2>1, <2>2, MappedSame
  <2>4. QED
    BY <1>2, <2>3 DEF Totals, TotalsAndOne, Texts
<1>3. QED
  BY <1>1, <1>2

\* All the text of a table.
LEMMA CellTextType ==
  ASSUME NEW T, IsTextClass(T), NEW cells \in Seq(Seq(T))
  PROVE  FlattenSeq(FlattenSeq(cells)) \in T
BY FlattenSeqType, FlattenTexts

UnitsStep(rich, g) ==
  IF rich.type = "blockquote" THEN 1 + Total(Mapped(rich.blocks, g))
  ELSE IF rich.type = "list" THEN 1 + Total(TotalsAndOne(rich.items, g))
  ELSE IF rich.type = "table" THEN 1 + Len(rich.cells) ELSE 1

LEMMA UnitsStepType ==
  ASSUME NEW T, IsTextClass(T), NEW d \in 0..MaxNestingDepth, NEW b \in Riches(T)[d],
         NEW g, d = 0 \/ \A c \in Riches(T)[d - 1] : g[c] \in Nat
  PROVE  UnitsStep(b, g) \in Nat
<1>1. CASE b.type = "blockquote"
  <2>1. d # 0 /\ b.blocks \in Seq(Riches(T)[d - 1])
    BY <1>1, RichKinds
  <2>2. Total(Mapped(b.blocks, g)) \in Nat
    BY <2>1, MappedType, TotalType
  <2>3. QED
    BY <1>1, <2>2 DEF UnitsStep
<1>2. CASE b.type = "list"
  <2>1. d # 0 /\ b.items \in Seq(Seq(Riches(T)[d - 1]))
    BY <1>2, RichKinds
  <2>2. Total(TotalsAndOne(b.items, g)) \in Nat
    BY <2>1, TotalsType, TotalType
  <2>3. QED
    BY <1>2, <2>2 DEF UnitsStep
<1>3. CASE b.type = "table"
  <2>1. b.cells \in Seq(Seq(T))
    BY <1>3, RichKinds
  <2>2. Len(b.cells) \in Nat
    BY <2>1
  <2>3. QED
    BY <1>3, <2>2 DEF UnitsStep
<1>4. CASE b.type \notin {"blockquote", "list", "table"}
  BY <1>4 DEF UnitsStep
<1>5. QED
  BY <1>1, <1>2, <1>3, <1>4

CharsStep(rich, g) ==
  IF rich.type = "blockquote" THEN Total(Mapped(rich.blocks, g))
  ELSE IF rich.type = "list" THEN Total(Totals(rich.items, g))
  ELSE IF rich.type = "table" THEN Len(FlattenSeq(FlattenSeq(rich.cells)))
  ELSE IF rich.type = "divider" THEN 0 ELSE Len(rich.text)

LEMMA CharsStepType ==
  ASSUME NEW T, IsTextClass(T), NEW d \in 0..MaxNestingDepth, NEW b \in Riches(T)[d],
         NEW g, d = 0 \/ \A c \in Riches(T)[d - 1] : g[c] \in Nat
  PROVE  CharsStep(b, g) \in Nat
<1>1. CASE b.type = "blockquote"
  <2>1. d # 0 /\ b.blocks \in Seq(Riches(T)[d - 1])
    BY <1>1, RichKinds
  <2>2. Total(Mapped(b.blocks, g)) \in Nat
    BY <2>1, MappedType, TotalType
  <2>3. QED
    BY <1>1, <2>2 DEF CharsStep
<1>2. CASE b.type = "list"
  <2>1. d # 0 /\ b.items \in Seq(Seq(Riches(T)[d - 1]))
    BY <1>2, RichKinds
  <2>2. Total(Totals(b.items, g)) \in Nat
    BY <2>1, TotalsType, TotalType
  <2>3. QED
    BY <1>2, <2>2 DEF CharsStep
<1>3. CASE b.type = "table"
  <2>1. FlattenSeq(FlattenSeq(b.cells)) \in T
    BY <1>3, RichKinds, CellTextType
  <2>2. Len(FlattenSeq(FlattenSeq(b.cells))) \in Nat
    BY <2>1, ClassBasics
  <2>3. QED
    BY <1>3, <2>2 DEF CharsStep
<1>4. CASE b.type = "divider"
  BY <1>4 DEF CharsStep
<1>5. CASE b.type \in {"paragraph", "heading", "pre"}
  <2>1. b.text \in T
    BY <1>5, RichKinds
  <2>2. Len(b.text) \in Nat
    BY <2>1, ClassBasics
  <2>3. QED
    BY <1>5, <2>2 DEF CharsStep
<1>6. QED
  BY <1>1, <1>2, <1>3, <1>4, <1>5, RichKinds

ReadStep(rich, g) ==
  IF rich.type = "blockquote" THEN FlattenSeq(Mapped(rich.blocks, g))
  ELSE IF rich.type = "list" THEN FlattenSeq(Texts(rich.items, g))
  ELSE IF rich.type = "table" THEN FlattenSeq(FlattenSeq(rich.cells))
  ELSE IF rich.type = "divider" THEN <<>> ELSE rich.text

LEMMA ReadStepType ==
  ASSUME NEW T, IsTextClass(T), NEW d \in 0..MaxNestingDepth, NEW b \in Riches(T)[d],
         NEW g, d = 0 \/ \A c \in Riches(T)[d - 1] : g[c] \in T
  PROVE  ReadStep(b, g) \in T
<1>1. CASE b.type = "blockquote"
  <2>1. d # 0 /\ b.blocks \in Seq(Riches(T)[d - 1])
    BY <1>1, RichKinds
  <2>2. FlattenSeq(Mapped(b.blocks, g)) \in T
    BY <2>1, MappedType, FlattenTexts
  <2>3. QED
    BY <1>1, <2>2 DEF ReadStep
<1>2. CASE b.type = "list"
  <2>1. d # 0 /\ b.items \in Seq(Seq(Riches(T)[d - 1]))
    BY <1>2, RichKinds
  <2>2. FlattenSeq(Texts(b.items, g)) \in T
    BY <2>1, TextsType, FlattenTexts
  <2>3. QED
    BY <1>2, <2>2 DEF ReadStep
<1>3. CASE b.type = "table"
  BY <1>3, RichKinds, CellTextType DEF ReadStep
<1>4. CASE b.type = "divider"
  BY <1>4, ClassBasics DEF ReadStep
<1>5. CASE b.type \in {"paragraph", "heading", "pre"}
  BY <1>5, RichKinds DEF ReadStep
<1>6. QED
  BY <1>1, <1>2, <1>3, <1>4, <1>5, RichKinds

LEMMA UnitsStepLocal ==
  ASSUME NEW T, NEW d \in 0..MaxNestingDepth, NEW b \in Riches(T)[d], NEW g, NEW h,
         d = 0 \/ \A c \in Riches(T)[d - 1] : g[c] = h[c]
  PROVE  UnitsStep(b, g) = UnitsStep(b, h)
<1>1. CASE b.type = "blockquote"
  BY <1>1, SameBelowRich DEF UnitsStep
<1>2. CASE b.type = "list"
  <2>1. /\ Totals(b.items, g) = Totals(b.items, h)
        /\ TotalsAndOne(b.items, g) = TotalsAndOne(b.items, h)
        /\ Texts(b.items, g) = Texts(b.items, h)
    BY <1>2, SameBelowRich
  <2>2. QED
    BY <1>2, <2>1 DEF UnitsStep
<1>3. CASE b.type # "blockquote" /\ b.type # "list"
  BY <1>3 DEF UnitsStep
<1>4. QED
  BY <1>1, <1>2, <1>3

LEMMA CharsStepLocal ==
  ASSUME NEW T, NEW d \in 0..MaxNestingDepth, NEW b \in Riches(T)[d], NEW g, NEW h,
         d = 0 \/ \A c \in Riches(T)[d - 1] : g[c] = h[c]
  PROVE  CharsStep(b, g) = CharsStep(b, h)
<1>1. CASE b.type = "blockquote"
  BY <1>1, SameBelowRich DEF CharsStep
<1>2. CASE b.type = "list"
  <2>1. /\ Totals(b.items, g) = Totals(b.items, h)
        /\ TotalsAndOne(b.items, g) = TotalsAndOne(b.items, h)
        /\ Texts(b.items, g) = Texts(b.items, h)
    BY <1>2, SameBelowRich
  <2>2. QED
    BY <1>2, <2>1 DEF CharsStep
<1>3. CASE b.type # "blockquote" /\ b.type # "list"
  BY <1>3 DEF CharsStep
<1>4. QED
  BY <1>1, <1>2, <1>3

LEMMA ReadStepLocal ==
  ASSUME NEW T, NEW d \in 0..MaxNestingDepth, NEW b \in Riches(T)[d], NEW g, NEW h,
         d = 0 \/ \A c \in Riches(T)[d - 1] : g[c] = h[c]
  PROVE  ReadStep(b, g) = ReadStep(b, h)
<1>1. CASE b.type = "blockquote"
  BY <1>1, SameBelowRich DEF ReadStep
<1>2. CASE b.type = "list"
  <2>1. /\ Totals(b.items, g) = Totals(b.items, h)
        /\ TotalsAndOne(b.items, g) = TotalsAndOne(b.items, h)
        /\ Texts(b.items, g) = Texts(b.items, h)
    BY <1>2, SameBelowRich
  <2>2. QED
    BY <1>2, <2>1 DEF ReadStep
<1>3. CASE b.type # "blockquote" /\ b.type # "list"
  BY <1>3 DEF ReadStep
<1>4. QED
  BY <1>1, <1>2, <1>3

LEMMA UnitsUnfold == \A b \in Rich : Units[b] = UnitsStep(b, Units)
<1> DEFINE D == MaxNestingDepth
           B == Riches(AnyText)
           W == Nat
           V == [d \in 0..D |-> Nat]
           step == [p \in B[D] \X [B[D] -> W] |-> UnitsStep(p[1], p[2])]
           Unfolds(f) == f = [b \in Rich |-> UnitsStep(b, f)]
<1>1. D \in Nat /\ LayersGrow(D, B) /\ IsTextClass(AnyText) /\ B[D] = Rich
  BY RichesGrow, AnyIsClass, BlocksAssumption, TreeAssumption DEF Rich
<1>2. 0 \in W /\ \A d \in 0..D : V[d] \subseteq W
  OBVIOUS
<1>3. \A d \in 0..D : B[d] \subseteq B[D]
  <2> HIDE DEF D, B
  <2>1. QED
    BY <1>1, Increasing
<1>4. ASSUME NEW b \in B[D], NEW g \in [B[D] -> W]
      PROVE  step[<<b, g>>] = UnitsStep(b, g)
  <2>1. <<b, g>> \in B[D] \X [B[D] -> W]
    OBVIOUS
  <2>2. QED
    BY <2>1
<1> HIDE DEF step
<1>5. StepTyped(D, B, V, W, step)
  <2> SUFFICES ASSUME NEW d \in 0..D, NEW b \in B[d], NEW g \in [B[D] -> W],
                      d = 0 \/ \A c \in B[d - 1] : g[c] \in V[d - 1]
               PROVE  step[<<b, g>>] \in V[d]
    BY DEF StepTyped
  <2>1. d = 0 \/ d - 1 \in 0..D
    BY <1>1
  <2>2. UnitsStep(b, g) \in V[d]
    BY <1>1, <2>1, UnitsStepType
  <2>3. QED
    BY <1>3, <1>4, <2>2
<1>6. StepLocal(D, B, W, step)
  <2> SUFFICES ASSUME NEW d \in 0..D, NEW b \in B[d],
                      NEW g \in [B[D] -> W], NEW h \in [B[D] -> W],
                      d = 0 \/ \A c \in B[d - 1] : g[c] = h[c]
               PROVE  step[<<b, g>>] = step[<<b, h>>]
    BY DEF StepLocal
  <2>1. UnitsStep(b, g) = UnitsStep(b, h)
    BY UnitsStepLocal
  <2>2. b \in B[D]
    BY <1>3
  <2>3. QED
    BY <1>4, <2>1, <2>2
<1>7. PICK f \in [B[D] -> W] : TreeSolves(D, B, step, f)
  <2> HIDE DEF D, B, V, W
  <2>1. QED
    BY <1>1, <1>2, <1>5, <1>6, TreeRecursion
<1>8. Unfolds(f)
  <2> HIDE DEF D, B, W
  <2>1. \A b \in B[D] : f[b] = UnitsStep(b, f)
    BY <1>4, <1>7 DEF TreeSolves
  <2>2. f = [b \in B[D] |-> f[b]]
    BY <1>7
  <2>3. f = [b \in B[D] |-> UnitsStep(b, f)]
    BY <2>1, <2>2, Zenon
  <2>4. QED
    BY <1>1, <2>3, Zenon
<1>9. Unfolds(CHOOSE g : Unfolds(g))
  <2> HIDE DEF Unfolds
  <2>1. QED
    BY <1>8
<1>10. Units = CHOOSE g : Unfolds(g)
  BY DEF Units, UnitsStep, Mapped, TotalsAndOne
<1>11. Unfolds(Units)
  BY <1>9, <1>10
<1>12. Units = [b \in Rich |-> UnitsStep(b, Units)]
  BY <1>11
<1>13. QED
  BY <1>12, Zenon

LEMMA UnitsType ==
  ASSUME NEW T, IsTextClass(T), NEW d \in 0..MaxNestingDepth, NEW b \in Riches(T)[d]
  PROVE  Units[b] \in Nat
<1> DEFINE D == MaxNestingDepth
           B == Riches(T)
           W == [n \in 0..D |-> Nat]
<1>1. D \in Nat /\ T \subseteq AnyText /\ LayersGrow(D, Riches(AnyText))
  BY RichesGrow, BlocksAssumption, TreeAssumption DEF IsTextClass
<1>2. \A n \in 0..D : B[n] \subseteq Rich
  <2>1. \A n \in 0..D : B[n] \subseteq Riches(AnyText)[n]
    BY <1>1, RichesOfMore
  <2>2. \A n \in 0..D : Riches(AnyText)[n] \subseteq Riches(AnyText)[D]
    BY <1>1, Increasing
  <2>3. QED
    BY <2>1, <2>2 DEF Rich
<1>3. ASSUME NEW n \in 0..D, NEW c \in B[n], n = 0 \/ \A e \in B[n - 1] : Units[e] \in W[n - 1]
      PROVE  Units[c] \in W[n]
  <2>1. Units[c] = UnitsStep(c, Units)
    BY <1>2, UnitsUnfold
  <2>2. n = 0 \/ n - 1 \in 0..D
    BY <1>1
  <2>3. UnitsStep(c, Units) \in W[n]
    BY <1>3, <2>2, UnitsStepType
  <2>4. QED
    BY <2>1, <2>3
<1>4. TreeTyped(D, B, W, Units)
  <2> HIDE DEF B, D, W
  <2>1. QED
    BY <1>1, <1>3, TreeTypes
<1>5. QED
  BY <1>4 DEF TreeTyped

LEMMA CharsUnfold == \A b \in Rich : Chars[b] = CharsStep(b, Chars)
<1> DEFINE D == MaxNestingDepth
           B == Riches(AnyText)
           W == Nat
           V == [d \in 0..D |-> Nat]
           step == [p \in B[D] \X [B[D] -> W] |-> CharsStep(p[1], p[2])]
           Unfolds(f) == f = [b \in Rich |-> CharsStep(b, f)]
<1>1. D \in Nat /\ LayersGrow(D, B) /\ IsTextClass(AnyText) /\ B[D] = Rich
  BY RichesGrow, AnyIsClass, BlocksAssumption, TreeAssumption DEF Rich
<1>2. 0 \in W /\ \A d \in 0..D : V[d] \subseteq W
  OBVIOUS
<1>3. \A d \in 0..D : B[d] \subseteq B[D]
  <2> HIDE DEF D, B
  <2>1. QED
    BY <1>1, Increasing
<1>4. ASSUME NEW b \in B[D], NEW g \in [B[D] -> W]
      PROVE  step[<<b, g>>] = CharsStep(b, g)
  <2>1. <<b, g>> \in B[D] \X [B[D] -> W]
    OBVIOUS
  <2>2. QED
    BY <2>1
<1> HIDE DEF step
<1>5. StepTyped(D, B, V, W, step)
  <2> SUFFICES ASSUME NEW d \in 0..D, NEW b \in B[d], NEW g \in [B[D] -> W],
                      d = 0 \/ \A c \in B[d - 1] : g[c] \in V[d - 1]
               PROVE  step[<<b, g>>] \in V[d]
    BY DEF StepTyped
  <2>1. d = 0 \/ d - 1 \in 0..D
    BY <1>1
  <2>2. CharsStep(b, g) \in V[d]
    BY <1>1, <2>1, CharsStepType
  <2>3. QED
    BY <1>3, <1>4, <2>2
<1>6. StepLocal(D, B, W, step)
  <2> SUFFICES ASSUME NEW d \in 0..D, NEW b \in B[d],
                      NEW g \in [B[D] -> W], NEW h \in [B[D] -> W],
                      d = 0 \/ \A c \in B[d - 1] : g[c] = h[c]
               PROVE  step[<<b, g>>] = step[<<b, h>>]
    BY DEF StepLocal
  <2>1. CharsStep(b, g) = CharsStep(b, h)
    BY CharsStepLocal
  <2>2. b \in B[D]
    BY <1>3
  <2>3. QED
    BY <1>4, <2>1, <2>2
<1>7. PICK f \in [B[D] -> W] : TreeSolves(D, B, step, f)
  <2> HIDE DEF D, B, V, W
  <2>1. QED
    BY <1>1, <1>2, <1>5, <1>6, TreeRecursion
<1>8. Unfolds(f)
  <2> HIDE DEF D, B, W
  <2>1. \A b \in B[D] : f[b] = CharsStep(b, f)
    BY <1>4, <1>7 DEF TreeSolves
  <2>2. f = [b \in B[D] |-> f[b]]
    BY <1>7
  <2>3. f = [b \in B[D] |-> CharsStep(b, f)]
    BY <2>1, <2>2, Zenon
  <2>4. QED
    BY <1>1, <2>3, Zenon
<1>9. Unfolds(CHOOSE g : Unfolds(g))
  <2> HIDE DEF Unfolds
  <2>1. QED
    BY <1>8
<1>10. Chars = CHOOSE g : Unfolds(g)
  BY DEF Chars, CharsStep, Mapped, Totals
<1>11. Unfolds(Chars)
  BY <1>9, <1>10
<1>12. Chars = [b \in Rich |-> CharsStep(b, Chars)]
  BY <1>11
<1>13. QED
  BY <1>12, Zenon

LEMMA CharsType ==
  ASSUME NEW T, IsTextClass(T), NEW d \in 0..MaxNestingDepth, NEW b \in Riches(T)[d]
  PROVE  Chars[b] \in Nat
<1> DEFINE D == MaxNestingDepth
           B == Riches(T)
           W == [n \in 0..D |-> Nat]
<1>1. D \in Nat /\ T \subseteq AnyText /\ LayersGrow(D, Riches(AnyText))
  BY RichesGrow, BlocksAssumption, TreeAssumption DEF IsTextClass
<1>2. \A n \in 0..D : B[n] \subseteq Rich
  <2>1. \A n \in 0..D : B[n] \subseteq Riches(AnyText)[n]
    BY <1>1, RichesOfMore
  <2>2. \A n \in 0..D : Riches(AnyText)[n] \subseteq Riches(AnyText)[D]
    BY <1>1, Increasing
  <2>3. QED
    BY <2>1, <2>2 DEF Rich
<1>3. ASSUME NEW n \in 0..D, NEW c \in B[n], n = 0 \/ \A e \in B[n - 1] : Chars[e] \in W[n - 1]
      PROVE  Chars[c] \in W[n]
  <2>1. Chars[c] = CharsStep(c, Chars)
    BY <1>2, CharsUnfold
  <2>2. n = 0 \/ n - 1 \in 0..D
    BY <1>1
  <2>3. CharsStep(c, Chars) \in W[n]
    BY <1>3, <2>2, CharsStepType
  <2>4. QED
    BY <2>1, <2>3
<1>4. TreeTyped(D, B, W, Chars)
  <2> HIDE DEF B, D, W
  <2>1. QED
    BY <1>1, <1>3, TreeTypes
<1>5. QED
  BY <1>4 DEF TreeTyped

LEMMA RichTextUnfold == \A b \in Rich : RichText[b] = ReadStep(b, RichText)
<1> DEFINE D == MaxNestingDepth
           B == Riches(AnyText)
           W == AnyText
           V == [d \in 0..D |-> AnyText]
           step == [p \in B[D] \X [B[D] -> W] |-> ReadStep(p[1], p[2])]
           Unfolds(f) == f = [b \in Rich |-> ReadStep(b, f)]
<1>1. D \in Nat /\ LayersGrow(D, B) /\ IsTextClass(AnyText) /\ B[D] = Rich
  BY RichesGrow, AnyIsClass, BlocksAssumption, TreeAssumption DEF Rich
<1>2. <<>> \in W /\ \A d \in 0..D : V[d] \subseteq W
  BY AnyIsClass, ClassBasics
<1>3. \A d \in 0..D : B[d] \subseteq B[D]
  <2> HIDE DEF D, B
  <2>1. QED
    BY <1>1, Increasing
<1>4. ASSUME NEW b \in B[D], NEW g \in [B[D] -> W]
      PROVE  step[<<b, g>>] = ReadStep(b, g)
  <2>1. <<b, g>> \in B[D] \X [B[D] -> W]
    OBVIOUS
  <2>2. QED
    BY <2>1
<1> HIDE DEF step
<1>5. StepTyped(D, B, V, W, step)
  <2> SUFFICES ASSUME NEW d \in 0..D, NEW b \in B[d], NEW g \in [B[D] -> W],
                      d = 0 \/ \A c \in B[d - 1] : g[c] \in V[d - 1]
               PROVE  step[<<b, g>>] \in V[d]
    BY DEF StepTyped
  <2>1. d = 0 \/ d - 1 \in 0..D
    BY <1>1
  <2>2. ReadStep(b, g) \in V[d]
    BY <1>1, <2>1, ReadStepType
  <2>3. QED
    BY <1>3, <1>4, <2>2
<1>6. StepLocal(D, B, W, step)
  <2> SUFFICES ASSUME NEW d \in 0..D, NEW b \in B[d],
                      NEW g \in [B[D] -> W], NEW h \in [B[D] -> W],
                      d = 0 \/ \A c \in B[d - 1] : g[c] = h[c]
               PROVE  step[<<b, g>>] = step[<<b, h>>]
    BY DEF StepLocal
  <2>1. ReadStep(b, g) = ReadStep(b, h)
    BY ReadStepLocal
  <2>2. b \in B[D]
    BY <1>3
  <2>3. QED
    BY <1>4, <2>1, <2>2
<1>7. PICK f \in [B[D] -> W] : TreeSolves(D, B, step, f)
  <2> HIDE DEF D, B, V, W
  <2>1. QED
    BY <1>1, <1>2, <1>5, <1>6, TreeRecursion
<1>8. Unfolds(f)
  <2> HIDE DEF D, B, W
  <2>1. \A b \in B[D] : f[b] = ReadStep(b, f)
    BY <1>4, <1>7 DEF TreeSolves
  <2>2. f = [b \in B[D] |-> f[b]]
    BY <1>7
  <2>3. f = [b \in B[D] |-> ReadStep(b, f)]
    BY <2>1, <2>2, Zenon
  <2>4. QED
    BY <1>1, <2>3, Zenon
<1>9. Unfolds(CHOOSE g : Unfolds(g))
  <2> HIDE DEF Unfolds
  <2>1. QED
    BY <1>8
<1>10. RichText = CHOOSE g : Unfolds(g)
  BY DEF RichText, ReadStep, Mapped, Texts
<1>11. Unfolds(RichText)
  BY <1>9, <1>10
<1>12. RichText = [b \in Rich |-> ReadStep(b, RichText)]
  BY <1>11
<1>13. QED
  BY <1>12, Zenon

LEMMA RichTextType ==
  ASSUME NEW T, IsTextClass(T), NEW d \in 0..MaxNestingDepth, NEW b \in Riches(T)[d]
  PROVE  RichText[b] \in T
<1> DEFINE D == MaxNestingDepth
           B == Riches(T)
           W == [n \in 0..D |-> T]
<1>1. D \in Nat /\ T \subseteq AnyText /\ LayersGrow(D, Riches(AnyText))
  BY RichesGrow, BlocksAssumption, TreeAssumption DEF IsTextClass
<1>2. \A n \in 0..D : B[n] \subseteq Rich
  <2>1. \A n \in 0..D : B[n] \subseteq Riches(AnyText)[n]
    BY <1>1, RichesOfMore
  <2>2. \A n \in 0..D : Riches(AnyText)[n] \subseteq Riches(AnyText)[D]
    BY <1>1, Increasing
  <2>3. QED
    BY <2>1, <2>2 DEF Rich
<1>3. ASSUME NEW n \in 0..D, NEW c \in B[n], n = 0 \/ \A e \in B[n - 1] : RichText[e] \in W[n - 1]
      PROVE  RichText[c] \in W[n]
  <2>1. RichText[c] = ReadStep(c, RichText)
    BY <1>2, RichTextUnfold
  <2>2. n = 0 \/ n - 1 \in 0..D
    BY <1>1
  <2>3. ReadStep(c, RichText) \in W[n]
    BY <1>3, <2>2, ReadStepType
  <2>4. QED
    BY <2>1, <2>3
<1>4. TreeTyped(D, B, W, RichText)
  <2> HIDE DEF B, D, W
  <2>1. QED
    BY <1>1, <1>3, TreeTypes
<1>5. QED
  BY <1>4 DEF TreeTyped

-----------------------------------------------------------------------------
(* Lifting.                                                                  *)

LEMMA Single ==
  ASSUME NEW S, NEW a \in S
  PROVE  <<a>> \in Seq(S)
OBVIOUS

LEMMA RunOf ==
  ASSUME NEW S, NEW s \in Seq(S), NEW from \in Nat \ {0}, NEW to \in Int, to <= Len(s)
  PROVE  SubSeq(s, from, to) \in Seq(S)
<1>1. \A i \in from..to : s[i] \in S
  OBVIOUS
<1>2. QED
  BY <1>1, SubSeqProperties

LEMMA StayingType ==
  ASSUME NEW S, NEW item, item.blocks \in Seq(S)
  PROVE  Staying(item) \in 0..Len(TrailingBlocks(item))
<1> DEFINE trailing == TrailingBlocks(item)
           native == {j \in DOMAIN trailing : ~StaysInside[trailing[j]]}
<1>1. trailing \in Seq(S)
  BY TrailingType
<1> HIDE DEF trailing
<1>2. DOMAIN trailing = 1..Len(trailing) /\ Len(trailing) \in Nat
  BY <1>1
<1>3. native \in SUBSET (1..Len(trailing)) /\ native \in SUBSET Nat
  BY <1>2
<1> HIDE DEF native
<1>4. native # {} => Min(native) \in native
  BY <1>3, Smallest
<1>5. native # {} => Min(native) - 1 \in 0..Len(trailing)
  <2>1. native # {} => Min(native) \in 1..Len(trailing)
    BY <1>3, <1>4
  <2>2. QED
    BY <1>2, <2>1
<1>6. (IF native = {} THEN Len(trailing) ELSE Min(native) - 1) \in 0..Len(trailing)
  BY <1>2, <1>5
<1>7. QED
  BY <1>6 DEF Staying, native, trailing

LEMMA KeptType ==
  ASSUME NEW S, NEW item \in Items(S)
  PROVE  Kept(item) \in Items(S) /\ Lifted(item) \in Seq(S)
<1> DEFINE trailing == TrailingBlocks(item)
           stay == SubSeq(trailing, 1, Staying(item))
           go == SubSeq(trailing, Staying(item) + 1, Len(trailing))
<1>1. item.blocks \in Seq(S)
  BY DEF Items
<1>2. /\ trailing \in Seq(S) /\ LeadingBlocks(item) \in Seq(S)
      /\ Staying(item) \in 0..Len(trailing)
  BY <1>1, TrailingType, StayingType
<1> HIDE DEF trailing
<1>3. /\ Staying(item) \in Int /\ Staying(item) <= Len(trailing)
      /\ Staying(item) + 1 \in Nat \ {0} /\ Len(trailing) \in Int /\ 1 \in Nat \ {0}
  BY <1>2
<1>4. stay \in Seq(S) /\ go \in Seq(S)
  BY <1>2, <1>3, RunOf
<1> HIDE DEF stay, go
<1>5. LeadingBlocks(item) \o stay \in Seq(S)
  BY <1>2, <1>4
<1>6. [item EXCEPT !.blocks = LeadingBlocks(item) \o stay] \in Items(S)
  BY <1>5 DEF Items
<1>7. QED
  BY <1>4, <1>6 DEF Kept, Lifted, stay, go, trailing

\* The loop over a list's items: the pieces and lifted blocks put out, and the
\* piece that is being filled.
PieceAcc(B, S) == [out : Seq(B), items : Seq(Items(S)), start : Nat]

LEMMA FlushPieceType ==
  ASSUME NEW S, NEW B, ListsOf(S) \subseteq B, NEW acc \in PieceAcc(B, S),
         NEW ordered \in BOOLEAN
  PROVE  FlushPiece(acc, ordered) \in PieceAcc(B, S)
<1> DEFINE piece == [type |-> "list", ordered |-> ordered, items |-> acc.items,
                     start |-> acc.start]
<1>1. acc.out \in Seq(B) /\ acc.items \in Seq(Items(S)) /\ acc.start \in Nat
  BY DEF PieceAcc
<1>2. CASE acc.items = <<>>
  BY <1>2 DEF FlushPiece
<1>3. CASE acc.items # <<>>
  <2>1. piece \in ListsOf(S)
    BY <1>1, <1>3 DEF ListsOf
  <2> HIDE DEF piece
  <2>2. Append(acc.out, piece) \in Seq(B)
    BY <1>1, <2>1
  <2>3. acc.start + Len(acc.items) \in Nat /\ <<>> \in Seq(Items(S))
    BY <1>1
  <2>4. [out |-> Append(acc.out, piece), items |-> <<>>,
         start |-> acc.start + Len(acc.items)] \in PieceAcc(B, S)
    BY <2>2, <2>3 DEF PieceAcc
  <2>5. QED
    BY <1>3, <2>4 DEF FlushPiece, piece
<1>4. QED
  BY <1>2, <1>3

LEMMA AddToPieceType ==
  ASSUME NEW S, NEW B, ListsOf(S) \subseteq B, NEW acc \in PieceAcc(B, S),
         NEW item \in Items(S), NEW lifts \in Seq(B), NEW ordered \in BOOLEAN
  PROVE  AddToPiece(acc, item, lifts, ordered) \in PieceAcc(B, S)
<1> DEFINE grown == [acc EXCEPT !.items = Append(@, Kept(item))]
           flushed == FlushPiece(grown, ordered)
<1>1. Kept(item) \in Items(S)
  BY KeptType
<1>2. acc.items \in Seq(Items(S))
  BY DEF PieceAcc
<1>3. Append(acc.items, Kept(item)) \in Seq(Items(S))
  BY <1>1, <1>2
<1>4. grown \in PieceAcc(B, S)
  BY <1>3 DEF PieceAcc
<1> HIDE DEF grown
<1>5. flushed \in PieceAcc(B, S)
  BY <1>4, FlushPieceType
<1> HIDE DEF flushed
<1>6. flushed.out \o lifts \in Seq(B)
  BY <1>5 DEF PieceAcc
<1>7. [flushed EXCEPT !.out = @ \o lifts] \in PieceAcc(B, S)
  BY <1>5, <1>6 DEF PieceAcc
<1>8. QED
  BY <1>4, <1>7 DEF AddToPiece, grown, flushed

PieceTurns(list, lifts) ==
  CHOOSE f : f = [i \in 0..Len(list.items) |->
    IF i = 0 THEN [out |-> <<>>, items |-> <<>>, start |-> list.start]
    ELSE AddToPiece(f[i - 1], list.items[i], lifts[i], list.ordered)]

LEMMA PiecesOfTurns ==
  ASSUME NEW list, NEW lifts
  PROVE  PiecesOfList(list, lifts)
           = FlushPiece(PieceTurns(list, lifts)[Len(list.items)], list.ordered).out
BY DEF PiecesOfList, PieceTurns

LEMMA PieceTurnsType ==
  ASSUME NEW S, NEW B, ListsOf(S) \subseteq B, NEW list \in ListsOf(S), NEW lifts,
         \A i \in 1..Len(list.items) : lifts[i] \in Seq(B)
  PROVE  \A i \in 0..Len(list.items) : PieceTurns(list, lifts)[i] \in PieceAcc(B, S)
<1> DEFINE n == Len(list.items)
           W == PieceAcc(B, S)
           base == [out |-> <<>>, items |-> <<>>, start |-> list.start]
           next(a, i) == AddToPiece(a, list.items[i], lifts[i], list.ordered)
           prev == [i \in 1..n |-> i - 1]
           step == [p \in (1..n) \X W |-> next(p[2], p[1])]
           Value(i, f) == IF i = 0 THEN base ELSE next(f[i - 1], i)
           Unfolds(f) == f = [i \in 0..n |-> Value(i, f)]
<1>0. /\ n \in Nat /\ list.start \in Nat /\ list.ordered \in BOOLEAN
      /\ \A i \in 1..n : list.items[i] \in Items(S)
  BY ListKinds DEF IsListHead
<1>1. n \in Nat
  BY <1>0
<1>2. base \in W
  <2>1. <<>> \in Seq(B) /\ <<>> \in Seq(Items(S))
    OBVIOUS
  <2>2. QED
    BY <1>0, <2>1 DEF PieceAcc
<1>3. ASSUME NEW a \in W, NEW i \in 1..n
      PROVE  next(a, i) \in W
  <2>1. list.items[i] \in Items(S) /\ lifts[i] \in Seq(B) /\ list.ordered \in BOOLEAN
    BY <1>0
  <2>2. QED
    BY <2>1, AddToPieceType
<1> HIDE DEF n, W, base, next
<1>4. prev \in [1..n -> Nat] /\ \A i \in 1..n : prev[i] < i
  BY <1>1
<1>5. step \in [(1..n) \X W -> W]
  <2>1. \A p \in (1..n) \X W : next(p[2], p[1]) \in W
    BY <1>3
  <2>2. QED
    BY <2>1
<1>6. PICK f \in [0..n -> W] : IsLoop(n, W, base, prev, step, f)
  <2> HIDE DEF prev, step
  <2>1. QED
    BY <1>1, <1>2, <1>4, <1>5, Loop
<1>7. \A i \in 0..n : f[i] = Value(i, f)
  <2>1. f[0] = Value(0, f)
    BY <1>6 DEF IsLoop
  <2>2. ASSUME NEW i \in 1..n
        PROVE  f[i] = Value(i, f)
    <3>1. <<i, f[prev[i]]>> \in (1..n) \X W /\ f[i] = step[<<i, f[prev[i]]>>]
      <4> HIDE DEF prev, step
      <4>1. QED
        BY <1>6 DEF IsLoop
    <3>2. f[i] = next(f[prev[i]], i)
      <4> HIDE DEF prev
      <4>1. QED
        BY <3>1
    <3>3. i # 0 /\ prev[i] = i - 1
      BY <1>1
    <3>4. QED
      BY <3>2, <3>3
  <2>3. \A i \in 0..n : i = 0 \/ i \in 1..n
    BY <1>1
  <2> HIDE DEF Value
  <2>4. QED
    BY <2>1, <2>2, <2>3
<1>8. Unfolds(f)
  <2> HIDE DEF Value
  <2>1. f = [i \in 0..n |-> f[i]]
    OBVIOUS
  <2>2. QED
    BY <2>1, <1>7
<1>9. Unfolds(CHOOSE g : Unfolds(g))
  <2> HIDE DEF Unfolds
  <2>1. QED
    BY <1>8
<1>10. PieceTurns(list, lifts) = CHOOSE g : Unfolds(g)
  BY DEF PieceTurns, n, base, next
<1> DEFINE g == PieceTurns(list, lifts)
<1>11. Unfolds(g)
  BY <1>9, <1>10
<1> HIDE DEF g
<1>12. \A i \in 0..n : g[i] = Value(i, g)
  <2> HIDE DEF Value
  <2>1. QED
    BY <1>11
<1>13. g[0] = f[0]
  BY <1>1, <1>7, <1>12
<1>14. ASSUME NEW i \in 1..n, g[prev[i]] = f[prev[i]]
       PROVE  g[i] = f[i]
  <2>1. prev[i] = i - 1 /\ i \in 0..n /\ i # 0
    BY <1>1
  <2>2. g[i - 1] = f[i - 1]
    BY <2>1, <1>14
  <2>3. Value(i, g) = Value(i, f)
    BY <2>2
  <2> HIDE DEF Value
  <2>4. QED
    BY <2>1, <2>3, <1>7, <1>12
<1>15. AreSame(n, g, f)
  <2> HIDE DEF prev, Value
  <2>1. \A i \in 1..n : g[prev[i]] = f[prev[i]] => g[i] = f[i]
    BY <1>14
  <2>2. QED
    BY <2>1, <1>1, <1>4, <1>13, SameLoop
<1>16. \A i \in 0..n : g[i] \in W
  BY <1>15 DEF AreSame
<1>17. QED
  BY <1>16 DEF g, n, W

LEMMA PiecesOfListType ==
  ASSUME NEW S, NEW B, ListsOf(S) \subseteq B, NEW list \in ListsOf(S), NEW lifts,
         \A i \in 1..Len(list.items) : lifts[i] \in Seq(B)
  PROVE  PiecesOfList(list, lifts) \in Seq(B)
<1> DEFINE n == Len(list.items)
           acc == PieceTurns(list, lifts)[n]
<1>1. n \in 0..n /\ list.ordered \in BOOLEAN
  BY ListKinds DEF IsListHead
<1>2. acc \in PieceAcc(B, S)
  BY <1>1, PieceTurnsType
<1> HIDE DEF acc
<1>3. FlushPiece(acc, list.ordered) \in PieceAcc(B, S)
  BY <1>1, <1>2, FlushPieceType
<1>4. FlushPiece(acc, list.ordered).out \in Seq(B)
  BY <1>3 DEF PieceAcc
<1>5. QED
  BY <1>4, PiecesOfTurns DEF acc

LiftsOf(items, g) == [i \in DOMAIN items |-> FlattenSeq(Mapped(Lifted(items[i]), g))]

LiftStep(block, g) ==
  IF block.type = "list" /\ IsTextRendered(block)
  THEN PiecesOfList(block, LiftsOf(block.items, g))
  ELSE <<block>>

LEMMA LiftsOfType ==
  ASSUME NEW S, NEW B, NEW items \in Seq(Items(S)), NEW g, \A c \in S : g[c] \in Seq(B)
  PROVE  \A i \in 1..Len(items) : LiftsOf(items, g)[i] \in Seq(B)
<1>1. DOMAIN items = 1..Len(items) /\ \A i \in 1..Len(items) : items[i] \in Items(S)
  OBVIOUS
<1>2. \A i \in 1..Len(items) : Lifted(items[i]) \in Seq(S)
  BY <1>1, KeptType
<1>3. \A i \in 1..Len(items) : Mapped(Lifted(items[i]), g) \in Seq(Seq(B))
  BY <1>2, MappedType
<1>4. \A i \in 1..Len(items) : FlattenSeq(Mapped(Lifted(items[i]), g)) \in Seq(B)
  BY <1>3, FlattenSeqType
<1>5. QED
  BY <1>1, <1>4 DEF LiftsOf

LEMMA LiftsOfSame ==
  ASSUME NEW S, NEW items \in Seq(Items(S)), NEW g, NEW h, \A c \in S : g[c] = h[c]
  PROVE  LiftsOf(items, g) = LiftsOf(items, h)
<1>1. \A i \in DOMAIN items : items[i] \in Items(S)
  OBVIOUS
<1>2. \A i \in DOMAIN items : Lifted(items[i]) \in Seq(S)
  BY <1>1, KeptType
<1>3. \A i \in DOMAIN items : Mapped(Lifted(items[i]), g) = Mapped(Lifted(items[i]), h)
  BY <1>2, MappedSame
<1>4. QED
  BY <1>3 DEF LiftsOf

LEMMA LiftStepType ==
  ASSUME NEW T, IsTextClass(T), NEW d \in 0..MaxNestingDepth, NEW b \in Blocks(T)[d],
         NEW g, d = 0 \/ \A c \in Blocks(T)[d - 1] : g[c] \in Seq(Blocks(T)[d - 1])
  PROVE  LiftStep(b, g) \in Seq(Blocks(T)[d])
<1>1. CASE b.type = "list" /\ IsTextRendered(b)
  <2> DEFINE S == Blocks(T)[d - 1]
             B == Blocks(T)[d]
  <2>1. d # 0 /\ d - 1 \in 0..MaxNestingDepth /\ b \in ListsOf(S)
    BY <1>1, BlockKinds
  <2>2. S \subseteq B
    <3>1. d \in 1..MaxNestingDepth
      BY <2>1
    <3>2. QED
      BY <3>1, BlocksGrow DEF LayersGrow
  <2>3. ListsOf(S) \subseteq B
    BY <2>1, HolderIsBlock DEF BlocksOf
  <2>4. \A c \in S : g[c] \in Seq(B)
    BY <2>1, <2>2, SeqOfMore
  <2>5. b.items \in Seq(Items(S))
    BY <2>1, ListKinds
  <2> HIDE DEF S, B
  <2>6. \A i \in 1..Len(b.items) : LiftsOf(b.items, g)[i] \in Seq(B)
    BY <2>4, <2>5, LiftsOfType
  <2>7. PiecesOfList(b, LiftsOf(b.items, g)) \in Seq(B)
    BY <2>1, <2>3, <2>6, PiecesOfListType
  <2>8. QED
    BY <1>1, <2>7 DEF LiftStep, B
<1>2. CASE ~(b.type = "list" /\ IsTextRendered(b))
  <2>1. <<b>> \in Seq(Blocks(T)[d])
    BY Single
  <2>2. QED
    BY <1>2, <2>1 DEF LiftStep
<1>3. QED
  BY <1>1, <1>2

LEMMA LiftStepLocal ==
  ASSUME NEW T, NEW d \in 0..MaxNestingDepth, NEW b \in Blocks(T)[d], NEW g, NEW h,
         d = 0 \/ \A c \in Blocks(T)[d - 1] : g[c] = h[c]
  PROVE  LiftStep(b, g) = LiftStep(b, h)
<1>1. CASE b.type = "list"
  <2>1. d # 0 /\ b \in ListsOf(Blocks(T)[d - 1])
    BY <1>1, BlockKinds
  <2>2. b.items \in Seq(Items(Blocks(T)[d - 1]))
    BY <2>1, ListKinds
  <2>3. LiftsOf(b.items, g) = LiftsOf(b.items, h)
    BY <2>1, <2>2, LiftsOfSame
  <2>4. QED
    BY <1>1, <2>3 DEF LiftStep
<1>2. CASE b.type # "list"
  BY <1>2 DEF LiftStep
<1>3. QED
  BY <1>1, <1>2

LEMMA LiftBlockUnfold == \A b \in Block : LiftBlock[b] = LiftStep(b, LiftBlock)
<1> DEFINE D == MaxNestingDepth
           B == Blocks(AnyText)
           W == Seq(B[D])
           V == [d \in 0..D |-> Seq(B[d])]
           step == [p \in B[D] \X [B[D] -> W] |-> LiftStep(p[1], p[2])]
           Unfolds(f) == f = [b \in Block |-> LiftStep(b, f)]
<1>1. D \in Nat /\ LayersGrow(D, B) /\ IsTextClass(AnyText) /\ B[D] = Block
  BY BlocksGrow, AnyIsClass, BlocksAssumption, TreeAssumption DEF Block
<1>2. <<>> \in W /\ \A d \in 0..D : V[d] \subseteq W
  <2>1. \A d \in 0..D : B[d] \subseteq B[D]
    <3> HIDE DEF D, B
    <3>1. QED
      BY <1>1, Increasing
  <2>2. \A d \in 0..D : Seq(B[d]) \subseteq Seq(B[D])
    BY <2>1, SeqOfMore
  <2>3. QED
    BY <2>2
<1>3. \A d \in 0..D : B[d] \subseteq B[D]
  <2> HIDE DEF D, B
  <2>1. QED
    BY <1>1, Increasing
<1>4. ASSUME NEW b \in B[D], NEW g \in [B[D] -> W]
      PROVE  step[<<b, g>>] = LiftStep(b, g)
  <2>1. <<b, g>> \in B[D] \X [B[D] -> W]
    OBVIOUS
  <2>2. QED
    BY <2>1
<1> HIDE DEF step
<1>5. StepTyped(D, B, V, W, step)
  <2> SUFFICES ASSUME NEW d \in 0..D, NEW b \in B[d], NEW g \in [B[D] -> W],
                      d = 0 \/ \A c \in B[d - 1] : g[c] \in V[d - 1]
               PROVE  step[<<b, g>>] \in V[d]
    BY DEF StepTyped
  <2>1. d = 0 \/ d - 1 \in 0..D
    BY <1>1
  <2>2. LiftStep(b, g) \in V[d]
    BY <1>1, <2>1, LiftStepType
  <2>3. QED
    BY <1>3, <1>4, <2>2
<1>6. StepLocal(D, B, W, step)
  <2> SUFFICES ASSUME NEW d \in 0..D, NEW b \in B[d],
                      NEW g \in [B[D] -> W], NEW h \in [B[D] -> W],
                      d = 0 \/ \A c \in B[d - 1] : g[c] = h[c]
               PROVE  step[<<b, g>>] = step[<<b, h>>]
    BY DEF StepLocal
  <2>1. LiftStep(b, g) = LiftStep(b, h)
    BY LiftStepLocal
  <2>2. b \in B[D]
    BY <1>3
  <2>3. QED
    BY <1>4, <2>1, <2>2
<1>7. PICK f \in [B[D] -> W] : TreeSolves(D, B, step, f)
  <2> HIDE DEF D, B, V, W
  <2>1. QED
    BY <1>1, <1>2, <1>5, <1>6, TreeRecursion
<1>8. Unfolds(f)
  <2> HIDE DEF D, B, W
  <2>1. \A b \in B[D] : f[b] = LiftStep(b, f)
    BY <1>4, <1>7 DEF TreeSolves
  <2>2. f = [b \in B[D] |-> f[b]]
    BY <1>7
  <2>3. f = [b \in B[D] |-> LiftStep(b, f)]
    BY <2>1, <2>2, Zenon
  <2>4. QED
    BY <1>1, <2>3, Zenon
<1>9. Unfolds(CHOOSE g : Unfolds(g))
  <2> HIDE DEF Unfolds
  <2>1. QED
    BY <1>8
<1>10. LiftBlock = CHOOSE g : Unfolds(g)
  BY DEF LiftBlock, LiftStep, Mapped, LiftsOf
<1>11. Unfolds(LiftBlock)
  BY <1>9, <1>10
<1>12. LiftBlock = [b \in Block |-> LiftStep(b, LiftBlock)]
  BY <1>11
<1>13. QED
  BY <1>12, Zenon

LEMMA LiftBlockType ==
  ASSUME NEW T, IsTextClass(T), NEW d \in 0..MaxNestingDepth, NEW b \in Blocks(T)[d]
  PROVE  LiftBlock[b] \in Seq(Blocks(T)[d])
<1> DEFINE D == MaxNestingDepth
           B == Blocks(T)
           W == [n \in 0..D |-> Seq(Blocks(T)[n])]
<1>1. D \in Nat /\ T \subseteq AnyText /\ LayersGrow(D, Blocks(AnyText))
  BY BlocksGrow, BlocksAssumption, TreeAssumption DEF IsTextClass
<1>2. \A n \in 0..D : B[n] \subseteq Block
  <2>1. \A n \in 0..D : B[n] \subseteq Blocks(AnyText)[n]
    BY <1>1, BlocksOfMore
  <2>2. \A n \in 0..D : Blocks(AnyText)[n] \subseteq Blocks(AnyText)[D]
    BY <1>1, Increasing
  <2>3. QED
    BY <2>1, <2>2 DEF Block
<1>3. ASSUME NEW n \in 0..D, NEW c \in B[n], n = 0 \/ \A e \in B[n - 1] : LiftBlock[e] \in W[n - 1]
      PROVE  LiftBlock[c] \in W[n]
  <2>1. LiftBlock[c] = LiftStep(c, LiftBlock)
    BY <1>2, LiftBlockUnfold
  <2>2. n = 0 \/ n - 1 \in 0..D
    BY <1>1
  <2>3. LiftStep(c, LiftBlock) \in W[n]
    BY <1>3, <2>2, LiftStepType
  <2>4. QED
    BY <2>1, <2>3
<1>4. TreeTyped(D, B, W, LiftBlock)
  <2> HIDE DEF B, D, W
  <2>1. QED
    BY <1>1, <1>3, TreeTypes
<1>5. QED
  BY <1>4 DEF TreeTyped

-----------------------------------------------------------------------------
(* Groups of items, none of them empty.                                      *)

LEMMA LargerOf ==
  ASSUME NEW a \in Int, NEW b \in Int
  PROVE  Max({a, b}) \in {a, b} /\ a <= Max({a, b}) /\ b <= Max({a, b})
<1>1. \E x \in {a, b} : \A y \in {a, b} : x >= y
  OBVIOUS
<1>2. /\ Max({a, b}) \in {a, b}
      /\ \A y \in {a, b} : Max({a, b}) >= y
  BY <1>1 DEF Max
<1>3. QED
  BY <1>2

LEMMA Narrowed ==
  ASSUME NEW S, NEW S2, NEW s \in Seq(S), \A i \in 1..Len(s) : s[i] \in S2
  PROVE  s \in Seq(S2)
OBVIOUS

FullSeq(S) == Seq(S) \ {<<>>}

LEMMA GroupsType ==
  ASSUME NEW Item, NEW items \in Seq(Item), NEW chars \in [1..Len(items) -> Nat],
         NEW units \in [1..Len(items) -> Nat], NEW lim \in Limits
  PROVE  GroupsOf(items, chars, units, lim) \in Seq(FullSeq(Item))
<1> DEFINE groups == GroupsOf(items, chars, units, lim)
           acc == Turns(items, chars, units, lim)[Len(items)]
           n == Len(items)
<1>1. Len(items) \in 0..Len(items) /\ n \in Nat
  OBVIOUS
<1>2. acc \in Acc(Item)
  BY <1>1, TurnsUnfold DEF TurnsFollow
<1> HIDE DEF acc
<1>3. AllGroups(acc) \in Seq(Seq(Item))
  BY <1>2 DEF AllGroups, Acc
<1>4. groups \in Seq(Seq(Item))
  BY <1>3, GroupsOfTurns DEF acc
<1>5. PICK C \in [0..n -> Nat] : RunningTotal(C, chars, n)
  BY <1>1, TotalsExist
<1>6. PICK U \in [0..n -> Nat] : RunningTotal(U, units, n)
  BY <1>1, TotalsExist
<1>7. AreGroups(items, C, U, lim, groups)
  BY <1>5, <1>6, GroupsAreRuns
<1> HIDE DEF groups
<1>8. PICK cut \in [0..Len(groups) -> 0..n] :
        \A g \in 1..Len(groups) : IsGroup(items, C, U, lim, cut[g - 1], cut[g], groups[g])
  BY <1>7 DEF AreGroups
<1>9. ASSUME NEW g \in 1..Len(groups)
      PROVE  groups[g] \in FullSeq(Item)
  <2> DEFINE from == cut[g - 1]
             to == cut[g]
  <2>1. g - 1 \in 0..Len(groups) /\ g \in 0..Len(groups)
    BY <1>4
  <2>2. from \in 0..n /\ to \in 0..n
    BY <2>1
  <2>3. from < to /\ groups[g] = SubSeq(items, from + 1, to)
    BY <1>8 DEF IsGroup
  <2>4. from \in Nat /\ to \in 1..Len(items)
    BY <2>2, <2>3
  <2> HIDE DEF from, to
  <2>5. SubSeq(items, from + 1, to) # <<>>
    BY <2>3, <2>4, ShortRun
  <2>6. groups[g] \in Seq(Item)
    BY <1>4
  <2>7. QED
    BY <2>3, <2>5, <2>6 DEF FullSeq
<1>10. DOMAIN groups = 1..Len(groups) /\ Len(groups) \in Nat
  BY <1>4
<1>11. groups \in Seq(FullSeq(Item))
  BY <1>4, <1>9, Narrowed
<1>12. QED
  BY <1>11 DEF groups

LEMMA GroupItemsType ==
  ASSUME NEW Item, NEW items \in Seq(Item), NEW chars \in [1..Len(items) -> Nat],
         NEW maxChars \in Nat, NEW maxItems \in Int
  PROVE  GroupItems(items, chars, maxChars, maxItems) \in Seq(FullSeq(Item))
<1> DEFINE ones == [i \in DOMAIN items |-> 1]
           lim == [maxChars |-> maxChars, maxBlocks |-> Max({1, maxItems})]
<1>1. ones \in [1..Len(items) -> Nat]
  OBVIOUS
<1>2. Max({1, maxItems}) \in Nat
  <2>1. 1 \in Int
    OBVIOUS
  <2>2. /\ Max({1, maxItems}) \in {1, maxItems}
        /\ 1 <= Max({1, maxItems})
    BY <2>1, LargerOf
  <2>3. QED
    BY <2>2
<1>3. lim \in Limits
  BY <1>2 DEF Limits
<1> HIDE DEF ones, lim
<1>4. GroupsOf(items, chars, ones, lim) \in Seq(FullSeq(Item))
  BY <1>1, <1>3, GroupsType
<1>5. QED
  BY <1>4 DEF GroupItems, ones, lim

\* What is counted of each item.
LEMMA MeasureType ==
  ASSUME NEW S, NEW items \in Seq(S), NEW measure,
         measure = [i \in DOMAIN items |-> measure[i]],
         \A i \in 1..Len(items) : measure[i] \in Nat
  PROVE  measure \in [1..Len(items) -> Nat] /\ measure \in Seq(Nat)
<1>1. DOMAIN items = 1..Len(items) /\ Len(items) \in Nat
  OBVIOUS
<1>2. measure \in [1..Len(items) -> Nat]
  BY <1>1
<1>3. QED
  BY <1>1, <1>2

LEMMA GrownGroup ==
  ASSUME NEW S, NEW groups \in Seq(FullSeq(S)), NEW g \in 1..Len(groups)
  PROVE  groups[g] \in Seq(S) /\ groups[g] # <<>>
<1>1. groups[g] \in FullSeq(S)
  OBVIOUS
<1>2. QED
  BY <1>1 DEF FullSeq

-----------------------------------------------------------------------------
(* Splitting a block.                                                        *)

LEMMA BlockSizes ==
  ASSUME NEW T, IsTextClass(T), NEW d \in 0..MaxNestingDepth, NEW b \in Blocks(T)[d]
  PROVE  /\ RichBlock[b] \in Riches(T)[d]
         /\ Chars[RichBlock[b]] \in Nat /\ Units[RichBlock[b]] \in Nat
         /\ PlainText[b] \in T /\ Len(PlainText[b]) \in Nat
<1>1. RichBlock[b] \in Riches(T)[d] /\ PlainText[b] \in T
  BY RichBlockType, PlainTextType
<1>2. Chars[RichBlock[b]] \in Nat /\ Units[RichBlock[b]] \in Nat
  BY <1>1, CharsType, UnitsType
<1>3. QED
  BY <1>1, <1>2, ClassBasics

LEMMA MeasureItemType ==
  ASSUME NEW T, IsTextClass(T), NEW d \in 0..MaxNestingDepth, NEW item,
         item.blocks \in Seq(Blocks(T)[d])
  PROVE  MeasureItem(item) \in Nat /\ MeasureItemUnits(item) \in Nat \ {0}
<1> DEFINE n == Len(item.blocks)
           chars == [i \in DOMAIN item.blocks |-> Len(PlainText[item.blocks[i]]) + 1]
           units == [i \in DOMAIN item.blocks |-> Units[RichBlock[item.blocks[i]]]]
<1>1. DOMAIN item.blocks = 1..n /\ n \in Nat /\ \A i \in 1..n : item.blocks[i] \in Blocks(T)[d]
  OBVIOUS
<1>2. \A i \in 1..n : /\ Len(PlainText[item.blocks[i]]) \in Nat
                      /\ Units[RichBlock[item.blocks[i]]] \in Nat
  BY <1>1, BlockSizes
<1>3. chars \in Seq(Nat)
  BY <1>1, <1>2
<1>4. units \in Seq(Nat)
  BY <1>1, <1>2
<1> HIDE DEF chars, units
<1>5. Total(chars) \in Nat /\ Total(units) \in Nat
  BY <1>3, <1>4, TotalType
<1>6. 1 + Total(units) \in Nat \ {0}
  BY <1>5
<1>7. QED
  BY <1>5, <1>6 DEF MeasureItem, MeasureItemUnits, chars, units

LEMMA TextBlocksType ==
  ASSUME NEW T, NEW kind \in {"paragraph", "heading", "code", "plain"},
         NEW texts \in Seq(T)
  PROVE  TextBlocks(kind, texts) \in Seq(LeafBlocks(T))
<1>1. DOMAIN texts = 1..Len(texts) /\ Len(texts) \in Nat /\ \A i \in 1..Len(texts) : texts[i] \in T
  OBVIOUS
<1>2. \A i \in 1..Len(texts) : [type |-> kind, text |-> texts[i]] \in LeafBlocks(T)
  BY <1>1 DEF LeafBlocks
<1>3. QED
  BY <1>1, <1>2 DEF TextBlocks

\* A block of plain text is as large as its text.
LEMMA PlainFits ==
  ASSUME NEW text \in AnyText, NEW lim \in SplitLimits, Len(text) <= lim.maxChars
  PROVE  FitsLimits([type |-> "plain", text |-> text], lim)
<1> DEFINE b == [type |-> "plain", text |-> text]
           r == [type |-> "paragraph", text |-> text]
<1>1. 0 \in 0..MaxNestingDepth /\ MaxNestingDepth \in 0..MaxNestingDepth
  BY BlocksAssumption
<1>2. b \in LeafBlocks(AnyText)
  BY DEF LeafBlocks
<1>3. b \in Block
  BY <1>1, <1>2, LeafIsBlock DEF Block
<1>4. r \in LeafRich(AnyText)
  BY DEF LeafRich
<1>5. r \in Rich
  BY <1>1, <1>4, LeafIsRich DEF Rich
<1>6. RichBlock[b] = RichStep(b, RichBlock)
  BY <1>3, RichBlockUnfold
<1>7. RichStep(b, RichBlock) = r
  BY DEF RichStep, LeafBlock
<1>8. Units[r] = UnitsStep(r, Units) /\ Chars[r] = CharsStep(r, Chars)
  BY <1>5, UnitsUnfold, CharsUnfold
<1>9. UnitsStep(r, Units) = 1
  BY DEF UnitsStep
<1>10. CharsStep(r, Chars) = Len(text)
  BY DEF CharsStep
<1>11. 1 <= lim.maxBlocks
  BY DEF SplitLimits
<1>12. QED
  BY <1>6, <1>7, <1>8, <1>9, <1>10, <1>11 DEF FitsLimits

FittingBlocks(T, d, lim) == {b \in Blocks(T)[d] : FitsLimits(b, lim)}

LEMMA SplitToPlainType ==
  ASSUME NEW T, IsTextClass(T), NEW d \in 0..MaxNestingDepth, NEW b \in Blocks(T)[d],
         NEW lim \in SplitLimits
  PROVE  SplitToPlain(b, lim) \in Seq(FittingBlocks(T, d, lim))
<1> DEFINE texts == SplitText(PlainText[b], lim.maxChars)
           pieces == TextBlocks("plain", texts)
<1>1. lim.maxChars \in Nat \ {0, 1} /\ PlainText[b] \in T
  BY BlockSizes DEF SplitLimits
<1>2. texts \in Seq(T) /\ \A i \in DOMAIN texts : Len(texts[i]) <= lim.maxChars
  BY <1>1, SplitTextType
<1> HIDE DEF texts
<1>3. pieces \in Seq(LeafBlocks(T))
  BY <1>2, TextBlocksType
<1>4. /\ Len(pieces) = Len(texts) /\ DOMAIN texts = 1..Len(texts)
      /\ \A i \in 1..Len(texts) : pieces[i] = [type |-> "plain", text |-> texts[i]]
  BY <1>2 DEF TextBlocks
<1> HIDE DEF pieces
<1>5. ASSUME NEW i \in 1..Len(pieces)
      PROVE  pieces[i] \in FittingBlocks(T, d, lim)
  <2>1. pieces[i] \in Blocks(T)[d]
    BY <1>3, LeafIsBlock
  <2>0. i \in DOMAIN texts /\ pieces[i] = [type |-> "plain", text |-> texts[i]]
    BY <1>4
  <2>a. texts[i] \in T /\ Len(texts[i]) <= lim.maxChars
    BY <1>2, <2>0
  <2>2. texts[i] \in AnyText /\ Len(texts[i]) <= lim.maxChars
    BY <2>a DEF IsTextClass
  <2>3. FitsLimits([type |-> "plain", text |-> texts[i]], lim)
    BY <2>2, PlainFits
  <2>4. QED
    BY <2>0, <2>1, <2>3 DEF FittingBlocks
<1>6. pieces \in Seq(FittingBlocks(T, d, lim))
  BY <1>3, <1>5, Narrowed
<1>7. QED
  BY <1>6 DEF SplitToPlain, pieces, texts

LEMMA SplitCodeType ==
  ASSUME NEW T, IsTextClass(T), NEW b, b.text \in T, NEW lim \in SplitLimits
  PROVE  SplitCode(b, lim) \in Seq(LeafBlocks(T))
<1> DEFINE ls == SplitLines(b.text)
           chars == [i \in DOMAIN ls |-> Len(ls[i]) + 1]
           limit == lim.maxChars
           groups == GroupItems(ls, chars, limit, Len(ls))
           texts == [g \in DOMAIN groups |-> SplitText(Join(groups[g], <<"\n">>), limit)]
<1>1. ls \in Seq(T)
  BY SplitLinesType
<1>2. limit \in Nat \ {0, 1} /\ limit \in Nat
  BY DEF SplitLimits
<1> HIDE DEF ls, limit
<1>3. chars \in [1..Len(ls) -> Nat]
  <2>1. \A i \in 1..Len(ls) : Len(ls[i]) + 1 \in Nat
    BY <1>1, ClassBasics
  <2>2. QED
    BY <1>1, <2>1
<1> HIDE DEF chars
<1>4. groups \in Seq(FullSeq(T))
  <2>1. Len(ls) \in Int
    BY <1>1
  <2>2. QED
    BY <1>1, <1>2, <1>3, <2>1, GroupItemsType
<1> HIDE DEF groups
<1>5. ASSUME NEW g \in 1..Len(groups)
      PROVE  SplitText(Join(groups[g], <<"\n">>), limit) \in Seq(T)
  <2>1. groups[g] \in Seq(T)
    BY <1>4, GrownGroup
  <2>2. Join(groups[g], <<"\n">>) \in T
    BY <2>1, MarksType, JoinType
  <2>3. QED
    BY <1>2, <2>2, SplitTextType
<1>6. texts \in Seq(Seq(T))
  <2>1. DOMAIN groups = 1..Len(groups) /\ Len(groups) \in Nat
    BY <1>4
  <2>2. QED
    BY <1>5, <2>1
<1> HIDE DEF texts
<1>7. FlattenSeq(texts) \in Seq(T)
  BY <1>6, FlattenSeqType
<1>8. TextBlocks("code", FlattenSeq(texts)) \in Seq(LeafBlocks(T))
  <2>1. "code" \in {"paragraph", "heading", "code", "plain"}
    OBVIOUS
  <2>2. QED
    BY <1>7, <2>1, TextBlocksType
<1>9. QED
  BY <1>8 DEF SplitCode, SplitGroups, GroupLines, texts, groups, chars, limit, ls

LEMMA SplitTableType ==
  ASSUME NEW T, IsTextClass(T), NEW b, b.rows \in Seq(Seq(T)), Len(b.rows) > 1,
         NEW lim \in SplitLimits
  PROVE  SplitTable(b, lim) \in Seq(LeafBlocks(T))
<1> DEFINE header == Head(b.rows)
           rows == Tail(b.rows)
           RowChars(row) == Len(FlattenSeq(row))
           chars == [i \in DOMAIN rows |-> RowChars(rows[i])]
           room == Max({1, lim.maxChars - RowChars(header)})
           more == lim.maxBlocks - 2
           groups == GroupItems(rows, chars, room, more)
           pieces == [g \in DOMAIN groups |-> [type |-> "table", rows |-> <<header>> \o groups[g]]]
<1>1. header \in Seq(T) /\ rows \in Seq(Seq(T))
  BY HeadTailProperties
<1>2. ASSUME NEW row \in Seq(T)
      PROVE  RowChars(row) \in Nat
  BY FlattenTexts, ClassBasics
<1>3. lim.maxChars \in Nat /\ more \in Int
  BY DEF SplitLimits
<1> HIDE DEF header, rows, RowChars, more
<1>4. chars \in [1..Len(rows) -> Nat]
  BY <1>1, <1>2
<1>5. room \in Nat
  <2>1. 1 \in Int /\ lim.maxChars - RowChars(header) \in Int
    BY <1>1, <1>2, <1>3
  <2>2. /\ room \in {1, lim.maxChars - RowChars(header)}
        /\ 1 <= room
    BY <2>1, LargerOf
  <2>3. QED
    BY <2>1, <2>2
<1> HIDE DEF chars, room
<1>6. groups \in Seq(FullSeq(Seq(T)))
  BY <1>1, <1>3, <1>4, <1>5, GroupItemsType
<1> HIDE DEF groups
<1>7. ASSUME NEW g \in 1..Len(groups)
      PROVE  [type |-> "table", rows |-> <<header>> \o groups[g]] \in LeafBlocks(T)
  <2>1. groups[g] \in Seq(Seq(T))
    BY <1>6, GrownGroup
  <2>2. <<header>> \in Seq(Seq(T))
    BY <1>1, Single
  <2>3. <<header>> \o groups[g] \in Seq(Seq(T)) \ {<<>>}
    BY <2>1, <2>2
  <2>4. QED
    BY <2>3 DEF LeafBlocks
<1> DEFINE piece(g) == [type |-> "table", rows |-> <<header>> \o groups[g]]
           k == Len(groups)
<1>8. pieces \in Seq(LeafBlocks(T))
  <2>1. DOMAIN groups = 1..k /\ k \in Nat
    BY <1>6
  <2>2. \A g \in 1..k : piece(g) \in LeafBlocks(T)
    BY <1>7
  <2>3. pieces = [g \in 1..k |-> piece(g)]
    BY <2>1
  <2> HIDE DEF piece, k, pieces
  <2>4. QED
    BY <2>1, <2>2, <2>3
<1>9. QED
  BY <1>8 DEF SplitTable, pieces, groups, chars, room, RowChars, rows, header, more

-----------------------------------------------------------------------------
(* The pieces of lists and quotes.                                           *)

LEMMA ListPieceType ==
  ASSUME NEW S, NEW list \in ListsOf(S), NEW piece \in FullSeq(Items(S)), NEW more \in Nat
  PROVE  /\ [list EXCEPT !.items = piece] \in ListsOf(S)
         /\ [list EXCEPT !.items = piece, !.start = @ + more] \in ListsOf(S)
<1> DEFINE start == list.start + more
<1>1. piece \in Seq(Items(S)) \ {<<>>}
  BY DEF FullSeq
<1>2. start \in Nat
  BY DEF ListsOf
<1>3. [list EXCEPT !.items = piece] \in ListsOf(S)
  BY <1>1 DEF ListsOf
<1> HIDE DEF start
<1>4. [list EXCEPT !.items = piece, !.start = start] \in ListsOf(S)
  BY <1>1, <1>2 DEF ListsOf
<1>5. QED
  BY <1>3, <1>4 DEF start

\* A function on the indexes of a sequence.
LEMMA MadeType ==
  ASSUME NEW S, NEW V, NEW groups \in Seq(S), NEW made,
         made = [g \in DOMAIN groups |-> made[g]],
         \A g \in 1..Len(groups) : made[g] \in V
  PROVE  made \in Seq(V)
<1>1. DOMAIN groups = 1..Len(groups) /\ Len(groups) \in Nat
  OBVIOUS
<1>2. QED
  BY <1>1

LEMMA SplitTextListType ==
  ASSUME NEW T, IsTextClass(T), NEW d \in 0..MaxNestingDepth,
         NEW b \in ListsOf(Blocks(T)[d]), NEW lim \in SplitLimits
  PROVE  SplitTextList(b, lim) \in Seq(ListsOf(Blocks(T)[d]))
<1> DEFINE S == Blocks(T)[d]
           Marker(i) == ListMarker(b.items[i], b.start + i - 1, b.ordered, "*")
           measure(i) == MeasureItem(b.items[i]) + 1 + Len(Marker(i))
           chars == [i \in DOMAIN b.items |-> measure(i)]
           groups == GroupItems(b.items, chars, lim.maxChars, Len(b.items))
           before(g) == [k \in 1..(g - 1) |-> Len(groups[k])]
           piece(g) == [b EXCEPT !.items = groups[g], !.start = @ + Total(before(g))]
           made == [g \in DOMAIN groups |-> piece(g)]
<1>1. /\ b.start \in Nat /\ b.ordered \in BOOLEAN
      /\ b.items \in Seq(Items(S)) /\ b.items # <<>>
      /\ \A i \in 1..Len(b.items) : b.items[i] \in Items(S) /\ b.items[i].blocks \in Seq(S)
  BY ListKinds DEF IsListHead
<1>2. ASSUME NEW i \in 1..Len(b.items)
      PROVE  measure(i) \in Nat
  <2>1. /\ b.items[i] \in Items(S) /\ b.items[i].blocks \in Seq(S)
        /\ b.items[i].checked \in {"done", "open", "unset"}
    BY <1>1 DEF Items
  <2>2. MeasureItem(b.items[i]) \in Nat
    BY <2>1, MeasureItemType
  <2>3. b.start + i - 1 \in Nat
    BY <1>1
  <2>4. Marker(i) \in T
    BY <1>1, <2>1, <2>3, ListMarkerType
  <2>5. Len(Marker(i)) \in Nat
    BY <2>4, ClassBasics
  <2>6. QED
    BY <2>2, <2>5
<1>3. chars \in [1..Len(b.items) -> Nat]
  <2> HIDE DEF measure, S
  <2>1. QED
    BY <1>1, <1>2
<1>4. lim.maxChars \in Nat /\ Len(b.items) \in Int
  BY <1>1 DEF SplitLimits
<1> HIDE DEF chars, S
<1>5. groups \in Seq(FullSeq(Items(S)))
  BY <1>1, <1>3, <1>4, GroupItemsType
<1> HIDE DEF groups
<1>6. ASSUME NEW g \in 1..Len(groups)
      PROVE  piece(g) \in ListsOf(S)
  <2>1. Len(groups) \in Nat /\ \A k \in 1..Len(groups) : groups[k] \in FullSeq(Items(S))
    BY <1>5
  <2>2. \A k \in 1..(g - 1) : Len(groups[k]) \in Nat
    BY <2>1 DEF FullSeq
  <2>3. before(g) \in Seq(Nat)
    BY <2>2
  <2> HIDE DEF before
  <2>4. Total(before(g)) \in Nat
    BY <2>3, TotalType
  <2>5. groups[g] \in FullSeq(Items(S)) /\ b \in ListsOf(S)
    BY <2>1 DEF S
  <2>6. QED
    BY <2>4, <2>5, ListPieceType
<1> HIDE DEF piece
<1>7. made = [g \in DOMAIN groups |-> made[g]] /\ \A g \in DOMAIN groups : made[g] = piece(g)
  OBVIOUS
<1>8. DOMAIN groups = 1..Len(groups)
  BY <1>5
<1> HIDE DEF made
<1>9. made \in Seq(ListsOf(S))
  BY <1>5, <1>6, <1>7, <1>8, MadeType
<1>10. QED
  BY <1>9 DEF SplitTextList, made, piece, before, groups, chars, S

LEMMA DearestType ==
  ASSUME NEW T, IsTextClass(T), NEW d \in 0..MaxNestingDepth,
         NEW b \in ListsOf(Blocks(T)[d])
  PROVE  Max({MeasureItemUnits(b.items[i]) : i \in DOMAIN b.items}) \in Nat \ {0}
<1> DEFINE S == Blocks(T)[d]
           n == Len(b.items)
           size == [i \in 1..n |-> MeasureItemUnits(b.items[i])]
<1>1. /\ b.items \in Seq(Items(S)) /\ b.items # <<>>
      /\ \A i \in 1..n : b.items[i] \in Items(S) /\ b.items[i].blocks \in Seq(S)
  BY ListKinds
<1>2. n \in Nat \ {0} /\ DOMAIN b.items = 1..n
  BY <1>1
<1>3. \A i \in 1..n : MeasureItemUnits(b.items[i]) \in Nat \ {0}
  BY <1>1, MeasureItemType
<1>4. size \in [1..n -> Nat] /\ \A i \in 1..n : size[i] \in Nat \ {0}
  BY <1>3
<1>5. {MeasureItemUnits(b.items[i]) : i \in DOMAIN b.items} = {size[i] : i \in 1..n}
  BY <1>2
<1> HIDE DEF size, n
<1>6. /\ Max({size[i] : i \in 1..n}) \in Nat
      /\ \A i \in 1..n : size[i] <= Max({size[j] : j \in 1..n})
  BY <1>2, <1>4, LargestOf
<1>7. Max({size[i] : i \in 1..n}) # 0
  <2>1. 1 \in 1..n
    BY <1>2
  <2>2. size[1] \in Nat \ {0}
    BY <2>1, <1>4
  <2>3. size[1] <= Max({size[i] : i \in 1..n})
    BY <2>1, <1>6
  <2> DEFINE most == Max({size[i] : i \in 1..n})
  <2>4. most \in Nat
    BY <1>6
  <2> HIDE DEF most
  <2>5. most # 0
    BY <2>2, <2>3, <2>4 DEF most
  <2>6. QED
    BY <2>5 DEF most
<1>8. QED
  BY <1>5, <1>6, <1>7

LEMMA SplitNativeListType ==
  ASSUME NEW T, IsTextClass(T), NEW d \in 0..MaxNestingDepth,
         NEW b \in ListsOf(Blocks(T)[d]), NEW lim \in SplitLimits
  PROVE  SplitNativeList(b, lim) \in Seq(ListsOf(Blocks(T)[d]))
<1> DEFINE S == Blocks(T)[d]
           dearest == Max({MeasureItemUnits(b.items[i]) : i \in DOMAIN b.items})
           measure(i) == MeasureItem(b.items[i])
           chars == [i \in DOMAIN b.items |-> measure(i)]
           room == (lim.maxBlocks - 1) \div dearest
           groups == GroupItems(b.items, chars, lim.maxChars, room)
           piece(g) == [b EXCEPT !.items = groups[g]]
           made == [g \in DOMAIN groups |-> piece(g)]
<1>1. /\ b.items \in Seq(Items(S)) /\ b.items # <<>>
      /\ \A i \in 1..Len(b.items) : b.items[i] \in Items(S) /\ b.items[i].blocks \in Seq(S)
  BY ListKinds
<1>2. \A i \in 1..Len(b.items) : measure(i) \in Nat
  BY <1>1, MeasureItemType
<1>3. chars \in [1..Len(b.items) -> Nat]
  <2> HIDE DEF measure, S
  <2>1. QED
    BY <1>1, <1>2
<1>4. dearest \in Nat \ {0}
  BY DearestType
<1> HIDE DEF dearest
<1>5. lim.maxChars \in Nat /\ lim.maxBlocks \in Nat \ {0}
  BY DEF SplitLimits
<1>6. room \in Int
  BY <1>4, <1>5
<1> HIDE DEF chars, S, room
<1>7. groups \in Seq(FullSeq(Items(S)))
  BY <1>1, <1>3, <1>5, <1>6, GroupItemsType
<1> HIDE DEF groups
<1>8. ASSUME NEW g \in 1..Len(groups)
      PROVE  piece(g) \in ListsOf(S)
  <2>1. groups[g] \in FullSeq(Items(S)) /\ b \in ListsOf(S) /\ 0 \in Nat
    BY <1>7 DEF S
  <2>2. QED
    BY <2>1, ListPieceType
<1> HIDE DEF piece
<1>9. made = [g \in DOMAIN groups |-> made[g]] /\ \A g \in DOMAIN groups : made[g] = piece(g)
  OBVIOUS
<1>10. DOMAIN groups = 1..Len(groups)
  BY <1>7
<1> HIDE DEF made
<1>11. made \in Seq(ListsOf(S))
  BY <1>7, <1>8, <1>9, <1>10, MadeType
<1>12. QED
  BY <1>11 DEF SplitNativeList, Lists, made, piece, groups, room, dearest, chars, S

LEMMA QuotesType ==
  ASSUME NEW T, IsTextClass(T), NEW d \in 0..MaxNestingDepth,
         NEW blocks \in Seq(Blocks(T)[d]), NEW lim \in SplitLimits
  PROVE  Quotes(blocks, lim) \in Seq(BlocksOf(Blocks(T)[d]))
<1> DEFINE S == Blocks(T)[d]
           measure(i) == Chars[RichBlock[blocks[i]]]
           chars == [i \in DOMAIN blocks |-> measure(i)]
           groups == GroupItems(blocks, chars, lim.maxChars, lim.maxBlocks)
           piece(g) == [type |-> "blockquote", blocks |-> groups[g]]
           made == [g \in DOMAIN groups |-> piece(g)]
<1>1. blocks \in Seq(S) /\ \A i \in 1..Len(blocks) : blocks[i] \in S
  OBVIOUS
<1>2. \A i \in 1..Len(blocks) : measure(i) \in Nat
  BY <1>1, BlockSizes
<1>3. chars \in [1..Len(blocks) -> Nat]
  <2> HIDE DEF measure, S
  <2>1. QED
    BY <1>1, <1>2
<1>4. lim.maxChars \in Nat /\ lim.maxBlocks \in Int
  BY DEF SplitLimits
<1> HIDE DEF chars, S
<1>5. groups \in Seq(FullSeq(S))
  BY <1>1, <1>3, <1>4, GroupItemsType
<1> HIDE DEF groups
<1>6. ASSUME NEW g \in 1..Len(groups)
      PROVE  piece(g) \in BlocksOf(S)
  <2>1. groups[g] \in Seq(S)
    BY <1>5, GrownGroup
  <2>2. QED
    BY <2>1 DEF BlocksOf
<1> HIDE DEF piece
<1>7. made = [g \in DOMAIN groups |-> made[g]] /\ \A g \in DOMAIN groups : made[g] = piece(g)
  OBVIOUS
<1>8. DOMAIN groups = 1..Len(groups)
  BY <1>5
<1> HIDE DEF made
<1>9. made \in Seq(BlocksOf(S))
  BY <1>5, <1>6, <1>7, <1>8, MadeType
<1>10. QED
  BY <1>9 DEF Quotes, made, piece, groups, chars, S

LEMMA SplitByTypeType ==
  ASSUME NEW T, IsTextClass(T), NEW d \in 0..MaxNestingDepth, NEW b \in Blocks(T)[d],
         NEW lim \in SplitLimits
  PROVE  SplitByType(b, lim) \in Seq(Blocks(T)[d])
<1>1. LeafBlocks(T) \subseteq Blocks(T)[d] /\ FittingBlocks(T, d, lim) \subseteq Blocks(T)[d]
  BY LeafIsBlock DEF FittingBlocks
<1>2. /\ Seq(LeafBlocks(T)) \subseteq Seq(Blocks(T)[d])
      /\ Seq(FittingBlocks(T, d, lim)) \subseteq Seq(Blocks(T)[d])
  BY <1>1, SeqOfMore
<1>3. CASE b.type = "code"
  <2>1. b.text \in T
    BY <1>3, BlockKinds
  <2>2. SplitCode(b, lim) \in Seq(Blocks(T)[d])
    BY <1>2, <2>1, SplitCodeType
  <2>3. QED
    BY <1>3, <2>2 DEF SplitByType
<1>4. CASE b.type = "table" /\ Len(b.rows) > 1
  <2>1. b.rows \in Seq(Seq(T))
    BY <1>4, BlockKinds
  <2>2. SplitTable(b, lim) \in Seq(Blocks(T)[d])
    BY <1>2, <1>4, <2>1, SplitTableType
  <2>3. QED
    BY <1>4, <2>2 DEF SplitByType
<1>5. CASE b.type = "list"
  <2>1. d # 0 /\ d - 1 \in 0..MaxNestingDepth /\ b \in ListsOf(Blocks(T)[d - 1])
    BY <1>5, BlockKinds
  <2>2. ListsOf(Blocks(T)[d - 1]) \subseteq Blocks(T)[d]
    BY <2>1, HolderIsBlock DEF BlocksOf
  <2>3. Seq(ListsOf(Blocks(T)[d - 1])) \subseteq Seq(Blocks(T)[d])
    BY <2>2, SeqOfMore
  <2>4. /\ SplitTextList(b, lim) \in Seq(Blocks(T)[d])
        /\ SplitNativeList(b, lim) \in Seq(Blocks(T)[d])
    BY <2>1, <2>3, SplitTextListType, SplitNativeListType
  <2>5. QED
    BY <1>5, <2>4 DEF SplitByType
<1>6. CASE ~(b.type = "code" \/ (b.type = "table" /\ Len(b.rows) > 1) \/ b.type = "list")
  <2>1. SplitToPlain(b, lim) \in Seq(Blocks(T)[d])
    BY <1>2, SplitToPlainType
  <2>2. QED
    BY <1>6, <2>1 DEF SplitByType
<1>7. QED
  BY <1>3, <1>4, <1>5, <1>6

LEMMA FittedType ==
  ASSUME NEW T, IsTextClass(T), NEW d \in 0..MaxNestingDepth,
         NEW pieces \in Seq(Blocks(T)[d]), NEW lim \in SplitLimits
  PROVE  Fitted(pieces, lim) \in Seq(FittingBlocks(T, d, lim))
<1> DEFINE F == FittingBlocks(T, d, lim)
           part(i) == IF FitsLimits(pieces[i], lim) THEN <<pieces[i]>>
                      ELSE SplitToPlain(pieces[i], lim)
           made == [i \in DOMAIN pieces |-> part(i)]
<1>1. ASSUME NEW i \in 1..Len(pieces)
      PROVE  part(i) \in Seq(F)
  <2>1. pieces[i] \in Blocks(T)[d]
    OBVIOUS
  <2>2. CASE FitsLimits(pieces[i], lim)
    <3>1. pieces[i] \in F
      BY <2>1, <2>2 DEF FittingBlocks
    <3> HIDE DEF F
    <3>2. <<pieces[i]>> \in Seq(F)
      BY <3>1, Single
    <3>3. QED
      BY <2>2, <3>2
  <2>3. CASE ~FitsLimits(pieces[i], lim)
    BY <2>1, <2>3, SplitToPlainType
  <2>4. QED
    BY <2>2, <2>3
<1> HIDE DEF F, part
<1>2. made = [i \in DOMAIN pieces |-> made[i]] /\ \A i \in DOMAIN pieces : made[i] = part(i)
  OBVIOUS
<1>3. DOMAIN pieces = 1..Len(pieces)
  OBVIOUS
<1> HIDE DEF made
<1>4. made \in Seq(Seq(F))
  BY <1>1, <1>2, <1>3, MadeType
<1>5. FlattenSeq(made) \in Seq(F)
  BY <1>4, FlattenSeqType
<1>6. QED
  BY <1>5 DEF Fitted, made, part, F

LEMMA InnerLimitsType ==
  ASSUME NEW lim \in SplitLimits
  PROVE  InnerLimits(lim) \in SplitLimits
<1>1. lim.maxBlocks \in Nat \ {0} /\ lim.maxBlocks - 1 \in Int /\ 1 \in Int
  BY DEF SplitLimits
<1>2. /\ Max({1, lim.maxBlocks - 1}) \in {1, lim.maxBlocks - 1}
      /\ 1 <= Max({1, lim.maxBlocks - 1})
  BY <1>1, LargerOf
<1>3. Max({1, lim.maxBlocks - 1}) \in Nat \ {0}
  BY <1>1, <1>2
<1>4. QED
  BY <1>3 DEF InnerLimits, SplitLimits

-----------------------------------------------------------------------------
(* Splitting what does not fit.                                              *)

InnerOf(s, g, lim) == FlattenSeq([i \in DOMAIN s |-> g[s[i]][lim]])

SplitFor(block, g, lim) ==
  IF FitsLimits(block, lim) THEN <<block>>
  ELSE Fitted(IF block.type = "blockquote"
              THEN Quotes(InnerOf(block.blocks, g, InnerLimits(lim)), InnerLimits(lim))
              ELSE SplitByType(block, lim), lim)

SplitStep(block, g) == [lim \in SplitLimits |-> SplitFor(block, g, lim)]

LEMMA InnerOfType ==
  ASSUME NEW S, NEW B, NEW s \in Seq(S), NEW g, NEW lim,
         \A c \in S : g[c][lim] \in Seq(B)
  PROVE  InnerOf(s, g, lim) \in Seq(B)
<1> DEFINE made == [i \in DOMAIN s |-> g[s[i]][lim]]
<1>1. \A i \in 1..Len(s) : g[s[i]][lim] \in Seq(B)
  OBVIOUS
<1>2. made = [i \in DOMAIN s |-> made[i]] /\ \A i \in DOMAIN s : made[i] = g[s[i]][lim]
  OBVIOUS
<1>3. DOMAIN s = 1..Len(s)
  OBVIOUS
<1> HIDE DEF made
<1>4. made \in Seq(Seq(B))
  BY <1>1, <1>2, <1>3, MadeType
<1>5. QED
  BY <1>4, FlattenSeqType DEF InnerOf, made

LEMMA InnerOfSame ==
  ASSUME NEW S, NEW s \in Seq(S), NEW g, NEW h, NEW lim, \A c \in S : g[c] = h[c]
  PROVE  InnerOf(s, g, lim) = InnerOf(s, h, lim)
<1>1. \A i \in DOMAIN s : g[s[i]][lim] = h[s[i]][lim]
  OBVIOUS
<1>2. QED
  BY <1>1 DEF InnerOf

\* A block that fits is left as it is; what does not fit is split into blocks
\* that do.
LEMMA SplitForType ==
  ASSUME NEW T, IsTextClass(T), NEW d \in 0..MaxNestingDepth, NEW b \in Blocks(T)[d],
         NEW g, NEW lim \in SplitLimits,
         d = 0 \/ \A c \in Blocks(T)[d - 1] : \A l \in SplitLimits :
                    g[c][l] \in Seq(Blocks(T)[d - 1])
  PROVE  SplitFor(b, g, lim) \in Seq(FittingBlocks(T, d, lim))
<1>1. CASE FitsLimits(b, lim)
  <2>1. b \in FittingBlocks(T, d, lim)
    BY <1>1 DEF FittingBlocks
  <2>2. <<b>> \in Seq(FittingBlocks(T, d, lim))
    BY <2>1, Single
  <2>3. QED
    BY <1>1, <2>2 DEF SplitFor
<1>2. CASE ~FitsLimits(b, lim) /\ b.type = "blockquote"
  <2> DEFINE l == InnerLimits(lim)
             inner == InnerOf(b.blocks, g, l)
             S == Blocks(T)[d - 1]
  <2>1. d # 0 /\ d - 1 \in 0..MaxNestingDepth /\ b.blocks \in Seq(S)
    BY <1>2, BlockKinds
  <2>2. l \in SplitLimits
    BY InnerLimitsType
  <2> HIDE DEF l
  <2>3. \A c \in S : g[c][l] \in Seq(S)
    BY <2>1, <2>2
  <2> HIDE DEF S
  <2>4. inner \in Seq(S)
    BY <2>1, <2>3, InnerOfType
  <2> HIDE DEF inner
  <2>5. Quotes(inner, l) \in Seq(BlocksOf(S))
    BY <2>1, <2>2, <2>4, QuotesType DEF S
  <2>6. BlocksOf(S) \subseteq Blocks(T)[d]
    BY <2>1, HolderIsBlock DEF S
  <2>7. Quotes(inner, l) \in Seq(Blocks(T)[d])
    BY <2>5, <2>6, SeqOfMore
  <2>8. Fitted(Quotes(inner, l), lim) \in Seq(FittingBlocks(T, d, lim))
    BY <2>7, FittedType
  <2>9. QED
    BY <1>2, <2>8 DEF SplitFor, inner, l
<1>3. CASE ~FitsLimits(b, lim) /\ b.type # "blockquote"
  <2>1. SplitByType(b, lim) \in Seq(Blocks(T)[d])
    BY SplitByTypeType
  <2>2. Fitted(SplitByType(b, lim), lim) \in Seq(FittingBlocks(T, d, lim))
    BY <2>1, FittedType
  <2>3. QED
    BY <1>3, <2>2 DEF SplitFor
<1>4. QED
  BY <1>1, <1>2, <1>3

LEMMA SplitStepType ==
  ASSUME NEW T, IsTextClass(T), NEW d \in 0..MaxNestingDepth, NEW b \in Blocks(T)[d],
         NEW g,
         d = 0 \/ \A c \in Blocks(T)[d - 1] : g[c] \in [SplitLimits -> Seq(Blocks(T)[d - 1])]
  PROVE  SplitStep(b, g) \in [SplitLimits -> Seq(Blocks(T)[d])]
<1>1. d = 0 \/ \A c \in Blocks(T)[d - 1] : \A l \in SplitLimits :
                 g[c][l] \in Seq(Blocks(T)[d - 1])
  OBVIOUS
<1>2. ASSUME NEW lim \in SplitLimits
      PROVE  SplitFor(b, g, lim) \in Seq(Blocks(T)[d])
  <2>1. SplitFor(b, g, lim) \in Seq(FittingBlocks(T, d, lim))
    BY <1>1, SplitForType
  <2>2. FittingBlocks(T, d, lim) \subseteq Blocks(T)[d]
    BY DEF FittingBlocks
  <2>3. QED
    BY <2>1, <2>2, SeqOfMore
<1>3. QED
  BY <1>2 DEF SplitStep

LEMMA SplitStepLocal ==
  ASSUME NEW T, NEW d \in 0..MaxNestingDepth, NEW b \in Blocks(T)[d], NEW g, NEW h,
         d = 0 \/ \A c \in Blocks(T)[d - 1] : g[c] = h[c]
  PROVE  SplitStep(b, g) = SplitStep(b, h)
<1>1. ASSUME NEW lim \in SplitLimits
      PROVE  SplitFor(b, g, lim) = SplitFor(b, h, lim)
  <2>1. CASE b.type = "blockquote"
    <3>1. d # 0 /\ b.blocks \in Seq(Blocks(T)[d - 1])
      BY <2>1, BlockKinds
    <3>2. InnerOf(b.blocks, g, InnerLimits(lim)) = InnerOf(b.blocks, h, InnerLimits(lim))
      BY <3>1, InnerOfSame
    <3>3. QED
      BY <2>1, <3>2 DEF SplitFor
  <2>2. CASE b.type # "blockquote"
    BY <2>2 DEF SplitFor
  <2>3. QED
    BY <2>1, <2>2
<1>2. QED
  BY <1>1 DEF SplitStep

LEMMA SplitOversizeUnfold == \A b \in Block : SplitOversize[b] = SplitStep(b, SplitOversize)
<1> DEFINE D == MaxNestingDepth
           B == Blocks(AnyText)
           W == [SplitLimits -> Seq(B[D])]
           V == [d \in 0..D |-> [SplitLimits -> Seq(B[d])]]
           step == [p \in B[D] \X [B[D] -> W] |-> SplitStep(p[1], p[2])]
           Unfolds(f) == f = [b \in Block |-> SplitStep(b, f)]
<1>1. D \in Nat /\ LayersGrow(D, B) /\ IsTextClass(AnyText) /\ B[D] = Block
  BY BlocksGrow, AnyIsClass, BlocksAssumption, TreeAssumption DEF Block
<1>2. [lim \in SplitLimits |-> <<>>] \in W /\ \A d \in 0..D : V[d] \subseteq W
  <2>1. \A d \in 0..D : B[d] \subseteq B[D]
    <3> HIDE DEF D, B
    <3>1. QED
      BY <1>1, Increasing
  <2>2. \A d \in 0..D : Seq(B[d]) \subseteq Seq(B[D])
    BY <2>1, SeqOfMore
  <2>3. \A d \in 0..D : [SplitLimits -> Seq(B[d])] \subseteq W
    BY <2>2
  <2>4. [lim \in SplitLimits |-> <<>>] \in W
    OBVIOUS
  <2>5. QED
    BY <2>3, <2>4
<1>3. \A d \in 0..D : B[d] \subseteq B[D]
  <2> HIDE DEF D, B
  <2>1. QED
    BY <1>1, Increasing
<1>4. ASSUME NEW b \in B[D], NEW g \in [B[D] -> W]
      PROVE  step[<<b, g>>] = SplitStep(b, g)
  <2>1. <<b, g>> \in B[D] \X [B[D] -> W]
    OBVIOUS
  <2>2. QED
    BY <2>1
<1> HIDE DEF step
<1>5. StepTyped(D, B, V, W, step)
  <2> SUFFICES ASSUME NEW d \in 0..D, NEW b \in B[d], NEW g \in [B[D] -> W],
                      d = 0 \/ \A c \in B[d - 1] : g[c] \in V[d - 1]
               PROVE  step[<<b, g>>] \in V[d]
    BY DEF StepTyped
  <2>1. d = 0 \/ d - 1 \in 0..D
    BY <1>1
  <2>2. SplitStep(b, g) \in V[d]
    BY <1>1, <2>1, SplitStepType
  <2>3. QED
    BY <1>3, <1>4, <2>2
<1>6. StepLocal(D, B, W, step)
  <2> SUFFICES ASSUME NEW d \in 0..D, NEW b \in B[d],
                      NEW g \in [B[D] -> W], NEW h \in [B[D] -> W],
                      d = 0 \/ \A c \in B[d - 1] : g[c] = h[c]
               PROVE  step[<<b, g>>] = step[<<b, h>>]
    BY DEF StepLocal
  <2>1. SplitStep(b, g) = SplitStep(b, h)
    <3> HIDE DEF W
    <3>1. QED
      BY SplitStepLocal
  <2>2. b \in B[D]
    BY <1>3
  <2>3. QED
    BY <1>4, <2>1, <2>2
<1>7. PICK f \in [B[D] -> W] : TreeSolves(D, B, step, f)
  <2> HIDE DEF D, B, V, W
  <2>1. QED
    BY <1>1, <1>2, <1>5, <1>6, TreeRecursion
<1>8. Unfolds(f)
  <2> HIDE DEF D, B, W
  <2>1. \A b \in B[D] : f[b] = SplitStep(b, f)
    BY <1>4, <1>7 DEF TreeSolves
  <2>2. f = [b \in B[D] |-> f[b]]
    BY <1>7
  <2>3. f = [b \in B[D] |-> SplitStep(b, f)]
    BY <2>1, <2>2, Zenon
  <2>4. QED
    BY <1>1, <2>3, Zenon
<1>9. Unfolds(CHOOSE g : Unfolds(g))
  <2> HIDE DEF Unfolds
  <2>1. QED
    BY <1>8
<1>10. SplitOversize = CHOOSE g : Unfolds(g)
  BY DEF SplitOversize, SplitStep, SplitFor, InnerOf
<1>11. Unfolds(SplitOversize)
  BY <1>9, <1>10
<1>12. SplitOversize = [b \in Block |-> SplitStep(b, SplitOversize)]
  BY <1>11
<1>13. QED
  BY <1>12, Zenon

LEMMA SplitOversizeType ==
  ASSUME NEW T, IsTextClass(T), NEW d \in 0..MaxNestingDepth, NEW b \in Blocks(T)[d]
  PROVE  SplitOversize[b] \in [SplitLimits -> Seq(Blocks(T)[d])]
<1> DEFINE D == MaxNestingDepth
           B == Blocks(T)
           W == [n \in 0..D |-> [SplitLimits -> Seq(Blocks(T)[n])]]
<1>1. D \in Nat /\ T \subseteq AnyText /\ LayersGrow(D, Blocks(AnyText))
  BY BlocksGrow, BlocksAssumption, TreeAssumption DEF IsTextClass
<1>2. \A n \in 0..D : B[n] \subseteq Block
  <2>1. \A n \in 0..D : B[n] \subseteq Blocks(AnyText)[n]
    BY <1>1, BlocksOfMore
  <2>2. \A n \in 0..D : Blocks(AnyText)[n] \subseteq Blocks(AnyText)[D]
    BY <1>1, Increasing
  <2>3. QED
    BY <2>1, <2>2 DEF Block
<1>3. ASSUME NEW n \in 0..D, NEW c \in B[n], n = 0 \/ \A e \in B[n - 1] : SplitOversize[e] \in W[n - 1]
      PROVE  SplitOversize[c] \in W[n]
  <2>1. SplitOversize[c] = SplitStep(c, SplitOversize)
    BY <1>2, SplitOversizeUnfold
  <2>2. n = 0 \/ n - 1 \in 0..D
    BY <1>1
  <2>3. SplitStep(c, SplitOversize) \in W[n]
    BY <1>3, <2>2, SplitStepType
  <2>4. QED
    BY <2>1, <2>3
<1>4. TreeTyped(D, B, W, SplitOversize)
  <2> HIDE DEF B, D, W
  <2>1. QED
    BY <1>1, <1>3, TreeTypes
<1>5. QED
  BY <1>4 DEF TreeTyped

\* Every piece of a split block fits.
LEMMA SplitFits ==
  ASSUME NEW T, IsTextClass(T), NEW b \in Blocks(T)[MaxNestingDepth], NEW lim \in SplitLimits
  PROVE  SplitOversize[b][lim] \in Seq(FittingBlocks(T, MaxNestingDepth, lim))
<1> DEFINE D == MaxNestingDepth
<1>1. D \in 0..D /\ D \in Nat
  BY BlocksAssumption
<1>2. b \in Block
  BY <1>1, BlocksOfMore DEF Block, IsTextClass
<1>3. SplitOversize[b][lim] = SplitFor(b, SplitOversize, lim)
  BY <1>2, SplitOversizeUnfold DEF SplitStep
<1>4. D = 0 \/ \A c \in Blocks(T)[D - 1] : \A l \in SplitLimits :
                 SplitOversize[c][l] \in Seq(Blocks(T)[D - 1])
  <2>1. D = 0 \/ D - 1 \in 0..D
    BY <1>1
  <2>2. D = 0 \/ \A c \in Blocks(T)[D - 1] :
                   SplitOversize[c] \in [SplitLimits -> Seq(Blocks(T)[D - 1])]
    BY <2>1, SplitOversizeType
  <2>3. QED
    BY <2>2
<1>5. QED
  BY <1>1, <1>3, <1>4, SplitForType

-----------------------------------------------------------------------------
(* The nodes of a tree.                                                      *)

LEMMA LeafPhrasesGrows ==
  ASSUME NEW T, NEW T2, T \subseteq T2
  PROVE  LeafPhrases(T) \subseteq LeafPhrases(T2)
BY DEF LeafPhrases

LEMMA PhrasesOfGrows ==
  ASSUME NEW S, NEW S2, S \subseteq S2
  PROVE  PhrasesOf(S) \subseteq PhrasesOf(S2)
BY SeqOfMore DEF PhrasesOf

\* The layers of Phrases.
LEMMA PhrasesUnfold ==
  ASSUME NEW T
  PROVE  \A d \in 0..MaxTreeDepth :
           Phrases(T)[d] = IF d = 0 THEN LeafPhrases(T)
                          ELSE LeafPhrases(T) \cup PhrasesOf(Phrases(T)[d - 1])
<1> DEFINE D == MaxTreeDepth
           leaves == LeafPhrases(T)
           Value(d, f) == IF d = 0 THEN leaves ELSE leaves \cup PhrasesOf(f[d - 1])
           Until(n, f) == f = [d \in 0..n |-> Value(d, f)]
           Bad == {n \in 0..D : ~\E f : Until(n, f)}
<1>1. D \in Nat
  BY BlocksAssumption, TreeAssumption
<1> HIDE DEF D, leaves
<1>2. \E f : Until(0, f)
  <2> DEFINE f == [d \in 0..0 |-> leaves]
  <2>1. f = [d \in 0..0 |-> Value(d, f)]
    <3>1. \A d \in 0..0 : d = 0
      OBVIOUS
    <3>2. QED
      BY <3>1
  <2> HIDE DEF f, Value
  <2>2. QED
    BY <2>1
<1>3. ASSUME NEW n \in 1..D, \E f : Until(n - 1, f)
      PROVE  \E f : Until(n, f)
  <2>1. PICK f : Until(n - 1, f)
    BY <1>3
  <2> DEFINE g == [d \in 0..n |-> Value(d, f)]
  <2>2. \A d \in 0..(n - 1) : d \in 0..n /\ f[d] = Value(d, f)
    <3> HIDE DEF Value
    <3>1. QED
      BY <2>1, <1>1
  <2>3. \A d \in 0..(n - 1) : g[d] = f[d]
    <3> HIDE DEF Value
    <3>1. QED
      BY <2>2
  <2>4. \A d \in 0..n : d = 0 \/ d - 1 \in 0..(n - 1)
    BY <1>1
  <2> HIDE DEF g
  <2>5. \A d \in 0..n : Value(d, f) = Value(d, g)
    BY <2>3, <2>4
  <2> HIDE DEF Value
  <2>6. g = [d \in 0..n |-> Value(d, g)]
    BY <2>5 DEF g
  <2>7. QED
    BY <2>6
<1> HIDE DEF Until
<1>4. Bad = {}
  <2>1. SUFFICES ASSUME Bad # {} PROVE FALSE
    OBVIOUS
  <2>2. Bad \in SUBSET Nat
    BY <1>1
  <2>3. PICK n \in Bad : \A m \in Bad : n <= m
    BY <2>1, <2>2, Least
  <2>4. n \in 1..D
    BY <1>1, <1>2
  <2>5. n - 1 \in 0..D /\ ~(n <= n - 1)
    BY <2>4, <1>1
  <2>6. \E f : Until(n - 1, f)
    BY <2>3, <2>5
  <2>7. QED
    BY <1>3, <2>3, <2>4, <2>6
<1>5. D \in 0..D
  BY <1>1
<1>6. Until(D, CHOOSE f : Until(D, f))
  BY <1>4, <1>5
<1>7. Phrases(T) = CHOOSE f : Until(D, f)
  BY DEF Phrases, Until, D, leaves
<1> DEFINE layer == Phrases(T)
<1>8. layer = [d \in 0..D |-> Value(d, layer)]
  BY <1>6, <1>7 DEF Until
<1> HIDE DEF layer
<1>9. \A d \in 0..D : layer[d] = Value(d, layer)
  <2> HIDE DEF Value
  <2>1. QED
    BY <1>8
<1>10. QED
  BY <1>9 DEF layer, D, leaves

LEMMA PhrasesGrow ==
  ASSUME NEW T
  PROVE  LayersGrow(MaxTreeDepth, Phrases(T))
<1> DEFINE D == MaxTreeDepth
           leaves == LeafPhrases(T)
           B == Phrases(T)
           Bad == {d \in 1..D : ~(B[d - 1] \subseteq B[d])}
<1>1. D \in Nat /\ \A d \in 0..D : B[d] = IF d = 0 THEN leaves ELSE leaves \cup PhrasesOf(B[d - 1])
  BY PhrasesUnfold, BlocksAssumption, TreeAssumption
<1> HIDE DEF D, leaves, B
<1>2. Bad = {}
  <2>1. SUFFICES ASSUME Bad # {} PROVE FALSE
    OBVIOUS
  <2>2. Bad \in SUBSET Nat
    BY <1>1
  <2>3. PICK d \in Bad : \A m \in Bad : d <= m
    BY <2>1, <2>2, Least
  <2>4. d \in 1..D /\ d \in 0..D /\ d # 0 /\ d - 1 \in 0..D
    BY <2>3, <1>1
  <2>5. B[d] = leaves \cup PhrasesOf(B[d - 1])
    BY <2>4, <1>1
  <2>6. CASE d - 1 = 0
    <3>1. B[d - 1] = leaves
      BY <2>4, <2>6, <1>1
    <3>2. QED
      BY <2>3, <2>5, <3>1
  <2>7. CASE d - 1 # 0
    <3>1. d - 1 \in 1..D /\ ~(d <= d - 1)
      BY <2>4, <2>7, <1>1
    <3>2. B[d - 1 - 1] \subseteq B[d - 1]
      BY <2>3, <3>1
    <3>3. B[d - 1] = leaves \cup PhrasesOf(B[d - 1 - 1])
      BY <2>4, <2>7, <1>1
    <3>4. PhrasesOf(B[d - 1 - 1]) \subseteq PhrasesOf(B[d - 1])
      BY <3>2, PhrasesOfGrows
    <3>5. QED
      BY <2>3, <2>5, <3>3, <3>4
  <2>8. QED
    BY <2>6, <2>7
<1>3. QED
  BY <1>2 DEF LayersGrow, D, B

LEMMA PhrasesOfMore ==
  ASSUME NEW T, NEW T2, T \subseteq T2, NEW d \in 0..MaxTreeDepth
  PROVE  Phrases(T)[d] \subseteq Phrases(T2)[d]
<1> DEFINE D == MaxTreeDepth
           B == Phrases(T)
           B2 == Phrases(T2)
           Bad == {n \in 0..D : ~(B[n] \subseteq B2[n])}
<1>1. /\ D \in Nat
      /\ \A n \in 0..D : B[n] = IF n = 0 THEN LeafPhrases(T) ELSE LeafPhrases(T) \cup PhrasesOf(B[n - 1])
  BY PhrasesUnfold, BlocksAssumption, TreeAssumption
<1>2. \A n \in 0..D : B2[n] = IF n = 0 THEN LeafPhrases(T2) ELSE LeafPhrases(T2) \cup PhrasesOf(B2[n - 1])
  BY PhrasesUnfold
<1>3. LeafPhrases(T) \subseteq LeafPhrases(T2)
  BY LeafPhrasesGrows
<1> HIDE DEF D, B, B2
<1>4. Bad = {}
  <2>1. SUFFICES ASSUME Bad # {} PROVE FALSE
    OBVIOUS
  <2>2. Bad \in SUBSET Nat
    BY <1>1
  <2>3. PICK n \in Bad : \A m \in Bad : n <= m
    BY <2>1, <2>2, Least
  <2>4. n # 0
    BY <2>3, <1>1, <1>2, <1>3
  <2>5. n \in 0..D /\ n - 1 \in 0..D /\ ~(n <= n - 1)
    BY <2>3, <2>4, <1>1
  <2>6. B[n - 1] \subseteq B2[n - 1]
    BY <2>3, <2>5
  <2>7. PhrasesOf(B[n - 1]) \subseteq PhrasesOf(B2[n - 1])
    BY <2>6, PhrasesOfGrows
  <2>8. B[n] \subseteq B2[n]
    BY <2>4, <2>5, <2>7, <1>1, <1>2, <1>3
  <2>9. QED
    BY <2>3, <2>8
<1>5. QED
  BY <1>4 DEF D, B, B2

\* The phrases that hold a text.
Written ==
  {"text", "inlineCode", "image", "imageReference", "footnoteReference", "html"}

LEMMA PhraseKinds ==
  ASSUME NEW T, NEW d \in 0..MaxTreeDepth, NEW p \in Phrases(T)[d]
  PROVE  /\ p.type \in Holding \cup Written \cup {"break"}
         /\ p.type \in Written => p.value \in T
         /\ p.type = "html" => p.name \in STRING /\ p.closing \in BOOLEAN
         /\ p.type \in Holding => /\ d # 0 /\ d - 1 \in 0..MaxTreeDepth
                                  /\ p.children \in Seq(Phrases(T)[d - 1])
<1>1. p \in LeafPhrases(T) \/ (d # 0 /\ p \in PhrasesOf(Phrases(T)[d - 1]))
  BY PhrasesUnfold
<1>2. CASE p \in LeafPhrases(T)
  BY <1>2 DEF LeafPhrases, Holding, Marked, Written
<1>3. CASE d # 0 /\ p \in PhrasesOf(Phrases(T)[d - 1])
  <2>1. d - 1 \in 0..MaxTreeDepth
    BY <1>3, TreeAssumption
  <2>2. QED
    BY <1>3, <2>1 DEF PhrasesOf, Holding, Marked, Written
<1>4. QED
  BY <1>1, <1>2, <1>3

LEMMA LeafContentsGrows ==
  ASSUME NEW T, NEW T2, T \subseteq T2
  PROVE  LeafContents(T, Phrases(T)[MaxTreeDepth])
           \subseteq LeafContents(T2, Phrases(T2)[MaxTreeDepth])
<1> DEFINE P == Phrases(T)[MaxTreeDepth]
           P2 == Phrases(T2)[MaxTreeDepth]
<1>1. MaxTreeDepth \in 0..MaxTreeDepth
  BY TreeAssumption
<1>2. P \subseteq P2
  BY <1>1, PhrasesOfMore
<1> HIDE DEF P, P2
<1>3. Seq(P) \subseteq Seq(P2)
  BY <1>2, SeqOfMore
<1>4. Seq(Seq(P)) \subseteq Seq(Seq(P2))
  BY <1>3, SeqOfMore
<1>5. Seq(Seq(Seq(P))) \subseteq Seq(Seq(Seq(P2)))
  BY <1>4, SeqOfMore
<1>6. LeafContents(T, P) \subseteq LeafContents(T2, P2)
  BY <1>3, <1>5 DEF LeafContents
<1>7. QED
  BY <1>6 DEF P, P2

LEMMA ContentsOfGrows ==
  ASSUME NEW S, NEW S2, S \subseteq S2
  PROVE  ContentsOf(S) \subseteq ContentsOf(S2)
<1>1. Seq(S) \subseteq Seq(S2)
  BY SeqOfMore
<1>2. ListItems(S) \subseteq ListItems(S2)
  BY <1>1 DEF ListItems
<1>3. Seq(ListItems(S)) \subseteq Seq(ListItems(S2))
  BY <1>2, SeqOfMore
<1>4. QED
  BY <1>1, <1>3 DEF ContentsOf

\* The layers of Contents.
LEMMA ContentsUnfold ==
  ASSUME NEW T
  PROVE  \A d \in 0..MaxTreeDepth :
           Contents(T)[d] = IF d = 0 THEN LeafContents(T, Phrases(T)[MaxTreeDepth])
                          ELSE LeafContents(T, Phrases(T)[MaxTreeDepth]) \cup ContentsOf(Contents(T)[d - 1])
<1> DEFINE D == MaxTreeDepth
           leaves == LeafContents(T, Phrases(T)[MaxTreeDepth])
           Value(d, f) == IF d = 0 THEN leaves ELSE leaves \cup ContentsOf(f[d - 1])
           Until(n, f) == f = [d \in 0..n |-> Value(d, f)]
           Bad == {n \in 0..D : ~\E f : Until(n, f)}
<1>1. D \in Nat
  BY BlocksAssumption, TreeAssumption
<1> HIDE DEF D, leaves
<1>2. \E f : Until(0, f)
  <2> DEFINE f == [d \in 0..0 |-> leaves]
  <2>1. f = [d \in 0..0 |-> Value(d, f)]
    <3>1. \A d \in 0..0 : d = 0
      OBVIOUS
    <3>2. QED
      BY <3>1
  <2> HIDE DEF f, Value
  <2>2. QED
    BY <2>1
<1>3. ASSUME NEW n \in 1..D, \E f : Until(n - 1, f)
      PROVE  \E f : Until(n, f)
  <2>1. PICK f : Until(n - 1, f)
    BY <1>3
  <2> DEFINE g == [d \in 0..n |-> Value(d, f)]
  <2>2. \A d \in 0..(n - 1) : d \in 0..n /\ f[d] = Value(d, f)
    <3> HIDE DEF Value
    <3>1. QED
      BY <2>1, <1>1
  <2>3. \A d \in 0..(n - 1) : g[d] = f[d]
    <3> HIDE DEF Value
    <3>1. QED
      BY <2>2
  <2>4. \A d \in 0..n : d = 0 \/ d - 1 \in 0..(n - 1)
    BY <1>1
  <2> HIDE DEF g
  <2>5. \A d \in 0..n : Value(d, f) = Value(d, g)
    BY <2>3, <2>4
  <2> HIDE DEF Value
  <2>6. g = [d \in 0..n |-> Value(d, g)]
    BY <2>5 DEF g
  <2>7. QED
    BY <2>6
<1> HIDE DEF Until
<1>4. Bad = {}
  <2>1. SUFFICES ASSUME Bad # {} PROVE FALSE
    OBVIOUS
  <2>2. Bad \in SUBSET Nat
    BY <1>1
  <2>3. PICK n \in Bad : \A m \in Bad : n <= m
    BY <2>1, <2>2, Least
  <2>4. n \in 1..D
    BY <1>1, <1>2
  <2>5. n - 1 \in 0..D /\ ~(n <= n - 1)
    BY <2>4, <1>1
  <2>6. \E f : Until(n - 1, f)
    BY <2>3, <2>5
  <2>7. QED
    BY <1>3, <2>3, <2>4, <2>6
<1>5. D \in 0..D
  BY <1>1
<1>6. Until(D, CHOOSE f : Until(D, f))
  BY <1>4, <1>5
<1>7. Contents(T) = CHOOSE f : Until(D, f)
  BY DEF Contents, Until, D, leaves
<1> DEFINE layer == Contents(T)
<1>8. layer = [d \in 0..D |-> Value(d, layer)]
  BY <1>6, <1>7 DEF Until
<1> HIDE DEF layer
<1>9. \A d \in 0..D : layer[d] = Value(d, layer)
  <2> HIDE DEF Value
  <2>1. QED
    BY <1>8
<1>10. QED
  BY <1>9 DEF layer, D, leaves

LEMMA ContentsGrow ==
  ASSUME NEW T
  PROVE  LayersGrow(MaxTreeDepth, Contents(T))
<1> DEFINE D == MaxTreeDepth
           leaves == LeafContents(T, Phrases(T)[MaxTreeDepth])
           B == Contents(T)
           Bad == {d \in 1..D : ~(B[d - 1] \subseteq B[d])}
<1>1. D \in Nat /\ \A d \in 0..D : B[d] = IF d = 0 THEN leaves ELSE leaves \cup ContentsOf(B[d - 1])
  BY ContentsUnfold, BlocksAssumption, TreeAssumption
<1> HIDE DEF D, leaves, B
<1>2. Bad = {}
  <2>1. SUFFICES ASSUME Bad # {} PROVE FALSE
    OBVIOUS
  <2>2. Bad \in SUBSET Nat
    BY <1>1
  <2>3. PICK d \in Bad : \A m \in Bad : d <= m
    BY <2>1, <2>2, Least
  <2>4. d \in 1..D /\ d \in 0..D /\ d # 0 /\ d - 1 \in 0..D
    BY <2>3, <1>1
  <2>5. B[d] = leaves \cup ContentsOf(B[d - 1])
    BY <2>4, <1>1
  <2>6. CASE d - 1 = 0
    <3>1. B[d - 1] = leaves
      BY <2>4, <2>6, <1>1
    <3>2. QED
      BY <2>3, <2>5, <3>1
  <2>7. CASE d - 1 # 0
    <3>1. d - 1 \in 1..D /\ ~(d <= d - 1)
      BY <2>4, <2>7, <1>1
    <3>2. B[d - 1 - 1] \subseteq B[d - 1]
      BY <2>3, <3>1
    <3>3. B[d - 1] = leaves \cup ContentsOf(B[d - 1 - 1])
      BY <2>4, <2>7, <1>1
    <3>4. ContentsOf(B[d - 1 - 1]) \subseteq ContentsOf(B[d - 1])
      BY <3>2, ContentsOfGrows
    <3>5. QED
      BY <2>3, <2>5, <3>3, <3>4
  <2>8. QED
    BY <2>6, <2>7
<1>3. QED
  BY <1>2 DEF LayersGrow, D, B

LEMMA ContentsOfMore ==
  ASSUME NEW T, NEW T2, T \subseteq T2, NEW d \in 0..MaxTreeDepth
  PROVE  Contents(T)[d] \subseteq Contents(T2)[d]
<1> DEFINE D == MaxTreeDepth
           B == Contents(T)
           B2 == Contents(T2)
           Bad == {n \in 0..D : ~(B[n] \subseteq B2[n])}
<1>1. /\ D \in Nat
      /\ \A n \in 0..D : B[n] = IF n = 0 THEN LeafContents(T, Phrases(T)[MaxTreeDepth]) ELSE LeafContents(T, Phrases(T)[MaxTreeDepth]) \cup ContentsOf(B[n - 1])
  BY ContentsUnfold, BlocksAssumption, TreeAssumption
<1>2. \A n \in 0..D : B2[n] = IF n = 0 THEN LeafContents(T2, Phrases(T2)[MaxTreeDepth]) ELSE LeafContents(T2, Phrases(T2)[MaxTreeDepth]) \cup ContentsOf(B2[n - 1])
  BY ContentsUnfold
<1>3. LeafContents(T, Phrases(T)[MaxTreeDepth]) \subseteq LeafContents(T2, Phrases(T2)[MaxTreeDepth])
  BY LeafContentsGrows
<1> HIDE DEF D, B, B2
<1>4. Bad = {}
  <2>1. SUFFICES ASSUME Bad # {} PROVE FALSE
    OBVIOUS
  <2>2. Bad \in SUBSET Nat
    BY <1>1
  <2>3. PICK n \in Bad : \A m \in Bad : n <= m
    BY <2>1, <2>2, Least
  <2>4. n # 0
    BY <2>3, <1>1, <1>2, <1>3
  <2>5. n \in 0..D /\ n - 1 \in 0..D /\ ~(n <= n - 1)
    BY <2>3, <2>4, <1>1
  <2>6. B[n - 1] \subseteq B2[n - 1]
    BY <2>3, <2>5
  <2>7. ContentsOf(B[n - 1]) \subseteq ContentsOf(B2[n - 1])
    BY <2>6, ContentsOfGrows
  <2>8. B[n] \subseteq B2[n]
    BY <2>4, <2>5, <2>7, <1>1, <1>2, <1>3
  <2>9. QED
    BY <2>3, <2>8
<1>5. QED
  BY <1>4 DEF D, B, B2

LEMMA ContentKinds ==
  ASSUME NEW T, NEW d \in 0..MaxTreeDepth, NEW c \in Contents(T)[d]
  PROVE  /\ c.type \in {"paragraph", "heading", "table", "code", "html", "footnoteDefinition",
                        "thematicBreak", "definition", "blockquote", "list"}
         /\ c.type \in {"paragraph", "heading"} =>
              c.children \in Seq(Phrases(T)[MaxTreeDepth])
         /\ c.type = "table" => /\ c.children \in Seq(Seq(Seq(Phrases(T)[MaxTreeDepth])))
                                /\ c.children # <<>>
         /\ c.type \in {"code", "html", "footnoteDefinition"} => c.value \in T
         /\ c.type = "blockquote" => /\ d # 0 /\ d - 1 \in 0..MaxTreeDepth
                                     /\ c.children \in Seq(Contents(T)[d - 1])
         /\ c.type = "list" => /\ d # 0 /\ d - 1 \in 0..MaxTreeDepth
                               /\ c.ordered \in BOOLEAN
                               /\ c.children \in Seq(ListItems(Contents(T)[d - 1]))
                               /\ c.children # <<>>
<1> DEFINE P == Phrases(T)[MaxTreeDepth]
           S == Contents(T)[d - 1]
<1>1. c \in LeafContents(T, P) \/ (d # 0 /\ c \in ContentsOf(S))
  BY ContentsUnfold
<1> HIDE DEF P, S
<1>2. CASE c \in LeafContents(T, P)
  <2>1. /\ c.type \in {"paragraph", "heading", "table", "code", "html", "footnoteDefinition",
                       "thematicBreak", "definition"}
        /\ c.type \in {"paragraph", "heading"} => c.children \in Seq(P)
        /\ c.type = "table" => c.children \in Seq(Seq(Seq(P))) \ {<<>>}
        /\ c.type \in {"code", "html", "footnoteDefinition"} => c.value \in T
    BY <1>2 DEF LeafContents
  <2>2. QED
    BY <2>1 DEF P
<1>3. CASE d # 0 /\ c \in ContentsOf(S)
  <2>1. d - 1 \in 0..MaxTreeDepth
    BY <1>3, TreeAssumption
  <2>2. /\ c.type \in {"blockquote", "list"}
        /\ c.type = "blockquote" => c.children \in Seq(S)
        /\ c.type = "list" => c.ordered \in BOOLEAN /\ c.children \in Seq(ListItems(S)) \ {<<>>}
    BY <1>3 DEF ContentsOf
  <2>3. QED
    BY <1>3, <2>1, <2>2 DEF S
<1>4. QED
  BY <1>1, <1>2, <1>3

-----------------------------------------------------------------------------
(* Marked text.                                                              *)

MarkRun(value, i, j) ==
  /\ value[i] = "==" /\ value[j] = "==" /\ i + 1 < j
  /\ value[i + 1] \notin {" ", "\n"} /\ value[j - 1] \notin {" ", "\n"}
Closing(value, i) == {j \in (i + 1)..Len(value) : MarkRun(value, i, j)}
Opening(value, n) == {i \in (Len(value) - n + 1)..Len(value) : Closing(value, i) # {}}

\* What the last n units of a text show.
ShownUnits(value) ==
  CHOOSE f : f = [n \in 0..Len(value) |->
    LET start == Len(value) - n
        opens == {i \in (start + 1)..Len(value) : Closing(value, i) # {}}
        open == Min(opens)
        close == Min(Closing(value, open))
    IN IF opens = {} THEN SubSeq(value, start + 1, Len(value))
       ELSE SubSeq(value, start + 1, open - 1)
            \o SubSeq(value, open + 1, close - 1) \o f[Len(value) - close]]

LEMMA MarkedTextShown ==
  ASSUME NEW value
  PROVE  MarkedText(value) = ShownUnits(value)[Len(value)]
BY DEF MarkedText, ShownUnits, Closing, MarkRun

\* The run that opens first in the last n units.
FirstOpen(value, n) == Min(Opening(value, n))
FirstClose(value, n) == Min(Closing(value, FirstOpen(value, n)))

LEMMA MarkProperties ==
  ASSUME NEW value \in AnyText, NEW n \in 0..Len(value), Opening(value, n) # {}
  PROVE  /\ FirstOpen(value, n) \in (Len(value) - n + 1)..Len(value)
         /\ FirstClose(value, n) \in (FirstOpen(value, n) + 1)..Len(value)
         /\ MarkRun(value, FirstOpen(value, n), FirstClose(value, n))
         /\ Len(value) - FirstClose(value, n) \in Nat
         /\ Len(value) - FirstClose(value, n) < n
<1>1. Len(value) \in Nat
  BY DEF AnyText
<1>2. Opening(value, n) \in SUBSET Nat
  BY <1>1 DEF Opening
<1>3. FirstOpen(value, n) \in Opening(value, n)
  BY <1>2, Smallest DEF FirstOpen
<1> DEFINE a == FirstOpen(value, n)
           z == FirstClose(value, n)
<1>4. a \in (Len(value) - n + 1)..Len(value) /\ Closing(value, a) # {} /\ a \in Nat
  BY <1>1, <1>3 DEF Opening
<1>5. Closing(value, a) \in SUBSET Nat
  BY <1>1, <1>4 DEF Closing
<1>6. z \in Closing(value, a)
  BY <1>4, <1>5, Smallest DEF FirstClose
<1> HIDE DEF a, z
<1>7. z \in (a + 1)..Len(value) /\ MarkRun(value, a, z)
  BY <1>6 DEF Closing
<1>8. Len(value) - z \in Nat /\ Len(value) - z < n
  BY <1>1, <1>4, <1>7
<1>9. QED
  BY <1>4, <1>7, <1>8 DEF a, z

LEMMA RunOfUnits ==
  ASSUME NEW value \in AnyText, NEW from \in Nat \ {0}, NEW to \in Int, to <= Len(value)
  PROVE  SubSeq(value, from, to) \in AnyText
<1>1. Len(value) \in Nat /\ value \in Seq(Unit)
  BY DEF AnyText
<1>2. \A i \in from..to : value[i] \in Unit
  BY <1>1
<1>3. QED
  BY <1>2, SubSeqProperties DEF AnyText

LEMMA MarksUnfold ==
  ASSUME NEW value \in AnyText
  PROVE  \A n \in 0..Len(value) :
           ShownUnits(value)[n] =
             IF Opening(value, n) = {} THEN SubSeq(value, Len(value) - n + 1, Len(value))
             ELSE SubSeq(value, Len(value) - n + 1, FirstOpen(value, n) - 1)
                  \o SubSeq(value, FirstOpen(value, n) + 1, FirstClose(value, n) - 1)
                  \o ShownUnits(value)[Len(value) - FirstClose(value, n)]
<1> DEFINE N == Len(value)
           S == AnyText
           last(n) == SubSeq(value, N - n + 1, N)
           first(n) == SubSeq(value, N - n + 1, FirstOpen(value, n) - 1)
                       \o SubSeq(value, FirstOpen(value, n) + 1, FirstClose(value, n) - 1)
           prev == [n \in 1..N |-> IF Opening(value, n) = {} THEN 0
                                   ELSE N - FirstClose(value, n)]
           step == [p \in (1..N) \X S |-> IF Opening(value, p[1]) = {} THEN last(p[1])
                                          ELSE first(p[1]) \o p[2]]
           Value(n, f) == IF Opening(value, n) = {} THEN last(n)
                          ELSE first(n) \o f[N - FirstClose(value, n)]
           Unfolds(f) == f = [n \in 0..N |-> Value(n, f)]
<1>1. N \in Nat /\ value \in Seq(Unit)
  BY DEF AnyText
<1>2. ASSUME NEW n \in 0..N
      PROVE  last(n) \in AnyText
  <2>1. N - n + 1 \in Nat \ {0} /\ N \in Int /\ N <= Len(value)
    BY <1>1
  <2>2. QED
    BY <2>1, RunOfUnits
<1>3. ASSUME NEW n \in 0..N, Opening(value, n) # {}
      PROVE  first(n) \in AnyText
  <2> DEFINE a == FirstOpen(value, n)
             z == FirstClose(value, n)
  <2>1. a \in (N - n + 1)..N /\ z \in (a + 1)..N
    BY <1>3, MarkProperties
  <2> HIDE DEF a, z
  <2>2. /\ N - n + 1 \in Nat \ {0} /\ a - 1 \in Int /\ a - 1 <= Len(value)
        /\ a + 1 \in Nat \ {0} /\ z - 1 \in Int /\ z - 1 <= Len(value)
    BY <2>1, <1>1
  <2>3. SubSeq(value, N - n + 1, a - 1) \in AnyText
    BY <2>2, RunOfUnits
  <2>4. SubSeq(value, a + 1, z - 1) \in AnyText
    BY <2>2, RunOfUnits
  <2>5. SubSeq(value, N - n + 1, a - 1) \o SubSeq(value, a + 1, z - 1) \in AnyText
    BY <2>3, <2>4 DEF AnyText
  <2>6. QED
    BY <2>5 DEF a, z
<1>4. prev \in [1..N -> Nat] /\ \A n \in 1..N : prev[n] < n
  <2>1. \A n \in 1..N : n \in 0..N /\ 0 < n
    BY <1>1
  <2>2. \A n \in 1..N : Opening(value, n) # {} =>
          N - FirstClose(value, n) \in Nat /\ N - FirstClose(value, n) < n
    BY <2>1, MarkProperties
  <2>3. QED
    BY <2>1, <2>2
<1> HIDE DEF last, first
<1>5. step \in [(1..N) \X S -> S]
  <2>1. \A p \in (1..N) \X S : p[1] \in 0..N /\ p[2] \in S
    BY <1>1
  <2>2. \A s \in AnyText, t \in AnyText : s \o t \in AnyText
    BY DEF AnyText
  <2>3. \A p \in (1..N) \X S :
          (IF Opening(value, p[1]) = {} THEN last(p[1]) ELSE first(p[1]) \o p[2]) \in S
    BY <2>1, <2>2, <1>2, <1>3
  <2>4. QED
    BY <2>3
<1>6. last(0) \in S /\ Opening(value, 0) = {}
  <2>1. 0 \in 0..N /\ (N - 0 + 1)..N = {}
    BY <1>1
  <2>2. QED
    BY <2>1, <1>2 DEF Opening
<1> HIDE DEF N, S
<1>7. PICK f \in [0..N -> S] : IsLoop(N, S, last(0), prev, step, f)
  <2> HIDE DEF prev, step
  <2>1. QED
    BY <1>1, <1>4, <1>5, <1>6, Loop
<1>8. \A n \in 0..N : f[n] = Value(n, f)
  <2>1. f[0] = Value(0, f)
    BY <1>6, <1>7 DEF IsLoop
  <2>2. ASSUME NEW n \in 1..N
        PROVE  f[n] = Value(n, f)
    <3>1. <<n, f[prev[n]]>> \in (1..N) \X S /\ f[n] = step[<<n, f[prev[n]]>>]
      <4> HIDE DEF prev, step
      <4>1. QED
        BY <1>7 DEF IsLoop
    <3>2. f[n] = IF Opening(value, n) = {} THEN last(n) ELSE first(n) \o f[prev[n]]
      <4> HIDE DEF prev
      <4>1. QED
        BY <3>1
    <3>3. QED
      BY <3>2
  <2>3. \A n \in 0..N : n = 0 \/ n \in 1..N
    BY <1>1
  <2> HIDE DEF Value
  <2>4. QED
    BY <2>1, <2>2, <2>3
<1>9. Unfolds(f)
  <2> HIDE DEF Value
  <2>1. f = [n \in 0..N |-> f[n]]
    OBVIOUS
  <2>2. QED
    BY <2>1, <1>8
<1>10. Unfolds(CHOOSE g : Unfolds(g))
  <2> HIDE DEF Unfolds
  <2>1. QED
    BY <1>9
<1>11. ShownUnits(value) = CHOOSE g : Unfolds(g)
  BY DEF ShownUnits, N, Opening, FirstOpen, FirstClose, last, first
<1>12. Unfolds(ShownUnits(value))
  BY <1>10, <1>11
<1>13. \A n \in 0..N : ShownUnits(value)[n] = Value(n, ShownUnits(value))
  <2> HIDE DEF Value
  <2>1. QED
    BY <1>12
<1>14. QED
  BY <1>13 DEF N, last, first

LEMMA MarkedTextType ==
  ASSUME NEW T, IsTextClass(T), NEW value \in T
  PROVE  MarkedText(value) \in T
<1> DEFINE N == Len(value)
           Good(n) == n = N \/ value[N - n] = "=="
           Bad == {n \in 0..N : Good(n) /\ ShownUnits(value)[n] \notin T}
<1>1. value \in AnyText /\ N \in Nat
  BY ClassBasics DEF AnyText
<1>2. \A n \in 0..N :
        ShownUnits(value)[n] =
          IF Opening(value, n) = {} THEN SubSeq(value, N - n + 1, N)
          ELSE SubSeq(value, N - n + 1, FirstOpen(value, n) - 1)
               \o SubSeq(value, FirstOpen(value, n) + 1, FirstClose(value, n) - 1)
               \o ShownUnits(value)[N - FirstClose(value, n)]
  BY <1>1, MarksUnfold
<1>3. Bad = {}
  <2>1. SUFFICES ASSUME Bad # {} PROVE FALSE
    OBVIOUS
  <2>2. Bad \in SUBSET Nat
    BY <1>1
  <2>3. PICK n \in Bad : \A m \in Bad : n <= m
    BY <2>1, <2>2, Least
  <2>4. n \in 0..N /\ Good(n) /\ ShownUnits(value)[n] \notin T /\ N - n \in Nat /\ N - n <= N
    BY <2>3, <1>1
  <2>5. N - n = 0 \/ SafeCut(value, N - n)
    <3>1. CASE n = N
      BY <3>1, <1>1
    <3>2. CASE value[N - n] = "=="
      <4>1. value[N - n] \notin {"H", "L"} /\ N - n \in Int
        BY <3>2, <2>4
      <4>2. QED
        BY <4>1, BeforeBreakIsSafe
    <3>3. QED
      BY <2>4, <3>1, <3>2
  <2>6. CASE Opening(value, n) = {}
    <3>1. SafeCut(value, N) /\ N <= N /\ N \in Int
      BY <1>1 DEF SafeCut
    <3>2. SubSeq(value, N - n + 1, N) \in T
      BY <2>4, <2>5, <3>1, RunType
    <3>3. ShownUnits(value)[n] = SubSeq(value, N - n + 1, N)
      BY <2>4, <2>6, <1>2
    <3>4. QED
      BY <3>2, <3>3, <2>4
  <2>7. CASE Opening(value, n) # {}
    <3> DEFINE a == FirstOpen(value, n)
               z == FirstClose(value, n)
    <3>1. /\ a \in (N - n + 1)..N /\ z \in (a + 1)..N
          /\ value[a] = "==" /\ value[z] = "==" /\ N - z \in Nat /\ N - z < n
      BY <1>1, <2>4, <2>7, MarkProperties DEF MarkRun
    <3> HIDE DEF a, z
    <3>2. /\ a \in Int /\ a \in Nat /\ z \in Int
          /\ a - 1 <= N /\ a - 1 \in Int /\ z - 1 <= N /\ z - 1 \in Int
      BY <3>1, <1>1
    <3>3. SafeCut(value, a - 1) /\ SafeCut(value, a) /\ SafeCut(value, z - 1)
      <4>1. value[a] \notin {"H", "L"} /\ value[z] \notin {"H", "L"}
        BY <3>1
      <4>2. QED
        BY <3>2, <4>1, BeforeBreakIsSafe
    <3>4. SubSeq(value, N - n + 1, a - 1) \in T
      BY <2>4, <2>5, <3>2, <3>3, RunType
    <3>5. SubSeq(value, a + 1, z - 1) \in T
      BY <3>2, <3>3, RunType
    <3>6. N - z \in 0..N /\ N - (N - z) = z /\ ~(n <= N - z)
      BY <3>1, <2>4, <1>1
    <3>7. ShownUnits(value)[N - z] \in T
      BY <2>3, <3>1, <3>6
    <3>8. ShownUnits(value)[n] = SubSeq(value, N - n + 1, a - 1)
                                 \o SubSeq(value, a + 1, z - 1) \o ShownUnits(value)[N - z]
      BY <2>4, <2>7, <1>2 DEF a, z
    <3>9. ShownUnits(value)[n] \in T
      BY <3>4, <3>5, <3>7, <3>8, ClassBasics
    <3>10. QED
      BY <3>9, <2>4
  <2>8. QED
    BY <2>6, <2>7
<1>4. N \in 0..N
  BY <1>1
<1>5. QED
  BY <1>3, <1>4, MarkedTextShown

-----------------------------------------------------------------------------
(* The stack of open tags.                                                   *)

FramesOf(T) == [name: STRING \cup {""}, raw: T, text: T]

LEMMA FrameType ==
  ASSUME NEW T, IsTextClass(T), NEW name \in STRING \cup {""}, NEW raw \in T
  PROVE  Frame(name, raw) \in FramesOf(T)
BY ClassBasics DEF Frame, FramesOf

LEMMA CloseFrameType ==
  ASSUME NEW T, IsTextClass(T), NEW frame \in FramesOf(T), NEW closed
  PROVE  CloseFrame(frame, closed) \in T
<1>1. frame.raw \in T /\ frame.text \in T
  BY DEF FramesOf
<1>2. frame.raw \o frame.text \in T
  BY <1>1, ClassBasics
<1>3. QED
  BY <1>1, <1>2 DEF CloseFrame

LEMMA PushTextType ==
  ASSUME NEW T, IsTextClass(T), NEW stack \in FullSeq(FramesOf(T)), NEW text \in T
  PROVE  PushText(stack, text) \in FullSeq(FramesOf(T))
<1> DEFINE n == Len(stack)
           F == FramesOf(T)
           frame == [stack[n] EXCEPT !.text = stack[n].text \o text]
<1>1. stack \in Seq(F) /\ stack # <<>>
  BY DEF FullSeq
<1>2. n \in 1..Len(stack) /\ stack[n] \in F
  BY <1>1
<1>3. stack[n].text \o text \in T
  <2>1. stack[n].text \in T
    BY <1>2 DEF FramesOf
  <2>2. QED
    BY <2>1, ClassBasics
<1>4. frame \in F
  BY <1>2, <1>3 DEF FramesOf
<1>5. PushText(stack, text) = [stack EXCEPT ![n] = frame]
  BY DEF PushText
<1> HIDE DEF n, F, frame
<1>6. [stack EXCEPT ![n] = frame] \in Seq(F) /\ [stack EXCEPT ![n] = frame] # <<>>
  <2>1. Len([stack EXCEPT ![n] = frame]) = Len(stack) /\ [stack EXCEPT ![n] = frame] \in Seq(F)
    BY <1>1, <1>2, <1>4
  <2>2. QED
    BY <2>1, <1>1
<1>7. QED
  BY <1>5, <1>6 DEF FullSeq, F

LEMMA UnwindType ==
  ASSUME NEW T, IsTextClass(T), NEW stack \in FullSeq(FramesOf(T)),
         NEW index \in 2..(Len(stack) + 1), NEW closed
  PROVE  Unwind(stack, index, closed) \in FullSeq(FramesOf(T))
<1> DEFINE F == FramesOf(T)
           n == Len(stack) - index + 1
           close(k) == CloseFrame(stack[index + k - 1], closed /\ k = 1)
           texts == [k \in 1..n |-> close(k)]
           below == SubSeq(stack, 1, index - 1)
<1>1. stack \in Seq(F) /\ stack # <<>> /\ Len(stack) \in Nat /\ n \in Nat
  BY DEF FullSeq
<1>2. ASSUME NEW k \in 1..n
      PROVE  close(k) \in T
  <2>1. index + k - 1 \in 1..Len(stack)
    BY <1>1
  <2>2. stack[index + k - 1] \in F
    BY <1>1, <2>1
  <2>3. QED
    BY <2>2, CloseFrameType
<1> HIDE DEF close
<1>3. texts \in Seq(T)
  <2> HIDE DEF n
  <2>1. QED
    BY <1>1, <1>2
<1> HIDE DEF texts
<1>4. FlattenSeq(texts) \in T
  BY <1>3, FlattenTexts
<1>5. below \in FullSeq(F)
  <2>1. index - 1 \in Nat /\ 1 <= index - 1 /\ index - 1 <= Len(stack)
    BY <1>1
  <2>2. \A i \in 1..(index - 1) : stack[i] \in F
    BY <1>1, <2>1
  <2>3. below \in Seq(F) /\ Len(below) = index - 1
    BY <1>1, <2>1, <2>2, SubSeqProperties
  <2>4. below # <<>>
    BY <2>1, <2>3
  <2>5. QED
    BY <2>3, <2>4 DEF FullSeq
<1> HIDE DEF below
<1>6. PushText(below, FlattenSeq(texts)) \in FullSeq(F)
  BY <1>4, <1>5, PushTextType
<1>7. QED
  BY <1>6 DEF Unwind, below, texts, close, n, F

IsTag(node, T) ==
  node.type = "html" => node.name \in STRING /\ node.closing \in BOOLEAN /\ node.value \in T

LEMMA HtmlTagType ==
  ASSUME NEW T, IsTextClass(T), NEW stack \in FullSeq(FramesOf(T)), NEW node,
         node.type = "html", IsTag(node, T)
  PROVE  HtmlTag(stack, node) \in FullSeq(FramesOf(T))
<1> DEFINE opened == {k \in 2..Len(stack) : stack[k].name = node.name}
           F == FramesOf(T)
<1>1. node.name \in STRING /\ node.value \in T
  BY DEF IsTag
<1>2. stack \in Seq(F) /\ Len(stack) \in Nat
  BY DEF FullSeq
<1>3. PushText(stack, <<"\n">>) \in FullSeq(F) /\ PushText(stack, node.value) \in FullSeq(F)
  BY <1>1, PushTextType, MarksType
<1>4. Append(stack, Frame(node.name, node.value)) \in FullSeq(F)
  <2>1. Frame(node.name, node.value) \in F
    <3>1. node.name \in STRING \cup {""}
      BY <1>1
    <3>2. QED
      BY <1>1, <3>1, FrameType
  <2> DEFINE frame == Frame(node.name, node.value)
  <2> HIDE DEF F, frame
  <2>2. Append(stack, frame) \in Seq(F) /\ Append(stack, frame) # <<>>
    BY <1>2, <2>1 DEF frame
  <2>3. QED
    BY <2>2 DEF FullSeq, frame
<1>5. opened # {} => Unwind(stack, Max(opened), TRUE) \in FullSeq(F)
  <2>1. SUFFICES ASSUME opened # {}
                 PROVE  Unwind(stack, Max(opened), TRUE) \in FullSeq(F)
    OBVIOUS
  <2>2. opened \in SUBSET (0..Len(stack))
    BY <1>2
  <2> DEFINE k == Max(opened)
  <2>3. k \in opened
    BY <1>2, <2>1, <2>2, Largest
  <2> HIDE DEF k
  <2>4. k \in 2..(Len(stack) + 1)
    BY <2>3, <1>2
  <2>5. Unwind(stack, k, TRUE) \in FullSeq(F)
    BY <2>4, UnwindType
  <2>6. QED
    BY <2>5 DEF k
<1> DEFINE tag == HtmlTag(stack, node)
           fits == ~node.closing /\ node.name \in InlineHtmlWrappers
           closes == node.closing /\ opened # {}
<1>6. CASE node.name = "br"
  <2>1. tag = PushText(stack, <<"\n">>)
    BY <1>6 DEF HtmlTag
  <2>2. QED
    BY <1>3, <2>1
<1>7. CASE node.name # "br" /\ fits
  <2>1. tag = Append(stack, Frame(node.name, node.value))
    BY <1>7 DEF HtmlTag
  <2>2. QED
    BY <1>4, <2>1
<1>8. CASE node.name # "br" /\ ~fits /\ closes
  <2>1. tag = Unwind(stack, Max(opened), TRUE)
    BY <1>8 DEF HtmlTag
  <2>2. QED
    BY <1>5, <1>8, <2>1
<1>9. CASE node.name # "br" /\ ~fits /\ ~closes
  <2>1. tag = PushText(stack, node.value)
    BY <1>9 DEF HtmlTag
  <2>2. QED
    BY <1>3, <2>1
<1>10. QED
  BY <1>6, <1>7, <1>8, <1>9

TagStack(nodes, texts) ==
  CHOOSE stack : stack = [i \in 0..Len(nodes) |->
    IF i = 0 THEN <<Frame("", <<>>)>>
    ELSE IF nodes[i].type = "html" THEN HtmlTag(stack[i - 1], nodes[i])
    ELSE PushText(stack[i - 1], texts[i])]

LEMMA InlineTextStack ==
  ASSUME NEW nodes, NEW texts
  PROVE  InlineText(nodes, texts) = Unwind(TagStack(nodes, texts)[Len(nodes)], 2, FALSE)[1].text
BY DEF InlineText, TagStack

LEMMA TagStackType ==
  ASSUME NEW T, IsTextClass(T), NEW S, NEW nodes \in Seq(S), \A c \in S : IsTag(c, T), NEW texts,
         \A i \in 1..Len(nodes) : texts[i] \in T
  PROVE  \A i \in 0..Len(nodes) : TagStack(nodes, texts)[i] \in FullSeq(FramesOf(T))
<1> DEFINE n == Len(nodes)
           W == FullSeq(FramesOf(T))
           base == <<Frame("", <<>>)>>
           next(a, i) == IF nodes[i].type = "html" THEN HtmlTag(a, nodes[i]) ELSE PushText(a, texts[i])
           prev == [i \in 1..n |-> i - 1]
           step == [p \in (1..n) \X W |-> next(p[2], p[1])]
           Value(i, f) == IF i = 0 THEN base ELSE next(f[i - 1], i)
           Unfolds(f) == f = [i \in 0..n |-> Value(i, f)]
<1>0. n \in Nat /\ \A i \in 1..n : nodes[i] \in S
  OBVIOUS
<1>1. n \in Nat
  BY <1>0
<1>2. base \in W
  <2>a. "" \in STRING \cup {""} /\ <<>> \in T
    BY ClassBasics
  <2>1. Frame("", <<>>) \in FramesOf(T)
    BY <2>a, FrameType
  <2> DEFINE frame == Frame("", <<>>)
  <2> HIDE DEF frame
  <2>2. <<frame>> \in Seq(FramesOf(T)) /\ <<frame>> # <<>>
    BY <2>1, Single DEF frame
  <2>3. QED
    BY <2>2 DEF FullSeq, frame
<1>3. ASSUME NEW a \in W, NEW i \in 1..n
      PROVE  next(a, i) \in W
  <2>1. IsTag(nodes[i], T) /\ texts[i] \in T
    BY <1>0
  <2>2. CASE nodes[i].type = "html"
    BY <2>1, <2>2, HtmlTagType
  <2>3. CASE nodes[i].type # "html"
    BY <2>1, <2>3, PushTextType
  <2>4. QED
    BY <2>2, <2>3
<1> HIDE DEF n, W, base, next
<1>4. prev \in [1..n -> Nat] /\ \A i \in 1..n : prev[i] < i
  BY <1>1
<1>5. step \in [(1..n) \X W -> W]
  <2>1. \A p \in (1..n) \X W : next(p[2], p[1]) \in W
    BY <1>3
  <2>2. QED
    BY <2>1
<1>6. PICK f \in [0..n -> W] : IsLoop(n, W, base, prev, step, f)
  <2> HIDE DEF prev, step
  <2>1. QED
    BY <1>1, <1>2, <1>4, <1>5, Loop
<1>7. \A i \in 0..n : f[i] = Value(i, f)
  <2>1. f[0] = Value(0, f)
    BY <1>6 DEF IsLoop
  <2>2. ASSUME NEW i \in 1..n
        PROVE  f[i] = Value(i, f)
    <3>1. <<i, f[prev[i]]>> \in (1..n) \X W /\ f[i] = step[<<i, f[prev[i]]>>]
      <4> HIDE DEF prev, step
      <4>1. QED
        BY <1>6 DEF IsLoop
    <3>2. f[i] = next(f[prev[i]], i)
      <4> HIDE DEF prev
      <4>1. QED
        BY <3>1
    <3>3. i # 0 /\ prev[i] = i - 1
      BY <1>1
    <3>4. QED
      BY <3>2, <3>3
  <2>3. \A i \in 0..n : i = 0 \/ i \in 1..n
    BY <1>1
  <2> HIDE DEF Value
  <2>4. QED
    BY <2>1, <2>2, <2>3
<1>8. Unfolds(f)
  <2> HIDE DEF Value
  <2>1. f = [i \in 0..n |-> f[i]]
    OBVIOUS
  <2>2. QED
    BY <2>1, <1>7
<1>9. Unfolds(CHOOSE g : Unfolds(g))
  <2> HIDE DEF Unfolds
  <2>1. QED
    BY <1>8
<1>10. TagStack(nodes, texts) = CHOOSE g : Unfolds(g)
  BY DEF TagStack, n, base, next
<1> DEFINE g == TagStack(nodes, texts)
<1>11. Unfolds(g)
  BY <1>9, <1>10
<1> HIDE DEF g
<1>12. \A i \in 0..n : g[i] = Value(i, g)
  <2> HIDE DEF Value
  <2>1. QED
    BY <1>11
<1>13. g[0] = f[0]
  BY <1>1, <1>7, <1>12
<1>14. ASSUME NEW i \in 1..n, g[prev[i]] = f[prev[i]]
       PROVE  g[i] = f[i]
  <2>1. prev[i] = i - 1 /\ i \in 0..n /\ i # 0
    BY <1>1
  <2>2. g[i - 1] = f[i - 1]
    BY <2>1, <1>14
  <2>3. Value(i, g) = Value(i, f)
    BY <2>2
  <2> HIDE DEF Value
  <2>4. QED
    BY <2>1, <2>3, <1>7, <1>12
<1>15. AreSame(n, g, f)
  <2> HIDE DEF prev, Value
  <2>1. \A i \in 1..n : g[prev[i]] = f[prev[i]] => g[i] = f[i]
    BY <1>14
  <2>2. QED
    BY <2>1, <1>1, <1>4, <1>13, SameLoop
<1>16. \A i \in 0..n : g[i] \in W
  BY <1>15 DEF AreSame
<1>17. QED
  BY <1>16 DEF g, n, W

LEMMA InlineTextType ==
  ASSUME NEW T, IsTextClass(T), NEW S, NEW nodes \in Seq(S), \A c \in S : IsTag(c, T),
         NEW texts, \A i \in 1..Len(nodes) : texts[i] \in T
  PROVE  InlineText(nodes, texts) \in T
<1> DEFINE n == Len(nodes)
           stack == TagStack(nodes, texts)[n]
           last == Unwind(stack, 2, FALSE)
<1>1. n \in 0..n
  OBVIOUS
<1>2. stack \in FullSeq(FramesOf(T))
  BY <1>1, TagStackType
<1> HIDE DEF stack
<1>3. 2 \in 2..(Len(stack) + 1)
  <2>1. stack \in Seq(FramesOf(T)) /\ stack # <<>>
    BY <1>2 DEF FullSeq
  <2> DEFINE k == Len(stack)
  <2>2. k \in Nat \ {0}
    BY <2>1
  <2> HIDE DEF k
  <2>3. 2 \in 2..(k + 1)
    BY <2>2
  <2>4. QED
    BY <2>3 DEF k
<1>4. last \in FullSeq(FramesOf(T))
  BY <1>2, <1>3, UnwindType
<1> HIDE DEF last
<1>5. last[1] \in FramesOf(T)
  <2>1. last \in Seq(FramesOf(T)) /\ last # <<>>
    BY <1>4 DEF FullSeq
  <2>2. QED
    BY <2>1
<1>6. last[1].text \in T
  BY <1>5 DEF FramesOf
<1>7. QED
  BY <1>6, InlineTextStack DEF last, stack

-----------------------------------------------------------------------------
(* What inline nodes show.                                                   *)

ShownStep(node, g) ==
  IF node.type \in Holding THEN InlineText(node.children, Mapped(node.children, g))
  ELSE IF node.type = "text" THEN MarkedText(node.value)
  ELSE IF node.type = "break" THEN <<"\n">> ELSE node.value

LEMMA TagsAreTags ==
  ASSUME NEW T, NEW d \in 0..MaxTreeDepth
  PROVE  \A p \in Phrases(T)[d] : IsTag(p, T)
<1>1. ASSUME NEW p \in Phrases(T)[d]
      PROVE  IsTag(p, T)
  BY PhraseKinds DEF IsTag, Written
<1>2. QED
  BY <1>1

LEMMA ShownStepType ==
  ASSUME NEW T, IsTextClass(T), NEW d \in 0..MaxTreeDepth, NEW b \in Phrases(T)[d],
         NEW g, d = 0 \/ \A c \in Phrases(T)[d - 1] : g[c] \in T
  PROVE  ShownStep(b, g) \in T
<1>1. CASE b.type \in Holding
  <2> DEFINE S == Phrases(T)[d - 1]
             texts == Mapped(b.children, g)
  <2>1. d # 0 /\ d - 1 \in 0..MaxTreeDepth /\ b.children \in Seq(S)
    BY <1>1, PhraseKinds
  <2>2. \A c \in S : IsTag(c, T)
    BY <2>1, TagsAreTags
  <2>3. \A c \in S : g[c] \in T
    BY <2>1
  <2> HIDE DEF S
  <2>4. texts \in Seq(T) /\ Len(texts) = Len(b.children)
    BY <2>1, <2>3, MappedType
  <2>5. \A i \in 1..Len(b.children) : texts[i] \in T
    <3> HIDE DEF texts
    <3>1. QED
      BY <2>4
  <2> HIDE DEF texts
  <2>6. InlineText(b.children, texts) \in T
    BY <2>1, <2>2, <2>5, InlineTextType
  <2>7. QED
    BY <1>1, <2>6 DEF ShownStep, texts
<1>2. CASE b.type \notin Holding /\ b.type = "text"
  <2>1. MarkedText(b.value) \in T
    BY <1>2, PhraseKinds, MarkedTextType
  <2>2. QED
    BY <1>2, <2>1 DEF ShownStep
<1>3. CASE b.type \notin Holding /\ b.type = "break"
  BY <1>3, MarksType DEF ShownStep
<1>4. CASE b.type \in Written \ {"text"}
  <2>1. b.value \in T
    BY <1>4, PhraseKinds
  <2>2. b.type \notin Holding /\ b.type \notin {"text", "break"}
    BY <1>4 DEF Holding, Marked, Written
  <2>3. QED
    BY <2>1, <2>2 DEF ShownStep
<1>5. QED
  BY <1>1, <1>2, <1>3, <1>4, PhraseKinds

LEMMA ShownStepLocal ==
  ASSUME NEW T, NEW d \in 0..MaxTreeDepth, NEW b \in Phrases(T)[d], NEW g, NEW h,
         d = 0 \/ \A c \in Phrases(T)[d - 1] : g[c] = h[c]
  PROVE  ShownStep(b, g) = ShownStep(b, h)
<1>1. CASE b.type \in Holding
  <2>1. d # 0 /\ b.children \in Seq(Phrases(T)[d - 1])
    BY <1>1, PhraseKinds
  <2>2. Mapped(b.children, g) = Mapped(b.children, h)
    BY <2>1, MappedSame
  <2>3. QED
    BY <1>1, <2>2 DEF ShownStep
<1>2. CASE b.type \notin Holding
  BY <1>2 DEF ShownStep
<1>3. QED
  BY <1>1, <1>2

LEMMA ShownUnfold == \A b \in Phrase : Shown[b] = ShownStep(b, Shown)
<1> DEFINE D == MaxTreeDepth
           B == Phrases(AnyText)
           W == AnyText
           V == [d \in 0..D |-> AnyText]
           step == [p \in B[D] \X [B[D] -> W] |-> ShownStep(p[1], p[2])]
           Unfolds(f) == f = [b \in Phrase |-> ShownStep(b, f)]
<1>1. D \in Nat /\ LayersGrow(D, B) /\ IsTextClass(AnyText) /\ B[D] = Phrase
  BY PhrasesGrow, AnyIsClass, BlocksAssumption, TreeAssumption DEF Phrase
<1>2. <<>> \in W /\ \A d \in 0..D : V[d] \subseteq W
  <2>1. <<>> \in AnyText
    BY <1>1, ClassBasics
  <2>2. QED
    BY <2>1
<1>3. \A d \in 0..D : B[d] \subseteq B[D]
  <2> HIDE DEF D, B
  <2>1. QED
    BY <1>1, Increasing
<1>4. ASSUME NEW b \in B[D], NEW g \in [B[D] -> W]
      PROVE  step[<<b, g>>] = ShownStep(b, g)
  <2>1. <<b, g>> \in B[D] \X [B[D] -> W]
    OBVIOUS
  <2>2. QED
    BY <2>1
<1> HIDE DEF step
<1>5. StepTyped(D, B, V, W, step)
  <2> SUFFICES ASSUME NEW d \in 0..D, NEW b \in B[d], NEW g \in [B[D] -> W],
                      d = 0 \/ \A c \in B[d - 1] : g[c] \in V[d - 1]
               PROVE  step[<<b, g>>] \in V[d]
    BY DEF StepTyped
  <2>1. d = 0 \/ d - 1 \in 0..D
    BY <1>1
  <2>2. ShownStep(b, g) \in V[d]
    BY <1>1, <2>1, ShownStepType
  <2>3. QED
    BY <1>3, <1>4, <2>2
<1>6. StepLocal(D, B, W, step)
  <2> SUFFICES ASSUME NEW d \in 0..D, NEW b \in B[d],
                      NEW g \in [B[D] -> W], NEW h \in [B[D] -> W],
                      d = 0 \/ \A c \in B[d - 1] : g[c] = h[c]
               PROVE  step[<<b, g>>] = step[<<b, h>>]
    BY DEF StepLocal
  <2>1. ShownStep(b, g) = ShownStep(b, h)
    BY ShownStepLocal
  <2>2. b \in B[D]
    BY <1>3
  <2>3. QED
    BY <1>4, <2>1, <2>2
<1>7. PICK f \in [B[D] -> W] : TreeSolves(D, B, step, f)
  <2> HIDE DEF D, B, V, W
  <2>1. QED
    BY <1>1, <1>2, <1>5, <1>6, TreeRecursion
<1>8. Unfolds(f)
  <2> HIDE DEF D, B, W
  <2>1. \A b \in B[D] : f[b] = ShownStep(b, f)
    BY <1>4, <1>7 DEF TreeSolves
  <2>2. f = [b \in B[D] |-> f[b]]
    BY <1>7
  <2>3. f = [b \in B[D] |-> ShownStep(b, f)]
    BY <2>1, <2>2, Zenon
  <2>4. QED
    BY <1>1, <2>3, Zenon
<1>9. Unfolds(CHOOSE g : Unfolds(g))
  <2> HIDE DEF Unfolds
  <2>1. QED
    BY <1>8
<1>10. Shown = CHOOSE g : Unfolds(g)
  BY DEF Shown, ShownStep, Mapped
<1>11. Unfolds(Shown)
  BY <1>9, <1>10
<1>12. Shown = [b \in Phrase |-> ShownStep(b, Shown)]
  BY <1>11
<1>13. QED
  BY <1>12, Zenon

LEMMA ShownType ==
  ASSUME NEW T, IsTextClass(T), NEW d \in 0..MaxTreeDepth, NEW b \in Phrases(T)[d]
  PROVE  Shown[b] \in T
<1> DEFINE D == MaxTreeDepth
           B == Phrases(T)
           W == [n \in 0..D |-> T]
<1>1. D \in Nat /\ T \subseteq AnyText /\ LayersGrow(D, Phrases(AnyText))
  BY PhrasesGrow, BlocksAssumption, TreeAssumption DEF IsTextClass
<1>2. \A n \in 0..D : B[n] \subseteq Phrase
  <2>1. \A n \in 0..D : B[n] \subseteq Phrases(AnyText)[n]
    BY <1>1, PhrasesOfMore
  <2>2. \A n \in 0..D : Phrases(AnyText)[n] \subseteq Phrases(AnyText)[D]
    BY <1>1, Increasing
  <2>3. QED
    BY <2>1, <2>2 DEF Phrase
<1>3. ASSUME NEW n \in 0..D, NEW c \in B[n], n = 0 \/ \A e \in B[n - 1] : Shown[e] \in W[n - 1]
      PROVE  Shown[c] \in W[n]
  <2>1. Shown[c] = ShownStep(c, Shown)
    BY <1>2, ShownUnfold
  <2>2. n = 0 \/ n - 1 \in 0..D
    BY <1>1
  <2>3. ShownStep(c, Shown) \in W[n]
    BY <1>3, <2>2, ShownStepType
  <2>4. QED
    BY <2>1, <2>3
<1>4. TreeTyped(D, B, W, Shown)
  <2> HIDE DEF B, D, W
  <2>1. QED
    BY <1>1, <1>3, TreeTypes
<1>5. QED
  BY <1>4 DEF TreeTyped

LEMMA InlineNodesType ==
  ASSUME NEW T, IsTextClass(T), NEW nodes \in Seq(Phrases(T)[MaxTreeDepth])
  PROVE  InlineNodes(nodes) \in T
<1> DEFINE S == Phrases(T)[MaxTreeDepth]
           texts == Mapped(nodes, Shown)
<1>1. MaxTreeDepth \in 0..MaxTreeDepth
  BY TreeAssumption
<1>2. \A c \in S : IsTag(c, T) /\ Shown[c] \in T
  BY <1>1, TagsAreTags, ShownType
<1>a. nodes \in Seq(S)
  OBVIOUS
<1> HIDE DEF S
<1>3. texts \in Seq(T) /\ Len(texts) = Len(nodes)
  BY <1>a, <1>2, MappedType
<1>4. \A i \in 1..Len(nodes) : texts[i] \in T
  <2> HIDE DEF texts
  <2>1. QED
    BY <1>3
<1> HIDE DEF texts
<1>5. InlineText(nodes, texts) \in T
  BY <1>a, <1>2, <1>4, InlineTextType
<1>6. QED
  BY <1>5 DEF InlineNodes, texts, Mapped

PhraseStep(node, g) ==
  IF node.type \in Holding THEN FlattenSeq(Mapped(node.children, g))
  ELSE IF node.type = "break" THEN <<"\n">> ELSE node.value

LEMMA PhraseStepType ==
  ASSUME NEW T, IsTextClass(T), NEW d \in 0..MaxTreeDepth, NEW b \in Phrases(T)[d],
         NEW g, d = 0 \/ \A c \in Phrases(T)[d - 1] : g[c] \in T
  PROVE  PhraseStep(b, g) \in T
<1>1. CASE b.type \in Holding
  <2>1. d # 0 /\ b.children \in Seq(Phrases(T)[d - 1])
    BY <1>1, PhraseKinds
  <2>2. Mapped(b.children, g) \in Seq(T)
    BY <2>1, MappedType
  <2>3. FlattenSeq(Mapped(b.children, g)) \in T
    BY <2>2, FlattenTexts
  <2>4. QED
    BY <1>1, <2>3 DEF PhraseStep
<1>2. CASE b.type \notin Holding /\ b.type = "break"
  BY <1>2, MarksType DEF PhraseStep
<1>3. CASE b.type \in Written
  <2>1. b.value \in T
    BY <1>3, PhraseKinds
  <2>2. b.type \notin Holding /\ b.type # "break"
    BY <1>3 DEF Holding, Marked, Written
  <2>3. QED
    BY <2>1, <2>2 DEF PhraseStep
<1>4. QED
  BY <1>1, <1>2, <1>3, PhraseKinds

LEMMA PhraseStepLocal ==
  ASSUME NEW T, NEW d \in 0..MaxTreeDepth, NEW b \in Phrases(T)[d], NEW g, NEW h,
         d = 0 \/ \A c \in Phrases(T)[d - 1] : g[c] = h[c]
  PROVE  PhraseStep(b, g) = PhraseStep(b, h)
<1>1. CASE b.type \in Holding
  <2>1. d # 0 /\ b.children \in Seq(Phrases(T)[d - 1])
    BY <1>1, PhraseKinds
  <2>2. Mapped(b.children, g) = Mapped(b.children, h)
    BY <2>1, MappedSame
  <2>3. QED
    BY <1>1, <2>2 DEF PhraseStep
<1>2. CASE b.type \notin Holding
  BY <1>2 DEF PhraseStep
<1>3. QED
  BY <1>1, <1>2

LEMMA PhraseTextUnfold == \A b \in Phrase : PhraseText[b] = PhraseStep(b, PhraseText)
<1> DEFINE D == MaxTreeDepth
           B == Phrases(AnyText)
           W == AnyText
           V == [d \in 0..D |-> AnyText]
           step == [p \in B[D] \X [B[D] -> W] |-> PhraseStep(p[1], p[2])]
           Unfolds(f) == f = [b \in Phrase |-> PhraseStep(b, f)]
<1>1. D \in Nat /\ LayersGrow(D, B) /\ IsTextClass(AnyText) /\ B[D] = Phrase
  BY PhrasesGrow, AnyIsClass, BlocksAssumption, TreeAssumption DEF Phrase
<1>2. <<>> \in W /\ \A d \in 0..D : V[d] \subseteq W
  <2>1. <<>> \in AnyText
    BY <1>1, ClassBasics
  <2>2. QED
    BY <2>1
<1>3. \A d \in 0..D : B[d] \subseteq B[D]
  <2> HIDE DEF D, B
  <2>1. QED
    BY <1>1, Increasing
<1>4. ASSUME NEW b \in B[D], NEW g \in [B[D] -> W]
      PROVE  step[<<b, g>>] = PhraseStep(b, g)
  <2>1. <<b, g>> \in B[D] \X [B[D] -> W]
    OBVIOUS
  <2>2. QED
    BY <2>1
<1> HIDE DEF step
<1>5. StepTyped(D, B, V, W, step)
  <2> SUFFICES ASSUME NEW d \in 0..D, NEW b \in B[d], NEW g \in [B[D] -> W],
                      d = 0 \/ \A c \in B[d - 1] : g[c] \in V[d - 1]
               PROVE  step[<<b, g>>] \in V[d]
    BY DEF StepTyped
  <2>1. d = 0 \/ d - 1 \in 0..D
    BY <1>1
  <2>2. PhraseStep(b, g) \in V[d]
    BY <1>1, <2>1, PhraseStepType
  <2>3. QED
    BY <1>3, <1>4, <2>2
<1>6. StepLocal(D, B, W, step)
  <2> SUFFICES ASSUME NEW d \in 0..D, NEW b \in B[d],
                      NEW g \in [B[D] -> W], NEW h \in [B[D] -> W],
                      d = 0 \/ \A c \in B[d - 1] : g[c] = h[c]
               PROVE  step[<<b, g>>] = step[<<b, h>>]
    BY DEF StepLocal
  <2>1. PhraseStep(b, g) = PhraseStep(b, h)
    BY PhraseStepLocal
  <2>2. b \in B[D]
    BY <1>3
  <2>3. QED
    BY <1>4, <2>1, <2>2
<1>7. PICK f \in [B[D] -> W] : TreeSolves(D, B, step, f)
  <2> HIDE DEF D, B, V, W
  <2>1. QED
    BY <1>1, <1>2, <1>5, <1>6, TreeRecursion
<1>8. Unfolds(f)
  <2> HIDE DEF D, B, W
  <2>1. \A b \in B[D] : f[b] = PhraseStep(b, f)
    BY <1>4, <1>7 DEF TreeSolves
  <2>2. f = [b \in B[D] |-> f[b]]
    BY <1>7
  <2>3. f = [b \in B[D] |-> PhraseStep(b, f)]
    BY <2>1, <2>2, Zenon
  <2>4. QED
    BY <1>1, <2>3, Zenon
<1>9. Unfolds(CHOOSE g : Unfolds(g))
  <2> HIDE DEF Unfolds
  <2>1. QED
    BY <1>8
<1>10. PhraseText = CHOOSE g : Unfolds(g)
  BY DEF PhraseText, PhraseStep, Mapped
<1>11. Unfolds(PhraseText)
  BY <1>9, <1>10
<1>12. PhraseText = [b \in Phrase |-> PhraseStep(b, PhraseText)]
  BY <1>11
<1>13. QED
  BY <1>12, Zenon

LEMMA PhraseTextType ==
  ASSUME NEW T, IsTextClass(T), NEW d \in 0..MaxTreeDepth, NEW b \in Phrases(T)[d]
  PROVE  PhraseText[b] \in T
<1> DEFINE D == MaxTreeDepth
           B == Phrases(T)
           W == [n \in 0..D |-> T]
<1>1. D \in Nat /\ T \subseteq AnyText /\ LayersGrow(D, Phrases(AnyText))
  BY PhrasesGrow, BlocksAssumption, TreeAssumption DEF IsTextClass
<1>2. \A n \in 0..D : B[n] \subseteq Phrase
  <2>1. \A n \in 0..D : B[n] \subseteq Phrases(AnyText)[n]
    BY <1>1, PhrasesOfMore
  <2>2. \A n \in 0..D : Phrases(AnyText)[n] \subseteq Phrases(AnyText)[D]
    BY <1>1, Increasing
  <2>3. QED
    BY <2>1, <2>2 DEF Phrase
<1>3. ASSUME NEW n \in 0..D, NEW c \in B[n], n = 0 \/ \A e \in B[n - 1] : PhraseText[e] \in W[n - 1]
      PROVE  PhraseText[c] \in W[n]
  <2>1. PhraseText[c] = PhraseStep(c, PhraseText)
    BY <1>2, PhraseTextUnfold
  <2>2. n = 0 \/ n - 1 \in 0..D
    BY <1>1
  <2>3. PhraseStep(c, PhraseText) \in W[n]
    BY <1>3, <2>2, PhraseStepType
  <2>4. QED
    BY <2>1, <2>3
<1>4. TreeTyped(D, B, W, PhraseText)
  <2> HIDE DEF B, D, W
  <2>1. QED
    BY <1>1, <1>3, TreeTypes
<1>5. QED
  BY <1>4 DEF TreeTyped

LEMMA PhrasingTextType ==
  ASSUME NEW T, IsTextClass(T), NEW nodes \in Seq(Phrases(T)[MaxTreeDepth])
  PROVE  PhrasingText(nodes) \in T
<1> DEFINE S == Phrases(T)[MaxTreeDepth]
           texts == Mapped(nodes, PhraseText)
<1>1. MaxTreeDepth \in 0..MaxTreeDepth
  BY TreeAssumption
<1>2. \A c \in S : PhraseText[c] \in T
  BY <1>1, PhraseTextType
<1>a. nodes \in Seq(S)
  OBVIOUS
<1> HIDE DEF S
<1>3. texts \in Seq(T)
  BY <1>a, <1>2, MappedType
<1> HIDE DEF texts
<1>4. FlattenSeq(texts) \in T
  BY <1>3, FlattenTexts
<1>5. QED
  BY <1>4 DEF PhrasingText, texts, Mapped

LEMMA CellTextsType ==
  ASSUME NEW T, IsTextClass(T), NEW rows \in Seq(Seq(Seq(Phrases(T)[MaxTreeDepth]))),
         rows # <<>>
  PROVE  Cells(rows) \in Seq(Seq(T)) \ {<<>>}
<1> DEFINE S == Phrases(T)[MaxTreeDepth]
           cell(r, c) == PhrasingText(rows[r][c])
           cells(r) == [c \in DOMAIN rows[r] |-> cell(r, c)]
           all == [r \in DOMAIN rows |-> cells(r)]
<1>1. DOMAIN rows = 1..Len(rows) /\ \A r \in 1..Len(rows) : rows[r] \in Seq(Seq(S))
  OBVIOUS
<1>2. ASSUME NEW r \in 1..Len(rows)
      PROVE  cells(r) \in Seq(T)
  <2> DEFINE row == rows[r]
             made == cells(r)
  <2>1. row \in Seq(Seq(S))
    BY <1>1
  <2>2. \A c \in 1..Len(row) : cell(r, c) \in T
    BY <2>1, PhrasingTextType
  <2> HIDE DEF cell, S
  <2>3. made = [c \in DOMAIN row |-> made[c]] /\ \A c \in DOMAIN row : made[c] = cell(r, c)
    OBVIOUS
  <2>4. DOMAIN row = 1..Len(row)
    BY <2>1
  <2> HIDE DEF made, row
  <2>5. made \in Seq(T)
    BY <2>1, <2>2, <2>3, <2>4, MadeType
  <2>6. QED
    BY <2>5 DEF made
<1> HIDE DEF cells
<1>3. all = [r \in DOMAIN rows |-> all[r]] /\ \A r \in DOMAIN rows : all[r] = cells(r)
  OBVIOUS
<1>a. Len(rows) \in Nat /\ 1 \in 1..Len(rows) /\ 1 \in DOMAIN all
  BY <1>1
<1> HIDE DEF all
<1>4. all \in Seq(Seq(T))
  BY <1>1, <1>2, <1>3, MadeType
<1>5. all # <<>>
  BY <1>a, <1>4
<1>6. QED
  BY <1>4, <1>5 DEF Cells, all, cells

-----------------------------------------------------------------------------
(* The text of a node.                                                       *)

MappedNodes(items, g) == [i \in DOMAIN items |-> Mapped(items[i].children, g)]

LEMMA ListItemKinds ==
  ASSUME NEW S, NEW items \in Seq(ListItems(S))
  PROVE  /\ DOMAIN items = 1..Len(items) /\ Len(items) \in Nat
         /\ \A i \in 1..Len(items) : /\ items[i].children \in Seq(S)
                                     /\ items[i].checked \in {"done", "open", "unset"}
<1>1. /\ DOMAIN items = 1..Len(items) /\ Len(items) \in Nat
      /\ \A i \in 1..Len(items) : items[i] \in ListItems(S)
  OBVIOUS
<1>2. \A item \in ListItems(S) : /\ item.children \in Seq(S)
                                 /\ item.checked \in {"done", "open", "unset"}
  BY DEF ListItems
<1>3. QED
  BY <1>1, <1>2

LEMMA MappedNodesType ==
  ASSUME NEW S, NEW V, NEW items \in Seq(ListItems(S)), NEW g, \A c \in S : g[c] \in V
  PROVE  \A i \in 1..Len(items) : MappedNodes(items, g)[i] \in Seq(V)
<1>1. /\ DOMAIN items = 1..Len(items)
      /\ \A i \in 1..Len(items) : items[i].children \in Seq(S)
  BY ListItemKinds
<1>2. \A i \in 1..Len(items) : Mapped(items[i].children, g) \in Seq(V)
  BY <1>1, MappedType
<1>3. QED
  BY <1>1, <1>2 DEF MappedNodes

LEMMA MappedNodesSame ==
  ASSUME NEW S, NEW items \in Seq(ListItems(S)), NEW g, NEW h, \A c \in S : g[c] = h[c]
  PROVE  MappedNodes(items, g) = MappedNodes(items, h)
<1>1. \A i \in DOMAIN items : items[i].children \in Seq(S)
  BY ListItemKinds
<1>2. \A i \in DOMAIN items : Mapped(items[i].children, g) = Mapped(items[i].children, h)
  BY <1>1, MappedSame
<1>3. QED
  BY <1>2 DEF MappedNodes

LEMMA NodeListTextType ==
  ASSUME NEW T, IsTextClass(T), NEW S, NEW list, list.ordered \in BOOLEAN,
         list.children \in Seq(ListItems(S)), NEW texts,
         \A i \in 1..Len(list.children) : texts[i] \in Seq(T)
  PROVE  NodeListText(list, texts) \in T
<1> DEFINE items == list.children
           Marker(i) == IF list.ordered THEN Decimal(i) \o <<".", " ">> ELSE <<"-", " ">>
           written(i) == Marker(i) \o TaskMarker(items[i])
                         \o Join(NonEmpty(texts[i]), <<"\n">>)
           line(i) == TrimText(written(i))
           made == [i \in DOMAIN items |-> line(i)]
<1>1. /\ items \in Seq(ListItems(S)) /\ DOMAIN items = 1..Len(items) /\ Len(items) \in Nat
      /\ \A i \in 1..Len(items) : items[i].checked \in {"done", "open", "unset"}
  BY ListItemKinds
<1>2. <<".", " ">> \in T /\ <<"-", " ">> \in T /\ <<"\n">> \in T
  BY MarksType
<1>3. ASSUME NEW i \in 1..Len(items)
      PROVE  line(i) \in T
  <2>1. Marker(i) \in T
    <3>1. i \in Nat
      OBVIOUS
    <3>2. Decimal(i) \in T
      BY <3>1, DecimalType
    <3>3. Decimal(i) \o <<".", " ">> \in T
      BY <1>2, <3>2, ClassBasics
    <3>4. QED
      BY <1>2, <3>3
  <2>2. TaskMarker(items[i]) \in T
    BY <1>1, TaskMarkerType
  <2>3. Join(NonEmpty(texts[i]), <<"\n">>) \in T
    <3>1. NonEmpty(texts[i]) \in Seq(T)
      BY NonEmptyType
    <3>2. QED
      BY <1>2, <3>1, JoinType
  <2> HIDE DEF Marker
  <2>4. written(i) \in T
    <3>1. Marker(i) \o TaskMarker(items[i]) \in T
      BY <2>1, <2>2, ClassBasics
    <3>2. QED
      BY <2>3, <3>1, ClassBasics
  <2> HIDE DEF written
  <2>5. QED
    BY <2>4, TrimTextType
<1> HIDE DEF line
<1>4. made = [i \in DOMAIN items |-> made[i]] /\ \A i \in DOMAIN items : made[i] = line(i)
  OBVIOUS
<1> HIDE DEF made, items
<1>5. made \in Seq(T)
  BY <1>1, <1>3, <1>4, MadeType
<1>6. Join(made, <<"\n">>) \in T
  BY <1>2, <1>5, JoinType
<1>7. QED
  BY <1>6 DEF NodeListText, made, line, written, Marker, items

LEMMA LeafNodeTextType ==
  ASSUME NEW T, IsTextClass(T), NEW d \in 0..MaxTreeDepth, NEW b \in Contents(T)[d],
         b.type \notin {"blockquote", "list"}
  PROVE  LeafNodeText(b) \in T
<1>1. CASE b.type \in {"paragraph", "heading"}
  <2>1. b.children \in Seq(Phrases(T)[MaxTreeDepth])
    BY <1>1, ContentKinds
  <2>2. PhrasingText(b.children) \in T
    BY <2>1, PhrasingTextType
  <2>3. QED
    BY <1>1, <2>2 DEF LeafNodeText
<1>2. CASE b.type = "table"
  <2> DEFINE cells == Cells(b.children)
             line(r) == Join(cells[r], <<" ", "|", " ">>)
             made == [r \in DOMAIN cells |-> line(r)]
  <2>1. b.children \in Seq(Seq(Seq(Phrases(T)[MaxTreeDepth]))) /\ b.children # <<>>
    BY <1>2, ContentKinds
  <2>2. cells \in Seq(Seq(T))
    BY <2>1, CellTextsType
  <2>3. <<" ", "|", " ">> \in T /\ <<"\n">> \in T
    BY MarksType
  <2> HIDE DEF cells
  <2>4. DOMAIN cells = 1..Len(cells) /\ \A r \in 1..Len(cells) : cells[r] \in Seq(T)
    BY <2>2
  <2>5. \A r \in 1..Len(cells) : line(r) \in T
    BY <2>3, <2>4, JoinType
  <2> HIDE DEF line
  <2>6. made = [r \in DOMAIN cells |-> made[r]] /\ \A r \in DOMAIN cells : made[r] = line(r)
    OBVIOUS
  <2> HIDE DEF made
  <2>7. made \in Seq(T)
    BY <2>2, <2>4, <2>5, <2>6, MadeType
  <2>8. Join(made, <<"\n">>) \in T
    BY <2>3, <2>7, JoinType
  <2>9. LeafNodeText(b) = Join(made, <<"\n">>)
    BY <1>2 DEF LeafNodeText, made, line, cells
  <2>10. QED
    BY <2>8, <2>9
<1>3. CASE b.type \in {"code", "html", "footnoteDefinition"}
  <2>1. b.value \in T
    BY <1>3, ContentKinds
  <2>2. QED
    BY <1>3, <2>1 DEF LeafNodeText
<1>4. CASE b.type = "thematicBreak"
  BY <1>4, RuleType DEF LeafNodeText
<1>5. CASE b.type = "definition"
  BY <1>5, ClassBasics DEF LeafNodeText
<1>6. QED
  BY <1>1, <1>2, <1>3, <1>4, <1>5, ContentKinds

NodeStep(node, g) ==
  IF node.type = "blockquote" THEN QuoteText(Mapped(node.children, g))
  ELSE IF node.type = "list" THEN NodeListText(node, MappedNodes(node.children, g))
  ELSE LeafNodeText(node)

LEMMA NodeStepType ==
  ASSUME NEW T, IsTextClass(T), NEW d \in 0..MaxTreeDepth, NEW b \in Contents(T)[d],
         NEW g, d = 0 \/ \A c \in Contents(T)[d - 1] : g[c] \in T
  PROVE  NodeStep(b, g) \in T
<1>1. CASE b.type = "blockquote"
  <2>1. d # 0 /\ b.children \in Seq(Contents(T)[d - 1])
    BY <1>1, ContentKinds
  <2>2. Mapped(b.children, g) \in Seq(T)
    BY <2>1, MappedType
  <2>3. QED
    BY <1>1, <2>2, QuoteTextType DEF NodeStep
<1>2. CASE b.type = "list"
  <2> DEFINE S == Contents(T)[d - 1]
             texts == MappedNodes(b.children, g)
  <2>1. /\ d # 0 /\ b.ordered \in BOOLEAN /\ b.children \in Seq(ListItems(S))
    BY <1>2, ContentKinds
  <2>2. \A c \in S : g[c] \in T
    BY <2>1
  <2> HIDE DEF S
  <2>3. \A i \in 1..Len(b.children) : texts[i] \in Seq(T)
    BY <2>1, <2>2, MappedNodesType
  <2> HIDE DEF texts
  <2>4. NodeListText(b, texts) \in T
    BY <2>1, <2>3, NodeListTextType
  <2>5. QED
    BY <1>2, <2>4 DEF NodeStep, texts
<1>3. CASE b.type \notin {"blockquote", "list"}
  <2>1. LeafNodeText(b) \in T
    BY <1>3, LeafNodeTextType
  <2>2. QED
    BY <1>3, <2>1 DEF NodeStep
<1>4. QED
  BY <1>1, <1>2, <1>3

LEMMA SameNodesBelow ==
  ASSUME NEW T, NEW d \in 0..MaxTreeDepth, NEW b \in Contents(T)[d], NEW g, NEW h,
         d = 0 \/ \A c \in Contents(T)[d - 1] : g[c] = h[c]
  PROVE  /\ b.type = "blockquote" => Mapped(b.children, g) = Mapped(b.children, h)
         /\ b.type = "list" => MappedNodes(b.children, g) = MappedNodes(b.children, h)
<1>1. CASE b.type = "blockquote"
  <2>1. d # 0 /\ b.children \in Seq(Contents(T)[d - 1])
    BY <1>1, ContentKinds
  <2>2. QED
    BY <1>1, <2>1, MappedSame
<1>2. CASE b.type = "list"
  <2>1. d # 0 /\ b.children \in Seq(ListItems(Contents(T)[d - 1]))
    BY <1>2, ContentKinds
  <2>2. QED
    BY <1>2, <2>1, MappedNodesSame
<1>3. QED
  BY <1>1, <1>2

LEMMA NodeStepLocal ==
  ASSUME NEW T, NEW d \in 0..MaxTreeDepth, NEW b \in Contents(T)[d], NEW g, NEW h,
         d = 0 \/ \A c \in Contents(T)[d - 1] : g[c] = h[c]
  PROVE  NodeStep(b, g) = NodeStep(b, h)
<1>1. CASE b.type = "blockquote"
  <2>1. Mapped(b.children, g) = Mapped(b.children, h)
    BY <1>1, SameNodesBelow
  <2>2. QED
    BY <1>1, <2>1 DEF NodeStep
<1>2. CASE b.type = "list"
  <2>1. MappedNodes(b.children, g) = MappedNodes(b.children, h)
    BY <1>2, SameNodesBelow
  <2>2. QED
    BY <1>2, <2>1 DEF NodeStep
<1>3. CASE b.type \notin {"blockquote", "list"}
  BY <1>3 DEF NodeStep
<1>4. QED
  BY <1>1, <1>2, <1>3

LEMMA NodeTextUnfold == \A b \in Content : NodeText[b] = NodeStep(b, NodeText)
<1> DEFINE D == MaxTreeDepth
           B == Contents(AnyText)
           W == AnyText
           V == [d \in 0..D |-> AnyText]
           step == [p \in B[D] \X [B[D] -> W] |-> NodeStep(p[1], p[2])]
           Unfolds(f) == f = [b \in Content |-> NodeStep(b, f)]
<1>1. D \in Nat /\ LayersGrow(D, B) /\ IsTextClass(AnyText) /\ B[D] = Content
  BY ContentsGrow, AnyIsClass, BlocksAssumption, TreeAssumption DEF Content
<1>2. <<>> \in W /\ \A d \in 0..D : V[d] \subseteq W
  <2>1. <<>> \in AnyText
    BY <1>1, ClassBasics
  <2>2. QED
    BY <2>1
<1>3. \A d \in 0..D : B[d] \subseteq B[D]
  <2> HIDE DEF D, B
  <2>1. QED
    BY <1>1, Increasing
<1>4. ASSUME NEW b \in B[D], NEW g \in [B[D] -> W]
      PROVE  step[<<b, g>>] = NodeStep(b, g)
  <2>1. <<b, g>> \in B[D] \X [B[D] -> W]
    OBVIOUS
  <2>2. QED
    BY <2>1
<1> HIDE DEF step
<1>5. StepTyped(D, B, V, W, step)
  <2> SUFFICES ASSUME NEW d \in 0..D, NEW b \in B[d], NEW g \in [B[D] -> W],
                      d = 0 \/ \A c \in B[d - 1] : g[c] \in V[d - 1]
               PROVE  step[<<b, g>>] \in V[d]
    BY DEF StepTyped
  <2>1. d = 0 \/ d - 1 \in 0..D
    BY <1>1
  <2>2. NodeStep(b, g) \in V[d]
    BY <1>1, <2>1, NodeStepType
  <2>3. QED
    BY <1>3, <1>4, <2>2
<1>6. StepLocal(D, B, W, step)
  <2> SUFFICES ASSUME NEW d \in 0..D, NEW b \in B[d],
                      NEW g \in [B[D] -> W], NEW h \in [B[D] -> W],
                      d = 0 \/ \A c \in B[d - 1] : g[c] = h[c]
               PROVE  step[<<b, g>>] = step[<<b, h>>]
    BY DEF StepLocal
  <2>1. NodeStep(b, g) = NodeStep(b, h)
    BY NodeStepLocal
  <2>2. b \in B[D]
    BY <1>3
  <2>3. QED
    BY <1>4, <2>1, <2>2
<1>7. PICK f \in [B[D] -> W] : TreeSolves(D, B, step, f)
  <2> HIDE DEF D, B, V, W
  <2>1. QED
    BY <1>1, <1>2, <1>5, <1>6, TreeRecursion
<1>8. Unfolds(f)
  <2> HIDE DEF D, B, W
  <2>1. \A b \in B[D] : f[b] = NodeStep(b, f)
    BY <1>4, <1>7 DEF TreeSolves
  <2>2. f = [b \in B[D] |-> f[b]]
    BY <1>7
  <2>3. f = [b \in B[D] |-> NodeStep(b, f)]
    BY <2>1, <2>2, Zenon
  <2>4. QED
    BY <1>1, <2>3, Zenon
<1>9. Unfolds(CHOOSE g : Unfolds(g))
  <2> HIDE DEF Unfolds
  <2>1. QED
    BY <1>8
<1>10. NodeText = CHOOSE g : Unfolds(g)
  BY DEF NodeText, NodeStep, Mapped, MappedNodes
<1>11. Unfolds(NodeText)
  BY <1>9, <1>10
<1>12. NodeText = [b \in Content |-> NodeStep(b, NodeText)]
  BY <1>11
<1>13. QED
  BY <1>12, Zenon

LEMMA NodeTextType ==
  ASSUME NEW T, IsTextClass(T), NEW d \in 0..MaxTreeDepth, NEW b \in Contents(T)[d]
  PROVE  NodeText[b] \in T
<1> DEFINE D == MaxTreeDepth
           B == Contents(T)
           W == [n \in 0..D |-> T]
<1>1. D \in Nat /\ T \subseteq AnyText /\ LayersGrow(D, Contents(AnyText))
  BY ContentsGrow, BlocksAssumption, TreeAssumption DEF IsTextClass
<1>2. \A n \in 0..D : B[n] \subseteq Content
  <2>1. \A n \in 0..D : B[n] \subseteq Contents(AnyText)[n]
    BY <1>1, ContentsOfMore
  <2>2. \A n \in 0..D : Contents(AnyText)[n] \subseteq Contents(AnyText)[D]
    BY <1>1, Increasing
  <2>3. QED
    BY <2>1, <2>2 DEF Content
<1>3. ASSUME NEW n \in 0..D, NEW c \in B[n], n = 0 \/ \A e \in B[n - 1] : NodeText[e] \in W[n - 1]
      PROVE  NodeText[c] \in W[n]
  <2>1. NodeText[c] = NodeStep(c, NodeText)
    BY <1>2, NodeTextUnfold
  <2>2. n = 0 \/ n - 1 \in 0..D
    BY <1>1
  <2>3. NodeStep(c, NodeText) \in W[n]
    BY <1>3, <2>2, NodeStepType
  <2>4. QED
    BY <2>1, <2>3
<1>4. TreeTyped(D, B, W, NodeText)
  <2> HIDE DEF B, D, W
  <2>1. QED
    BY <1>1, <1>3, TreeTypes
<1>5. QED
  BY <1>4 DEF TreeTyped

-----------------------------------------------------------------------------
(* The blocks of a node.                                                     *)

LEMMA PlainBlockType ==
  ASSUME NEW T, IsTextClass(T), NEW d \in 0..MaxTreeDepth, NEW b \in Contents(T)[d]
  PROVE  PlainBlock(b) \in Seq(LeafBlocks(T))
<1> DEFINE text == TrimText(NodeText[b])
           block == [type |-> "plain", text |-> text]
<1>1. text \in T
  BY NodeTextType, TrimTextType
<1>2. block \in LeafBlocks(T)
  BY <1>1 DEF LeafBlocks
<1>3. <<block>> \in Seq(LeafBlocks(T)) /\ <<>> \in Seq(LeafBlocks(T))
  <2> HIDE DEF block
  <2>1. QED
    BY <1>2, Single
<1>4. QED
  BY <1>3 DEF PlainBlock

LEMMA ParseLeafType ==
  ASSUME NEW T, IsTextClass(T), NEW d \in 0..MaxTreeDepth, NEW b \in Contents(T)[d]
  PROVE  ParseLeaf(b) \in Seq(LeafBlocks(T))
<1> DEFINE P == Phrases(T)[MaxTreeDepth]
           inline == /\ b.type \in {"paragraph", "heading"}
                     /\ \A i \in DOMAIN b.children : Expressible[b.children[i]]
<1>1. CASE inline
  <2> DEFINE block == [type |-> b.type, text |-> InlineNodes(b.children)]
  <2>1. b.children \in Seq(P) /\ b.type \in {"paragraph", "heading"}
    BY <1>1, ContentKinds
  <2>2. InlineNodes(b.children) \in T
    BY <2>1, InlineNodesType
  <2>3. block \in LeafBlocks(T)
    BY <2>1, <2>2 DEF LeafBlocks
  <2>4. ParseLeaf(b) = <<block>>
    BY <1>1 DEF ParseLeaf
  <2> HIDE DEF block
  <2>5. QED
    BY <2>3, <2>4, Single
<1>2. CASE b.type = "code"
  <2> DEFINE block == [type |-> "code", text |-> b.value]
  <2>1. b.value \in T
    BY <1>2, ContentKinds
  <2>2. block \in LeafBlocks(T)
    BY <2>1 DEF LeafBlocks
  <2>3. ParseLeaf(b) = <<block>>
    BY <1>2 DEF ParseLeaf
  <2> HIDE DEF block
  <2>4. QED
    BY <2>2, <2>3, Single
<1>3. CASE b.type = "table"
  <2> DEFINE block == [type |-> "table", rows |-> Cells(b.children)]
  <2>1. b.children \in Seq(Seq(Seq(P))) /\ b.children # <<>>
    BY <1>3, ContentKinds
  <2>2. Cells(b.children) \in Seq(Seq(T)) \ {<<>>}
    BY <2>1, CellTextsType
  <2>3. block \in LeafBlocks(T)
    BY <2>2 DEF LeafBlocks
  <2>4. ParseLeaf(b) = <<block>>
    BY <1>3 DEF ParseLeaf
  <2> HIDE DEF block
  <2>5. QED
    BY <2>3, <2>4, Single
<1>4. CASE b.type = "thematicBreak"
  <2> DEFINE block == [type |-> "rule"]
  <2>1. block \in LeafBlocks(T)
    BY DEF LeafBlocks
  <2>2. ParseLeaf(b) = <<block>>
    BY <1>4 DEF ParseLeaf
  <2> HIDE DEF block
  <2>3. QED
    BY <2>1, <2>2, Single
<1>5. CASE ~inline /\ b.type \notin {"code", "table", "thematicBreak"}
  <2>1. ParseLeaf(b) = PlainBlock(b)
    BY <1>5 DEF ParseLeaf
  <2>2. QED
    BY <2>1, PlainBlockType
<1>6. QED
  BY <1>1, <1>2, <1>3, <1>4, <1>5

ParsedItems(items, g, depth) ==
  [i \in DOMAIN items |-> [blocks |-> InnerOf(items[i].children, g, depth),
                           checked |-> items[i].checked]]

ParseFor(node, g, depth) ==
  IF node.type = "blockquote" /\ depth < MaxNestingDepth
  THEN IF InnerOf(node.children, g, depth + 1) = <<>> THEN <<>>
       ELSE <<[type |-> "blockquote", blocks |-> InnerOf(node.children, g, depth + 1)]>>
  ELSE IF node.type = "list" /\ depth < MaxNestingDepth
  THEN <<[type |-> "list", ordered |-> node.ordered, start |-> 1,
          items |-> ParsedItems(node.children, g, depth + 1)]>>
  ELSE ParseLeaf(node)

ParseStep(node, g) == [depth \in Nat |-> ParseFor(node, g, depth)]

\* The blocks of a node that lies within depth lists and quotes lie in the
\* layers that are left.
Parses(T) ==
  {f \in [Nat -> Seq(Blocks(T)[MaxNestingDepth])] :
     \A depth \in 0..MaxNestingDepth : f[depth] \in Seq(Blocks(T)[MaxNestingDepth - depth])}

LEMMA ParsedItemsType ==
  ASSUME NEW S, NEW B, NEW items \in Seq(ListItems(S)), items # <<>>, NEW g, NEW depth,
         \A c \in S : g[c][depth] \in Seq(B)
  PROVE  ParsedItems(items, g, depth) \in Seq(Items(B)) \ {<<>>}
<1> DEFINE item(i) == [blocks |-> InnerOf(items[i].children, g, depth),
                       checked |-> items[i].checked]
           made == [i \in DOMAIN items |-> item(i)]
<1>1. /\ DOMAIN items = 1..Len(items) /\ Len(items) \in Nat
      /\ \A i \in 1..Len(items) : /\ items[i].children \in Seq(S)
                                  /\ items[i].checked \in {"done", "open", "unset"}
  BY ListItemKinds
<1>2. ASSUME NEW i \in 1..Len(items)
      PROVE  item(i) \in Items(B)
  <2>1. InnerOf(items[i].children, g, depth) \in Seq(B)
    BY <1>1, InnerOfType
  <2>2. QED
    BY <1>1, <2>1 DEF Items
<1> HIDE DEF item
<1>3. made = [i \in DOMAIN items |-> made[i]] /\ \A i \in DOMAIN items : made[i] = item(i)
  OBVIOUS
<1>4. 1 \in DOMAIN items /\ 1 \in DOMAIN made
  <2>1. items \in Seq(ListItems(S)) /\ items # <<>>
    OBVIOUS
  <2>2. 1 \in 1..Len(items)
    BY <2>1
  <2>3. QED
    BY <1>1, <2>2
<1> HIDE DEF made
<1>5. made \in Seq(Items(B))
  BY <1>1, <1>2, <1>3, MadeType
<1>6. made # <<>>
  BY <1>4, <1>5
<1>7. QED
  BY <1>5, <1>6 DEF ParsedItems, made, item

LEMMA ParseForType ==
  ASSUME NEW T, IsTextClass(T), NEW d \in 0..MaxTreeDepth, NEW b \in Contents(T)[d],
         NEW g, NEW depth \in 0..MaxNestingDepth,
         d = 0 \/ depth = MaxNestingDepth
           \/ \A c \in Contents(T)[d - 1] :
                g[c][depth + 1] \in Seq(Blocks(T)[MaxNestingDepth - (depth + 1)])
  PROVE  ParseFor(b, g, depth) \in Seq(Blocks(T)[MaxNestingDepth - depth])
<1> DEFINE left == MaxNestingDepth - depth
           below == depth + 1
           inner == InnerOf(b.children, g, below)
           S == Contents(T)[d - 1]
           B == Blocks(T)[left - 1]
<1>1. left \in 0..MaxNestingDepth /\ MaxNestingDepth - (depth + 1) = left - 1
  BY BlocksAssumption
<1>2. CASE b.type = "blockquote" /\ depth < MaxNestingDepth
  <2>0. left # 0 /\ depth # MaxNestingDepth
    BY <1>2, BlocksAssumption
  <2>a. d # 0 /\ b.children \in Seq(S)
    BY <1>2, ContentKinds
  <2>1. d # 0 /\ b.children \in Seq(S) /\ left # 0 /\ depth # MaxNestingDepth
    BY <2>0, <2>a
  <2>2. \A c \in S : g[c][below] \in Seq(B)
    BY <2>1, <1>1
  <2>3. BlocksOf(B) \subseteq Blocks(T)[left]
    BY <2>1, <1>1, HolderIsBlock
  <2>4. ParseFor(b, g, depth)
          = IF inner = <<>> THEN <<>> ELSE <<[type |-> "blockquote", blocks |-> inner]>>
    BY <1>2 DEF ParseFor
  <2> HIDE DEF S, B, below, left
  <2>5. inner \in Seq(B)
    BY <2>1, <2>2, InnerOfType
  <2> DEFINE block == [type |-> "blockquote", blocks |-> inner]
  <2> HIDE DEF inner
  <2>6. block \in Blocks(T)[left]
    BY <2>3, <2>5 DEF BlocksOf
  <2>7. ParseFor(b, g, depth) \in {<<>>, <<block>>}
    BY <2>4
  <2> HIDE DEF block
  <2>b. <<block>> \in Seq(Blocks(T)[left])
    BY <2>6, Single
  <2>c. <<>> \in Seq(Blocks(T)[left])
    OBVIOUS
  <2>8. ParseFor(b, g, depth) \in Seq(Blocks(T)[left])
    BY <2>7, <2>b, <2>c
  <2>9. QED
    BY <2>8 DEF left
<1>3. CASE b.type = "list" /\ depth < MaxNestingDepth
  <2> DEFINE items == ParsedItems(b.children, g, below)
             block == [type |-> "list", ordered |-> b.ordered, start |-> 1, items |-> items]
  <2>0. left # 0 /\ depth # MaxNestingDepth
    BY <1>3, BlocksAssumption
  <2>a. /\ d # 0 /\ b.ordered \in BOOLEAN /\ b.children \in Seq(ListItems(S))
        /\ b.children # <<>>
    BY <1>3, ContentKinds
  <2>1. /\ d # 0 /\ left # 0 /\ depth # MaxNestingDepth
        /\ b.ordered \in BOOLEAN /\ b.children \in Seq(ListItems(S)) /\ b.children # <<>>
    BY <2>0, <2>a
  <2>2. \A c \in S : g[c][below] \in Seq(B)
    BY <2>1, <1>1
  <2>3. BlocksOf(B) \subseteq Blocks(T)[left]
    BY <2>1, <1>1, HolderIsBlock
  <2>4. ParseFor(b, g, depth) = <<block>>
    BY <1>3 DEF ParseFor
  <2> HIDE DEF S, B, below, left
  <2>5. items \in Seq(Items(B)) \ {<<>>}
    BY <2>1, <2>2, ParsedItemsType
  <2> HIDE DEF items
  <2>6. block \in ListsOf(B)
    BY <2>1, <2>5 DEF ListsOf
  <2> HIDE DEF block
  <2>7. block \in Blocks(T)[left]
    BY <2>3, <2>6 DEF BlocksOf
  <2>8. <<block>> \in Seq(Blocks(T)[left])
    BY <2>7, Single
  <2>9. QED
    BY <2>4, <2>8 DEF left
<1>4. CASE ~(b.type \in {"blockquote", "list"} /\ depth < MaxNestingDepth)
  <2>1. ParseFor(b, g, depth) = ParseLeaf(b)
    BY <1>4 DEF ParseFor
  <2>2. ParseLeaf(b) \in Seq(LeafBlocks(T))
    BY ParseLeafType
  <2>3. LeafBlocks(T) \subseteq Blocks(T)[left]
    BY <1>1, LeafIsBlock
  <2>4. QED
    BY <2>1, <2>2, <2>3, SeqOfMore
<1>5. QED
  BY <1>2, <1>3, <1>4

LEMMA ParseStepType ==
  ASSUME NEW T, IsTextClass(T), NEW d \in 0..MaxTreeDepth, NEW b \in Contents(T)[d],
         NEW g, d = 0 \/ \A c \in Contents(T)[d - 1] : g[c] \in Parses(T)
  PROVE  ParseStep(b, g) \in Parses(T)
<1> DEFINE f == ParseStep(b, g)
           D == MaxNestingDepth
<1>1. D \in Nat /\ D \in 0..D
  BY BlocksAssumption
<1>2. ASSUME NEW depth \in 0..D
      PROVE  f[depth] \in Seq(Blocks(T)[D - depth])
  <2>1. depth \in Nat
    OBVIOUS
  <2>2. f[depth] = ParseFor(b, g, depth)
    BY <2>1 DEF ParseStep
  <2>3. d = 0 \/ depth = D
          \/ \A c \in Contents(T)[d - 1] : g[c][depth + 1] \in Seq(Blocks(T)[D - (depth + 1)])
    <3>1. depth = D \/ depth + 1 \in 0..D
      BY <1>1
    <3>2. QED
      BY <3>1 DEF Parses
  <2>4. ParseFor(b, g, depth) \in Seq(Blocks(T)[D - depth])
    BY <2>3, ParseForType
  <2>5. QED
    BY <2>2, <2>4
<1>3. ASSUME NEW depth \in Nat
      PROVE  f[depth] \in Seq(Blocks(T)[D])
  <2>1. CASE depth \in 0..D
    <3>1. f[depth] \in Seq(Blocks(T)[D - depth])
      BY <2>1, <1>2
    <3>2. D - depth \in 0..D
      BY <1>1, <2>1
    <3>3. Blocks(T)[D - depth] \subseteq Blocks(T)[D]
      BY <1>1, <3>2, BlocksGrow, Increasing
    <3>4. QED
      BY <3>1, <3>3, SeqOfMore
  <2>2. CASE depth \notin 0..D
    <3>1. ~(depth < MaxNestingDepth)
      BY <1>1, <2>2
    <3>2. f[depth] = ParseLeaf(b)
      BY <3>1 DEF ParseStep, ParseFor
    <3>3. ParseLeaf(b) \in Seq(LeafBlocks(T))
      BY ParseLeafType
    <3>4. LeafBlocks(T) \subseteq Blocks(T)[D]
      BY <1>1, LeafIsBlock
    <3>5. QED
      BY <3>2, <3>3, <3>4, SeqOfMore
  <2>3. QED
    BY <2>1, <2>2
<1>4. f \in [Nat -> Seq(Blocks(T)[D])]
  <2>1. f = [depth \in Nat |-> f[depth]]
    BY DEF ParseStep
  <2> HIDE DEF f, D
  <2>2. QED
    BY <2>1, <1>3
<1>5. QED
  BY <1>2, <1>4 DEF Parses

LEMMA ParsedItemsSame ==
  ASSUME NEW S, NEW items \in Seq(ListItems(S)), NEW g, NEW h, NEW depth,
         \A c \in S : g[c] = h[c]
  PROVE  ParsedItems(items, g, depth) = ParsedItems(items, h, depth)
<1>1. \A i \in DOMAIN items : items[i].children \in Seq(S)
  BY ListItemKinds
<1>2. \A i \in DOMAIN items :
        InnerOf(items[i].children, g, depth) = InnerOf(items[i].children, h, depth)
  BY <1>1, InnerOfSame
<1>3. QED
  BY <1>2 DEF ParsedItems

LEMMA ParseStepLocal ==
  ASSUME NEW T, NEW d \in 0..MaxTreeDepth, NEW b \in Contents(T)[d], NEW g, NEW h,
         d = 0 \/ \A c \in Contents(T)[d - 1] : g[c] = h[c]
  PROVE  ParseStep(b, g) = ParseStep(b, h)
<1>1. ASSUME NEW depth \in Nat
      PROVE  ParseFor(b, g, depth) = ParseFor(b, h, depth)
  <2> DEFINE below == depth + 1
             S == Contents(T)[d - 1]
  <2>1. CASE b.type = "blockquote"
    <3>1. d # 0 /\ b.children \in Seq(S)
      BY <2>1, ContentKinds
    <3>2. \A c \in S : g[c] = h[c]
      BY <3>1
    <3> HIDE DEF S, below
    <3>3. InnerOf(b.children, g, below) = InnerOf(b.children, h, below)
      BY <3>1, <3>2, InnerOfSame
    <3>4. QED
      BY <2>1, <3>3 DEF ParseFor, below
  <2>2. CASE b.type = "list"
    <3>1. d # 0 /\ b.children \in Seq(ListItems(S))
      BY <2>2, ContentKinds
    <3>2. \A c \in S : g[c] = h[c]
      BY <3>1
    <3> HIDE DEF S, below
    <3>3. ParsedItems(b.children, g, below) = ParsedItems(b.children, h, below)
      BY <3>1, <3>2, ParsedItemsSame
    <3>4. QED
      BY <2>2, <3>3 DEF ParseFor, below
  <2>3. CASE b.type \notin {"blockquote", "list"}
    BY <2>3 DEF ParseFor
  <2>4. QED
    BY <2>1, <2>2, <2>3
<1>2. QED
  BY <1>1 DEF ParseStep

LEMMA ParseContentUnfold == \A b \in Content : ParseContent[b] = ParseStep(b, ParseContent)
<1> DEFINE D == MaxTreeDepth
           B == Contents(AnyText)
           W == Parses(AnyText)
           V == [d \in 0..D |-> Parses(AnyText)]
           step == [p \in B[D] \X [B[D] -> W] |-> ParseStep(p[1], p[2])]
           Unfolds(f) == f = [b \in Content |-> ParseStep(b, f)]
<1>1. D \in Nat /\ LayersGrow(D, B) /\ IsTextClass(AnyText) /\ B[D] = Content
  BY ContentsGrow, AnyIsClass, BlocksAssumption, TreeAssumption DEF Content
<1>2. [depth \in Nat |-> <<>>] \in W /\ \A d \in 0..D : V[d] \subseteq W
  <2>1. [depth \in Nat |-> <<>>] \in W
    <3>1. \A depth \in 0..MaxNestingDepth :
            <<>> \in Seq(Blocks(AnyText)[MaxNestingDepth - depth])
      OBVIOUS
    <3>2. \A depth \in 0..MaxNestingDepth : depth \in Nat
      OBVIOUS
    <3> DEFINE f == [depth \in Nat |-> <<>>]
    <3>3. f \in [Nat -> Seq(Blocks(AnyText)[MaxNestingDepth])]
      OBVIOUS
    <3>4. \A depth \in 0..MaxNestingDepth :
            f[depth] \in Seq(Blocks(AnyText)[MaxNestingDepth - depth])
      BY <3>1, <3>2
    <3> HIDE DEF f
    <3>5. f \in Parses(AnyText)
      BY <3>3, <3>4 DEF Parses
    <3>6. QED
      BY <3>5 DEF f
  <2>2. QED
    BY <2>1
<1>3. \A d \in 0..D : B[d] \subseteq B[D]
  <2> HIDE DEF D, B
  <2>1. QED
    BY <1>1, Increasing
<1>4. ASSUME NEW b \in B[D], NEW g \in [B[D] -> W]
      PROVE  step[<<b, g>>] = ParseStep(b, g)
  <2>1. <<b, g>> \in B[D] \X [B[D] -> W]
    OBVIOUS
  <2>2. QED
    BY <2>1
<1> HIDE DEF step
<1>5. StepTyped(D, B, V, W, step)
  <2> SUFFICES ASSUME NEW d \in 0..D, NEW b \in B[d], NEW g \in [B[D] -> W],
                      d = 0 \/ \A c \in B[d - 1] : g[c] \in V[d - 1]
               PROVE  step[<<b, g>>] \in V[d]
    BY DEF StepTyped
  <2>1. d = 0 \/ d - 1 \in 0..D
    BY <1>1
  <2>2. ParseStep(b, g) \in V[d]
    BY <1>1, <2>1, ParseStepType
  <2>3. QED
    BY <1>3, <1>4, <2>2
<1>6. StepLocal(D, B, W, step)
  <2> SUFFICES ASSUME NEW d \in 0..D, NEW b \in B[d],
                      NEW g \in [B[D] -> W], NEW h \in [B[D] -> W],
                      d = 0 \/ \A c \in B[d - 1] : g[c] = h[c]
               PROVE  step[<<b, g>>] = step[<<b, h>>]
    BY DEF StepLocal
  <2>1. ParseStep(b, g) = ParseStep(b, h)
    BY ParseStepLocal
  <2>2. b \in B[D]
    BY <1>3
  <2>3. QED
    BY <1>4, <2>1, <2>2
<1>7. PICK f \in [B[D] -> W] : TreeSolves(D, B, step, f)
  <2> HIDE DEF D, B, V, W
  <2>1. QED
    BY <1>1, <1>2, <1>5, <1>6, TreeRecursion
<1>8. Unfolds(f)
  <2> HIDE DEF D, B, W
  <2>1. \A b \in B[D] : f[b] = ParseStep(b, f)
    BY <1>4, <1>7 DEF TreeSolves
  <2>2. f = [b \in B[D] |-> f[b]]
    BY <1>7
  <2>3. f = [b \in B[D] |-> ParseStep(b, f)]
    BY <2>1, <2>2, Zenon
  <2>4. QED
    BY <1>1, <2>3, Zenon
<1>9. Unfolds(CHOOSE g : Unfolds(g))
  <2> HIDE DEF Unfolds
  <2>1. QED
    BY <1>8
<1>10. ParseContent = CHOOSE g : Unfolds(g)
  BY DEF ParseContent, ParseStep, ParseFor, InnerOf, ParsedItems
<1>11. Unfolds(ParseContent)
  BY <1>9, <1>10
<1>12. ParseContent = [b \in Content |-> ParseStep(b, ParseContent)]
  BY <1>11
<1>13. QED
  BY <1>12, Zenon

LEMMA ParseContentType ==
  ASSUME NEW T, IsTextClass(T), NEW d \in 0..MaxTreeDepth, NEW b \in Contents(T)[d]
  PROVE  ParseContent[b] \in Parses(T)
<1> DEFINE D == MaxTreeDepth
           B == Contents(T)
           W == [n \in 0..D |-> Parses(T)]
<1>1. D \in Nat /\ T \subseteq AnyText /\ LayersGrow(D, Contents(AnyText))
  BY ContentsGrow, BlocksAssumption, TreeAssumption DEF IsTextClass
<1>2. \A n \in 0..D : B[n] \subseteq Content
  <2>1. \A n \in 0..D : B[n] \subseteq Contents(AnyText)[n]
    BY <1>1, ContentsOfMore
  <2>2. \A n \in 0..D : Contents(AnyText)[n] \subseteq Contents(AnyText)[D]
    BY <1>1, Increasing
  <2>3. QED
    BY <2>1, <2>2 DEF Content
<1>3. ASSUME NEW n \in 0..D, NEW c \in B[n], n = 0 \/ \A e \in B[n - 1] : ParseContent[e] \in W[n - 1]
      PROVE  ParseContent[c] \in W[n]
  <2>1. ParseContent[c] = ParseStep(c, ParseContent)
    BY <1>2, ParseContentUnfold
  <2>2. n = 0 \/ n - 1 \in 0..D
    BY <1>1
  <2>3. ParseStep(c, ParseContent) \in W[n]
    BY <1>3, <2>2, ParseStepType
  <2>4. QED
    BY <2>1, <2>3
<1>4. TreeTyped(D, B, W, ParseContent)
  <2> HIDE DEF B, D, W
  <2>1. QED
    BY <1>1, <1>3, TreeTypes
<1>5. QED
  BY <1>4 DEF TreeTyped

-----------------------------------------------------------------------------
(* What is computed of a longer sequence begins with what was computed of    *)
(* the shorter one.                                                          *)

Begins(s, t) == Len(s) <= Len(t) /\ \A i \in 1..Len(s) : t[i] = s[i]

LEMMA BeginsWithMore ==
  ASSUME NEW A, NEW s \in Seq(A), NEW t \in Seq(A), NEW r \in Seq(A), Begins(s, t)
  PROVE  Begins(s, t \o r)
<1>1. /\ Len(t \o r) = Len(t) + Len(r) /\ \A i \in 1..Len(t) : (t \o r)[i] = t[i]
  BY ConcatProperties
<1>2. Len(s) \in Nat /\ Len(t) \in Nat /\ Len(r) \in Nat
  OBVIOUS
<1>3. QED
  BY <1>1, <1>2 DEF Begins

LEMMA FlatType ==
  ASSUME NEW A, NEW seqs \in Seq(Seq(A))
  PROVE  \A i \in 1..Len(seqs) : Flat(seqs)[i] \in Seq(A)
<1> DEFINE N == Len(seqs)
           Bad == {i \in 1..N : Flat(seqs)[i] \notin Seq(A)}
<1>1. N \in Nat /\ \A i \in 1..N : seqs[i] \in Seq(A)
  OBVIOUS
<1>2. \A i \in 1..N : Flat(seqs)[i] = IF i = 1 THEN seqs[i] ELSE Flat(seqs)[i - 1] \o seqs[i]
  BY FlatUnfold
<1> HIDE DEF N
<1>3. Bad = {}
  <2>1. SUFFICES ASSUME Bad # {} PROVE FALSE
    OBVIOUS
  <2>2. Bad \in SUBSET Nat
    BY <1>1
  <2>3. PICK i \in Bad : \A j \in Bad : i <= j
    BY <2>1, <2>2, Least
  <2>4. i \in 1..N /\ i # 1
    BY <1>1, <1>2, <2>3
  <2>5. i - 1 \in 1..N /\ ~(i <= i - 1)
    BY <2>4, <1>1
  <2>6. Flat(seqs)[i - 1] \in Seq(A)
    BY <2>3, <2>5
  <2>7. Flat(seqs)[i] \in Seq(A)
    <3>1. Flat(seqs)[i] = Flat(seqs)[i - 1] \o seqs[i] /\ seqs[i] \in Seq(A)
      BY <2>4, <1>1, <1>2
    <3>2. QED
      BY <2>6, <3>1
  <2>8. QED
    BY <2>3, <2>7
<1>4. QED
  BY <1>3 DEF N

LEMMA FlattenBegins ==
  ASSUME NEW A, NEW seqs \in Seq(Seq(A)), NEW more \in Seq(Seq(A)), Begins(seqs, more)
  PROVE  Begins(FlattenSeq(seqs), FlattenSeq(more))
<1> DEFINE N == Len(seqs)
           M == Len(more)
<1>1. /\ N \in Nat /\ M \in Nat /\ N <= M /\ \A i \in 1..N : more[i] = seqs[i]
      /\ \A i \in 1..M : more[i] \in Seq(A)
  BY DEF Begins
<1>2. \A i \in 1..M : Flat(more)[i] = IF i = 1 THEN more[i] ELSE Flat(more)[i - 1] \o more[i]
  BY FlatUnfold
<1>3. \A i \in 1..N : Flat(seqs)[i] = IF i = 1 THEN seqs[i] ELSE Flat(seqs)[i - 1] \o seqs[i]
  BY FlatUnfold
<1>4. CASE seqs = <<>>
  <2>1. FlattenSeq(seqs) = <<>>
    BY <1>4, FlattenFlat
  <2>2. FlattenSeq(more) \in Seq(A)
    BY FlattenSeqType
  <2>3. QED
    BY <2>1, <2>2 DEF Begins
<1>5. CASE seqs # <<>>
  <2>1. N \in 1..N /\ N # 0
    BY <1>1, <1>5
  <2>2. more # <<>>
    BY <1>1, <2>1
  <2>3. FlattenSeq(seqs) = Flat(seqs)[N] /\ FlattenSeq(more) = Flat(more)[M]
    BY <1>5, <2>2, FlattenFlat
  <2>4. \A i \in 1..M : Flat(more)[i] \in Seq(A)
    BY FlatType
  <2> DEFINE Differ == {i \in 1..N : Flat(more)[i] # Flat(seqs)[i]}
             Bad == {n \in 1..M : n >= N /\ ~Begins(Flat(more)[N], Flat(more)[n])}
  <2> HIDE DEF N, M
  <2>5. Differ = {}
    <3>1. SUFFICES ASSUME Differ # {} PROVE FALSE
      OBVIOUS
    <3>2. Differ \in SUBSET Nat
      BY <1>1
    <3>3. PICK i \in Differ : \A j \in Differ : i <= j
      BY <3>1, <3>2, Least
    <3>4. i \in 1..N /\ i \in 1..M
      BY <1>1, <3>3
    <3>5. i # 1
      BY <1>1, <1>2, <1>3, <3>3, <3>4
    <3>6. i - 1 \in 1..N /\ ~(i <= i - 1)
      BY <3>4, <3>5, <1>1
    <3>7. Flat(more)[i - 1] = Flat(seqs)[i - 1]
      BY <3>3, <3>6
    <3>8. QED
      BY <3>3, <3>4, <3>5, <3>7, <1>1, <1>2, <1>3
  <2>6. Bad = {}
    <3>1. SUFFICES ASSUME Bad # {} PROVE FALSE
      OBVIOUS
    <3>2. Bad \in SUBSET Nat
      BY <1>1
    <3>3. PICK n \in Bad : \A m \in Bad : n <= m
      BY <3>1, <3>2, Least
    <3>4. n \in 1..M /\ n >= N /\ ~Begins(Flat(more)[N], Flat(more)[n])
      BY <3>3
    <3>5. n # N
      <4>1. N \in 1..M
        BY <1>1, <2>1
      <4>2. Flat(more)[N] \in Seq(A)
        BY <4>1, <2>4
      <4>3. Begins(Flat(more)[N], Flat(more)[N])
        BY <4>2 DEF Begins
      <4>4. QED
        BY <3>4, <4>3
    <3>6. n - 1 \in 1..M /\ n - 1 >= N /\ ~(n <= n - 1) /\ n # 1 /\ N \in 1..M
      BY <3>4, <3>5, <2>1, <1>1
    <3>7. Begins(Flat(more)[N], Flat(more)[n - 1])
      BY <3>3, <3>6
    <3>8. Flat(more)[n] = Flat(more)[n - 1] \o more[n]
      BY <3>4, <3>6, <1>2
    <3>9. Flat(more)[N] \in Seq(A) /\ Flat(more)[n - 1] \in Seq(A) /\ more[n] \in Seq(A)
      BY <3>4, <3>6, <2>4, <1>1
    <3>10. Begins(Flat(more)[N], Flat(more)[n])
      BY <3>7, <3>8, <3>9, BeginsWithMore
    <3>11. QED
      BY <3>4, <3>10
  <2>7. Begins(Flat(more)[N], Flat(more)[M])
    <3>1. M \in 1..M /\ M >= N
      BY <1>1, <2>1
    <3>2. QED
      BY <2>6, <3>1
  <2>8. Flat(more)[N] = Flat(seqs)[N]
    BY <2>1, <2>5
  <2>9. QED
    BY <2>3, <2>7, <2>8
<1>6. QED
  BY <1>4, <1>5

LEMMA MappedBegins ==
  ASSUME NEW S, NEW s \in Seq(S), NEW t \in Seq(S), Begins(s, t), NEW g
  PROVE  Begins(Mapped(s, g), Mapped(t, g))
<1>1. /\ DOMAIN s = 1..Len(s) /\ DOMAIN t = 1..Len(t) /\ Len(s) \in Nat /\ Len(t) \in Nat
      /\ Len(s) <= Len(t) /\ \A i \in 1..Len(s) : t[i] = s[i]
  BY DEF Begins
<1> DEFINE a == Mapped(s, g)
           b == Mapped(t, g)
<1>2. a = [i \in 1..Len(s) |-> g[s[i]]] /\ b = [i \in 1..Len(t) |-> g[t[i]]]
  BY <1>1 DEF Mapped
<1> HIDE DEF a, b
<1>3. Len(a) = Len(s) /\ Len(b) = Len(t)
  BY <1>1, <1>2
<1>4. \A i \in 1..Len(s) : b[i] = a[i]
  BY <1>1, <1>2
<1>5. QED
  BY <1>1, <1>3, <1>4 DEF Begins, a, b

LEMMA InnerOfBegins ==
  ASSUME NEW S, NEW B, NEW s \in Seq(S), NEW t \in Seq(S), Begins(s, t), NEW g, NEW at,
         \A c \in S : g[c][at] \in Seq(B)
  PROVE  Begins(InnerOf(s, g, at), InnerOf(t, g, at))
<1> DEFINE h == [c \in S |-> g[c][at]]
           a == Mapped(s, h)
           b == Mapped(t, h)
<1>1. \A c \in S : h[c] \in Seq(B)
  OBVIOUS
<1>2. InnerOf(s, g, at) = FlattenSeq(a)
  <2>1. \A i \in DOMAIN s : h[s[i]] = g[s[i]][at]
    OBVIOUS
  <2> HIDE DEF h
  <2>2. a = [i \in DOMAIN s |-> g[s[i]][at]]
    BY <2>1 DEF Mapped
  <2> HIDE DEF a
  <2>3. QED
    BY <2>2 DEF InnerOf
<1>3. InnerOf(t, g, at) = FlattenSeq(b)
  <2>1. \A i \in DOMAIN t : h[t[i]] = g[t[i]][at]
    OBVIOUS
  <2> HIDE DEF h
  <2>2. b = [i \in DOMAIN t |-> g[t[i]][at]]
    BY <2>1 DEF Mapped
  <2> HIDE DEF b
  <2>3. QED
    BY <2>2 DEF InnerOf
<1> HIDE DEF h
<1>4. Begins(a, b)
  BY MappedBegins
<1>5. a \in Seq(Seq(B)) /\ b \in Seq(Seq(B))
  BY <1>1, MappedType
<1>6. Begins(FlattenSeq(a), FlattenSeq(b))
  <2> HIDE DEF a, b
  <2>1. QED
    BY <1>4, <1>5, FlattenBegins
<1>7. QED
  BY <1>2, <1>3, <1>6

-----------------------------------------------------------------------------
(* The blocks and the parts of a reply.                                      *)

ParsedBlocks(nodes) == InnerOf(nodes, ParseContent, 0)
AllBlocks(nodes, lim) == InnerOf(Lift(ParsedBlocks(nodes)), SplitOversize, lim)
BothForms(nodes, lim) ==
  [i \in DOMAIN AllBlocks(nodes, lim) |-> RenderedBlock(AllBlocks(nodes, lim)[i])]

CharsOf(rendered) == [i \in DOMAIN rendered |-> Chars[rendered[i].block]]
UnitsOf(rendered) == [i \in DOMAIN rendered |-> Units[rendered[i].block]]
Grouped(rendered, lim) == GroupsOf(rendered, CharsOf(rendered), UnitsOf(rendered), lim)
PartsFor(nodes, lim) ==
  [g \in DOMAIN Grouped(BothForms(nodes, lim), lim) |->
     Part(Grouped(BothForms(nodes, lim), lim)[g])]

LEMMA RenderedIsPartsFor ==
  ASSUME NEW nodes
  PROVE  Rendered(nodes) = PartsFor(nodes, limits)
BY DEF Rendered, PartsFor, Grouped, GroupBlocks, CharsOf, UnitsOf, RenderedBlocks, BothForms,
       AllBlocks, ParsedBlocks, InnerOf

LEMMA DepthsAreDepths ==
  /\ MaxNestingDepth \in Nat /\ 0 \in 0..MaxNestingDepth
  /\ MaxNestingDepth \in 0..MaxNestingDepth /\ MaxTreeDepth \in 0..MaxTreeDepth
  /\ MaxNestingDepth - 0 = MaxNestingDepth
BY BlocksAssumption, TreeAssumption

Nodes(T) == Contents(T)[MaxTreeDepth]
Kinds(T) == Blocks(T)[MaxNestingDepth]

LEMMA ParsesNodes ==
  ASSUME NEW T, IsTextClass(T)
  PROVE  \A c \in Nodes(T) : ParseContent[c][0] \in Seq(Kinds(T))
<1>1. ASSUME NEW c \in Nodes(T)
      PROVE  ParseContent[c][0] \in Seq(Kinds(T))
  <2>1. ParseContent[c] \in Parses(T)
    BY DepthsAreDepths, ParseContentType DEF Nodes
  <2>2. ParseContent[c][0] \in Seq(Blocks(T)[MaxNestingDepth - 0])
    BY <2>1, DepthsAreDepths DEF Parses
  <2>3. QED
    BY <2>2, DepthsAreDepths DEF Kinds
<1>2. QED
  BY <1>1

LEMMA LiftsBlocks ==
  ASSUME NEW T, IsTextClass(T)
  PROVE  \A b \in Kinds(T) : LiftBlock[b] \in Seq(Kinds(T))
<1>1. ASSUME NEW b \in Kinds(T)
      PROVE  LiftBlock[b] \in Seq(Kinds(T))
  BY DepthsAreDepths, LiftBlockType DEF Kinds
<1>2. QED
  BY <1>1

LEMMA SplitsBlocks ==
  ASSUME NEW T, IsTextClass(T), NEW lim \in SplitLimits
  PROVE  \A b \in Kinds(T) :
           SplitOversize[b][lim] \in Seq(FittingBlocks(T, MaxNestingDepth, lim))
<1>1. ASSUME NEW b \in Kinds(T)
      PROVE  SplitOversize[b][lim] \in Seq(FittingBlocks(T, MaxNestingDepth, lim))
  BY SplitFits DEF Kinds
<1>2. QED
  BY <1>1

LEMMA LiftOf ==
  ASSUME NEW blocks
  PROVE  Lift(blocks) = FlattenSeq(Mapped(blocks, LiftBlock))
BY DEF Lift, Mapped

LEMMA AllBlocksType ==
  ASSUME NEW T, IsTextClass(T), NEW nodes \in Seq(Nodes(T)), NEW lim \in SplitLimits
  PROVE  /\ ParsedBlocks(nodes) \in Seq(Kinds(T))
         /\ Lift(ParsedBlocks(nodes)) \in Seq(Kinds(T))
         /\ AllBlocks(nodes, lim) \in Seq(FittingBlocks(T, MaxNestingDepth, lim))
<1> DEFINE S == Nodes(T)
           B == Kinds(T)
           F == FittingBlocks(T, MaxNestingDepth, lim)
           parsed == ParsedBlocks(nodes)
           lifted == Lift(parsed)
<1>1. nodes \in Seq(S) /\ \A c \in S : ParseContent[c][0] \in Seq(B)
  BY ParsesNodes
<1>2. \A b \in B : LiftBlock[b] \in Seq(B)
  BY LiftsBlocks
<1>3. \A b \in B : SplitOversize[b][lim] \in Seq(F)
  BY SplitsBlocks
<1> HIDE DEF S, B, F
<1>4. parsed \in Seq(B)
  <2>1. InnerOf(nodes, ParseContent, 0) \in Seq(B)
    BY <1>1, InnerOfType
  <2>2. QED
    BY <2>1 DEF ParsedBlocks
<1> HIDE DEF parsed
<1>5. lifted \in Seq(B)
  <2>1. Mapped(parsed, LiftBlock) \in Seq(Seq(B))
    BY <1>2, <1>4, MappedType
  <2>2. FlattenSeq(Mapped(parsed, LiftBlock)) \in Seq(B)
    BY <2>1, FlattenSeqType
  <2>3. QED
    BY <2>2, LiftOf
<1> HIDE DEF lifted
<1>6. InnerOf(lifted, SplitOversize, lim) \in Seq(F)
  BY <1>3, <1>5, InnerOfType
<1>7. QED
  BY <1>4, <1>5, <1>6 DEF AllBlocks, lifted, parsed, B, F

LEMMA AllBlocksBegin ==
  ASSUME NEW T, IsTextClass(T), NEW nodes \in Seq(Nodes(T)), NEW more \in Seq(Nodes(T)),
         Begins(nodes, more), NEW lim \in SplitLimits
  PROVE  Begins(AllBlocks(nodes, lim), AllBlocks(more, lim))
<1> DEFINE S == Nodes(T)
           B == Kinds(T)
           F == FittingBlocks(T, MaxNestingDepth, lim)
           parsed == ParsedBlocks(nodes)
           parsed2 == ParsedBlocks(more)
           lifted == Lift(parsed)
           lifted2 == Lift(parsed2)
<1>1. /\ nodes \in Seq(S) /\ more \in Seq(S)
      /\ \A c \in S : ParseContent[c][0] \in Seq(B)
  BY ParsesNodes
<1>2. \A b \in B : LiftBlock[b] \in Seq(B)
  BY LiftsBlocks
<1>3. \A b \in B : SplitOversize[b][lim] \in Seq(F)
  BY SplitsBlocks
<1>4. parsed \in Seq(B) /\ parsed2 \in Seq(B) /\ lifted \in Seq(B) /\ lifted2 \in Seq(B)
  BY AllBlocksType
<1> HIDE DEF S, B, F
<1>5. Begins(parsed, parsed2)
  <2>1. Begins(InnerOf(nodes, ParseContent, 0), InnerOf(more, ParseContent, 0))
    BY <1>1, InnerOfBegins
  <2>2. QED
    BY <2>1 DEF ParsedBlocks
<1> HIDE DEF parsed, parsed2
<1>6. Begins(lifted, lifted2)
  <2> DEFINE a == Mapped(parsed, LiftBlock)
             b == Mapped(parsed2, LiftBlock)
  <2>1. a \in Seq(Seq(B)) /\ b \in Seq(Seq(B))
    BY <1>2, <1>4, MappedType
  <2>2. Begins(a, b)
    BY <1>4, <1>5, MappedBegins
  <2>3. lifted = FlattenSeq(a) /\ lifted2 = FlattenSeq(b)
    BY LiftOf
  <2> HIDE DEF a, b
  <2>4. Begins(FlattenSeq(a), FlattenSeq(b))
    BY <2>1, <2>2, FlattenBegins
  <2>5. QED
    BY <2>3, <2>4
<1> HIDE DEF lifted, lifted2
<1>7. Begins(InnerOf(lifted, SplitOversize, lim), InnerOf(lifted2, SplitOversize, lim))
  BY <1>3, <1>4, <1>6, InnerOfBegins
<1>8. QED
  BY <1>7 DEF AllBlocks, lifted, lifted2, parsed, parsed2

\* A block in both forms that fits a message.
BothOf(T, lim) ==
  {r \in [block: Riches(T)[MaxNestingDepth], plainText: T] :
     Chars[r.block] <= lim.maxChars /\ Units[r.block] <= lim.maxBlocks}

LEMMA RenderedBlockType ==
  ASSUME NEW T, IsTextClass(T), NEW lim, NEW b \in FittingBlocks(T, MaxNestingDepth, lim)
  PROVE  RenderedBlock(b) \in BothOf(T, lim)
<1>1. b \in Blocks(T)[MaxNestingDepth] /\ FitsLimits(b, lim)
  BY DEF FittingBlocks
<1>2. RichBlock[b] \in Riches(T)[MaxNestingDepth] /\ PlainText[b] \in T
  BY <1>1, DepthsAreDepths, BlockSizes
<1>3. Chars[RichBlock[b]] <= lim.maxChars /\ Units[RichBlock[b]] <= lim.maxBlocks
  BY <1>1 DEF FitsLimits
<1>4. QED
  BY <1>2, <1>3 DEF RenderedBlock, BothOf

LEMMA BothFormsType ==
  ASSUME NEW T, IsTextClass(T), NEW nodes \in Seq(Nodes(T)), NEW lim \in SplitLimits
  PROVE  BothForms(nodes, lim) \in Seq(BothOf(T, lim))
<1> DEFINE blocks == AllBlocks(nodes, lim)
           F == FittingBlocks(T, MaxNestingDepth, lim)
           both(i) == RenderedBlock(blocks[i])
           made == [i \in DOMAIN blocks |-> both(i)]
<1>1. blocks \in Seq(F)
  BY AllBlocksType
<1> HIDE DEF blocks
<1>2. \A i \in 1..Len(blocks) : both(i) \in BothOf(T, lim)
  BY <1>1, RenderedBlockType
<1> HIDE DEF both, F
<1>3. made = [i \in DOMAIN blocks |-> made[i]] /\ \A i \in DOMAIN blocks : made[i] = both(i)
  OBVIOUS
<1>4. DOMAIN blocks = 1..Len(blocks)
  BY <1>1
<1> HIDE DEF made
<1>5. made \in Seq(BothOf(T, lim))
  BY <1>1, <1>2, <1>3, <1>4, MadeType
<1>6. QED
  BY <1>5 DEF BothForms, made, both, blocks

LEMMA BothFormsBegin ==
  ASSUME NEW T, IsTextClass(T), NEW nodes \in Seq(Nodes(T)), NEW more \in Seq(Nodes(T)),
         Begins(nodes, more), NEW lim \in SplitLimits
  PROVE  Begins(BothForms(nodes, lim), BothForms(more, lim))
<1> DEFINE F == FittingBlocks(T, MaxNestingDepth, lim)
           s == AllBlocks(nodes, lim)
           t == AllBlocks(more, lim)
           a == BothForms(nodes, lim)
           b == BothForms(more, lim)
<1>1. s \in Seq(F) /\ t \in Seq(F) /\ Begins(s, t)
  BY AllBlocksType, AllBlocksBegin
<1>2. a = [i \in DOMAIN s |-> RenderedBlock(s[i])] /\ b = [i \in DOMAIN t |-> RenderedBlock(t[i])]
  BY DEF BothForms
<1> HIDE DEF F, s, t, a, b
<1>3. /\ DOMAIN s = 1..Len(s) /\ DOMAIN t = 1..Len(t) /\ Len(s) \in Nat /\ Len(t) \in Nat
      /\ Len(s) <= Len(t) /\ \A i \in 1..Len(s) : t[i] = s[i]
  BY <1>1 DEF Begins
<1>4. Len(a) = Len(s) /\ Len(b) = Len(t)
  BY <1>2, <1>3
<1>5. \A i \in 1..Len(s) : b[i] = a[i]
  BY <1>2, <1>3
<1>6. QED
  BY <1>3, <1>4, <1>5 DEF Begins, a, b

LEMMA SizesType ==
  ASSUME NEW T, IsTextClass(T), NEW lim \in SplitLimits, NEW rendered \in Seq(BothOf(T, lim))
  PROVE  /\ CharsOf(rendered) \in [1..Len(rendered) -> Nat]
         /\ UnitsOf(rendered) \in [1..Len(rendered) -> Nat]
         /\ \A i \in 1..Len(rendered) : /\ CharsOf(rendered)[i] = Chars[rendered[i].block]
                                        /\ UnitsOf(rendered)[i] = Units[rendered[i].block]
         /\ \A i \in 1..Len(rendered) : /\ CharsOf(rendered)[i] <= lim.maxChars
                                        /\ UnitsOf(rendered)[i] <= lim.maxBlocks
<1>1. DOMAIN rendered = 1..Len(rendered) /\ \A i \in 1..Len(rendered) : rendered[i] \in BothOf(T, lim)
  OBVIOUS
<1>2. \A r \in BothOf(T, lim) : /\ r.block \in Riches(T)[MaxNestingDepth]
                                /\ Chars[r.block] <= lim.maxChars
                                /\ Units[r.block] <= lim.maxBlocks
  BY DEF BothOf
<1>3. \A r \in BothOf(T, lim) : Chars[r.block] \in Nat /\ Units[r.block] \in Nat
  BY <1>2, DepthsAreDepths, CharsType, UnitsType
<1>4. QED
  BY <1>1, <1>2, <1>3 DEF CharsOf, UnitsOf

LEMMA LimitsAreLimits == SplitLimits \subseteq Limits
BY DEF SplitLimits, Limits

-----------------------------------------------------------------------------
(* The parts of a reply.                                                     *)

LEMMA GroupedType ==
  ASSUME NEW T, IsTextClass(T), NEW nodes \in Seq(Nodes(T)), NEW lim \in SplitLimits
  PROVE  Grouped(BothForms(nodes, lim), lim) \in Seq(FullSeq(BothOf(T, lim)))
<1> DEFINE R == BothOf(T, lim)
           rendered == BothForms(nodes, lim)
           C == CharsOf(rendered)
           U == UnitsOf(rendered)
<1>1. rendered \in Seq(R)
  BY BothFormsType
<1>2. C \in [1..Len(rendered) -> Nat] /\ U \in [1..Len(rendered) -> Nat]
  BY <1>1, SizesType
<1>3. lim \in Limits
  BY LimitsAreLimits
<1> HIDE DEF R, rendered, C, U
<1>4. GroupsOf(rendered, C, U, lim) \in Seq(FullSeq(R))
  BY <1>1, <1>2, <1>3, GroupsType
<1>5. QED
  BY <1>4 DEF Grouped, C, U, R, rendered

Parts(T) == [blocks: Seq(Riches(T)[MaxNestingDepth]), fallbackText: T]

LEMMA PartType ==
  ASSUME NEW T, IsTextClass(T), NEW lim, NEW group \in Seq(BothOf(T, lim))
  PROVE  Part(group) \in Parts(T)
<1> DEFINE R == BothOf(T, lim)
           B == Riches(T)[MaxNestingDepth]
           blocks == [i \in DOMAIN group |-> group[i].block]
           texts == [i \in DOMAIN group |-> group[i].plainText]
<1>1. \A r \in R : r.block \in B /\ r.plainText \in T
  BY DEF BothOf
<1>2. group \in Seq(R)
  OBVIOUS
<1> HIDE DEF R, B
<1>3. DOMAIN group = 1..Len(group) /\ Len(group) \in Nat /\ \A i \in 1..Len(group) : group[i] \in R
  BY <1>2
<1>4. blocks \in Seq(B) /\ texts \in Seq(T)
  BY <1>1, <1>3
<1> HIDE DEF blocks, texts
<1>5. NonEmpty(texts) \in Seq(T)
  BY <1>4, NonEmptyType
<1>6. Join(NonEmpty(texts), <<"\n", "\n">>) \in T
  BY <1>5, MarksType, JoinType
<1>7. QED
  BY <1>4, <1>6 DEF Part, Parts, blocks, texts, B

LEMMA PartsForType ==
  ASSUME NEW T, IsTextClass(T), NEW nodes \in Seq(Nodes(T)), NEW lim \in SplitLimits
  PROVE  PartsFor(nodes, lim) \in Seq(Parts(T))
<1> DEFINE R == BothOf(T, lim)
           groups == Grouped(BothForms(nodes, lim), lim)
           made == PartsFor(nodes, lim)
<1>1. groups \in Seq(FullSeq(R))
  BY GroupedType
<1>2. made = [g \in DOMAIN groups |-> Part(groups[g])]
  BY DEF PartsFor
<1>3. \A group \in FullSeq(R) : Part(group) \in Parts(T)
  BY PartType DEF FullSeq
<1> HIDE DEF R, groups, made
<1>4. DOMAIN groups = 1..Len(groups) /\ \A g \in 1..Len(groups) : groups[g] \in FullSeq(R)
  BY <1>1
<1>5. made = [g \in DOMAIN groups |-> made[g]] /\ \A g \in 1..Len(groups) : made[g] \in Parts(T)
  BY <1>2, <1>3, <1>4
<1>6. made \in Seq(Parts(T))
  BY <1>1, <1>5, MadeType
<1>7. QED
  BY <1>6 DEF made

-----------------------------------------------------------------------------
(* A part that has been filled stays as it is when the reply grows.          *)

LEMMA FilledPartsStand ==
  ASSUME NEW T, IsTextClass(T), NEW nodes \in Seq(Nodes(T)), NEW more \in Seq(Nodes(T)),
         Begins(nodes, more), NEW lim \in SplitLimits,
         NEW p \in 1..(Len(PartsFor(nodes, lim)) - 1)
  PROVE  p <= Len(PartsFor(more, lim)) /\ PartsFor(more, lim)[p] = PartsFor(nodes, lim)[p]
<1> DEFINE R == BothOf(T, lim)
           s == BothForms(nodes, lim)
           t == BothForms(more, lim)
           sizes == CharsOf(s)
           counts == UnitsOf(s)
           sizes2 == CharsOf(t)
           counts2 == UnitsOf(t)
           groups == GroupsOf(s, sizes, counts, lim)
           groups2 == GroupsOf(t, sizes2, counts2, lim)
           before == PartsFor(nodes, lim)
           after == PartsFor(more, lim)
<1>1. s \in Seq(R) /\ t \in Seq(R) /\ Begins(s, t)
  BY BothFormsType, BothFormsBegin
<1>2. /\ sizes \in [1..Len(s) -> Nat] /\ counts \in [1..Len(s) -> Nat]
      /\ \A i \in 1..Len(s) : sizes[i] = Chars[s[i].block] /\ counts[i] = Units[s[i].block]
  <2> HIDE DEF s
  <2>1. QED
    BY <1>1, SizesType
<1>3. /\ sizes2 \in [1..Len(t) -> Nat] /\ counts2 \in [1..Len(t) -> Nat]
      /\ \A i \in 1..Len(t) : sizes2[i] = Chars[t[i].block] /\ counts2[i] = Units[t[i].block]
  <2> HIDE DEF t
  <2>1. QED
    BY <1>1, SizesType
<1>4. /\ before = [g \in DOMAIN groups |-> Part(groups[g])]
      /\ after = [g \in DOMAIN groups2 |-> Part(groups2[g])]
  BY DEF PartsFor, Grouped
<1>5. groups \in Seq(FullSeq(R)) /\ groups2 \in Seq(FullSeq(R))
  BY GroupedType DEF Grouped
<1>6. lim \in Limits
  BY LimitsAreLimits
<1>7. p \in 1..(Len(before) - 1)
  OBVIOUS
<1> HIDE DEF R, s, t, sizes, counts, sizes2, counts2, groups, groups2, before, after
<1>8. Lengthens(s, sizes, counts, t, sizes2, counts2)
  <2>1. Len(s) \in Nat /\ Len(t) \in Nat /\ Len(s) <= Len(t) /\ \A i \in 1..Len(s) : t[i] = s[i]
    BY <1>1 DEF Begins
  <2>2. \A i \in 1..Len(s) : i \in 1..Len(t)
    BY <2>1
  <2>3. QED
    BY <1>2, <1>3, <2>1, <2>2 DEF Lengthens
<1>9. /\ DOMAIN groups = 1..Len(groups) /\ DOMAIN groups2 = 1..Len(groups2)
      /\ Len(groups) \in Nat /\ Len(groups2) \in Nat
  BY <1>5
<1>10. Len(before) = Len(groups) /\ Len(after) = Len(groups2)
  BY <1>4, <1>9
<1>11. p \in 1..(Len(groups) - 1)
  BY <1>7, <1>10
<1>12. p <= Len(groups2) /\ groups2[p] = groups[p]
  <2>1. p \in 1..(Len(GroupsOf(s, sizes, counts, lim)) - 1)
    BY <1>11 DEF groups
  <2>2. sizes \in [1..Len(s) -> Nat] /\ counts \in [1..Len(s) -> Nat]
    BY <1>2
  <2>3. sizes2 \in [1..Len(t) -> Nat] /\ counts2 \in [1..Len(t) -> Nat]
    BY <1>3
  <2>4. \A g \in 1..(Len(GroupsOf(s, sizes, counts, lim)) - 1) :
          /\ g <= Len(GroupsOf(t, sizes2, counts2, lim))
          /\ GroupsOf(t, sizes2, counts2, lim)[g] = GroupsOf(s, sizes, counts, lim)[g]
    BY <1>1, <1>6, <1>8, EarlierGroupsStand
  <2>5. QED
    BY <2>1, <2>4 DEF groups, groups2
<1>13. p \in 1..Len(groups) /\ p \in 1..Len(groups2)
  BY <1>9, <1>11, <1>12
<1>14. before[p] = Part(groups[p]) /\ after[p] = Part(groups2[p])
  BY <1>4, <1>9, <1>13
<1>15. QED
  BY <1>10, <1>12, <1>14 DEF before, after

-----------------------------------------------------------------------------
(* A part keeps both budgets.                                                *)

NativeBlocks(group) == [i \in DOMAIN group |-> group[i].block]
BlockSize(blocks, size) == Total([i \in DOMAIN blocks |-> size[blocks[i]]])

LEMMA SeqOfSizes ==
  ASSUME NEW k \in Nat, NEW s, s = [i \in 1..k |-> s[i]], \A i \in 1..k : s[i] \in Nat
  PROVE  s \in Seq(Nat) /\ Len(s) = k
<1>1. s \in [1..k -> Nat]
  OBVIOUS
<1>2. QED
  BY <1>1

\* What a group's blocks measure is what the running total grows by over it.
SizesOf(items, measure, size) == \A i \in 1..Len(items) : measure[i] = size[items[i].block]

Measured(items, measure, size, C) ==
  /\ measure \in [1..Len(items) -> Nat] /\ SizesOf(items, measure, size)
  /\ C \in [0..Len(items) -> Nat] /\ RunningTotal(C, measure, Len(items))
IsRun(items, from, to, group) ==
  /\ from \in 0..Len(items) /\ to \in 0..Len(items) /\ from < to
  /\ group = SubSeq(items, from + 1, to)

LEMMA GroupMeasures ==
  ASSUME NEW R, NEW items \in Seq(R), NEW size, NEW measure, NEW C,
         Measured(items, measure, size, C),
         NEW from, NEW to, NEW group, IsRun(items, from, to, group)
  PROVE  BlockSize(NativeBlocks(group), size) = C[to] - C[from]
<1> DEFINE n == Len(items)
           blocks == NativeBlocks(group)
           sizes == [i \in DOMAIN blocks |-> size[blocks[i]]]
<1>0. /\ measure \in [1..n -> Nat] /\ \A i \in 1..n : measure[i] = size[items[i].block]
      /\ C \in [0..n -> Nat] /\ RunningTotal(C, measure, n)
  BY DEF Measured, SizesOf
<1>1. /\ n \in Nat /\ from \in 0..n /\ to \in 0..n /\ from < to /\ from <= to /\ to - from \in Nat
      /\ group = SubSeq(items, from + 1, to)
  BY DEF IsRun
<1>2. /\ DOMAIN group = 1..(to - from)
      /\ \A i \in 1..(to - from) : group[i] = items[from + i]
  <2>1. /\ from + 1 \in 1..(Len(items) + 1) /\ to \in ((from + 1) - 1)..Len(items)
        /\ to - (from + 1) + 1 = to - from
        /\ \A i \in 1..(to - from) : (from + 1) + i - 1 = from + i
    BY <1>1
  <2>2. /\ group \in Seq(R) /\ Len(group) = to - (from + 1) + 1
        /\ \A i \in 1..(to - (from + 1) + 1) : group[i] = items[(from + 1) + i - 1]
    BY <1>1, <2>1, SubSeqProperties
  <2>3. QED
    BY <2>1, <2>2
<1>3. blocks = [i \in DOMAIN group |-> group[i].block]
  BY DEF NativeBlocks
<1> HIDE DEF n, blocks
<1>4. DOMAIN blocks = 1..(to - from) /\ \A i \in 1..(to - from) : blocks[i] = items[from + i].block
  BY <1>2, <1>3
<1>5. \A i \in 1..(to - from) : from + i \in 1..n
  BY <1>1
<1>6. \A i \in 1..(to - from) : sizes[i] = measure[from + i]
  BY <1>0, <1>4, <1>5
<1>7. \A i \in 1..(to - from) : measure[from + i] \in Nat
  BY <1>0, <1>5
<1>8. sizes \in Seq(Nat) /\ Len(sizes) = to - from
  <2>1. DOMAIN blocks = 1..(to - from) /\ \A i \in 1..(to - from) : sizes[i] \in Nat
    BY <1>4, <1>6, <1>7
  <2>2. sizes = [i \in DOMAIN blocks |-> sizes[i]]
    OBVIOUS
  <2> HIDE DEF sizes
  <2>3. sizes = [i \in 1..(to - from) |-> sizes[i]]
    BY <2>1, <2>2
  <2>4. QED
    BY <1>1, <2>1, <2>3, SeqOfSizes
<1> HIDE DEF sizes
<1>9. Total(sizes) = C[to] - C[from]
  BY <1>0, <1>1, <1>6, <1>8, TotalOfRun
<1>10. QED
  BY <1>9 DEF BlockSize, sizes, blocks

LEMMA GroupFits ==
  ASSUME NEW R, NEW items \in Seq(R), NEW lim \in Limits,
         NEW chars \in [1..Len(items) -> Nat], NEW units \in [1..Len(items) -> Nat],
         \A i \in 1..Len(items) : /\ chars[i] = Chars[items[i].block]
                                  /\ units[i] = Units[items[i].block],
         \A i \in 1..Len(items) : chars[i] <= lim.maxChars /\ units[i] <= lim.maxBlocks,
         NEW g \in 1..Len(GroupsOf(items, chars, units, lim))
  PROVE  LET blocks == Part(GroupsOf(items, chars, units, lim)[g]).blocks
         IN BlockSize(blocks, Chars) <= lim.maxChars /\ BlockSize(blocks, Units) <= lim.maxBlocks
<1> DEFINE N == Len(items)
           groups == GroupsOf(items, chars, units, lim)
           blocks == Part(groups[g]).blocks
<1>1. N \in Nat
  OBVIOUS
<1>2. PICK C \in [0..N -> Nat] : RunningTotal(C, chars, N)
  BY <1>1, TotalsExist
<1>3. PICK U \in [0..N -> Nat] : RunningTotal(U, units, N)
  BY <1>1, TotalsExist
<1>4. AreGroups(items, C, U, lim, groups)
  BY <1>2, <1>3, GroupsAreRuns
<1>5. PICK cut \in [0..Len(groups) -> 0..N] :
        \A h \in 1..Len(groups) : IsGroup(items, C, U, lim, cut[h - 1], cut[h], groups[h])
  BY <1>4 DEF AreGroups
<1>6. groups \in Seq(FullSeq(R))
  BY GroupsType
<1> DEFINE from == cut[g - 1]
           to == cut[g]
           group == groups[g]
<1>7. g \in 1..Len(groups) /\ Len(groups) \in Nat
  BY <1>6
<1> HIDE DEF groups
<1>8. from \in 0..N /\ to \in 0..N
  <2>1. g - 1 \in 0..Len(groups) /\ g \in 0..Len(groups)
    BY <1>7
  <2> HIDE DEF N
  <2>2. QED
    BY <1>5, <2>1
<1>9. IsGroup(items, C, U, lim, from, to, group)
  BY <1>5, <1>7
<1> HIDE DEF from, to, group
<1>10. /\ from < to /\ group = SubSeq(items, from + 1, to)
       /\ \/ to = from + 1
          \/ C[to] - C[from] <= lim.maxChars /\ U[to] - U[from] <= lim.maxBlocks
  BY <1>9 DEF IsGroup
<1>11. /\ \A i \in 1..N : chars[i] = Chars[items[i].block]
       /\ \A i \in 1..N : units[i] = Units[items[i].block]
       /\ items \in Seq(R) /\ N = Len(items)
       /\ chars \in [1..N -> Nat] /\ units \in [1..N -> Nat]
  OBVIOUS
<1>12. BlockSize(NativeBlocks(group), Chars) = C[to] - C[from]
  <2>1. Measured(items, chars, Chars, C)
    BY <1>2 DEF Measured, SizesOf
  <2>2. IsRun(items, from, to, group)
    BY <1>8, <1>10 DEF IsRun
  <2>3. QED
    BY <2>1, <2>2, GroupMeasures
<1>13. BlockSize(NativeBlocks(group), Units) = U[to] - U[from]
  <2>1. Measured(items, units, Units, U)
    BY <1>3 DEF Measured, SizesOf
  <2>2. IsRun(items, from, to, group)
    BY <1>8, <1>10 DEF IsRun
  <2>3. QED
    BY <2>1, <2>2, GroupMeasures
<1>14. C[to] - C[from] <= lim.maxChars /\ U[to] - U[from] <= lim.maxBlocks
  <2>1. CASE to = from + 1
    <3>1. to \in 1..N /\ to - 1 = from
      BY <1>1, <1>8, <2>1
    <3>2. C[to] = C[from] + chars[to] /\ U[to] = U[from] + units[to]
      BY <1>2, <1>3, <3>1 DEF RunningTotal
    <3>3. chars[to] <= lim.maxChars /\ units[to] <= lim.maxBlocks
      BY <3>1
    <3>4. C[from] \in Nat /\ U[from] \in Nat /\ chars[to] \in Nat /\ units[to] \in Nat
      BY <1>2, <1>3, <1>8, <1>11, <3>1
    <3>5. QED
      BY <3>2, <3>3, <3>4
  <2>2. QED
    BY <1>10, <2>1
<1>15. QED
  BY <1>12, <1>13, <1>14 DEF group, groups, Part, NativeBlocks

LEMMA PartsFit ==
  ASSUME NEW nodes \in Seq(Content), NEW lim \in SplitLimits,
         NEW p \in DOMAIN PartsFor(nodes, lim)
  PROVE  LET blocks == PartsFor(nodes, lim)[p].blocks
         IN BlockSize(blocks, Chars) <= lim.maxChars /\ BlockSize(blocks, Units) <= lim.maxBlocks
<1> DEFINE R == BothOf(AnyText, lim)
           s == BothForms(nodes, lim)
           chars == CharsOf(s)
           units == UnitsOf(s)
           groups == GroupsOf(s, chars, units, lim)
           made == PartsFor(nodes, lim)
<1>1. s \in Seq(R)
  BY AnyIsClass, BothFormsType DEF Content, Nodes
<1>2. lim \in Limits
  BY LimitsAreLimits
<1>3. groups \in Seq(FullSeq(R)) /\ made = [g \in DOMAIN groups |-> Part(groups[g])]
  BY AnyIsClass, GroupedType DEF PartsFor, Grouped, Content, Nodes
<1>4. p \in DOMAIN made
  OBVIOUS
<1>5. /\ chars \in [1..Len(s) -> Nat] /\ units \in [1..Len(s) -> Nat]
      /\ \A i \in 1..Len(s) : chars[i] = Chars[s[i].block] /\ units[i] = Units[s[i].block]
      /\ \A i \in 1..Len(s) : chars[i] <= lim.maxChars /\ units[i] <= lim.maxBlocks
  <2> HIDE DEF s
  <2>1. QED
    BY <1>1, AnyIsClass, SizesType
<1> HIDE DEF R, s, chars, units, groups, made
<1>6. p \in 1..Len(groups) /\ made[p] = Part(groups[p])
  BY <1>3, <1>4
<1>7. /\ BlockSize(Part(groups[p]).blocks, Chars) <= lim.maxChars
      /\ BlockSize(Part(groups[p]).blocks, Units) <= lim.maxBlocks
  <2>1. p \in 1..Len(GroupsOf(s, chars, units, lim))
    BY <1>6 DEF groups
  <2>2. QED
    BY <1>1, <1>2, <1>5, <2>1, GroupFits DEF groups
<1>8. QED
  BY <1>6, <1>7 DEF made

-----------------------------------------------------------------------------
(* The reply as it grows.                                                    *)

\* The parts are those of the nodes found so far, with the limits of the run.
RenderInv ==
  /\ tree \in Seq(Node) /\ limits \in LimitPairs
  /\ (tree = <<>> /\ parts = <<>>) \/ parts = PartsFor(tree, limits)

LEMMA RenderInvInit == RenderInit => RenderInv
BY DEF RenderInit, RenderInv

LEMMA BeginningBegins ==
  ASSUME NEW S, NEW s \in Seq(S), NEW k \in 0..Len(s)
  PROVE  SubSeq(s, 1, k) \in Seq(S) /\ Begins(SubSeq(s, 1, k), s)
<1>1. /\ SubSeq(s, 1, k) \in Seq(S) /\ Len(SubSeq(s, 1, k)) = k /\ k <= Len(s)
      /\ \A i \in 1..k : SubSeq(s, 1, k)[i] = s[i]
  OBVIOUS
<1>2. QED
  BY <1>1 DEF Begins

LEMMA ParseRenders ==
  ASSUME RenderInv, NEW kept \in 0..Len(tree), NEW node \in Node, Parse(kept, node)
  PROVE  /\ tree' \in Seq(Node) /\ limits' = limits /\ parts' = PartsFor(tree', limits)
<1>1. /\ tree' = Append(SubSeq(tree, 1, kept), node)
      /\ parts' = Rendered(tree') /\ limits' = limits
  BY DEF Parse
<1>2. parts' = PartsFor(tree', limits)
  BY <1>1, RenderedIsPartsFor
<1>3. tree \in Seq(Node)
  BY DEF RenderInv
<1>4. SubSeq(tree, 1, kept) \in Seq(Node)
  BY <1>3, BeginningBegins
<1>5. QED
  BY <1>1, <1>2, <1>4

\* The nodes an update may bring: see Next.
LEMMA UpdatesParse ==
  ASSUME RenderInv, Next, ~(ReadLine \/ TakeText)
  PROVE  \E kept \in 0..Len(tree), node \in Node : Parse(kept, node)
<1>1. Len(tree) \in Nat
  BY DEF RenderInv
<1>2. CASE \E node \in Node : Parse(Len(tree), node)
  BY <1>1, <1>2
<1>3. CASE \E kept \in 0..(Len(tree) - 1), node \in Revised : Parse(kept, node)
  BY <1>1, <1>3, RenderingAssumption
<1>4. QED
  BY <1>2, <1>3 DEF Next

LEMMA OthersRender ==
  ASSUME ReadLine \/ TakeText \/ UNCHANGED vars
  PROVE  tree' = tree /\ limits' = limits /\ parts' = parts
BY DEF ReadLine, TakeText, vars

LEMMA RenderInvStep == RenderInv /\ [Next]_vars => RenderInv'
<1>1. SUFFICES ASSUME RenderInv, [Next]_vars PROVE RenderInv'
  OBVIOUS
<1>2. CASE ReadLine \/ TakeText \/ UNCHANGED vars
  <2>1. tree' = tree /\ limits' = limits /\ parts' = parts
    BY <1>2, OthersRender
  <2>2. QED
    BY <1>1, <2>1 DEF RenderInv
<1>3. ASSUME NEW kept \in 0..Len(tree), NEW node \in Node, Parse(kept, node)
      PROVE  RenderInv'
  <2>1. tree' \in Seq(Node) /\ limits' = limits /\ parts' = PartsFor(tree', limits)
    BY <1>1, <1>3, ParseRenders
  <2>2. parts' = PartsFor(tree', limits')
    BY <2>1
  <2>3. limits' \in LimitPairs
    BY <1>1, <2>1 DEF RenderInv
  <2>4. QED
    BY <2>1, <2>2, <2>3 DEF RenderInv
<1>4. QED
  BY <1>1, <1>2, <1>3, UpdatesParse

\* The messages on screen are those of the nodes found so far (toRenderedBlocks,
\* chunkTelegramRenderedBlocks), and nothing is left over from an earlier update.
THEOREM RenderInvariant == RenderSpec => []RenderInv
<1>1. RenderInit => RenderInv
  BY RenderInvInit
<1>2. RenderInv /\ [Next]_vars => RenderInv'
  BY RenderInvStep
<1>3. QED
  BY <1>1, <1>2, PTL DEF RenderSpec

LEMMA NodesAreContents == Seq(Node) \subseteq Seq(Nodes(AnyText)) /\ LimitPairs \subseteq SplitLimits
<1>1. Node \subseteq Nodes(AnyText) /\ LimitPairs \subseteq SplitLimits
  BY RenderingAssumption DEF Content, Nodes
<1>2. QED
  BY <1>1, SeqMonotonic

\* What the first nodes of a reply fill is filled by the whole reply.
LEMMA FilledByMore ==
  ASSUME NEW nodes \in Seq(Node), limits \in LimitPairs, NEW k \in 1..Len(nodes),
         NEW p \in 1..Filled(SubSeq(nodes, 1, k))
  PROVE  /\ p <= Len(PartsFor(nodes, limits))
         /\ PartsFor(nodes, limits)[p] = PartsFor(SubSeq(nodes, 1, k), limits)[p]
<1> DEFINE first == SubSeq(nodes, 1, k)
<1>1. k \in 0..Len(nodes)
  OBVIOUS
<1>2. first \in Seq(Node) /\ Begins(first, nodes)
  BY <1>1, BeginningBegins
<1>3. /\ first \in Seq(Nodes(AnyText)) /\ nodes \in Seq(Nodes(AnyText))
      /\ limits \in SplitLimits
  BY <1>2, NodesAreContents
<1>4. p \in 1..(Len(PartsFor(first, limits)) - 1)
  BY RenderedIsPartsFor DEF Filled
<1> HIDE DEF first
<1>5. QED
  BY <1>2, <1>3, <1>4, AnyIsClass, FilledPartsStand DEF first

\* EarlierPartsStand: however a reply changes behind some of its nodes, the
\* messages that those nodes fill stay, so the streamer never sends them again.
THEOREM EarlierPartsStay == RenderSpec => EarlierPartsStand
<1> DEFINE Stand ==
      \A k \in 1..Len(tree) :
        k <= Len(tree') /\ SubSeq(tree', 1, k) = SubSeq(tree, 1, k)
          => \A p \in 1..Filled(SubSeq(tree, 1, k)) :
               p <= Len(parts) /\ p <= Len(parts') /\ parts'[p] = parts[p]
<1>1. RenderInv /\ [Next]_vars => [Stand]_vars
  <2>1. SUFFICES ASSUME RenderInv, Next PROVE Stand
    OBVIOUS
  <2>2. SUFFICES ASSUME NEW k \in 1..Len(tree), k <= Len(tree'),
                        SubSeq(tree', 1, k) = SubSeq(tree, 1, k),
                        NEW p \in 1..Filled(SubSeq(tree, 1, k))
                 PROVE  p <= Len(parts) /\ p <= Len(parts') /\ parts'[p] = parts[p]
    OBVIOUS
  <2> DEFINE filled == PartsFor(SubSeq(tree, 1, k), limits)
  <2>3. tree \in Seq(Node) /\ limits \in LimitPairs /\ parts = PartsFor(tree, limits)
    <3>1. tree # <<>>
      OBVIOUS
    <3>2. QED
      BY <2>1, <3>1 DEF RenderInv
  <2>4. p <= Len(parts) /\ parts[p] = filled[p]
    BY <2>3, FilledByMore
  <2>5. CASE ReadLine \/ TakeText
    <3>1. parts' = parts
      BY <2>5, OthersRender
    <3>2. QED
      BY <2>4, <3>1
  <2>6. ASSUME NEW kept \in 0..Len(tree), NEW node \in Node, Parse(kept, node)
        PROVE  p <= Len(parts') /\ parts'[p] = filled[p]
    <3>1. tree' \in Seq(Node) /\ parts' = PartsFor(tree', limits)
      BY <2>1, <2>6, ParseRenders
    <3>2. k \in 1..Len(tree')
      BY <2>2, <3>1
    <3>3. p \in 1..Filled(SubSeq(tree', 1, k))
      BY <2>2 DEF Filled
    <3>4. /\ p <= Len(PartsFor(tree', limits))
          /\ PartsFor(tree', limits)[p] = PartsFor(SubSeq(tree', 1, k), limits)[p]
      BY <2>3, <3>1, <3>2, <3>3, FilledByMore
    <3>5. QED
      BY <2>2, <3>1, <3>4
  <2>7. QED
    BY <2>1, <2>4, <2>5, <2>6, UpdatesParse
<1>2. QED
  BY <1>1, RenderInvariant, PTL DEF RenderSpec, EarlierPartsStand

LEMMA BudgetsKept == RenderInv => WithinBudgets
<1>1. SUFFICES ASSUME RenderInv, NEW p \in DOMAIN parts
               PROVE  /\ BlockSize(parts[p].blocks, Chars) <= limits.maxChars
                      /\ BlockSize(parts[p].blocks, Units) <= limits.maxBlocks
  BY DEF WithinBudgets, BlockSize
<1>2. parts = PartsFor(tree, limits)
  <2>1. parts # <<>>
    BY <1>1
  <2>2. QED
    BY <1>1, <2>1 DEF RenderInv
<1>3. tree \in Seq(Content) /\ limits \in SplitLimits
  BY <1>1, NodesAreContents DEF RenderInv, Nodes, Content
<1>4. QED
  BY <1>1, <1>2, <1>3, PartsFit

\* WithinBudgets: no message chunkTelegramRenderedBlocks makes is over the limits
\* of Telegram, although the splitters measure in ways of their own.
THEOREM BudgetsHold == RenderSpec => []WithinBudgets
BY RenderInvariant, BudgetsKept, PTL

LEMMA WholePartsKept ==
  ASSUME Node \subseteq Contents(WholeText)[MaxTreeDepth], RenderInv
  PROVE  PairsWhole
<1> DEFINE T == WholeText
           texts == [p \in DOMAIN parts |-> parts[p].fallbackText]
           plain == Join(NonEmpty(texts), <<"\n", "\n">>)
<1>1. IsTextClass(T)
  BY WholeIsClass
<1>2. \A t \in T : Whole(t)
  BY DEF WholeText
<1> HIDE DEF T
<1>3. parts \in Seq(Parts(T))
  <2>1. CASE parts = <<>>
    BY <2>1
  <2>2. CASE parts = PartsFor(tree, limits)
    <3>1. Seq(Node) \subseteq Seq(Nodes(T))
      <4>1. Node \subseteq Nodes(T)
        BY DEF Nodes, T
      <4>2. QED
        BY <4>1, SeqMonotonic
    <3>2. tree \in Seq(Nodes(T)) /\ limits \in SplitLimits
      BY <3>1, NodesAreContents DEF RenderInv
    <3>3. QED
      BY <1>1, <2>2, <3>2, PartsForType
  <2>3. QED
    BY <2>1, <2>2 DEF RenderInv
<1>4. \A p \in DOMAIN parts : parts[p] \in Parts(T)
  BY <1>3
<1>5. texts \in Seq(T)
  <2>1. \A x \in Parts(T) : x.fallbackText \in T
    BY DEF Parts
  <2>2. DOMAIN parts = 1..Len(parts) /\ Len(parts) \in Nat
    BY <1>3
  <2>3. QED
    BY <1>4, <2>1, <2>2
<1> HIDE DEF texts
<1>6. plain \in T
  <2>1. NonEmpty(texts) \in Seq(T)
    BY <1>5, NonEmptyType
  <2>2. QED
    BY <1>1, <2>1, MarksType, JoinType
<1> HIDE DEF plain
<1>7. SplitText(plain, PlainMaxPartChars) \in Seq(T)
  BY <1>1, <1>6, RenderingAssumption, SplitTextType
<1>8. PlainParts \in Seq(T)
  BY <1>7 DEF PlainParts, plain, texts
<1>9. \A i \in DOMAIN PlainParts : Whole(PlainParts[i])
  <2>1. \A i \in DOMAIN PlainParts : PlainParts[i] \in T
    BY <1>8
  <2>2. QED
    BY <1>2, <2>1
<1>10. ASSUME NEW p \in DOMAIN parts, NEW i \in DOMAIN parts[p].blocks
       PROVE  Whole(RichText[parts[p].blocks[i]])
  <2>1. parts[p].blocks \in Seq(Riches(T)[MaxNestingDepth])
    BY <1>4 DEF Parts
  <2>2. parts[p].blocks[i] \in Riches(T)[MaxNestingDepth]
    BY <2>1
  <2>3. RichText[parts[p].blocks[i]] \in T
    BY <1>1, <2>2, DepthsAreDepths, RichTextType
  <2>4. QED
    BY <1>2, <2>3
<1>11. QED
  BY <1>9, <1>10 DEF PairsWhole

\* PairsWhole: if remark's nodes have no half of a surrogate pair in their texts,
\* no message has, and no piece of the plain text sent instead of it.
THEOREM PairsStayWhole ==
  ASSUME Node \subseteq Contents(WholeText)[MaxTreeDepth]
  PROVE  RenderSpec => []PairsWhole
<1>1. RenderInv => PairsWhole
  BY WholePartsKept
<1>2. QED
  BY <1>1, RenderInvariant, PTL
=============================================================================
