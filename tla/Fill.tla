-------------------------------- MODULE Fill --------------------------------
(***************************************************************************)
(* src/domain/fill.c: the greedy refill of one comment body.               *)
(*                                                                         *)
(* fill_body_lines walks the body twice.  The first pass splits it into    *)
(* paragraphs and counts the lines they will take; the second writes those *)
(* lines into an array of exactly that many slots, with no bounds check.   *)
(*                                                                         *)
(* What a word and a body line are is in Doxygen, whose alignment a body   *)
(* has behind it.                                                          *)
(***************************************************************************)
EXTENDS Doxygen

\* What one call is asked: the body, the columns before its first line and its
\* other lines, the width, and whether the closer trails the last line.
FillJob == [lines : Seq(BodyLine), prefixFirst : Nat, prefix : Nat, width : Nat,
            hasCloser : BOOLEAN]

VARIABLES
  job,             \* the arguments of fill_body_lines
  stage,           \* "count", "append", "done"
  i,               \* the body line the pass is at
  atomIndex,       \* atoms of its paragraph already on a line
  paragraphs,      \* struct FillParagraph array, in order
  paragraphIndex,  \* second pass: the paragraph to write next
  capacity,        \* lines counted: the slots of rebuilt
  rebuilt,         \* the lines written
  counted          \* history: where the first pass was at each line it counted

fillVars == <<job, stage, i, atomIndex, paragraphs, paragraphIndex, capacity,
              rebuilt, counted>>

-----------------------------------------------------------------------------
\* glue_line_opener_atoms: a word that would be read as a tag, a list item or a
\* directive at the start of a line.  A list marker is one only before a blank.
IsLineOpener(words, k, trail) ==
  \/ Mark[words[k]] \in TagMarks \union {"directive"}
  \/ Mark[words[k]] = "list" /\ (k < Len(words) \/ trail > 0)

AtomStarts_All(words, trail) == 1 .. Len(words)

\* The words that start an atom: all but the line openers, which travel with the
\* word before them.  The first word has none before it to travel with.
AtomStarts(words, trail) ==
  {k \in 1 .. Len(words) : k = 1 \/ ~ IsLineOpener(words, k, trail)}

\* The n-th least number of a set.
Nth(S, n) == CHOOSE x \in S : Cardinality({y \in S : y <= x}) = n

Glue(words, trail) ==
  LET starts  == AtomStarts(words, trail)
      count   == Cardinality(starts)
      last(n) == IF n = count THEN Len(words) ELSE Nth(starts, n + 1) - 1
  IN  [n \in 1 .. count |-> SubSeq(words, Nth(starts, n), last(n))]

\* Words side by side, one column between two of them (atom_column_width).
TextColumns(words) ==
  FoldLeft(LAMBDA sum, w : sum + Columns[w] + 1, 0, words)
    - (IF words = <<>> THEN 0 ELSE 1)

AtomsColumns(atoms) == TextColumns(FlattenSeq(atoms))

-----------------------------------------------------------------------------
IsFilled(line) == line.kind \in {"prose", "tag"}

\* A paragraph is a prose or tag line with the prose lines after it.
ParagraphEnds(lines, s) ==
  {e \in s + 1 .. Len(lines) + 1 : e = Len(lines) + 1 \/ lines[e].kind # "prose"}

Least(S) == CHOOSE x \in S : \A y \in S : x <= y

ParagraphEnd(lines, s) == Least(ParagraphEnds(lines, s))

\* The text of a body line: its words, the blanks more than one behind those that a
\* tag freezes, and the blanks after the last word.
LineText(line) ==
  LET isBare == Len(line.words) = DescriptionOffset(line.words)
  IN  [words |-> line.words,
       pad   |-> IF isBare THEN 0 ELSE line.pad,
       trail |-> line.trail + (IF isBare THEN line.pad ELSE 0)]

\* Two texts side by side: the last word of one and the first of the other are one.
FuseEnds(u, v) == Front(u) \o <<Fused[<<Last(u), Head(v)>>]>> \o Tail(v)

\* One turn of join_payloads.  Blanks that end up behind words a tag freezes stay.
Join(joined, line, hasJoinSpace) ==
  LET gap  == joined.trail + (IF hasJoinSpace THEN 1 ELSE 0)
      kept == IF Len(joined.words) = DescriptionOffset(joined.words) THEN gap - 1 ELSE 0
      next == LineText(line)
  IN  IF line.words = <<>> THEN joined
      ELSE IF joined.words = <<>> THEN next
      ELSE IF gap = 0
      THEN [next EXCEPT !.words = FuseEnds(joined.words, line.words), !.pad = joined.pad]
      ELSE [next EXCEPT !.words = joined.words \o line.words, !.pad = joined.pad + kept]

\* A line of blanks inside a description has no text, and no space beside it.
HasJoinSpace(lines, s, k) == k > s /\ lines[k - 1].words # <<>> /\ lines[k].words # <<>>

Unjoined == [words |-> <<>>, pad |-> 0, trail |-> 0]

\* join_payloads: the text of the lines from s up to e.
Joined(lines, s, e) ==
  FoldLeft(LAMBDA joined, k : Join(joined, lines[k], HasJoinSpace(lines, s, k)),
           Unjoined, [k \in 1 .. e - s |-> s + k - 1])

\* tag_prefix_len: the words of a tag paragraph that stay on its first line.  What is
\* joined to a tag with no blank between may make it no tag.
FrozenCount(isTag, words) ==
  IF isTag /\ words # <<>> /\ Mark[words[1]] \in TagMarks THEN DescriptionOffset(words) ELSE 0

Frozen(isTag, words) == SubSeq(words, 1, FrozenCount(isTag, words))

Rest_WithTag(isTag, words) == words
\* The atoms inside the frozen prefix are dropped: the prefix holds them.
Rest(isTag, words) == SubSeq(words, FrozenCount(isTag, words) + 1, Len(words))

CloserColumns_None(j, e) == 0
\* Only a paragraph that ends the body makes room for the closer.
CloserColumns(j, e) == IF j.hasCloser /\ e = Len(j.lines) + 1 THEN 3 ELSE 0

\* split_paragraph: the tag and its name are frozen out of the words, with the
\* blanks behind them, and the later lines hang under the word after those.
Paragraph(j, s) ==
  LET e      == ParagraphEnd(j.lines, s)
      joined == Joined(j.lines, s, e)
      isTag  == j.lines[s].kind = "tag"
      lead   == Frozen(isTag, joined.words)
      rest   == Rest(isTag, joined.words)
      gap    == IF rest = <<>> THEN joined.trail ELSE 1
  IN  [start       |-> s,
       end         |-> e,
       kind        |-> IF lead # <<>> THEN "tag" ELSE "prose",
       lead        |-> lead,
       pad         |-> IF lead # <<>> THEN joined.pad ELSE 0,
       trail       |-> IF lead # <<>> /\ rest = <<>> THEN gap ELSE 0,
       hang        |-> IF lead # <<>> THEN TextColumns(lead) + joined.pad + gap ELSE 0,
       atoms       |-> Glue(rest, joined.trail),
       prefixFirst |-> IF s = 1 THEN j.prefixFirst ELSE j.prefix,
       closer      |-> CloserColumns(j, e)]

\* filled_line_end: the atoms from .. to - 1 (counted from zero) are one line too
\* wide.  The closer counts when the last atom of the paragraph is among them.
IsWidthExceeded(p, from, to, prefix, width) ==
  prefix + p.hang + AtomsColumns(SubSeq(p.atoms, from + 1, to))
    + (IF to = Len(p.atoms) THEN p.closer ELSE 0) > width

LineEnds_Empty(p, from, prefix, width) ==
  {e \in from .. Len(p.atoms) :
     e = Len(p.atoms) \/ IsWidthExceeded(p, from, e + 1, prefix, width)}
\* Where a line that starts at the atom from may end: after the last atom, or,
\* its first atom apart, before an atom that no longer fits.
LineEnds(p, from, prefix, width) ==
  {e \in from .. Len(p.atoms) :
     e = Len(p.atoms) \/ (e > from /\ IsWidthExceeded(p, from, e + 1, prefix, width))}

FilledLineEnd(p, from, prefix, width) == Least(LineEnds(p, from, prefix, width))

-----------------------------------------------------------------------------
FillStart(j) ==
  /\ job = j
  /\ stage = "count" /\ i = 1 /\ atomIndex = 0
  /\ paragraphs = <<>> /\ paragraphIndex = 1
  /\ capacity = 0 /\ rebuilt = <<>> /\ counted = <<>>

FillInit == \E j \in FillJob : FillStart(j)

\* Where a pass stands: body line, atom, and paragraphs behind it.
Position(n) == [i |-> i, atomIndex |-> atomIndex, behind |-> n]

CountPrefix_Other(p) == job.prefix
\* filled_line_count and append_filled_paragraph each choose the prefix.
CountPrefix(p) == IF atomIndex = 0 THEN p.prefixFirst ELSE job.prefix
AppendPrefix(p) == IF atomIndex = 0 THEN p.prefixFirst ELSE job.prefix

\* Where the passes go on after a paragraph.
After(p) == p.end

AtParagraph == i <= Len(job.lines) /\ IsFilled(job.lines[i])

\* First pass: a line that is copied stays one line.
CountCopied ==
  /\ stage = "count" /\ i <= Len(job.lines) /\ ~ IsFilled(job.lines[i])
  /\ capacity' = capacity + 1 /\ i' = i + 1
  /\ counted' = Append(counted, Position(Len(paragraphs)))
  /\ UNCHANGED <<job, stage, atomIndex, paragraphs, paragraphIndex, rebuilt>>

\* First pass: one turn of filled_line_count.  Its first turn follows
\* split_paragraph; its last leaves the paragraph.
CountLine ==
  /\ stage = "count" /\ AtParagraph
  /\ LET known == atomIndex # 0
         ps    == IF known THEN paragraphs ELSE Append(paragraphs, Paragraph(job, i))
         p     == ps[Len(ps)]
         e     == FilledLineEnd(p, atomIndex, CountPrefix(p), job.width)
     IN  /\ paragraphs' = ps
         /\ counted' = Append(counted, Position(Len(ps) - 1))
         /\ IF e < Len(p.atoms)
            THEN atomIndex' = e /\ UNCHANGED i
            ELSE atomIndex' = 0 /\ i' = After(p)
  /\ capacity' = capacity + 1
  /\ UNCHANGED <<job, stage, paragraphIndex, rebuilt>>

StartAppend ==
  /\ stage = "count" /\ i > Len(job.lines)
  /\ stage' = "append" /\ i' = 1
  /\ UNCHANGED <<job, atomIndex, paragraphs, paragraphIndex, capacity, rebuilt, counted>>

AtKnownParagraph ==
  paragraphIndex <= Len(paragraphs) /\ paragraphs[paragraphIndex].start = i

\* Second pass: a line outside every known paragraph is copied as it is.
AppendCopied ==
  /\ stage = "append" /\ i <= Len(job.lines) /\ ~ AtKnownParagraph
  /\ LET line == job.lines[i]
     IN  rebuilt' = Append(rebuilt, [kind |-> line.kind, hang |-> line.indent,
                                     lead |-> line.words, atoms |-> <<>>,
                                     pad |-> line.pad, trail |-> line.trail])
  /\ i' = i + 1
  /\ UNCHANGED <<job, stage, atomIndex, paragraphs, paragraphIndex, capacity, counted>>

\* Second pass: one turn of append_filled_paragraph with append_filled_line.  The
\* frozen prefix opens the first line, blanks of its width the others.
AppendLine ==
  /\ stage = "append" /\ i <= Len(job.lines) /\ AtKnownParagraph
  /\ LET p    == paragraphs[paragraphIndex]
         e    == FilledLineEnd(p, atomIndex, AppendPrefix(p), job.width)
         line == [kind  |-> IF atomIndex = 0 THEN p.kind ELSE "prose",
                  hang  |-> p.hang,
                  lead  |-> IF atomIndex = 0 THEN p.lead ELSE <<>>,
                  atoms |-> SubSeq(p.atoms, atomIndex + 1, e),
                  pad   |-> IF atomIndex = 0 THEN p.pad ELSE 0,
                  trail |-> p.trail]
     IN  /\ rebuilt' = Append(rebuilt, line)
         /\ IF e < Len(p.atoms)
            THEN atomIndex' = e /\ UNCHANGED <<i, paragraphIndex>>
            ELSE atomIndex' = 0 /\ i' = After(p) /\ paragraphIndex' = paragraphIndex + 1
  /\ UNCHANGED <<job, stage, paragraphs, capacity, counted>>

FinishFill ==
  /\ stage = "append" /\ i > Len(job.lines)
  /\ stage' = "done"
  /\ UNCHANGED <<job, i, atomIndex, paragraphs, paragraphIndex, capacity, rebuilt, counted>>

FillNext ==
  \/ CountCopied \/ CountLine \/ StartAppend
  \/ AppendCopied \/ AppendLine \/ FinishFill

FillSpec == FillInit /\ [][FillNext]_fillVars

-----------------------------------------------------------------------------
\* No line that is filled is without words: no two words are joined with no blank
\* between them.
IsWorded(lines) == \A k \in 1 .. Len(lines) : IsFilled(lines[k]) => lines[k].words # <<>>

\* The blanks and the words of a line that was written.  A tag line opens with its
\* keyword; a line that hangs under a description opens with blanks.
LineIndent(line) == IF line.kind = "tag" THEN 0 ELSE line.hang
LineWords(line) == line.lead \o FlattenSeq(line.atoms)

TypeOK ==
  /\ stage \in {"count", "append", "done"}
  /\ i \in 1 .. Len(job.lines) + 1
  /\ atomIndex \in Nat /\ capacity \in Nat
  /\ paragraphIndex \in 1 .. Len(paragraphs) + 1
  /\ \A k \in 1 .. Len(rebuilt) : rebuilt[k].kind \in Kinds

\* The second pass never writes more lines than the first counted, at any step of it:
\* the array is never written past its end.  When it ends no slot is left: an
\* unwritten one would be no line of the body.
RebuiltFillsCapacity ==
  /\ stage # "count" => Len(rebuilt) <= capacity
  /\ stage = "done" => Len(rebuilt) = capacity

\* A filled line fits the width, the closer included where it trails the line,
\* unless it holds a single atom.
FilledLinesFit ==
  \A k \in 1 .. Len(rebuilt) :
    LET line   == rebuilt[k]
        prefix == IF k = 1 THEN job.prefixFirst ELSE job.prefix
        closer == IF job.hasCloser /\ k = Len(rebuilt) /\ i > Len(job.lines)
                  THEN 3 ELSE 0
    IN  ~ IsFilled(line) \/ Len(line.atoms) <= 1
          \/ ~ (prefix + line.hang + AtomsColumns(line.atoms) + closer > job.width)

\* Every turn of either pass goes on to a later atom or a later line, however wide
\* an atom is: neither loop can turn for ever.
LinesAdvance ==
  [][FillNext /\ stage' = stage => i' > i \/ (i' = i /\ atomIndex' > atomIndex)]_fillVars

=============================================================================
