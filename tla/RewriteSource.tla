--------------------------- MODULE RewriteSource ---------------------------
(***************************************************************************)
(* rewrite_source of src/domain/rewrite.c around its blocks: behind the    *)
(* scan and the grouping, what is between the blocks is copied, and each   *)
(* block is copied or refilled.  What a refill makes of a block is         *)
(* Rewrite's; here it is a piece of the output with the line ending it is  *)
(* written with.                                                           *)
(***************************************************************************)
EXTENDS Group

CONSTANT Width   \* The column to wrap at

ASSUME WidthAssumption == Width \in Nat \ {0}

VARIABLES
  turn,      \* i of rewrite_source: the block it is at
  cursor,    \* the first byte of the source that is not dealt with
  buffer,    \* its pieces, each for the bytes from..to - 1 of the source
  finished

rewriteVars == <<turn, cursor, buffer, finished>>

-----------------------------------------------------------------------------
Copy(from, to) == [how |-> "copy", from |-> from, to |-> to, crlf |-> FALSE]

Refilled(b) == [how |-> "refill", from |-> b.start, to |-> b.end, crlf |-> b.crlf]

\* is_fitting_one_line_block. A tab's width depends on its column.
IsFittingOneLineBlock(b) ==
  LET text == b.start .. b.end - 1
  IN  /\ b.opener \in {"/*", "/*!", "/**"}
      /\ \A n \in text : source[n] \notin {"nl", "tab"}
      /\ b.column + Cardinality({n \in text : source[n] \notin {"cr", "ctl"}}) <= Width

Gap(b) == IF b.start > cursor THEN <<Copy(cursor, b.start)>> ELSE <<>>

CursorPast_Refills(b) == IF IsFittingOneLineBlock(b) THEN cursor ELSE b.end
\* The cursor moves on whatever becomes of the block.
CursorPast(b) == b.end

-----------------------------------------------------------------------------
RewriteInit == GroupInit /\ turn = 1 /\ cursor = 1 /\ buffer = <<>> /\ finished = FALSE

Groups == GroupNext /\ UNCHANGED rewriteVars

IsGrouped == done /\ first = 0 /\ index > Len(items)

Turn(piece) ==
  /\ IsGrouped /\ turn <= Len(grouped)
  /\ buffer' = buffer \o Gap(grouped[turn]) \o <<piece>>
  /\ cursor' = CursorPast(grouped[turn])
  /\ turn' = turn + 1
  /\ UNCHANGED <<vars, groupVars, finished>>

KeepBlock ==
  LET b == grouped[turn] IN Turn(Copy(b.start, b.end)) /\ IsFittingOneLineBlock(b)

RefillBlock ==
  LET b == grouped[turn] IN Turn(Refilled(b)) /\ ~ IsFittingOneLineBlock(b)

CopyTail ==
  /\ IsGrouped /\ turn > Len(grouped) /\ ~ finished
  /\ buffer' = Append(buffer, Copy(cursor, Len(source) + 1))
  /\ finished' = TRUE
  /\ UNCHANGED <<vars, groupVars, turn, cursor>>

RewriteNext == Groups \/ KeepBlock \/ RefillBlock \/ CopyTail

RewriteSpec == RewriteInit /\ [][RewriteNext]_<<vars, groupVars, rewriteVars>>

-----------------------------------------------------------------------------
(* Properties *)

\* The output accounts for every byte of the source once and in order: a piece
\* begins where the one before it ended, and they end where the source does. So
\* the bytes outside the refilled blocks do not change.
EveryByteOnce ==
  /\ \A k \in 1 .. Len(buffer) :
       /\ buffer[k].from <= buffer[k].to
       /\ buffer[k].from = IF k = 1 THEN 1 ELSE buffer[k - 1].to
  /\ finished => buffer # <<>> /\ buffer[Len(buffer)].to = Len(source) + 1

\* Two neighbouring spans are lines of one comment to a reader: whole comments of
\* one line with one marker, under each other on consecutive lines.
AreOneComment(k) ==
  LET one == items[k]   two == items[k + 1]
      between == one.end .. two.start - 1
  IN  /\ \A s \in {one, two} : s.kind = "line" /\ IsSpanRewritable(s)
      /\ SpanOpener(one) = SpanOpener(two) /\ one.column = two.column
      /\ \A n \in between : source[n] \in White
      /\ Cardinality({n \in between : source[n] = "nl"}) = 1
      /\ ~ \E n \in between : source[n] = "cr" /\ n > one.end

\* The longest runs of such lines, and the slash-star comments, that stand alone
\* and say something, as pairs of a first and a last span.
Runs ==
  LET isRun(a, b) ==
        /\ a <= b /\ IsSpanRewritable(items[a])
        /\ \A k \in a .. b - 1 : AreOneComment(k)
        /\ a > 1 => ~ AreOneComment(a - 1)
        /\ b < Len(items) => ~ AreOneComment(b)
  IN  {r \in (1 .. Len(items)) \X (1 .. Len(items)) :
         isRun(r[1], r[2]) /\ HasPayload(items[r[1]].start, items[r[2]].end)}

\* A slash-star comment on one line that ends by the width.
FitsItsLine(from, to) ==
  /\ source[from + 1] = "st"
  /\ \A n \in from .. to - 1 : source[n] \notin {"nl", "tab"}
  /\ AdvanceColumn(ColumnAt[to - 1], source[to - 1]) <= Width

IsLfFile == \A n \in 1 .. Len(source) : source[n] # "cr"
IsCrlfFile == \A n \in 1 .. Len(source) : source[n] = "nl" => n > 1 /\ source[n - 1] = "cr"

\* What is refilled are the longest runs that do not fit as they are: a run neither
\* ends early nor takes in a line that is not of it, however many lines it has. In
\* a file of one line ending a refill is written with it, if its first line ends
\* where the comment does or within it.
RefillsAreTheRuns ==
  finished =>
    LET refills == {buffer[k] : k \in {k \in 1 .. Len(buffer) : buffer[k].how = "refill"}}
        ranges == {<<items[r[1]].start, items[r[2]].end>> : r \in Runs}
        endsALine(p) == \E n \in p.from .. p.to + 1 : n <= Len(source) /\ IsNl(n)
    IN  /\ {<<p.from, p.to>> : p \in refills} = {r \in ranges : ~ FitsItsLine(r[1], r[2])}
        /\ \A p \in refills :
             /\ IsLfFile => ~ p.crlf
             /\ IsCrlfFile /\ endsALine(p) => p.crlf

\* Text with a place to break it and more letters than a line holds, so that what a refill
\* makes of it has a line break.
TakesTwoLines(p) ==
  LET letters == {n \in p.from .. p.to - 1 : source[n] = "x"}
  IN  /\ Cardinality(letters) > Width
      /\ \E a, b \in letters : \E n \in a .. b : source[n] = "sp"

\* What ARCHITECTURE.md:158 says of the line endings: the lines of a refill end as those of
\* the source do, also where the comment's line goes on with code or blanks, or is the
\* last and has no end. The code disagrees, and writes LF there.
RefillsKeepTheEnding ==
  finished /\ IsCrlfFile /\ (\E n \in 1 .. Len(source) : source[n] = "nl") =>
    \A k \in 1 .. Len(buffer) :
      buffer[k].how = "refill" /\ TakesTwoLines(buffer[k]) => buffer[k].crlf
=============================================================================
