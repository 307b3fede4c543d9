------------------------------- MODULE Group -------------------------------
(***************************************************************************)
(* comment_group of src/domain/comment.c: the spans the lexer found become *)
(* the blocks that a rewrite refills.  A run of line comments is extended  *)
(* span by span, each one against the first of the run and against the end *)
(* of the one before it.                                                   *)
(***************************************************************************)
EXTENDS Lex

VARIABLES
  index,    \* i of comment_group: the span it is at
  first,    \* the span that opened the block, 0 between blocks
  grouped   \* the blocks kept

groupVars == <<index, first, grouped>>

-----------------------------------------------------------------------------
\* A trailing comment stays where it is, and so does a line comment that a splice
\* carries to the next line.
IsSpanRewritable(span) ==
  /\ ~ span.trailing
  /\ span.kind = "line" => \A n \in span.start .. span.end - 1 : source[n] # "nl"

\* The byte of a span at an offset from its start.
At(span, n) == IF span.start + n < span.end THEN source[span.start + n] ELSE "none"

\* span_opener.  Four slashes open a plain comment whose text starts with slashes.
SpanOpener(span) ==
  CASE At(span, 2) = "bang" -> IF span.kind = "line" THEN "//!" ELSE "/*!"
    [] span.kind = "line" /\ At(span, 2) = "sl" /\ At(span, 3) # "sl" -> "///"
    [] span.kind = "block" /\ At(span, 2) = "st" -> "/**"
    [] OTHER -> IF span.kind = "line" THEN "//" ELSE "/*"

\* Between two lines of a run there is a line break, and the next line's indent.
IsLineBreakBetween(from, to) ==
  LET nl == IF from < to /\ source[from] = "cr" THEN from + 1 ELSE from
  IN  /\ nl < to /\ source[nl] = "nl"
      /\ \A n \in nl + 1 .. to - 1 : source[n] \in {"sp", "tab"}

RunEnd_First == items[first].end
\* The end of the run so far.
RunEnd == items[index].end

IsLineRunContinuation ==
  /\ items[first].kind = "line" /\ index < Len(items)
  /\ LET next == items[index + 1]
     IN  /\ next.kind = "line" /\ IsSpanRewritable(next)
         /\ next.column = items[first].column
         /\ SpanOpener(next) = SpanOpener(items[first])
         /\ IsLineBreakBetween(RunEnd, next.start)

\* The line ending a block is refilled with, of its first newline or of the line its
\* first span ends.
HasCrlfNewlines(span) ==
  \/ \E n \in span.start + 1 .. span.end - 1 :
       /\ source[n] = "nl" /\ source[n - 1] = "cr"
       /\ \A m \in span.start .. n - 1 : source[m] # "nl"
  \/ span.end + 1 <= Len(source) /\ source[span.end] = "cr" /\ source[span.end + 1] = "nl"

\* has_alphanumeric_payload: a banner keeps its bytes.
HasPayload(start, end) == \E n \in start .. end - 1 : source[n] = "x"

-----------------------------------------------------------------------------
GroupInit == Init /\ index = 1 /\ first = 0 /\ grouped = <<>>

Lexes == Next /\ UNCHANGED groupVars

SkipSpan ==
  /\ done /\ first = 0 /\ index <= Len(items) /\ ~ IsSpanRewritable(items[index])
  /\ index' = index + 1
  /\ UNCHANGED <<vars, first, grouped>>

OpenBlock ==
  /\ done /\ first = 0 /\ index <= Len(items) /\ IsSpanRewritable(items[index])
  /\ first' = index
  /\ UNCHANGED <<vars, index, grouped>>

ExtendRun ==
  /\ done /\ first # 0 /\ IsLineRunContinuation
  /\ index' = index + 1
  /\ UNCHANGED <<vars, first, grouped>>

CloseBlock ==
  /\ done /\ first # 0 /\ ~ IsLineRunContinuation
  /\ LET block == [start |-> items[first].start, end |-> items[index].end,
                   opener |-> SpanOpener(items[first]), column |-> items[first].column,
                   crlf |-> HasCrlfNewlines(items[first])]
     IN  grouped' = IF HasPayload(block.start, block.end) THEN Append(grouped, block) ELSE grouped
  /\ first' = 0 /\ index' = index + 1
  /\ UNCHANGED vars

GroupNext == Lexes \/ SkipSpan \/ OpenBlock \/ ExtendRun \/ CloseBlock
=============================================================================
