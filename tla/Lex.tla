-------------------------------- MODULE Lex --------------------------------
(***************************************************************************)
(* scan_spans of lex.c: the byte automaton that finds the comments of a C  *)
(* source, their columns, and whether code stands before them. A byte is   *)
(* one of the classes the automaton tells apart, positions count from 1    *)
(* and a span is the bytes start..end - 1.                                 *)
(*                                                                         *)
(* A definition X_Fault is X with a fault in it, which no formula uses.    *)
(***************************************************************************)
EXTENDS Naturals, Sequences, FiniteSets

CONSTANT Source   \* The sources to scan

Byte == {"sl", "st", "bsl", "dq", "sq", "nl", "cr", "sp", "tab", "ctl", "bang", "x"}

ASSUME LexAssumption == Source \subseteq Seq(Byte)

VARIABLES
  source,
  i,           \* The position of the next byte
  state,       \* enum LexState
  column,      \* Display column of the next byte
  hasCode,     \* has_line_code
  comment,     \* comment_start, comment_column, is_comment_trailing, comment_kind
  items,       \* The spans recorded so far
  done

vars == <<source, i, state, column, hasCode, comment, items, done>>

LexState ==
  {"code", "slash", "line", "line_bsl", "block", "star", "string", "string_esc",
   "char", "char_esc", "code_bsl"}

NoComment == [kind |-> "line", start |-> 1, column |-> 0, trailing |-> FALSE]

Init ==
  /\ source \in Source
  /\ i = 1 /\ state = "code" /\ column = 0 /\ hasCode = FALSE
  /\ comment = NoComment /\ items = <<>> /\ done = FALSE

c == source[i]

White == {"sp", "tab", "cr", "nl"}

\* lex_advance_column: a tab goes to the next multiple of 8 and controls take none.
AdvanceColumn(col, b) ==
  CASE b = "tab" -> col + 8 - (col % 8)
    [] b \in {"cr", "nl", "ctl"} -> col
    [] OTHER -> col + 1

ColumnAfter_NoReset == AdvanceColumn(column, c)
ColumnAfter == IF c = "nl" THEN 0 ELSE AdvanceColumn(column, c)

\* Every byte moves on, and the newline starts the columns again in every state.
Advance ==
  /\ ~done /\ i <= Len(source)
  /\ i' = i + 1
  /\ column' = ColumnAfter
  /\ UNCHANGED <<source, done>>

To(s) == state' = s
NewLine == To("code") /\ hasCode' = FALSE

\* A CR belongs to the splice only when an LF follows it.
IsSpliceCr == c = "cr" /\ i < Len(source) /\ source[i + 1] = "nl"

\* consume_line_splice
Splice(after) == \/ IsSpliceCr /\ UNCHANGED state
                 \/ c = "nl" /\ To(after)
IsSplice == IsSpliceCr \/ c = "nl"

-----------------------------------------------------------------------------

Code ==
  /\ state = "code"
  /\ \/ c = "nl" /\ NewLine
     \/ c # "nl" /\ To(CASE c = "bsl" -> "code_bsl" [] c = "sq" -> "char"
                         [] c = "sl" -> "slash" [] c = "dq" -> "string" [] OTHER -> "code")
        /\ hasCode' = (hasCode \/ c \notin White \cup {"bsl", "sl"})
  /\ UNCHANGED <<comment, items>>

OpenerColumn == column - 1

Opens(kind) ==
  comment' = [kind |-> kind, start |-> i - 1, column |-> OpenerColumn, trailing |-> hasCode]

Slash ==
  /\ state = "slash"
  /\ \/ c = "sl" /\ To("line") /\ Opens("line") /\ UNCHANGED hasCode
     \/ c = "st" /\ To("block") /\ Opens("block") /\ UNCHANGED hasCode
     \/ c = "nl" /\ NewLine /\ UNCHANGED comment
     \/ c \notin {"sl", "st", "nl"} /\ To("code") /\ hasCode' = TRUE /\ UNCHANGED comment
  /\ UNCHANGED items

Records(end) ==
  items' = Append(items, [kind |-> comment.kind, start |-> comment.start, end |-> end,
                          column |-> comment.column, trailing |-> comment.trailing])

\* The newline, and a CR before it, are not part of the comment.
LineEnd == IF source[i - 1] = "cr" THEN i - 1 ELSE i

LineComment ==
  /\ state = "line"
  /\ \/ c = "bsl" /\ To("line_bsl") /\ UNCHANGED <<hasCode, items>>
     \/ c = "nl" /\ Records(LineEnd) /\ NewLine
     \/ c \notin {"bsl", "nl"} /\ UNCHANGED <<state, hasCode, items>>
  /\ UNCHANGED comment

AfterLineBackslash == IF c = "bsl" THEN "line_bsl" ELSE "line"

LineCommentBackslash ==
  /\ state = "line_bsl"
  /\ Splice("line") \/ (~IsSplice /\ To(AfterLineBackslash))
  /\ UNCHANGED <<hasCode, comment, items>>

BlockComment ==
  /\ state = "block"
  /\ To(IF c = "st" THEN "star" ELSE "block")
  /\ UNCHANGED <<hasCode, comment, items>>

AfterStar == IF c = "st" THEN "star" ELSE "block"

CloserEnd == i + 1

AfterCloser_Clean == hasCode
AfterCloser == TRUE

BlockStar ==
  /\ state = "star"
  /\ \/ c = "sl" /\ Records(CloserEnd) /\ hasCode' = AfterCloser /\ To("code")
     \/ c # "sl" /\ To(AfterStar) /\ UNCHANGED <<hasCode, items>>
  /\ UNCHANGED comment

\* A literal ends at its quote, and at the end of the line.
Literal(lit, quote, escape) ==
  /\ state = lit
  /\ \/ c = "bsl" /\ To(escape) /\ UNCHANGED hasCode
     \/ c = quote /\ To("code") /\ UNCHANGED hasCode
     \/ c = "nl" /\ NewLine
     \/ c \notin {"bsl", quote, "nl"} /\ UNCHANGED <<state, hasCode>>
  /\ UNCHANGED <<comment, items>>

LiteralEscape(escape, lit) ==
  /\ state = escape
  /\ Splice(lit) \/ (~IsSplice /\ To(lit))
  /\ UNCHANGED <<hasCode, comment, items>>

CodeBackslash ==
  /\ state = "code_bsl"
  /\ \/ Splice("code") /\ UNCHANGED hasCode
     \/ ~IsSplice /\ To("code") /\ hasCode' = TRUE
  /\ UNCHANGED <<comment, items>>

Scan ==
  /\ Advance
  /\ \/ Code \/ Slash \/ LineComment \/ LineCommentBackslash
     \/ BlockComment \/ BlockStar \/ CodeBackslash
     \/ Literal("string", "dq", "string_esc") \/ LiteralEscape("string_esc", "string")
     \/ Literal("char", "sq", "char_esc") \/ LiteralEscape("char_esc", "char")

InLineComment_NoSplice == state = "line"
InLineComment == state \in {"line", "line_bsl"}

\* The end of the source closes a line comment, and drops an open block comment.
EndOfSource ==
  /\ ~done /\ i = Len(source) + 1
  /\ done' = TRUE
  /\ IF InLineComment THEN Records(i) ELSE UNCHANGED items
  /\ UNCHANGED <<source, i, state, column, hasCode, comment>>

Next == Scan \/ EndOfSource

Spec == Init /\ [][Next]_vars

-----------------------------------------------------------------------------
(* Properties *)

Kind == {"line", "block"}

TypeOK ==
  /\ source \in Seq(Byte)
  /\ i \in 1..(Len(source) + 1) /\ column \in Nat
  /\ state \in LexState
  /\ hasCode \in BOOLEAN /\ done \in BOOLEAN
  /\ comment \in [kind : Kind, start : Nat, column : Nat, trailing : BOOLEAN]
  /\ items \in Seq([kind : Kind, start : Nat, end : Nat, column : Nat, trailing : BOOLEAN])

\* The spans are in source order, within the source, and never share a byte, which
\* is what lets the rewrite copy the bytes between them.
SpansInOrder ==
  /\ \A k \in 1..Len(items) :
       1 <= items[k].start /\ items[k].start < items[k].end /\ items[k].end <= i
  /\ \A j, k \in 1..Len(items) : j < k => items[j].end <= items[k].start

IsNl(k) == source[k] = "nl"

\* The newline that the backslash at k splices its line with, or 0.
SpliceEnd(k) ==
  CASE source[k] = "bsl" /\ k + 1 <= Len(source) /\ IsNl(k + 1) -> k + 1
    [] source[k] = "bsl" /\ k + 2 <= Len(source) /\ source[k + 1] = "cr" /\ IsNl(k + 2) -> k + 2
    [] OTHER -> 0
SplicesAt(k) == SpliceEnd(k) # 0

\* The newline at k ends a line of source as the compiler sees it.
EndsLine(k) == IsNl(k) /\ \A b \in {k - 1, k - 2} \cap (1..k) : SpliceEnd(b) # k

\* Display columns from the start of the physical line.
ColumnAt[k \in 1..Len(source)] ==
  IF k = 1 \/ IsNl(k - 1) THEN 0 ELSE AdvanceColumn(ColumnAt[k - 1], source[k - 1])

\* Slashes and backslashes the automaton does not read as the compiler does: a
\* backslash after a slash or another backslash, which splices a line.
HasOddSplice ==
  \E k \in 2..Len(source) : SplicesAt(k) /\ source[k - 1] \in {"sl", "bsl", "st"}

\* The logical line of the byte at s has something other than white space and
\* splices before it.
HasCodeBefore(s) ==
  \E n \in 1..(s - 1) :
    /\ source[n] \notin White /\ ~SplicesAt(n)
    /\ ~\E m \in n..(s - 1) : EndsLine(m)

\* A comment has the column of its opener, and is trailing exactly when code stands
\* before it, whatever states its line began in.
SpansSayWhereTheyStand ==
  \A k \in 1..Len(items) : LET span == items[k] IN
    /\ span.column = ColumnAt[span.start]
    /\ ~HasOddSplice => (span.trailing <=> HasCodeBefore(span.start))

\* Only white space stands between the start of the physical line and p.
BlankBefore(p) ==
  \A n \in 1..(p - 1) : source[n] \notin White => \E m \in (n + 1)..(p - 1) : IsNl(m)

\* What stands before a comment that is not trailing is white space: the rewrite
\* repeats those bytes at the start of each line of the block, and would repeat code.
IndentIsBlank == \A k \in 1..Len(items) : ~items[k].trailing => BlankBefore(items[k].start)
=============================================================================
