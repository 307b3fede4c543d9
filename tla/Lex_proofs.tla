----------------------------- MODULE Lex_proofs -----------------------------
(***************************************************************************)
(* For sources of any length: the spans of the scan are in source order,   *)
(* within the source, and never overlap; they say their column and what    *)
(* stands before them; a rewrite accounts for every byte, and refills the  *)
(* longest runs of comments that do not fit; and what the scan finds are   *)
(* the comments of C.                                                      *)
(***************************************************************************)
EXTENDS MCLex, SequenceTheorems, FiniteSetTheorems, WellFoundedInduction, TLAPS

Comment == [kind : Kind, start : Nat, column : Nat, trailing : BOOLEAN]
Item == [kind : Kind, start : Nat, end : Nat, column : Nat, trailing : BOOLEAN]

EndsBy(n) == \A k \in 1..Len(items) : items[k].end <= n

InComment == {"line", "line_bsl", "block", "star"}

\* Behind a slash there is a byte that no span has, and an open comment begins
\* after the last span and at least two bytes back.
OpenInv == ~done =>
  /\ state = "slash" => i >= 2 /\ column >= 1 /\ EndsBy(i - 1)
  /\ state \in InComment =>
       /\ 1 <= comment.start /\ comment.start + 2 <= i
       /\ EndsBy(comment.start)

IInv == TypeOK /\ SpansInOrder /\ OpenInv

LEMMA AdvanceColumnBounds ==
  ASSUME NEW col \in Nat, NEW b
  PROVE  AdvanceColumn(col, b) \in Nat /\ (b = "sl" => AdvanceColumn(col, b) = col + 1)
<1>1. col % 8 \in 0..7 OBVIOUS
<1>2. CASE b = "tab" BY <1>1, <1>2 DEF AdvanceColumn
<1>3. CASE b \in {"cr", "nl", "ctl"} BY <1>3 DEF AdvanceColumn
<1>4. CASE b \notin {"tab", "cr", "nl", "ctl"} BY <1>4 DEF AdvanceColumn
<1> QED BY <1>2, <1>3, <1>4

\* A span appended after the others, and up to what was read, keeps the order.
LEMMA RecordsKeepsOrder ==
  ASSUME IInv, NEW end \in Nat, NEW limit \in Nat,
         Records(end), i <= limit, i' = limit, comment.start < end, end <= limit,
         1 <= comment.start, EndsBy(comment.start)
  PROVE  SpansInOrder' /\ items' \in Seq(Item) /\ EndsBy(limit)'
<1>0. items \in Seq(Item) /\ comment \in Comment /\ i \in Nat
  BY DEF IInv, TypeOK, Item, Comment
<1> DEFINE e == [kind |-> comment.kind, start |-> comment.start, end |-> end,
                 column |-> comment.column, trailing |-> comment.trailing]
<1>1. e \in Item BY <1>0 DEF Item, Comment
<1>2. items' = Append(items, e) BY DEF Records
<1>3. /\ items' \in Seq(Item) /\ Len(items) \in Nat /\ Len(items') = Len(items) + 1
      /\ \A k \in 1..Len(items) : items'[k] = items[k]
      /\ items'[Len(items) + 1] = e
  BY <1>0, <1>1, <1>2, AppendProperties
<1>4. e.start = comment.start /\ e.end = end BY <1>1
<1> HIDE DEF e
<1>5. \A k \in 1..Len(items) : items[k] \in Item BY <1>0, ElementOfSeq
<1>6. \A k \in 1..Len(items) : items[k].start \in Nat /\ items[k].end \in Nat
  BY <1>5 DEF Item
<1>7. comment.start \in Nat BY <1>0 DEF Comment
<1>8. \A k \in 1..Len(items) :
        /\ 1 <= items[k].start /\ items[k].start < items[k].end
        /\ items[k].end <= comment.start
  BY DEF IInv, SpansInOrder, EndsBy
<1>9. \A k \in 1..Len(items') :
        /\ 1 <= items'[k].start /\ items'[k].start < items'[k].end
        /\ items'[k].end <= limit
  <2> SUFFICES ASSUME NEW k \in 1..Len(items')
               PROVE  /\ 1 <= items'[k].start /\ items'[k].start < items'[k].end
                      /\ items'[k].end <= limit
    OBVIOUS
  <2>1. CASE k \in 1..Len(items) BY <1>3, <1>6, <1>7, <1>8, <2>1
  <2>2. CASE k = Len(items) + 1 BY <1>3, <1>4, <1>7, <2>2
  <2> QED BY <1>3, <2>1, <2>2
<1>10. \A j, k \in 1..Len(items') : j < k => items'[j].end <= items'[k].start
  <2> SUFFICES ASSUME NEW j \in 1..Len(items'), NEW k \in 1..Len(items'), j < k
               PROVE  items'[j].end <= items'[k].start
    OBVIOUS
  <2>1. j \in 1..Len(items) BY <1>3
  <2>2. CASE k \in 1..Len(items)
    BY <1>3, <2>1, <2>2 DEF IInv, SpansInOrder
  <2>3. CASE k = Len(items) + 1 BY <1>3, <1>4, <1>8, <2>1, <2>3
  <2> QED BY <1>3, <2>2, <2>3
<1> QED BY <1>3, <1>9, <1>10 DEF SpansInOrder, EndsBy

\* A step that records nothing keeps the order.
LEMMA NoRecordKeepsOrder ==
  ASSUME IInv, UNCHANGED items, i' \in Nat, i' >= i
  PROVE  SpansInOrder' /\ EndsBy(i)'
<1>0. items \in Seq(Item) /\ i \in Nat BY DEF IInv, TypeOK, Item
<1>1. \A k \in 1..Len(items) : items[k] \in Item BY <1>0, ElementOfSeq
<1>2. \A k \in 1..Len(items) : items[k].end \in Nat BY <1>1 DEF Item
<1> QED BY <1>0, <1>2 DEF IInv, SpansInOrder, EndsBy

-----------------------------------------------------------------------------
(* The steps *)

LEMMA InitInv == Init => IInv
<1> SUFFICES ASSUME Init PROVE IInv OBVIOUS
<1>1. source \in Seq(Byte) BY LexAssumption DEF Init
<1>2. Len(source) \in Nat BY <1>1, LenProperties
<1>3. items = <<>> /\ Len(items) = 0 BY DEF Init
<1>4. TypeOK
  <2>1. items \in Seq([kind : Kind, start : Nat, end : Nat, column : Nat, trailing : BOOLEAN])
    BY <1>3
  <2>2. comment \in [kind : Kind, start : Nat, column : Nat, trailing : BOOLEAN]
    BY DEF Init, NoComment, Kind
  <2>3. i \in 1..(Len(source) + 1) /\ column \in Nat
    <3>1. i = 1 /\ column = 0 BY DEF Init
    <3> QED BY <1>2, <3>1
  <2>4. state \in LexState /\ hasCode \in BOOLEAN /\ done \in BOOLEAN
    BY DEF Init, LexState
  <2> QED BY <1>1, <2>1, <2>2, <2>3, <2>4 DEF TypeOK
<1>5. SpansInOrder BY <1>3 DEF SpansInOrder
<1> QED BY <1>4, <1>5 DEF IInv, OpenInv, InComment, Init

\* What every byte does.
LEMMA AdvanceFacts ==
  ASSUME IInv, Advance
  PROVE  /\ i \in Nat /\ i >= 1 /\ i' = i + 1 /\ i' \in 1..(Len(source) + 1)
         /\ source' = source /\ ~done /\ done' = done
         /\ column \in Nat /\ column' \in Nat /\ (c = "sl" => column' >= 1)
<1>1. source \in Seq(Byte) /\ column \in Nat /\ i \in 1..(Len(source) + 1)
  BY DEF IInv, TypeOK
<1>2. Len(source) \in Nat BY <1>1, LenProperties
<1>3. AdvanceColumn(column, c) \in Nat /\ (c = "sl" => AdvanceColumn(column, c) = column + 1)
  BY <1>1, AdvanceColumnBounds
<1>4. column' \in Nat /\ (c = "sl" => column' >= 1)
  BY <1>1, <1>3 DEF Advance, ColumnAfter
<1> QED BY <1>1, <1>2, <1>4 DEF Advance

\* A step that leaves the spans and the comment alone, and stays in the comment or
\* out of any, keeps the invariant.
LEMMA QuietStep ==
  ASSUME IInv, Advance, UNCHANGED <<comment, items>>,
         state' \in LexState, hasCode' \in BOOLEAN,
         state' = "slash" => c = "sl",
         state' \in InComment => state \in InComment
  PROVE  IInv'
<1>1. /\ i \in Nat /\ i >= 1 /\ i' = i + 1 /\ i' \in 1..(Len(source) + 1)
      /\ source' = source /\ ~done /\ done' = done
      /\ column' \in Nat /\ (c = "sl" => column' >= 1)
  BY AdvanceFacts
<1>2. SpansInOrder' /\ EndsBy(i)' BY <1>1, NoRecordKeepsOrder
<1>3. TypeOK' BY <1>1 DEF IInv, TypeOK
<1>4. EndsBy(i) BY DEF IInv, SpansInOrder, EndsBy
<1>5. (state' = "slash") => i' >= 2 /\ column' >= 1 /\ EndsBy(i - 1)'
  <2>1. (EndsBy(i - 1))' <=> \A k \in 1..Len(items) : items[k].end <= i + 1 - 1
    BY <1>1 DEF EndsBy
  <2>2. i + 1 - 1 = i BY <1>1
  <2> QED BY <1>1, <1>4, <2>1, <2>2 DEF EndsBy
<1>6. state' \in InComment =>
        1 <= comment'.start /\ comment'.start + 2 <= i' /\ EndsBy(comment.start)'
  <2>1. comment.start \in Nat BY DEF IInv, TypeOK
  <2> QED BY <1>1, <2>1 DEF IInv, OpenInv, EndsBy
<1> QED BY <1>2, <1>3, <1>5, <1>6 DEF IInv, OpenInv

LEMMA SlashStep == ASSUME IInv, Advance, Slash PROVE IInv'
<1>1. /\ i \in Nat /\ i >= 1 /\ i' = i + 1 /\ i' \in 1..(Len(source) + 1)
      /\ source' = source /\ ~done /\ done' = done /\ column \in Nat /\ column' \in Nat
  BY AdvanceFacts
<1>2. ASSUME NEW kind \in Kind, NEW s \in {"line", "block"},
             Opens(kind), To(s), UNCHANGED <<hasCode, items>>
      PROVE  IInv'
  <2>1. i >= 2 /\ column >= 1 /\ EndsBy(i - 1) BY <1>1 DEF Slash, IInv, OpenInv
  <2>2. /\ comment'.start = i - 1
        /\ comment' \in [kind : Kind, start : Nat, column : Nat, trailing : BOOLEAN]
    BY <1>1, <1>2, <2>1 DEF Opens, OpenerColumn, IInv, TypeOK
  <2>3. TypeOK' BY <1>1, <1>2, <2>2 DEF IInv, TypeOK, To, LexState
  <2>4. SpansInOrder' BY <1>1, <1>2, NoRecordKeepsOrder
  <2>5. OpenInv'
    BY <1>1, <1>2, <2>1, <2>2 DEF OpenInv, To, InComment, EndsBy
  <2> QED BY <2>3, <2>4, <2>5 DEF IInv
<1>3. CASE c = "sl" /\ To("line") /\ Opens("line") /\ UNCHANGED hasCode
  BY <1>2, <1>3 DEF Slash, Kind
<1>4. CASE c = "st" /\ To("block") /\ Opens("block") /\ UNCHANGED hasCode
  BY <1>2, <1>4 DEF Slash, Kind
<1>5. CASE c = "nl" /\ NewLine /\ UNCHANGED comment
  BY <1>5, QuietStep DEF Slash, NewLine, To, LexState, InComment
<1>6. CASE c \notin {"sl", "st", "nl"} /\ To("code") /\ hasCode' = TRUE /\ UNCHANGED comment
  BY <1>6, QuietStep DEF Slash, To, LexState, InComment
<1> QED BY <1>3, <1>4, <1>5, <1>6 DEF Slash

\* A recorded comment ends the comment.
LEMMA RecordStep ==
  ASSUME IInv, NEW end \in Nat, Records(end), state \in InComment,
         comment.start < end, i' \in 1..(Len(source) + 1), end <= i', i <= i',
         source' = source, column' \in Nat, done' \in BOOLEAN, hasCode' \in BOOLEAN,
         UNCHANGED comment, state' \in LexState, ~done
  PROVE  TypeOK' /\ SpansInOrder'
<1>1. 1 <= comment.start /\ EndsBy(comment.start) BY DEF IInv, OpenInv
<1>2. source \in Seq(Byte) BY DEF IInv, TypeOK
<1>3. i' \in Nat BY <1>2, LenProperties
<1>4. SpansInOrder' /\ items' \in Seq(Item) BY <1>1, <1>3, RecordsKeepsOrder
<1> QED BY <1>4 DEF IInv, TypeOK, Item

LEMMA LineCommentStep == ASSUME IInv, Advance, LineComment PROVE IInv'
<1>1. /\ i \in Nat /\ i >= 1 /\ i' = i + 1 /\ i' \in 1..(Len(source) + 1)
      /\ source' = source /\ ~done /\ done' = done /\ column' \in Nat
  BY AdvanceFacts
<1>2. CASE c = "nl" /\ Records(LineEnd) /\ NewLine
  <2>1. comment.start \in Nat /\ comment.start + 2 <= i
    BY <1>1 DEF LineComment, IInv, TypeOK, OpenInv, InComment
  <2>2. LineEnd \in Nat /\ comment.start < LineEnd /\ LineEnd <= i'
    BY <1>1, <2>1 DEF LineEnd
  <2>3. /\ state \in InComment /\ state' = "code" /\ hasCode' = FALSE
        /\ comment' = comment /\ done' \in BOOLEAN
    BY <1>1, <1>2 DEF LineComment, NewLine, To, InComment, IInv, TypeOK
  <2>4. i <= i' /\ state' \in LexState /\ hasCode' \in BOOLEAN
    <3>1. i <= i' BY <1>1
    <3>2. state' \in LexState BY <2>3 DEF LexState
    <3>3. hasCode' \in BOOLEAN BY <2>3
    <3> QED BY <3>1, <3>2, <3>3
  <2>5. TypeOK' /\ SpansInOrder'
    BY <1>1, <1>2, <2>2, <2>3, <2>4, RecordStep
  <2> QED BY <2>3, <2>5 DEF IInv, OpenInv, InComment
<1>3. CASE c = "bsl" /\ To("line_bsl") /\ UNCHANGED <<hasCode, items>>
  BY <1>3, QuietStep DEF LineComment, To, LexState, InComment, IInv, TypeOK
<1>4. CASE c \notin {"bsl", "nl"} /\ UNCHANGED <<state, hasCode, items>>
  BY <1>4, QuietStep DEF LineComment, LexState, InComment, IInv, TypeOK
<1> QED BY <1>2, <1>3, <1>4 DEF LineComment

LEMMA BlockStarStep == ASSUME IInv, Advance, BlockStar PROVE IInv'
<1>1. /\ i \in Nat /\ i >= 1 /\ i' = i + 1 /\ i' \in 1..(Len(source) + 1)
      /\ source' = source /\ ~done /\ done' = done /\ column' \in Nat
  BY AdvanceFacts
<1>2. CASE c = "sl" /\ Records(CloserEnd) /\ hasCode' = AfterCloser /\ To("code")
  <2>1. comment.start \in Nat /\ comment.start + 2 <= i
    BY <1>1 DEF BlockStar, IInv, TypeOK, OpenInv, InComment
  <2>2. CloserEnd \in Nat /\ comment.start < CloserEnd /\ CloserEnd <= i'
    BY <1>1, <2>1 DEF CloserEnd
  <2>3. /\ state \in InComment /\ state' = "code" /\ hasCode' = TRUE
        /\ comment' = comment /\ done' \in BOOLEAN
    BY <1>1, <1>2 DEF BlockStar, To, AfterCloser, InComment, IInv, TypeOK
  <2>4. i <= i' /\ state' \in LexState /\ hasCode' \in BOOLEAN
    <3>1. i <= i' BY <1>1
    <3>2. state' \in LexState BY <2>3 DEF LexState
    <3>3. hasCode' \in BOOLEAN BY <2>3
    <3> QED BY <3>1, <3>2, <3>3
  <2>5. TypeOK' /\ SpansInOrder'
    BY <1>1, <1>2, <2>2, <2>3, <2>4, RecordStep
  <2> QED BY <2>3, <2>5 DEF IInv, OpenInv, InComment
<1>3. CASE c # "sl" /\ To(AfterStar) /\ UNCHANGED <<hasCode, items>>
  BY <1>3, QuietStep DEF BlockStar, To, AfterStar, LexState, InComment, IInv, TypeOK
<1> QED BY <1>2, <1>3 DEF BlockStar

LEMMA EndOfSourceStep == ASSUME IInv, EndOfSource PROVE IInv'
<1>1. /\ i \in Nat /\ i \in 1..(Len(source) + 1) /\ column \in Nat /\ hasCode \in BOOLEAN
      /\ state \in LexState
  BY LenProperties DEF IInv, TypeOK
<1>2. /\ done' = TRUE /\ UNCHANGED <<source, i, state, column, hasCode, comment>>
  BY DEF EndOfSource
<1>3. CASE InLineComment /\ Records(i)
  <2>1. /\ state \in InComment /\ comment.start \in Nat /\ comment.start < i
        /\ 1 <= comment.start /\ EndsBy(comment.start)
    BY <1>1, <1>3 DEF EndOfSource, InLineComment, InComment, IInv, TypeOK, OpenInv
  <2>2. TypeOK' /\ SpansInOrder'
    BY <1>1, <1>2, <1>3, <2>1, RecordStep DEF EndOfSource
  <2> QED BY <1>2, <2>2 DEF IInv, OpenInv
<1>4. CASE ~InLineComment /\ UNCHANGED items
  BY <1>2, <1>4 DEF IInv, TypeOK, SpansInOrder, OpenInv, EndsBy
<1> QED BY <1>3, <1>4 DEF EndOfSource

LEMMA ScanStep == ASSUME IInv, Scan PROVE IInv'
<1>1. Advance BY DEF Scan
<1>2. state \in LexState /\ hasCode \in BOOLEAN BY DEF IInv, TypeOK
<1>3. CASE Code
  <2>1. CASE c = "nl" /\ NewLine
    BY <1>1, <1>3, <2>1, QuietStep DEF Code, NewLine, To, LexState, InComment
  <2>2. CASE c # "nl"
    <3>1. state' \in {"code", "code_bsl", "char", "string"} \/ (state' = "slash" /\ c = "sl")
      BY <1>3, <2>2 DEF Code, To
    <3>2. hasCode' \in BOOLEAN BY <1>2, <1>3, <2>2 DEF Code
    <3> QED BY <1>1, <1>3, <3>1, <3>2, QuietStep DEF Code, LexState, InComment
  <2> QED BY <1>3, <2>1, <2>2 DEF Code
<1>4. CASE LineCommentBackslash
  <2>1. state' \in {"line", "line_bsl"} /\ state \in InComment
    BY <1>4 DEF LineCommentBackslash, Splice, AfterLineBackslash, To, InComment
  <2> QED
    BY <1>1, <1>2, <1>4, <2>1, QuietStep DEF LineCommentBackslash, LexState, InComment
<1>5. CASE BlockComment
  <2>1. state' \in {"star", "block"} /\ state \in InComment
    BY <1>5 DEF BlockComment, To, InComment
  <2> QED BY <1>1, <1>2, <1>5, <2>1, QuietStep DEF BlockComment, LexState, InComment
<1>6. CASE CodeBackslash
  <2>1. state' \in {"code", "code_bsl"} /\ hasCode' \in BOOLEAN
    BY <1>2, <1>6 DEF CodeBackslash, Splice, To
  <2> QED BY <1>1, <1>6, <2>1, QuietStep DEF CodeBackslash, LexState, InComment
<1>7. ASSUME NEW lit \in {"string", "char"}, NEW quote, NEW esc \in {"string_esc", "char_esc"},
             Literal(lit, quote, esc) \/ LiteralEscape(esc, lit)
      PROVE  IInv'
  <2>1. state' \in {"code", lit, esc} /\ hasCode' \in BOOLEAN /\ UNCHANGED <<comment, items>>
    BY <1>2, <1>7 DEF Literal, LiteralEscape, Splice, NewLine, To
  <2> QED BY <1>1, <2>1, QuietStep DEF LexState, InComment
<1>8. CASE Literal("string", "dq", "string_esc") \/ LiteralEscape("string_esc", "string")
  BY <1>7, <1>8
<1>9. CASE Literal("char", "sq", "char_esc") \/ LiteralEscape("char_esc", "char")
  BY <1>7, <1>9
<1> QED
  BY <1>1, <1>3, <1>4, <1>5, <1>6, <1>8, <1>9, SlashStep, LineCommentStep, BlockStarStep
     DEF Scan

\* A step of the scan keeps the invariant.
LEMMA NextInv == IInv /\ [Next]_vars => IInv'
<1> SUFFICES ASSUME IInv, [Next]_vars PROVE IInv' OBVIOUS
<1>1. CASE UNCHANGED vars
  BY <1>1 DEF vars, IInv, TypeOK, SpansInOrder, OpenInv, EndsBy
<1> QED BY <1>1, ScanStep, EndOfSourceStep DEF Next

\* The invariant holds in every reachable state.
THEOREM Invariance == Spec => []IInv
BY InitInv, NextInv, PTL DEF Spec

\* The state of the scan is well typed, and no column is negative.
THEOREM TypeCorrect == Spec => []TypeOK
<1>1. IInv => TypeOK BY DEF IInv
<1> QED BY <1>1, Invariance, PTL

\* The spans of any source are in order, in bounds and disjoint.
THEOREM SpansInOrderHolds == Spec => []SpansInOrder
<1>1. IInv => SpansInOrder BY DEF IInv
<1> QED BY <1>1, Invariance, PTL

-----------------------------------------------------------------------------
(* What stands before a comment that is not trailing.                      *)

Literals == {"string", "string_esc", "char", "char_esc"}

\* While no code was seen on the line, all of it up to the next byte is white, and
\* an open comment remembers whether that was so where it began.
BlankInv ==
  /\ state = "code" => hasCode \/ BlankBefore(i)
  /\ state = "slash" => hasCode \/ BlankBefore(i - 1)
  /\ state \in Literals => hasCode
  /\ state \in InComment => comment.trailing \/ BlankBefore(comment.start)
  /\ IndentIsBlank

LEMMA BlankAfterNewline ==
  ASSUME i \in Nat, c = "nl"
  PROVE  BlankBefore(i + 1)
<1> SUFFICES ASSUME NEW n \in 1..((i + 1) - 1), source[n] \notin White
             PROVE  \E m \in (n + 1)..((i + 1) - 1) : IsNl(m)
  BY DEF BlankBefore
<1>1. n # i BY DEF c, White
<1>2. i \in (n + 1)..((i + 1) - 1) BY <1>1
<1> QED BY <1>2 DEF c, IsNl

LEMMA BlankGrows ==
  ASSUME i \in Nat, BlankBefore(i), c \in White
  PROVE  BlankBefore(i + 1)
<1> SUFFICES ASSUME NEW n \in 1..((i + 1) - 1), source[n] \notin White
             PROVE  \E m \in (n + 1)..((i + 1) - 1) : IsNl(m)
  BY DEF BlankBefore
<1>1. n # i BY DEF c
<1>2. n \in 1..(i - 1) BY <1>1
<1>3. PICK m \in (n + 1)..(i - 1) : IsNl(m) BY <1>2 DEF BlankBefore
<1>4. m \in (n + 1)..((i + 1) - 1) BY <1>3
<1> QED BY <1>3, <1>4

\* A step does not change the source.
LEMMA BlankStays ==
  ASSUME source' = source
  PROVE  /\ \A p : BlankBefore(p) => BlankBefore(p)'
         /\ \A n : BlankBefore(n) /\ i' = n => BlankBefore(i)'
         /\ \A n : BlankBefore(n) /\ i' - 1 = n => BlankBefore(i - 1)'
         /\ \A n : BlankBefore(n) /\ comment'.start = n => BlankBefore(comment.start)'
BY DEF BlankBefore, IsNl

LEMMA QuietIndents ==
  ASSUME IndentIsBlank, UNCHANGED <<source, items>>
  PROVE  IndentIsBlank'
BY DEF IndentIsBlank, BlankBefore, IsNl

LEMMA RecordedIndents ==
  ASSUME IInv, IndentIsBlank, source' = source, NEW end \in Nat, Records(end),
         comment.trailing \/ BlankBefore(comment.start)
  PROVE  IndentIsBlank'
<1> DEFINE e == [kind |-> comment.kind, start |-> comment.start, end |-> end,
                 column |-> comment.column, trailing |-> comment.trailing]
<1>1. items \in Seq(Item) /\ comment \in Comment BY DEF IInv, TypeOK, Item, Comment
<1>2. e \in Item BY <1>1 DEF Item, Comment
<1>3. items' = Append(items, e) BY DEF Records
<1>4. /\ Len(items) \in Nat /\ Len(items') = Len(items) + 1
      /\ \A k \in 1..Len(items) : items'[k] = items[k]
      /\ items'[Len(items) + 1] = e
  BY <1>1, <1>2, <1>3, AppendProperties
<1>5. e.start = comment.start /\ e.trailing = comment.trailing OBVIOUS
<1> HIDE DEF e
<1>6. ASSUME NEW k \in 1..Len(items'), ~items'[k].trailing
      PROVE  BlankBefore(items'[k].start)
  <2>1. CASE k \in 1..Len(items) BY <1>4, <1>6, <2>1 DEF IndentIsBlank
  <2>2. CASE k = Len(items) + 1 BY <1>4, <1>5, <1>6, <2>2
  <2> QED BY <1>4, <2>1, <2>2
<1> QED BY <1>6 DEF IndentIsBlank, BlankBefore, IsNl

\* A step that ends in code after a newline, or with code before it.
LEMMA CodeStep ==
  ASSUME i \in Nat, i' = i + 1, source' = source, state' = "code",
         c = "nl" \/ hasCode' = TRUE \/ (BlankBefore(i) /\ c \in White),
         IndentIsBlank'
  PROVE  BlankInv'
<1>1. CASE hasCode' = TRUE BY <1>1 DEF BlankInv, Literals, InComment
<1>2. CASE c = "nl" \/ (BlankBefore(i) /\ c \in White)
  <2>1. BlankBefore(i + 1) BY <1>2, BlankAfterNewline, BlankGrows
  <2>2. BlankBefore(i)' BY <2>1, BlankStays
  <2> QED BY <2>2 DEF BlankInv, Literals, InComment
<1> QED BY <1>1, <1>2

\* A step within a comment, or within a literal.
LEMMA InsideStep ==
  ASSUME BlankInv, source' = source, UNCHANGED <<hasCode, comment, items>>,
         \/ state \in InComment /\ state' \in InComment
         \/ state \in Literals /\ state' \in Literals
  PROVE  BlankInv'
<1>1. IndentIsBlank' BY QuietIndents DEF BlankInv
<1>2. CASE state \in InComment /\ state' \in InComment
  <2>1. comment.trailing \/ BlankBefore(comment.start) BY <1>2 DEF BlankInv
  <2>2. comment'.trailing \/ BlankBefore(comment.start)' BY <2>1, BlankStays
  <2> QED BY <1>1, <1>2, <2>2 DEF BlankInv, Literals, InComment
<1>3. CASE state \in Literals /\ state' \in Literals
  BY <1>1, <1>3 DEF BlankInv, Literals, InComment
<1> QED BY <1>2, <1>3

LEMMA BlankScan ==
  ASSUME IInv, BlankInv, Scan
  PROVE  BlankInv'
<1>1. i \in Nat /\ i' = i + 1 /\ source' = source /\ ~done BY AdvanceFacts DEF Scan
<1>2. state \in LexState /\ hasCode \in BOOLEAN /\ comment \in Comment
  BY DEF IInv, TypeOK, Comment
<1>3. UNCHANGED items => IndentIsBlank' BY <1>1, QuietIndents DEF BlankInv
<1>4. CASE Code
  <2>1. IndentIsBlank' BY <1>3, <1>4 DEF Code
  <2>2. hasCode \/ BlankBefore(i) BY <1>4 DEF Code, BlankInv
  <2>3. CASE c = "nl" BY <1>1, <1>4, <2>1, <2>3, CodeStep DEF Code, NewLine, To
  <2>4. CASE c = "sl"
    <3>1. state' = "slash" /\ hasCode' = (hasCode \/ FALSE)
      BY <1>2, <1>4, <2>4 DEF Code, To, White
    <3>2. i' - 1 = i BY <1>1
    <3>3. hasCode' \/ BlankBefore(i - 1)' BY <1>1, <2>2, <3>1, <3>2, BlankStays
    <3> QED BY <2>1, <3>1, <3>3 DEF BlankInv, Literals, InComment
  <2>5. CASE c = "bsl"
    <3>1. state' = "code_bsl" BY <1>4, <2>5 DEF Code, To
    <3> QED BY <2>1, <3>1 DEF BlankInv, Literals, InComment
  <2>6. CASE c \in {"dq", "sq"}
    <3>1. state' \in Literals /\ hasCode' = TRUE
      BY <1>2, <1>4, <2>6 DEF Code, To, White, Literals
    <3> QED BY <2>1, <3>1 DEF BlankInv, Literals, InComment
  <2>7. CASE c \notin {"nl", "sl", "bsl", "dq", "sq"}
    <3>1. state' = "code" /\ hasCode' = (hasCode \/ c \notin White)
      BY <1>4, <2>7 DEF Code, To
    <3>2. hasCode' = TRUE \/ (BlankBefore(i) /\ c \in White) BY <1>2, <2>2, <3>1
    <3> QED BY <1>1, <2>1, <3>1, <3>2, CodeStep
  <2> QED BY <2>3, <2>4, <2>5, <2>6, <2>7
<1>5. CASE Slash
  <2>1. IndentIsBlank' BY <1>3, <1>5 DEF Slash
  <2>2. hasCode \/ BlankBefore(i - 1) BY <1>5 DEF Slash, BlankInv
  <2>3. ASSUME NEW kind, Opens(kind), state' \in {"line", "block"}, UNCHANGED hasCode
        PROVE  BlankInv'
    <3>1. comment'.start = i - 1 /\ comment'.trailing = hasCode BY <2>3 DEF Opens
    <3>2. comment'.trailing \/ BlankBefore(comment.start)' BY <1>1, <2>2, <3>1, BlankStays
    <3> QED BY <2>1, <2>3, <3>2 DEF BlankInv, Literals, InComment
  <2>4. CASE c \in {"sl", "st"} BY <1>5, <2>3, <2>4 DEF Slash, To
  <2>5. CASE c = "nl" BY <1>1, <1>5, <2>1, <2>5, CodeStep DEF Slash, NewLine, To
  <2>6. CASE c \notin {"sl", "st", "nl"} BY <1>1, <1>5, <2>1, <2>6, CodeStep DEF Slash, To
  <2> QED BY <2>4, <2>5, <2>6
<1>6. CASE LineComment
  <2>1. CASE c = "nl"
    <3>1. comment.trailing \/ BlankBefore(comment.start)
      BY <1>6 DEF LineComment, BlankInv, InComment
    <3>2. LineEnd \in Nat
      <4>1. comment.start \in Nat /\ comment.start + 2 <= i
        BY <1>1, <1>2, <1>6 DEF LineComment, IInv, OpenInv, InComment, Comment
      <4> QED BY <1>1, <4>1 DEF LineEnd
    <3>3. Records(LineEnd) /\ state' = "code" BY <1>6, <2>1 DEF LineComment, NewLine, To
    <3>4. IndentIsBlank' BY <1>1, <3>1, <3>2, <3>3, RecordedIndents DEF BlankInv
    <3> QED BY <1>1, <2>1, <3>3, <3>4, CodeStep
  <2>2. CASE c # "nl"
    <3>1. state \in InComment /\ state' \in InComment /\ UNCHANGED <<hasCode, comment, items>>
      BY <1>6, <2>2 DEF LineComment, To, InComment
    <3> QED BY <1>1, <3>1, InsideStep
  <2> QED BY <2>1, <2>2
<1>7. CASE BlockStar
  <2>1. CASE c = "sl"
    <3>1. comment.trailing \/ BlankBefore(comment.start)
      BY <1>7 DEF BlockStar, BlankInv, InComment
    <3>2. Records(CloserEnd) /\ CloserEnd \in Nat /\ state' = "code" /\ hasCode' = TRUE
      BY <1>1, <1>7, <2>1 DEF BlockStar, CloserEnd, AfterCloser, To
    <3>3. IndentIsBlank' BY <1>1, <3>1, <3>2, RecordedIndents DEF BlankInv
    <3> QED BY <1>1, <3>2, <3>3, CodeStep
  <2>2. CASE c # "sl"
    <3>1. state \in InComment /\ state' \in InComment /\ UNCHANGED <<hasCode, comment, items>>
      BY <1>7, <2>2 DEF BlockStar, AfterStar, To, InComment
    <3> QED BY <1>1, <3>1, InsideStep
  <2> QED BY <2>1, <2>2
<1>8. CASE LineCommentBackslash \/ BlockComment
  <2>1. state \in InComment /\ state' \in InComment /\ UNCHANGED <<hasCode, comment, items>>
    BY <1>8 DEF LineCommentBackslash, BlockComment, Splice, AfterLineBackslash, To, InComment
  <2> QED BY <1>1, <2>1, InsideStep
<1>9. CASE CodeBackslash
  <2>1. IndentIsBlank' BY <1>3, <1>9 DEF CodeBackslash
  <2>2. CASE state' = "code_bsl" BY <2>1, <2>2 DEF BlankInv, Literals, InComment
  <2>3. CASE state' # "code_bsl"
    <3>1. state' = "code" /\ (c = "nl" \/ hasCode' = TRUE)
      BY <1>9, <2>3 DEF CodeBackslash, Splice, To
    <3> QED BY <1>1, <2>1, <3>1, CodeStep
  <2> QED BY <2>2, <2>3
<1>10. ASSUME NEW lit \in {"string", "char"}, NEW quote, NEW esc \in {"string_esc", "char_esc"},
              Literal(lit, quote, esc) \/ LiteralEscape(esc, lit)
       PROVE  BlankInv'
  <2>1. IndentIsBlank' BY <1>3, <1>10 DEF Literal, LiteralEscape
  <2>2. state \in Literals /\ hasCode /\ UNCHANGED <<comment, items>>
    BY <1>10 DEF Literal, LiteralEscape, BlankInv, Literals
  <2>3. CASE state' = "code"
    <3>1. c = "nl" \/ hasCode' = TRUE
      BY <1>2, <1>10, <2>2, <2>3 DEF Literal, LiteralEscape, Splice, NewLine, To
    <3> QED BY <1>1, <2>1, <2>3, <3>1, CodeStep
  <2>4. CASE state' # "code"
    <3>1. state' \in Literals /\ UNCHANGED hasCode
      BY <1>10, <2>2, <2>4 DEF Literal, LiteralEscape, Splice, NewLine, To, Literals
    <3> QED BY <1>1, <2>2, <3>1, InsideStep
  <2> QED BY <2>3, <2>4
<1>11. CASE Literal("string", "dq", "string_esc") \/ LiteralEscape("string_esc", "string")
  BY <1>10, <1>11
<1>12. CASE Literal("char", "sq", "char_esc") \/ LiteralEscape("char_esc", "char")
  BY <1>10, <1>12
<1> QED BY <1>4, <1>5, <1>6, <1>7, <1>8, <1>9, <1>11, <1>12 DEF Scan

LEMMA BlankEnd ==
  ASSUME IInv, BlankInv, EndOfSource
  PROVE  BlankInv'
<1>1. UNCHANGED <<source, i, state, column, hasCode, comment>> BY DEF EndOfSource
<1>2. i \in Nat BY LenProperties DEF IInv, TypeOK
<1>3. IndentIsBlank'
  <2>1. CASE InLineComment
    <3>1. Records(i) /\ (comment.trailing \/ BlankBefore(comment.start))
      BY <2>1 DEF EndOfSource, InLineComment, InComment, BlankInv
    <3> QED BY <1>1, <1>2, <3>1, RecordedIndents DEF BlankInv
  <2>2. CASE ~InLineComment BY <1>1, <2>2, QuietIndents DEF EndOfSource, BlankInv
  <2> QED BY <2>1, <2>2
<1> QED BY <1>1, <1>3 DEF BlankInv, BlankBefore, IsNl

LEMMA BlankHolds == Spec => []BlankInv
<1>1. Init => BlankInv
  <2> SUFFICES ASSUME Init PROVE BlankInv OBVIOUS
  <2>1. i = 1 /\ state = "code" /\ items = <<>> BY DEF Init
  <2>2. BlankBefore(i) BY <2>1 DEF BlankBefore
  <2>3. IndentIsBlank BY <2>1 DEF IndentIsBlank
  <2> QED BY <2>1, <2>2, <2>3 DEF BlankInv, Literals, InComment
<1>2. IInv /\ BlankInv /\ [Next]_vars => BlankInv'
  <2> SUFFICES ASSUME IInv, BlankInv, [Next]_vars PROVE BlankInv' OBVIOUS
  <2>1. CASE UNCHANGED vars
    BY <2>1 DEF vars, BlankInv, IndentIsBlank, BlankBefore, IsNl
  <2> QED BY <2>1, BlankScan, BlankEnd DEF Next
<1> QED BY <1>1, <1>2, Invariance, PTL DEF Spec

\* Behind any source, the bytes before a comment that is not trailing are white
\* space, so the indent that emission repeats never holds code.
THEOREM IndentIsBlankHolds == Spec => []IndentIsBlank
<1>1. BlankInv => IndentIsBlank BY DEF BlankInv
<1> QED BY <1>1, BlankHolds, PTL

-----------------------------------------------------------------------------
(* Where a comment stands: its column, and whether code is before it.      *)

\* The display column of the place p, the end of the source included.
ColumnTo(p) == IF p = 1 \/ IsNl(p - 1) THEN 0 ELSE AdvanceColumn(ColumnAt[p - 1], source[p - 1])

ColumnInv ==
  /\ column = ColumnTo(i)
  /\ state = "slash" => i >= 2 /\ source[i - 1] = "sl" /\ ColumnAt[i - 1] \in Nat
  /\ state \in InComment =>
       comment.start \in 1..Len(source) /\ comment.column = ColumnAt[comment.start]
  /\ \A k \in 1..Len(items) : items[k].column = ColumnAt[items[k].start]

\* No splice that begins in the first n bytes ends behind them.
NonePending(n) == \A b \in 1..n : SpliceEnd(b) <= n

\* The place p is behind the backslash at b, or behind the CR of the splice it begins.
IsBehind(b, p) ==
  /\ source[b] = "bsl" /\ NonePending(b - 1)
  /\ \/ b = p - 1
     \/ b = p - 2 /\ source[p - 1] = "cr" /\ p <= Len(source) /\ IsNl(p)

\* In code the scan knows whether code stands before the next byte, and behind a slash
\* or a backslash whether code stands before that; an open comment remembers it.
StandInv ==
  /\ state \in {"code", "slash", "line", "string", "char"} => NonePending(i - 1)
  /\ state \in {"line_bsl", "string_esc", "char_esc"} =>
       \E b \in 1..Len(source) : IsBehind(b, i)
  /\ state = "code_bsl" =>
       \E b \in 1..Len(source) : IsBehind(b, i) /\ (hasCode <=> HasCodeBefore(b))
  /\ state = "code" => (hasCode <=> HasCodeBefore(i))
  /\ state = "slash" => (hasCode <=> HasCodeBefore(i - 1))
  /\ state = "star" => i >= 2 /\ source[i - 1] = "st"
  /\ state \in InComment => (comment.trailing <=> HasCodeBefore(comment.start))

\* So do the comments that were recorded.
Stands(k) == items[k].trailing <=> HasCodeBefore(items[k].start)

TrailInv == ~HasOddSplice => StandInv /\ \A k \in 1..Len(items) : Stands(k)

LEMMA LeastOf ==
  ASSUME NEW S \in SUBSET Nat, S # {}
  PROVE  \E x \in S : \A y \in S : x <= y
<1>1. PICK x \in S : \A y \in S : ~(<<y, x>> \in OpToRel(<, Nat))
  BY NatLessThanWellFounded, WFMin
<1>2. ASSUME NEW y \in S PROVE x <= y
  <2>1. x \in Nat /\ y \in Nat OBVIOUS
  <2>2. ~(y < x) BY <1>1, <2>1, Zenon DEF OpToRel
  <2> QED BY <2>1, <2>2
<1> QED BY <1>2

IsColumns(f, n) ==
  f = [k \in 1..n |-> IF k = 1 \/ IsNl(k - 1) THEN 0 ELSE AdvanceColumn(f[k - 1], source[k - 1])]

LEMMA ColumnsExist == \A n \in Nat : \E f : IsColumns(f, n)
<1> DEFINE P(n) == \E f : IsColumns(f, n)
           T == {n \in Nat : ~P(n)}
<1>1. SUFFICES ASSUME T # {} PROVE FALSE OBVIOUS
<1>2. PICK n \in T : \A m \in T : n <= m BY <1>1, LeastOf
<1>3. n # 0
  <2>1. IsColumns([k \in 1..0 |-> 0], 0) BY DEF IsColumns
  <2> QED BY <1>2, <2>1
<1>4. n \in Nat /\ n - 1 \in Nat /\ ~(n <= n - 1) BY <1>2, <1>3
<1>5. PICK g : IsColumns(g, n - 1) BY <1>2, <1>4
<1> DEFINE Step(f, k) == IF k = 1 \/ IsNl(k - 1) THEN 0 ELSE AdvanceColumn(f[k - 1], source[k - 1])
           f == [k \in 1..n |-> IF k < n THEN g[k] ELSE Step(g, k)]
<1>6. ASSUME NEW k \in 1..n PROVE f[k] = Step(f, k)
  <2>1. CASE k = n
    <3>1. f[k] = Step(g, k) BY <1>4, <2>1
    <3>2. k # 1 => f[k - 1] = g[k - 1] BY <1>4, <2>1
    <3> QED BY <3>1, <3>2
  <2>2. CASE k # n
    <3>1. k \in 1..(n - 1) /\ k < n BY <1>4, <2>2
    <3>2. g[k] = Step(g, k) BY <1>5, <3>1 DEF IsColumns
    <3>3. k # 1 => f[k - 1] = g[k - 1] BY <1>4, <3>1
    <3>4. f[k] = g[k] BY <3>1
    <3> HIDE DEF f
    <3> QED BY <3>2, <3>3, <3>4
  <2> QED BY <2>1, <2>2
<1>7. f = [k \in 1..n |-> f[k]] OBVIOUS
<1> HIDE DEF f
<1>8. f = [k \in 1..n |-> Step(f, k)] BY <1>6, <1>7
<1>9. IsColumns(f, n) BY <1>8 DEF IsColumns
<1> QED BY <1>2, <1>9

\* The column of a byte follows from the byte before it.
LEMMA ColumnsFollow ==
  ASSUME source \in Seq(Byte)
  PROVE  \A p \in 1..Len(source) : ColumnAt[p] = ColumnTo(p)
<1>1. Len(source) \in Nat BY LenProperties
<1>2. \E f : IsColumns(f, Len(source)) BY <1>1, ColumnsExist
<1>3. ColumnAt = CHOOSE f : IsColumns(f, Len(source)) BY DEF ColumnAt, IsColumns
<1>4. IsColumns(ColumnAt, Len(source)) BY <1>2, <1>3
<1> QED BY <1>4 DEF IsColumns, ColumnTo

\* What is said of the source alone does not change.
LEMMA SourceKept ==
  ASSUME source' = source
  PROVE  /\ ColumnAt' = ColumnAt
         /\ \A p : ColumnTo(p)' = ColumnTo(p)
         /\ \A p : SpliceEnd(p)' = SpliceEnd(p)
         /\ \A p : HasCodeBefore(p)' <=> HasCodeBefore(p)
         /\ \A n : NonePending(n)' <=> NonePending(n)
         /\ HasOddSplice' <=> HasOddSplice
<1>1. ColumnAt' = ColumnAt BY DEF ColumnAt, IsNl
<1>2. \A p : SpliceEnd(p)' = SpliceEnd(p) BY DEF SpliceEnd, IsNl
<1>3. \A p : SplicesAt(p)' <=> SplicesAt(p) BY <1>2 DEF SplicesAt
<1>4. \A p : EndsLine(p)' <=> EndsLine(p) BY <1>2 DEF EndsLine, IsNl
<1>5. \A p : HasCodeBefore(p)' <=> HasCodeBefore(p) BY <1>3, <1>4 DEF HasCodeBefore
<1>6. \A n : NonePending(n)' <=> NonePending(n) BY <1>2 DEF NonePending
<1>7. HasOddSplice' <=> HasOddSplice BY <1>3 DEF HasOddSplice
<1>8. \A p : ColumnTo(p)' = ColumnTo(p) BY <1>1 DEF ColumnTo, IsNl
<1> QED BY <1>1, <1>2, <1>5, <1>6, <1>7, <1>8

LEMMA RecordedItem ==
  ASSUME IInv, NEW end \in Nat, Records(end)
  PROVE  /\ Len(items) \in Nat /\ Len(items') = Len(items) + 1
         /\ \A k \in 1..Len(items) : items'[k] = items[k]
         /\ items'[Len(items) + 1].start = comment.start
         /\ items'[Len(items) + 1].column = comment.column
         /\ items'[Len(items) + 1].trailing = comment.trailing
<1> DEFINE e == [kind |-> comment.kind, start |-> comment.start, end |-> end,
                 column |-> comment.column, trailing |-> comment.trailing]
<1>1. items \in Seq(Item) /\ comment \in Comment BY DEF IInv, TypeOK, Item, Comment
<1>2. e \in Item BY <1>1 DEF Item, Comment
<1>3. items' = Append(items, e) BY DEF Records
<1>4. e.start = comment.start /\ e.column = comment.column /\ e.trailing = comment.trailing
  OBVIOUS
<1> HIDE DEF e
<1> QED BY <1>1, <1>2, <1>3, <1>4, AppendProperties

\* The bytes that end a comment.
LEMMA RecordedEnds ==
  ASSUME IInv, ColumnInv, i \in Nat, state \in InComment
  PROVE  LineEnd \in Nat /\ CloserEnd \in Nat
<1>1. i >= 1 /\ (i - 1 \in Nat) BY DEF IInv, TypeOK
<1> QED BY <1>1 DEF LineEnd, CloserEnd

LEMMA ColumnMoves ==
  ASSUME IInv, ColumnInv, Advance
  PROVE  /\ column' = ColumnTo(i)' /\ i \in 1..Len(source) /\ ColumnAt[i] = column
         /\ i' = i + 1 /\ source' = source /\ column \in Nat /\ i \in Nat
<1>1. /\ i \in Nat /\ i >= 1 /\ i' = i + 1 /\ source' = source /\ column \in Nat
  BY AdvanceFacts
<1>2. source \in Seq(Byte) /\ i \in 1..Len(source) BY <1>1, LenProperties DEF IInv, TypeOK, Advance
<1>3. ColumnAt[i] = column BY <1>2, ColumnsFollow DEF ColumnInv
<1>4. ColumnTo(i)' = ColumnTo(i + 1)
  <2>1. ColumnTo(i)' = ColumnTo(i') BY <1>1, SourceKept DEF ColumnTo, IsNl
  <2> QED BY <1>1, <2>1
<1>5. column' = ColumnTo(i + 1)
  <2>1. i + 1 # 1 /\ (i + 1) - 1 = i BY <1>1
  <2>2. column' = IF c = "nl" THEN 0 ELSE AdvanceColumn(column, c) BY DEF Advance, ColumnAfter
  <2> QED BY <1>3, <2>1, <2>2 DEF ColumnTo, IsNl, c
<1> QED BY <1>1, <1>2, <1>3, <1>4, <1>5

LEMMA ColumnQuiet ==
  ASSUME IInv, ColumnInv, Advance, UNCHANGED <<comment, items>>,
         state' = "slash" => c = "sl",
         state' \in InComment => state \in InComment
  PROVE  ColumnInv'
<1>1. /\ column' = ColumnTo(i)' /\ i \in 1..Len(source) /\ ColumnAt[i] = column
      /\ i' = i + 1 /\ source' = source /\ column \in Nat /\ i \in Nat
  BY ColumnMoves
<1>2. ColumnAt' = ColumnAt BY <1>1, SourceKept
<1>3. i' >= 2 /\ i' - 1 = i BY <1>1
<1>4. state' = "slash" => i' >= 2 /\ source'[i' - 1] = "sl" /\ ColumnAt'[i' - 1] \in Nat
  BY <1>1, <1>2, <1>3 DEF c
<1>5. state' \in InComment =>
        comment'.start \in 1..Len(source') /\ comment'.column = ColumnAt'[comment'.start]
  BY <1>1, <1>2 DEF ColumnInv
<1>6. \A k \in 1..Len(items') : items'[k].column = ColumnAt'[items'[k].start]
  BY <1>1, <1>2 DEF ColumnInv
<1> QED BY <1>1, <1>4, <1>5, <1>6 DEF ColumnInv

LEMMA ColumnRecords ==
  ASSUME IInv, ColumnInv, NEW end \in Nat, Records(end), state \in InComment,
         source' = source, UNCHANGED comment, column' = ColumnTo(i)', state' # "slash"
  PROVE  ColumnInv'
<1>1. ColumnAt' = ColumnAt BY SourceKept
<1>2. comment.start \in 1..Len(source) /\ comment.column = ColumnAt[comment.start]
  BY DEF ColumnInv
<1>3. ASSUME NEW k \in 1..Len(items') PROVE items'[k].column = ColumnAt[items'[k].start]
  <2>1. CASE k \in 1..Len(items) BY <2>1, RecordedItem DEF ColumnInv
  <2>2. CASE k = Len(items) + 1 BY <1>2, <2>2, RecordedItem
  <2> QED BY <2>1, <2>2, RecordedItem
<1> QED BY <1>1, <1>2, <1>3 DEF ColumnInv

LEMMA ColumnScan == ASSUME IInv, ColumnInv, Scan PROVE ColumnInv'
<1>1. Advance BY DEF Scan
<1>2. /\ column' = ColumnTo(i)' /\ i \in 1..Len(source) /\ ColumnAt[i] = column
      /\ i' = i + 1 /\ source' = source /\ column \in Nat /\ i \in Nat
  BY <1>1, ColumnMoves
<1>3. CASE Code
  BY <1>1, <1>3, ColumnQuiet DEF Code, NewLine, To, InComment
<1>4. CASE Slash
  <2>1. ASSUME NEW kind, Opens(kind), state' # "slash", UNCHANGED items PROVE ColumnInv'
    <3>1. i >= 2 /\ source[i - 1] = "sl" /\ ColumnAt[i - 1] \in Nat BY <1>4 DEF Slash, ColumnInv
    <3>2. i - 1 \in 1..Len(source) BY <1>2, <3>1
    <3>3. column = AdvanceColumn(ColumnAt[i - 1], "sl")
      BY <3>1, <1>2 DEF ColumnInv, ColumnTo, IsNl
    <3>4. column = ColumnAt[i - 1] + 1 BY <3>1, <3>3, AdvanceColumnBounds
    <3>5. comment'.start = i - 1 /\ comment'.column = ColumnAt[i - 1]
      BY <2>1, <3>1, <3>4 DEF Opens, OpenerColumn
    <3>6. ColumnAt' = ColumnAt BY <1>2, SourceKept
    <3> QED BY <1>2, <2>1, <3>2, <3>5, <3>6 DEF ColumnInv
  <2>2. CASE c \in {"sl", "st"} BY <1>4, <2>1, <2>2 DEF Slash, To
  <2>3. CASE c \notin {"sl", "st"}
    BY <1>1, <1>4, <2>3, ColumnQuiet DEF Slash, NewLine, To, InComment
  <2> QED BY <2>2, <2>3
<1>5. CASE LineComment
  <2>1. CASE c = "nl"
    <3>1. Records(LineEnd) /\ state' # "slash" /\ UNCHANGED comment /\ state \in InComment
      BY <1>5, <2>1 DEF LineComment, NewLine, To, InComment
    <3> QED BY <1>2, <3>1, ColumnRecords, RecordedEnds
  <2>2. CASE c # "nl"
    BY <1>1, <1>5, <2>2, ColumnQuiet DEF LineComment, To, InComment
  <2> QED BY <2>1, <2>2
<1>6. CASE BlockStar
  <2>1. CASE c = "sl"
    <3>1. Records(CloserEnd) /\ state' # "slash" /\ UNCHANGED comment /\ state \in InComment
      BY <1>6, <2>1 DEF BlockStar, To, InComment
    <3> QED BY <1>2, <3>1, ColumnRecords, RecordedEnds
  <2>2. CASE c # "sl"
    BY <1>1, <1>6, <2>2, ColumnQuiet DEF BlockStar, AfterStar, To, InComment
  <2> QED BY <2>1, <2>2
<1>7. CASE LineCommentBackslash
  <2>1. state' \in {"line", "line_bsl"} /\ state \in InComment
    BY <1>7 DEF LineCommentBackslash, Splice, AfterLineBackslash, To, InComment
  <2> QED BY <1>1, <1>7, <2>1, ColumnQuiet DEF LineCommentBackslash
<1>8. CASE BlockComment
  BY <1>1, <1>8, ColumnQuiet DEF BlockComment, To, InComment
<1>9. CASE CodeBackslash
  <2>1. state' \in {"code", "code_bsl"} BY <1>9 DEF CodeBackslash, Splice, To
  <2> QED BY <1>1, <1>9, <2>1, ColumnQuiet DEF CodeBackslash, InComment
<1>10. ASSUME NEW lit \in {"string", "char"}, NEW quote, NEW esc \in {"string_esc", "char_esc"},
              Literal(lit, quote, esc) \/ LiteralEscape(esc, lit)
       PROVE  ColumnInv'
  <2>1. state' \in {"code", lit, esc} /\ UNCHANGED <<comment, items>>
    BY <1>10 DEF Literal, LiteralEscape, Splice, NewLine, To
  <2> QED BY <1>1, <2>1, ColumnQuiet DEF InComment
<1>11. CASE Literal("string", "dq", "string_esc") \/ LiteralEscape("string_esc", "string")
  BY <1>10, <1>11
<1>12. CASE Literal("char", "sq", "char_esc") \/ LiteralEscape("char_esc", "char")
  BY <1>10, <1>12
<1> QED BY <1>3, <1>4, <1>5, <1>6, <1>7, <1>8, <1>9, <1>11, <1>12 DEF Scan

LEMMA ColumnEnd == ASSUME IInv, ColumnInv, EndOfSource PROVE ColumnInv'
<1>1. UNCHANGED <<source, i, state, column, hasCode, comment>> BY DEF EndOfSource
<1>2. i \in Nat BY LenProperties DEF IInv, TypeOK
<1>3. ColumnAt' = ColumnAt /\ ColumnTo(i)' = ColumnTo(i)
  BY <1>1, SourceKept DEF ColumnTo, IsNl
<1>4. CASE InLineComment
  <2>1. Records(i) /\ state \in InComment /\ state' # "slash"
    BY <1>1, <1>4 DEF EndOfSource, InLineComment, InComment
  <2> QED BY <1>1, <1>2, <1>3, <2>1, ColumnRecords DEF ColumnInv
<1>5. CASE ~InLineComment BY <1>1, <1>3, <1>5 DEF EndOfSource, ColumnInv
<1> QED BY <1>4, <1>5

LEMMA ColumnsHold == Spec => []ColumnInv
<1>1. Init => ColumnInv
  <2> SUFFICES ASSUME Init PROVE ColumnInv OBVIOUS
  <2>1. i = 1 /\ state = "code" /\ items = <<>> /\ column = 0 BY DEF Init
  <2> QED BY <2>1 DEF ColumnInv, ColumnTo, InComment
<1>2. IInv /\ ColumnInv /\ [Next]_vars => ColumnInv'
  <2> SUFFICES ASSUME IInv, ColumnInv, [Next]_vars PROVE ColumnInv' OBVIOUS
  <2>1. CASE UNCHANGED vars
    <3>1. source' = source /\ i' = i BY <2>1 DEF vars
    <3>2. ColumnAt' = ColumnAt /\ ColumnTo(i)' = ColumnTo(i)
      BY <3>1, SourceKept DEF ColumnTo, IsNl
    <3> QED BY <2>1, <3>2 DEF vars, ColumnInv
  <2> QED BY <2>1, ColumnScan, ColumnEnd DEF Next
<1> QED BY <1>1, <1>2, Invariance, PTL DEF Spec

-----------------------------------------------------------------------------
\* White space and splices do not count as code.
LEMMA WhiteStep ==
  ASSUME NEW n \in Nat, n >= 1, source[n] \in White \/ SplicesAt(n), ~EndsLine(n)
  PROVE  HasCodeBefore(n + 1) <=> HasCodeBefore(n)
<1>1. ASSUME HasCodeBefore(n) PROVE HasCodeBefore(n + 1)
  <2>1. PICK w \in 1..(n - 1) : /\ source[w] \notin White /\ ~SplicesAt(w)
                                /\ ~\E m \in w..(n - 1) : EndsLine(m)
    BY <1>1 DEF HasCodeBefore
  <2>2. w \in 1..((n + 1) - 1) OBVIOUS
  <2>3. ~\E m \in w..((n + 1) - 1) : EndsLine(m)
    <3>1. \A m \in w..((n + 1) - 1) : m = n \/ m \in w..(n - 1) OBVIOUS
    <3> QED BY <2>1, <3>1
  <2> QED BY <2>1, <2>2, <2>3 DEF HasCodeBefore
<1>2. ASSUME HasCodeBefore(n + 1) PROVE HasCodeBefore(n)
  <2>1. PICK w \in 1..((n + 1) - 1) : /\ source[w] \notin White /\ ~SplicesAt(w)
                                      /\ ~\E m \in w..((n + 1) - 1) : EndsLine(m)
    BY <1>2 DEF HasCodeBefore
  <2>2. w # n BY <2>1
  <2>3. w \in 1..(n - 1) BY <2>2
  <2>4. \A m \in w..(n - 1) : m \in w..((n + 1) - 1) OBVIOUS
  <2> QED BY <2>1, <2>3, <2>4 DEF HasCodeBefore
<1> QED BY <1>1, <1>2

\* No code stands before the first byte of a line.
LEMMA LineStep ==
  ASSUME NEW n \in Nat, EndsLine(n)
  PROVE  ~HasCodeBefore(n + 1)
<1>1. \A w \in 1..((n + 1) - 1) : n \in w..((n + 1) - 1) OBVIOUS
<1> QED BY <1>1 DEF HasCodeBefore

\* Any other byte is code to those after it.
LEMMA CodeByte ==
  ASSUME NEW n \in Nat, n >= 1, source[n] \notin White, ~SplicesAt(n)
  PROVE  HasCodeBefore(n + 1)
<1>1. ~IsNl(n) BY DEF IsNl, White
<1>2. n \in 1..((n + 1) - 1) OBVIOUS
<1>3. \A m \in n..((n + 1) - 1) : m = n OBVIOUS
<1>4. ~\E m \in n..((n + 1) - 1) : EndsLine(m) BY <1>1, <1>3 DEF EndsLine
<1> QED BY <1>2, <1>4 DEF HasCodeBefore

\* A backslash that no splice begins with is code.
LEMMA CodeGoesOn ==
  ASSUME NEW n \in Nat, n >= 1, HasCodeBefore(n), ~IsNl(n)
  PROVE  HasCodeBefore(n + 1)
<1>1. ~EndsLine(n) BY DEF EndsLine
<1> QED BY <1>1, WhiteStep, CodeByte

\* A newline that no splice holds ends its line.
LEMMA NewlineEnds ==
  ASSUME NEW n \in Nat, n >= 1, IsNl(n), NonePending(n - 1)
  PROVE  EndsLine(n) /\ ~HasCodeBefore(n + 1) /\ NonePending(n)
<1>1. \A b \in 1..(n - 1) : SpliceEnd(b) <= n - 1 BY DEF NonePending
<1>2. \A b \in 1..(n - 1) : SpliceEnd(b) \in Nat BY DEF SpliceEnd
<1>3. ~(n <= n - 1) /\ SpliceEnd(n) = 0 BY DEF SpliceEnd, IsNl
<1>4. \A b \in {n - 1, n - 2} \cap (1..n) : SpliceEnd(b) # n
  <2>1. \A b \in {n - 1, n - 2} \cap (1..n) : b \in 1..(n - 1) OBVIOUS
  <2> QED BY <1>1, <1>3, <2>1
<1>5. EndsLine(n) BY <1>4 DEF EndsLine
<1>6. NonePending(n)
  <2> SUFFICES ASSUME NEW b \in 1..n PROVE SpliceEnd(b) <= n BY DEF NonePending
  <2>1. CASE b = n BY <1>3, <2>1
  <2>2. CASE b # n BY <1>1, <1>2, <2>2
  <2> QED BY <2>1, <2>2
<1> QED BY <1>5, <1>6, LineStep

\* A byte that begins no splice leaves none pending.
LEMMA NonePendingStep ==
  ASSUME NEW n \in Nat, n >= 1, NonePending(n - 1), ~SplicesAt(n)
  PROVE  NonePending(n)
<1>1. \A b \in 1..(n - 1) : SpliceEnd(b) <= n - 1 BY DEF NonePending
<1>2. \A b \in 1..(n - 1) : SpliceEnd(b) \in Nat BY DEF SpliceEnd
<1>3. SpliceEnd(n) = 0 BY DEF SplicesAt
<1> SUFFICES ASSUME NEW b \in 1..n PROVE SpliceEnd(b) <= n BY DEF NonePending
<1>4. CASE b = n BY <1>3, <1>4
<1>5. CASE b # n BY <1>1, <1>2, <1>5
<1> QED BY <1>4, <1>5

\* Only a backslash begins a splice.
LEMMA NoSplice == ASSUME NEW n, source[n] # "bsl" PROVE ~SplicesAt(n)
BY DEF SplicesAt, SpliceEnd

\* Behind the backslash at b, a CR that an LF follows is still within the splice,
LEMMA SpliceCr ==
  ASSUME NEW b \in 1..Len(source), i \in Nat, IsBehind(b, i), IsSpliceCr
  PROVE  IsBehind(b, i + 1)
<1>1. c = "cr" /\ i < Len(source) /\ source[i + 1] = "nl" BY DEF IsSpliceCr
<1>2. b = i - 1 BY <1>1 DEF IsBehind, c, IsNl
<1>3. b = (i + 1) - 2 /\ (i + 1) - 1 = i /\ i + 1 <= Len(source)
  <2>1. Len(source) \in Nat BY <1>1, <1>2
  <2> QED BY <1>1, <1>2, <2>1
<1> QED BY <1>1, <1>3 DEF IsBehind, c, IsNl

\* the newline ends the splice, and what stood before it stands before the next byte,
LEMMA SpliceDone ==
  ASSUME source \in Seq(Byte), NEW b \in 1..Len(source), i \in 1..Len(source),
         IsBehind(b, i), c = "nl"
  PROVE  NonePending(i) /\ (HasCodeBefore(i + 1) <=> HasCodeBefore(b))
<1>1. Len(source) \in Nat /\ i \in Nat /\ b \in Nat /\ i >= 1 /\ b >= 1 /\ i <= Len(source)
  BY LenProperties
<1>2. IsNl(i) /\ SpliceEnd(i) = 0 BY DEF c, IsNl, SpliceEnd
<1>3. \A a \in 1..(b - 1) : SpliceEnd(a) <= b - 1 BY DEF IsBehind, NonePending
<1>4. \A a \in 1..(b - 1) : SpliceEnd(a) \in Nat BY <1>1 DEF SpliceEnd
<1>5. source[b] = "bsl" /\ ~EndsLine(b) BY DEF IsBehind, EndsLine, IsNl
<1>6. SpliceEnd(b) = i => ~EndsLine(i) /\ SplicesAt(b)
  <2>1. b \in {i - 1, i - 2} \cap (1..i) BY <1>1 DEF IsBehind
  <2> QED BY <1>1, <2>1 DEF EndsLine, SplicesAt
<1>8. CASE b = i - 1
  <2>1. SpliceEnd(b) = i
    <3>1. b + 1 = i /\ b + 1 <= Len(source) BY <1>1, <1>8
    <3> QED BY <1>2, <1>5, <3>1 DEF SpliceEnd, IsNl
  <2>2. NonePending(i)
    <3> SUFFICES ASSUME NEW a \in 1..i PROVE SpliceEnd(a) <= i BY DEF NonePending
    <3>1. a = i \/ a = b \/ a \in 1..(b - 1) BY <1>1, <1>8
    <3> QED BY <1>1, <1>2, <1>3, <1>4, <1>8, <2>1, <3>1
  <2>3. HasCodeBefore(b + 1) <=> HasCodeBefore(b) BY <1>1, <1>5, <1>6, <2>1, WhiteStep
  <2>4. source[i] \in White BY DEF c, White
  <2>5. HasCodeBefore(i + 1) <=> HasCodeBefore(i) BY <1>1, <1>6, <2>1, <2>4, WhiteStep
  <2>6. b + 1 = i BY <1>1, <1>8
  <2> QED BY <2>2, <2>3, <2>5, <2>6
<1>9. CASE b # i - 1
  <2>1. b = i - 2 /\ source[i - 1] = "cr" BY <1>9 DEF IsBehind
  <2>2. b + 1 = i - 1 /\ b + 2 = i /\ i - 1 \in Nat /\ i - 1 >= 1 BY <1>1, <2>1
  <2>3. SpliceEnd(b) = i /\ SpliceEnd(i - 1) = 0
    BY <1>1, <1>2, <1>5, <2>1, <2>2 DEF SpliceEnd, IsNl
  <2>4. NonePending(i)
    <3> SUFFICES ASSUME NEW a \in 1..i PROVE SpliceEnd(a) <= i BY DEF NonePending
    <3>1. a = i \/ a = i - 1 \/ a = b \/ a \in 1..(b - 1) BY <1>1, <2>1
    <3> QED BY <1>1, <1>2, <1>3, <1>4, <2>1, <2>3, <3>1
  <2>5. HasCodeBefore(b + 1) <=> HasCodeBefore(b) BY <1>1, <1>5, <1>6, <2>3, WhiteStep
  <2>6. source[i - 1] \in White /\ ~EndsLine(i - 1) BY <2>1 DEF White, EndsLine, IsNl
  <2>7. HasCodeBefore((i - 1) + 1) <=> HasCodeBefore(i - 1) BY <2>2, <2>6, WhiteStep
  <2>8. source[i] \in White BY DEF c, White
  <2>9. HasCodeBefore(i + 1) <=> HasCodeBefore(i) BY <1>1, <1>6, <2>3, <2>8, WhiteStep
  <2>10. (i - 1) + 1 = i BY <1>1
  <2> QED BY <2>2, <2>4, <2>5, <2>7, <2>9, <2>10
<1> QED BY <1>8, <1>9

\* and any other byte says that there was no splice.
LEMMA SpliceNot ==
  ASSUME source \in Seq(Byte), NEW b \in 1..Len(source), i \in 1..Len(source),
         IsBehind(b, i), ~IsSplice
  PROVE  b = i - 1 /\ NonePending(i - 1) /\ ~SplicesAt(b)
<1>1. Len(source) \in Nat /\ i \in Nat /\ b \in Nat /\ i >= 1 /\ b >= 1 /\ i <= Len(source)
  BY LenProperties
<1>2. ~IsNl(i) BY DEF IsSplice, c, IsNl
<1>3. b = i - 1 BY <1>2 DEF IsBehind
<1>4. b + 1 = i /\ b + 2 = i + 1 BY <1>1, <1>3
<1>5. ~(i + 1 <= Len(source) /\ source[i] = "cr" /\ IsNl(i + 1))
  BY <1>1 DEF IsSplice, IsSpliceCr, c, IsNl
<1>6. SpliceEnd(b) = 0 BY <1>2, <1>4, <1>5 DEF SpliceEnd
<1>7. NonePending(b) BY <1>1, <1>6, NonePendingStep DEF IsBehind, SplicesAt
<1> QED BY <1>3, <1>6, <1>7 DEF SplicesAt

\* What holds of the next byte holds of it when it is the one to read.
LEMMA StandMoves ==
  ASSUME i \in Nat, i >= 1, i' = i + 1, source' = source,
         state' \in {"code", "slash", "line", "string", "char"} => NonePending(i),
         state' \in {"line_bsl", "string_esc", "char_esc"} =>
           \E b \in 1..Len(source) : IsBehind(b, i + 1),
         state' = "code_bsl" =>
           \E b \in 1..Len(source) : IsBehind(b, i + 1) /\ (hasCode' <=> HasCodeBefore(b)),
         state' = "code" => (hasCode' <=> HasCodeBefore(i + 1)),
         state' = "slash" => (hasCode' <=> HasCodeBefore(i)),
         state' = "star" => source[i] = "st",
         state' \in InComment => (comment'.trailing <=> HasCodeBefore(comment'.start))
  PROVE  StandInv'
<1>1. i' - 1 = i /\ i' >= 2 OBVIOUS
<1>2. NonePending(i - 1)' <=> NonePending(i)
  <2>1. NonePending(i - 1)' <=> \A b \in 1..(i' - 1) : SpliceEnd(b)' <= i' - 1 BY DEF NonePending
  <2>2. \A b : SpliceEnd(b)' = SpliceEnd(b) BY SourceKept
  <2> QED BY <1>1, <2>1, <2>2 DEF NonePending
<1>3. ASSUME NEW b PROVE IsBehind(b, i)' <=> IsBehind(b, i + 1)
  <2>1. NonePending(b - 1)' <=> NonePending(b - 1) BY SourceKept
  <2> QED BY <2>1 DEF IsBehind, IsNl
<1>4. \A p : HasCodeBefore(p)' <=> HasCodeBefore(p) BY SourceKept
<1>5. HasCodeBefore(i)' <=> HasCodeBefore(i + 1)
  <2>1. HasCodeBefore(i)' <=> HasCodeBefore(i')
    BY SourceKept DEF HasCodeBefore, SplicesAt, SpliceEnd, EndsLine, IsNl
  <2> QED BY <2>1
<1>6. HasCodeBefore(i - 1)' <=> HasCodeBefore(i)
  <2>1. HasCodeBefore(i - 1)' <=> HasCodeBefore(i' - 1)
    BY SourceKept DEF HasCodeBefore, SplicesAt, SpliceEnd, EndsLine, IsNl
  <2> QED BY <1>1, <2>1
<1>7. HasCodeBefore(comment.start)' <=> HasCodeBefore(comment'.start)
  BY SourceKept DEF HasCodeBefore, SplicesAt, SpliceEnd, EndsLine, IsNl
<1> QED BY <1>1, <1>2, <1>3, <1>4, <1>5, <1>6, <1>7 DEF StandInv

\* The comments recorded so far stand where they stood,
LEMMA StandsQuiet ==
  ASSUME UNCHANGED <<source, items>>, \A k \in 1..Len(items) : Stands(k)
  PROVE  \A k \in 1..Len(items') : Stands(k)'
<1>1. ASSUME NEW k \in 1..Len(items) PROVE Stands(k)'
  <2>1. HasCodeBefore(items[k].start)' <=> HasCodeBefore(items[k].start)
    BY SourceKept DEF HasCodeBefore, SplicesAt, SpliceEnd, EndsLine, IsNl
  <2> QED BY <2>1 DEF Stands
<1> QED BY <1>1

\* and one more stands where its opener did.
LEMMA StandsRecorded ==
  ASSUME IInv, NEW end \in Nat, Records(end), source' = source,
         \A k \in 1..Len(items) : Stands(k),
         comment.trailing <=> HasCodeBefore(comment.start)
  PROVE  \A k \in 1..Len(items') : Stands(k)'
<1>1. ASSUME NEW k \in 1..Len(items') PROVE Stands(k)'
  <2>1. HasCodeBefore(items[k].start)' <=> HasCodeBefore(items'[k].start)
    BY SourceKept DEF HasCodeBefore, SplicesAt, SpliceEnd, EndsLine, IsNl
  <2>2. CASE k \in 1..Len(items)
    <3>1. items'[k] = items[k] BY <2>2, RecordedItem
    <3> QED BY <2>1, <2>2, <3>1 DEF Stands
  <2>3. CASE k = Len(items) + 1
    <3>1. items'[k].start = comment.start /\ items'[k].trailing = comment.trailing
      BY <2>3, RecordedItem
    <3> QED BY <2>1, <3>1 DEF Stands
  <2> QED BY <2>2, <2>3, RecordedItem
<1> QED BY <1>1

-----------------------------------------------------------------------------
(* The steps over what stands before the comments *)

\* What a step over the byte at i starts from, in a source without an odd splice.
StandHyp ==
  /\ IInv /\ BlankInv /\ ColumnInv /\ Advance /\ ~HasOddSplice
  /\ StandInv /\ \A k \in 1..Len(items) : Stands(k)

LEMMA StandFacts ==
  ASSUME StandHyp
  PROVE  /\ source \in Seq(Byte) /\ i \in Nat /\ i >= 1 /\ i' = i + 1 /\ source' = source
         /\ i \in 1..Len(source) /\ (i + 1) - 1 = i /\ (i - 1) + 1 = i
         /\ state \in LexState /\ hasCode \in BOOLEAN
         /\ (i >= 2 /\ source[i - 1] \in {"sl", "bsl", "st"} => ~SplicesAt(i))
<1>1. i \in Nat /\ i >= 1 /\ i' = i + 1 /\ source' = source BY AdvanceFacts DEF StandHyp
<1>2. source \in Seq(Byte) /\ i \in 1..Len(source) /\ state \in LexState /\ hasCode \in BOOLEAN
  BY <1>1, LenProperties DEF StandHyp, IInv, TypeOK, Advance
<1>3. i >= 2 /\ source[i - 1] \in {"sl", "bsl", "st"} => ~SplicesAt(i)
  <2>1. i >= 2 => i \in 2..Len(source) BY <1>2
  <2> QED BY <2>1 DEF StandHyp, HasOddSplice
<1>4. (i + 1) - 1 = i /\ (i - 1) + 1 = i BY <1>1
<1> QED BY <1>1, <1>2, <1>3, <1>4

\* A newline in code, or in a literal or a line comment, starts a line without code.
LEMMA NewlineStands ==
  ASSUME StandHyp, NonePending(i - 1), c = "nl", state' = "code", hasCode' = FALSE
  PROVE  StandInv'
<1>1. i \in Nat /\ i >= 1 /\ i' = i + 1 /\ source' = source BY StandFacts
<1>2. NonePending(i) /\ ~HasCodeBefore(i + 1) BY <1>1, NewlineEnds DEF c, IsNl
<1> QED BY <1>1, <1>2, StandMoves DEF InComment

\* A byte that is code, and begins no splice.
LEMMA CodeByteStands ==
  ASSUME StandHyp, NonePending(i - 1), c \notin White, ~SplicesAt(i),
         state' = "code", hasCode' = TRUE
  PROVE  StandInv'
<1>1. i \in Nat /\ i >= 1 /\ i' = i + 1 /\ source' = source BY StandFacts
<1>2. NonePending(i) /\ HasCodeBefore(i + 1) BY <1>1, NonePendingStep, CodeByte DEF c
<1> QED BY <1>1, <1>2, StandMoves DEF InComment

\* Code stands before the byte at i, which ends no line and begins no splice.
LEMMA CodeGoesOnStands ==
  ASSUME StandHyp, NonePending(i - 1), HasCodeBefore(i), c # "nl", ~SplicesAt(i),
         state' = "code", hasCode' = TRUE
  PROVE  StandInv'
<1>1. i \in Nat /\ i >= 1 /\ i' = i + 1 /\ source' = source BY StandFacts
<1>2. NonePending(i) /\ HasCodeBefore(i + 1)
  BY <1>1, NonePendingStep, CodeGoesOn DEF c, IsNl
<1> QED BY <1>1, <1>2, StandMoves DEF InComment

\* A backslash, behind which a splice may go on.
LEMMA BackslashBehind ==
  ASSUME i \in 1..Len(source), i \in Nat, NonePending(i - 1), c = "bsl"
  PROVE  IsBehind(i, i + 1)
<1>1. i = (i + 1) - 1 OBVIOUS
<1> QED BY <1>1 DEF IsBehind, c

LEMMA CodeStands == ASSUME StandHyp, Code PROVE StandInv'
<1>1. /\ source \in Seq(Byte) /\ i \in Nat /\ i >= 1 /\ i' = i + 1 /\ source' = source
      /\ i \in 1..Len(source) /\ hasCode \in BOOLEAN
  BY StandFacts
<1>2. NonePending(i - 1) /\ (hasCode <=> HasCodeBefore(i)) BY DEF Code, StandHyp, StandInv
<1>3. CASE c = "nl"
  BY <1>2, <1>3, NewlineStands DEF Code, NewLine, To
<1>4. CASE c = "bsl"
  <2>1. state' = "code_bsl" /\ hasCode' = (hasCode \/ FALSE) BY <1>4 DEF Code, To
  <2>2. hasCode' <=> HasCodeBefore(i) BY <1>1, <1>2, <2>1
  <2>3. IsBehind(i, i + 1) BY <1>1, <1>2, <1>4, BackslashBehind
  <2> QED BY <1>1, <2>1, <2>2, <2>3, StandMoves DEF InComment
<1>5. CASE c # "nl" /\ c # "bsl"
  <2>1. ~SplicesAt(i) BY <1>5, NoSplice DEF c
  <2>2. NonePending(i) BY <1>1, <1>2, <2>1, NonePendingStep
  <2>3. CASE c = "sl"
    <3>1. state' = "slash" /\ hasCode' = (hasCode \/ FALSE) BY <2>3 DEF Code, To
    <3>2. hasCode' <=> HasCodeBefore(i) BY <1>1, <1>2, <3>1
    <3> QED BY <1>1, <2>2, <3>1, <3>2, StandMoves DEF InComment
  <2>4. CASE c \in {"dq", "sq"}
    <3>1. state' \in {"string", "char"} BY <2>4 DEF Code, To
    <3> QED BY <1>1, <2>2, <3>1, StandMoves DEF InComment
  <2>5. CASE c \notin {"sl", "dq", "sq"}
    <3>1. state' = "code" /\ hasCode' = (hasCode \/ c \notin White)
      BY <1>5, <2>5 DEF Code, To
    <3>2. CASE c \in White
      <4>1. ~EndsLine(i) BY <1>5 DEF EndsLine, IsNl, c
      <4>2. HasCodeBefore(i + 1) <=> HasCodeBefore(i)
        BY <1>1, <3>2, <4>1, WhiteStep DEF c
      <4>3. hasCode' <=> HasCodeBefore(i + 1) BY <1>1, <1>2, <3>1, <3>2, <4>2
      <4> QED BY <1>1, <2>2, <3>1, <4>3, StandMoves DEF InComment
    <3>3. CASE c \notin White
      <4>1. hasCode' = TRUE BY <3>1, <3>3
      <4> QED BY <1>2, <2>1, <3>1, <3>3, <4>1, CodeByteStands
    <3> QED BY <3>2, <3>3
  <2> QED BY <2>3, <2>4, <2>5
<1> QED BY <1>3, <1>4, <1>5

LEMMA SlashStands == ASSUME StandHyp, Slash PROVE StandInv'
<1>1. /\ source \in Seq(Byte) /\ i \in Nat /\ i >= 1 /\ i' = i + 1 /\ source' = source
      /\ i \in 1..Len(source) /\ (i - 1) + 1 = i
      /\ (i >= 2 /\ source[i - 1] \in {"sl", "bsl", "st"} => ~SplicesAt(i))
  BY StandFacts
<1>2. NonePending(i - 1) /\ (hasCode <=> HasCodeBefore(i - 1))
  BY DEF Slash, StandHyp, StandInv
<1>3. i >= 2 /\ source[i - 1] = "sl" BY DEF Slash, StandHyp, ColumnInv
<1>4. ~SplicesAt(i) BY <1>1, <1>3
<1>5. NonePending(i) BY <1>1, <1>2, <1>4, NonePendingStep
<1>6. CASE c \in {"sl", "st"}
  <2>1. /\ state' \in {"line", "block"} /\ comment'.start = i - 1
        /\ comment'.trailing = hasCode
    BY <1>6 DEF Slash, Opens, To
  <2>2. comment'.trailing <=> HasCodeBefore(comment'.start) BY <1>2, <2>1
  <2> QED BY <1>1, <1>5, <2>1, <2>2, StandMoves
<1>7. CASE c = "nl" BY <1>2, <1>7, NewlineStands DEF Slash, NewLine, To
<1>8. CASE c \notin {"sl", "st", "nl"}
  <2>1. state' = "code" /\ hasCode' = TRUE BY <1>8 DEF Slash, To
  <2>2. ~SplicesAt(i - 1) /\ source[i - 1] \notin White BY <1>3, NoSplice DEF White
  <2>3. i - 1 \in Nat /\ i - 1 >= 1 BY <1>1, <1>3
  <2>4. HasCodeBefore(i) BY <1>1, <2>2, <2>3, CodeByte
  <2> QED BY <1>2, <1>4, <1>8, <2>1, <2>4, CodeGoesOnStands
<1> QED BY <1>6, <1>7, <1>8

LEMMA LineStands == ASSUME StandHyp, LineComment PROVE StandInv'
<1>1. /\ i \in Nat /\ i >= 1 /\ i' = i + 1 /\ source' = source /\ i \in 1..Len(source)
  BY StandFacts
<1>2. NonePending(i - 1) /\ (comment.trailing <=> HasCodeBefore(comment.start))
  BY DEF LineComment, StandHyp, StandInv, InComment
<1>3. CASE c = "nl" BY <1>2, <1>3, NewlineStands DEF LineComment, NewLine, To
<1>4. CASE c = "bsl"
  <2>1. state' = "line_bsl" /\ comment' = comment BY <1>4 DEF LineComment, To
  <2>2. IsBehind(i, i + 1) BY <1>1, <1>2, <1>4, BackslashBehind
  <2> QED BY <1>1, <1>2, <2>1, <2>2, StandMoves
<1>5. CASE c \notin {"nl", "bsl"}
  <2>1. state' = "line" /\ comment' = comment BY <1>5 DEF LineComment, To
  <2>2. NonePending(i) BY <1>1, <1>2, <1>5, NoSplice, NonePendingStep DEF c
  <2> QED BY <1>1, <1>2, <2>1, <2>2, StandMoves
<1> QED BY <1>3, <1>4, <1>5

LEMMA LineBackslashStands == ASSUME StandHyp, LineCommentBackslash PROVE StandInv'
<1>1. /\ source \in Seq(Byte) /\ i \in Nat /\ i >= 1 /\ i' = i + 1 /\ source' = source
      /\ i \in 1..Len(source)
  BY StandFacts
<1>2. comment' = comment /\ (comment.trailing <=> HasCodeBefore(comment.start))
  BY DEF LineCommentBackslash, StandHyp, StandInv, InComment
<1>3. PICK b \in 1..Len(source) : IsBehind(b, i)
  BY DEF LineCommentBackslash, StandHyp, StandInv
<1>4. CASE IsSpliceCr
  <2>1. state' = "line_bsl" BY <1>4 DEF LineCommentBackslash, Splice, IsSpliceCr, IsSplice
  <2>2. IsBehind(b, i + 1) BY <1>1, <1>3, <1>4, SpliceCr
  <2> QED BY <1>1, <1>2, <2>1, <2>2, StandMoves
<1>5. CASE c = "nl"
  <2>1. state' = "line"
    BY <1>5 DEF LineCommentBackslash, Splice, IsSpliceCr, IsSplice, To
  <2>2. NonePending(i) BY <1>1, <1>3, <1>5, SpliceDone
  <2> QED BY <1>1, <1>2, <2>1, <2>2, StandMoves
<1>6. CASE ~IsSplice
  <2>1. NonePending(i - 1) BY <1>1, <1>3, <1>6, SpliceNot
  <2>2. CASE c = "bsl"
    <3>1. state' = "line_bsl"
      BY <1>6, <2>2 DEF LineCommentBackslash, Splice, IsSplice, AfterLineBackslash, To
    <3>2. IsBehind(i, i + 1) BY <1>1, <2>1, <2>2, BackslashBehind
    <3> QED BY <1>1, <1>2, <3>1, <3>2, StandMoves
  <2>3. CASE c # "bsl"
    <3>1. state' = "line"
      BY <1>6, <2>3 DEF LineCommentBackslash, Splice, IsSplice, AfterLineBackslash, To
    <3>2. NonePending(i) BY <1>1, <2>1, <2>3, NoSplice, NonePendingStep DEF c
    <3> QED BY <1>1, <1>2, <3>1, <3>2, StandMoves
  <2> QED BY <2>2, <2>3
<1> QED BY <1>4, <1>5, <1>6 DEF IsSplice

LEMMA BlockStands == ASSUME StandHyp, BlockComment PROVE StandInv'
<1>1. i \in Nat /\ i >= 1 /\ i' = i + 1 /\ source' = source BY StandFacts
<1>2. comment' = comment /\ (comment.trailing <=> HasCodeBefore(comment.start))
  BY DEF BlockComment, StandHyp, StandInv, InComment
<1>3. state' \in {"star", "block"} /\ (state' = "star" => source[i] = "st")
  BY DEF BlockComment, To, c
<1> QED BY <1>1, <1>2, <1>3, StandMoves

LEMMA StarStands == ASSUME StandHyp, BlockStar PROVE StandInv'
<1>1. i \in Nat /\ i >= 1 /\ i' = i + 1 /\ source' = source /\ i \in 1..Len(source)
  BY StandFacts
<1>2. /\ comment' = comment /\ (comment.trailing <=> HasCodeBefore(comment.start))
      /\ i >= 2 /\ source[i - 1] = "st"
  BY DEF BlockStar, StandHyp, StandInv, InComment
<1>3. CASE c = "sl"
  <2>1. state' = "code" /\ hasCode' = TRUE BY <1>3 DEF BlockStar, AfterCloser, To
  <2>2. source[i] = "sl" BY <1>3 DEF c
  <2>3. HasCodeBefore(i + 1) BY <1>1, <2>2, NoSplice, CodeByte DEF White
  <2>4. NonePending(i)
    <3> SUFFICES ASSUME NEW b \in 1..i PROVE SpliceEnd(b) <= i BY DEF NonePending
    <3>1. CASE b = i \/ b = i - 1
      <4>1. SpliceEnd(b) = 0 BY <1>2, <2>2, <3>1 DEF SpliceEnd
      <4> QED BY <1>1, <4>1
    <3>2. CASE b + 2 <= i
      <4>1. SpliceEnd(b) \in {0, b + 1, b + 2} BY DEF SpliceEnd
      <4> QED BY <1>1, <3>2, <4>1
    <3> QED BY <1>1, <3>1, <3>2
  <2> QED BY <1>1, <2>1, <2>3, <2>4, StandMoves DEF InComment
<1>4. CASE c # "sl"
  <2>1. state' \in {"star", "block"} /\ (state' = "star" => source[i] = "st")
    BY <1>4 DEF BlockStar, AfterStar, To, c
  <2> QED BY <1>1, <1>2, <2>1, StandMoves
<1> QED BY <1>3, <1>4

LEMMA CodeBackslashStands == ASSUME StandHyp, CodeBackslash PROVE StandInv'
<1>1. /\ source \in Seq(Byte) /\ i \in Nat /\ i >= 1 /\ i' = i + 1 /\ source' = source
      /\ i \in 1..Len(source) /\ (i - 1) + 1 = i
      /\ (i >= 2 /\ source[i - 1] \in {"sl", "bsl", "st"} => ~SplicesAt(i))
  BY StandFacts
<1>2. PICK b \in 1..Len(source) : IsBehind(b, i) /\ (hasCode <=> HasCodeBefore(b))
  BY DEF CodeBackslash, StandHyp, StandInv
<1>3. CASE IsSpliceCr
  <2>1. state' = "code_bsl" /\ hasCode' = hasCode
    BY <1>3 DEF CodeBackslash, Splice, IsSpliceCr, IsSplice
  <2>2. IsBehind(b, i + 1) BY <1>1, <1>2, <1>3, SpliceCr
  <2> QED BY <1>1, <1>2, <2>1, <2>2, StandMoves DEF InComment
<1>4. CASE c = "nl"
  <2>1. state' = "code" /\ hasCode' = hasCode
    BY <1>4 DEF CodeBackslash, Splice, IsSpliceCr, IsSplice, To
  <2>2. NonePending(i) /\ (HasCodeBefore(i + 1) <=> HasCodeBefore(b))
    BY <1>1, <1>2, <1>4, SpliceDone
  <2> QED BY <1>1, <1>2, <2>1, <2>2, StandMoves DEF InComment
<1>5. CASE ~IsSplice
  <2>1. state' = "code" /\ hasCode' = TRUE BY <1>5 DEF CodeBackslash, Splice, IsSplice, To
  <2>2. b = i - 1 /\ NonePending(i - 1) /\ ~SplicesAt(b) BY <1>1, <1>2, <1>5, SpliceNot
  <2>3. source[b] = "bsl" /\ b \in Nat /\ b >= 1 BY <1>2 DEF IsBehind
  <2>4. HasCodeBefore(i) BY <1>1, <2>2, <2>3, CodeByte DEF White
  <2>5. ~SplicesAt(i) /\ c # "nl" BY <1>1, <1>5, <2>2, <2>3 DEF IsSplice
  <2> QED BY <2>1, <2>2, <2>4, <2>5, CodeGoesOnStands
<1> QED BY <1>3, <1>4, <1>5 DEF IsSplice

LEMMA LiteralStands ==
  ASSUME StandHyp, NEW lit \in {"string", "char"}, NEW quote \in {"dq", "sq"},
         NEW escape \in {"string_esc", "char_esc"}, Literal(lit, quote, escape)
  PROVE  StandInv'
<1>1. /\ i \in Nat /\ i >= 1 /\ i' = i + 1 /\ source' = source /\ i \in 1..Len(source)
      /\ hasCode \in BOOLEAN
  BY StandFacts
<1>2. NonePending(i - 1) BY DEF Literal, StandHyp, StandInv
<1>3. hasCode = TRUE BY <1>1 DEF Literal, StandHyp, BlankInv, Literals
<1>4. CASE c = "nl" BY <1>2, <1>4, NewlineStands DEF Literal, NewLine, To
<1>5. CASE c = "bsl"
  <2>1. state' = escape BY <1>5 DEF Literal, To
  <2>2. IsBehind(i, i + 1) BY <1>1, <1>2, <1>5, BackslashBehind
  <2> QED BY <1>1, <2>1, <2>2, StandMoves DEF InComment
<1>6. CASE c = quote
  <2>1. state' = "code" /\ hasCode' = TRUE BY <1>3, <1>6 DEF Literal, To
  <2>2. c \notin White /\ ~SplicesAt(i) BY <1>6, NoSplice DEF White, c
  <2> QED BY <1>2, <2>1, <2>2, CodeByteStands
<1>7. CASE c \notin {"nl", "bsl", quote}
  <2>1. state' = lit BY <1>7 DEF Literal
  <2>2. NonePending(i) BY <1>1, <1>2, <1>7, NoSplice, NonePendingStep DEF c
  <2> QED BY <1>1, <2>1, <2>2, StandMoves DEF InComment
<1> QED BY <1>4, <1>5, <1>6, <1>7

LEMMA LiteralEscapeStands ==
  ASSUME StandHyp, NEW lit \in {"string", "char"},
         NEW escape \in {"string_esc", "char_esc"}, LiteralEscape(escape, lit)
  PROVE  StandInv'
<1>1. /\ source \in Seq(Byte) /\ i \in Nat /\ i >= 1 /\ i' = i + 1 /\ source' = source
      /\ i \in 1..Len(source)
      /\ (i >= 2 /\ source[i - 1] \in {"sl", "bsl", "st"} => ~SplicesAt(i))
  BY StandFacts
<1>2. PICK b \in 1..Len(source) : IsBehind(b, i)
  BY DEF LiteralEscape, StandHyp, StandInv
<1>3. CASE IsSpliceCr
  <2>1. state' = escape BY <1>3 DEF LiteralEscape, Splice, IsSpliceCr, IsSplice
  <2>2. IsBehind(b, i + 1) BY <1>1, <1>2, <1>3, SpliceCr
  <2> QED BY <1>1, <2>1, <2>2, StandMoves DEF InComment
<1>4. CASE c = "nl"
  <2>1. state' = lit BY <1>4 DEF LiteralEscape, Splice, IsSpliceCr, IsSplice, To
  <2>2. NonePending(i) BY <1>1, <1>2, <1>4, SpliceDone
  <2> QED BY <1>1, <2>1, <2>2, StandMoves DEF InComment
<1>5. CASE ~IsSplice
  <2>1. state' = lit BY <1>5 DEF LiteralEscape, Splice, IsSplice, To
  <2>2. b = i - 1 /\ NonePending(i - 1) BY <1>1, <1>2, <1>5, SpliceNot
  <2>3. source[b] = "bsl" /\ b >= 1 BY <1>2 DEF IsBehind
  <2>4. NonePending(i) BY <1>1, <2>2, <2>3, NonePendingStep
  <2> QED BY <1>1, <2>1, <2>4, StandMoves DEF InComment
<1> QED BY <1>3, <1>4, <1>5 DEF IsSplice

LEMMA TrailScan == ASSUME IInv, BlankInv, ColumnInv, TrailInv, Scan PROVE TrailInv'
<1>1. Advance /\ source' = source BY AdvanceFacts DEF Scan
<1>2. HasOddSplice' <=> HasOddSplice BY <1>1, SourceKept
<1> SUFFICES ASSUME ~HasOddSplice PROVE StandInv' /\ \A k \in 1..Len(items') : Stands(k)'
  BY <1>2 DEF TrailInv
<1>3. StandHyp BY <1>1 DEF StandHyp, TrailInv
<1>4. i \in Nat BY <1>3, StandFacts
<1>5. StandInv'
  <2>1. CASE Literal("string", "dq", "string_esc") \/ Literal("char", "sq", "char_esc")
    BY <1>3, <2>1, LiteralStands
  <2>2. CASE LiteralEscape("string_esc", "string") \/ LiteralEscape("char_esc", "char")
    BY <1>3, <2>2, LiteralEscapeStands
  <2> QED
    BY <1>3, <2>1, <2>2, CodeStands, SlashStands, LineStands, LineBackslashStands,
       BlockStands, StarStands, CodeBackslashStands DEF Scan
<1>6. \A k \in 1..Len(items') : Stands(k)'
  <2>1. CASE UNCHANGED items BY <1>1, <1>3, <2>1, StandsQuiet DEF StandHyp
  <2>2. CASE state \in InComment /\ (Records(LineEnd) \/ Records(CloserEnd))
    <3>1. comment.trailing <=> HasCodeBefore(comment.start) BY <1>3, <2>2 DEF StandHyp, StandInv
    <3> QED BY <1>1, <1>3, <1>4, <2>2, <3>1, StandsRecorded, RecordedEnds DEF StandHyp
  <2>3. UNCHANGED items \/ (state \in InComment /\ (Records(LineEnd) \/ Records(CloserEnd)))
    BY DEF Scan, Code, Slash, LineComment, LineCommentBackslash, BlockComment, BlockStar,
           CodeBackslash, Literal, LiteralEscape, InComment
  <2> QED BY <2>1, <2>2, <2>3
<1> QED BY <1>5, <1>6

\* Nothing that stands before the bytes changes when nothing is read.
LEMMA StandStays ==
  ASSUME UNCHANGED <<source, i, state, hasCode, comment>>, StandInv
  PROVE  StandInv'
<1>1. \A b : IsBehind(b, i)' <=> IsBehind(b, i)
  BY SourceKept DEF IsBehind, NonePending, SpliceEnd, IsNl
<1>2. /\ NonePending(i - 1)' <=> NonePending(i - 1)
      /\ HasCodeBefore(i)' <=> HasCodeBefore(i)
      /\ HasCodeBefore(i - 1)' <=> HasCodeBefore(i - 1)
      /\ HasCodeBefore(comment.start)' <=> HasCodeBefore(comment.start)
  BY DEF NonePending, HasCodeBefore, SplicesAt, SpliceEnd, EndsLine, IsNl
<1>3. \A b : HasCodeBefore(b)' <=> HasCodeBefore(b) BY SourceKept
<1> QED BY <1>1, <1>2, <1>3 DEF StandInv

LEMMA TrailEnd == ASSUME IInv, TrailInv, EndOfSource PROVE TrailInv'
<1>1. UNCHANGED <<source, i, state, column, hasCode, comment>> BY DEF EndOfSource
<1>2. i \in Nat BY LenProperties DEF IInv, TypeOK
<1>3. HasOddSplice' <=> HasOddSplice BY <1>1, SourceKept
<1> SUFFICES ASSUME ~HasOddSplice PROVE StandInv' /\ \A k \in 1..Len(items') : Stands(k)'
  BY <1>3 DEF TrailInv
<1>4. StandInv' BY <1>1, StandStays DEF TrailInv
<1>5. CASE InLineComment
  <2>1. Records(i) /\ (comment.trailing <=> HasCodeBefore(comment.start))
    BY <1>5 DEF EndOfSource, InLineComment, InComment, TrailInv, StandInv
  <2> QED BY <1>1, <1>2, <1>4, <2>1, StandsRecorded DEF TrailInv
<1>6. CASE ~InLineComment BY <1>1, <1>4, <1>6, StandsQuiet DEF EndOfSource, TrailInv
<1> QED BY <1>5, <1>6

LEMMA TrailHolds == Spec => []TrailInv
<1>1. Init => TrailInv
  <2> SUFFICES ASSUME Init PROVE TrailInv OBVIOUS
  <2>1. i = 1 /\ state = "code" /\ items = <<>> /\ hasCode = FALSE BY DEF Init
  <2>2. NonePending(i - 1) /\ ~HasCodeBefore(i) BY <2>1 DEF NonePending, HasCodeBefore
  <2>3. StandInv BY <2>1, <2>2 DEF StandInv, InComment
  <2>4. \A k \in 1..Len(items) : Stands(k) BY <2>1
  <2> QED BY <2>3, <2>4 DEF TrailInv
<1>2. IInv /\ BlankInv /\ ColumnInv /\ TrailInv /\ [Next]_vars => TrailInv'
  <2> SUFFICES ASSUME IInv, BlankInv, ColumnInv, TrailInv, [Next]_vars PROVE TrailInv'
    OBVIOUS
  <2>1. CASE UNCHANGED vars
    <3>1. source' = source BY <2>1 DEF vars
    <3>2. HasOddSplice' <=> HasOddSplice BY <3>1, SourceKept
    <3>3. CASE ~HasOddSplice
      BY <2>1, <3>1, <3>3, StandStays, StandsQuiet DEF vars, TrailInv
    <3> QED BY <3>2, <3>3 DEF TrailInv
  <2> QED BY <2>1, TrailScan, TrailEnd DEF Next
<1> QED BY <1>1, <1>2, Invariance, BlankHolds, ColumnsHold, PTL DEF Spec

\* Behind any source, a comment has the column of its opener, and when no backslash
\* of the source is read in another way than the compiler's, it is trailing exactly
\* when its logical line has code before it.
THEOREM SpansSayWhereTheyStandHolds == Spec => []SpansSayWhereTheyStand
<1>1. ColumnInv /\ TrailInv => SpansSayWhereTheyStand
  BY DEF ColumnInv, TrailInv, Stands, SpansSayWhereTheyStand
<1> QED BY <1>1, ColumnsHold, TrailHolds, PTL

-----------------------------------------------------------------------------
(* What a rewrite makes of the blocks and of the bytes between them.       *)

Opener == {"//", "//!", "///", "/*", "/*!", "/**"}
Block == [start : Nat, end : Nat, opener : Opener, column : Nat, crlf : BOOLEAN]
Piece == [how : {"copy", "refill"}, from : Nat, to : Nat, crlf : BOOLEAN]

\* The first span that is not of a block, nor passed over.
Open == IF first = 0 THEN index ELSE first

\* The blocks are in order, within the source, and before the spans to come.
GroupInv ==
  /\ index \in 1 .. Len(items) + 1 /\ grouped \in Seq(Block)
  /\ first \in Nat /\ (first # 0 => first <= index /\ index <= Len(items))
  /\ ~ done => index = 1 /\ first = 0 /\ grouped = <<>>
  /\ \A k \in 1 .. Len(grouped) :
       /\ 1 <= grouped[k].start /\ grouped[k].start < grouped[k].end
       /\ grouped[k].end <= Len(source) + 1
       /\ \A n \in Open .. Len(items) : grouped[k].end <= items[n].start
  /\ \A j, k \in 1 .. Len(grouped) : j < k => grouped[j].end <= grouped[k].start

\* The pieces of a buffer follow one another, and where the last one ends.
IsChain(b) ==
  \A k \in 1 .. Len(b) : b[k].from <= b[k].to /\ b[k].from = IF k = 1 THEN 1 ELSE b[k - 1].to
EndOf(b) == IF Len(b) = 0 THEN 1 ELSE b[Len(b)].to

\* The cursor is where the pieces end, and not past the blocks to come.
CursorInv ==
  /\ turn \in 1 .. Len(grouped) + 1 /\ cursor \in 1 .. Len(source) + 1
  /\ buffer \in Seq(Piece) /\ finished \in BOOLEAN /\ IsChain(buffer)
  /\ ~ IsGrouped => turn = 1 /\ cursor = 1 /\ buffer = <<>> /\ ~ finished
  /\ \A k \in turn .. Len(grouped) : cursor <= grouped[k].start
  /\ ~ finished => EndOf(buffer) = cursor
  /\ finished => Len(buffer) > 0 /\ EndOf(buffer) = Len(source) + 1 /\ turn > Len(grouped)

SourceInv == IInv /\ GroupInv /\ CursorInv

-----------------------------------------------------------------------------
\* A piece that begins where the buffer ends.
LEMMA PieceAppends ==
  ASSUME NEW b \in Seq(Piece), NEW p \in Piece,
         IsChain(b), p.from = EndOf(b), p.from <= p.to
  PROVE  /\ Append(b, p) \in Seq(Piece) /\ IsChain(Append(b, p))
         /\ EndOf(Append(b, p)) = p.to /\ Len(Append(b, p)) > 0
<1>1. /\ Append(b, p) \in Seq(Piece) /\ Len(b) \in Nat /\ Len(Append(b, p)) = Len(b) + 1
      /\ \A k \in 1 .. Len(b) : Append(b, p)[k] = b[k]
      /\ Append(b, p)[Len(b) + 1] = p
  BY AppendProperties
<1>2. ASSUME NEW k \in 1 .. Len(b) + 1
      PROVE  /\ Append(b, p)[k].from <= Append(b, p)[k].to
             /\ Append(b, p)[k].from = IF k = 1 THEN 1 ELSE Append(b, p)[k - 1].to
  <2>1. CASE k \in 1 .. Len(b) BY <1>1, <2>1 DEF IsChain
  <2>2. CASE k = Len(b) + 1 BY <1>1, <2>2 DEF EndOf
  <2> QED BY <1>1, <2>1, <2>2
<1> QED BY <1>1, <1>2 DEF IsChain, EndOf

\* What the spans are.
LEMMA ItemFacts ==
  ASSUME IInv
  PROVE  /\ Len(items) \in Nat /\ Len(source) \in Nat
         /\ \A k \in 1 .. Len(items) :
              /\ items[k] \in Item /\ items[k].start \in Nat /\ items[k].end \in Nat
              /\ 1 <= items[k].start /\ items[k].start < items[k].end
              /\ items[k].end <= Len(source) + 1
<1>1. items \in Seq(Item) /\ source \in Seq(Byte) /\ i \in 1 .. Len(source) + 1
  BY DEF IInv, TypeOK, Item
<1>2. Len(items) \in Nat /\ Len(source) \in Nat BY <1>1, LenProperties
<1>3. \A k \in 1 .. Len(items) : items[k] \in Item BY <1>1, ElementOfSeq
<1>4. \A k \in 1 .. Len(items) : items[k].start \in Nat /\ items[k].end \in Nat
  BY <1>3 DEF Item
<1> QED BY <1>1, <1>2, <1>3, <1>4 DEF IInv, SpansInOrder

-----------------------------------------------------------------------------
(* The steps of the grouping *)

\* While the scan goes on there is no block and no output.
LEMMA LexesStep == ASSUME SourceInv, Lexes PROVE GroupInv'
<1>1. IInv' BY NextInv DEF SourceInv, Lexes
<1>2. ~ done /\ source' = source BY DEF Lexes, Next, Scan, Advance, EndOfSource
<1>3. /\ index = 1 /\ first = 0 /\ grouped = <<>> /\ UNCHANGED groupVars
  BY <1>2 DEF SourceInv, GroupInv, Lexes
<1>4. Len(items') \in Nat
  <2>1. items' \in Seq(Item) BY <1>1 DEF IInv, TypeOK, Item
  <2> QED BY <2>1, LenProperties
<1>5. GroupInv' BY <1>3, <1>4 DEF GroupInv, groupVars
<1> QED BY <1>5

\* A step of the grouping, before there is output.
LEMMA BeforeOutput ==
  ASSUME CursorInv, ~ IsGrouped, GroupInv', UNCHANGED <<source, rewriteVars>>,
         Len(source) \in Nat
  PROVE  CursorInv'
<1>1. turn = 1 /\ cursor = 1 /\ buffer = <<>> /\ finished = FALSE BY DEF CursorInv
<1>2. turn' = 1 /\ cursor' = 1 /\ buffer' = <<>> /\ finished' = FALSE BY <1>1 DEF rewriteVars
<1>3. Len(grouped') \in Nat BY LenProperties DEF GroupInv
<1>4. \A k \in 1 .. Len(grouped') : 1 <= grouped'[k].start BY DEF GroupInv
<1>5. <<>> \in Seq(Piece) /\ Len(<<>>) = 0 OBVIOUS
<1>6. buffer' \in Seq(Piece) /\ IsChain(buffer') /\ EndOf(buffer') = 1
  BY <1>2, <1>5 DEF IsChain, EndOf
<1>7. turn' \in 1 .. Len(grouped') + 1 /\ cursor' \in 1 .. Len(source') + 1
  BY <1>2, <1>3
<1>8. \A k \in turn' .. Len(grouped') : cursor' <= grouped'[k].start BY <1>2, <1>4
<1> QED BY <1>2, <1>6, <1>7, <1>8 DEF CursorInv

\* Going on to a later span leaves the blocks before those to come.
LEMMA LaterSpan ==
  ASSUME SourceInv, done, UNCHANGED <<vars, grouped>>,
         index' \in 1 .. Len(items) + 1, first' \in Nat,
         first' # 0 => first' <= index' /\ index' <= Len(items), Open' >= Open
  PROVE  GroupInv'
<1>1. Len(items) \in Nat BY ItemFacts DEF SourceInv
<1>2. Open \in Nat /\ Open' \in Nat BY <1>1 DEF SourceInv, GroupInv, Open
<1>3. \A n \in Open' .. Len(items) : n \in Open .. Len(items) BY <1>1, <1>2
<1>4. \A k \in 1 .. Len(grouped) : \A n \in Open' .. Len(items) :
        grouped[k].end <= items[n].start
  BY <1>3 DEF SourceInv, GroupInv
<1>5. UNCHANGED <<source, items, done, grouped>> BY DEF vars
<1> QED BY <1>4, <1>5 DEF SourceInv, GroupInv

\* SkipSpan, OpenBlock and ExtendRun keep no block.
LEMMA PassStep == ASSUME SourceInv, SkipSpan \/ OpenBlock \/ ExtendRun PROVE GroupInv'
<1>1. Len(items) \in Nat /\ index \in 1 .. Len(items) + 1 /\ first \in Nat
  BY ItemFacts DEF SourceInv, GroupInv
<1>2. CASE SkipSpan BY <1>1, <1>2, LaterSpan DEF SkipSpan, Open
<1>3. CASE OpenBlock BY <1>1, <1>3, LaterSpan DEF OpenBlock, Open
<1>4. CASE ExtendRun
  <2>1. first # 0 => first <= index BY DEF SourceInv, GroupInv
  <2> QED BY <1>1, <1>4, <2>1, LaterSpan DEF ExtendRun, IsLineRunContinuation, Open
<1> QED BY <1>2, <1>3, <1>4

\* A closed block stands between the blocks before it and the spans to come.
LEMMA CloseBlockStep == ASSUME SourceInv, CloseBlock PROVE GroupInv'
<1> DEFINE new == [start |-> items[first].start, end |-> items[index].end,
                   opener |-> SpanOpener(items[first]), column |-> items[first].column,
                   crlf |-> HasCrlfNewlines(items[first])]
<1>1. /\ first \in 1 .. Len(items) /\ index \in 1 .. Len(items) /\ first <= index
      /\ Len(items) \in Nat /\ Len(source) \in Nat
      /\ first' = 0 /\ index' = index + 1 /\ done
      /\ UNCHANGED <<source, items, done>>
  BY ItemFacts DEF SourceInv, GroupInv, CloseBlock, vars
<1>2. /\ items[first] \in Item /\ items[first].start \in Nat /\ items[index].end \in Nat
      /\ 1 <= items[first].start /\ items[first].start < items[index].end
      /\ items[index].end <= Len(source) + 1
  <2>1. items[first].start < items[first].end /\ items[first].end \in Nat
    BY <1>1, ItemFacts DEF SourceInv
  <2>2. first < index => items[first].end <= items[index].start
    BY <1>1 DEF SourceInv, IInv, SpansInOrder
  <2>3. items[index].start < items[index].end /\ items[index].start \in Nat
    BY <1>1, ItemFacts DEF SourceInv
  <2>4. /\ items[first] \in Item /\ items[first].start \in Nat /\ items[index].end \in Nat
        /\ 1 <= items[first].start /\ items[index].end <= Len(source) + 1
    BY <1>1, ItemFacts DEF SourceInv
  <2> QED BY <1>1, <2>1, <2>2, <2>3, <2>4
<1>3. new \in Block
  <2>1. SpanOpener(items[first]) \in Opener BY DEF SpanOpener, Opener
  <2>2. items[first].column \in Nat BY <1>2 DEF Item
  <2>3. HasCrlfNewlines(items[first]) \in BOOLEAN BY DEF HasCrlfNewlines
  <2> QED BY <1>2, <2>1, <2>2, <2>3 DEF Block
<1>4. new.start = items[first].start /\ new.end = items[index].end OBVIOUS
<1>5. grouped' = Append(grouped, new) \/ grouped' = grouped BY DEF CloseBlock
<1> HIDE DEF new
<1>6. Open' = index + 1 /\ Open = first BY <1>1 DEF Open
<1>7. \A n \in Open' .. Len(items) :
        n \in Open .. Len(items) /\ items[index].end <= items[n].start
  BY <1>1, <1>6 DEF SourceInv, IInv, SpansInOrder
<1>8. CASE grouped' = grouped
  BY <1>1, <1>6, <1>7, <1>8 DEF SourceInv, GroupInv
<1>9. CASE grouped' = Append(grouped, new)
  <2>1. /\ grouped' \in Seq(Block) /\ Len(grouped) \in Nat
        /\ Len(grouped') = Len(grouped) + 1
        /\ \A k \in 1 .. Len(grouped) : grouped'[k] = grouped[k]
        /\ grouped'[Len(grouped) + 1] = new
    BY <1>3, <1>9, AppendProperties DEF SourceInv, GroupInv
  <2>2. \A k \in 1 .. Len(grouped) : grouped[k].end <= new.start
    <3>1. first \in Open .. Len(items) BY <1>1, <1>6
    <3> QED BY <1>4, <3>1 DEF SourceInv, GroupInv
  <2>3. ASSUME NEW k \in 1 .. Len(grouped')
        PROVE  /\ 1 <= grouped'[k].start /\ grouped'[k].start < grouped'[k].end
               /\ grouped'[k].end <= Len(source) + 1
               /\ \A n \in Open' .. Len(items) : grouped'[k].end <= items[n].start
    <3>1. CASE k \in 1 .. Len(grouped) BY <1>7, <2>1, <3>1 DEF SourceInv, GroupInv
    <3>2. CASE k = Len(grouped) + 1 BY <1>2, <1>4, <1>7, <2>1, <3>2
    <3> QED BY <2>1, <3>1, <3>2
  <2>4. ASSUME NEW j \in 1 .. Len(grouped'), NEW k \in 1 .. Len(grouped'), j < k
        PROVE  grouped'[j].end <= grouped'[k].start
    <3>1. j \in 1 .. Len(grouped) BY <2>1, <2>4
    <3>2. CASE k \in 1 .. Len(grouped) BY <2>1, <2>4, <3>1, <3>2 DEF SourceInv, GroupInv
    <3>3. CASE k = Len(grouped) + 1 BY <2>1, <2>2, <3>1, <3>3
    <3> QED BY <2>1, <3>2, <3>3
  <2>5. index' \in 1 .. Len(items) + 1 BY <1>1
  <2> QED BY <1>1, <2>1, <2>3, <2>4, <2>5 DEF GroupInv
<1> QED BY <1>5, <1>8, <1>9

-----------------------------------------------------------------------------
(* The steps over the blocks *)

\* A block is in the source, and holds a byte.
LEMMA BlockFacts ==
  ASSUME SourceInv, NEW k \in 1 .. Len(grouped)
  PROVE  /\ grouped[k] \in Block /\ grouped[k].start \in Nat /\ grouped[k].end \in Nat
         /\ grouped[k].start < grouped[k].end /\ grouped[k].end <= Len(source) + 1
         /\ 1 <= grouped[k].start
<1>1. grouped \in Seq(Block) BY DEF SourceInv, GroupInv
<1>2. grouped[k] \in Block BY <1>1, ElementOfSeq
<1> QED BY <1>2 DEF Block, SourceInv, GroupInv

\* The bytes up to a block bring the buffer to where the block begins.
LEMMA GapReaches ==
  ASSUME SourceInv, NEW b \in Block, cursor <= b.start, ~ finished
  PROVE  /\ buffer \o Gap(b) \in Seq(Piece) /\ IsChain(buffer \o Gap(b))
         /\ EndOf(buffer \o Gap(b)) = b.start
<1>1. /\ buffer \in Seq(Piece) /\ IsChain(buffer) /\ EndOf(buffer) = cursor
      /\ cursor \in Nat /\ b.start \in Nat
  BY ItemFacts DEF SourceInv, CursorInv, Block
<1>2. CASE b.start > cursor
  <2>1. Copy(cursor, b.start) \in Piece BY <1>1 DEF Copy, Piece
  <2>2. Copy(cursor, b.start).from = cursor /\ Copy(cursor, b.start).to = b.start BY DEF Copy
  <2>3. buffer \o Gap(b) = Append(buffer, Copy(cursor, b.start))
    BY <1>1, <1>2, <2>1 DEF Gap
  <2> QED BY <1>1, <1>2, <2>1, <2>2, <2>3, PieceAppends
<1>3. CASE ~ (b.start > cursor)
  <2>1. buffer \o Gap(b) = buffer BY <1>1, <1>3 DEF Gap
  <2> QED BY <1>1, <1>3, <2>1
<1> QED BY <1>2, <1>3

\* The next block, whatever becomes of it.
LEMMA TurnStep ==
  ASSUME SourceInv, NEW piece \in Piece, Turn(piece),
         piece.from = grouped[turn].start, piece.to = grouped[turn].end
  PROVE  GroupInv' /\ CursorInv'
<1> DEFINE b == grouped[turn]
<1>0. /\ turn \in 1 .. Len(grouped) /\ turn' = turn + 1 /\ cursor' = b.end
      /\ UNCHANGED <<vars, groupVars>> /\ finished' = finished /\ IsGrouped
      /\ Len(source) \in Nat /\ Len(grouped) \in Nat
  BY ItemFacts, LenProperties DEF Turn, CursorPast, SourceInv, CursorInv, GroupInv
<1>1. ~ finished BY <1>0 DEF SourceInv, CursorInv
<1>2. /\ b \in Block /\ b.start \in Nat /\ b.end \in Nat /\ b.start < b.end
      /\ b.end <= Len(source) + 1 /\ 1 <= b.start
  BY <1>0, BlockFacts
<1>3. cursor <= b.start BY <1>0 DEF SourceInv, CursorInv
<1>4. /\ buffer \o Gap(b) \in Seq(Piece) /\ IsChain(buffer \o Gap(b))
      /\ EndOf(buffer \o Gap(b)) = b.start
  BY <1>1, <1>2, <1>3, GapReaches
<1>5. buffer' = Append(buffer \o Gap(b), piece) BY <1>4 DEF Turn
<1>6. buffer' \in Seq(Piece) /\ IsChain(buffer') /\ EndOf(buffer') = b.end
  <2> DEFINE before == buffer \o Gap(b)
  <2>1. before \in Seq(Piece) /\ IsChain(before) /\ EndOf(before) = piece.from BY <1>4
  <2>2. piece.from <= piece.to /\ piece.to = b.end BY <1>2
  <2> HIDE DEF before, b
  <2>3. /\ Append(before, piece) \in Seq(Piece) /\ IsChain(Append(before, piece))
        /\ EndOf(Append(before, piece)) = piece.to
    BY <2>1, <2>2, PieceAppends
  <2>4. buffer' = Append(before, piece) BY <1>5 DEF before
  <2> QED BY <2>2, <2>3, <2>4
<1>7. \A k \in turn' .. Len(grouped) : cursor' <= grouped[k].start
  BY <1>0 DEF SourceInv, GroupInv
<1>8. UNCHANGED <<source, items, done, index, first, grouped>>
  BY <1>0 DEF vars, groupVars
<1>9. GroupInv' BY <1>8 DEF SourceInv, GroupInv, Open
<1>10. IsGrouped' BY <1>0, <1>8 DEF IsGrouped
<1>11. turn' \in 1 .. Len(grouped) + 1 /\ cursor' \in 1 .. Len(source) + 1
  BY <1>0, <1>2
<1>12. ~ finished' /\ finished' \in BOOLEAN BY <1>0, <1>1 DEF SourceInv, CursorInv
<1> HIDE DEF b
<1>13. CursorInv'
  BY <1>0, <1>6, <1>7, <1>8, <1>10, <1>11, <1>12 DEF CursorInv
<1> QED BY <1>9, <1>13

\* A block that is kept and one that is refilled.
LEMMA BlockStep == ASSUME SourceInv, KeepBlock \/ RefillBlock PROVE GroupInv' /\ CursorInv'
<1> DEFINE b == grouped[turn]
<1>1. turn \in 1 .. Len(grouped)
  BY LenProperties DEF KeepBlock, RefillBlock, Turn, SourceInv, CursorInv, GroupInv
<1>2. b \in Block /\ b.start \in Nat /\ b.end \in Nat BY <1>1, BlockFacts
<1>3. CASE KeepBlock
  <2>1. Copy(b.start, b.end) \in Piece BY <1>2 DEF Copy, Piece
  <2> QED BY <1>3, <2>1, TurnStep DEF KeepBlock, Copy
<1>4. CASE RefillBlock
  <2>1. Refilled(b) \in Piece BY <1>2 DEF Refilled, Piece, Block
  <2> QED BY <1>4, <2>1, TurnStep DEF RefillBlock, Refilled
<1> QED BY <1>3, <1>4

\* The rest of the source ends the output.
LEMMA CopyTailStep == ASSUME SourceInv, CopyTail PROVE GroupInv' /\ CursorInv'
<1> DEFINE tail == Copy(cursor, Len(source) + 1)
<1>1. /\ UNCHANGED <<vars, groupVars, turn, cursor>> /\ turn > Len(grouped) /\ IsGrouped
      /\ finished' = TRUE /\ ~ finished /\ buffer' = Append(buffer, tail)
      /\ Len(source) \in Nat
  BY ItemFacts DEF CopyTail, SourceInv
<1>2. /\ buffer \in Seq(Piece) /\ IsChain(buffer) /\ EndOf(buffer) = cursor
      /\ cursor \in 1 .. Len(source) + 1
  BY <1>1 DEF SourceInv, CursorInv
<1>3. /\ tail \in Piece /\ tail.from = cursor /\ tail.to = Len(source) + 1
      /\ tail.from <= tail.to
  BY <1>1, <1>2 DEF Copy, Piece
<1> HIDE DEF tail
<1>4. /\ buffer' \in Seq(Piece) /\ IsChain(buffer') /\ EndOf(buffer') = Len(source) + 1
      /\ Len(buffer') > 0
  BY <1>1, <1>2, <1>3, PieceAppends
<1>5. UNCHANGED <<source, items, done, index, first, grouped, turn, cursor>>
  BY <1>1 DEF vars, groupVars
<1>6. GroupInv' BY <1>5 DEF SourceInv, GroupInv, Open
<1>7. IsGrouped' BY <1>1, <1>5 DEF IsGrouped
<1>8. CursorInv' BY <1>1, <1>4, <1>5, <1>7 DEF SourceInv, CursorInv
<1> QED BY <1>6, <1>8

-----------------------------------------------------------------------------

\* The parts of the invariant hold together in every state of a rewrite.
THEOREM SourceInvariance == RewriteSpec => []SourceInv
<1>1. RewriteInit => SourceInv
  <2> SUFFICES ASSUME RewriteInit PROVE SourceInv OBVIOUS
  <2>1. Init /\ items = <<>> /\ ~ done BY DEF RewriteInit, GroupInit, Init
  <2>2. IInv BY <2>1, InitInv
  <2>3. /\ index = 1 /\ first = 0 /\ grouped = <<>> /\ turn = 1 /\ cursor = 1
        /\ buffer = <<>> /\ finished = FALSE
    BY DEF RewriteInit, GroupInit
  <2>4. Len(source) \in Nat BY <2>2, ItemFacts
  <2>5. /\ <<>> \in Seq(Block) /\ <<>> \in Seq(Piece) /\ Len(<<>>) = 0 /\ Len(items) = 0
    BY <2>1
  <2>6. GroupInv BY <2>3, <2>5 DEF GroupInv
  <2>7. buffer \in Seq(Piece) /\ IsChain(buffer) /\ EndOf(buffer) = 1
    BY <2>3, <2>5 DEF IsChain, EndOf
  <2>8. turn \in 1 .. Len(grouped) + 1 /\ cursor \in 1 .. Len(source) + 1
    BY <2>3, <2>4, <2>5
  <2>9. \A k \in turn .. Len(grouped) : cursor <= grouped[k].start BY <2>3, <2>5
  <2>10. CursorInv BY <2>3, <2>7, <2>8, <2>9 DEF CursorInv
  <2> QED BY <2>2, <2>6, <2>10 DEF SourceInv
<1>2. SourceInv /\ [RewriteNext]_<<vars, groupVars, rewriteVars>> => SourceInv'
  <2> SUFFICES ASSUME SourceInv, [RewriteNext]_<<vars, groupVars, rewriteVars>>
               PROVE  SourceInv'
    OBVIOUS
  <2>1. Len(source) \in Nat BY ItemFacts DEF SourceInv
  <2>2. IInv'
    <3>1. [Next]_vars
      BY DEF RewriteNext, Groups, GroupNext, Lexes, SkipSpan, OpenBlock, ExtendRun,
             CloseBlock, KeepBlock, RefillBlock, Turn, CopyTail
    <3> QED BY <3>1, NextInv DEF SourceInv
  <2>3. CASE Groups
    <3>1. GroupInv'
      BY <2>3, LexesStep, PassStep, CloseBlockStep DEF Groups, GroupNext
    <3>2. ~ IsGrouped
      BY <2>3 DEF Groups, GroupNext, Lexes, Next, Scan, Advance, EndOfSource, SkipSpan,
                  OpenBlock, ExtendRun, CloseBlock, IsGrouped, SourceInv, GroupInv
    <3>3. source' = source
      BY <2>3 DEF Groups, GroupNext, Lexes, Next, Scan, Advance, EndOfSource, SkipSpan,
                  OpenBlock, ExtendRun, CloseBlock, vars
    <3>4. CursorInv' BY <2>1, <2>3, <3>1, <3>2, <3>3, BeforeOutput DEF Groups, SourceInv
    <3> QED BY <2>2, <3>1, <3>4 DEF SourceInv
  <2>4. CASE KeepBlock \/ RefillBlock BY <2>2, <2>4, BlockStep DEF SourceInv
  <2>5. CASE CopyTail BY <2>2, <2>5, CopyTailStep DEF SourceInv
  <2>6. CASE UNCHANGED <<vars, groupVars, rewriteVars>>
    <3>1. UNCHANGED <<source, items, done, index, first, grouped, turn, cursor, buffer, finished>>
      BY <2>6 DEF vars, groupVars, rewriteVars
    <3>2. GroupInv' BY <3>1 DEF SourceInv, GroupInv, Open
    <3>3. CursorInv' BY <3>1 DEF SourceInv, CursorInv, IsGrouped, IsChain, EndOf
    <3> QED BY <2>2, <3>2, <3>3 DEF SourceInv
  <2> QED BY <2>3, <2>4, <2>5, <2>6 DEF RewriteNext
<1> QED BY <1>1, <1>2, PTL DEF RewriteSpec

\* For any source and width, a rewrite copies or refills every byte of the source once
\* and in order: the bytes outside the refilled comments do not change.
THEOREM EveryByteOnceHolds == RewriteSpec => []EveryByteOnce
<1>1. SourceInv => EveryByteOnce
  <2> SUFFICES ASSUME SourceInv PROVE EveryByteOnce OBVIOUS
  <2>1. Len(buffer) \in Nat BY LenProperties DEF SourceInv, CursorInv
  <2>2. buffer = <<>> => Len(buffer) = 0 OBVIOUS
  <2> QED BY <2>1, <2>2 DEF SourceInv, CursorInv, EveryByteOnce, IsChain, EndOf
<1> QED BY <1>1, SourceInvariance, PTL

-----------------------------------------------------------------------------
(* The runs that are refilled *)

\* The bytes a comment begins with, and those behind the end of a line comment.
HasMarker(start, kind) ==
  source[start] = "sl" /\ source[start + 1] = IF kind = "line" THEN "sl" ELSE "st"

EndsAsLine(p) ==
  \/ p = Len(source) + 1
  \/ p <= Len(source) /\ IsNl(p) /\ source[p - 1] # "cr"
  \/ p + 1 <= Len(source) /\ source[p] = "cr" /\ IsNl(p + 1)

IsSpan(span) ==
  /\ span.start + 2 <= span.end /\ HasMarker(span.start, span.kind)
  /\ span.kind = "line" => EndsAsLine(span.end)
  /\ span.kind = "block" => source[span.end - 1] = "sl"

BytesInv ==
  /\ state \in {"line", "line_bsl"} => comment.kind = "line"
  /\ state \in {"block", "star"} => comment.kind = "block"
  /\ state \in InComment => HasMarker(comment.start, comment.kind)
  /\ \A k \in 1..Len(items) : IsSpan(items[k])

\* The block that is made of a run.
BlockOf(r) ==
  [start |-> items[r[1]].start, end |-> items[r[2]].end, opener |-> SpanOpener(items[r[1]]),
   column |-> items[r[1]].column, crlf |-> HasCrlfNewlines(items[r[1]])]

Matches(j, k) ==
  /\ items[k].kind = items[j].kind /\ items[k].column = items[j].column
  /\ SpanOpener(items[k]) = SpanOpener(items[j]) /\ IsSpanRewritable(items[k])

\* The run so far is the start of a longest one, and the runs before it are the blocks.
RunInv ==
  /\ first = 0 => \A k \in 1..Len(items) - 1 : k = index - 1 => ~AreOneComment(k)
  /\ first # 0 =>
       /\ IsSpanRewritable(items[first]) /\ Matches(first, index)
       /\ \A k \in first..index - 1 : AreOneComment(k)
       /\ first > 1 => ~AreOneComment(first - 1)
  /\ \A k \in 1..Len(grouped) : \E r \in Runs : grouped[k] = BlockOf(r)
  /\ \A r \in Runs : r[1] < Open => \E k \in 1..Len(grouped) : grouped[k] = BlockOf(r)

\* The blocks that do not fit are refilled up to where the rewrite is, and no others.
RefillInv ==
  /\ \A k \in 1..Len(buffer) : buffer[k].how = "refill" =>
       \E j \in 1..turn - 1 :
         ~IsFittingOneLineBlock(grouped[j]) /\ buffer[k] = Refilled(grouped[j])
  /\ \A j \in 1..turn - 1 : ~IsFittingOneLineBlock(grouped[j]) =>
       \E k \in 1..Len(buffer) : buffer[k] = Refilled(grouped[j])

\* What is said of the bytes of a comment does not change.
LEMMA BytesKept ==
  ASSUME source' = source
  PROVE  /\ \A s, kind : HasMarker(s, kind)' <=> HasMarker(s, kind)
         /\ \A span : IsSpan(span)' <=> IsSpan(span)
<1>1. \A p : EndsAsLine(p)' <=> EndsAsLine(p) BY DEF EndsAsLine, IsNl
<1>2. \A s, kind : HasMarker(s, kind)' <=> HasMarker(s, kind) BY DEF HasMarker
<1> QED BY <1>1, <1>2 DEF IsSpan

\* A step that records nothing and opens no comment, and stays in the kind it is in.
LEMMA BytesQuiet ==
  ASSUME BytesInv, UNCHANGED <<source, comment, items>>,
         \/ state' \notin InComment
         \/ {state, state'} \subseteq {"line", "line_bsl"}
         \/ {state, state'} \subseteq {"block", "star"}
  PROVE  BytesInv'
<1>1. \A k \in 1..Len(items') : IsSpan(items[k])' BY BytesKept DEF BytesInv
<1>2. state' \in InComment => HasMarker(comment.start, comment.kind)'
  BY BytesKept DEF BytesInv, InComment
<1>3. /\ state' \in {"line", "line_bsl"} => comment'.kind = "line"
      /\ state' \in {"block", "star"} => comment'.kind = "block"
  BY DEF BytesInv, InComment
<1> QED BY <1>1, <1>2, <1>3 DEF BytesInv

LEMMA BytesRecorded ==
  ASSUME IInv, BytesInv, NEW end \in Nat, Records(end), UNCHANGED <<source, comment>>,
         state \in InComment, state' \notin InComment \/ state' = state,
         comment.start + 2 <= end,
         comment.kind = "line" => EndsAsLine(end),
         comment.kind = "block" => source[end - 1] = "sl"
  PROVE  BytesInv'
<1> DEFINE e == [kind |-> comment.kind, start |-> comment.start, end |-> end,
                 column |-> comment.column, trailing |-> comment.trailing]
<1>1. items \in Seq(Item) /\ comment \in Comment BY DEF IInv, TypeOK, Item, Comment
<1>2. e \in Item BY <1>1 DEF Item, Comment
<1>3. /\ Len(items) \in Nat /\ Len(items') = Len(items) + 1
      /\ \A k \in 1..Len(items) : items'[k] = items[k]
      /\ items'[Len(items) + 1] = e
  BY <1>1, <1>2, AppendProperties DEF Records
<1>4. IsSpan(e) BY DEF IsSpan, BytesInv
<1> HIDE DEF e
<1>5. ASSUME NEW k \in 1..Len(items') PROVE IsSpan(items'[k])
  <2>1. CASE k \in 1..Len(items) BY <1>3, <2>1 DEF BytesInv
  <2>2. CASE k = Len(items) + 1 BY <1>3, <1>4, <2>2
  <2> QED BY <1>3, <2>1, <2>2
<1>6. \A k \in 1..Len(items') : IsSpan(items[k])' BY <1>5 DEF IsSpan, EndsAsLine, HasMarker, IsNl
<1>7. state' \in InComment => HasMarker(comment.start, comment.kind)'
  BY DEF BytesInv, HasMarker
<1>8. /\ state' \in {"line", "line_bsl"} => comment'.kind = "line"
      /\ state' \in {"block", "star"} => comment'.kind = "block"
  BY DEF BytesInv, InComment
<1> QED BY <1>6, <1>7, <1>8 DEF BytesInv

LEMMA BytesScan == ASSUME IInv, ColumnInv, BytesInv, Scan PROVE BytesInv'
<1>1. /\ i \in Nat /\ i >= 1 /\ i' = i + 1 /\ source' = source /\ ~done
  BY AdvanceFacts DEF Scan
<1>2. i \in 1..Len(source) /\ Len(source) \in Nat
  BY <1>1, LenProperties DEF Scan, Advance, IInv, TypeOK
<1>3. state \in InComment => comment.start \in Nat /\ comment.start + 2 <= i
  BY <1>1 DEF IInv, TypeOK, OpenInv
<1>4. CASE Code BY <1>1, <1>4, BytesQuiet DEF Code, NewLine, To, InComment
<1>5. CASE Slash
  <2>1. CASE c \in {"sl", "st"}
    <3>1. i >= 2 /\ source[i - 1] = "sl" BY <1>5 DEF Slash, ColumnInv
    <3>2. /\ comment'.start = i - 1 /\ items' = items
          /\ \/ c = "sl" /\ comment'.kind = "line" /\ state' = "line"
             \/ c = "st" /\ comment'.kind = "block" /\ state' = "block"
      BY <1>5, <2>1 DEF Slash, Opens, To
    <3>3. (i - 1) + 1 = i BY <1>1
    <3>4. HasMarker(comment'.start, comment'.kind) BY <3>1, <3>2, <3>3 DEF HasMarker, c
    <3>5. HasMarker(comment.start, comment.kind)' BY <1>1, <3>4 DEF HasMarker
    <3>6. \A k \in 1..Len(items') : IsSpan(items[k])' BY <1>1, <3>2, BytesKept DEF BytesInv
    <3> QED BY <3>2, <3>5, <3>6 DEF BytesInv
  <2>2. CASE c \notin {"sl", "st"}
    BY <1>1, <1>5, <2>2, BytesQuiet DEF Slash, NewLine, To, InComment
  <2> QED BY <2>1, <2>2
<1>6. CASE LineComment
  <2>1. CASE c = "nl"
    <3>1. /\ Records(LineEnd) /\ state' \notin InComment /\ comment' = comment
          /\ state \in InComment /\ comment.kind = "line"
      BY <1>6, <2>1 DEF LineComment, NewLine, To, InComment, BytesInv
    <3>2. HasMarker(comment.start, "line") BY <3>1 DEF BytesInv
    <3>3. LineEnd \in Nat /\ comment.start + 2 <= LineEnd /\ EndsAsLine(LineEnd)
      <4>1. CASE source[i - 1] = "cr"
        <5>1. i - 1 # comment.start + 1 BY <3>2, <4>1 DEF HasMarker
        <5>2. LineEnd = i - 1 /\ (i - 1) + 1 = i BY <1>1, <4>1 DEF LineEnd
        <5>3. EndsAsLine(i - 1) BY <1>2, <2>1, <4>1, <5>2 DEF EndsAsLine, c, IsNl
        <5> QED BY <1>1, <1>3, <3>1, <5>1, <5>2, <5>3
      <4>2. CASE source[i - 1] # "cr"
        <5>1. LineEnd = i BY <4>2 DEF LineEnd
        <5>2. EndsAsLine(i) BY <1>2, <2>1, <4>2 DEF EndsAsLine, c, IsNl
        <5> QED BY <1>1, <1>3, <3>1, <5>1, <5>2
      <4> QED BY <4>1, <4>2
    <3> QED BY <1>1, <3>1, <3>3, BytesRecorded
  <2>2. CASE c # "nl"
    BY <1>1, <1>6, <2>2, BytesQuiet DEF LineComment, To, InComment
  <2> QED BY <2>1, <2>2
<1>7. CASE BlockStar
  <2>1. CASE c = "sl"
    <3>1. /\ Records(CloserEnd) /\ state' \notin InComment /\ comment' = comment
          /\ state \in InComment /\ comment.kind = "block"
      BY <1>7, <2>1 DEF BlockStar, To, InComment, BytesInv
    <3>2. CloserEnd \in Nat /\ CloserEnd - 1 = i /\ comment.start + 2 <= CloserEnd
      BY <1>1, <1>3, <3>1 DEF CloserEnd
    <3> QED BY <1>1, <2>1, <3>1, <3>2, BytesRecorded DEF c
  <2>2. CASE c # "sl"
    BY <1>1, <1>7, <2>2, BytesQuiet DEF BlockStar, AfterStar, To, InComment
  <2> QED BY <2>1, <2>2
<1>8. CASE LineCommentBackslash
  <2>1. {state, state'} \subseteq {"line", "line_bsl"}
    BY <1>8 DEF LineCommentBackslash, Splice, AfterLineBackslash, To
  <2> QED BY <1>1, <1>8, <2>1, BytesQuiet DEF LineCommentBackslash
<1>9. CASE BlockComment
  BY <1>1, <1>9, BytesQuiet DEF BlockComment, To, InComment
<1>10. CASE CodeBackslash
  <2>1. state' \in {"code", "code_bsl"} BY <1>10 DEF CodeBackslash, Splice, To
  <2> QED BY <1>1, <1>10, <2>1, BytesQuiet DEF CodeBackslash, InComment
<1>11. ASSUME NEW lit \in {"string", "char"}, NEW quote, NEW esc \in {"string_esc", "char_esc"},
              Literal(lit, quote, esc) \/ LiteralEscape(esc, lit)
       PROVE  BytesInv'
  <2>1. state' \in {"code", lit, esc} /\ UNCHANGED <<comment, items>>
    BY <1>11 DEF Literal, LiteralEscape, Splice, NewLine, To
  <2> QED BY <1>1, <2>1, BytesQuiet DEF InComment
<1>12. CASE Literal("string", "dq", "string_esc") \/ LiteralEscape("string_esc", "string")
  BY <1>11, <1>12
<1>13. CASE Literal("char", "sq", "char_esc") \/ LiteralEscape("char_esc", "char")
  BY <1>11, <1>13
<1> QED BY <1>4, <1>5, <1>6, <1>7, <1>8, <1>9, <1>10, <1>12, <1>13 DEF Scan

LEMMA BytesEnd == ASSUME IInv, BytesInv, EndOfSource PROVE BytesInv'
<1>1. UNCHANGED <<source, i, state, column, hasCode, comment>> /\ ~done /\ i = Len(source) + 1
  BY DEF EndOfSource
<1>2. i \in Nat BY LenProperties DEF IInv, TypeOK
<1>3. CASE InLineComment
  <2>1. /\ Records(i) /\ state \in InComment /\ state' = state /\ comment.kind = "line"
        /\ comment.start + 2 <= i
    BY <1>1, <1>3 DEF EndOfSource, InLineComment, InComment, BytesInv, IInv, OpenInv
  <2>2. EndsAsLine(i) BY <1>1 DEF EndsAsLine
  <2> QED BY <1>1, <1>2, <2>1, <2>2, BytesRecorded
<1>4. CASE ~InLineComment
  <2>1. \A k \in 1..Len(items') : IsSpan(items[k])'
    BY <1>1, <1>4, BytesKept DEF EndOfSource, BytesInv
  <2>2. HasMarker(comment.start, comment.kind)' <=> HasMarker(comment.start, comment.kind)
    BY <1>1 DEF HasMarker
  <2> QED BY <1>1, <2>1, <2>2 DEF BytesInv
<1> QED BY <1>3, <1>4

LEMMA BytesHold == Spec => []BytesInv
<1>1. Init => BytesInv BY DEF Init, BytesInv, InComment
<1>2. IInv /\ ColumnInv /\ BytesInv /\ [Next]_vars => BytesInv'
  <2> SUFFICES ASSUME IInv, ColumnInv, BytesInv, [Next]_vars PROVE BytesInv' OBVIOUS
  <2>1. CASE UNCHANGED vars
    BY <2>1 DEF vars, BytesInv, IsSpan, HasMarker, EndsAsLine, IsNl
  <2> QED BY <2>1, BytesScan, BytesEnd DEF Next
<1> QED BY <1>1, <1>2, Invariance, ColumnsHold, PTL DEF Spec

\* A rewrite scans its source: each of its steps is one of the scan, or none.
LEMMA RewriteScans == RewriteSpec => Spec
<1>1. RewriteInit => Init BY DEF RewriteInit, GroupInit
<1>2. [RewriteNext]_<<vars, groupVars, rewriteVars>> => [Next]_vars
  BY DEF RewriteNext, Groups, GroupNext, Lexes, SkipSpan, OpenBlock, ExtendRun, CloseBlock,
         KeepBlock, RefillBlock, Turn, CopyTail
<1> QED BY <1>1, <1>2, PTL DEF RewriteSpec, Spec

-----------------------------------------------------------------------------
(* The grouping makes the longest runs *)

\* What the scan is known to have found.
ScanInv == SourceInv /\ ColumnInv /\ BytesInv

LEMMA SpanFacts ==
  ASSUME ScanInv, NEW k \in 1..Len(items)
  PROVE  LET s == items[k]
         IN  /\ s.start \in Nat /\ s.end \in Nat /\ s.column \in Nat /\ s.kind \in Kind
             /\ 1 <= s.start /\ s.start + 2 <= s.end /\ s.end <= Len(source) + 1
             /\ s.start \in 1..Len(source) /\ s.column = ColumnAt[s.start] /\ IsSpan(s)
<1>1. /\ items[k] \in Item /\ items[k].start \in Nat /\ items[k].end \in Nat
      /\ 1 <= items[k].start /\ items[k].end <= Len(source) + 1 /\ Len(source) \in Nat
  BY ItemFacts DEF ScanInv, SourceInv
<1>2. items[k].column \in Nat /\ items[k].kind \in Kind BY <1>1 DEF Item
<1>3. IsSpan(items[k]) /\ items[k].start + 2 <= items[k].end BY DEF ScanInv, BytesInv, IsSpan
<1>4. items[k].column = ColumnAt[items[k].start] BY DEF ScanInv, ColumnInv
<1> QED BY <1>1, <1>2, <1>3, <1>4

\* Behind a line comment, the test for a line break and an indent asks for white space
\* that has one newline, and a CR only before it.
LEMMA LineBreaks ==
  ASSUME NEW from \in Nat, NEW to \in Nat, from <= to, to <= Len(source), Len(source) \in Nat,
         EndsAsLine(from)
  PROVE  IsLineBreakBetween(from, to) <=>
           /\ \A n \in from .. to - 1 : source[n] \in White
           /\ Cardinality({n \in from .. to - 1 : source[n] = "nl"}) = 1
           /\ ~ \E n \in from .. to - 1 : source[n] = "cr" /\ n > from
<1> DEFINE between == from .. to - 1   newlines == {n \in between : source[n] = "nl"}
           nl == IF from < to /\ source[from] = "cr" THEN from + 1 ELSE from
<1>1. nl \in Nat /\ (nl = from \/ (nl = from + 1 /\ source[from] = "cr")) OBVIOUS
<1>2. IsFiniteSet(newlines)
  <2>1. IsFiniteSet(between) BY FS_Interval
  <2>2. newlines \in SUBSET between OBVIOUS
  <2> HIDE DEF between, newlines
  <2> QED BY <2>1, <2>2, FS_Subset
<1>3. ASSUME IsLineBreakBetween(from, to)
      PROVE  /\ \A n \in between : source[n] \in White
             /\ Cardinality(newlines) = 1
             /\ ~ \E n \in between : source[n] = "cr" /\ n > from
  <2>1. /\ nl < to /\ source[nl] = "nl"
        /\ \A n \in nl + 1 .. to - 1 : source[n] \in {"sp", "tab"}
    BY <1>3 DEF IsLineBreakBetween
  <2>2. \A n \in between : n = nl \/ n \in nl + 1 .. to - 1 \/ (n = from /\ source[from] = "cr")
    BY <1>1
  <2>3. \A n \in between : source[n] \in White BY <2>1, <2>2 DEF White
  <2>4. nl \in between BY <1>1, <2>1
  <2>5. newlines = {nl} BY <2>1, <2>2, <2>4
  <2>6. ~ \E n \in between : source[n] = "cr" /\ n > from BY <2>1, <2>2
  <2> HIDE DEF newlines
  <2> QED BY <2>3, <2>5, <2>6, FS_Singleton
<1>4. ASSUME \A n \in between : source[n] \in White, Cardinality(newlines) = 1,
             ~ \E n \in between : source[n] = "cr" /\ n > from
      PROVE  IsLineBreakBetween(from, to)
  <2> HIDE DEF newlines
  <2>1. PICK x : newlines = {x} BY <1>2, <1>4, FS_Singleton
  <2> USE DEF newlines
  <2>2. x \in between /\ source[x] = "nl" /\ \A n \in between : source[n] = "nl" => n = x
    BY <2>1
  <2>3. from < to BY <2>2
  <2>4. nl < to /\ source[nl] = "nl"
    <3>1. CASE source[from] = "cr"
      <4>1. nl = from + 1 /\ x # from BY <2>2, <2>3, <3>1
      <4>2. IsNl(from + 1) BY <2>3, <3>1 DEF EndsAsLine, IsNl
      <4> QED BY <2>2, <4>1, <4>2 DEF IsNl
    <3>2. CASE source[from] # "cr"
      <4>1. IsNl(from) BY <2>3, <3>2 DEF EndsAsLine
      <4> QED BY <2>3, <3>2, <4>1 DEF IsNl
    <3> QED BY <3>1, <3>2
  <2>5. ASSUME NEW n \in nl + 1 .. to - 1 PROVE source[n] \in {"sp", "tab"}
    <3>1. n \in between /\ nl \in between /\ n > from BY <1>1, <2>4
    <3>2. x = nl BY <2>2, <2>4, <3>1
    <3>3. n # x BY <1>1, <3>2
    <3>4. source[n] \in White /\ source[n] # "nl" /\ source[n] # "cr"
      BY <1>4, <2>2, <3>1, <3>3
    <3> QED BY <3>4 DEF White
  <2> QED BY <2>4, <2>5 DEF IsLineBreakBetween
<1> QED BY <1>3, <1>4

\* The run goes on exactly when the next span is one comment with the last.
LEMMA GoesOnWithNext ==
  ASSUME ScanInv, first \in 1..Len(items), index \in 1..Len(items),
         IsSpanRewritable(items[first]), Matches(first, index)
  PROVE  IsLineRunContinuation <=> index < Len(items) /\ AreOneComment(index)
<1>0. Len(items) \in Nat /\ Len(source) \in Nat BY ItemFacts DEF ScanInv, SourceInv
<1> SUFFICES ASSUME index < Len(items)
             PROVE  IsLineRunContinuation <=> AreOneComment(index)
  BY DEF IsLineRunContinuation
<1> DEFINE one == items[index]   two == items[index + 1]
<1>1. index + 1 \in 1..Len(items) BY <1>0
<1>2. /\ one.end \in Nat /\ two.start \in Nat /\ two.start <= Len(source) /\ IsSpan(one)
      /\ one.end <= two.start
  <2>1. one.end <= two.start BY <1>0, <1>1 DEF ScanInv, SourceInv, IInv, SpansInOrder
  <2>2. one.end \in Nat /\ IsSpan(one) BY SpanFacts
  <2>3. two.start \in 1..Len(source) BY <1>1, SpanFacts
  <2> QED BY <1>0, <2>1, <2>2, <2>3
<1>3. one.kind = "line" =>
        (IsLineBreakBetween(one.end, two.start) <=>
           /\ \A n \in one.end .. two.start - 1 : source[n] \in White
           /\ Cardinality({n \in one.end .. two.start - 1 : source[n] = "nl"}) = 1
           /\ ~ \E n \in one.end .. two.start - 1 : source[n] = "cr" /\ n > one.end)
  <2> SUFFICES ASSUME one.kind = "line"
               PROVE  IsLineBreakBetween(one.end, two.start) <=>
           /\ \A n \in one.end .. two.start - 1 : source[n] \in White
           /\ Cardinality({n \in one.end .. two.start - 1 : source[n] = "nl"}) = 1
           /\ ~ \E n \in one.end .. two.start - 1 : source[n] = "cr" /\ n > one.end
    OBVIOUS
  <2>1. EndsAsLine(one.end) BY <1>2 DEF IsSpan
  <2> HIDE DEF one, two
  <2> QED BY <1>0, <1>2, <2>1, LineBreaks
<1>4. AreOneComment(index) <=>
        /\ one.kind = "line" /\ two.kind = "line"
        /\ IsSpanRewritable(one) /\ IsSpanRewritable(two)
        /\ SpanOpener(one) = SpanOpener(two) /\ one.column = two.column
        /\ \A n \in one.end .. two.start - 1 : source[n] \in White
        /\ Cardinality({n \in one.end .. two.start - 1 : source[n] = "nl"}) = 1
        /\ ~ \E n \in one.end .. two.start - 1 : source[n] = "cr" /\ n > one.end
  BY DEF AreOneComment
<1>5. IsLineRunContinuation <=>
        /\ items[first].kind = "line" /\ two.kind = "line" /\ IsSpanRewritable(two)
        /\ two.column = items[first].column /\ SpanOpener(two) = SpanOpener(items[first])
        /\ IsLineBreakBetween(one.end, two.start)
  BY DEF IsLineRunContinuation, RunEnd
<1>6. /\ one.kind = items[first].kind /\ one.column = items[first].column
      /\ SpanOpener(one) = SpanOpener(items[first]) /\ IsSpanRewritable(one)
  BY DEF Matches
<1> HIDE DEF one, two
<1> QED BY <1>3, <1>4, <1>5, <1>6

\* The longest runs of the spans, by their first and last.
IsRun(a, b) ==
  /\ a <= b /\ IsSpanRewritable(items[a])
  /\ \A k \in a .. b - 1 : AreOneComment(k)
  /\ a > 1 => ~ AreOneComment(a - 1)
  /\ b < Len(items) => ~ AreOneComment(b)

LEMMA RunsAre ==
  \A a, b \in 1 .. Len(items) :
    <<a, b>> \in Runs <=> IsRun(a, b) /\ HasPayload(items[a].start, items[b].end)
BY DEF Runs, IsRun

LEMMA RunPairs ==
  ASSUME NEW r \in Runs
  PROVE  /\ r[1] \in 1 .. Len(items) /\ r[2] \in 1 .. Len(items) /\ r = <<r[1], r[2]>>
         /\ IsRun(r[1], r[2]) /\ HasPayload(items[r[1]].start, items[r[2]].end)
BY DEF Runs, IsRun

\* The spans and their bytes stay as they are while they are grouped.
LEMMA SpansKept ==
  ASSUME UNCHANGED <<source, items>>
  PROVE  /\ \A k : AreOneComment(k)' <=> AreOneComment(k)
         /\ \A j, k : Matches(j, k)' <=> Matches(j, k)
         /\ \A r : BlockOf(r)' = BlockOf(r)
         /\ \A b : IsFittingOneLineBlock(b)' <=> IsFittingOneLineBlock(b)
         /\ \A s : IsSpanRewritable(s)' <=> IsSpanRewritable(s)
         /\ Runs' = Runs
<1>1. \A k : AreOneComment(k)' <=> AreOneComment(k)
  BY DEF AreOneComment, IsSpanRewritable, SpanOpener, At
<1>2. \A j, k : Matches(j, k)' <=> Matches(j, k)
  BY DEF Matches, IsSpanRewritable, SpanOpener, At
<1>3. \A r : BlockOf(r)' = BlockOf(r) BY DEF BlockOf, SpanOpener, At, HasCrlfNewlines
<1>4. \A b : IsFittingOneLineBlock(b)' <=> IsFittingOneLineBlock(b) BY DEF IsFittingOneLineBlock
<1>5. \A s : IsSpanRewritable(s)' <=> IsSpanRewritable(s) BY DEF IsSpanRewritable
<1>6. Runs' = Runs BY <1>1, <1>5 DEF Runs, HasPayload
<1> QED BY <1>1, <1>2, <1>3, <1>4, <1>5, <1>6

\* Where the spans stay, what is read behind the run that a step leaves open stays.
LEMMA BehindKept ==
  ASSUME UNCHANGED <<source, items>>
  PROVE  AreOneComment(first - 1)' <=> AreOneComment(first' - 1)
BY DEF AreOneComment, IsSpanRewritable, SpanOpener, At

\* A step of the grouping in terms of what it finds, and of what it leaves.
LEMMA RunStep ==
  ASSUME UNCHANGED <<source, items>>,
         first' = 0 => \A k \in 1 .. Len(items) - 1 : k = index' - 1 => ~ AreOneComment(k),
         first' # 0 =>
           /\ IsSpanRewritable(items[first']) /\ Matches(first', index')
           /\ \A k \in first' .. index' - 1 : AreOneComment(k)
           /\ first' > 1 => ~ AreOneComment(first' - 1),
         \A k \in 1 .. Len(grouped') : \E r \in Runs : grouped'[k] = BlockOf(r),
         \A r \in Runs : r[1] < Open' => \E k \in 1 .. Len(grouped') : grouped'[k] = BlockOf(r)
  PROVE  RunInv'
<1>1. /\ \A k : AreOneComment(k)' <=> AreOneComment(k)
      /\ \A j, k : Matches(j, k)' <=> Matches(j, k)
      /\ \A r : BlockOf(r)' = BlockOf(r)
      /\ \A s : IsSpanRewritable(s)' <=> IsSpanRewritable(s)
      /\ Runs' = Runs
  BY SpansKept
<1>2. first' # 0 =>
        /\ IsSpanRewritable(items[first])'
        /\ \A k \in first' .. index' - 1 : AreOneComment(k)'
  BY <1>1 DEF IsSpanRewritable
<1>3. Matches(first, index)' <=> Matches(first', index')
  BY DEF Matches, IsSpanRewritable, SpanOpener, At
<1>4. AreOneComment(first - 1)' <=> AreOneComment(first' - 1) BY BehindKept
<1> QED BY <1>1, <1>2, <1>3, <1>4 DEF RunInv

LEMMA SkipRuns == ASSUME ScanInv, RunInv, SkipSpan PROVE RunInv'
<1>0. /\ Len(items) \in Nat /\ index \in 1 .. Len(items) /\ first = 0 /\ first' = 0
      /\ index' = index + 1 /\ grouped' = grouped /\ UNCHANGED <<source, items>>
      /\ Open = index /\ Open' = index + 1 /\ ~ IsSpanRewritable(items[index])
  BY ItemFacts DEF ScanInv, SourceInv, GroupInv, SkipSpan, vars, Open
<1>1. ~ AreOneComment(index) BY <1>0 DEF AreOneComment
<1>2. \A k \in 1 .. Len(items) - 1 : k = index' - 1 => ~ AreOneComment(k) BY <1>0, <1>1
<1>3. ASSUME NEW r \in Runs, r[1] < Open'
      PROVE  \E k \in 1 .. Len(grouped') : grouped'[k] = BlockOf(r)
  <2>1. r[1] \in 1 .. Len(items) /\ IsSpanRewritable(items[r[1]]) BY RunPairs DEF IsRun
  <2>2. r[1] < Open BY <1>0, <1>3, <2>1
  <2> QED BY <1>0, <2>2 DEF RunInv
<1> QED BY <1>0, <1>2, <1>3, RunStep DEF RunInv

LEMMA OpenRuns == ASSUME ScanInv, RunInv, OpenBlock PROVE RunInv'
<1>0. /\ Len(items) \in Nat /\ index \in 1 .. Len(items) /\ first = 0 /\ first' = index
      /\ index' = index /\ grouped' = grouped /\ UNCHANGED <<source, items>>
      /\ Open = index /\ Open' = index /\ IsSpanRewritable(items[index])
  BY ItemFacts DEF ScanInv, SourceInv, GroupInv, OpenBlock, vars, Open
<1>1. Matches(index, index) BY <1>0 DEF Matches
<1>2. index > 1 => ~ AreOneComment(index - 1)
  <2>1. index > 1 => index - 1 \in 1 .. Len(items) - 1 BY <1>0
  <2> QED BY <1>0, <2>1 DEF RunInv
<1>3. \A k \in index .. index - 1 : AreOneComment(k) BY <1>0
<1> QED BY <1>0, <1>1, <1>2, <1>3, RunStep DEF RunInv

\* Where a run is being read.
LEMMA RunFacts ==
  ASSUME ScanInv, RunInv, done, first # 0
  PROVE  /\ Len(items) \in Nat /\ first \in 1 .. Len(items) /\ index \in 1 .. Len(items)
         /\ first <= index /\ Open = first
         /\ IsSpanRewritable(items[first]) /\ Matches(first, index)
         /\ \A k \in first .. index - 1 : AreOneComment(k)
         /\ first > 1 => ~ AreOneComment(first - 1)
         /\ IsLineRunContinuation <=> index < Len(items) /\ AreOneComment(index)
<1>1. /\ Len(items) \in Nat /\ first \in 1 .. Len(items) /\ index \in 1 .. Len(items)
      /\ first <= index /\ Open = first
  BY ItemFacts DEF ScanInv, SourceInv, GroupInv, Open
<1>2. /\ IsSpanRewritable(items[first]) /\ Matches(first, index)
      /\ \A k \in first .. index - 1 : AreOneComment(k)
      /\ first > 1 => ~ AreOneComment(first - 1)
  BY DEF RunInv
<1> QED BY <1>1, <1>2, GoesOnWithNext

LEMMA ExtendRuns == ASSUME ScanInv, RunInv, ExtendRun PROVE RunInv'
<1>0. /\ done /\ first # 0 /\ index' = index + 1 /\ first' = first /\ grouped' = grouped
      /\ UNCHANGED <<source, items>> /\ IsLineRunContinuation
  BY DEF ExtendRun, vars
<1>1. /\ Len(items) \in Nat /\ first \in 1 .. Len(items) /\ index \in 1 .. Len(items)
      /\ first <= index /\ Open = first
      /\ IsSpanRewritable(items[first]) /\ Matches(first, index)
      /\ \A k \in first .. index - 1 : AreOneComment(k)
      /\ first > 1 => ~ AreOneComment(first - 1)
      /\ AreOneComment(index)
  BY <1>0, RunFacts
<1>2. Matches(first, index + 1) BY <1>1 DEF Matches, AreOneComment
<1>3. \A k \in first .. index' - 1 : AreOneComment(k)
  <2>1. \A k \in first .. index' - 1 : k = index \/ k \in first .. index - 1 BY <1>0, <1>1
  <2> QED BY <1>1, <2>1
<1>4. Open' = Open BY <1>0, <1>1 DEF Open
<1> QED BY <1>0, <1>1, <1>2, <1>3, <1>4, RunStep DEF RunInv

LEMMA CloseRuns == ASSUME ScanInv, RunInv, CloseBlock PROVE RunInv'
<1>0. /\ done /\ first # 0 /\ index' = index + 1 /\ first' = 0
      /\ UNCHANGED <<source, items>> /\ ~ IsLineRunContinuation
  BY DEF CloseBlock, vars
<1>1. /\ Len(items) \in Nat /\ first \in 1 .. Len(items) /\ index \in 1 .. Len(items)
      /\ first <= index /\ Open = first
      /\ IsSpanRewritable(items[first])
      /\ \A k \in first .. index - 1 : AreOneComment(k)
      /\ first > 1 => ~ AreOneComment(first - 1)
      /\ index < Len(items) => ~ AreOneComment(index)
  BY <1>0, RunFacts
<1>2. Open' = index + 1 BY <1>0 DEF Open
<1>3. IsRun(first, index) BY <1>1 DEF IsRun
<1> DEFINE run == <<first, index>>   new == BlockOf(run)
<1>4. run[1] = first /\ run[2] = index OBVIOUS
<1>5. /\ grouped \in Seq(Block) /\ Len(grouped) \in Nat
      /\ HasPayload(items[first].start, items[index].end) => grouped' = Append(grouped, new)
      /\ ~ HasPayload(items[first].start, items[index].end) => grouped' = grouped
  <2>1. new = [start |-> items[first].start, end |-> items[index].end,
               opener |-> SpanOpener(items[first]), column |-> items[first].column,
               crlf |-> HasCrlfNewlines(items[first])]
    BY <1>4 DEF BlockOf
  <2>2. grouped \in Seq(Block) BY DEF ScanInv, SourceInv, GroupInv
  <2> QED BY <2>1, <2>2 DEF CloseBlock
<1>6. run \in Runs <=> HasPayload(items[first].start, items[index].end)
  BY <1>1, <1>3, RunsAre
<1> HIDE DEF new, run
<1>7. \A r \in Runs : r[1] < Open' => r[1] < Open \/ r = run
  <2> SUFFICES ASSUME NEW r \in Runs, r[1] < Open', ~(r[1] < Open) PROVE r = run
    OBVIOUS
  <2>1. /\ r[1] \in 1 .. Len(items) /\ r[2] \in 1 .. Len(items) /\ r = <<r[1], r[2]>>
        /\ IsRun(r[1], r[2])
    BY RunPairs
  <2>2. r[1] \in first .. index BY <1>1, <1>2, <2>1
  <2>3. r[1] = first
    <3> SUFFICES ASSUME r[1] # first PROVE FALSE OBVIOUS
    <3>1. r[1] - 1 \in first .. index - 1 /\ r[1] > 1 BY <1>1, <2>2
    <3> QED BY <1>1, <2>1, <3>1 DEF IsRun
  <2>4. r[2] = index
    <3>1. ~(r[2] < index)
      <4> SUFFICES ASSUME r[2] < index PROVE FALSE OBVIOUS
      <4>1. r[2] \in first .. index - 1 /\ r[2] < Len(items) BY <1>1, <2>1, <2>3 DEF IsRun
      <4> QED BY <1>1, <2>1, <4>1 DEF IsRun
    <3>2. ~(r[2] > index)
      <4> SUFFICES ASSUME r[2] > index PROVE FALSE OBVIOUS
      <4>1. index \in r[1] .. r[2] - 1 /\ index < Len(items) BY <1>1, <2>1, <2>3
      <4> QED BY <1>1, <2>1, <4>1 DEF IsRun
    <3> QED BY <1>1, <2>1, <3>1, <3>2
  <2> QED BY <2>1, <2>3, <2>4 DEF run
<1>8. \A k \in 1 .. Len(items) - 1 : k = index' - 1 => ~ AreOneComment(k) BY <1>0, <1>1
<1>9. new \in Block
  <2>2. items[first] \in Item /\ items[first].start \in Nat /\ items[index].end \in Nat
    BY <1>1, ItemFacts DEF ScanInv, SourceInv
  <2>3. SpanOpener(items[first]) \in Opener BY DEF SpanOpener, Opener
  <2>4. items[first].column \in Nat BY <2>2 DEF Item
  <2>5. HasCrlfNewlines(items[first]) \in BOOLEAN BY DEF HasCrlfNewlines
  <2> QED BY <1>4, <2>2, <2>3, <2>4, <2>5 DEF new, BlockOf, Block
<1>10. CASE HasPayload(items[first].start, items[index].end)
  <2>1. /\ Len(grouped') = Len(grouped) + 1
        /\ \A k \in 1 .. Len(grouped) : grouped'[k] = grouped[k]
        /\ grouped'[Len(grouped) + 1] = new
    BY <1>5, <1>9, <1>10, AppendProperties
  <2>2. run \in Runs BY <1>6, <1>10
  <2>3. \A k \in 1 .. Len(grouped') : \E r \in Runs : grouped'[k] = BlockOf(r)
    <3> SUFFICES ASSUME NEW k \in 1 .. Len(grouped')
                 PROVE  \E r \in Runs : grouped'[k] = BlockOf(r)
      OBVIOUS
    <3>1. CASE k \in 1 .. Len(grouped) BY <2>1, <3>1 DEF RunInv
    <3>2. CASE k = Len(grouped) + 1 BY <2>1, <2>2, <3>2 DEF new
    <3> QED BY <1>5, <2>1, <3>1, <3>2
  <2>4. \A r \in Runs : r[1] < Open' => \E k \in 1 .. Len(grouped') : grouped'[k] = BlockOf(r)
    <3> SUFFICES ASSUME NEW r \in Runs, r[1] < Open'
                 PROVE  \E k \in 1 .. Len(grouped') : grouped'[k] = BlockOf(r)
      OBVIOUS
    <3>1. CASE r[1] < Open
      <4>1. PICK k \in 1 .. Len(grouped) : grouped[k] = BlockOf(r) BY <3>1 DEF RunInv
      <4>2. k \in 1 .. Len(grouped') BY <1>5, <2>1
      <4> QED BY <2>1, <4>1, <4>2
    <3>2. CASE r = run
      <4>1. Len(grouped) + 1 \in 1 .. Len(grouped') BY <1>5, <2>1
      <4> QED BY <2>1, <3>2, <4>1 DEF new
    <3> QED BY <1>7, <3>1, <3>2
  <2> QED BY <1>0, <1>8, <2>3, <2>4, RunStep
<1>11. CASE ~ HasPayload(items[first].start, items[index].end)
  <2>1. grouped' = grouped /\ run \notin Runs BY <1>5, <1>6, <1>11
  <2>2. \A r \in Runs : r[1] < Open' => \E k \in 1 .. Len(grouped') : grouped'[k] = BlockOf(r)
    BY <1>7, <2>1 DEF RunInv
  <2> QED BY <1>0, <1>8, <2>1, <2>2, RunStep DEF RunInv
<1> QED BY <1>10, <1>11

\* While the scan goes on there are no runs to its left.
LEMMA LexRuns == ASSUME ScanInv, Lexes PROVE RunInv'
<1>1. GroupInv' /\ IInv' BY LexesStep, NextInv DEF ScanInv, SourceInv, Lexes
<1>2. index' = 1 /\ first' = 0 /\ grouped' = <<>> /\ Len(grouped') = 0
  <2>1. ~ done BY DEF Lexes, Next, Scan, Advance, EndOfSource
  <2> QED BY <2>1 DEF ScanInv, SourceInv, GroupInv, Lexes, groupVars
<1>3. Open' = 1 BY <1>2 DEF Open
<1>4. \A r \in Runs' : ~(r[1] < Open')
  <2> SUFFICES ASSUME NEW r \in Runs' PROVE ~(r[1] < Open') OBVIOUS
  <2>1. r[1] \in 1 .. Len(items') BY DEF Runs
  <2> QED BY <1>3, <2>1
<1>5. \A k \in 1 .. Len(items') - 1 : k # index' - 1 BY <1>2
<1> QED BY <1>2, <1>4, <1>5 DEF RunInv

\* The blocks stay while the rewrite goes over them.
LEMMA KeptRuns ==
  ASSUME RunInv, UNCHANGED <<vars, groupVars>>
  PROVE  RunInv'
<1>1. UNCHANGED <<source, items, index, first, grouped>> /\ Open' = Open
  BY DEF vars, groupVars, Open
<1>2. /\ \A k : AreOneComment(k)' <=> AreOneComment(k)
      /\ \A r : BlockOf(r)' = BlockOf(r)
      /\ \A j, k : Matches(j, k)' <=> Matches(j, k)
      /\ \A s : IsSpanRewritable(s)' <=> IsSpanRewritable(s)
      /\ Runs' = Runs
  BY <1>1, SpansKept
<1>3. first # 0 => IsSpanRewritable(items[first]) /\ Matches(first, index)
  BY DEF RunInv
<1>4. first > 1 /\ first # 0 => ~ AreOneComment(first - 1) BY DEF RunInv
<1> QED BY <1>1, <1>3, <1>4, RunStep DEF RunInv

\* The pieces of a step over a block: those there were, copies, and the last.
LEMMA PiecesOfTurn ==
  ASSUME ScanInv, NEW piece \in Piece, turn \in 1 .. Len(grouped), Turn(piece)
  PROVE  /\ Len(buffer) \in Nat /\ Len(buffer') \in Nat /\ Len(buffer) < Len(buffer')
         /\ \A k \in 1 .. Len(buffer) : buffer'[k] = buffer[k]
         /\ buffer'[Len(buffer')] = piece
         /\ \A k \in 1 .. Len(buffer') :
              k <= Len(buffer) \/ k = Len(buffer') \/ buffer'[k].how = "copy"
<1> DEFINE b == grouped[turn]   gap == Gap(b)
<1>1. buffer \in Seq(Piece) /\ Len(buffer) \in Nat BY DEF ScanInv, SourceInv, CursorInv
<1>2. b.start \in Nat BY BlockFacts DEF ScanInv
<1>3. cursor \in Nat BY ItemFacts DEF ScanInv, SourceInv, CursorInv
<1>4. /\ gap \in Seq(Piece) /\ Len(gap) \in {0, 1}
      /\ \A k \in 1 .. Len(gap) : gap[k].how = "copy"
  <2> DEFINE copy == Copy(cursor, b.start)
  <2>1. copy \in Piece /\ copy.how = "copy" BY <1>2, <1>3 DEF Copy, Piece
  <2>2. gap = <<copy>> \/ gap = <<>> BY DEF Gap
  <2> HIDE DEF gap, copy
  <2>3. CASE gap = <<copy>>
    <3>1. gap \in Seq(Piece) /\ Len(gap) = 1 /\ gap[1] = copy BY <2>1, <2>3
    <3> QED BY <2>1, <3>1
  <2>4. CASE gap = <<>> BY <2>4
  <2> QED BY <2>2, <2>3, <2>4
<1>5. buffer' = buffer \o gap \o <<piece>> BY DEF Turn
<1> HIDE DEF gap, b
<1>6. /\ buffer' \in Seq(Piece) /\ Len(buffer') = Len(buffer) + Len(gap) + 1
      /\ \A k \in 1 .. Len(buffer) : buffer'[k] = buffer[k]
      /\ \A k \in 1 .. Len(gap) : buffer'[Len(buffer) + k] = gap[k]
      /\ buffer'[Len(buffer) + Len(gap) + 1] = piece
  BY <1>1, <1>4, <1>5
<1>7. ASSUME NEW k \in 1 .. Len(buffer')
      PROVE  k <= Len(buffer) \/ k = Len(buffer') \/ buffer'[k].how = "copy"
  <2> SUFFICES ASSUME ~(k <= Len(buffer)), k # Len(buffer') PROVE buffer'[k].how = "copy"
    OBVIOUS
  <2>1. k - Len(buffer) \in 1 .. Len(gap) /\ Len(buffer) + (k - Len(buffer)) = k
    <3>1. k \in Nat /\ k <= Len(buffer) + Len(gap) + 1 /\ k # Len(buffer) + Len(gap) + 1
      BY <1>1, <1>4, <1>6
    <3>2. Len(gap) \in Nat BY <1>4
    <3> QED BY <1>1, <3>1, <3>2
  <2> QED BY <1>4, <1>6, <2>1
<1> QED BY <1>1, <1>4, <1>6, <1>7

LEMMA TurnRefills == ASSUME ScanInv, RefillInv, KeepBlock \/ RefillBlock PROVE RefillInv'
<1> DEFINE b == grouped[turn]
           piece == IF IsFittingOneLineBlock(b) THEN Copy(b.start, b.end) ELSE Refilled(b)
<1>0. turn \in 1 .. Len(grouped) /\ turn \in Nat /\ turn' = turn + 1
  BY LenProperties DEF KeepBlock, RefillBlock, Turn, ScanInv, SourceInv, CursorInv, GroupInv
<1>1. Turn(piece) BY DEF KeepBlock, RefillBlock
<1>2. b \in Block /\ b.start \in Nat /\ b.end \in Nat BY <1>0, BlockFacts DEF ScanInv
<1>3. piece \in Piece BY <1>2 DEF Copy, Refilled, Piece, Block
<1>4. /\ IsFittingOneLineBlock(b) => piece.how = "copy"
      /\ ~ IsFittingOneLineBlock(b) => piece = Refilled(b)
  BY DEF Copy
<1> HIDE DEF piece
<1>5. /\ Len(buffer) \in Nat /\ Len(buffer') \in Nat /\ Len(buffer) < Len(buffer')
      /\ \A k \in 1 .. Len(buffer) : buffer'[k] = buffer[k]
      /\ buffer'[Len(buffer')] = piece
      /\ \A k \in 1 .. Len(buffer') :
           k <= Len(buffer) \/ k = Len(buffer') \/ buffer'[k].how = "copy"
  BY <1>0, <1>1, <1>3, PiecesOfTurn
<1>6. UNCHANGED <<source, items, grouped>> BY <1>1 DEF Turn, vars, groupVars
<1>7. \A j : IsFittingOneLineBlock(grouped[j])' <=> IsFittingOneLineBlock(grouped[j])
  BY <1>6 DEF IsFittingOneLineBlock
<1>8. \A j : Refilled(grouped[j])' = Refilled(grouped[j]) BY <1>6 DEF Refilled
<1>9. ASSUME NEW k \in 1 .. Len(buffer'), buffer'[k].how = "refill"
      PROVE  \E j \in 1 .. turn' - 1 :
               ~ IsFittingOneLineBlock(grouped[j]) /\ buffer'[k] = Refilled(grouped[j])
  <2>1. CASE k <= Len(buffer)
    <3>1. k \in 1 .. Len(buffer) /\ buffer[k].how = "refill" BY <1>5, <1>9, <2>1
    <3>2. PICK j \in 1 .. turn - 1 :
            ~ IsFittingOneLineBlock(grouped[j]) /\ buffer[k] = Refilled(grouped[j])
      BY <3>1 DEF RefillInv
    <3>3. j \in 1 .. turn' - 1 BY <1>0
    <3> QED BY <1>5, <3>1, <3>2, <3>3
  <2>2. CASE k = Len(buffer')
    <3>1. ~ IsFittingOneLineBlock(b) /\ buffer'[k] = Refilled(b) BY <1>4, <1>5, <1>9, <2>2
    <3>2. turn \in 1 .. turn' - 1 BY <1>0
    <3> QED BY <3>1, <3>2
  <2> QED BY <1>5, <1>9, <2>1, <2>2
<1>10. ASSUME NEW j \in 1 .. turn' - 1, ~ IsFittingOneLineBlock(grouped[j])
       PROVE  \E k \in 1 .. Len(buffer') : buffer'[k] = Refilled(grouped[j])
  <2>1. CASE j \in 1 .. turn - 1
    <3>1. PICK k \in 1 .. Len(buffer) : buffer[k] = Refilled(grouped[j])
      BY <1>10, <2>1 DEF RefillInv
    <3>2. k \in 1 .. Len(buffer') BY <1>5
    <3> QED BY <1>5, <3>1, <3>2
  <2>2. CASE j = turn
    <3>1. Len(buffer') \in 1 .. Len(buffer') BY <1>5
    <3> QED BY <1>4, <1>5, <1>10, <2>2, <3>1
  <2> QED BY <1>0, <2>1, <2>2
<1> QED BY <1>7, <1>8, <1>9, <1>10 DEF RefillInv

LEMMA TailRefills == ASSUME ScanInv, RefillInv, CopyTail PROVE RefillInv'
<1> DEFINE tail == Copy(cursor, Len(source) + 1)
<1>1. /\ UNCHANGED <<source, items, grouped, turn>> /\ buffer' = Append(buffer, tail)
      /\ buffer \in Seq(Piece) /\ cursor \in 1 .. Len(source) + 1 /\ Len(source) \in Nat
  BY ItemFacts DEF CopyTail, vars, groupVars, ScanInv, SourceInv, CursorInv
<1>2. tail \in Piece /\ tail.how = "copy" BY <1>1 DEF Copy, Piece
<1> HIDE DEF tail
<1>3. /\ Len(buffer) \in Nat /\ Len(buffer') = Len(buffer) + 1
      /\ \A k \in 1 .. Len(buffer) : buffer'[k] = buffer[k]
      /\ buffer'[Len(buffer) + 1] = tail
  BY <1>1, <1>2, AppendProperties
<1>4. \A j : IsFittingOneLineBlock(grouped[j])' <=> IsFittingOneLineBlock(grouped[j])
  BY <1>1 DEF IsFittingOneLineBlock
<1>5. \A j : Refilled(grouped[j])' = Refilled(grouped[j]) BY <1>1 DEF Refilled
<1>6. \A k \in 1 .. Len(buffer') : buffer'[k].how = "refill" => k \in 1 .. Len(buffer)
  BY <1>2, <1>3
<1>7. \A k \in 1 .. Len(buffer) : k \in 1 .. Len(buffer') BY <1>3
<1> QED BY <1>1, <1>3, <1>4, <1>5, <1>6, <1>7 DEF RefillInv

\* The blocks are the runs, and the refills the blocks that do not fit, all along.
LEMMA RunsHold == RewriteSpec => [](ScanInv /\ RunInv /\ RefillInv)
<1>1. RewriteSpec => []ScanInv
  BY RewriteScans, SourceInvariance, ColumnsHold, BytesHold, PTL DEF ScanInv
<1>2. RewriteInit => RunInv /\ RefillInv
  <2> SUFFICES ASSUME RewriteInit PROVE RunInv /\ RefillInv OBVIOUS
  <2>1. /\ index = 1 /\ first = 0 /\ grouped = <<>> /\ turn = 1 /\ buffer = <<>>
        /\ Len(grouped) = 0 /\ Len(buffer) = 0 /\ items = <<>> /\ Len(items) = 0
    BY DEF RewriteInit, GroupInit, Init
  <2>2. \A r \in Runs : FALSE BY <2>1 DEF Runs
  <2> QED BY <2>1, <2>2 DEF RunInv, RefillInv
<1>3. ScanInv /\ RunInv /\ RefillInv /\ [RewriteNext]_<<vars, groupVars, rewriteVars>>
        => RunInv' /\ RefillInv'
  <2> SUFFICES ASSUME ScanInv, RunInv, RefillInv,
                      [RewriteNext]_<<vars, groupVars, rewriteVars>>
               PROVE  RunInv' /\ RefillInv'
    OBVIOUS
  <2>1. CASE Groups
    <3>1. RunInv'
      BY <2>1, LexRuns, SkipRuns, OpenRuns, ExtendRuns, CloseRuns DEF Groups, GroupNext
    <3>2. ~ IsGrouped
      BY <2>1 DEF Groups, GroupNext, Lexes, Next, Scan, Advance, EndOfSource, SkipSpan,
                  OpenBlock, ExtendRun, CloseBlock, IsGrouped, ScanInv, SourceInv, GroupInv
    <3>3. turn' = 1 /\ buffer' = <<>> /\ Len(buffer') = 0
      BY <2>1, <3>2 DEF Groups, rewriteVars, ScanInv, SourceInv, CursorInv
    <3> QED BY <3>1, <3>3 DEF RefillInv
  <2>2. CASE KeepBlock \/ RefillBlock
    <3>1. UNCHANGED <<vars, groupVars>> BY <2>2 DEF KeepBlock, RefillBlock, Turn
    <3> QED BY <2>2, <3>1, KeptRuns, TurnRefills
  <2>3. CASE CopyTail BY <2>3, KeptRuns, TailRefills DEF CopyTail
  <2>4. CASE UNCHANGED <<vars, groupVars, rewriteVars>>
    <3>1. UNCHANGED <<vars, groupVars>> BY <2>4
    <3>2. UNCHANGED <<source, grouped, turn, buffer>> BY <2>4 DEF vars, groupVars, rewriteVars
    <3>3. RefillInv'
      <4>1. \A j : IsFittingOneLineBlock(grouped[j])' <=> IsFittingOneLineBlock(grouped[j])
        BY <3>2 DEF IsFittingOneLineBlock
      <4>2. \A j : Refilled(grouped[j])' = Refilled(grouped[j]) BY <3>2 DEF Refilled
      <4> QED BY <3>2, <4>1, <4>2 DEF RefillInv
    <3> QED BY <3>1, <3>3, KeptRuns
  <2> QED BY <2>1, <2>2, <2>3, <2>4 DEF RewriteNext
<1> QED BY <1>1, <1>2, <1>3, PTL DEF RewriteSpec

-----------------------------------------------------------------------------
(* What is refilled *)

\* The bytes from..p - 1 that take a column, where no tab stands.
Shown(from, p) == {n \in from .. p - 1 : source[n] \notin {"cr", "ctl"}}

LEMMA ShownStep ==
  ASSUME NEW from \in Nat, NEW p \in Nat, from <= p
  PROVE  /\ Cardinality(Shown(from, p)) \in Nat
         /\ Cardinality(Shown(from, p + 1)) =
              Cardinality(Shown(from, p)) + IF source[p] \in {"cr", "ctl"} THEN 0 ELSE 1
<1>1. IsFiniteSet(Shown(from, p))
  <2>1. IsFiniteSet(from .. p - 1) BY FS_Interval
  <2>2. Shown(from, p) \in SUBSET (from .. p - 1) BY DEF Shown
  <2> QED BY <2>1, <2>2, FS_Subset
<1>2. Cardinality(Shown(from, p)) \in Nat BY <1>1, FS_CardinalityType
<1>3. \A n \in from .. (p + 1) - 1 : n = p \/ n \in from .. p - 1 OBVIOUS
<1>4. p \in from .. (p + 1) - 1 /\ p \notin from .. p - 1 OBVIOUS
<1>5. \A n \in from .. p - 1 : n \in from .. (p + 1) - 1 OBVIOUS
<1>6. CASE source[p] \in {"cr", "ctl"}
  <2>1. Shown(from, p + 1) = Shown(from, p) BY <1>3, <1>5, <1>6 DEF Shown
  <2> QED BY <1>2, <1>6, <2>1
<1>7. CASE source[p] \notin {"cr", "ctl"}
  <2>1. Shown(from, p + 1) = Shown(from, p) \cup {p} BY <1>3, <1>4, <1>5, <1>7 DEF Shown
  <2>2. p \notin Shown(from, p) BY <1>4 DEF Shown
  <2> QED BY <1>1, <1>2, <1>7, <2>1, <2>2, FS_AddElement
<1> QED BY <1>6, <1>7

\* Over bytes that are no newline and no tab, columns count the bytes that are shown.
LEMMA ColumnsCount ==
  ASSUME source \in Seq(Byte), NEW from \in 1 .. Len(source), ColumnAt[from] \in Nat,
         NEW to \in from + 1 .. Len(source) + 1,
         \A n \in from .. to - 1 : source[n] \notin {"nl", "tab"}
  PROVE  AdvanceColumn(ColumnAt[to - 1], source[to - 1]) =
           ColumnAt[from] + Cardinality(Shown(from, to))
<1>0. Len(source) \in Nat /\ from \in Nat /\ to \in Nat BY LenProperties
<1> DEFINE Counted(p) == ColumnAt[p] = ColumnAt[from] + Cardinality(Shown(from, p))
           Bad == {p \in from .. to - 1 : ~Counted(p)}
<1>1. Counted(from)
  <2>1. Shown(from, from) = {} BY <1>0 DEF Shown
  <2>2. Cardinality({}) = 0 BY FS_EmptySet
  <2> QED BY <2>1, <2>2
<1>2. ASSUME NEW p \in from .. to - 1, Counted(p)
      PROVE  AdvanceColumn(ColumnAt[p], source[p]) =
               ColumnAt[from] + Cardinality(Shown(from, p + 1))
  <2>1. p \in Nat /\ from <= p BY <1>0
  <2>2. /\ Cardinality(Shown(from, p)) \in Nat
        /\ Cardinality(Shown(from, p + 1)) =
             Cardinality(Shown(from, p)) + IF source[p] \in {"cr", "ctl"} THEN 0 ELSE 1
    BY <1>0, <2>1, ShownStep
  <2>3. AdvanceColumn(ColumnAt[p], source[p]) =
          ColumnAt[p] + IF source[p] \in {"cr", "ctl"} THEN 0 ELSE 1
    <3>1. ColumnAt[p] \in Nat BY <1>2, <2>2
    <3>2. source[p] \notin {"nl", "tab"} OBVIOUS
    <3>3. CASE source[p] \in {"cr", "ctl"} BY <3>1, <3>3 DEF AdvanceColumn
    <3>4. CASE source[p] \notin {"cr", "ctl"} BY <3>2, <3>4 DEF AdvanceColumn
    <3> QED BY <3>3, <3>4
  <2>4. ColumnAt[p] = ColumnAt[from] + Cardinality(Shown(from, p)) BY <1>2
  <2> DEFINE one == IF source[p] \in {"cr", "ctl"} THEN 0 ELSE 1
  <2>5. one \in Nat OBVIOUS
  <2> HIDE DEF one, Counted, Bad
  <2> QED BY <2>2, <2>3, <2>4, <2>5 DEF one
<1>3. Bad = {}
  <2> SUFFICES ASSUME Bad # {} PROVE FALSE OBVIOUS
  <2>1. Bad \in SUBSET Nat BY <1>0
  <2>2. PICK p \in Bad : \A q \in Bad : p <= q BY <2>1, LeastOf
  <2>3. p \in from .. to - 1 /\ ~Counted(p) /\ p # from BY <1>1, <2>2
  <2>4. p - 1 \in from .. to - 1 /\ ~(p <= p - 1) /\ (p - 1) + 1 = p BY <1>0, <2>3
  <2>5. Counted(p - 1) BY <2>2, <2>4
  <2>6. p \in 1 .. Len(source) /\ p # 1 /\ ~IsNl(p - 1) BY <1>0, <2>3, <2>4 DEF IsNl
  <2>7. ColumnAt[p] = AdvanceColumn(ColumnAt[p - 1], source[p - 1])
    BY <2>6, ColumnsFollow DEF ColumnTo
  <2> QED BY <1>2, <2>3, <2>4, <2>5, <2>7
<1>4. to - 1 \in from .. to - 1 /\ (to - 1) + 1 = to BY <1>0
<1>5. Counted(to - 1) BY <1>3, <1>4
<1> QED BY <1>2, <1>4, <1>5

\* A run of several spans is one of line comments.
LEMMA BlocksStandAlone ==
  ASSUME ScanInv, NEW r \in Runs, items[r[1]].kind = "block"
  PROVE  r[2] = r[1]
<1>1. r[1] \in Nat /\ r[2] \in Nat /\ IsRun(r[1], r[2]) BY RunPairs
<1>2. ~AreOneComment(r[1]) BY DEF AreOneComment
<1>3. r[1] < r[2] => r[1] \in r[1] .. r[2] - 1 BY <1>1
<1> QED BY <1>1, <1>2, <1>3 DEF IsRun

\* A run is kept as it is exactly when it is one slash-star comment that ends by the width.
LEMMA FittingIsFitting ==
  ASSUME ScanInv, NEW r \in Runs
  PROVE  IsFittingOneLineBlock(BlockOf(r)) <=> FitsItsLine(items[r[1]].start, items[r[2]].end)
<1> DEFINE a == items[r[1]]   b == BlockOf(r)
<1>0. r[1] \in 1 .. Len(items) /\ source \in Seq(Byte) /\ Len(source) \in Nat
  BY RunPairs, LenProperties DEF ScanInv, SourceInv, IInv, TypeOK
<1>1. /\ a.start \in 1 .. Len(source) /\ a.start \in Nat /\ a.end \in Nat /\ a.column \in Nat
      /\ a.kind \in Kind /\ a.start + 2 <= a.end /\ a.end <= Len(source) + 1
      /\ a.column = ColumnAt[a.start] /\ HasMarker(a.start, a.kind)
  BY <1>0, SpanFacts DEF IsSpan
<1>2. /\ b.start = a.start /\ b.end = items[r[2]].end /\ b.column = a.column
      /\ b.opener = SpanOpener(a)
  BY DEF BlockOf
<1> HIDE DEF a, b
<1>3. CASE a.kind = "line"
  <2>1. b.opener \notin {"/*", "/*!", "/**"} BY <1>2, <1>3 DEF SpanOpener
  <2>2. source[a.start + 1] = "sl" BY <1>1, <1>3 DEF HasMarker
  <2> QED BY <2>1, <2>2 DEF IsFittingOneLineBlock, FitsItsLine, a, b
<1>4. CASE a.kind = "block"
  <2>1. b.opener \in {"/*", "/*!", "/**"} BY <1>2, <1>4 DEF SpanOpener
  <2>2. source[a.start + 1] = "st" BY <1>1, <1>4 DEF HasMarker
  <2>3. b.end = a.end /\ items[r[2]].end = a.end BY <1>2, <1>4, BlocksStandAlone DEF a
  <2>4. ASSUME \A n \in a.start .. a.end - 1 : source[n] \notin {"nl", "tab"}
        PROVE  AdvanceColumn(ColumnAt[a.end - 1], source[a.end - 1]) =
                 a.column + Cardinality(Shown(a.start, a.end))
    <3>1. a.end \in a.start + 1 .. Len(source) + 1 BY <1>0, <1>1
    <3> QED BY <1>0, <1>1, <2>4, <3>1, ColumnsCount
  <2>5. IsFittingOneLineBlock(b) <=>
          /\ \A n \in a.start .. a.end - 1 : source[n] \notin {"nl", "tab"}
          /\ a.column + Cardinality(Shown(a.start, a.end)) <= Width
    BY <1>2, <2>1, <2>3 DEF IsFittingOneLineBlock, Shown
  <2>6. FitsItsLine(a.start, a.end) <=>
          /\ \A n \in a.start .. a.end - 1 : source[n] \notin {"nl", "tab"}
          /\ AdvanceColumn(ColumnAt[a.end - 1], source[a.end - 1]) <= Width
    BY <2>2 DEF FitsItsLine
  <2> QED BY <2>3, <2>4, <2>5, <2>6 DEF a, b
<1> QED BY <1>1, <1>3, <1>4 DEF Kind

\* A newline from the comment's first byte to the one behind it, as a refill may see it.
EndsALine(from, to) == \E n \in from .. to + 1 : n <= Len(source) /\ IsNl(n)

\* No block of an LF file has the CRLF, and in a CRLF file every block does that ends a line.
LEMMA EndingIsOfFile ==
  ASSUME ScanInv, NEW r \in Runs
  PROVE  LET a == items[r[1]]   to == items[r[2]].end
         IN  /\ IsLfFile => ~ HasCrlfNewlines(a)
             /\ IsCrlfFile => (EndsALine(a.start, to) => HasCrlfNewlines(a))
<1> DEFINE a == items[r[1]]   to == items[r[2]].end
<1>0. /\ r[1] \in 1 .. Len(items) /\ r[2] \in 1 .. Len(items) /\ IsRun(r[1], r[2])
      /\ source \in Seq(Byte) /\ Len(source) \in Nat /\ Len(items) \in Nat
  BY RunPairs, ItemFacts, LenProperties DEF ScanInv, SourceInv, IInv, TypeOK
<1>1. /\ a.start \in 1 .. Len(source) /\ a.start \in Nat /\ a.end \in Nat
      /\ a.kind \in Kind /\ a.start + 2 <= a.end /\ a.end <= Len(source) + 1
      /\ HasMarker(a.start, a.kind) /\ IsSpan(a) /\ 1 <= a.start
  BY <1>0, SpanFacts DEF IsSpan
<1>2. to \in Nat /\ a.end <= to /\ to <= Len(source) + 1
  <2>1. to \in Nat /\ items[r[2]].start \in Nat /\ items[r[2]].start + 2 <= to
        /\ to <= Len(source) + 1
    BY <1>0, SpanFacts
  <2>2. r[1] = r[2] \/ r[1] < r[2] BY <1>0 DEF IsRun
  <2>3. r[1] < r[2] => a.end <= items[r[2]].start
    BY <1>0 DEF ScanInv, SourceInv, IInv, SpansInOrder
  <2> QED BY <1>1, <2>1, <2>2, <2>3
<1>3. a.kind = "block" => to = a.end BY BlocksStandAlone
<1>4. IsSpanRewritable(a) BY <1>0 DEF IsRun
<1>5. HasCrlfNewlines(a) <=>
        \/ \E n \in a.start + 1 .. a.end - 1 :
             /\ source[n] = "nl" /\ source[n - 1] = "cr"
             /\ \A m \in a.start .. n - 1 : source[m] # "nl"
        \/ a.end + 1 <= Len(source) /\ source[a.end] = "cr" /\ source[a.end + 1] = "nl"
  BY DEF HasCrlfNewlines
<1> HIDE DEF a, to
<1>6. ASSUME HasCrlfNewlines(a) PROVE \E n \in 1 .. Len(source) : source[n] = "cr"
  <2>1. CASE \E n \in a.start + 1 .. a.end - 1 : source[n] = "nl" /\ source[n - 1] = "cr"
    <3>1. PICK n \in a.start + 1 .. a.end - 1 : source[n] = "nl" /\ source[n - 1] = "cr"
      BY <2>1
    <3>2. n - 1 \in 1 .. Len(source) BY <1>0, <1>1
    <3> QED BY <3>1, <3>2
  <2>2. CASE a.end + 1 <= Len(source) /\ source[a.end] = "cr" /\ source[a.end + 1] = "nl"
    <3>1. a.end \in 1 .. Len(source) BY <1>0, <1>1, <2>2
    <3> QED BY <2>2, <3>1
  <2> QED BY <1>5, <1>6, <2>1, <2>2
<1>7. ASSUME IsCrlfFile, EndsALine(a.start, to) PROVE HasCrlfNewlines(a)
  <2>1. PICK n \in a.start .. to + 1 : n <= Len(source) /\ IsNl(n) BY <1>7 DEF EndsALine
  <2>2. \A m \in 1 .. Len(source) : IsNl(m) => m > 1 /\ source[m - 1] = "cr"
    BY <1>7 DEF IsCrlfFile, IsNl
  <2>3. CASE a.kind = "line"
    <3>1. \A m \in a.start .. a.end - 1 : ~IsNl(m) BY <1>4, <2>3 DEF IsSpanRewritable, IsNl
    <3>2. EndsAsLine(a.end) BY <1>1, <2>3 DEF IsSpan
    <3>3. a.end # Len(source) + 1
      <4> SUFFICES ASSUME a.end = Len(source) + 1 PROVE FALSE OBVIOUS
      <4>1. n \in a.start .. a.end - 1 BY <1>0, <1>1, <2>1
      <4> QED BY <2>1, <3>1, <4>1
    <3>4. ~(IsNl(a.end) /\ source[a.end - 1] # "cr") BY <1>0, <1>1, <2>2, <3>3
    <3> QED BY <1>5, <3>2, <3>3, <3>4 DEF EndsAsLine, IsNl
  <2>4. CASE a.kind = "block"
    <3>1. source[a.end - 1] = "sl" /\ source[a.start] = "sl" /\ to = a.end
      BY <1>1, <1>3, <2>4 DEF IsSpan, HasMarker
    <3>2. n \in a.start .. a.end - 1 \/ n = a.end \/ n = a.end + 1 BY <1>1, <2>1, <3>1
    <3>3. CASE n = a.end
      <4>1. n \in 1 .. Len(source) BY <1>1, <2>1, <3>3
      <4> QED BY <2>1, <2>2, <3>1, <3>3, <4>1
    <3>4. CASE n = a.end + 1
      <4>1. n \in 1 .. Len(source) /\ n - 1 = a.end BY <1>1, <2>1, <3>4
      <4> QED BY <1>5, <2>1, <2>2, <3>4, <4>1 DEF IsNl
    <3>5. CASE n \in a.start .. a.end - 1
      <4> DEFINE S == {m \in a.start .. a.end - 1 : IsNl(m)}
      <4>1. S \in SUBSET Nat /\ S # {} BY <1>1, <2>1, <3>5
      <4>2. PICK m \in S : \A k \in S : m <= k BY <4>1, LeastOf
      <4>3. m \in a.start .. a.end - 1 /\ IsNl(m) /\ m # a.start BY <3>1, <4>2 DEF IsNl
      <4>4. m \in 1 .. Len(source) /\ m \in a.start + 1 .. a.end - 1
        <5>1. /\ a.start \in Nat \ {0} /\ a.end \in Nat
              /\ Len(source) \in Nat /\ a.end <= Len(source) + 1
          BY <1>0, <1>1
        <5>2. m \in a.start .. a.end - 1 /\ m # a.start BY <4>3
        <5> QED BY <5>1, <5>2
      <4>5. \A k \in a.start .. m - 1 : ~IsNl(k)
        <5> SUFFICES ASSUME NEW k \in a.start .. m - 1, IsNl(k) PROVE FALSE OBVIOUS
        <5>1. k \in a.start .. a.end - 1 /\ ~(m <= k) BY <1>1, <4>3
        <5> QED BY <4>2, <5>1
      <4> HIDE DEF S
      <4> QED BY <1>5, <2>2, <4>3, <4>4, <4>5 DEF IsNl
    <3> QED BY <3>2, <3>3, <3>4, <3>5
  <2> QED BY <1>1, <2>3, <2>4 DEF Kind
<1>8. IsLfFile => ~ HasCrlfNewlines(a) BY <1>6 DEF IsLfFile
<1> QED BY <1>7, <1>8 DEF a, to

\* For any source and width, what a rewrite refills are the longest runs of line
\* comments, and the slash-star comments, that have something to say and do not fit
\* as they are. In an LF file each is written with LF, and in a CRLF file with CRLF when a
\* newline is in the comment or directly behind it.
THEOREM RefillsAreTheRunsHolds == RewriteSpec => []RefillsAreTheRuns
<1>1. ScanInv /\ RunInv /\ RefillInv => RefillsAreTheRuns
  <2> SUFFICES ASSUME ScanInv, RunInv, RefillInv, finished PROVE RefillsAreTheRuns
    BY DEF RefillsAreTheRuns
  <2> DEFINE refills == {buffer[k] : k \in {k \in 1 .. Len(buffer) : buffer[k].how = "refill"}}
             ranges == {<<items[r[1]].start, items[r[2]].end>> : r \in Runs}
  <2>1. /\ turn > Len(grouped) /\ turn \in 1 .. Len(grouped) + 1 /\ Len(grouped) \in Nat
        /\ Len(items) \in Nat /\ Open = index /\ index > Len(items) /\ index \in Nat
    BY ItemFacts, LenProperties
       DEF ScanInv, SourceInv, CursorInv, GroupInv, IsGrouped, Open
  <2>2. ASSUME NEW p \in refills
        PROVE  \E r \in Runs : /\ ~ FitsItsLine(items[r[1]].start, items[r[2]].end)
                               /\ p = Refilled(BlockOf(r))
    <3>1. PICK k \in 1 .. Len(buffer) : buffer[k].how = "refill" /\ p = buffer[k] OBVIOUS
    <3>2. PICK j \in 1 .. turn - 1 :
            ~ IsFittingOneLineBlock(grouped[j]) /\ buffer[k] = Refilled(grouped[j])
      BY <3>1 DEF RefillInv
    <3>3. j \in 1 .. Len(grouped) BY <2>1
    <3>4. PICK r \in Runs : grouped[j] = BlockOf(r) BY <3>3 DEF RunInv
    <3> QED BY <3>1, <3>2, <3>4, FittingIsFitting
  <2>3. ASSUME NEW r \in Runs, ~ FitsItsLine(items[r[1]].start, items[r[2]].end)
        PROVE  Refilled(BlockOf(r)) \in refills
    <3>1. r[1] < Open BY <2>1, RunPairs
    <3>2. PICK j \in 1 .. Len(grouped) : grouped[j] = BlockOf(r) BY <3>1 DEF RunInv
    <3>3. j \in 1 .. turn - 1 /\ ~ IsFittingOneLineBlock(grouped[j])
      BY <2>1, <2>3, <3>2, FittingIsFitting
    <3>4. PICK k \in 1 .. Len(buffer) : buffer[k] = Refilled(grouped[j]) BY <3>3 DEF RefillInv
    <3>5. buffer[k].how = "refill" BY <3>4 DEF Refilled
    <3> QED BY <3>2, <3>4, <3>5
  <2>4. \A r : /\ Refilled(BlockOf(r)).from = items[r[1]].start
               /\ Refilled(BlockOf(r)).to = items[r[2]].end
               /\ Refilled(BlockOf(r)).crlf = HasCrlfNewlines(items[r[1]])
    BY DEF Refilled, BlockOf
  <2> HIDE DEF refills
  <2>5. {<<p.from, p.to>> : p \in refills} = {x \in ranges : ~ FitsItsLine(x[1], x[2])}
    <3>1. ASSUME NEW p \in refills
          PROVE  <<p.from, p.to>> \in ranges /\ ~ FitsItsLine(p.from, p.to)
      <4>1. PICK r \in Runs : /\ ~ FitsItsLine(items[r[1]].start, items[r[2]].end)
                              /\ p = Refilled(BlockOf(r))
        BY <2>2
      <4>2. p.from = items[r[1]].start /\ p.to = items[r[2]].end BY <2>4, <4>1
      <4> QED BY <4>1, <4>2
    <3>2. ASSUME NEW x \in ranges, ~ FitsItsLine(x[1], x[2])
          PROVE  \E p \in refills : x = <<p.from, p.to>>
      <4>1. PICK r \in Runs : x = <<items[r[1]].start, items[r[2]].end>> OBVIOUS
      <4>2. Refilled(BlockOf(r)) \in refills BY <2>3, <3>2, <4>1
      <4> QED BY <2>4, <4>1, <4>2
    <3> HIDE DEF ranges
    <3> QED BY <3>1, <3>2
  <2>6. ASSUME NEW p \in refills
        PROVE  /\ IsLfFile => ~ p.crlf
               /\ IsCrlfFile /\ EndsALine(p.from, p.to) => p.crlf
    <3>1. PICK r \in Runs : p = Refilled(BlockOf(r)) BY <2>2
    <3>2. /\ p.from = items[r[1]].start /\ p.to = items[r[2]].end
          /\ p.crlf = HasCrlfNewlines(items[r[1]])
      BY <2>4, <3>1
    <3>3. /\ IsLfFile => ~ HasCrlfNewlines(items[r[1]])
          /\ IsCrlfFile => (EndsALine(items[r[1]].start, items[r[2]].end) =>
                              HasCrlfNewlines(items[r[1]]))
      BY EndingIsOfFile
    <3> QED BY <3>2, <3>3
  <2> QED BY <2>5, <2>6 DEF RefillsAreTheRuns, EndsALine, refills
<1> QED BY <1>1, RunsHold, PTL

-----------------------------------------------------------------------------
(* The scan finds the comments of C *)

\* The places that no splice holds, and the bytes at them: what C reads.
Rank(p) == Len(Kept[p])
Logical == TextAt(Unspliced)

IsKept(f, n) ==
  f = [p \in 0..n |->
         IF p = 0 THEN <<>> ELSE IF IsSpliced(p) THEN f[p - 1] ELSE Append(f[p - 1], p)]

LEMMA KeptExists == \A n \in Nat : \E f : IsKept(f, n)
<1> DEFINE P(n) == \E f : IsKept(f, n)
           T == {n \in Nat : ~P(n)}
           Step(f, p) == IF p = 0 THEN <<>>
                         ELSE IF IsSpliced(p) THEN f[p - 1] ELSE Append(f[p - 1], p)
<1>1. SUFFICES ASSUME T # {} PROVE FALSE OBVIOUS
<1>2. PICK n \in T : \A m \in T : n <= m BY <1>1, LeastOf
<1>3. n # 0
  <2>1. [p \in 0..0 |-> <<>>] = [p \in 0..0 |-> Step([k \in 0..0 |-> <<>>], p)]
    <3>1. \A p \in 0..0 : p = 0 OBVIOUS
    <3> QED BY <3>1
  <2>2. IsKept([p \in 0..0 |-> <<>>], 0) BY <2>1 DEF IsKept
  <2> QED BY <1>2, <2>2
<1>4. n \in Nat /\ n - 1 \in Nat /\ ~(n <= n - 1) BY <1>2, <1>3
<1>5. PICK g : IsKept(g, n - 1) BY <1>2, <1>4
<1> DEFINE f == [p \in 0..n |-> IF p < n THEN g[p] ELSE Step(g, p)]
<1>6. ASSUME NEW p \in 0..n PROVE f[p] = Step(f, p)
  <2>1. CASE p = n
    <3>1. f[p] = Step(g, p) BY <1>4, <2>1
    <3>2. p - 1 \in 0..n /\ p - 1 < n BY <1>4, <2>1
    <3>3. f[p - 1] = g[p - 1] BY <3>2
    <3> HIDE DEF f
    <3> QED BY <3>1, <3>3
  <2>2. CASE p # n
    <3>1. p \in 0..(n - 1) /\ p < n BY <1>4, <2>2
    <3>2. g[p] = Step(g, p) BY <1>5, <3>1 DEF IsKept
    <3>3. p # 0 => p - 1 \in 0..n /\ p - 1 < n BY <1>4, <3>1
    <3>4. p # 0 => f[p - 1] = g[p - 1] BY <3>3
    <3>5. f[p] = g[p] BY <3>1
    <3> HIDE DEF f
    <3> QED BY <3>2, <3>4, <3>5
  <2> QED BY <2>1, <2>2
<1>7. f = [p \in 0..n |-> f[p]] OBVIOUS
<1> HIDE DEF f
<1>8. f = [p \in 0..n |-> Step(f, p)] BY <1>6, <1>7
<1>9. IsKept(f, n) BY <1>8 DEF IsKept
<1> QED BY <1>2, <1>9

\* A byte that no splice holds is kept behind those before it.
LEMMA KeptFollows ==
  ASSUME source \in Seq(Byte)
  PROVE  /\ Kept[0] = <<>>
         /\ \A p \in 1..Len(source) :
              Kept[p] = IF IsSpliced(p) THEN Kept[p - 1] ELSE Append(Kept[p - 1], p)
<1>1. Len(source) \in Nat BY LenProperties
<1>2. \E f : IsKept(f, Len(source)) BY <1>1, KeptExists
<1>3. Kept = CHOOSE f : IsKept(f, Len(source)) BY DEF Kept, IsKept
<1>4. IsKept(Kept, Len(source)) BY <1>2, <1>3
<1>5. 0 \in 0..Len(source) /\ \A p \in 1..Len(source) : p \in 0..Len(source) /\ p # 0
  BY <1>1
<1> QED BY <1>4, <1>5 DEF IsKept

LEMMA KeptType ==
  ASSUME source \in Seq(Byte)
  PROVE  \A p \in 0..Len(source) : Kept[p] \in Seq(1..Len(source))
<1>1. Len(source) \in Nat BY LenProperties
<1> DEFINE P(p) == Kept[p] \in Seq(1..Len(source))
           T == {p \in 0..Len(source) : ~P(p)}
<1>2. SUFFICES ASSUME T # {} PROVE FALSE OBVIOUS
<1>3. T \in SUBSET Nat BY <1>1
<1>4. PICK p \in T : \A m \in T : p <= m BY <1>2, <1>3, LeastOf
<1>5. p # 0
  <2>1. Kept[0] = <<>> BY KeptFollows
  <2>2. <<>> \in Seq(1..Len(source)) OBVIOUS
  <2>3. P(0) BY <2>1, <2>2
  <2> HIDE DEF P
  <2> QED BY <1>4, <2>3
<1>6. p \in 1..Len(source) /\ p - 1 \in 0..Len(source) /\ ~(p <= p - 1) BY <1>1, <1>4, <1>5
<1>7. P(p - 1) BY <1>4, <1>6
<1>8. P(p)
  <2>1. Kept[p] = Kept[p - 1] \/ Kept[p] = Append(Kept[p - 1], p) BY <1>6, KeptFollows
  <2>2. Append(Kept[p - 1], p) \in Seq(1..Len(source)) BY <1>6, <1>7, AppendProperties
  <2> QED BY <1>7, <2>1, <2>2
<1> QED BY <1>4, <1>8

LEMMA RankType ==
  ASSUME source \in Seq(Byte)
  PROVE  \A p \in 0..Len(source) : Rank(p) \in Nat
<1> QED BY KeptType, LenProperties DEF Rank

\* What is kept before a place is the beginning of all that is kept.
LEMMA KeptPrefix ==
  ASSUME source \in Seq(Byte)
  PROVE  \A p \in 0..Len(source) :
           /\ Rank(p) <= Len(Unspliced)
           /\ \A m \in 1..Rank(p) : Unspliced[m] = Kept[p][m]
<1>1. Len(source) \in Nat BY LenProperties
<1> DEFINE L == Len(source)
           P(p) == /\ Rank(p) <= Len(Unspliced)
                   /\ \A m \in 1..Rank(p) : Unspliced[m] = Kept[p][m]
           T == {d \in 0..L : ~P(L - d)}
<1>2. SUFFICES T = {}
  <2>1. \A p \in 0..L : L - p \in 0..L /\ L - (L - p) = p BY <1>1
  <2> SUFFICES ASSUME NEW p \in 0..L PROVE P(p) OBVIOUS
  <2> HIDE DEF P
  <2> QED BY <1>1, <2>1
<1>3. SUFFICES ASSUME T # {} PROVE FALSE OBVIOUS
<1>4. T \in SUBSET Nat BY <1>1
<1>5. PICK d \in T : \A m \in T : d <= m BY <1>3, <1>4, LeastOf
<1>6. d # 0
  <2>1. L - 0 = L /\ L \in 0..L BY <1>1
  <2>2. Rank(L) \in Nat BY <2>1, RankType
  <2>3. P(L) BY <2>2 DEF Rank, Unspliced
  <2> HIDE DEF P
  <2> QED BY <1>5, <2>1, <2>3
<1> DEFINE p == L - d
<1>7. p + 1 \in 1..L /\ L - (d - 1) = p + 1 /\ d - 1 \in 0..L /\ ~(d <= d - 1) /\ p \in 0..L
      /\ (p + 1) - 1 = p /\ p + 1 \in 0..L
  BY <1>1, <1>5, <1>6
<1>8. P(p + 1)
  <2> HIDE DEF P, p
  <2> QED BY <1>5, <1>7
<1> HIDE DEF p
<1>9. Kept[p + 1] = Kept[p] \/ Kept[p + 1] = Append(Kept[p], p + 1) BY <1>7, KeptFollows
<1>10. Kept[p] \in Seq(1..Len(source)) /\ p + 1 \in 1..Len(source) BY <1>7, KeptType
<1>11. Rank(p) \in Nat /\ Rank(p + 1) \in Nat /\ Rank(L) \in Nat
  <2>1. L \in 0..L BY <1>1
  <2> QED BY <1>7, <2>1, RankType
<1>12. Rank(p) <= Rank(p + 1) /\ \A m \in 1..Rank(p) : Kept[p + 1][m] = Kept[p][m]
  <2>1. CASE Kept[p + 1] = Kept[p] BY <1>11, <2>1 DEF Rank
  <2>2. CASE Kept[p + 1] = Append(Kept[p], p + 1)
    BY <1>10, <1>11, <2>2, AppendProperties DEF Rank
  <2> QED BY <1>9, <2>1, <2>2
<1>13. P(p)
  <2>1. Len(Unspliced) \in Nat BY <1>11 DEF Rank, Unspliced
  <2>2. \A m \in 1..Rank(p) : m \in 1..Rank(p + 1) BY <1>11, <1>12
  <2> QED BY <1>8, <1>11, <1>12, <2>1, <2>2
<1> QED
  <2> HIDE DEF P
  <2> QED BY <1>5, <1>13 DEF p

\* The text C reads has the bytes that are kept, at their ranks,
LEMMA LogicalType ==
  ASSUME source \in Seq(Byte)
  PROVE  /\ Logical \in Seq(Byte) /\ Len(Logical) = Rank(Len(source))
         /\ Len(Logical) = Len(Unspliced) /\ Len(Logical) \in Nat
<1>1. Len(source) \in Nat /\ Len(source) \in 0..Len(source) BY LenProperties
<1>2. Unspliced \in Seq(1..Len(source)) BY <1>1, KeptType DEF Unspliced
<1>3. Len(Unspliced) \in Nat /\ \A j \in 1..Len(Unspliced) : Unspliced[j] \in 1..Len(source)
  BY <1>2, LenProperties, ElementOfSeq
<1>4. \A p \in 1..Len(source) : source[p] \in Byte BY ElementOfSeq
<1>5. Logical = [j \in 1..Len(Unspliced) |-> source[Unspliced[j]]] BY DEF Logical, TextAt
<1> HIDE DEF Logical
<1>6. Logical \in [1..Len(Unspliced) -> Byte] BY <1>3, <1>4, <1>5
<1>7. Logical \in Seq(Byte) /\ Len(Logical) = Len(Unspliced) BY <1>3, <1>6, IsASeq, LenProperties
<1> QED BY <1>3, <1>7 DEF Rank, Unspliced

LEMMA RankKeeps ==
  ASSUME source \in Seq(Byte), NEW p \in 1..Len(source), ~IsSpliced(p)
  PROVE  /\ Rank(p - 1) \in Nat /\ Rank(p) = Rank(p - 1) + 1 /\ Rank(p) \in 1..Len(Logical)
         /\ Unspliced[Rank(p)] = p /\ Logical[Rank(p)] = source[p]
<1>1. Len(source) \in Nat /\ p \in 0..Len(source) /\ p - 1 \in 0..Len(source) BY LenProperties
<1>2. Kept[p] = Append(Kept[p - 1], p) BY KeptFollows
<1>3. Kept[p - 1] \in Seq(1..Len(source)) BY <1>1, KeptType
<1>4. Rank(p - 1) \in Nat BY <1>1, RankType
<1>5. Rank(p) = Rank(p - 1) + 1 /\ Kept[p][Rank(p)] = p
  BY <1>2, <1>3, AppendProperties DEF Rank
<1>6. Rank(p) \in 1..Rank(p) /\ Rank(p) \in Nat BY <1>4, <1>5
<1>7. Rank(p) <= Len(Unspliced) /\ Unspliced[Rank(p)] = p BY <1>1, <1>5, <1>6, KeptPrefix
<1>8. Len(Logical) = Len(Unspliced) /\ Len(Logical) \in Nat BY LogicalType
<1>9. Rank(p) \in 1..Len(Unspliced) BY <1>6, <1>7, <1>8
<1>10. Logical[Rank(p)] = source[p] BY <1>7, <1>9 DEF Logical, TextAt
<1> QED BY <1>4, <1>5, <1>7, <1>8, <1>9, <1>10

\* and none that a splice holds.
LEMMA RankSkips ==
  ASSUME source \in Seq(Byte), NEW p \in 1..Len(source), IsSpliced(p)
  PROVE  Rank(p) = Rank(p - 1)
BY KeptFollows DEF Rank

-----------------------------------------------------------------------------
(* The tokens of a text *)

LEMMA FirstOfFacts ==
  ASSUME NEW t \in Seq(Byte), NEW S \in SUBSET (1..Len(t))
  PROVE  /\ FirstOf(t, S) \in S \cup {Len(t) + 1} /\ FirstOf(t, S) \in 1..(Len(t) + 1)
         /\ \A y \in S : FirstOf(t, S) <= y
<1>1. Len(t) \in Nat BY LenProperties
<1> DEFINE U == S \cup {Len(t) + 1}
<1>2. U \in SUBSET Nat /\ U # {} /\ U \in SUBSET (1..(Len(t) + 1))
  <2>1. ASSUME NEW x \in U PROVE x \in 1..(Len(t) + 1)
    <3>1. CASE x = Len(t) + 1 BY <1>1, <3>1
    <3>2. CASE x \in S
      <4>1. x \in 1..Len(t) BY <3>2
      <4> QED BY <1>1, <4>1
    <3> QED BY <3>1, <3>2
  <2>2. Len(t) + 1 \in U OBVIOUS
  <2> HIDE DEF U
  <2>3. \A x \in U : x \in Nat BY <1>1, <2>1
  <2> QED BY <2>1, <2>2, <2>3
<1>3. \E x \in U : \A y \in U : x <= y BY <1>2, LeastOf
<1>4. Min(U) \in U /\ \A y \in U : Min(U) <= y BY <1>3 DEF Min
<1> QED BY <1>2, <1>4 DEF FirstOf

LEMMA FirstOfIs ==
  ASSUME NEW t \in Seq(Byte), NEW S \in SUBSET (1..Len(t)), NEW x \in S,
         \A y \in S : x <= y
  PROVE  FirstOf(t, S) = x
<1>1. Len(t) \in Nat BY LenProperties
<1>2. FirstOf(t, S) \in S \cup {Len(t) + 1} /\ FirstOf(t, S) <= x BY FirstOfFacts
<1>3. x \in Nat /\ x <= Len(t) BY <1>1
<1>4. FirstOf(t, S) \in S BY <1>1, <1>2, <1>3
<1>5. x <= FirstOf(t, S) BY <1>4
<1>6. FirstOf(t, S) \in Nat
  <2>1. FirstOf(t, S) \in 1..Len(t) BY <1>4
  <2> QED BY <2>1
<1> QED BY <1>2, <1>3, <1>5, <1>6

\* Where a comment or a literal that is open up to n ends, if it does at n + 1,
LEMMA LineStops ==
  ASSUME NEW t \in Seq(Byte), NEW j \in Nat, NEW n \in Nat, j >= 1, j <= n,
         \A m \in (j + 1)..n : t[m] # "nl"
  PROVE  /\ n + 1 <= Len(t) /\ t[n + 1] = "nl" => LineStop(t, j) = n + 1
         /\ n = Len(t) => LineStop(t, j) = Len(t) + 1
<1>1. Len(t) \in Nat BY LenProperties
<1> DEFINE S == {m \in (j + 1)..Len(t) : t[m] = "nl"}
<1>2. S \in SUBSET (1..Len(t)) BY <1>1
<1>3. \A m \in S : m \in Nat /\ ~(m <= n) BY <1>1
<1>4. LineStop(t, j) = FirstOf(t, S) BY DEF LineStop
<1>5. ASSUME n + 1 <= Len(t), t[n + 1] = "nl" PROVE FirstOf(t, S) = n + 1
  <2>1. n + 1 \in S BY <1>1, <1>5
  <2>2. \A m \in S : n + 1 <= m BY <1>3
  <2> HIDE DEF S
  <2> QED BY <1>2, <2>1, <2>2, FirstOfIs
<1>6. ASSUME n = Len(t) PROVE FirstOf(t, S) = Len(t) + 1
  <2>1. S = {} BY <1>1, <1>6
  <2> HIDE DEF S
  <2> QED BY <1>2, <2>1, FirstOfFacts
<1> QED BY <1>4, <1>5, <1>6

LEMMA BlockEnds ==
  ASSUME NEW t \in Seq(Byte), NEW j \in Nat, NEW n \in Nat, j >= 1, j + 1 <= n,
         \A m \in (j + 3)..n : ~IsPair(t, m - 1, "st", "sl")
  PROVE  /\ j + 3 <= n + 1 /\ n + 1 <= Len(t) /\ IsPair(t, n, "st", "sl") =>
              BlockEnd(t, j) = n + 1
         /\ n = Len(t) => BlockEnd(t, j) = Len(t) + 1
<1>1. Len(t) \in Nat BY LenProperties
<1> DEFINE S == {m \in (j + 3)..Len(t) : IsPair(t, m - 1, "st", "sl")}
<1>2. S \in SUBSET (1..Len(t)) BY <1>1
<1>3. \A m \in S : m \in Nat /\ ~(m <= n) BY <1>1
<1>4. BlockEnd(t, j) = FirstOf(t, S) BY DEF BlockEnd
<1>5. ASSUME j + 3 <= n + 1, n + 1 <= Len(t), IsPair(t, n, "st", "sl")
      PROVE  FirstOf(t, S) = n + 1
  <2>0. (n + 1) - 1 = n OBVIOUS
  <2>1. n + 1 \in S BY <1>1, <1>5, <2>0
  <2>2. \A m \in S : n + 1 <= m BY <1>3
  <2> HIDE DEF S
  <2> QED BY <1>2, <2>1, <2>2, FirstOfIs
<1>6. ASSUME n = Len(t) PROVE FirstOf(t, S) = Len(t) + 1
  <2>1. S = {} BY <1>1, <1>6
  <2> HIDE DEF S
  <2> QED BY <1>2, <2>1, FirstOfFacts
<1> QED BY <1>4, <1>5, <1>6

EndsLiteral(t, j, n) == t[n] = "nl" \/ (t[n] = t[j] /\ Backslashes(t, j, n) % 2 = 0)

LEMMA LiteralEnds ==
  ASSUME NEW t \in Seq(Byte), NEW j \in Nat, NEW n \in Nat, j >= 1, j <= n,
         \A m \in (j + 1)..n : ~EndsLiteral(t, j, m)
  PROVE  /\ n + 1 <= Len(t) /\ EndsLiteral(t, j, n + 1) => LiteralEnd(t, j) = n + 1
         /\ n = Len(t) => LiteralEnd(t, j) = Len(t) + 1
<1>1. Len(t) \in Nat BY LenProperties
<1> DEFINE S == {m \in (j + 1)..Len(t) : EndsLiteral(t, j, m)}
<1>2. S \in SUBSET (1..Len(t)) BY <1>1
<1>3. \A m \in S : m \in Nat /\ ~(m <= n) BY <1>1
<1>4. LiteralEnd(t, j) = FirstOf(t, S) BY DEF LiteralEnd, EndsLiteral
<1>5. ASSUME n + 1 <= Len(t), EndsLiteral(t, j, n + 1) PROVE FirstOf(t, S) = n + 1
  <2>1. n + 1 \in S BY <1>1, <1>5
  <2>2. \A m \in S : n + 1 <= m BY <1>3
  <2> HIDE DEF S
  <2> QED BY <1>2, <2>1, <2>2, FirstOfIs
<1>6. ASSUME n = Len(t) PROVE FirstOf(t, S) = Len(t) + 1
  <2>1. S = {} BY <1>1, <1>6
  <2> HIDE DEF S
  <2> QED BY <1>2, <2>1, FirstOfFacts
<1> QED BY <1>4, <1>5, <1>6

\* Behind a literal's quote the run of backslashes is empty, and each byte adds to it
\* or ends it.
LEMMA GreatestOf ==
  ASSUME NEW S \in SUBSET Nat, NEW x \in S, \A y \in S : y <= x
  PROVE  Max(S) = x
<1>1. Max(S) \in S /\ \A y \in S : Max(S) >= y BY DEF Max
<1>2. Max(S) <= x /\ Max(S) >= x /\ Max(S) \in Nat /\ x \in Nat BY <1>1
<1> QED BY <1>2

LEMMA BackslashRun ==
  ASSUME NEW t, NEW j \in Nat, NEW n \in Nat, j <= n
  PROVE  /\ Backslashes(t, j, j + 1) = 0
         /\ Backslashes(t, j, n + 1) \in Nat
         /\ n > j /\ t[n] # "bsl" => Backslashes(t, j, n + 1) = 0
         /\ n > j /\ t[n] = "bsl" => Backslashes(t, j, n + 1) = Backslashes(t, j, n) + 1
<1> DEFINE Stop(p) == {j} \cup {m \in (j + 1)..(p - 1) : t[m] # "bsl"}
<1>1. \A p : Backslashes(t, j, p) = p - 1 - Max(Stop(p)) BY DEF Backslashes
<1>2. Stop(j + 1) = {j} OBVIOUS
<1>3. Max(Stop(j + 1)) = j
  <2> HIDE DEF Stop
  <2> QED BY <1>2, GreatestOf
<1>4. Max(Stop(n + 1)) \in j..n
  <2>1. \A x \in Stop(n + 1) : n - x \in Nat /\ x \in Nat /\ x \in j..n OBVIOUS
  <2>2. j \in Stop(n + 1) OBVIOUS
  <2> HIDE DEF Stop
  <2>3. PICK d \in {n - x : x \in Stop(n + 1)} : \A e \in {n - x : x \in Stop(n + 1)} : d <= e
    <3>1. {n - x : x \in Stop(n + 1)} \in SUBSET Nat BY <2>1
    <3>2. {n - x : x \in Stop(n + 1)} # {} BY <2>2
    <3> QED BY <3>1, <3>2, LeastOf
  <2>4. PICK x \in Stop(n + 1) : d = n - x OBVIOUS
  <2>5. \A y \in Stop(n + 1) : n - x <= n - y BY <2>3, <2>4
  <2>6. \A y \in Stop(n + 1) : y <= x BY <2>1, <2>5
  <2>7. Stop(n + 1) \in SUBSET Nat BY <2>1
  <2>8. Max(Stop(n + 1)) = x BY <2>6, <2>7, GreatestOf
  <2> QED BY <2>1, <2>8
<1>5. n > j /\ t[n] # "bsl" => Max(Stop(n + 1)) = n
  <2> SUFFICES ASSUME n > j, t[n] # "bsl" PROVE Max(Stop(n + 1)) = n OBVIOUS
  <2>1. n \in Stop(n + 1) /\ Stop(n + 1) \in SUBSET Nat /\ \A y \in Stop(n + 1) : y <= n
    OBVIOUS
  <2> HIDE DEF Stop
  <2> QED BY <2>1, GreatestOf
<1>6. n > j /\ t[n] = "bsl" => Stop(n + 1) = Stop(n)
  <2> SUFFICES ASSUME n > j, t[n] = "bsl" PROVE Stop(n + 1) = Stop(n) OBVIOUS
  <2>1. ASSUME NEW m \in (j + 1)..((n + 1) - 1), t[m] # "bsl" PROVE m \in (j + 1)..(n - 1)
    <3>1. m # n BY <2>1
    <3> QED BY <3>1
  <2>2. \A m \in (j + 1)..(n - 1) : m \in (j + 1)..((n + 1) - 1) OBVIOUS
  <2> QED BY <2>1, <2>2
<1> HIDE DEF Stop
<1>7. Backslashes(t, j, j + 1) = 0
  <2>1. Backslashes(t, j, j + 1) = (j + 1) - 1 - j BY <1>1, <1>3
  <2> QED BY <2>1
<1>8. Backslashes(t, j, n + 1) = (n + 1) - 1 - Max(Stop(n + 1)) BY <1>1
<1>9. Backslashes(t, j, n) = n - 1 - Max(Stop(n)) BY <1>1
<1>10. Backslashes(t, j, n + 1) \in Nat BY <1>4, <1>8
<1>11. n > j /\ t[n] # "bsl" => Backslashes(t, j, n + 1) = 0 BY <1>5, <1>8
<1>12. n > j /\ t[n] = "bsl" => Backslashes(t, j, n + 1) = Backslashes(t, j, n) + 1
  <2> SUFFICES ASSUME n > j, t[n] = "bsl"
               PROVE  Backslashes(t, j, n + 1) = Backslashes(t, j, n) + 1
    OBVIOUS
  <2>1. Max(Stop(n)) = Max(Stop(n + 1)) BY <1>6
  <2>2. Max(Stop(n)) \in Nat BY <1>4, <2>1
  <2> QED BY <1>8, <1>9, <2>1, <2>2
<1> QED BY <1>7, <1>10, <1>11, <1>12

\* Every token is behind its start,
LEMMA NextTokenPast ==
  ASSUME NEW t \in Seq(Byte), NEW j \in 1..Len(t)
  PROVE  NextToken(t, j) \in Nat /\ NextToken(t, j) >= j + 1
<1>1. Len(t) \in Nat /\ j \in Nat /\ j >= 1 /\ j <= Len(t) BY LenProperties
<1> DEFINE Past(n) == n \in Nat /\ n >= j + 1
<1>2. ASSUME NEW S \in SUBSET ((j + 1)..Len(t)) PROVE Past(FirstOf(t, S))
  <2>1. S \in SUBSET (1..Len(t))
    <3>1. \A x \in (j + 1)..Len(t) : x \in 1..Len(t) BY <1>1
    <3> QED BY <3>1
  <2>2. FirstOf(t, S) \in S \/ FirstOf(t, S) = Len(t) + 1 BY <2>1, FirstOfFacts
  <2>3. CASE FirstOf(t, S) \in S
    <3>1. FirstOf(t, S) \in (j + 1)..Len(t) BY <2>3
    <3> QED BY <1>1, <3>1
  <2> QED BY <1>1, <2>2, <2>3
<1>3. Past(LineStop(t, j)) BY <1>2 DEF LineStop
<1>4. Past(LiteralEnd(t, j)) BY <1>2 DEF LiteralEnd
<1>5. Past(BlockEnd(t, j))
  <2>1. {n \in (j + 3)..Len(t) : IsPair(t, n - 1, "st", "sl")} \in SUBSET ((j + 1)..Len(t))
    BY <1>1
  <2> QED BY <1>2, <2>1 DEF BlockEnd
<1>6. \A n : Past(n) => Past(n + 1) BY <1>1
<1>7. Past(j + 1) /\ Past(j + 2) BY <1>1
<1>8. Past(BlockEnd(t, j) + 1) /\ Past(LiteralEnd(t, j) + 1) BY <1>4, <1>5, <1>6
<1> HIDE DEF Past
<1>9. Past(NextToken(t, j)) BY <1>3, <1>7, <1>8 DEF NextToken
<1> QED BY <1>9 DEF Past

IsBehindTokens(t, f, n) ==
  f = [j \in 0..n |-> IF j = 0 THEN 1
                      ELSE LET start == f[j - 1] IN IF j = start THEN NextToken(t, j) ELSE start]

LEMMA TokenBehindExists == \A t : \A n \in Nat : \E f : IsBehindTokens(t, f, n)
<1> SUFFICES ASSUME NEW t PROVE \A n \in Nat : \E f : IsBehindTokens(t, f, n) OBVIOUS
<1> DEFINE P(n) == \E f : IsBehindTokens(t, f, n)
           T == {n \in Nat : ~P(n)}
           Step(f, j) == IF j = 0 THEN 1
                         ELSE IF j = f[j - 1] THEN NextToken(t, j) ELSE f[j - 1]
<1>1. SUFFICES ASSUME T # {} PROVE FALSE OBVIOUS
<1>2. PICK n \in T : \A m \in T : n <= m BY <1>1, LeastOf
<1>3. n # 0
  <2>1. [p \in 0..0 |-> 1] = [p \in 0..0 |-> Step([k \in 0..0 |-> 1], p)]
    <3>1. \A p \in 0..0 : p = 0 OBVIOUS
    <3> QED BY <3>1
  <2>2. IsBehindTokens(t, [p \in 0..0 |-> 1], 0) BY <2>1 DEF IsBehindTokens
  <2> QED BY <1>2, <2>2
<1>4. n \in Nat /\ n - 1 \in Nat /\ ~(n <= n - 1) BY <1>2, <1>3
<1>5. PICK g : IsBehindTokens(t, g, n - 1) BY <1>2, <1>4
<1> DEFINE f == [p \in 0..n |-> IF p < n THEN g[p] ELSE Step(g, p)]
<1>6. ASSUME NEW p \in 0..n PROVE f[p] = Step(f, p)
  <2>1. CASE p = n
    <3>1. f[p] = Step(g, p) BY <1>4, <2>1
    <3>2. p - 1 \in 0..n /\ p - 1 < n BY <1>4, <2>1
    <3>3. f[p - 1] = g[p - 1] BY <3>2
    <3> HIDE DEF f
    <3> QED BY <3>1, <3>3
  <2>2. CASE p # n
    <3>1. p \in 0..(n - 1) /\ p < n BY <1>4, <2>2
    <3>2. g[p] = Step(g, p) BY <1>5, <3>1 DEF IsBehindTokens
    <3>3. p # 0 => p - 1 \in 0..n /\ p - 1 < n BY <1>4, <3>1
    <3>4. p # 0 => f[p - 1] = g[p - 1] BY <3>3
    <3>5. f[p] = g[p] BY <3>1
    <3> HIDE DEF f
    <3> QED BY <3>2, <3>4, <3>5
  <2> QED BY <2>1, <2>2
<1>7. f = [p \in 0..n |-> f[p]] OBVIOUS
<1> HIDE DEF f
<1>8. f = [p \in 0..n |-> Step(f, p)] BY <1>6, <1>7
<1>9. IsBehindTokens(t, f, n) BY <1>8 DEF IsBehindTokens
<1> QED BY <1>2, <1>9

LEMMA TokenBehindFollows ==
  ASSUME NEW t \in Seq(Byte)
  PROVE  /\ TokenBehind(t)[0] = 1
         /\ \A n \in 1..Len(t) :
              TokenBehind(t)[n] = IF n = TokenBehind(t)[n - 1] THEN NextToken(t, n)
                                  ELSE TokenBehind(t)[n - 1]
<1>1. Len(t) \in Nat BY LenProperties
<1>2. \E f : IsBehindTokens(t, f, Len(t)) BY <1>1, TokenBehindExists
<1>3. TokenBehind(t) = CHOOSE f : IsBehindTokens(t, f, Len(t))
  BY DEF TokenBehind, IsBehindTokens
<1>4. IsBehindTokens(t, TokenBehind(t), Len(t)) BY <1>2, <1>3
<1>5. 0 \in 0..Len(t) /\ \A p \in 1..Len(t) : p \in 0..Len(t) /\ p # 0
  BY <1>1
<1> HIDE DEF TokenBehind
<1> DEFINE F == TokenBehind(t)
<1>6. F = [j \in 0..Len(t) |-> IF j = 0 THEN 1
                               ELSE IF j = F[j - 1] THEN NextToken(t, j) ELSE F[j - 1]]
  BY <1>4 DEF IsBehindTokens
<1> HIDE DEF F
<1>7. F[0] = 1 /\ \A n \in 1..Len(t) : F[n] = IF n = F[n - 1] THEN NextToken(t, n) ELSE F[n - 1]
  BY <1>5, <1>6
<1> QED BY <1>7 DEF F

\* and up to its end no other one starts.
LEMMA TokenRuns ==
  ASSUME NEW t \in Seq(Byte), NEW j \in 1..Len(t), TokenBehind(t)[j - 1] = j
  PROVE  \A n \in j..Len(t) : n < NextToken(t, j) => TokenBehind(t)[n] = NextToken(t, j)
<1>1. Len(t) \in Nat /\ j \in Nat BY LenProperties
<1>2. NextToken(t, j) \in Nat BY NextTokenPast
<1> DEFINE P(n) == n < NextToken(t, j) => TokenBehind(t)[n] = NextToken(t, j)
           T == {n \in j..Len(t) : ~P(n)}
<1>3. SUFFICES ASSUME T # {} PROVE FALSE OBVIOUS
<1>4. T \in SUBSET Nat BY <1>1
<1>5. PICK n \in T : \A m \in T : n <= m BY <1>3, <1>4, LeastOf
<1>6. n \in 1..Len(t) /\ n \in Nat BY <1>1
<1>7. n # j
  <2>1. TokenBehind(t)[j] = NextToken(t, j) BY TokenBehindFollows
  <2> QED BY <1>5, <2>1
<1>8. n - 1 \in j..Len(t) /\ ~(n <= n - 1) /\ n - 1 < n BY <1>1, <1>6, <1>7
<1>9. P(n - 1)
  <2> HIDE DEF P
  <2> QED BY <1>5, <1>8
<1>10. n < NextToken(t, j) /\ n - 1 < NextToken(t, j) BY <1>2, <1>5, <1>6
<1>11. TokenBehind(t)[n - 1] = NextToken(t, j) BY <1>9, <1>10
<1>12. n # NextToken(t, j) BY <1>2, <1>6, <1>10
<1>13. TokenBehind(t)[n] = NextToken(t, j) BY <1>6, <1>11, <1>12, TokenBehindFollows
<1> QED BY <1>5, <1>13

-----------------------------------------------------------------------------
(* The comments of C up to a place *)

Behind == TokenBehind(Logical)

\* What the token at j is, if it is a comment.
CommentAt ==
  [j \in 1..Len(Logical) |->
     IF IsPair(Logical, j, "sl", "st") /\ BlockEnd(Logical, j) <= Len(Logical)
     THEN {<<"block", Unspliced[j], Unspliced[BlockEnd(Logical, j)] + 1>>}
     ELSE IF IsPair(Logical, j, "sl", "sl")
          THEN {<<"line", Unspliced[j], LineSpanEnd(Logical, Unspliced, j)>>}
          ELSE {}]

CommentsTo ==
  [n \in 0..Len(Logical) |-> UNION {CommentAt[j] : j \in {k \in Tokens(Logical) : k <= n}}]

\* A token starts behind the first n bytes, and f are the comments among them.
Fresh(f, n) == n \in 0..Len(Logical) /\ Behind[n] = n + 1 /\ f = CommentsTo[n]

\* The first n bytes end within a comment that starts at s, or within a literal.
InLine(f, s, n) ==
  LET j == Rank(s)
  IN  /\ j \in 1..Len(Logical) /\ n \in 1..Len(Logical) /\ j + 1 <= n
      /\ Fresh(f, j - 1) /\ IsPair(Logical, j, "sl", "sl")
      /\ \A m \in (j + 1)..n : Logical[m] # "nl"

InBlock(f, s, n) ==
  LET j == Rank(s)
  IN  /\ j \in 1..Len(Logical) /\ n \in 1..Len(Logical) /\ j + 1 <= n
      /\ Fresh(f, j - 1) /\ IsPair(Logical, j, "sl", "st")
      /\ \A m \in (j + 3)..n : ~IsPair(Logical, m - 1, "st", "sl")

InLiteral(f, quote, n) ==
  \E j \in 1..Len(Logical) :
    /\ n \in 1..Len(Logical) /\ j <= n /\ Fresh(f, j - 1) /\ Logical[j] = quote
    /\ \A m \in (j + 1)..n : ~EndsLiteral(Logical, j, m)
    /\ Backslashes(Logical, j, n + 1) % 2 = 0

LEMMA CommentsAre ==
  ASSUME source \in Seq(Byte)
  PROVE  CommentsTo[Len(Logical)] = Comments
<1>1. Len(Logical) \in Nat BY LogicalType
<1> DEFINE t == Logical
           tokens == Tokens(t)
           blocks == {j \in tokens : IsPair(t, j, "sl", "st") /\ BlockEnd(t, j) <= Len(t)}
           lines == {j \in tokens : IsPair(t, j, "sl", "sl")}
           B(j) == <<"block", Unspliced[j], Unspliced[BlockEnd(t, j)] + 1>>
           N(j) == <<"line", Unspliced[j], LineSpanEnd(t, Unspliced, j)>>
<1>2. Comments = {B(j) : j \in blocks} \cup {N(j) : j \in lines} BY DEF Comments, Logical
<1>3. tokens \in SUBSET (1..Len(t)) /\ {k \in tokens : k <= Len(t)} = tokens
  BY <1>1 DEF Tokens
<1>4. CommentsTo[Len(t)] = UNION {CommentAt[j] : j \in tokens}
  BY <1>1, <1>3 DEF CommentsTo
<1>5. ASSUME NEW j \in tokens
      PROVE  CommentAt[j] = IF j \in blocks THEN {B(j)} ELSE IF j \in lines THEN {N(j)} ELSE {}
  BY <1>3 DEF CommentAt
<1>6. ASSUME NEW j \in tokens, j \in blocks PROVE j \notin lines
  BY <1>6 DEF IsPair
<1> HIDE DEF tokens, blocks, lines, B, N
<1>7. blocks \in SUBSET tokens /\ lines \in SUBSET tokens BY DEF blocks, lines
<1>8. UNION {CommentAt[j] : j \in tokens} = {B(j) : j \in blocks} \cup {N(j) : j \in lines}
  <2>1. ASSUME NEW x \in UNION {CommentAt[j] : j \in tokens}
        PROVE  x \in {B(j) : j \in blocks} \cup {N(j) : j \in lines}
    <3>1. PICK j \in tokens : x \in CommentAt[j] OBVIOUS
    <3> QED BY <1>5, <3>1
  <2>2. ASSUME NEW j \in blocks PROVE B(j) \in UNION {CommentAt[k] : k \in tokens}
    <3>1. j \in tokens BY <1>7
    <3>2. CommentAt[j] = {B(j)} BY <1>5, <3>1
    <3> QED BY <3>1, <3>2
  <2>3. ASSUME NEW j \in lines PROVE N(j) \in UNION {CommentAt[k] : k \in tokens}
    <3>1. j \in tokens /\ j \notin blocks BY <1>6, <1>7
    <3>2. CommentAt[j] = {N(j)} BY <1>5, <3>1
    <3> QED BY <3>1, <3>2
  <2> QED BY <2>1, <2>2, <2>3
<1> QED BY <1>2, <1>4, <1>8

\* Within a token there is no other one, so that the comments are those before it and it.
LEMMA CommentsGrow ==
  ASSUME source \in Seq(Byte), NEW j \in 1..Len(Logical), Behind[j - 1] = j,
         NEW n \in j..Len(Logical), n < NextToken(Logical, j)
  PROVE  CommentsTo[n] = CommentsTo[j - 1] \cup CommentAt[j]
<1>1. Logical \in Seq(Byte) /\ Len(Logical) \in Nat BY LogicalType
<1>2. j \in Nat /\ n \in Nat /\ n \in 0..Len(Logical) /\ j - 1 \in 0..Len(Logical)
  BY <1>1
<1>3. NextToken(Logical, j) \in Nat BY <1>1, NextTokenPast
<1>4. \A m \in j..Len(Logical) : m < NextToken(Logical, j) => Behind[m] = NextToken(Logical, j)
  BY <1>1, TokenRuns DEF Behind
<1> DEFINE before == {k \in Tokens(Logical) : k <= j - 1}
           upto == {k \in Tokens(Logical) : k <= n}
<1>5. j \in Tokens(Logical) BY DEF Tokens, Behind
<1>6. upto = before \cup {j}
  <2>1. ASSUME NEW k \in upto, k \notin before PROVE k = j
    <3>1. k \in 1..Len(Logical) /\ Behind[k - 1] = k BY DEF Tokens, Behind
    <3>2. k \in Nat /\ k <= n /\ j <= k BY <1>2, <2>1, <3>1
    <3>3. CASE k # j
      <4>1. k - 1 \in j..Len(Logical) /\ k - 1 < NextToken(Logical, j) /\ k # NextToken(Logical, j)
        BY <1>1, <1>2, <1>3, <3>1, <3>2, <3>3
      <4>2. Behind[k - 1] = NextToken(Logical, j) BY <1>4, <4>1
      <4> QED BY <3>1, <4>1, <4>2
    <3> QED BY <3>3
  <2>2. j \in upto BY <1>5, <1>2
  <2>3. \A k \in before : k \in upto
    <3>1. \A k \in Tokens(Logical) : k \in Nat BY DEF Tokens
    <3> QED BY <1>2, <3>1
  <2> QED BY <2>1, <2>2, <2>3
<1>7. CommentsTo[n] = UNION {CommentAt[k] : k \in upto} BY <1>2 DEF CommentsTo
<1>8. CommentsTo[j - 1] = UNION {CommentAt[k] : k \in before} BY <1>2 DEF CommentsTo
<1> HIDE DEF before, upto
<1>9. UNION {CommentAt[k] : k \in before \cup {j}} =
        (UNION {CommentAt[k] : k \in before}) \cup CommentAt[j]
  OBVIOUS
<1> QED BY <1>6, <1>7, <1>8, <1>9

\* Behind the token at j, when it ends at n, the next one starts.
LEMMA Closes ==
  ASSUME source \in Seq(Byte), NEW f, NEW j \in 1..Len(Logical), Fresh(f, j - 1),
         NEW n \in j..Len(Logical), NextToken(Logical, j) = n + 1
  PROVE  Fresh(f \cup CommentAt[j], n)
<1>1. Logical \in Seq(Byte) /\ Len(Logical) \in Nat BY LogicalType
<1>2. j \in Nat /\ n \in Nat /\ n \in 0..Len(Logical) /\ n < n + 1 /\ (j - 1) + 1 = j BY <1>1
<1>3. Behind[j - 1] = j /\ f = CommentsTo[j - 1] BY <1>2 DEF Fresh
<1>4. Behind[n] = n + 1 BY <1>1, <1>2, <1>3, TokenRuns DEF Behind
<1>5. CommentsTo[n] = f \cup CommentAt[j] BY <1>2, <1>3, CommentsGrow
<1> QED BY <1>2, <1>4, <1>5 DEF Fresh

\* A token that is no comment adds none.
LEMMA ClosesCode ==
  ASSUME source \in Seq(Byte), NEW f, NEW j \in 1..Len(Logical), Fresh(f, j - 1),
         NEW n \in j..Len(Logical), NextToken(Logical, j) = n + 1,
         ~IsPair(Logical, j, "sl", "sl"), ~IsPair(Logical, j, "sl", "st")
  PROVE  Fresh(f, n)
<1>1. CommentAt[j] = {} BY DEF CommentAt
<1>2. f \cup {} = f OBVIOUS
<1> QED BY <1>1, <1>2, Closes

\* A byte of code that starts nothing longer is a token,
LEMMA SingleToken ==
  ASSUME source \in Seq(Byte), NEW f, NEW n \in Nat, Fresh(f, n), n + 1 \in 1..Len(Logical),
         Logical[n + 1] \notin {"dq", "sq", "bsl"},
         Logical[n + 1] = "sl" /\ n + 2 <= Len(Logical) => Logical[n + 2] \notin {"sl", "st"}
  PROVE  Fresh(f, n + 1)
<1>1. Len(Logical) \in Nat BY LogicalType
<1>2. (n + 1) - 1 = n /\ (n + 1) + 1 = n + 2 /\ n + 1 \in (n + 1)..Len(Logical) BY <1>1
<1>3. ~IsPair(Logical, n + 1, "sl", "sl") /\ ~IsPair(Logical, n + 1, "sl", "st")
  BY <1>1, <1>2 DEF IsPair
<1>4. NextToken(Logical, n + 1) = (n + 1) + 1 BY <1>3 DEF NextToken, IsLiteral
<1> QED BY <1>2, <1>3, <1>4, ClosesCode

\* and so is a backslash with the byte behind it.
LEMMA BackslashToken ==
  ASSUME source \in Seq(Byte), NEW f, NEW n \in Nat, Fresh(f, n), n + 1 \in 1..Len(Logical),
         Logical[n + 1] = "bsl"
  PROVE  /\ n + 2 <= Len(Logical) => Fresh(f, n + 2)
         /\ f = CommentsTo[n + 1]
<1>1. Len(Logical) \in Nat BY LogicalType
<1>2. (n + 1) - 1 = n /\ (n + 1) + 1 = n + 2 /\ (n + 1) + 2 = (n + 2) + 1
  OBVIOUS
<1>3. ~IsPair(Logical, n + 1, "sl", "sl") /\ ~IsPair(Logical, n + 1, "sl", "st")
  BY DEF IsPair
<1>4. NextToken(Logical, n + 1) = (n + 1) + 2 BY <1>3 DEF NextToken, IsLiteral
<1>5. n + 2 <= Len(Logical) => Fresh(f, n + 2)
  <2>1. n + 2 <= Len(Logical) => n + 2 \in (n + 1)..Len(Logical) BY <1>1
  <2> QED BY <1>2, <1>3, <1>4, <2>1, ClosesCode
<1>6. f = CommentsTo[n + 1]
  <2>1. n + 1 \in (n + 1)..Len(Logical) /\ n + 1 < (n + 1) + 2 BY <1>1
  <2>2. Behind[n] = n + 1 /\ f = CommentsTo[n] BY DEF Fresh
  <2>3. CommentsTo[n + 1] = CommentsTo[n] \cup CommentAt[n + 1]
    BY <1>2, <1>4, <2>1, <2>2, CommentsGrow
  <2>4. CommentAt[n + 1] = {} BY <1>3 DEF CommentAt
  <2> QED BY <2>2, <2>3, <2>4
<1> QED BY <1>5, <1>6

\* A line comment goes on up to the newline, which is a token of its own,
LEMMA LineGoesOn ==
  ASSUME source \in Seq(Byte), NEW f, NEW s, NEW n \in Nat, InLine(f, s, n),
         n + 1 <= Len(Logical), Logical[n + 1] # "nl"
  PROVE  InLine(f, s, n + 1)
<1>1. Len(Logical) \in Nat BY LogicalType
<1> DEFINE j == Rank(s)
<1>2. /\ j \in 1..Len(Logical) /\ n \in 1..Len(Logical) /\ j + 1 <= n
      /\ Fresh(f, j - 1) /\ IsPair(Logical, j, "sl", "sl")
      /\ \A m \in (j + 1)..n : Logical[m] # "nl"
  BY DEF InLine
<1> HIDE DEF j
<1>3. j \in Nat /\ n + 1 \in 1..Len(Logical) /\ j + 1 <= n + 1 BY <1>1, <1>2
<1>4. \A m \in (j + 1)..(n + 1) : m = n + 1 \/ m \in (j + 1)..n BY <1>2
<1> QED BY <1>2, <1>3, <1>4 DEF InLine, j

LEMMA LineCloses ==
  ASSUME source \in Seq(Byte), NEW f, NEW s, NEW n \in Nat, InLine(f, s, n),
         n + 1 <= Len(Logical), Logical[n + 1] = "nl"
  PROVE  LET k == Unspliced[n + 1]
         IN  Fresh(f \cup {<<"line", Unspliced[Rank(s)],
                             IF source[k - 1] = "cr" THEN k - 1 ELSE k>>}, n + 1)
<1>1. Logical \in Seq(Byte) /\ Len(Logical) \in Nat BY LogicalType
<1> DEFINE j == Rank(s)
           k == Unspliced[n + 1]
           g == f \cup {<<"line", Unspliced[j], IF source[k - 1] = "cr" THEN k - 1 ELSE k>>}
<1>2. /\ j \in 1..Len(Logical) /\ n \in 1..Len(Logical) /\ j + 1 <= n
      /\ Fresh(f, j - 1) /\ IsPair(Logical, j, "sl", "sl")
      /\ \A m \in (j + 1)..n : Logical[m] # "nl"
  BY DEF InLine
<1> HIDE DEF j
<1>3. j \in Nat /\ j >= 1 /\ j <= n /\ n \in j..Len(Logical) BY <1>1, <1>2
<1>4. LineStop(Logical, j) = n + 1 BY <1>1, <1>2, <1>3, LineStops
<1>5. ~IsPair(Logical, j, "sl", "st") /\ Logical[j] = "sl" BY <1>2 DEF IsPair
<1>6. NextToken(Logical, j) = n + 1 BY <1>2, <1>4, <1>5 DEF NextToken, IsLiteral
<1>7. ~(n + 1 > Len(Logical)) BY <1>1, <1>2
<1>8. LineSpanEnd(Logical, Unspliced, j) = IF source[k - 1] = "cr" THEN k - 1 ELSE k
  BY <1>4, <1>7 DEF LineSpanEnd
<1>9. CommentAt[j] = {<<"line", Unspliced[j], LineSpanEnd(Logical, Unspliced, j)>>}
  BY <1>2, <1>5 DEF CommentAt
<1>10. Fresh(g, n) BY <1>2, <1>3, <1>6, <1>8, <1>9, Closes
<1> HIDE DEF g
<1>11. n + 1 \in 1..Len(Logical) BY <1>1, <1>2
<1>12. Fresh(g, n + 1) BY <1>2, <1>10, <1>11, SingleToken
<1> QED BY <1>12 DEF g, j

\* or to the end of the source.
LEMMA LineAtEnd ==
  ASSUME source \in Seq(Byte), NEW f, NEW s, InLine(f, s, Len(Logical))
  PROVE  f \cup {<<"line", Unspliced[Rank(s)], Len(source) + 1>>} = CommentsTo[Len(Logical)]
<1>1. Logical \in Seq(Byte) /\ Len(Logical) \in Nat BY LogicalType
<1> DEFINE j == Rank(s)
           n == Len(Logical)
<1>2. /\ j \in 1..Len(Logical) /\ n \in 1..Len(Logical) /\ j + 1 <= n
      /\ Fresh(f, j - 1) /\ IsPair(Logical, j, "sl", "sl")
      /\ \A m \in (j + 1)..n : Logical[m] # "nl"
  BY DEF InLine
<1> HIDE DEF j
<1>3. j \in Nat /\ j >= 1 /\ j <= n /\ n \in j..Len(Logical) BY <1>1, <1>2
<1>4. LineStop(Logical, j) = n + 1 BY <1>1, <1>2, <1>3, LineStops
<1>5. ~IsPair(Logical, j, "sl", "st") /\ Logical[j] = "sl" BY <1>2 DEF IsPair
<1>6. NextToken(Logical, j) = n + 1 BY <1>2, <1>4, <1>5 DEF NextToken, IsLiteral
<1>7. LineSpanEnd(Logical, Unspliced, j) = Len(source) + 1
  <2>1. n + 1 > Len(Logical) BY <1>1
  <2> QED BY <1>4, <2>1 DEF LineSpanEnd
<1>8. CommentAt[j] = {<<"line", Unspliced[j], LineSpanEnd(Logical, Unspliced, j)>>}
  BY <1>2, <1>5 DEF CommentAt
<1>9. Fresh(f \cup CommentAt[j], n) BY <1>2, <1>3, <1>6, Closes
<1> QED BY <1>7, <1>8, <1>9 DEF Fresh, j

\* A slash-star comment goes on up to the star and slash behind its opener,
LEMMA BlockGoesOn ==
  ASSUME source \in Seq(Byte), NEW f, NEW s, NEW n \in Nat, InBlock(f, s, n),
         n + 1 <= Len(Logical), n >= Rank(s) + 2 => ~IsPair(Logical, n, "st", "sl")
  PROVE  InBlock(f, s, n + 1)
<1>1. Len(Logical) \in Nat BY LogicalType
<1> DEFINE j == Rank(s)
<1>2. /\ j \in 1..Len(Logical) /\ n \in 1..Len(Logical) /\ j + 1 <= n
      /\ Fresh(f, j - 1) /\ IsPair(Logical, j, "sl", "st")
      /\ \A m \in (j + 3)..n : ~IsPair(Logical, m - 1, "st", "sl")
      /\ n >= j + 2 => ~IsPair(Logical, n, "st", "sl")
  BY DEF InBlock
<1> HIDE DEF j
<1>3. j \in Nat /\ n + 1 \in 1..Len(Logical) /\ j + 1 <= n + 1 BY <1>1, <1>2
<1>4. ASSUME NEW m \in (j + 3)..(n + 1) PROVE ~IsPair(Logical, m - 1, "st", "sl")
  <2>1. CASE m \in (j + 3)..n BY <1>2, <2>1
  <2>2. CASE m = n + 1
    <3>1. m - 1 = n /\ n >= j + 2 BY <1>3, <2>2
    <3> QED BY <1>2, <3>1
  <2> QED BY <1>3, <2>1, <2>2
<1> QED BY <1>2, <1>3, <1>4 DEF InBlock, j

LEMMA BlockCloses ==
  ASSUME source \in Seq(Byte), NEW f, NEW s, NEW n \in Nat, InBlock(f, s, n),
         n + 1 <= Len(Logical), n >= Rank(s) + 2, IsPair(Logical, n, "st", "sl")
  PROVE  Fresh(f \cup {<<"block", Unspliced[Rank(s)], Unspliced[n + 1] + 1>>}, n + 1)
<1>1. Logical \in Seq(Byte) /\ Len(Logical) \in Nat BY LogicalType
<1> DEFINE j == Rank(s)
<1>2. /\ j \in 1..Len(Logical) /\ n \in 1..Len(Logical) /\ j + 1 <= n
      /\ Fresh(f, j - 1) /\ IsPair(Logical, j, "sl", "st") /\ n >= j + 2
      /\ \A m \in (j + 3)..n : ~IsPair(Logical, m - 1, "st", "sl")
  BY DEF InBlock
<1> HIDE DEF j
<1>3. j \in Nat /\ j >= 1 /\ n + 1 \in j..Len(Logical) /\ j + 3 <= n + 1 BY <1>1, <1>2
<1>4. BlockEnd(Logical, j) = n + 1 BY <1>1, <1>2, <1>3, BlockEnds
<1>5. NextToken(Logical, j) = (n + 1) + 1
  <2>1. ~IsPair(Logical, j, "sl", "sl") /\ Logical[j] = "sl" BY <1>2 DEF IsPair
  <2> QED BY <1>2, <1>4, <2>1 DEF NextToken, IsLiteral
<1>6. CommentAt[j] = {<<"block", Unspliced[j], Unspliced[n + 1] + 1>>}
  BY <1>2, <1>4 DEF CommentAt
<1>7. Fresh(f \cup CommentAt[j], n + 1) BY <1>2, <1>3, <1>5, Closes
<1> QED BY <1>6, <1>7 DEF j

\* and is no comment without them.
LEMMA BlockAtEnd ==
  ASSUME source \in Seq(Byte), NEW f, NEW s, InBlock(f, s, Len(Logical))
  PROVE  f = CommentsTo[Len(Logical)]
<1>1. Logical \in Seq(Byte) /\ Len(Logical) \in Nat BY LogicalType
<1> DEFINE j == Rank(s)
           n == Len(Logical)
<1>2. /\ j \in 1..Len(Logical) /\ n \in 1..Len(Logical) /\ j + 1 <= n
      /\ Fresh(f, j - 1) /\ IsPair(Logical, j, "sl", "st")
      /\ \A m \in (j + 3)..n : ~IsPair(Logical, m - 1, "st", "sl")
  BY DEF InBlock
<1> HIDE DEF j
<1>3. j \in Nat /\ j >= 1 /\ n \in j..Len(Logical) /\ n < (n + 1) + 1 /\ ~(n + 1 <= n)
      /\ (j - 1) + 1 = j
  BY <1>1, <1>2
<1>4. BlockEnd(Logical, j) = n + 1 BY <1>1, <1>2, <1>3, BlockEnds
<1>5. NextToken(Logical, j) = (n + 1) + 1
  <2>1. ~IsPair(Logical, j, "sl", "sl") /\ Logical[j] = "sl" BY <1>2 DEF IsPair
  <2> QED BY <1>2, <1>4, <2>1 DEF NextToken, IsLiteral
<1>6. CommentAt[j] = {}
  <2>1. ~IsPair(Logical, j, "sl", "sl") BY <1>2 DEF IsPair
  <2> QED BY <1>2, <1>3, <1>4, <2>1 DEF CommentAt
<1>7. Behind[j - 1] = j /\ f = CommentsTo[j - 1] BY <1>2, <1>3 DEF Fresh
<1>8. CommentsTo[n] = CommentsTo[j - 1] \cup CommentAt[j] BY <1>2, <1>3, <1>5, <1>7, CommentsGrow
<1> QED BY <1>6, <1>7, <1>8

\* A literal opens at its quote,
LEMMA LiteralOpens ==
  ASSUME source \in Seq(Byte), NEW f, NEW n \in Nat, Fresh(f, n), n + 1 \in 1..Len(Logical)
  PROVE  InLiteral(f, Logical[n + 1], n + 1)
<1>1. Len(Logical) \in Nat BY LogicalType
<1> DEFINE j == n + 1
<1>2. j \in 1..Len(Logical) /\ j \in Nat /\ j <= j /\ j - 1 = n /\ \A m \in (j + 1)..j : FALSE
  OBVIOUS
<1>3. Backslashes(Logical, j, j + 1) % 2 = 0
  <2> HIDE DEF j
  <2>1. Backslashes(Logical, j, j + 1) = 0 BY <1>2, BackslashRun
  <2> QED BY <2>1
<1> HIDE DEF j
<1>4. InLiteral(f, Logical[j], j) BY <1>2, <1>3 DEF InLiteral
<1> QED BY <1>4 DEF j

\* goes on with any other byte, and with any two of which the first is a backslash,
LEMMA LiteralGoesOn ==
  ASSUME source \in Seq(Byte), NEW f, NEW quote \in {"dq", "sq"}, NEW n \in Nat,
         InLiteral(f, quote, n), n + 1 <= Len(Logical), Logical[n + 1] \notin {quote, "nl", "bsl"}
  PROVE  InLiteral(f, quote, n + 1)
<1>1. Len(Logical) \in Nat BY LogicalType
<1>2. PICK j \in 1..Len(Logical) :
        /\ n \in 1..Len(Logical) /\ j <= n /\ Fresh(f, j - 1) /\ Logical[j] = quote
        /\ \A m \in (j + 1)..n : ~EndsLiteral(Logical, j, m)
        /\ Backslashes(Logical, j, n + 1) % 2 = 0
  BY DEF InLiteral
<1>3. j \in Nat /\ n + 1 \in 1..Len(Logical) /\ j <= n + 1 /\ n + 1 > j /\ n + 1 \in Nat
  BY <1>1, <1>2
<1>4. Backslashes(Logical, j, (n + 1) + 1) = 0 BY <1>3, BackslashRun
<1>5. Backslashes(Logical, j, (n + 1) + 1) % 2 = 0 BY <1>4
<1>6. ~EndsLiteral(Logical, j, n + 1) BY <1>2 DEF EndsLiteral
<1>7. \A m \in (j + 1)..(n + 1) : m = n + 1 \/ m \in (j + 1)..n BY <1>3
<1>8. \A m \in (j + 1)..(n + 1) : ~EndsLiteral(Logical, j, m) BY <1>2, <1>6, <1>7
<1> QED BY <1>2, <1>3, <1>5, <1>8 DEF InLiteral

LEMMA LiteralEscapes ==
  ASSUME source \in Seq(Byte), NEW f, NEW quote \in {"dq", "sq"}, NEW n \in Nat,
         InLiteral(f, quote, n), n + 2 <= Len(Logical), Logical[n + 1] = "bsl",
         Logical[n + 2] # "nl"
  PROVE  InLiteral(f, quote, n + 2)
<1>1. Len(Logical) \in Nat BY LogicalType
<1>2. PICK j \in 1..Len(Logical) :
        /\ n \in 1..Len(Logical) /\ j <= n /\ Fresh(f, j - 1) /\ Logical[j] = quote
        /\ \A m \in (j + 1)..n : ~EndsLiteral(Logical, j, m)
        /\ Backslashes(Logical, j, n + 1) % 2 = 0
  BY DEF InLiteral
<1>3. /\ j \in Nat /\ n + 2 \in 1..Len(Logical) /\ j <= n + 2 /\ n + 1 > j /\ n + 2 > j
      /\ (n + 1) + 1 = n + 2 /\ j <= n + 1 /\ n + 1 \in Nat /\ n + 2 \in Nat
  BY <1>1, <1>2
<1> DEFINE run == Backslashes(Logical, j, n + 1)
<1>4. run \in Nat /\ run % 2 = 0 BY <1>2, <1>3, BackslashRun
<1>5. Backslashes(Logical, j, n + 2) = run + 1
  <2>1. Backslashes(Logical, j, (n + 1) + 1) = run + 1 BY <1>3, BackslashRun
  <2> QED BY <1>3, <2>1
<1>6. Backslashes(Logical, j, (n + 2) + 1) \in {0, run + 2}
  <2>1. \/ Backslashes(Logical, j, (n + 2) + 1) = 0
        \/ Backslashes(Logical, j, (n + 2) + 1) = Backslashes(Logical, j, n + 2) + 1
    BY <1>3, BackslashRun
  <2> HIDE DEF run
  <2> QED BY <1>4, <1>5, <2>1
<1> HIDE DEF run
<1>7. (run + 1) % 2 # 0 /\ (run + 2) % 2 = 0 BY <1>4
<1>8. Backslashes(Logical, j, (n + 2) + 1) % 2 = 0 BY <1>6, <1>7
<1>9. ~EndsLiteral(Logical, j, n + 1) BY <1>2 DEF EndsLiteral
<1>10. ~EndsLiteral(Logical, j, n + 2) BY <1>5, <1>7 DEF EndsLiteral
<1>11. \A m \in (j + 1)..(n + 2) : m = n + 1 \/ m = n + 2 \/ m \in (j + 1)..n BY <1>3
<1>12. \A m \in (j + 1)..(n + 2) : ~EndsLiteral(Logical, j, m) BY <1>2, <1>9, <1>10, <1>11
<1> QED BY <1>2, <1>3, <1>8, <1>12 DEF InLiteral

\* and ends with its quote or the line,
LEMMA LiteralCloses ==
  ASSUME source \in Seq(Byte), NEW f, NEW quote \in {"dq", "sq"}, NEW n \in Nat,
         InLiteral(f, quote, n), n + 1 <= Len(Logical), Logical[n + 1] \in {quote, "nl"}
  PROVE  Fresh(f, n + 1)
<1>1. Logical \in Seq(Byte) /\ Len(Logical) \in Nat BY LogicalType
<1>2. PICK j \in 1..Len(Logical) :
        /\ n \in 1..Len(Logical) /\ j <= n /\ Fresh(f, j - 1) /\ Logical[j] = quote
        /\ \A m \in (j + 1)..n : ~EndsLiteral(Logical, j, m)
        /\ Backslashes(Logical, j, n + 1) % 2 = 0
  BY DEF InLiteral
<1>3. j \in Nat /\ j >= 1 /\ n + 1 \in j..Len(Logical) BY <1>1, <1>2
<1>4. EndsLiteral(Logical, j, n + 1) BY <1>2 DEF EndsLiteral
<1>5. LiteralEnd(Logical, j) = n + 1 BY <1>1, <1>2, <1>3, <1>4, LiteralEnds
<1>6. ~IsPair(Logical, j, "sl", "sl") /\ ~IsPair(Logical, j, "sl", "st")
  BY <1>2 DEF IsPair
<1>7. NextToken(Logical, j) = (n + 1) + 1 BY <1>2, <1>5, <1>6 DEF NextToken, IsLiteral
<1> QED BY <1>2, <1>3, <1>6, <1>7, ClosesCode

\* or with the source, be its last byte a backslash or not.
LEMMA LiteralAtEnd ==
  ASSUME source \in Seq(Byte), NEW f, NEW quote \in {"dq", "sq"}, NEW n \in Nat,
         InLiteral(f, quote, n),
         n = Len(Logical) \/ (n + 1 = Len(Logical) /\ Logical[n + 1] = "bsl")
  PROVE  f = CommentsTo[Len(Logical)]
<1>1. Logical \in Seq(Byte) /\ Len(Logical) \in Nat BY LogicalType
<1> DEFINE e == Len(Logical)
<1>2. PICK j \in 1..Len(Logical) :
        /\ n \in 1..Len(Logical) /\ j <= n /\ Fresh(f, j - 1) /\ Logical[j] = quote
        /\ \A m \in (j + 1)..n : ~EndsLiteral(Logical, j, m)
  BY DEF InLiteral
<1>3. j \in Nat /\ j >= 1 /\ j <= e /\ e \in j..Len(Logical) /\ e < (e + 1) + 1 /\ (j - 1) + 1 = j
  BY <1>1, <1>2
<1>4. Logical[n + 1] = "bsl" => ~EndsLiteral(Logical, j, n + 1) BY <1>2 DEF EndsLiteral
<1>5. \A m \in (j + 1)..e : ~EndsLiteral(Logical, j, m)
  <2>1. CASE n = e BY <1>2, <2>1
  <2>2. CASE n + 1 = e /\ Logical[n + 1] = "bsl"
    <3>1. \A m \in (j + 1)..e : m = n + 1 \/ m \in (j + 1)..n BY <1>3, <2>2
    <3> QED BY <1>2, <1>4, <2>2, <3>1
  <2> QED BY <2>1, <2>2
<1>6. LiteralEnd(Logical, j) = e + 1 BY <1>1, <1>3, <1>5, LiteralEnds
<1>7. ~IsPair(Logical, j, "sl", "sl") /\ ~IsPair(Logical, j, "sl", "st")
  BY <1>2 DEF IsPair
<1>8. NextToken(Logical, j) = (e + 1) + 1 BY <1>2, <1>6, <1>7 DEF NextToken, IsLiteral
<1>9. CommentAt[j] = {} BY <1>7 DEF CommentAt
<1>10. Behind[j - 1] = j /\ f = CommentsTo[j - 1] BY <1>2, <1>3 DEF Fresh
<1>11. CommentsTo[e] = CommentsTo[j - 1] \cup CommentAt[j] BY <1>3, <1>8, <1>10, CommentsGrow
<1> QED BY <1>9, <1>10, <1>11

-----------------------------------------------------------------------------
(* What the scan knows of the comments of C *)

\* The comments recorded so far.
Found == {<<items[k].kind, items[k].start, items[k].end>> : k \in 1..Len(items)}

\* The bytes before p, read up to a state, leave the text of C where that state says.
\* Behind a backslash that is what it was before the backslash at b, as a splice may go
\* on, and behind a slash what it was before the slash.
Reading(f, st, p, s) ==
  /\ st = "code" => Fresh(f, Rank(p - 1))
  /\ st = "slash" => Fresh(f, Rank(p - 2))
  /\ st = "code_bsl" => \E b \in 1..Len(source) : IsBehind(b, p) /\ Fresh(f, Rank(b - 1))
  /\ st = "line" => InLine(f, s, Rank(p - 1))
  /\ st = "line_bsl" => \E b \in 1..Len(source) : IsBehind(b, p) /\ InLine(f, s, Rank(b - 1))
  /\ st \in {"block", "star"} => InBlock(f, s, Rank(p - 1))
  /\ st = "block" => Rank(p - 1) = Rank(s) + 1 \/ Logical[Rank(p - 1)] # "st"
  /\ st = "star" => Rank(p - 1) >= Rank(s) + 2 /\ Logical[Rank(p - 1)] = "st"
  /\ st = "string" => InLiteral(f, "dq", Rank(p - 1))
  /\ st = "char" => InLiteral(f, "sq", Rank(p - 1))
  /\ st = "string_esc" =>
       \E b \in 1..Len(source) : IsBehind(b, p) /\ InLiteral(f, "dq", Rank(b - 1))
  /\ st = "char_esc" =>
       \E b \in 1..Len(source) : IsBehind(b, p) /\ InLiteral(f, "sq", Rank(b - 1))

\* No byte of the source is read in another way than the compiler's.
IsPlain == ~Follows("sl", {"dq", "sq", "bsl"}) /\ ~HasOddSplice

FindInv ==
  IsPlain => IF done THEN Found = Comments ELSE Reading(Found, state, i, comment.start)

LEMMA TextKept ==
  ASSUME source' = source
  PROVE  /\ Kept' = Kept /\ Unspliced' = Unspliced /\ Logical' = Logical /\ Behind' = Behind
         /\ CommentsTo' = CommentsTo /\ Comments' = Comments
         /\ IsPlain' <=> IsPlain
<1>1. Kept' = Kept BY DEF Kept, IsSpliced, SplicesAt, SpliceEnd, IsNl
<1>2. Unspliced' = Unspliced BY <1>1 DEF Unspliced
<1>3. Logical' = Logical BY <1>2 DEF Logical, TextAt
<1>4. Behind' = Behind BY <1>3 DEF Behind
<1>5. CommentAt' = CommentAt BY <1>2, <1>3 DEF CommentAt, LineSpanEnd
<1>6. CommentsTo' = CommentsTo BY <1>3, <1>5 DEF CommentsTo
<1>7. Comments' = Comments BY <1>2, <1>3 DEF Comments, Logical, TextAt, LineSpanEnd
<1>8. IsPlain' <=> IsPlain BY SourceKept DEF IsPlain, Follows
<1> QED BY <1>1, <1>2, <1>3, <1>4, <1>6, <1>7, <1>8

\* What was read of the source is read of the one that does not change.
LEMMA ReadingMoves ==
  ASSUME source' = source, NEW p, i' = p, Reading(Found', state', p, comment'.start)
  PROVE  Reading(Found, state, i, comment.start)'
<1>1. /\ Kept' = Kept /\ Unspliced' = Unspliced /\ Logical' = Logical /\ Behind' = Behind
      /\ CommentsTo' = CommentsTo
  BY TextKept
<1>2. ASSUME NEW b PROVE IsBehind(b, i)' <=> IsBehind(b, p)
  <2>1. NonePending(b - 1)' <=> NonePending(b - 1) BY SourceKept
  <2> QED BY <2>1 DEF IsBehind, IsNl
<1>3. Rank(i - 1)' = Rank(p - 1) /\ Rank(i - 2)' = Rank(p - 2)
      /\ Rank(comment.start)' = Rank(comment'.start)
  BY <1>1 DEF Rank
<1>4. \A b : Rank(b - 1)' = Rank(b - 1) BY <1>1 DEF Rank
<1>5. /\ Fresh(Found, Rank(i - 1))' <=> Fresh(Found', Rank(p - 1))
      /\ Fresh(Found, Rank(i - 2))' <=> Fresh(Found', Rank(p - 2))
  BY <1>1 DEF Fresh, Rank
<1>6. \A b : Fresh(Found, Rank(b - 1))' <=> Fresh(Found', Rank(b - 1))
  BY <1>1 DEF Fresh, Rank
<1>7. /\ InLine(Found, comment.start, Rank(i - 1))' <=>
           InLine(Found', comment'.start, Rank(p - 1))
      /\ \A b : InLine(Found, comment.start, Rank(b - 1))' <=>
                  InLine(Found', comment'.start, Rank(b - 1))
  BY <1>1 DEF InLine, Fresh, Rank
<1>8. InBlock(Found, comment.start, Rank(i - 1))' <=>
        InBlock(Found', comment'.start, Rank(p - 1))
  BY <1>1 DEF InBlock, Fresh, Rank
<1>9. /\ InLiteral(Found, "dq", Rank(i - 1))' <=> InLiteral(Found', "dq", Rank(p - 1))
      /\ InLiteral(Found, "sq", Rank(i - 1))' <=> InLiteral(Found', "sq", Rank(p - 1))
      /\ \A b : InLiteral(Found, "dq", Rank(b - 1))' <=> InLiteral(Found', "dq", Rank(b - 1))
      /\ \A b : InLiteral(Found, "sq", Rank(b - 1))' <=> InLiteral(Found', "sq", Rank(b - 1))
  BY <1>1 DEF InLiteral, Fresh, Rank
<1>10. Logical[Rank(i - 1)]' = Logical[Rank(p - 1)] BY <1>1 DEF Rank
<1>11. /\ state' = "code" => Fresh(Found, Rank(i - 1))'
       /\ state' = "slash" => Fresh(Found, Rank(i - 2))'
       /\ state' = "line" => InLine(Found, comment.start, Rank(i - 1))'
  BY <1>5, <1>7 DEF Reading
<1>12. /\ state' \in {"block", "star"} => InBlock(Found, comment.start, Rank(i - 1))'
       /\ state' = "string" => InLiteral(Found, "dq", Rank(i - 1))'
       /\ state' = "char" => InLiteral(Found, "sq", Rank(i - 1))'
  BY <1>8, <1>9 DEF Reading
<1>13. /\ state' = "block" => Rank(i - 1)' = Rank(comment.start)' + 1
                              \/ Logical[Rank(i - 1)]' # "st"
       /\ state' = "star" => Rank(i - 1)' >= Rank(comment.start)' + 2
                             /\ Logical[Rank(i - 1)]' = "st"
  BY <1>3, <1>10 DEF Reading
<1>14. /\ state' = "code_bsl" =>
            \E b \in 1..Len(source') : IsBehind(b, i)' /\ Fresh(Found, Rank(b - 1))'
       /\ state' = "line_bsl" =>
            \E b \in 1..Len(source') :
              IsBehind(b, i)' /\ InLine(Found, comment.start, Rank(b - 1))'
  BY <1>2, <1>6, <1>7 DEF Reading
<1>15. /\ state' = "string_esc" =>
            \E b \in 1..Len(source') : IsBehind(b, i)' /\ InLiteral(Found, "dq", Rank(b - 1))'
       /\ state' = "char_esc" =>
            \E b \in 1..Len(source') : IsBehind(b, i)' /\ InLiteral(Found, "sq", Rank(b - 1))'
  BY <1>2, <1>9 DEF Reading
<1> QED BY <1>11, <1>12, <1>13, <1>14, <1>15 DEF Reading

\* A splice holds a backslash, a newline and the CR between them,
LEMMA SplicedByte ==
  ASSUME source \in Seq(Byte), NEW p \in 1..Len(source), IsSpliced(p)
  PROVE  /\ source[p] \in {"bsl", "cr", "nl"}
         /\ SplicesAt(p) \/ \E k \in 1..Len(source) :
              /\ k = p - 1 \/ (k = p - 2 /\ source[p - 1] = "cr")
              /\ source[k] = "bsl" /\ SpliceEnd(k) >= p
<1>1. PICK k \in 1..Len(source) : SplicesAt(k) /\ k <= p /\ p <= SpliceEnd(k)
  BY DEF IsSpliced
<1>2. p \in Nat /\ k \in Nat /\ p >= 1 BY LenProperties
<1>3. CASE k = p
  <2>1. source[p] = "bsl" BY <1>1, <1>3 DEF SplicesAt, SpliceEnd
  <2> QED BY <1>1, <1>3, <2>1
<1>4. CASE k # p
  <2>1. /\ source[k] = "bsl"
        /\ \/ SpliceEnd(k) = k + 1 /\ source[k + 1] = "nl"
           \/ SpliceEnd(k) = k + 2 /\ source[k + 1] = "cr" /\ source[k + 2] = "nl"
    BY <1>1 DEF SplicesAt, SpliceEnd, IsNl
  <2>2. p = k + 1 \/ p = k + 2 BY <1>1, <1>2, <1>4, <2>1
  <2>3. CASE p = k + 1
    <3>1. k = p - 1 BY <1>2, <2>3
    <3> QED BY <1>1, <1>2, <2>1, <2>3, <3>1
  <2>4. CASE p = k + 2
    <3>1. k = p - 2 /\ p - 1 = k + 1 /\ SpliceEnd(k) = k + 2
      BY <1>1, <1>2, <2>1, <2>4
    <3>2. source[k + 1] = "cr" /\ source[k + 2] = "nl" BY <1>2, <2>1, <3>1
    <3> QED BY <1>1, <1>2, <2>1, <2>4, <3>1, <3>2
  <2> QED BY <2>2, <2>3, <2>4
<1> QED BY <1>3, <1>4

\* so that a byte is kept when no splice is pending or begins there.
LEMMA KeptByte ==
  ASSUME source \in Seq(Byte), NEW p \in 1..Len(source), NonePending(p - 1), ~SplicesAt(p)
  PROVE  ~IsSpliced(p)
<1>1. SUFFICES ASSUME IsSpliced(p) PROVE FALSE OBVIOUS
<1>2. PICK k \in 1..Len(source) : SplicesAt(k) /\ k <= p /\ p <= SpliceEnd(k)
  BY <1>1 DEF IsSpliced
<1>3. p \in Nat /\ k \in Nat /\ SpliceEnd(k) \in Nat BY LenProperties DEF SpliceEnd
<1>4. k # p BY <1>2
<1>5. k \in 1..(p - 1) BY <1>2, <1>3, <1>4
<1>6. SpliceEnd(k) <= p - 1 BY <1>5 DEF NonePending
<1> QED BY <1>2, <1>3, <1>6

\* The newline that ends a splice leaves what C has read as it was before the backslash.
LEMMA SpliceRanks ==
  ASSUME source \in Seq(Byte), NEW b \in 1..Len(source), i \in 1..Len(source),
         IsBehind(b, i), c = "nl"
  PROVE  Rank(i) = Rank(b - 1)
<1>1. Len(source) \in Nat /\ i \in Nat /\ b \in Nat /\ i >= 1 /\ b >= 1 /\ i <= Len(source)
  BY LenProperties
<1>2. IsNl(i) /\ source[b] = "bsl" BY DEF c, IsNl, IsBehind
<1>3. SpliceEnd(b) = i
  <2>1. CASE b = i - 1
    <3>1. b + 1 = i BY <1>1, <2>1
    <3> QED BY <1>1, <1>2, <3>1 DEF SpliceEnd, IsNl
  <2>2. CASE b = i - 2 /\ source[i - 1] = "cr"
    <3>1. b + 1 = i - 1 /\ b + 2 = i BY <1>1, <2>2
    <3> QED BY <1>1, <1>2, <2>2, <3>1 DEF SpliceEnd, IsNl
  <2> QED BY <2>1, <2>2 DEF IsBehind
<1>4. \A p \in b..i : p \in 1..Len(source) /\ IsSpliced(p)
  BY <1>1, <1>3 DEF IsSpliced, SplicesAt
<1>5. \A p \in b..i : Rank(p) = Rank(p - 1) BY <1>4, RankSkips
<1>6. CASE b = i - 1
  <2>1. Rank(i) = Rank(i - 1) /\ Rank(b) = Rank(b - 1) BY <1>1, <1>5, <1>6
  <2> QED BY <1>6, <2>1
<1>7. CASE b = i - 2
  <2>1. /\ Rank(i) = Rank(i - 1) /\ Rank(i - 1) = Rank((i - 1) - 1) /\ Rank(b) = Rank(b - 1)
        /\ (i - 1) - 1 = b
    BY <1>1, <1>5, <1>7
  <2> QED BY <2>1
<1> QED BY <1>6, <1>7 DEF IsBehind

-----------------------------------------------------------------------------
(* The steps of the scan over what it knows of the comments of C *)

FindHyp ==
  /\ StandHyp /\ BytesInv /\ IsPlain /\ Reading(Found, state, i, comment.start)

\* What is read with the byte at i.
Reads == Reading(Found', state', i + 1, comment'.start)

LEMMA FindFacts ==
  ASSUME FindHyp
  PROVE  /\ source \in Seq(Byte) /\ i \in Nat /\ i >= 1 /\ i' = i + 1 /\ source' = source
         /\ i \in 1..Len(source) /\ (i + 1) - 1 = i /\ (i + 1) - 2 = i - 1 /\ (i - 1) - 1 = i - 2
         /\ i - 1 \in 0..Len(source)
         /\ state \in LexState /\ ~done /\ done' = done
         /\ (i >= 2 /\ source[i - 1] \in {"sl", "bsl", "st"} => ~SplicesAt(i))
<1>1. StandHyp BY DEF FindHyp
<1>2. ~done /\ done' = done BY <1>1, AdvanceFacts DEF StandHyp
<1>3. /\ source \in Seq(Byte) /\ i \in Nat /\ i >= 1 /\ i' = i + 1 /\ source' = source
      /\ i \in 1..Len(source) /\ state \in LexState
      /\ (i >= 2 /\ source[i - 1] \in {"sl", "bsl", "st"} => ~SplicesAt(i))
  BY <1>1, StandFacts
<1>4. Len(source) \in Nat BY <1>3, LenProperties
<1>5. (i + 1) - 1 = i /\ (i + 1) - 2 = i - 1 /\ (i - 1) - 1 = i - 2 /\ i - 1 \in 0..Len(source)
  BY <1>3, <1>4
<1> QED BY <1>2, <1>3, <1>5

\* A byte that C reads.
LEMMA ReadByte ==
  ASSUME FindHyp, ~IsSpliced(i)
  PROVE  /\ Rank(i - 1) \in Nat /\ Rank(i) = Rank(i - 1) + 1 /\ Rank(i) \in 1..Len(Logical)
         /\ Rank(i) <= Len(Logical) /\ Len(Logical) \in Nat
         /\ Logical[Rank(i)] = c /\ Unspliced[Rank(i)] = i
<1>1. source \in Seq(Byte) /\ i \in 1..Len(source) BY FindFacts
<1>2. Len(Logical) \in Nat BY <1>1, LogicalType
<1> QED BY <1>1, <1>2, RankKeeps DEF c

LEMMA FoundKept == ASSUME UNCHANGED items PROVE Found' = Found
BY DEF Found

LEMMA FoundRecorded ==
  ASSUME IInv, NEW end \in Nat, Records(end)
  PROVE  Found' = Found \cup {<<comment.kind, comment.start, end>>}
<1> DEFINE e == [kind |-> comment.kind, start |-> comment.start, end |-> end,
                 column |-> comment.column, trailing |-> comment.trailing]
           T(x) == <<x.kind, x.start, x.end>>
<1>1. items \in Seq(Item) /\ comment \in Comment BY DEF IInv, TypeOK, Item, Comment
<1>2. e \in Item BY <1>1 DEF Item, Comment
<1>3. items' = Append(items, e) BY DEF Records
<1>4. T(e) = <<comment.kind, comment.start, end>> OBVIOUS
<1> HIDE DEF e
<1>5. /\ Len(items) \in Nat /\ Len(items') = Len(items) + 1 /\ items'[Len(items) + 1] = e
      /\ \A k \in 1..Len(items) : items'[k] = items[k]
  BY <1>1, <1>2, <1>3, AppendProperties
<1>6. Found = {T(items[k]) : k \in 1..Len(items)} BY DEF Found
<1>7. Found' = {T(items'[k]) : k \in 1..Len(items')} BY DEF Found
<1> HIDE DEF T
<1>8. \A k : k \in 1..Len(items') <=> k \in 1..Len(items) \/ k = Len(items) + 1 BY <1>5
<1>9. {T(items'[k]) : k \in 1..Len(items')} = {T(items[k]) : k \in 1..Len(items)} \cup {T(e)}
  BY <1>5, <1>8
<1> QED BY <1>4, <1>6, <1>7, <1>9

\* The slash a comment starts with is read by C.
LEMMA OpenerRead ==
  ASSUME IInv, ColumnInv, BytesInv, state \in InComment
  PROVE  Unspliced[Rank(comment.start)] = comment.start
<1>1. source \in Seq(Byte) BY DEF IInv, TypeOK
<1>2. comment.start \in 1..Len(source) BY DEF ColumnInv
<1>3. source[comment.start] = "sl" BY DEF BytesInv, HasMarker
<1>4. ~IsSpliced(comment.start) BY <1>1, <1>2, <1>3, SplicedByte
<1> QED BY <1>1, <1>2, <1>4, RankKeeps

LEMMA CodeFinds == ASSUME FindHyp, Code PROVE Reads
<1>1. /\ source \in Seq(Byte) /\ i \in Nat /\ i >= 1 /\ i \in 1..Len(source)
      /\ (i + 1) - 1 = i /\ (i + 1) - 2 = i - 1
  BY FindFacts
<1>2. NonePending(i - 1) /\ Fresh(Found, Rank(i - 1))
  BY DEF Code, FindHyp, StandHyp, StandInv, Reading
<1>3. Found' = Found BY FoundKept DEF Code
<1>4. CASE c = "bsl"
  <2>1. state' = "code_bsl" BY <1>4 DEF Code, To
  <2>2. IsBehind(i, i + 1) BY <1>1, <1>2, <1>4, BackslashBehind
  <2> QED BY <1>1, <1>2, <1>3, <2>1, <2>2 DEF Reads, Reading
<1>5. CASE c # "bsl"
  <2>1. ~IsSpliced(i) BY <1>1, <1>2, <1>5, NoSplice, KeptByte DEF c
  <2> DEFINE n == Rank(i - 1)
  <2>2. /\ n \in Nat /\ Rank(i) = n + 1 /\ n + 1 \in 1..Len(Logical)
        /\ Logical[n + 1] = c
    BY <2>1, ReadByte
  <2>3. Fresh(Found, n) BY <1>2
  <2> HIDE DEF n
  <2>4. CASE c = "sl"
    <3>1. state' = "slash" BY <2>4 DEF Code, To
    <3> QED BY <1>1, <1>2, <1>3, <3>1 DEF Reads, Reading
  <2>5. CASE c = "dq"
    <3>1. state' = "string" BY <2>5 DEF Code, To
    <3>2. InLiteral(Found, "dq", Rank(i)) BY <1>1, <2>2, <2>3, <2>5, LiteralOpens
    <3> QED BY <1>1, <1>3, <3>1, <3>2 DEF Reads, Reading
  <2>6. CASE c = "sq"
    <3>1. state' = "char" BY <2>6 DEF Code, To
    <3>2. InLiteral(Found, "sq", Rank(i)) BY <1>1, <2>2, <2>3, <2>6, LiteralOpens
    <3> QED BY <1>1, <1>3, <3>1, <3>2 DEF Reads, Reading
  <2>7. CASE c \notin {"sl", "dq", "sq"}
    <3>1. state' = "code" BY <1>5, <2>7 DEF Code, NewLine, To
    <3>2. Fresh(Found, Rank(i)) BY <1>1, <1>5, <2>2, <2>3, <2>7, SingleToken
    <3> QED BY <1>1, <1>3, <3>1, <3>2 DEF Reads, Reading
  <2> QED BY <2>4, <2>5, <2>6, <2>7
<1> QED BY <1>4, <1>5

LEMMA SlashFinds == ASSUME FindHyp, Slash PROVE Reads
<1>1. /\ source \in Seq(Byte) /\ i \in Nat /\ i >= 1 /\ i \in 1..Len(source)
      /\ (i + 1) - 1 = i /\ (i - 1) - 1 = i - 2
  BY FindFacts
<1>2. i >= 2 /\ source[i - 1] = "sl" BY DEF Slash, FindHyp, StandHyp, ColumnInv
<1>3. NonePending(i - 1) /\ Fresh(Found, Rank(i - 2))
  BY DEF Slash, FindHyp, StandHyp, StandInv, Reading
<1>4. Found' = Found BY FoundKept DEF Slash
<1>5. c \notin {"dq", "sq", "bsl"}
  <2>1. i \in 2..Len(source) BY <1>1, <1>2
  <2> QED BY <1>2, <2>1 DEF FindHyp, IsPlain, Follows, c
<1>6. i - 1 \in 1..Len(source) BY <1>1, <1>2
<1>7. ~IsSpliced(i - 1) BY <1>1, <1>2, <1>6, SplicedByte
<1>8. ~IsSpliced(i) BY <1>1, <1>3, <1>5, NoSplice, KeptByte DEF c
<1> DEFINE n == Rank(i - 2)
<1>9. n \in Nat /\ Rank(i - 1) = n + 1 /\ n + 1 \in 1..Len(Logical) /\ Logical[n + 1] = "sl"
  BY <1>1, <1>2, <1>6, <1>7, RankKeeps
<1>10. /\ Rank(i) = n + 2 /\ n + 2 \in 1..Len(Logical) /\ Logical[n + 2] = c
       /\ Len(Logical) \in Nat
  <2>1. /\ Rank(i) = Rank(i - 1) + 1 /\ Rank(i) \in 1..Len(Logical) /\ Logical[Rank(i)] = c
        /\ Len(Logical) \in Nat
    BY <1>8, ReadByte
  <2>2. (n + 1) + 1 = n + 2 BY <1>9
  <2> HIDE DEF n
  <2> QED BY <1>9, <2>1, <2>2
<1>11. Fresh(Found, n) BY <1>3
<1> HIDE DEF n
<1> DEFINE j == n + 1
<1>12. j \in 1..Len(Logical) /\ j - 1 = n /\ j + 1 = n + 2 /\ j < Len(Logical) /\ j \in Nat
  BY <1>9, <1>10
<1>13. CASE c = "sl"
  <2>1. state' = "line" /\ comment'.start = i - 1 BY <1>13 DEF Slash, Opens, To
  <2>2. IsPair(Logical, j, "sl", "sl") BY <1>9, <1>10, <1>12, <1>13 DEF IsPair
  <2>3. \A m \in (j + 1)..(n + 2) : Logical[m] # "nl"
    <3>1. \A m \in (j + 1)..(n + 2) : m = n + 2 BY <1>12
    <3> QED BY <1>10, <1>13, <3>1
  <2>4. Rank(i - 1) = j /\ Fresh(Found, j - 1) /\ j + 1 <= n + 2 BY <1>9, <1>11, <1>12
  <2> HIDE DEF j
  <2>5. InLine(Found, i - 1, Rank(i)) BY <1>10, <1>12, <2>2, <2>3, <2>4 DEF InLine
  <2> QED BY <1>1, <1>4, <2>1, <2>5 DEF Reads, Reading
<1>14. CASE c = "st"
  <2>1. state' = "block" /\ comment'.start = i - 1 BY <1>14 DEF Slash, Opens, To
  <2>2. IsPair(Logical, j, "sl", "st") BY <1>9, <1>10, <1>12, <1>14 DEF IsPair
  <2>3. \A m \in (j + 3)..(n + 2) : FALSE BY <1>12
  <2>4. Rank(i - 1) = j /\ Fresh(Found, j - 1) /\ j + 1 <= n + 2 /\ Rank(i) = j + 1
    BY <1>9, <1>10, <1>11, <1>12
  <2> HIDE DEF j
  <2>5. InBlock(Found, i - 1, Rank(i)) BY <1>10, <1>12, <2>2, <2>3, <2>4 DEF InBlock
  <2> QED BY <1>1, <1>4, <2>1, <2>4, <2>5 DEF Reads, Reading
<1>15. CASE c \notin {"sl", "st"}
  <2>1. state' = "code" BY <1>15 DEF Slash, NewLine, To
  <2>2. Fresh(Found, j) BY <1>1, <1>9, <1>10, <1>11, <1>15, SingleToken
  <2>3. j + 1 \in 1..Len(Logical) /\ Logical[j + 1] = c BY <1>10, <1>12
  <2> HIDE DEF j
  <2>4. Fresh(Found, j + 1) BY <1>1, <1>5, <1>12, <1>15, <2>2, <2>3, SingleToken
  <2> QED BY <1>1, <1>4, <1>10, <1>12, <2>1, <2>4 DEF Reads, Reading
<1> QED BY <1>13, <1>14, <1>15

LEMMA LineFinds == ASSUME FindHyp, LineComment PROVE Reads
<1>1. /\ source \in Seq(Byte) /\ i \in Nat /\ i >= 1 /\ i \in 1..Len(source)
      /\ (i + 1) - 1 = i /\ (i + 1) - 2 = i - 1
  BY FindFacts
<1> DEFINE s == comment.start
           n == Rank(i - 1)
<1>2. NonePending(i - 1) /\ InLine(Found, s, n)
  BY DEF LineComment, FindHyp, StandHyp, StandInv, Reading
<1>3. comment'.start = s BY DEF LineComment
<1>4. CASE c = "bsl"
  <2>1. state' = "line_bsl" /\ UNCHANGED items BY <1>4 DEF LineComment, To
  <2>2. IsBehind(i, i + 1) BY <1>1, <1>2, <1>4, BackslashBehind
  <2>3. Found' = Found BY <2>1, FoundKept
  <2> QED BY <1>1, <1>2, <1>3, <2>1, <2>2, <2>3 DEF Reads, Reading
<1>5. CASE c # "bsl"
  <2>1. ~IsSpliced(i) BY <1>1, <1>2, <1>5, NoSplice, KeptByte DEF c
  <2>2. /\ n \in Nat /\ Rank(i) = n + 1 /\ n + 1 <= Len(Logical) /\ Logical[n + 1] = c
        /\ Unspliced[n + 1] = i
    BY <2>1, ReadByte
  <2>3. CASE c = "nl"
    <3>1. state' = "code" /\ Records(LineEnd) BY <2>3 DEF LineComment, NewLine, To
    <3>2. /\ IInv /\ ColumnInv /\ BytesInv /\ state \in InComment /\ comment.kind = "line"
      BY DEF FindHyp, StandHyp, LineComment, InComment, BytesInv
    <3>3. LineEnd \in Nat BY <1>1, <3>2, RecordedEnds
    <3>4. Found' = Found \cup {<<"line", s, LineEnd>>} BY <3>1, <3>2, <3>3, FoundRecorded
    <3>5. Unspliced[Rank(s)] = s BY <3>2, OpenerRead
    <3> HIDE DEF n, s
    <3>6. Fresh(Found \cup {<<"line", s, LineEnd>>}, n + 1)
      BY <1>1, <1>2, <2>2, <2>3, <3>5, LineCloses DEF LineEnd
    <3> QED BY <1>1, <2>2, <3>1, <3>4, <3>6 DEF Reads, Reading
  <2>4. CASE c # "nl"
    <3>1. state' = "line" /\ UNCHANGED items BY <1>5, <2>4 DEF LineComment
    <3>2. Found' = Found BY <3>1, FoundKept
    <3> HIDE DEF n
    <3>3. InLine(Found, s, n + 1) BY <1>1, <1>2, <2>2, <2>4, LineGoesOn
    <3> QED BY <1>1, <1>3, <2>2, <3>1, <3>2, <3>3 DEF Reads, Reading
  <2> QED BY <2>3, <2>4
<1> QED BY <1>4, <1>5

\* A backslash that splices nothing is read, and so is the byte behind it.
LEMMA BackslashRead ==
  ASSUME FindHyp, NEW b \in 1..Len(source), IsBehind(b, i), ~IsSplice
  PROVE  /\ b = i - 1 /\ NonePending(i - 1)
         /\ Rank(b - 1) \in Nat /\ Rank(i - 1) = Rank(b - 1) + 1
         /\ Rank(b - 1) + 1 \in 1..Len(Logical) /\ Logical[Rank(b - 1) + 1] = "bsl"
         /\ Rank(i) = Rank(b - 1) + 2 /\ Rank(b - 1) + 2 \in 1..Len(Logical)
         /\ Rank(b - 1) + 2 <= Len(Logical)
         /\ Logical[Rank(b - 1) + 2] = c /\ c # "nl"
<1>1. /\ source \in Seq(Byte) /\ i \in Nat /\ i >= 1 /\ i \in 1..Len(source)
      /\ (i >= 2 /\ source[i - 1] \in {"sl", "bsl", "st"} => ~SplicesAt(i))
  BY FindFacts
<1>2. b = i - 1 /\ NonePending(i - 1) /\ ~SplicesAt(b) BY <1>1, SpliceNot
<1>3. source[b] = "bsl" /\ NonePending(b - 1) BY DEF IsBehind
<1>4. ~IsSpliced(b) BY <1>1, <1>2, <1>3, KeptByte
<1> DEFINE n == Rank(b - 1)
<1>5. n \in Nat /\ Rank(b) = n + 1 /\ n + 1 \in 1..Len(Logical) /\ Logical[n + 1] = "bsl"
  BY <1>1, <1>3, <1>4, RankKeeps
<1>6. ~SplicesAt(i)
  <2>1. b \in Nat /\ b >= 1 BY <1>1, <1>2
  <2>2. i >= 2 BY <1>1, <1>2, <2>1
  <2> QED BY <1>1, <1>2, <1>3, <2>2
<1>7. ~IsSpliced(i) BY <1>1, <1>2, <1>6, KeptByte
<1>8. /\ Rank(i) = Rank(i - 1) + 1 /\ Rank(i) \in 1..Len(Logical) /\ Logical[Rank(i)] = c
      /\ Rank(i) <= Len(Logical)
  BY <1>7, ReadByte
<1>9. c # "nl" BY DEF IsSplice
<1> HIDE DEF n
<1>10. Rank(i - 1) = n + 1 BY <1>2, <1>5
<1>11. Rank(i) = n + 2 BY <1>5, <1>8, <1>10
<1>12. n + 2 \in 1..Len(Logical) /\ Logical[n + 2] = c /\ n + 2 <= Len(Logical) BY <1>8, <1>11
<1> QED BY <1>2, <1>5, <1>9, <1>10, <1>11, <1>12 DEF n

LEMMA LineBackslashFinds == ASSUME FindHyp, LineCommentBackslash PROVE Reads
<1>1. /\ source \in Seq(Byte) /\ i \in Nat /\ i >= 1 /\ i \in 1..Len(source)
      /\ (i + 1) - 1 = i
  BY FindFacts
<1> DEFINE s == comment.start
<1>2. PICK b \in 1..Len(source) : IsBehind(b, i) /\ InLine(Found, s, Rank(b - 1))
  BY DEF LineCommentBackslash, FindHyp, Reading
<1>3. comment'.start = s BY DEF LineCommentBackslash
<1>4. Found' = Found BY FoundKept DEF LineCommentBackslash
<1> HIDE DEF s
<1>5. CASE IsSpliceCr
  <2>1. state' = "line_bsl" BY <1>5 DEF LineCommentBackslash, Splice, IsSpliceCr, IsSplice
  <2>2. IsBehind(b, i + 1) BY <1>1, <1>2, <1>5, SpliceCr
  <2> QED BY <1>2, <1>3, <1>4, <2>1, <2>2 DEF Reads, Reading
<1>6. CASE c = "nl"
  <2>1. state' = "line" BY <1>6 DEF LineCommentBackslash, Splice, IsSpliceCr, IsSplice, To
  <2>2. Rank(i) = Rank(b - 1) BY <1>1, <1>2, <1>6, SpliceRanks
  <2> QED BY <1>1, <1>2, <1>3, <1>4, <2>1, <2>2 DEF Reads, Reading
<1>7. CASE ~IsSplice
  <2> DEFINE n == Rank(b - 1)
  <2>1. /\ NonePending(i - 1) /\ n \in Nat /\ Rank(i - 1) = n + 1 /\ n + 1 \in 1..Len(Logical)
        /\ Logical[n + 1] = "bsl" /\ Rank(i) = n + 2 /\ n + 2 <= Len(Logical)
        /\ Logical[n + 2] = c /\ c # "nl"
    BY <1>2, <1>7, BackslashRead
  <2>2. InLine(Found, s, n) BY <1>2
  <2> HIDE DEF n
  <2>3. n + 1 <= Len(Logical) /\ n + 1 \in Nat /\ (n + 1) + 1 = n + 2 BY <2>1
  <2>4. InLine(Found, s, n + 1) BY <1>1, <2>1, <2>2, <2>3, LineGoesOn
  <2>5. CASE c = "bsl"
    <3>1. state' = "line_bsl"
      BY <1>7, <2>5 DEF LineCommentBackslash, Splice, IsSplice, AfterLineBackslash, To
    <3>2. IsBehind(i, i + 1) BY <1>1, <2>1, <2>5, BackslashBehind
    <3>3. InLine(Found, s, Rank(i - 1)) BY <2>1, <2>4
    <3> QED BY <1>1, <1>3, <1>4, <3>1, <3>2, <3>3 DEF Reads, Reading
  <2>6. CASE c # "bsl"
    <3>1. state' = "line"
      BY <1>7, <2>6 DEF LineCommentBackslash, Splice, IsSplice, AfterLineBackslash, To
    <3>2. InLine(Found, s, (n + 1) + 1) BY <1>1, <2>1, <2>3, <2>4, LineGoesOn
    <3>3. InLine(Found, s, Rank(i)) BY <2>1, <2>3, <3>2
    <3> QED BY <1>1, <1>3, <1>4, <3>1, <3>3 DEF Reads, Reading
  <2> QED BY <2>5, <2>6
<1> QED BY <1>5, <1>6, <1>7 DEF IsSplice

LEMMA BlockFinds == ASSUME FindHyp, BlockComment PROVE Reads
<1>1. /\ source \in Seq(Byte) /\ i \in Nat /\ i >= 1 /\ i \in 1..Len(source)
      /\ (i + 1) - 1 = i
  BY FindFacts
<1> DEFINE s == comment.start
           n == Rank(i - 1)
<1>2. InBlock(Found, s, n) /\ (n = Rank(s) + 1 \/ Logical[n] # "st")
  BY DEF BlockComment, FindHyp, Reading
<1>3. comment'.start = s /\ Found' = Found /\ state' = IF c = "st" THEN "star" ELSE "block"
  BY FoundKept DEF BlockComment, To
<1>4. CASE IsSpliced(i)
  <2>1. c \in {"bsl", "cr", "nl"} BY <1>1, <1>4, SplicedByte DEF c
  <2>2. state' = "block" BY <1>3, <2>1
  <2>3. Rank(i) = n BY <1>1, <1>4, RankSkips
  <2> HIDE DEF n, s
  <2> QED BY <1>1, <1>2, <1>3, <2>2, <2>3 DEF Reads, Reading
<1>5. CASE ~IsSpliced(i)
  <2>1. /\ n \in Nat /\ Rank(i) = n + 1 /\ n + 1 <= Len(Logical) /\ Logical[n + 1] = c
    BY <1>5, ReadByte
  <2> HIDE DEF n, s
  <2>2. Rank(s) \in Nat /\ Rank(s) + 1 <= n BY <1>2 DEF InBlock
  <2>3. n >= Rank(s) + 2 => ~IsPair(Logical, n, "st", "sl")
    <3>1. n >= Rank(s) + 2 => n # Rank(s) + 1 BY <2>2
    <3> QED BY <1>2, <3>1 DEF IsPair
  <2>4. InBlock(Found, s, n + 1) BY <1>1, <1>2, <2>1, <2>3, BlockGoesOn
  <2>5. Rank(i) >= Rank(s) + 2 BY <2>1, <2>2
  <2> QED BY <1>1, <1>3, <2>1, <2>4, <2>5 DEF Reads, Reading
<1> QED BY <1>4, <1>5

LEMMA StarFinds == ASSUME FindHyp, BlockStar PROVE Reads
<1>1. /\ source \in Seq(Byte) /\ i \in Nat /\ i >= 1 /\ i \in 1..Len(source)
      /\ (i + 1) - 1 = i
      /\ (i >= 2 /\ source[i - 1] \in {"sl", "bsl", "st"} => ~SplicesAt(i))
  BY FindFacts
<1> DEFINE s == comment.start
           n == Rank(i - 1)
<1>2. InBlock(Found, s, n) /\ n >= Rank(s) + 2 /\ Logical[n] = "st"
  BY DEF BlockStar, FindHyp, Reading
<1>3. i >= 2 /\ source[i - 1] = "st" BY DEF BlockStar, FindHyp, StandHyp, StandInv
<1>4. ~IsSpliced(i)
  <2>1. ~SplicesAt(i) BY <1>1, <1>3
  <2> QED BY <1>1, <1>3, <2>1, SplicedByte
<1>5. /\ n \in Nat /\ Rank(i) = n + 1 /\ n + 1 <= Len(Logical) /\ Logical[n + 1] = c
      /\ Unspliced[n + 1] = i /\ Len(Logical) \in Nat
  BY <1>4, ReadByte
<1>6. comment'.start = s BY DEF BlockStar
<1>7. CASE c = "sl"
  <2>1. state' = "code" /\ Records(CloserEnd) BY <1>7 DEF BlockStar, To
  <2>2. /\ IInv /\ ColumnInv /\ BytesInv /\ state \in InComment /\ comment.kind = "block"
    BY DEF FindHyp, StandHyp, BlockStar, InComment, BytesInv
  <2>3. CloserEnd \in Nat /\ CloserEnd = i + 1 BY <1>1 DEF CloserEnd
  <2>4. Found' = Found \cup {<<"block", s, i + 1>>} BY <2>1, <2>2, <2>3, FoundRecorded
  <2>5. Unspliced[Rank(s)] = s BY <2>2, OpenerRead
  <2> HIDE DEF n, s
  <2>6. IsPair(Logical, n, "st", "sl")
    <3>1. n < Len(Logical) BY <1>5
    <3> QED BY <1>2, <1>5, <1>7, <3>1 DEF IsPair
  <2>7. Fresh(Found \cup {<<"block", s, i + 1>>}, n + 1)
    BY <1>1, <1>2, <1>5, <2>5, <2>6, BlockCloses
  <2> QED BY <1>1, <1>5, <2>1, <2>4, <2>7 DEF Reads, Reading
<1>8. CASE c # "sl"
  <2>1. state' = (IF c = "st" THEN "star" ELSE "block") /\ UNCHANGED items
    BY <1>8 DEF BlockStar, AfterStar, To
  <2>2. Found' = Found BY <2>1, FoundKept
  <2> HIDE DEF n, s
  <2>3. Rank(s) \in Nat BY <1>2 DEF InBlock
  <2>4. ~IsPair(Logical, n, "st", "sl") BY <1>5, <1>8 DEF IsPair
  <2>5. InBlock(Found, s, n + 1) BY <1>1, <1>2, <1>5, <2>4, BlockGoesOn
  <2>6. Rank(i) >= Rank(s) + 2 BY <1>2, <1>5, <2>3
  <2> QED BY <1>1, <1>5, <1>6, <2>1, <2>2, <2>5, <2>6 DEF Reads, Reading
<1> QED BY <1>7, <1>8

LEMMA CodeBackslashFinds == ASSUME FindHyp, CodeBackslash PROVE Reads
<1>1. /\ source \in Seq(Byte) /\ i \in Nat /\ i >= 1 /\ i \in 1..Len(source)
      /\ (i + 1) - 1 = i
  BY FindFacts
<1>2. PICK b \in 1..Len(source) : IsBehind(b, i) /\ Fresh(Found, Rank(b - 1))
  BY DEF CodeBackslash, FindHyp, Reading
<1>3. Found' = Found BY FoundKept DEF CodeBackslash
<1>4. CASE IsSpliceCr
  <2>1. state' = "code_bsl" BY <1>4 DEF CodeBackslash, Splice, IsSpliceCr, IsSplice
  <2>2. IsBehind(b, i + 1) BY <1>1, <1>2, <1>4, SpliceCr
  <2> QED BY <1>2, <1>3, <2>1, <2>2 DEF Reads, Reading
<1>5. CASE c = "nl"
  <2>1. state' = "code" BY <1>5 DEF CodeBackslash, Splice, IsSpliceCr, IsSplice, To
  <2>2. Rank(i) = Rank(b - 1) BY <1>1, <1>2, <1>5, SpliceRanks
  <2> QED BY <1>1, <1>2, <1>3, <2>1, <2>2 DEF Reads, Reading
<1>6. CASE ~IsSplice
  <2>1. state' = "code" BY <1>6 DEF CodeBackslash, Splice, IsSplice, To
  <2> DEFINE n == Rank(b - 1)
  <2>2. /\ n \in Nat /\ n + 1 \in 1..Len(Logical) /\ Logical[n + 1] = "bsl"
        /\ Rank(i) = n + 2 /\ n + 2 <= Len(Logical)
    BY <1>2, <1>6, BackslashRead
  <2>3. Fresh(Found, n) BY <1>2
  <2> HIDE DEF n
  <2>4. Fresh(Found, n + 2) BY <1>1, <2>2, <2>3, BackslashToken
  <2> QED BY <1>1, <1>3, <2>1, <2>2, <2>4 DEF Reads, Reading
<1> QED BY <1>4, <1>5, <1>6 DEF IsSplice

\* The literals, and the states within them and behind a backslash of theirs.
IsLiteralOf(lit, quote, escape) ==
  \/ lit = "string" /\ quote = "dq" /\ escape = "string_esc"
  \/ lit = "char" /\ quote = "sq" /\ escape = "char_esc"

LEMMA LiteralFinds ==
  ASSUME FindHyp, NEW lit, NEW quote, NEW escape, IsLiteralOf(lit, quote, escape),
         Literal(lit, quote, escape)
  PROVE  Reads
<1>1. /\ source \in Seq(Byte) /\ i \in Nat /\ i >= 1 /\ i \in 1..Len(source)
      /\ (i + 1) - 1 = i
  BY FindFacts
<1> DEFINE n == Rank(i - 1)
<1>2. NonePending(i - 1) /\ InLiteral(Found, quote, n) /\ quote \in {"dq", "sq"}
  BY DEF IsLiteralOf, Literal, FindHyp, StandHyp, StandInv, Reading
<1>3. Found' = Found BY FoundKept DEF Literal
<1>4. CASE c = "bsl"
  <2>1. state' = escape BY <1>2, <1>4 DEF Literal, To
  <2>2. IsBehind(i, i + 1) BY <1>1, <1>2, <1>4, BackslashBehind
  <2> QED BY <1>1, <1>2, <1>3, <2>1, <2>2 DEF Reads, Reading, IsLiteralOf
<1>5. CASE c # "bsl"
  <2>1. ~IsSpliced(i) BY <1>1, <1>2, <1>5, NoSplice, KeptByte DEF c
  <2>2. n \in Nat /\ Rank(i) = n + 1 /\ n + 1 <= Len(Logical) /\ Logical[n + 1] = c
    BY <2>1, ReadByte
  <2> HIDE DEF n
  <2>3. CASE c \in {quote, "nl"}
    <3>1. state' = "code" BY <1>5, <2>3 DEF Literal, NewLine, To
    <3>2. Fresh(Found, n + 1) BY <1>1, <1>2, <2>2, <2>3, LiteralCloses
    <3> QED BY <1>1, <1>3, <2>2, <3>1, <3>2 DEF Reads, Reading
  <2>4. CASE c \notin {quote, "nl"}
    <3>1. state' = lit BY <1>5, <2>4 DEF Literal
    <3>2. InLiteral(Found, quote, n + 1) BY <1>1, <1>2, <1>5, <2>2, <2>4, LiteralGoesOn
    <3> QED BY <1>1, <1>3, <2>2, <3>1, <3>2 DEF Reads, Reading, IsLiteralOf
  <2> QED BY <2>3, <2>4
<1> QED BY <1>4, <1>5

LEMMA LiteralEscapeFinds ==
  ASSUME FindHyp, NEW lit, NEW quote, NEW escape, IsLiteralOf(lit, quote, escape),
         LiteralEscape(escape, lit)
  PROVE  Reads
<1>1. /\ source \in Seq(Byte) /\ i \in Nat /\ i >= 1 /\ i \in 1..Len(source)
      /\ (i + 1) - 1 = i
  BY FindFacts
<1>2. PICK b \in 1..Len(source) : IsBehind(b, i) /\ InLiteral(Found, quote, Rank(b - 1))
  BY DEF LiteralEscape, FindHyp, Reading, IsLiteralOf
<1>3. Found' = Found /\ quote \in {"dq", "sq"} BY FoundKept DEF LiteralEscape, IsLiteralOf
<1>4. CASE IsSpliceCr
  <2>1. state' = escape BY <1>4 DEF LiteralEscape, Splice, IsSpliceCr, IsSplice
  <2>2. IsBehind(b, i + 1) BY <1>1, <1>2, <1>4, SpliceCr
  <2> QED BY <1>2, <1>3, <2>1, <2>2 DEF Reads, Reading, IsLiteralOf
<1>5. CASE c = "nl"
  <2>1. state' = lit BY <1>5 DEF LiteralEscape, Splice, IsSpliceCr, IsSplice, To
  <2>2. Rank(i) = Rank(b - 1) BY <1>1, <1>2, <1>5, SpliceRanks
  <2> QED BY <1>1, <1>2, <1>3, <2>1, <2>2 DEF Reads, Reading, IsLiteralOf
<1>6. CASE ~IsSplice
  <2>1. state' = lit BY <1>6 DEF LiteralEscape, Splice, IsSplice, To
  <2> DEFINE n == Rank(b - 1)
  <2>2. /\ n \in Nat /\ Logical[n + 1] = "bsl" /\ Rank(i) = n + 2 /\ n + 2 <= Len(Logical)
        /\ Logical[n + 2] = c /\ c # "nl"
    BY <1>2, <1>6, BackslashRead
  <2>3. InLiteral(Found, quote, n) BY <1>2
  <2> HIDE DEF n
  <2>4. InLiteral(Found, quote, n + 2) BY <1>1, <1>3, <2>2, <2>3, LiteralEscapes
  <2> QED BY <1>1, <1>3, <2>1, <2>2, <2>4 DEF Reads, Reading, IsLiteralOf
<1> QED BY <1>4, <1>5, <1>6 DEF IsSplice

LEMMA FindScan ==
  ASSUME IInv, BlankInv, ColumnInv, BytesInv, TrailInv, FindInv, Scan
  PROVE  FindInv'
<1>1. Advance /\ source' = source /\ ~done /\ done' = done /\ i \in Nat /\ i' = i + 1
  BY AdvanceFacts DEF Scan
<1>2. IsPlain' <=> IsPlain BY <1>1, TextKept
<1> SUFFICES ASSUME IsPlain PROVE Reading(Found, state, i, comment.start)'
  BY <1>1, <1>2 DEF FindInv
<1>3. FindHyp BY <1>1 DEF FindHyp, StandHyp, TrailInv, FindInv, IsPlain
<1>4. IsLiteralOf("string", "dq", "string_esc") /\ IsLiteralOf("char", "sq", "char_esc")
  BY DEF IsLiteralOf
<1>5. Reads
  BY <1>3, <1>4, CodeFinds, SlashFinds, LineFinds, LineBackslashFinds, BlockFinds, StarFinds,
     CodeBackslashFinds, LiteralFinds, LiteralEscapeFinds DEF Scan
<1> QED BY <1>1, <1>5, ReadingMoves DEF Reads

\* At the end of the source a backslash splices nothing.
LEMMA LastBackslash ==
  ASSUME source \in Seq(Byte), NEW b \in 1..Len(source), i = Len(source) + 1, IsBehind(b, i)
  PROVE  /\ Rank(b - 1) \in Nat /\ Rank(b - 1) + 1 = Len(Logical)
         /\ Logical[Rank(b - 1) + 1] = "bsl"
<1>1. Len(source) \in Nat /\ b \in Nat BY LenProperties
<1>2. b = Len(source) /\ source[b] = "bsl" /\ NonePending(b - 1) BY <1>1 DEF IsBehind
<1>3. ~SplicesAt(b)
  <2>1. ~(b + 1 <= Len(source)) /\ ~(b + 2 <= Len(source)) BY <1>1, <1>2
  <2> QED BY <2>1 DEF SplicesAt, SpliceEnd
<1>4. ~IsSpliced(b) BY <1>2, <1>3, KeptByte
<1>5. Len(Logical) = Rank(Len(source)) BY LogicalType
<1> QED BY <1>2, <1>4, <1>5, RankKeeps

LEMMA FindEnd ==
  ASSUME IInv, ColumnInv, BytesInv, FindInv, EndOfSource
  PROVE  FindInv'
<1>1. /\ ~done /\ done' = TRUE /\ source' = source /\ i = Len(source) + 1
  BY DEF EndOfSource
<1>2. source \in Seq(Byte) /\ state \in LexState BY DEF IInv, TypeOK
<1>3. (IsPlain' <=> IsPlain) /\ Comments' = Comments BY <1>1, TextKept
<1> SUFFICES ASSUME IsPlain PROVE Found' = Comments BY <1>1, <1>3 DEF FindInv
<1> DEFINE e == Len(Logical)
           s == comment.start
<1>4. Reading(Found, state, i, s) BY <1>1 DEF FindInv
<1>5. Len(source) \in Nat /\ e \in Nat /\ i - 1 = Len(source) /\ Rank(i - 1) = e /\ i \in Nat
  BY <1>1, <1>2, LenProperties, LogicalType
<1>6. CommentsTo[e] = Comments BY <1>2, CommentsAre
<1>7. CASE state \in {"line", "line_bsl"}
  <2>1. InLine(Found, s, e)
    <3>1. CASE state = "line" BY <1>4, <1>5, <3>1 DEF Reading
    <3>2. CASE state = "line_bsl"
      <4>1. PICK b \in 1..Len(source) : IsBehind(b, i) /\ InLine(Found, s, Rank(b - 1))
        BY <1>4, <3>2 DEF Reading
      <4> DEFINE n == Rank(b - 1)
      <4>2. n \in Nat /\ n + 1 = e /\ Logical[n + 1] = "bsl" BY <1>1, <1>2, <4>1, LastBackslash
      <4>3. InLine(Found, s, n) BY <4>1
      <4> HIDE DEF n
      <4>4. n + 1 <= Len(Logical) BY <1>5, <4>2
      <4>5. InLine(Found, s, n + 1) BY <1>2, <4>2, <4>3, <4>4, LineGoesOn
      <4> QED BY <4>2, <4>5
    <3> QED BY <1>7, <3>1, <3>2
  <2>2. Records(i) /\ state \in InComment /\ comment.kind = "line"
    BY <1>7 DEF EndOfSource, InLineComment, InComment, BytesInv
  <2>3. Found' = Found \cup {<<"line", s, i>>} BY <1>5, <2>2, FoundRecorded
  <2>4. Unspliced[Rank(s)] = s BY <2>2, OpenerRead
  <2>5. Found \cup {<<"line", s, Len(source) + 1>>} = CommentsTo[e]
    BY <1>2, <2>1, <2>4, LineAtEnd
  <2> QED BY <1>1, <1>6, <2>3, <2>5
<1>8. CASE state \notin {"line", "line_bsl"}
  <2>1. UNCHANGED items BY <1>8 DEF EndOfSource, InLineComment
  <2>2. Found' = Found BY <2>1, FoundKept
  <2>3. Found = CommentsTo[e]
    <3>1. CASE state = "code"
      <4>1. Fresh(Found, e) BY <1>4, <1>5, <3>1 DEF Reading
      <4> QED BY <4>1 DEF Fresh
    <3>2. CASE state = "slash"
      <4>1. Fresh(Found, Rank(i - 2)) BY <1>4, <3>2 DEF Reading
      <4>2. i >= 2 /\ source[i - 1] = "sl" BY <3>2 DEF ColumnInv
      <4>3. i - 1 \in 1..Len(source) /\ (i - 1) - 1 = i - 2 BY <1>5, <4>2
      <4>4. ~IsSpliced(i - 1) BY <1>2, <4>2, <4>3, SplicedByte
      <4> DEFINE n == Rank(i - 2)
      <4>5. n \in Nat /\ e = n + 1 /\ n + 1 \in 1..Len(Logical) /\ Logical[n + 1] = "sl"
        BY <1>2, <1>5, <4>2, <4>3, <4>4, RankKeeps
      <4> HIDE DEF n
      <4>6. ~(n + 2 <= Len(Logical)) BY <4>5
      <4>7. Fresh(Found, n) BY <4>1 DEF n
      <4>8. Fresh(Found, n + 1) BY <1>2, <4>5, <4>6, <4>7, SingleToken
      <4> QED BY <4>5, <4>8 DEF Fresh
    <3>3. CASE state = "code_bsl"
      <4>1. PICK b \in 1..Len(source) : IsBehind(b, i) /\ Fresh(Found, Rank(b - 1))
        BY <1>4, <3>3 DEF Reading
      <4> DEFINE n == Rank(b - 1)
      <4>2. n \in Nat /\ n + 1 = e /\ Logical[n + 1] = "bsl" BY <1>1, <1>2, <4>1, LastBackslash
      <4>3. Fresh(Found, n) BY <4>1
      <4> HIDE DEF n
      <4>4. n + 1 \in 1..Len(Logical) BY <1>5, <4>2
      <4>5. Found = CommentsTo[n + 1] BY <1>2, <4>2, <4>3, <4>4, BackslashToken
      <4> QED BY <4>2, <4>5
    <3>4. CASE state \in {"block", "star"}
      <4>1. InBlock(Found, s, e) BY <1>4, <1>5, <3>4 DEF Reading
      <4> QED BY <1>2, <4>1, BlockAtEnd
    <3>5. ASSUME NEW lit, NEW quote, NEW escape, IsLiteralOf(lit, quote, escape),
                 state \in {lit, escape}
          PROVE  Found = CommentsTo[e]
      <4>1. quote \in {"dq", "sq"} BY <3>5 DEF IsLiteralOf
      <4>2. CASE state = lit
        <5>1. InLiteral(Found, quote, e) BY <1>4, <1>5, <3>5, <4>2 DEF Reading, IsLiteralOf
        <5> QED BY <1>2, <1>5, <4>1, <5>1, LiteralAtEnd
      <4>3. CASE state = escape
        <5>1. PICK b \in 1..Len(source) :
                IsBehind(b, i) /\ InLiteral(Found, quote, Rank(b - 1))
          BY <1>4, <3>5, <4>3 DEF Reading, IsLiteralOf
        <5> DEFINE n == Rank(b - 1)
        <5>2. n \in Nat /\ n + 1 = e /\ Logical[n + 1] = "bsl"
          BY <1>1, <1>2, <5>1, LastBackslash
        <5>3. InLiteral(Found, quote, n) BY <5>1
        <5> HIDE DEF n
        <5> QED BY <1>2, <4>1, <5>2, <5>3, LiteralAtEnd
      <4> QED BY <3>5, <4>2, <4>3
    <3>6. CASE state \in {"string", "string_esc", "char", "char_esc"}
      <4>1. IsLiteralOf("string", "dq", "string_esc") /\ IsLiteralOf("char", "sq", "char_esc")
        BY DEF IsLiteralOf
      <4> QED BY <3>5, <3>6, <4>1
    <3> QED BY <1>2, <1>8, <3>1, <3>2, <3>3, <3>4, <3>6 DEF LexState
  <2> QED BY <1>6, <2>2, <2>3
<1> QED BY <1>7, <1>8

LEMMA FindsHold == Spec => []FindInv
<1>1. Init => FindInv
  <2> SUFFICES ASSUME Init PROVE FindInv OBVIOUS
  <2>1. i = 1 /\ state = "code" /\ items = <<>> /\ Len(items) = 0 /\ done = FALSE BY DEF Init
  <2>2. source \in Seq(Byte) BY LexAssumption DEF Init
  <2>3. Found = {} BY <2>1 DEF Found
  <2>4. Rank(i - 1) = 0
    <3>1. Kept[0] = <<>> /\ i - 1 = 0 BY <2>1, <2>2, KeptFollows
    <3> QED BY <3>1 DEF Rank
  <2>5. Logical \in Seq(Byte) /\ Len(Logical) \in Nat BY <2>2, LogicalType
  <2>6. Behind[0] = 1 BY <2>5, TokenBehindFollows DEF Behind
  <2>7. CommentsTo[0] = {}
    <3>1. {k \in Tokens(Logical) : k <= 0} = {} BY <2>5 DEF Tokens
    <3>2. 0 \in 0..Len(Logical) BY <2>5
    <3> QED BY <3>1, <3>2 DEF CommentsTo
  <2>8. Fresh({}, 0) BY <2>5, <2>6, <2>7 DEF Fresh
  <2>9. Reading(Found, state, i, comment.start) BY <2>1, <2>3, <2>4, <2>8 DEF Reading
  <2> QED BY <2>1, <2>9 DEF FindInv
<1>2. IInv /\ BlankInv /\ ColumnInv /\ BytesInv /\ TrailInv /\ FindInv /\ [Next]_vars
        => FindInv'
  <2> SUFFICES ASSUME IInv, BlankInv, ColumnInv, BytesInv, TrailInv, FindInv, [Next]_vars
               PROVE  FindInv'
    OBVIOUS
  <2>1. CASE UNCHANGED vars
    <3>1. UNCHANGED <<source, i, state, comment, items, done>> BY <2>1 DEF vars
    <3>2. Comments' = Comments /\ (IsPlain' <=> IsPlain) BY <3>1, TextKept
    <3>3. Found' = Found BY <3>1, FoundKept
    <3>4. ASSUME Reading(Found, state, i, comment.start)
          PROVE  Reading(Found, state, i, comment.start)'
      <4>1. Reading(Found', state', i, comment'.start) BY <3>1, <3>3, <3>4
      <4> QED BY <3>1, <4>1, ReadingMoves
    <3> QED BY <3>1, <3>2, <3>3, <3>4 DEF FindInv
  <2> QED BY <2>1, FindScan, FindEnd DEF Next
<1> QED
  BY <1>1, <1>2, Invariance, BlankHolds, ColumnsHold, BytesHold, TrailHolds, PTL DEF Spec

\* Behind any source without a quote or a backslash after a slash, and without a splice
\* after a slash, a star or a backslash, the spans of the scan are the comments of C:
\* those found by taking the splices out and reading tokens from the left.
THEOREM FindsTheCommentsHolds == RewriteSpec => []FindsTheComments
<1>1. SourceInv /\ FindInv => FindsTheComments
  <2> SUFFICES ASSUME SourceInv, FindInv, finished, IsPlain PROVE Found = Comments
    BY DEF FindsTheComments, IsPlain, Found
  <2>1. done BY DEF SourceInv, CursorInv, IsGrouped
  <2> QED BY <2>1 DEF FindInv
<1> QED BY <1>1, SourceInvariance, RewriteScans, FindsHold, PTL
=============================================================================
