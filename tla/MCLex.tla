------------------------------- MODULE MCLex -------------------------------
(***************************************************************************)
(* Lex, Group and RewriteSource over every short source, and the comments   *)
(* of C as a reference.                                                    *)
(***************************************************************************)
EXTENDS RewriteSource, SequencesExt, FiniteSetsExt

CONSTANTS MaxAll, MaxComment, MaxLiteral, MaxSplice, MaxColumn,   \* Bounds: lengths
  MaxLines, MaxCrlfLines   \* Bounds: lines of a file of comments

\* Lines with a comment of one marker or another, indented, trailing, spliced or
\* without text, and lines without one.
Line ==
  {<<"sl", "sl", "x", "nl">>, <<"sp", "sl", "sl", "x", "nl">>, <<"tab", "sl", "sl", "cr", "nl">>,
   <<"sl", "sl", "sl", "x", "cr", "nl">>, <<"sl", "sl", "sl", "sl", "nl">>,
   <<"sl", "sl", "bang", "x", "nl">>, <<"x", "sl", "sl", "x", "nl">>,
   <<"sl", "sl", "x", "bsl", "nl">>, <<"sl", "st", "x", "st", "sl", "nl">>, <<"cr", "nl">>,
   <<"sp", "sp", "sl", "st", "x", "st", "sl", "x", "nl">>,
   <<"sl", "st", "x", "nl", "x", "st", "sl", "nl">>,
   <<"sl", "st", "tab", "x", "st", "sl">>}

\* The lines of a file end in one way or the other.
WithCrlf(bytes) ==
  FlattenSeq([k \in 1..Len(bytes) |->
                IF bytes[k] = "nl" /\ (k = 1 \/ bytes[k - 1] # "cr") THEN <<"cr", "nl">>
                ELSE <<bytes[k]>>])

Files(n) == {FlattenSeq(lines) : lines \in SeqOf(Line, n)}

MCSource ==
  UNION {SeqOf(Byte \ {"tab", "ctl", "bang"}, MaxAll),
         Files(MaxLines), {WithCrlf(f) : f \in Files(MaxCrlfLines)},
         SeqOf({"sl", "st", "sp", "nl", "x"}, MaxComment),
         SeqOf({"sl", "dq", "sq", "bsl", "nl"}, MaxLiteral),
         SeqOf({"sl", "bsl", "cr", "nl", "sp"}, MaxSplice),
         SeqOf({"sl", "tab", "ctl", "bsl", "nl"}, MaxColumn)}

\* A comment too long for its line, behind a line that ends in CRLF, with no end of line, its
\* own, blanks or code behind it.
LongComments ==
  LET text == <<"x", "x", "x", "x", "sp", "x", "x", "x", "x">>
      comments == {<<"sl", "sl", "sp">> \o text, <<"sl", "st">> \o text \o <<"st", "sl">>}
      behind == {<<>>, <<"nl">>, <<"sp", "nl">>, <<"x", "nl">>}
  IN  {WithCrlf(<<"x", "nl">> \o a \o b) : a \in comments, b \in behind}

-----------------------------------------------------------------------------
(* The comments of C: lines are spliced, and then tokens found from the left *)

\* The positions of the bytes left when splices are taken out, and those bytes.
IsSpliced(p) == \E k \in 1..Len(source) : SplicesAt(k) /\ k <= p /\ p <= SpliceEnd(k)

Kept[p \in 0..Len(source)] ==
  IF p = 0 THEN <<>> ELSE IF IsSpliced(p) THEN Kept[p - 1] ELSE Append(Kept[p - 1], p)

Unspliced == Kept[Len(source)]

TextAt(kept) == [j \in 1..Len(kept) |-> source[kept[j]]]

IsPair(t, j, a, b) == j < Len(t) /\ t[j] = a /\ t[j + 1] = b
FirstOf(t, S) == Min(S \cup {Len(t) + 1})

\* A quote ends a literal unless an odd run of backslashes stands before it.
Backslashes(t, from, j) ==
  j - 1 - Max({from} \cup {n \in (from + 1)..(j - 1) : t[n] # "bsl"})
LiteralEnd(t, j) ==
  FirstOf(t, {n \in (j + 1)..Len(t) :
                t[n] = "nl" \/ (t[n] = t[j] /\ Backslashes(t, j, n) % 2 = 0)})

BlockEnd(t, j) == FirstOf(t, {n \in (j + 3)..Len(t) : IsPair(t, n - 1, "st", "sl")})
LineStop(t, j) == FirstOf(t, {n \in (j + 1)..Len(t) : t[n] = "nl"})

IsLiteral(t, j) == t[j] \in {"dq", "sq"}

\* Where the token at j is followed by the next one. A stray backslash is no C, and
\* the scan takes the byte after it along.
NextToken(t, j) ==
  CASE IsPair(t, j, "sl", "st") -> BlockEnd(t, j) + 1
    [] IsPair(t, j, "sl", "sl") -> LineStop(t, j)
    [] IsLiteral(t, j) -> LiteralEnd(t, j) + 1
    [] t[j] = "bsl" -> j + 2
    [] OTHER -> j + 1

\* Where the first token behind each place starts, and where all of them do.
TokenBehind(t) ==
  LET next[j \in 0..Len(t)] ==
        IF j = 0 THEN 1
        ELSE LET start == next[j - 1] IN IF j = start THEN NextToken(t, j) ELSE start
  IN  next

Tokens(t) == {j \in 1..Len(t) : TokenBehind(t)[j - 1] = j}

\* The comments, without the CR before the newline that ends a line comment.
LineSpanEnd(t, kept, j) ==
  IF LineStop(t, j) > Len(t) THEN Len(source) + 1
  ELSE LET n == kept[LineStop(t, j)] IN IF source[n - 1] = "cr" THEN n - 1 ELSE n

Comments ==
  LET kept == Unspliced   t == TextAt(kept)   tokens == Tokens(t)
      blocks == {j \in tokens : IsPair(t, j, "sl", "st") /\ BlockEnd(t, j) <= Len(t)}
      lines == {j \in tokens : IsPair(t, j, "sl", "sl")}
  IN  {<<"block", kept[j], kept[BlockEnd(t, j)] + 1>> : j \in blocks}
      \cup {<<"line", kept[j], LineSpanEnd(t, kept, j)>> : j \in lines}

-----------------------------------------------------------------------------

Follows(a, S) == \E k \in 2..Len(source) : source[k - 1] = a /\ source[k] \in S

\* The scan finds exactly the comments of C, unless a quote or a backslash follows
\* a slash, or a splice a star or a backslash.
FindsTheComments ==
  finished /\ ~Follows("sl", {"dq", "sq", "bsl"}) /\ ~HasOddSplice =>
    {<<items[k].kind, items[k].start, items[k].end>> : k \in 1..Len(items)} = Comments
=============================================================================
