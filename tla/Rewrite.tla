------------------------------ MODULE Rewrite ------------------------------
(***************************************************************************)
(* src/domain/rewrite.c with comment.c: one comment block is read into     *)
(* body lines, filled, and written back; the next run of the program reads *)
(* what this one wrote.  Fill is the refill, step by step.                 *)
(*                                                                         *)
(* A block is a run of line comments or one slash-star comment.  It starts *)
(* at the left margin: an indent is a smaller width.  Blanks are spaces.   *)
(* What is on a line besides its words is what extraction strips and       *)
(* emission writes: a star, at the decoration column or stray, blanks      *)
(* before and after the words, and the pad behind a tag's name.  A star is *)
(* a word anywhere but in front of a line of a starred block.  The closer  *)
(* ends the last line of a slash-star block.                               *)
(***************************************************************************)
EXTENDS Fill

CONSTANTS
  Width,    \* the wrapping column
  MaxPass   \* bound: runs of the program over the block

ASSUME RewriteAssumption == Width \in Nat \ {0} /\ MaxPass \in Nat \ {0}

Stars == {"none", "aligned", "stray"}

TextLine == [star : Stars, indent : Nat, words : Seq(Word), pad : Nat, trail : Nat]

\* opener: columns of the marker, two when it is plain and three when it is
\* Doxygen's.
Text == [isLine : BOOLEAN, opener : {2, 3}, lines : Seq(TextLine)]

VARIABLES
  text,    \* the block in the source
  pass,    \* runs that have ended
  phase    \* "read" between runs, "fill" inside one

vars == <<text, pass, phase, fillVars>>

-----------------------------------------------------------------------------
IsDoxygen(t) == t.opener = 3

\* classify_block_shape: one star at the decoration column that does not open
\* the closer.
Shape(t) ==
  IF t.isLine THEN "line"
  ELSE IF \E k \in 2 .. Len(t.lines) : t.lines[k].star = "aligned" THEN "starred"
  ELSE "hanging"

\* fill_block_from_span: nothing but blanks after the marker.
IsOpenerEmpty(t) == ~ t.isLine /\ Len(t.lines) > 1 /\ t.lines[1].words = <<>>

PrefixColumns(t) == IF Shape(t) = "starred" THEN 3 ELSE t.opener + 1

PrefixColumnsFirst(t) == IF IsOpenerEmpty(t) THEN PrefixColumns(t) ELSE t.opener + 1

IsClosed(t, k) == ~ t.isLine /\ k = Len(t.lines)

\* comment_extract_body_line: the blanks that belong to the decoration.
DecorationBlanks(t, k) ==
  LET line == t.lines[k]
  IN  IF t.isLine \/ k = 1 \/ (Shape(t) = "starred" /\ line.star # "none") THEN 1
      ELSE IF Shape(t) = "starred" THEN line.indent
      ELSE t.opener + 1

\* The payload of a line: the closer goes with the blanks before it, then the
\* decoration.
Payload(t, k) ==
  LET line  == t.lines[k]
      depth == line.indent - DecorationBlanks(t, k)
  IN  [indent |-> IF depth < 0 \/ (IsClosed(t, k) /\ line.words = <<>>) THEN 0 ELSE depth,
       words  |-> line.words,
       pad    |-> line.pad,
       trail  |-> IF IsClosed(t, k) THEN 0 ELSE line.trail]

IsEmpty(payload) == payload.indent = 0 /\ payload.words = <<>>

\* A line of the closer alone, or of the opener alone, is no body line.
IsDropped(t, k) ==
  /\ IsEmpty(Payload(t, k))
  /\ IsClosed(t, k) \/ (k = 1 /\ IsOpenerEmpty(t))

Opens(payload, marks) == payload.words # <<>> /\ Mark[payload.words[1]] \in marks

IsFenceLine(payload) == payload.indent = 0 /\ Opens(payload, {"fence"})

IsListLine(payload) == Opens(payload, {"list"}) /\ IsLineOpener(payload.words, 1, payload.trail)

IsDecorationLine(payload) ==
  /\ payload.words # <<>>
  /\ \A k \in 1 .. Len(payload.words) : Bytes[payload.words[k]] = "punct"

\* comment_extract_body_classify: the kind of a payload, and the fence and the tag
\* that the next line is inside of.  A Doxygen sample ends only at its own command.
Classify(state, payload, isDoxygen) ==
  LET Is(kind)        == [fence |-> "none", inTag |-> FALSE, kind |-> kind]
      Sample(fence)   == [Is("code") EXCEPT !.fence = fence]
      Tagged(kind)    == [Is(kind) EXCEPT !.inTag = TRUE]
      ends            == CASE state.fence = "markdown" -> IsFenceLine(payload)
                           [] state.fence = "doxygen"  -> Opens(payload, {"endcode"})
                           [] OTHER -> FALSE
      continues       == state.inTag /\ ~ IsListLine(payload) /\ ~ IsDecorationLine(payload)
  IN  IF IsEmpty(payload) THEN [Is("blank") EXCEPT !.fence = state.fence]
      ELSE IF state.fence # "none" THEN Sample(IF ends THEN "none" ELSE state.fence)
      ELSE IF IsFenceLine(payload) THEN Sample("markdown")
      ELSE IF isDoxygen /\ Opens(payload, {"code"}) THEN Sample("doxygen")
      ELSE IF payload.indent = 0 /\ Opens(payload, {"directive"}) THEN Is("directive")
      ELSE IF payload.indent > 0 THEN (IF continues THEN Tagged("prose") ELSE Is("code"))
      ELSE IF isDoxygen /\ Opens(payload, TagMarks) THEN Tagged("tag")
      ELSE IF IsListLine(payload) THEN Is("listed")
      ELSE IF IsDecorationLine(payload) THEN Is("decoration")
      ELSE [Is("prose") EXCEPT !.inTag = state.inTag]

\* comment_extract_body: one line of the block, read behind the lines before it.  A
\* prose line goes without its indent.
AddLine(t, state, k) ==
  LET payload == Payload(t, k)
      next    == Classify(state, payload, IsDoxygen(t))
      line    == [kind   |-> next.kind,
                  indent |-> IF next.kind = "prose" THEN 0 ELSE payload.indent,
                  words  |-> payload.words,
                  pad    |-> payload.pad,
                  trail  |-> payload.trail]
  IN  IF IsDropped(t, k) THEN state
      ELSE [fence |-> next.fence, inTag |-> next.inTag, lines |-> Append(state.lines, line)]

NoLines == [fence |-> "none", inTag |-> FALSE, lines |-> <<>>]

Body(t) ==
  FoldLeft(LAMBDA state, k : AddLine(t, state, k), NoLines, [k \in 1 .. Len(t.lines) |-> k]).lines

-----------------------------------------------------------------------------
HasOpenerCloser_Never(t, lines) == FALSE
\* comment_has_opener_closer.
HasOpenerCloser(t, lines) == Shape(t) = "starred" /\ ~ IsOpenerEmpty(t) /\ Len(lines) = 1

\* The text of a filled line after a marker that is `columns` wide with its blank.
\* A line without text has no blanks either.
Written(star, columns, line) ==
  LET isEmpty == LineWords(line) = <<>> /\ LineIndent(line) = 0
  IN  [star |-> star, indent |-> IF isEmpty THEN 0 ELSE columns + LineIndent(line),
       words |-> LineWords(line), pad |-> line.pad, trail |-> line.trail]

\* The closer and the blank before it, at the end of a line.
WithCloser(line) ==
  IF line.words = <<>> THEN [line EXCEPT !.indent = @ + 1]
  ELSE [line EXCEPT !.trail = @ + 1]

NoText == [star |-> "none", indent |-> 0, words |-> <<>>, pad |-> 0, trail |-> 0]

\* comment_emit.
Emitted(t, lines) ==
  LET opened    == IF IsOpenerEmpty(t) THEN <<NoText>> ELSE <<Written("none", 1, lines[1])>>
      others    == IF IsOpenerEmpty(t) THEN lines ELSE Tail(lines)
      starred   == [k \in 1 .. Len(others) |-> Written("aligned", 1, others[k])]
      hanging   == opened \o [k \in 1 .. Len(others) |-> Written("none", t.opener + 1, others[k])]
  IN  CASE Shape(t) = "line" -> [k \in 1 .. Len(lines) |-> Written("none", 1, lines[k])]
        [] HasOpenerCloser(t, lines) -> <<WithCloser(opened[1])>>
        [] Shape(t) = "starred" /\ ~ HasOpenerCloser(t, lines) ->
             opened \o starred \o <<WithCloser(NoText)>>
        [] Shape(t) = "hanging" -> [hanging EXCEPT ![Len(hanging)] = WithCloser(@)]

\* is_fitting_one_line_block: columns of a block on one line, its closer included.
OneLineColumns(t) ==
  LET line == t.lines[1]
  IN  t.opener + line.indent + TextColumns(line.words) + line.pad + line.trail + 2

IsFittingOneLine(t) == ~ t.isLine /\ Len(t.lines) = 1 /\ OneLineColumns(t) <= Width

-----------------------------------------------------------------------------
FillOf(t, hasCloser) ==
  [lines |-> Aligned(Body(t)), prefixFirst |-> PrefixColumnsFirst(t), prefix |-> PrefixColumns(t),
   width |-> Width, hasCloser |-> hasCloser]

TextWords(t) == FlattenSeq([k \in 1 .. Len(t.lines) |-> t.lines[k].words])

\* has_alphanumeric_payload: a banner is no block.
HasAlphanumericPayload(t) ==
  \E k \in 1 .. Len(TextWords(t)) : Bytes[TextWords(t)[k]] = "text"

\* Where a star in front of a line is not one of its words.
StarsAreDecoration(t) ==
  \A k \in 1 .. Len(t.lines) : t.lines[k].star # "none" => k > 1 /\ Shape(t) = "starred"

BeginFill(j) ==
  /\ job' = j
  /\ stage' = "count" /\ i' = 1 /\ atomIndex' = 0
  /\ paragraphs' = <<>> /\ paragraphIndex' = 1
  /\ capacity' = 0 /\ rebuilt' = <<>> /\ counted' = <<>>

StartOn(t) ==
  /\ text = t /\ pass = 0 /\ phase = "read"
  /\ FillStart(FillOf(t, FALSE))

Init == \E t \in Text : HasAlphanumericPayload(t) /\ StarsAreDecoration(t) /\ StartOn(t)

\* A block that needs no refill keeps its exact bytes.
KeepOneLine ==
  /\ phase = "read" /\ pass < MaxPass /\ IsFittingOneLine(text)
  /\ pass' = pass + 1
  /\ UNCHANGED <<text, phase, fillVars>>

Extract ==
  /\ phase = "read" /\ pass < MaxPass /\ ~ IsFittingOneLine(text)
  /\ BeginFill(FillOf(text, Shape(text) = "hanging"))
  /\ phase' = "fill"
  /\ UNCHANGED <<text, pass>>

FillStep == phase = "fill" /\ FillNext /\ UNCHANGED <<text, pass, phase>>

MustRefill_Never == FALSE
\* The closer will trail a line that was filled without room for it.
MustRefill == HasOpenerCloser(text, rebuilt) /\ ~ job.hasCloser

Refill ==
  /\ phase = "fill" /\ stage = "done" /\ MustRefill
  /\ BeginFill([job EXCEPT !.hasCloser = TRUE])
  /\ UNCHANGED <<text, pass, phase>>

Emit ==
  /\ phase = "fill" /\ stage = "done" /\ ~ MustRefill
  /\ text' = [text EXCEPT !.lines = Emitted(text, rebuilt)]
  /\ pass' = pass + 1
  /\ phase' = "read"
  /\ UNCHANGED fillVars

Next == KeepOneLine \/ Extract \/ FillStep \/ Refill \/ Emit

Spec == Init /\ [][Next]_vars

-----------------------------------------------------------------------------
\* A second run of the program on what a first one wrote changes nothing.
FixedPoint == [][pass > 0 => text' = text]_text

\* A rewrite moves words between lines and nothing else: none is lost, doubled or
\* reordered, in a block whose descriptions hold no line of blanks.
WordsSurvive == [][IsWorded(Body(text)) => TextWords(text') = TextWords(text)]_text

\* Payloads are joined with single spaces: a rewrite makes no two words one, whatever
\* stands between their lines.
NoWordIsFused == [][TextWords(text') = TextWords(text)]_text

\* Each line that was written is read again as the kind of line it was written as:
\* the prose of a tag as its description, a sample as a sample.
LinesReadBack ==
  pass > 0 /\ phase = "read" /\ ~ IsFittingOneLine(text) =>
    LET body == Body(text)
    IN  /\ Len(body) = Len(rebuilt)
        /\ \A k \in 1 .. Len(body) : body[k].kind = rebuilt[k].kind

\* A line of a tag's description that hangs under it is read again as description,
\* so that another width fills it anew.
DescriptionsReadBack ==
  pass > 0 /\ phase = "read" /\ ~ IsFittingOneLine(text) =>
    \A k \in 1 .. Len(rebuilt) :
      rebuilt[k].kind = "prose" /\ rebuilt[k].hang > 0 => Body(text)[k].kind = "prose"

\* The descriptions that one command documents its names with start in one column,
\* those that were written on the line after the name included.
DescriptionsShareAColumn ==
  pass > 0 /\ phase = "read" /\ ~ IsFittingOneLine(text) =>
    LET body      == Body(text)
        described == {k \in 1 .. Len(body) : IsNamedTag(body[k]) /\ HasDescription(body[k])}
    IN  \A k, n \in described :
          Command(body[k]) = Command(body[n]) =>
            NameColumns(body[k]) + body[k].pad = NameColumns(body[n]) + body[n].pad

\* A block that was written on one line fits the width with its closer, unless its
\* line could not be broken.
OneLineFits ==
  pass > 0 /\ phase = "read" /\ ~ text.isLine /\ Len(text.lines) = 1 =>
    \/ OneLineColumns(text) <= Width
    \/ \A k \in 1 .. Len(rebuilt) : Len(rebuilt[k].atoms) <= 1

=============================================================================
