----------------------------- MODULE MCRewrite -----------------------------
\* Blocks of up to three lines, and the closer on a line of its own, for Rewrite.
EXTENDS Rewrite

MCWord == {"ab", "wide", "longer", "dash", "@t", "@p", "@r", "@tab", "nolint", "==", "~~~", "ticks",
           "@code", "@endcode"}

MCColumns == [w \in MCWord |->
  CASE w = "dash" -> 1
    [] w \in {"ab", "@t", "@p", "@r", "=="} -> 2
    [] w \in {"~~~", "ticks"} -> 3
    [] w \in {"wide", "@tab"} -> 4
    [] w = "@code" -> 5
    [] w \in {"nolint", "longer"} -> 6
    [] w = "@endcode" -> 8]

MCMark == [w \in MCWord |->
  CASE w = "dash" -> "list"
    [] w \in {"@t", "@tab"} -> "tag"
    [] w = "@p" -> "param"
    [] w = "@r" -> "retval"
    [] w = "nolint" -> "directive"
    [] w \in {"~~~", "ticks"} -> "fence"
    [] w = "@code" -> "code"
    [] w = "@endcode" -> "endcode"
    [] OTHER -> "prose"]

MCBytes == [w \in MCWord |->
  CASE w = "ticks" -> "tick"
    [] w \in {"dash", "==", "~~~"} -> "punct"
    [] OTHER -> "text"]

\* The blocks below have blanks between any two words but these.
MCFused == [p \in MCWord \X MCWord |->
  CASE p = <<"@t", "ab">> -> "@tab"
    [] p = <<"ab", "ab">> -> "wide"
    [] OTHER -> "longer"]

TLine(star, indent, words, trail) ==
  [star |-> star, indent |-> indent, words |-> words, pad |-> 0, trail |-> trail]

LoneCloser == TLine("none", 1, <<>>, 0)

\* What a line says: prose, prose with a marker inside, and each kind of opener.
Phrases ==
  {<<"ab">>, <<"ab", "wide", "ab">>, <<"wide", "dash", "ab">>, <<"wide", "nolint", "ab">>,
   <<"dash", "ab">>,
   <<"@t", "wide", "ab">>, <<"@p", "ab">>, <<"@p", "ab", "wide">>, <<"@p", "wide", "ab", "@t">>,
   <<"@r", "wide", "ab">>, <<"nolint">>, <<"@code">>, <<"@endcode">>, <<"~~~">>, <<"==">>}

Lines(star, indents) ==
  {TLine(star, n, ws, 0) : n \in indents, ws \in Phrases} \union {TLine(star, 0, <<>>, 0)}

\* A slash-star block opens with a phrase, or with the marker alone.
Openers == Lines("none", {1})
Starred == Lines("aligned", {1})
StarredAndDeeper == Lines("aligned", {1, 3})
Hanging == Lines("none", {3})
HangingAndDeeper == Lines("none", {3, 5})

\* A star that is not at the decoration column.
Stray == Lines("stray", {3})

\* Lines with blanks after their words, or behind a name: not after a marker in prose.
Spaced == {TLine("aligned", 1, <<"dash">>, 1), TLine("aligned", 3, <<"ticks">>, 0),
           TLine("aligned", 1, <<"@p", "ab">>, 2),
           [TLine("aligned", 1, <<"@p", "ab", "wide">>, 0) EXCEPT !.pad = 2]}

SlashStar ==
  {<<f, m, n, LoneCloser>> : f \in Openers, m \in Starred, n \in StarredAndDeeper \union Spaced}
  \union {<<f, m, n, LoneCloser>> : f \in Openers, m \in Spaced, n \in Starred \union Stray}
  \union {<<f, m, LoneCloser>> : f \in Openers, m \in StarredAndDeeper \union HangingAndDeeper}
  \union {<<f, m, n>> : f \in Openers, m \in Hanging, n \in HangingAndDeeper}
  \union {<<f, LoneCloser>> : f \in Openers} \union {<<[f EXCEPT !.trail = 1]>> : f \in Openers}
LineRun == {<<m, n>> : m \in Lines("none", {1, 3}), n \in Lines("none", {1, 3})}

\* A line of blanks inside the description of a tag.
Gapped(star) ==
  {<<TLine(star, 1, tag, trail), TLine(star, 3, <<>>, 0), TLine(star, n, ws, 0)>> :
     tag \in {<<"@t">>, <<"@t", "wide", "ab">>}, trail \in 0 .. 2, n \in {1, 3},
     ws \in {<<"ab">>, <<"ab", "wide", "ab">>, <<"dash", "ab">>, <<>>}}

Blocks ==
  [isLine : {FALSE}, opener : {2, 3}, lines : SlashStar]
  \union [isLine : {TRUE}, opener : {2, 3}, lines : LineRun \union Gapped("none")]
  \union [isLine : {FALSE}, opener : {3},
          lines : {<<TLine("none", 0, <<>>, 0)>> \o g \o <<LoneCloser>> : g \in Gapped("aligned")}]

\* The body of a hanging block does not end with a blank line.
EndsInText(t) == LET body == Body(t) IN body[Len(body)].kind # "blank" \/ Shape(t) # "hanging"

MCInit == \E t \in {b \in Blocks : HasAlphanumericPayload(b) /\ EndsInText(b)} : StartOn(t)
MCSpec == MCInit /\ [][Next]_vars

\* A hanging block with a name on the line after its command, beside a wider name of
\* the same command, and with blanks behind its last word.
AgainInit ==
  \E second \in {<<"ab", "ab">>, <<"ab", "wide", "ab">>} :
    StartOn([isLine |-> FALSE, opener |-> 3,
             lines |-> <<TLine("none", 1, <<"@p">>, 0), TLine("none", 4, second, 0),
                         TLine("none", 4, <<"@p", "wide", "ab">>, 0),
                         TLine("none", 4, <<"nolint">>, 2), LoneCloser>>])
AgainSpec == AgainInit /\ [][Next]_vars

\* A line of blanks inside the description of a tag.
FusedInit ==
  \E g \in Gapped("none") : StartOn([isLine |-> TRUE, opener |-> 3, lines |-> g])
FusedSpec == FusedInit /\ [][Next]_vars

\* Doxygen tags whose description holds a word of punctuation.
DescriptionInit ==
  \E f \in {<<"@t", "wide", "==", "ab">>, <<"@t", "wide", "wide", "==", "wide">>} :
    \E second \in Phrases :
      StartOn([isLine |-> FALSE, opener |-> 3,
               lines |-> <<TLine("none", 0, <<>>, 0), TLine("aligned", 1, f, 0),
                           TLine("aligned", 1, second, 0), LoneCloser>>])
DescriptionSpec == DescriptionInit /\ [][Next]_vars
=============================================================================
