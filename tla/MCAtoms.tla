------------------------------ MODULE MCAtoms ------------------------------
(***************************************************************************)
(* Atoms over every short text, split again after the fill has written its *)
(* atoms out, as the next run of the program does.                         *)
(***************************************************************************)
EXTENDS Atoms

CONSTANTS MaxHex, MaxTab, MaxNumber, MaxUnit, MaxQuantity, MaxSpan   \* Bounds: lengths of texts
CONSTANT Widths                                         \* The columns to fill to

MCText ==
  UNION {SeqOf({"sp", "hex", "m"}, MaxHex),
         SeqOf({"sp", "tab", "hex", "m"}, MaxTab),
         SeqOf({"sp", "dig", "dot", "m", "s"}, MaxNumber),
         SeqOf({"sp", "dig", "m", "s"}, MaxUnit),
         {t \o <<"sp", "m", "s">> : t \in SeqOf({"sp", "dig", "dot"}, MaxQuantity)},
         SeqOf({"sp", "tick", "open", "close", "m"}, MaxSpan)}

VARIABLES
  source,   \* The text of the first run
  before    \* What the first run made of it, in the second run

MCInit == Init /\ source = text /\ before = <<>>

IsSecondRun == before # <<>>

\* The fill writes the atoms with a space or a line break between two of them, and
\* the next run joins the lines of a paragraph with a space.
Rewrap ==
  /\ pass = "done" /\ ~IsSecondRun
  /\ before' = <<Texts>> /\ text' = Joined(Texts)
  /\ pass' = "count" /\ i' = 1 /\ counted' = <<>> /\ items' = <<>>
  /\ UNCHANGED source

MCNext == \/ Next /\ UNCHANGED <<source, before>>
          \/ Rewrap

MCSpec == MCInit /\ [][MCNext]_<<vars, source, before>>

-----------------------------------------------------------------------------

\* A paragraph filled to a width: what filled_line_end makes of the atoms.
Filled(atoms, width) ==
  LET line[k \in 1..Len(atoms)] ==
        IF k = 1 THEN [used |-> Len(atoms[1]), out |-> atoms[1]]
        ELSE LET prev == line[k - 1]
                 used == prev.used + 1 + Len(atoms[k])
             IN  IF used > width
                 THEN [used |-> Len(atoms[k]), out |-> prev.out \o <<"nl">> \o atoms[k]]
                 ELSE [used |-> used, out |-> prev.out \o <<"sp">> \o atoms[k]]
  IN  IF atoms = <<>> THEN <<>> ELSE line[Len(atoms)].out

IsFixed == \A w \in Widths : Filled(Texts, w) = Filled(before[1], w)

HasWideGap ==
  \E n \in 1..Len(source) :
    source[n] = "tab" \/ (n > 1 /\ source[n] \in Blank /\ source[n - 1] \in Blank)

\* ARCHITECTURE.md: a second rewrap changes nothing. The atoms of the output are those
\* it was filled from, where one space stood between two words of the text.
SplitsBack == pass = "done" /\ IsSecondRun /\ ~HasWideGap => IsFixed

\* The same of every text, which does not hold.
SecondRewrapIsFixed == pass = "done" /\ IsSecondRun => IsFixed
=============================================================================
