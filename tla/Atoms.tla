------------------------------- MODULE Atoms -------------------------------
(***************************************************************************)
(* atom_split of atom.c: a paragraph's text is cut into atoms, which the   *)
(* fill never breaks. A first pass over the text counts them and a second  *)
(* stores them in an array of that size. A byte is one of the classes that *)
(* the splitter tells apart, positions count from 1, and an atom is the    *)
(* bytes from..to - 1.                                                     *)
(*                                                                         *)
(* A definition X_Fault is X with a fault in it, which no formula uses.    *)
(***************************************************************************)
EXTENDS Integers, SequencesExt

CONSTANT Text   \* The texts to split

\* "dig" is a digit, "hex" one of A to F; "m" and "s" are letters and "ms" is a unit.
Byte == {"sp", "tab", "tick", "open", "close", "dot", "dig", "hex", "m", "s"}

ASSUME AtomsAssumption == Text \subseteq Seq(Byte)

VARIABLES
  text,
  pass,      \* "count", "store" or "done"
  i,         \* The position of the next byte
  counted,   \* The atoms counted, a history: the program keeps how many there are
  items      \* The atoms stored

vars == <<text, pass, i, counted, items>>

Blank == {"sp", "tab"}
Hex   == {"dig", "hex"}
Alpha == {"hex", "m", "s"}
Unit  == {<<"m", "s">>}

Least(S) == CHOOSE x \in S : \A y \in S : x <= y

\* The first position from n on that is the end of t or holds a byte of C.
Until(t, n, C) == Least({p \in n..(Len(t) + 1) : p = Len(t) + 1 \/ t[p] \in C})

\* Bytes in hex, two digits each, from p on with a space between: group g of them,
\* their number, and the end of a run of two or more. p is no run.
IsHexGroup(t, p, g) ==
  LET n == p + 3 * g
  IN  /\ n < Len(t) /\ t[n] \in Hex /\ t[n + 1] \in Hex
      /\ g > 0 => t[n - 1] = "sp"

HexGroups(t, p) == Least({g \in 0..Len(t) : ~IsHexGroup(t, p, g)})

HexRunEnd(t, p) ==
  LET end == p + 3 * HexGroups(t, p) - 1
  IN  IF /\ HexGroups(t, p) >= 2
         /\ end <= Len(t) => t[end] \notin Alpha \cup {"dig"}
      THEN end ELSE p

\* A number, with or without a fraction, and where it and its unit end.
DigitsEnd(t, p) == Until(t, p, Byte \ {"dig"})

NumberEnd(t, p) ==
  LET n == DigitsEnd(t, p)
  IN  IF n < Len(t) /\ t[n] = "dot" /\ t[n + 1] = "dig" THEN DigitsEnd(t, n + 1) ELSE n

QuantityEnd(t, p) ==
  LET n   == NumberEnd(t, p)
      end == Until(t, n + 1, Byte \ Alpha)
  IN  IF /\ t[p] = "dig" /\ n <= Len(t) /\ t[n] = "sp"
         /\ SubSeq(t, n + 1, end - 1) \in Unit
      THEN end ELSE p

LeadsEnd_None(t, p) == p
\* The first byte behind the brackets an atom starts with. A backtick there opens a
\* span, unless no backtick closes it or it stands between brackets.
LeadsEnd(t, p) == Until(t, p, Byte \ {"open"})
SpanEnd(t, p)  == Until(t, LeadsEnd(t, p) + 1, {"tick"}) + 1

IsQuoted(t, p) ==
  LET q == LeadsEnd(t, p) IN q > p /\ q < Len(t) /\ t[q + 1] = "close"

OpensSpan(t, p) ==
  /\ LeadsEnd(t, p) <= Len(t) /\ t[LeadsEnd(t, p)] = "tick"
  /\ ~IsQuoted(t, p)
  /\ SpanEnd(t, p) <= Len(t) + 1

AttachTrailer_SpanOnly(t, p, end) ==
  IF end = p /\ OpensSpan(t, p) THEN SpanEnd(t, p) ELSE Until(t, end, Blank)
\* What follows the start of an atom without a blank belongs to it.
AttachTrailer(t, p, end) ==
  Until(t, IF end = p /\ OpensSpan(t, p) THEN SpanEnd(t, p) ELSE end, Blank)

AtomEnd(t, p) ==
  AttachTrailer(t, p, IF HexRunEnd(t, p) # p THEN HexRunEnd(t, p) ELSE QuantityEnd(t, p))

\* The next atom from n on, if there is one before the end.
NextStart(t, n) == Until(t, n, Byte \ Blank)
HasAtom(t, n)   == NextStart(t, n) <= Len(t)
AtomFrom(t, n)  == [from |-> NextStart(t, n), to |-> AtomEnd(t, NextStart(t, n))]

Joined_NoSpace(atoms) == FlattenSeq(atoms)
\* The atoms' bytes, and the paragraph they make: the fill puts one space or the end
\* of a line between two atoms, and lines are joined with one space.
Texts == [k \in 1..Len(items) |-> SubSeq(text, items[k].from, items[k].to - 1)]

Joined(atoms) ==
  FlattenSeq([k \in 1..Len(atoms) |-> IF k = 1 THEN atoms[1] ELSE <<"sp">> \o atoms[k]])

-----------------------------------------------------------------------------

Init ==
  /\ text \in Text
  /\ pass = "count" /\ i = 1 /\ counted = <<>> /\ items = <<>>

\* One turn of each loop, with the turns that only skip blanks before it.
CountAtom ==
  /\ pass = "count" /\ HasAtom(text, i)
  /\ counted' = Append(counted, AtomFrom(text, i)) /\ i' = AtomFrom(text, i).to
  /\ UNCHANGED <<text, pass, items>>

StartStore ==
  /\ pass = "count" /\ ~HasAtom(text, i)
  /\ pass' = "store" /\ i' = 1
  /\ UNCHANGED <<text, counted, items>>

StoreAtom ==
  /\ pass = "store" /\ HasAtom(text, i)
  /\ items' = Append(items, AtomFrom(text, i)) /\ i' = AtomFrom(text, i).to
  /\ UNCHANGED <<text, pass, counted>>

Finish ==
  /\ pass = "store" /\ ~HasAtom(text, i)
  /\ pass' = "done"
  /\ UNCHANGED <<text, i, counted, items>>

Next == CountAtom \/ StartStore \/ StoreAtom \/ Finish

Spec == Init /\ [][Next]_vars

-----------------------------------------------------------------------------

\* The second pass stores as many atoms as the first made room for. They are whole
\* words, in the order of the text, and only blanks stand outside them: no byte of
\* the paragraph is lost or written twice, and the fill breaks no word.
AtomsAreWhole ==
  /\ Len(items) <= Len(counted)
  /\ \A k \in 1..Len(items) :
       LET from == items[k].from   to == items[k].to
           last == IF k = 1 THEN 1 ELSE items[k - 1].to
       IN  /\ last <= from /\ from < to /\ to <= Len(text) + 1
           /\ \A n \in last..(from - 1) : text[n] \in Blank
           /\ from = 1 \/ text[from - 1] \in Blank
           /\ to = Len(text) + 1 \/ text[to] \in Blank
  /\ pass = "done" =>
       /\ Len(items) = Len(counted)
       /\ \A n \in i..Len(text) : text[n] \in Blank

-----------------------------------------------------------------------------
(* The promises of atom.h, stated over the words of the text.               *)

WordStarts == {n \in 1..Len(text) : text[n] \notin Blank /\ (n = 1 \/ text[n - 1] \in Blank)}

ByteIn(n, C) == n \in 1..Len(text) /\ text[n] \in C

\* An uppercase hex-byte run: as many groups as there are, and no letter behind them.
IsHexRun(a, b) ==
  /\ a \in WordStarts /\ b - a >= 5 /\ (b - a) % 3 = 2
  /\ \A n \in a..(b - 1) : text[n] \in IF (n - a) % 3 = 2 THEN {"sp"} ELSE Hex
  /\ ~ByteIn(b, Alpha \cup {"dig"})
  /\ ~(ByteIn(b, {"sp"}) /\ ByteIn(b + 1, Hex) /\ ByteIn(b + 2, Hex))

\* A quantity and its unit, n the space between.
IsQuantity(a, n, b) ==
  /\ a \in WordStarts /\ a < n /\ n < b /\ text[n] = "sp"
  /\ \E d \in a..n :
       /\ \A k \in a..(n - 1) : text[k] = IF k = d THEN "dot" ELSE "dig"
       /\ d \notin {a, n - 1}
  /\ SubSeq(text, n + 1, b - 1) \in Unit /\ ~ByteIn(b, Alpha)

\* A backtick span that starts a word or follows its opening brackets, and no
\* backtick between brackets.
IsSpan(a, b) ==
  /\ a \in WordStarts
  /\ \E q \in a..(b - 2) :
       /\ \A n \in a..(q - 1) : text[n] = "open"
       /\ {n \in q..(b - 1) : text[n] = "tick"} = {q, b - 1}
       /\ ~(q > a /\ text[q + 1] = "close")

IsInSpan(a) == \E c \in 1..(a - 1), d \in (a + 1)..(Len(text) + 1) : IsSpan(c, d)

\* A number from a to n whose first digits are the last bytes of a hex run.
ContinuesHexRun(a, n) == \E c \in 1..(a - 1), d \in (a + 1)..n : IsHexRun(c, d)

AreTogether(a, b) == \E k \in 1..Len(items) : items[k].from <= a /\ b <= items[k].to

\* A hex run, a quantity with its unit and a backtick span each stay in one atom,
\* unless a span before it is open there; and a quantity whose digits continue a hex
\* run does not keep its unit.
KeepsTogether ==
  pass = "done" =>
    \A a \in WordStarts, b \in 2..(Len(text) + 1) :
      ~IsInSpan(a) =>
        /\ IsHexRun(a, b) \/ IsSpan(a, b) => AreTogether(a, b)
        /\ \A n \in a..b :
             IsQuantity(a, n, b) /\ ~ContinuesHexRun(a, n) => AreTogether(a, b)
=============================================================================
