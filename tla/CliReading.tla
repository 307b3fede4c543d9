----------------------------- MODULE CliReading -----------------------------
(***************************************************************************)
(* A command line read from left to right, without moving anything: the    *)
(* reference that copt's loop over the permuted argv is compared with.     *)
(***************************************************************************)
EXTENDS Cli

OptionsEnd == Least({k \in 1..Len(args) : args[k] = DashDash} \cup {Len(args) + 1})

IsLong(e) == e[2] = "-"
FirstEquals(e) == Least({k \in 1..Len(e) : e[k] = "="} \cup {Len(e) + 1})

\* The letters of a group are options up to one that takes the rest as its value: a width,
\* or the one letter directly before the first equals sign, whose value is rejected.
TakesRest(e, k) ==
  \/ e[k] \in WidthSpelling
  \/ k < Len(e) /\ k + 1 = FirstEquals(e)
LastLetter(e) == Least({k \in 2..Len(e) : TakesRest(e, k)} \cup {Len(e)})

\* Where an element names an option, and the value behind such a place.
NamePlaces(e) == IF IsLong(e) THEN {3} ELSE 2..LastLetter(e)
HasValue(e, p) ==
  IF IsLong(e) THEN FirstEquals(e) <= Len(e) ELSE p = LastLetter(e) /\ p < Len(e)
ValueIn(e, p) ==
  LET last == IF IsLong(e) THEN FirstEquals(e) ELSE IF e[p + 1] = "=" THEN p + 1 ELSE p
  IN  SubSeq(e, last + 1, Len(e))

-----------------------------------------------------------------------------
(* The options of the command line: pairs of an element and a place in it *)

IsOptionAt(k) == k < OptionsEnd /\ IsOption(args[k])

Places == UNION {{k} \X NamePlaces(args[k]) : k \in {j \in 1..Len(args) : IsOptionAt(j)}}

Before(x, y) == x[1] < y[1] \/ (x[1] = y[1] /\ x[2] < y[2])
FirstOf(S) == CHOOSE x \in S : \A y \in S : y = x \/ Before(x, y)
LastOf(S) == CHOOSE x \in S : \A y \in S : y = x \/ Before(y, x)

NameAt(x) == args[x[1]][x[2]]

\* A width without a value takes the next element, unless it looks like an option.
TakesNext(x) ==
  /\ NameAt(x) \in WidthSpelling /\ ~HasValue(args[x[1]], x[2])
  /\ x[1] + 1 < OptionsEnd /\ ~IsOption(args[x[1] + 1])
IsTaken(k) == \E x \in Places : x[1] + 1 = k /\ TakesNext(x)

IsGiven(x) == HasValue(args[x[1]], x[2]) \/ TakesNext(x)
Value(x) ==
  IF HasValue(args[x[1]], x[2]) THEN ValueIn(args[x[1]], x[2]) ELSE args[x[1] + 1]

Decimal(text) == FoldLeft(LAMBDA n, c : n * 10 + Digit[c], 0, text)
IsNumber(text) == text # <<>> /\ (\A k \in 1..Len(text) : text[k] \in DOMAIN Digit)

WidthFault(text) ==
  IF ~IsNumber(text) \/ Decimal(text) \notin 1..SizeMax THEN "invalid"
  ELSE IF Decimal(text) > ColumnMax THEN "too_wide" ELSE "none"
Fault(x) ==
  IF NameAt(x) \in WidthSpelling
  THEN IF IsGiven(x) THEN WidthFault(Value(x)) ELSE "missing"
  ELSE IF NameAt(x) \notin Known THEN "unknown"
  ELSE IF IsGiven(x) THEN "attached" ELSE "none"

\* What a set of places reads.
FlagsIn(S) ==
  {f \in DOMAIN Spelling : \E x \in S : NameAt(x) \in Spelling[f] /\ Fault(x) = "none"}
WidthsIn(S) == {x \in S : NameAt(x) \in WidthSpelling /\ Fault(x) = "none"}
FaultsIn(S) == {x \in S : Fault(x) # "none"}
WidthIn(S) ==
  IF WidthsIn(S) = {} THEN ColumnDefault ELSE Decimal(Value(LastOf(WidthsIn(S))))
ErrorIn(S) == IF FaultsIn(S) = {} THEN "none" ELSE Fault(FirstOf(FaultsIn(S)))

OperandsRead == {k \in 1..Len(args) : k # OptionsEnd /\ ~IsOptionAt(k) /\ ~IsTaken(k)}

Ascends(s) == \A j, k \in 1..Len(s) : j < k => s[j] < s[k]

-----------------------------------------------------------------------------

\* The one exception. The code looks for the letter before the equals sign by its name, so
\* a letter of the group that has the same name, as the first one of -cVc=f, is taken
\* for it, and the letters behind are not read.
MistakesALetter(e) ==
  /\ ~IsLong(e) /\ FirstEquals(e) <= Len(e)
  /\ \E k \in 2..LastLetter(e) :
       /\ e[k] = e[FirstEquals(e) - 1] /\ k # FirstEquals(e) - 1
       /\ e[k] \notin WidthSpelling
NoLetterIsMistaken == \A k \in 1..Len(args) : IsOptionAt(k) => ~MistakesALetter(args[k])

\* Where no letter is mistaken for the one before an equals sign, the loop over the
\* permuted argv reads what a reader of the command line does from left to right: the
\* same flags, the last width, the first error, and as operands what is neither an
\* option nor a width's value, in order.
ReadsLeftToRight ==
  pc = "paths" /\ NoLetterIsMistaken =>
    /\ flags = FlagsIn(Places)
    /\ width = WidthIn(Places)
    /\ error = ErrorIn(Places)
    /\ LET rest == SubSeq(copt.argv, copt.idx, Argc(copt))
       IN  Ascends(rest) /\ {rest[k] : k \in 1..Len(rest)} = OperandsRead

\* The outcome does not depend on where the flags stand, with the same exception: a version
\* asked for anywhere before "--" wins, then help, and only then does an error reject
\* the command line.
OrderIsImmaterial ==
  pc \in {"dispatch", "wrap", "end"} /\ NoLetterIsMistaken =>
    /\ (action = "version") <=> "version" \in FlagsIn(Places)
    /\ (action = "help") <=> "version" \notin FlagsIn(Places) /\ "help" \in FlagsIn(Places)
    /\ (error = "none") <=> (action # "error")

\* What cli.c:273 says of a group without exception: every letter before the one that has
\* the value is an option of its own, so the flags are those of every place. The
\* code disagrees on -cVc=f, which does not ask for the version.
EveryEarlierLetterIsRead == pc = "paths" => flags = FlagsIn(Places)
=============================================================================
