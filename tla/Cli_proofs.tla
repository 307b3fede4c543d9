----------------------------- MODULE Cli_proofs -----------------------------
(***************************************************************************)
(* For every command line: copt's rotations lose and double no element and *)
(* leave what is still to read in order, its asserted bounds hold, and its *)
(* loop always moves on; what it reads is what a reader from left to right *)
(* does, so that the order the flags stand in does not matter; what runs   *)
(* is what the wrap command takes.                                         *)
(***************************************************************************)
EXTENDS CliReading, FiniteSetTheorems, SequenceTheorems, WellFoundedInduction, TLAPS

LEMMA LeastProperties ==
  ASSUME NEW S \in SUBSET Nat, S # {}
  PROVE  Least(S) \in S /\ \A y \in S : Least(S) <= y
<1>1. PICK x \in S : \A y \in S : ~ (<<y, x>> \in OpToRel(<, Nat))
  BY NatLessThanWellFounded, WFMin
<1>2. \A y \in S : x <= y
  <2> TAKE y \in S
  <2>1. ~ (<<y, x>> \in OpToRel(<, Nat)) BY <1>1
  <2>2. x \in Nat /\ y \in Nat OBVIOUS
  <2>3. ~ (y < x) BY <2>1, <2>2, Zenon DEF OpToRel
  <2> QED BY <2>2, <2>3
<1> QED BY <1>2 DEF Least

-----------------------------------------------------------------------------
(* The elements of argv *)

Elements == 1..Len(args)

\* A permutation of the elements, in order behind `from`.
Injective(s) == \A j, k \in 1..Len(s) : s[j] = s[k] => j = k
SortedBehind(s, from) == \A j, k \in 1..Len(s) : from < j /\ j < k => s[j] < s[k]

\* Bringing an element forward keeps the order of those it passes.
LEMMA RotateRightKeeps ==
  ASSUME NEW n \in Nat, NEW s \in Seq(1..n), NEW a \in 1..Len(s), NEW b \in 1..Len(s), a <= b,
         Injective(s), SortedBehind(s, a - 1), NEW r, r = RotateRight(s, a, b)
  PROVE  /\ r \in Seq(1..n) /\ Len(r) = Len(s) /\ Injective(r) /\ SortedBehind(r, a)
         /\ r[a] = s[b] /\ \A k \in 1..Len(s) : k > b => r[k] = s[k]
<1> DEFINE from(k) == IF k = a THEN b ELSE IF k \in (a + 1)..b THEN k - 1 ELSE k
<1>1. Len(s) \in Nat /\ \A k \in 1..Len(s) : s[k] \in 1..n BY LenProperties, ElementOfSeq
<1>2. \A k \in 1..Len(s) : from(k) \in 1..Len(s) BY <1>1
<1>3. r = [k \in 1..Len(s) |-> s[from(k)]] BY <1>1 DEF RotateRight
<1>4. r \in Seq(1..n) /\ Len(r) = Len(s)
  <2>1. r \in [1..Len(s) -> 1..n] BY <1>1, <1>2, <1>3
  <2>2. r \in Seq(1..n) BY <1>1, <2>1, SeqDef
  <2>3. DOMAIN r = 1..Len(s) BY <2>1
  <2> QED BY <1>1, <2>2, <2>3, LenProperties
<1>5. \A k \in 1..Len(s) : r[k] = s[from(k)] BY <1>3
<1>6. Injective(r)
  <2> SUFFICES ASSUME NEW j \in 1..Len(s), NEW k \in 1..Len(s), r[j] = r[k] PROVE j = k
    BY <1>4 DEF Injective
  <2>1. s[from(j)] = s[from(k)] BY <1>5
  <2>2. from(j) = from(k) BY <1>2, <2>1 DEF Injective
  <2> QED BY <2>2, <1>1
<1>7. SortedBehind(r, a)
  <2> SUFFICES ASSUME NEW j \in 1..Len(s), NEW k \in 1..Len(s), a < j, j < k
               PROVE  r[j] < r[k]
    BY <1>4 DEF SortedBehind
  <2>1. a - 1 < from(j) /\ from(j) < from(k) BY <1>1
  <2>2. s[from(j)] < s[from(k)] BY <1>2, <2>1 DEF SortedBehind
  <2> QED BY <1>5, <2>2
<1>8. r[a] = s[b] BY <1>5
<1>9. \A k \in 1..Len(s) : k > b => r[k] = s[k] BY <1>1, <1>5
<1> QED BY <1>4, <1>6, <1>7, <1>8, <1>9

-----------------------------------------------------------------------------
(* What copt keeps between its calls *)

\* Behind an option stands an operand at argidx, or nothing that is one.
Behind(o) ==
  /\ o.argidx > o.idx
  /\ o.argidx <= Argc(o) => ~IsOption(Arg(o, o.argidx))

ArgvInv(o) ==
  /\ o \in [argv : Seq(Elements), idx : Nat, subidx : Nat, argidx : Nat]
  /\ Argc(o) = Len(args) /\ Injective(o.argv) /\ SortedBehind(o.argv, o.idx)
  /\ o.idx <= Argc(o) + 1

GroupInv(o) ==
  o.subidx > 0 =>
    /\ 1 <= o.idx /\ o.idx <= Argc(o) /\ IsOption(Arg(o, o.idx))
    /\ o.subidx + 1 <= Len(Arg(o, o.idx)) /\ IsShort(o) /\ Behind(o)

CoptInv(o) == ArgvInv(o) /\ GroupInv(o)

ArgsOK == args \in Seq(Seq(Char))

IInv == ArgsOK /\ CoptInv(copt) /\ (pc = "options" => copt.idx <= Argc(copt))

\* The length of an element.
LEMMA ElementLen ==
  ASSUME ArgsOK, NEW o, ArgvInv(o), NEW k \in 1..Argc(o)
  PROVE  o.argv[k] \in Elements /\ Arg(o, k) \in Seq(Char) /\ Len(Arg(o, k)) \in Nat
<1>1. o.argv \in Seq(Elements) BY DEF ArgvInv
<1>2. o.argv[k] \in Elements BY <1>1, ElementOfSeq DEF Argc
<1>3. Arg(o, k) \in Seq(Char) BY <1>2, ElementOfSeq DEF Arg, ArgsOK, Elements
<1> QED BY <1>2, <1>3, LenProperties

\* copt_reorder_opt, for an index moved one on.
LEMMA ReorderedKeeps ==
  ASSUME ArgsOK, NEW o, ArgvInv(o), o.idx >= 1, o.idx <= Argc(o), o.subidx = 0,
         SortedBehind(o.argv, o.idx - 1)
  PROVE  LET n == Reordered(o, o.idx)
         IN  /\ ArgvInv(n) /\ n.idx = o.idx /\ n.subidx = 0 /\ Argc(n) = Argc(o)
             /\ IsOption(Arg(n, n.idx)) => Behind(n)
<1> DEFINE k == o.idx
           at == Least(OptionsFrom(o, k))
           n == Reordered(o, k)
<1>0. /\ o \in [argv : Seq(Elements), idx : Nat, subidx : Nat, argidx : Nat]
      /\ Argc(o) = Len(args) /\ Len(args) \in Nat /\ k \in 1..Len(o.argv)
  BY LenProperties DEF ArgvInv, Argc, ArgsOK
<1>1. CASE OptionsFrom(o, k) = {}
  <2>1. n = [o EXCEPT !.argidx = 0] BY <1>1 DEF Reordered
  <2> HIDE DEF n
  <2>2. ~IsOption(Arg(o, k)) BY <1>0, <1>1 DEF OptionsFrom, Argc
  <2>3. n.idx = k /\ n.argv = o.argv /\ n.subidx = 0 BY <1>0, <2>1
  <2>4. ArgvInv(n) BY <1>0, <2>1, <2>3 DEF ArgvInv, Argc
  <2> QED BY <2>2, <2>3, <2>4 DEF Arg, Argc, n
<1>2. CASE OptionsFrom(o, k) # {}
  <2> DEFINE r == RotateRight(o.argv, k, at)
             hasOperand == at < Argc(o) /\ ~IsOption(Arg(o, at + 1))
             arg == IF hasOperand THEN at + 1 ELSE Argc(o) + 1
  <2>0. OptionsFrom(o, k) \in SUBSET Nat BY <1>0 DEF OptionsFrom
  <2>1. at \in OptionsFrom(o, k) BY <1>2, <2>0, LeastProperties
  <2>2. at \in 1..Len(o.argv) /\ k <= at BY <1>0, <2>1 DEF OptionsFrom, Argc
  <2> HIDE DEF at
  <2>3. n = [o EXCEPT !.argv = r, !.argidx = arg] BY <1>2 DEF Reordered, at
  <2>4. /\ r \in Seq(Elements) /\ Len(r) = Len(o.argv) /\ Injective(r) /\ SortedBehind(r, k)
        /\ \A j \in 1..Len(o.argv) : j > at => r[j] = o.argv[j]
    <3>1. o.argv \in Seq(1..Len(args)) /\ Injective(o.argv) /\ SortedBehind(o.argv, k - 1)
      BY <1>0 DEF Elements, ArgvInv
    <3>2. r \in Seq(1..Len(args)) /\ Len(r) = Len(o.argv) /\ Injective(r) /\ SortedBehind(r, k)
          /\ \A j \in 1..Len(o.argv) : j > at => r[j] = o.argv[j]
      <4> HIDE DEF k
      <4> QED BY <1>0, <2>2, <3>1, RotateRightKeeps
    <3> QED BY <3>2 DEF Elements
  <2> HIDE DEF r
  <2>5. arg \in Nat /\ arg > k BY <1>0, <2>2 DEF Argc
  <2>6. arg <= Argc(o) => hasOperand /\ arg = at + 1 BY <1>0
  <2>7. arg <= Argc(o) => ~IsOption(args[r[arg]])
    <3> SUFFICES ASSUME arg <= Argc(o) PROVE ~IsOption(args[r[arg]]) OBVIOUS
    <3>1. arg \in 1..Len(o.argv) /\ arg > at BY <1>0, <2>2, <2>6 DEF Argc
    <3>2. r[arg] = o.argv[arg] BY <2>4, <3>1
    <3> QED BY <2>6, <3>2 DEF Arg
  <2> HIDE DEF arg, n
  <2>8. n.argv = r /\ n.idx = k /\ n.subidx = 0 /\ n.argidx = arg BY <1>0, <2>3
  <2>9. n \in [argv : Seq(Elements), idx : Nat, subidx : Nat, argidx : Nat]
    BY <1>0, <2>3, <2>4, <2>5
  <2>10. Argc(n) = Argc(o) BY <2>4, <2>8 DEF Argc
  <2>11. ArgvInv(n) BY <1>0, <2>4, <2>8, <2>9, <2>10 DEF ArgvInv
  <2>12. Behind(n) BY <2>5, <2>7, <2>8, <2>10 DEF Behind, Arg
  <2> QED BY <2>8, <2>10, <2>11, <2>12 DEF n
<1> QED BY <1>1, <1>2

\* copt_next, up to its verdict: the next element is read, in front of those behind it.
LEMMA NextElementKeeps ==
  ASSUME ArgsOK, NEW o, ArgvInv(o), o.idx <= Argc(o)
  PROVE  LET n == NextElement(o)
         IN  /\ ArgvInv(n) /\ n.idx = o.idx + 1 /\ n.subidx = 0
             /\ IsAtOption(n) => Behind(n)
<1> DEFINE l == [o EXCEPT !.idx = o.idx + 1]
           m == [l EXCEPT !.subidx = 0]
           n == NextElement(o)
<1>0. /\ o \in [argv : Seq(Elements), idx : Nat, subidx : Nat, argidx : Nat]
      /\ Argc(o) = Len(args) /\ Len(args) \in Nat
  BY LenProperties DEF ArgvInv, ArgsOK
<1>1. /\ m.argv = o.argv /\ m.idx = o.idx + 1 /\ m.subidx = 0 /\ Argc(m) = Argc(o)
      /\ m \in [argv : Seq(Elements), idx : Nat, subidx : Nat, argidx : Nat]
  <2>1. o.idx + 1 \in Nat BY <1>0
  <2>2. /\ l.argv = o.argv /\ l.idx = o.idx + 1
        /\ l \in [argv : Seq(Elements), idx : Nat, subidx : Nat, argidx : Nat]
    BY <1>0, <2>1
  <2> HIDE DEF l
  <2> QED BY <2>2 DEF Argc
<1>2. n = IF m.idx > Argc(o) THEN m ELSE Reordered(m, m.idx) BY <1>1 DEF NextElement
<1> HIDE DEF m, n
<1>3. ArgvInv(m) /\ SortedBehind(m.argv, m.idx - 1)
  <2>1. SortedBehind(o.argv, o.idx) /\ m.idx - 1 = o.idx BY <1>0, <1>1 DEF ArgvInv
  <2>2. SortedBehind(o.argv, o.idx + 1) BY <1>0, <2>1 DEF SortedBehind, Argc
  <2>3. m.idx <= Argc(m) + 1 BY <1>0, <1>1
  <2> QED BY <1>0, <1>1, <2>1, <2>2, <2>3 DEF ArgvInv
<1>4. CASE m.idx > Argc(o)
  <2>1. ~IsAtOption(m) BY <1>0, <1>1, <1>4 DEF IsAtOption
  <2> QED BY <1>1, <1>2, <1>3, <1>4, <2>1 DEF n
<1>5. CASE ~(m.idx > Argc(o))
  <2>1. m.idx >= 1 /\ m.idx <= Argc(m) BY <1>0, <1>1, <1>5
  <2>2. n = Reordered(m, m.idx) BY <1>2, <1>5
  <2>3. /\ ArgvInv(n) /\ n.idx = m.idx /\ n.subidx = 0
        /\ IsOption(Arg(n, n.idx)) => Behind(n)
    BY <1>1, <1>3, <2>1, <2>2, ReorderedKeeps
  <2> QED BY <1>1, <2>3 DEF IsAtOption, n
<1> QED BY <1>4, <1>5

\* One turn reads on and keeps the invariant.
LEMMA NextOptionKeeps ==
  ASSUME ArgsOK, NEW o, CoptInv(o), o.idx <= Argc(o)
  PROVE  LET n == NextOption(o)
         IN  /\ CoptInv(n)
             /\ IsAtOption(n) => Behind(n)
             /\ \/ n.idx > o.idx
                \/ n.idx = o.idx /\ o.subidx > 0 /\ n.subidx > o.subidx
<1> DEFINE e == NextElement(o)
           n == NextOption(o)
<1>0. /\ o \in [argv : Seq(Elements), idx : Nat, subidx : Nat, argidx : Nat]
      /\ ArgvInv(o) /\ Argc(o) = Len(args)
  BY DEF CoptInv, ArgvInv
<1>1. /\ ArgvInv(e) /\ e.idx = o.idx + 1 /\ e.subidx = 0
      /\ IsAtOption(e) => Behind(e)
  BY <1>0, NextElementKeeps
<1>2. e \in [argv : Seq(Elements), idx : Nat, subidx : Nat, argidx : Nat]
  BY <1>1 DEF ArgvInv
<1>3. n = IF InCluster(o) THEN [o EXCEPT !.subidx = @ + 1]
          ELSE IF IsAtOption(e) /\ IsShort(e) THEN [e EXCEPT !.subidx = 1] ELSE e
  BY DEF NextOption
<1> HIDE DEF e, n
<1>4. CASE InCluster(o)
  <2>1. o.subidx > 0 /\ o.subidx + 2 <= Len(Arg(o, o.idx)) BY <1>4 DEF InCluster
  <2>2. /\ n.argv = o.argv /\ n.idx = o.idx /\ n.argidx = o.argidx /\ n.subidx = o.subidx + 1
        /\ n \in [argv : Seq(Elements), idx : Nat, subidx : Nat, argidx : Nat]
    BY <1>0, <1>3, <1>4
  <2>3. /\ 1 <= o.idx /\ o.idx <= Argc(o) /\ IsOption(Arg(o, o.idx)) /\ Behind(o)
        /\ IsShort(o)
    BY <2>1 DEF CoptInv, GroupInv
  <2>4. Behind(n) BY <2>2, <2>3 DEF Behind, Arg, Argc
  <2>5. ArgvInv(n) BY <1>0, <2>2 DEF ArgvInv, Argc
  <2>6. GroupInv(n) BY <1>0, <2>1, <2>2, <2>3, <2>4 DEF GroupInv, IsShort, Arg, Argc
  <2>7. n.subidx > o.subidx BY <1>0, <2>2
  <2> QED BY <2>1, <2>2, <2>4, <2>5, <2>6, <2>7 DEF CoptInv, n
<1>5. CASE ~InCluster(o) /\ IsAtOption(e) /\ IsShort(e)
  <2>1. /\ n.argv = e.argv /\ n.idx = e.idx /\ n.argidx = e.argidx /\ n.subidx = 1
        /\ n \in [argv : Seq(Elements), idx : Nat, subidx : Nat, argidx : Nat]
    BY <1>2, <1>3, <1>5
  <2>2. Behind(n) BY <1>1, <1>5, <2>1 DEF Behind, Arg, Argc
  <2>3. ArgvInv(n) BY <1>1, <2>1 DEF ArgvInv, Argc
  <2>4. IsOption(Arg(n, n.idx)) /\ n.idx <= Argc(n) /\ 1 <= n.idx /\ IsShort(n)
    BY <1>0, <1>1, <1>5, <2>1 DEF IsAtOption, IsShort, Arg, Argc
  <2>5. n.subidx + 1 <= Len(Arg(n, n.idx))
    <3>1. n.idx \in 1..Argc(n) /\ Len(args) \in Nat BY <2>1, <2>3, <2>4, LenProperties DEF ArgvInv, ArgsOK
    <3>2. Len(Arg(n, n.idx)) \in Nat BY <2>3, <3>1, ElementLen
    <3> QED BY <2>1, <2>4, <3>2 DEF IsOption
  <2>6. GroupInv(n) BY <2>2, <2>4, <2>5 DEF GroupInv
  <2>7. n.idx > o.idx BY <1>0, <1>1, <2>1
  <2> QED BY <2>2, <2>3, <2>6, <2>7 DEF CoptInv, n
<1>6. CASE ~InCluster(o) /\ ~(IsAtOption(e) /\ IsShort(e))
  <2>1. n = e BY <1>3, <1>6
  <2>2. GroupInv(n) BY <1>1, <2>1 DEF GroupInv
  <2>3. n.idx > o.idx BY <1>0, <1>1, <2>1
  <2> QED BY <1>1, <2>1, <2>2, <2>3 DEF CoptInv, n
<1> QED BY <1>4, <1>5, <1>6

\* Leaving a group keeps the invariant.
LEMMA LeaveKeeps ==
  ASSUME NEW o, ArgvInv(o)
  PROVE  CoptInv(Leave(o)) /\ Leave(o).idx = o.idx /\ Argc(Leave(o)) = Argc(o)
<1> DEFINE n == Leave(o)
<1>1. o \in [argv : Seq(Elements), idx : Nat, subidx : Nat, argidx : Nat] BY DEF ArgvInv
<1>2. /\ n.argv = o.argv /\ n.idx = o.idx /\ n.subidx = 0
      /\ n \in [argv : Seq(Elements), idx : Nat, subidx : Nat, argidx : Nat]
  BY <1>1 DEF Leave
<1> HIDE DEF n
<1> QED BY <1>2 DEF CoptInv, ArgvInv, GroupInv, Argc, n

\* copt_arg_impl: the operand that stands behind the option is the next element, and
\* taking it keeps the invariant.
LEMMA ArgTakenKeeps ==
  ASSUME ArgsOK, NEW o, ArgvInv(o), Behind(o), o.argidx <= Argc(o)
  PROVE  LET r == ArgBroughtBack(o)
             n == [Leave(r) EXCEPT !.idx = @ + 1]
         IN  /\ CoptInv(n) /\ n.idx <= Argc(n) /\ n.idx = o.idx + 1 /\ n.subidx = 0
             /\ n.argv = RotateRight(o.argv, o.idx + 1, o.argidx)
             /\ o.idx < Argc(o) /\ ~IsOption(Arg(r, o.idx + 1))
<1> DEFINE at == o.argidx
           k == o.idx + 1
           s == RotateRight(o.argv, k, at)
           r == ArgBroughtBack(o)
           n == [Leave(r) EXCEPT !.idx = @ + 1]
<1>0. /\ o \in [argv : Seq(Elements), idx : Nat, subidx : Nat, argidx : Nat]
      /\ Argc(o) = Len(args) /\ Len(args) \in Nat /\ Len(o.argv) = Len(args)
  BY LenProperties DEF ArgvInv, ArgsOK, Argc
<1>1. k \in 1..Len(o.argv) /\ at \in 1..Len(o.argv) /\ k <= at /\ at > o.idx
  BY <1>0 DEF Behind, Argc
<1>2. /\ s \in Seq(Elements) /\ Len(s) = Len(o.argv) /\ Injective(s) /\ SortedBehind(s, k)
      /\ s[k] = o.argv[at]
  <2>1. k - 1 = o.idx BY <1>0
  <2>2. o.argv \in Seq(1..Len(args)) /\ Injective(o.argv) /\ SortedBehind(o.argv, k - 1)
    BY <1>0, <2>1 DEF ArgvInv, Elements
  <2>3. s \in Seq(1..Len(args)) /\ Len(s) = Len(o.argv) /\ Injective(s) /\ SortedBehind(s, k)
        /\ s[k] = o.argv[at]
    <3> HIDE DEF k, at
    <3> QED BY <1>0, <1>1, <2>2, RotateRightKeeps
  <2> QED BY <2>3 DEF Elements
<1>3. r = [o EXCEPT !.argv = s] BY <1>1 DEF ArgBroughtBack
<1> HIDE DEF s, r
<1>4. r.argv = s /\ r.idx = o.idx BY <1>0, <1>3
<1>5. /\ n.argv = s /\ n.idx = k /\ n.subidx = 0
      /\ n \in [argv : Seq(Elements), idx : Nat, subidx : Nat, argidx : Nat]
  <2>1. r \in [argv : Seq(Elements), idx : Nat, subidx : Nat, argidx : Nat]
    BY <1>0, <1>2, <1>3
  <2> DEFINE p == [r EXCEPT !.subidx = 0]
             q == [p EXCEPT !.argidx = 0]
  <2>2. /\ p.argv = s /\ p.idx = o.idx /\ p.subidx = 0
        /\ p \in [argv : Seq(Elements), idx : Nat, subidx : Nat, argidx : Nat]
    BY <1>4, <2>1
  <2> HIDE DEF p
  <2>3. /\ q.argv = s /\ q.idx = o.idx /\ q.subidx = 0
        /\ q \in [argv : Seq(Elements), idx : Nat, subidx : Nat, argidx : Nat]
    BY <2>2
  <2>4. Leave(r) = q BY DEF Leave, p
  <2> HIDE DEF q
  <2>5. k \in Nat BY <1>0
  <2> QED BY <2>3, <2>4, <2>5
<1> HIDE DEF n
<1>5a. n.argv = RotateRight(o.argv, k, at) BY <1>5 DEF s
<1>6. Argc(n) = Argc(o) BY <1>2, <1>5 DEF Argc
<1>7. n.idx <= Argc(n) BY <1>0, <1>1, <1>5, <1>6 DEF Argc
<1>8. CoptInv(n)
  <2>1. ArgvInv(n) BY <1>0, <1>2, <1>5, <1>6, <1>7 DEF ArgvInv
  <2>2. GroupInv(n) BY <1>5 DEF GroupInv
  <2> QED BY <2>1, <2>2 DEF CoptInv
<1>9. ~IsOption(Arg(r, k))
  <2>1. ~IsOption(args[o.argv[at]]) BY DEF Behind, Arg
  <2> QED BY <1>2, <1>4, <2>1 DEF Arg
<1>10. o.idx < Argc(o) BY <1>0, <1>1 DEF Argc
<1> QED BY <1>5, <1>5a, <1>7, <1>8, <1>9, <1>10 DEF n, r

-----------------------------------------------------------------------------
(* The steps *)

LEMMA InitInv == Init => IInv
<1> SUFFICES ASSUME Init PROVE IInv OBVIOUS
<1> DEFINE s == [k \in 1..Len(args) |-> k]
<1>1. ArgsOK BY CliAssumption DEF Init, ArgsOK
<1>2. Len(args) \in Nat BY <1>1, LenProperties DEF ArgsOK
<1>3. s \in [1..Len(args) -> Elements] BY DEF Elements
<1>4. s \in Seq(Elements) BY <1>2, <1>3, SeqDef
<1>5. Len(s) = Len(args)
  <2>1. DOMAIN s = 1..Len(args) BY <1>3
  <2> QED BY <1>2, <1>4, <2>1, LenProperties
<1>6. \A k \in 1..Len(s) : s[k] = k BY <1>5
<1> HIDE DEF s
<1>7. copt = [argv |-> s, idx |-> 0, subidx |-> 0, argidx |-> 0] BY DEF Init, s
<1>8. copt.argv = s /\ copt.idx = 0 /\ copt.subidx = 0 BY <1>7
<1>9. copt \in [argv : Seq(Elements), idx : Nat, subidx : Nat, argidx : Nat] BY <1>4, <1>7
<1>10. Injective(s) /\ SortedBehind(s, 0) BY <1>6 DEF Injective, SortedBehind
<1>11. Argc(copt) = Len(args) BY <1>5, <1>8 DEF Argc
<1>12. ArgvInv(copt) BY <1>2, <1>8, <1>9, <1>10, <1>11 DEF ArgvInv
<1> QED BY <1>1, <1>2, <1>8, <1>11, <1>12 DEF IInv, CoptInv, GroupInv

\* What a turn knows of the option it reads.
LEMMA TurnFacts ==
  ASSUME IInv, pc = "options"
  PROVE  /\ CoptInv(Opt) /\ ArgvInv(Opt)
         /\ IsAtOption(Opt) => Opt.idx <= Argc(Opt) /\ Behind(Opt)
         /\ \/ Opt.idx > copt.idx
            \/ Opt.idx = copt.idx /\ copt.subidx > 0 /\ Opt.subidx > copt.subidx
<1>1. ArgsOK /\ CoptInv(copt) /\ copt.idx <= Argc(copt) BY DEF IInv
<1> DEFINE o == copt
           n == NextOption(o)
<1>2. /\ CoptInv(n)
      /\ IsAtOption(n) => Behind(n)
      /\ \/ n.idx > o.idx
         \/ n.idx = o.idx /\ o.subidx > 0 /\ n.subidx > o.subidx
  BY <1>1, NextOptionKeeps
<1>3. n = Opt BY DEF Opt
<1>4. IsAtOption(n) => n.idx <= Argc(n) BY DEF IsAtOption
<1> HIDE DEF n
<1>5. ArgvInv(n) BY <1>2 DEF CoptInv
<1> QED BY <1>2, <1>3, <1>4, <1>5

LEMMA OptionStep ==
  ASSUME IInv, Turn, args' = args, pc' = pc, copt' \in {Opt, Leave(Opt)}
  PROVE  IInv'
<1>1. CoptInv(Opt) /\ ArgvInv(Opt) /\ Opt.idx <= Argc(Opt) BY TurnFacts DEF Turn
<1>2. CoptInv(copt') /\ copt'.idx <= Argc(copt') BY <1>1, LeaveKeeps
<1> QED BY <1>2 DEF IInv, ArgsOK, CoptInv, ArgvInv, GroupInv, IsShort, Behind, Arg, Argc, Elements

LEMMA ReadWidthStep == ASSUME IInv, ReadWidth PROVE IInv'
<1>1. /\ CoptInv(Opt) /\ ArgvInv(Opt) /\ Opt.idx <= Argc(Opt) /\ Behind(Opt)
      /\ args' = args /\ pc' = pc /\ ArgsOK
  BY TurnFacts DEF ReadWidth, Turn, IInv
<1>2. CASE HasInline BY <1>2, OptionStep DEF ReadWidth
<1>3. CASE ~HasInline /\ HasNext
  <2>1. copt' = [Leave(ArgBroughtBack(Opt)) EXCEPT !.idx = @ + 1] BY <1>3 DEF ReadWidth
  <2>2. Opt.argidx <= Argc(Opt) BY <1>3 DEF HasNext
  <2>3. CoptInv(copt') /\ copt'.idx <= Argc(copt') BY <1>1, <2>1, <2>2, ArgTakenKeeps
  <2> QED
    BY <1>1, <2>3 DEF IInv, ArgsOK, CoptInv, ArgvInv, GroupInv, IsShort, Behind, Arg, Argc, Elements
<1>4. CASE ~HasInline /\ ~HasNext
  <2>1. ~(Opt.argidx <= Argc(Opt)) BY <1>1, <1>4, ArgTakenKeeps DEF HasNext
  <2>2. Opt.argidx \in Nat /\ Argc(Opt) \in Nat BY <1>1, LenProperties DEF ArgvInv, ArgsOK
  <2>3. Opt.argidx > Argc(Opt) BY <2>1, <2>2
  <2>4. copt' = Leave(Opt) BY <1>4, <2>3 DEF ReadWidth
  <2> QED BY <1>1, <2>4, OptionStep DEF ReadWidth
<1> QED BY <1>2, <1>3, <1>4

LEMMA EndOptionsStep == ASSUME IInv, EndOptions PROVE IInv'
<1>1. /\ CoptInv(Opt) /\ ArgvInv(Opt) /\ pc' = "paths" /\ args' = args /\ ArgsOK
  BY TurnFacts DEF EndOptions, IInv
<1> DEFINE n == [Opt EXCEPT !.idx = @ + 1]
<1>2. CASE ~(Opt.idx <= Argc(Opt) /\ Element = DashDash)
  <2>1. copt' = Opt BY <1>2 DEF EndOptions
  <2> QED BY <1>1, <2>1 DEF IInv, ArgsOK, CoptInv, ArgvInv, GroupInv, IsShort, Behind, Arg, Argc, Elements
<1>3. CASE Opt.idx <= Argc(Opt) /\ Element = DashDash
  <2>1. copt' = n BY <1>3 DEF EndOptions
  <2>2. /\ Opt \in [argv : Seq(Elements), idx : Nat, subidx : Nat, argidx : Nat]
        /\ Argc(Opt) = Len(args) /\ Len(args) \in Nat
    BY <1>1, LenProperties DEF ArgvInv, ArgsOK
  <2>3. /\ n.argv = Opt.argv /\ n.idx = Opt.idx + 1 /\ n.subidx = Opt.subidx
        /\ n \in [argv : Seq(Elements), idx : Nat, subidx : Nat, argidx : Nat]
    BY <2>2
  <2> HIDE DEF n
  <2>4. ArgvInv(n)
    <3>1. SortedBehind(Opt.argv, Opt.idx) BY <1>1 DEF ArgvInv
    <3>2. SortedBehind(n.argv, n.idx) BY <2>2, <2>3, <3>1 DEF SortedBehind, Argc
    <3> QED BY <1>1, <1>3, <2>2, <2>3, <3>2 DEF ArgvInv, Argc
  <2>5. Opt.subidx = 0
    <3>1. Opt.subidx > 0 => Element[2] # "-" BY <1>1 DEF CoptInv, GroupInv, IsShort, Element
    <3>2. Element[2] = "-" BY <1>3 DEF DashDash
    <3> QED BY <2>2, <3>1, <3>2
  <2>6. CoptInv(n) BY <2>3, <2>4, <2>5 DEF CoptInv, GroupInv
  <2> QED
    BY <1>1, <2>1, <2>6
       DEF IInv, ArgsOK, CoptInv, ArgvInv, GroupInv, IsShort, Behind, Arg, Argc, Elements, n
<1> QED BY <1>2, <1>3

\* The other steps leave argv alone.
LEMMA LaterStep ==
  ASSUME IInv, UNCHANGED <<args, copt>>, pc' # "options"
  PROVE  IInv'
BY DEF IInv, ArgsOK, CoptInv, ArgvInv, GroupInv, IsShort, Behind, Arg, Argc, Elements

\* The invariant holds in every reachable state.
THEOREM Invariance == Spec => []IInv
<1>1. IInv /\ [Next]_vars => IInv'
  <2> SUFFICES ASSUME IInv, [Next]_vars PROVE IInv' OBVIOUS
  <2>1. CASE UNCHANGED vars
    BY <2>1
       DEF vars, IInv, ArgsOK, CoptInv, ArgvInv, GroupInv, IsShort, Behind, Arg, Argc, Elements
  <2>2. ASSUME NEW f \in DOMAIN Spelling, ReadFlag(f) PROVE IInv'
    <3>1. copt' \in {Opt, Leave(Opt)} BY <2>2 DEF ReadFlag
    <3> QED BY <2>2, <3>1, OptionStep DEF ReadFlag
  <2>3. CASE ReadUnknown
    <3>1. copt' \in {Opt, Leave(Opt)} BY <2>3 DEF ReadUnknown
    <3> QED BY <2>3, <3>1, OptionStep DEF ReadUnknown
  <2>4. CASE TakePaths BY <2>4, LaterStep DEF TakePaths
  <2>5. CASE Resolve BY <2>5, LaterStep DEF Resolve
  <2>6. CASE Dispatch
    <3>1. UNCHANGED <<args, copt>> /\ pc' # "options" BY <2>6 DEF Dispatch
    <3> QED BY <3>1, LaterStep
  <2> QED BY <2>1, <2>2, <2>3, <2>4, <2>5, <2>6, ReadWidthStep, EndOptionsStep DEF Next
<1> QED BY <1>1, InitInv, PTL DEF Spec

\* The bounds that copt asserts hold for every command line.
THEOREM CoptAssertsHoldAlways == Spec => []CoptAssertsHold
<1>1. IInv => CoptAssertsHold BY DEF IInv, CoptInv, ArgvInv, GroupInv, CoptAssertsHold
<1> QED BY <1>1, Invariance, PTL

\* No rotation loses, doubles or misplaces an element, for every command line.
THEOREM PathsInOrderHolds == Spec => []PathsInOrder
<1>1. IInv => PathsInOrder
  <2> SUFFICES ASSUME IInv PROVE PathsInOrder OBVIOUS
  <2>1. ArgvInv(copt) /\ ArgsOK BY DEF IInv, CoptInv
  <2>2. copt.argv \in Seq(Elements) /\ Argc(copt) = Len(args) BY <2>1 DEF ArgvInv
  <2>3. \A k \in 1..Argc(copt) : copt.argv[k] \in 1..Len(args)
    BY <2>2, ElementOfSeq DEF Argc, Elements
  <2> QED BY <2>1, <2>2, <2>3 DEF PathsInOrder, ArgvInv, Injective, SortedBehind, Argc
<1> QED BY <1>1, Invariance, PTL

\* The loop over the options moves on at every turn, for every command line.
THEOREM ReadingAdvancesHolds == Spec => []ReadingAdvances
<1>1. IInv => ReadingAdvances BY TurnFacts DEF ReadingAdvances
<1> QED BY <1>1, Invariance, PTL

-----------------------------------------------------------------------------
(* The width that parse_size reads *)

\* The largest number of a set of places is in it.
LEMMA MaxProperties ==
  ASSUME NEW n \in Nat, NEW S \in SUBSET (1..n), S # {}
  PROVE  Max(S) \in S /\ \A y \in S : Max(S) >= y
<1> DEFINE U == {k \in Nat : \A y \in S : k >= y}
           u == Least(U)
<1>1. n \in U /\ U \in SUBSET Nat OBVIOUS
<1>2. u \in U /\ \A k \in U : u <= k BY <1>1, LeastProperties
<1> HIDE DEF u
<1>3. u \in S
  <2> SUFFICES ASSUME u \notin S PROVE FALSE OBVIOUS
  <2>1. \A y \in S : y \in Nat /\ u >= y /\ y # u BY <1>2
  <2>2. PICK x \in S : TRUE OBVIOUS
  <2>3. x \in 1..n OBVIOUS
  <2>4. u \in Nat BY <1>2
  <2>5. u - 1 \in Nat /\ \A y \in S : u - 1 >= y BY <2>1, <2>2, <2>3, <2>4
  <2>6. u - 1 \in U BY <2>5
  <2> QED BY <1>2, <2>4, <2>6
<1>4. \A y \in S : u >= y BY <1>2
<1> QED BY <1>3, <1>4, Zenon DEF Max

\* A place that is the last there can be is the largest.
LEMMA MaxOfInterval ==
  ASSUME NEW m \in Nat, NEW S \in SUBSET (1..m), m \in S
  PROVE  Max(S) = m
<1>1. Max(S) \in S /\ \A y \in S : Max(S) >= y
  <2>1. S # {} OBVIOUS
  <2> QED BY <2>1, MaxProperties, Zenon
<1>2. Max(S) \in 1..m BY <1>1
<1>3. Max(S) >= m BY <1>1
<1> QED BY <1>2, <1>3

Folds(g, m, A, base, step, s) ==
  /\ g \in [SUBSET (1..m) -> A]
  /\ \A S \in SUBSET (1..m) :
       g[S] = IF S = {} THEN base ELSE step[<<g[S \ {Max(S)}], s[Max(S)]>>]

\* A fold from the left has a value for every set of places, whatever the step.
LEMMA FoldExists ==
  ASSUME NEW A, NEW base \in A, NEW C, NEW step \in [A \X C -> A], NEW n \in Nat,
         NEW s \in [1..n -> C]
  PROVE  \E g : Folds(g, n, A, base, step, s)
<1> DEFINE T == {m \in Nat : m <= n /\ ~\E g : Folds(g, m, A, base, step, s)}
<1>1. T = {}
  <2> SUFFICES ASSUME T # {} PROVE FALSE OBVIOUS
  <2>1. T \in SUBSET Nat OBVIOUS
  <2>2. PICK m \in T : \A k \in T : m <= k BY <2>1, LeastProperties
  <2>3. m \in Nat /\ m <= n /\ ~\E g : Folds(g, m, A, base, step, s) BY <2>2
  <2>4. CASE m = 0
    <3>1. SUBSET (1..m) = {{}} BY <2>4
    <3>2. Folds([S \in SUBSET (1..m) |-> base], m, A, base, step, s) BY <3>1 DEF Folds
    <3> QED BY <2>3, <3>2
  <2>5. CASE m # 0
    <3>1. m - 1 \in Nat /\ m - 1 <= n /\ ~(m <= m - 1) BY <2>3, <2>5
    <3>2. m - 1 \notin T BY <2>2, <3>1
    <3>3. PICK h : Folds(h, m - 1, A, base, step, s) BY <3>1, <3>2
    <3> DEFINE g == [S \in SUBSET (1..m) |->
                       IF m \in S THEN step[<<h[S \ {m}], s[m]>>] ELSE h[S]]
    <3>4. ASSUME NEW S \in SUBSET (1..m)
          PROVE  /\ m \in S => S \ {m} \in SUBSET (1..(m - 1))
                 /\ m \notin S => S \in SUBSET (1..(m - 1))
      BY <2>3, <3>1
    <3>5. s[m] \in C BY <2>3, <2>5
    <3>6. ASSUME NEW S \in SUBSET (1..(m - 1))
          PROVE  h[S] \in A
      BY <3>3 DEF Folds
    <3>7. g \in [SUBSET (1..m) -> A]
      <4> SUFFICES ASSUME NEW S \in SUBSET (1..m)
                   PROVE  (IF m \in S THEN step[<<h[S \ {m}], s[m]>>] ELSE h[S]) \in A
        OBVIOUS
      <4>1. CASE m \in S
        <5>1. h[S \ {m}] \in A BY <3>4, <3>6, <4>1
        <5> QED BY <3>5, <4>1, <5>1
      <4>2. CASE m \notin S BY <3>4, <3>6, <4>2
      <4> QED BY <4>1, <4>2
    <3>8. ASSUME NEW S \in SUBSET (1..m)
          PROVE  g[S] = IF S = {} THEN base ELSE step[<<g[S \ {Max(S)}], s[Max(S)]>>]
      <4>1. CASE m \in S
        <5>1. Max(S) = m BY <2>3, <4>1, MaxOfInterval
        <5>2. S \ {m} \in SUBSET (1..m) /\ m \notin S \ {m} OBVIOUS
        <5>3. g[S \ {m}] = h[S \ {m}] BY <3>4, <5>2
        <5>4. g[S] = step[<<h[S \ {m}], s[m]>>] BY <4>1
        <5> HIDE DEF g
        <5> QED BY <4>1, <5>1, <5>3, <5>4
      <4>2. CASE m \notin S
        <5>1. S \in SUBSET (1..(m - 1)) BY <3>4, <4>2
        <5>2. g[S] = h[S] BY <4>2
        <5>3. S \ {Max(S)} \in SUBSET (1..m) /\ m \notin S \ {Max(S)} BY <4>2
        <5>4. g[S \ {Max(S)}] = h[S \ {Max(S)}] BY <5>3
        <5>5. h[S] = IF S = {} THEN base ELSE step[<<h[S \ {Max(S)}], s[Max(S)]>>]
          BY <3>3, <5>1 DEF Folds
        <5> HIDE DEF g
        <5> QED BY <5>2, <5>4, <5>5
      <4> QED BY <4>1, <4>2
    <3> HIDE DEF g
    <3>9. Folds(g, m, A, base, step, s) BY <3>7, <3>8 DEF Folds
    <3> QED BY <2>3, <3>9
  <2> QED BY <2>4, <2>5
<1>2. n \notin T BY <1>1
<1> QED BY <1>2

Size == [ok : BOOLEAN, value : Nat]

AddDigit(r, c) ==
  IF ~r.ok \/ c \notin DOMAIN Digit THEN NoSize
  ELSE IF Overflows(r.value, Digit[c]) THEN NoSize
  ELSE [r EXCEPT !.value = @ * 10 + Digit[c]]

LEMMA AddDigitType ==
  ASSUME NEW r \in Size, NEW c
  PROVE  AddDigit(r, c) \in Size
<1>1. NoSize \in Size BY DEF NoSize, Size
<1>2. CASE ~r.ok \/ c \notin DOMAIN Digit BY <1>1, <1>2 DEF AddDigit
<1>3. CASE r.ok /\ c \in DOMAIN Digit
  <2>1. Digit[c] \in 0..9 BY <1>3, CliAssumption
  <2>2. r.value * 10 + Digit[c] \in Nat BY <2>1 DEF Size
  <2>3. [r EXCEPT !.value = r.value * 10 + Digit[c]] \in Size BY <2>2 DEF Size
  <2> QED BY <1>1, <1>3, <2>3 DEF AddDigit
<1> QED BY <1>2, <1>3

\* What is folded from the left over all places is folded over the places up to one by its
\* step from those before it.
LEMMA UpTo ==
  ASSUME NEW n \in Nat, NEW k \in 1..n
  PROVE  /\ 1..k \in SUBSET (1..n) /\ 1..k # {} /\ Max(1..k) = k
         /\ (1..k) \ {Max(1..k)} = 1..(k - 1) /\ k - 1 \in 0..n
<1>1. k \in Nat /\ k \in 1..k /\ 1..k # {} /\ 1..k \in SUBSET (1..n) OBVIOUS
<1>2. Max(1..k) = k BY <1>1, MaxOfInterval
<1>3. (1..k) \ {k} = 1..(k - 1) BY <1>1
<1>4. k - 1 \in 0..n OBVIOUS
<1> QED BY <1>1, <1>2, <1>3, <1>4

SizeFold(g, text) ==
  g = [S \in SUBSET DOMAIN text |->
         IF S = {} THEN [ok |-> text # <<>>, value |-> 0]
         ELSE AddDigit(g[S \ {Max(S)}], text[Max(S)])]

\* parse_size goes over the text from its first character.
LEMMA SizeRun ==
  ASSUME NEW text \in Seq(Char)
  PROVE  \E f :
           /\ f[{}] = [ok |-> text # <<>>, value |-> 0]
           /\ \A k \in 1..Len(text) : f[1..k] = AddDigit(f[1..(k - 1)], text[k])
           /\ ParseSize(text) =
                IF f[1..Len(text)].value > PtrdiffMax
                THEN [f[1..Len(text)] EXCEPT !.value = PtrdiffMax] ELSE f[1..Len(text)]
<1> DEFINE n == Len(text)
           base == [ok |-> text # <<>>, value |-> 0]
           step == [p \in Size \X Char |-> AddDigit(p[1], p[2])]
           f == CHOOSE g : SizeFold(g, text)
<1>1. n \in Nat /\ DOMAIN text = 1..n /\ text \in [1..n -> Char] BY LenProperties
<1>2. base \in Size BY DEF Size
<1>3. step \in [Size \X Char -> Size] BY AddDigitType
<1>4. \E g : SizeFold(g, text)
  <2>1. ASSUME NEW r \in Size, NEW c \in Char PROVE step[<<r, c>>] = AddDigit(r, c) OBVIOUS
  <2> HIDE DEF step, base, n
  <2>2. PICK g : Folds(g, n, Size, base, step, text) BY <1>1, <1>2, <1>3, FoldExists
  <2>3. ASSUME NEW S \in SUBSET (1..n)
        PROVE  g[S] = IF S = {} THEN base ELSE AddDigit(g[S \ {Max(S)}], text[Max(S)])
    <3>1. g[S] = IF S = {} THEN base ELSE step[<<g[S \ {Max(S)}], text[Max(S)]>>]
      BY <2>2 DEF Folds
    <3>2. CASE S # {}
      <4>1. Max(S) \in 1..n BY <1>1, <3>2, MaxProperties
      <4>2. text[Max(S)] \in Char BY <1>1, <4>1
      <4>3. g[S \ {Max(S)}] \in Size BY <2>2 DEF Folds
      <4> QED BY <2>1, <3>1, <3>2, <4>2, <4>3
    <3> QED BY <3>1, <3>2
  <2>4. g = [S \in SUBSET (1..n) |-> g[S]] BY <2>2 DEF Folds
  <2>5. SizeFold(g, text) BY <1>1, <2>3, <2>4 DEF SizeFold, base
  <2> QED BY <2>5 DEF n
<1>5. SizeFold(f, text) BY <1>4
<1>6. ParseSize(text) =
        IF f[DOMAIN text].value > PtrdiffMax
        THEN [f[DOMAIN text] EXCEPT !.value = PtrdiffMax] ELSE f[DOMAIN text]
  BY DEF ParseSize, FoldLeft, MapThenFoldSet, SizeFold, AddDigit
<1> HIDE DEF f, n
<1>7. \A S \in SUBSET (1..n) :
        f[S] = IF S = {} THEN base ELSE AddDigit(f[S \ {Max(S)}], text[Max(S)])
  BY <1>1, <1>5 DEF SizeFold, base
<1>8. f[{}] = base BY <1>7
<1>9. ASSUME NEW k \in 1..n PROVE f[1..k] = AddDigit(f[1..(k - 1)], text[k])
  <2>1. /\ 1..k \in SUBSET (1..n) /\ 1..k # {} /\ Max(1..k) = k
        /\ (1..k) \ {Max(1..k)} = 1..(k - 1)
    BY <1>1, UpTo
  <2> QED BY <1>7, <2>1
<1> QED BY <1>1, <1>6, <1>8, <1>9 DEF n, base

\* What parse_size reads is a number.
LEMMA ParseSizeType ==
  ASSUME NEW text \in Seq(Char)
  PROVE  ParseSize(text).value \in Nat
<1> DEFINE n == Len(text)
<1>1. n \in Nat BY LenProperties
<1>2. PICK f :
        /\ f[{}] = [ok |-> text # <<>>, value |-> 0]
        /\ \A k \in 1..n : f[1..k] = AddDigit(f[1..(k - 1)], text[k])
        /\ ParseSize(text) =
             IF f[1..n].value > PtrdiffMax THEN [f[1..n] EXCEPT !.value = PtrdiffMax] ELSE f[1..n]
  BY SizeRun
<1> HIDE DEF n
<1> DEFINE T == {k \in Nat : k <= n /\ f[1..k] \notin Size}
<1>3. T = {}
  <2> SUFFICES ASSUME T # {} PROVE FALSE OBVIOUS
  <2>1. T \in SUBSET Nat OBVIOUS
  <2>2. PICK k \in T : \A j \in T : k <= j BY <2>1, LeastProperties
  <2>3. k \in Nat /\ k <= n /\ f[1..k] \notin Size BY <2>2
  <2>4. CASE k = 0
    <3>1. 1..k = {} BY <2>4
    <3>2. [ok |-> text # <<>>, value |-> 0] \in Size BY DEF Size
    <3> QED BY <1>2, <2>3, <3>1, <3>2
  <2>5. CASE k # 0
    <3>1. k - 1 \in Nat /\ k - 1 <= n /\ ~(k <= k - 1) /\ k \in 1..n BY <1>1, <2>3, <2>5
    <3>2. f[1..(k - 1)] \in Size BY <2>2, <3>1
    <3> QED BY <1>2, <2>3, <3>1, <3>2, AddDigitType
  <2> QED BY <2>4, <2>5
<1>4. f[1..n] \in Size BY <1>1, <1>3
<1> QED BY <1>2, <1>4, CliAssumption DEF Size

DecimalFold(g, text) ==
  g = [S \in SUBSET DOMAIN text |->
         IF S = {} THEN 0 ELSE g[S \ {Max(S)}] * 10 + Digit[text[Max(S)]]]

\* The number that digits write is that of the digits before the last, times ten, and the
\* last.
LEMMA DecimalRun ==
  ASSUME NEW text \in Seq(DOMAIN Digit)
  PROVE  \E g :
           /\ g[{}] = 0 /\ Decimal(text) = g[1..Len(text)]
           /\ \A k \in 1..Len(text) : g[1..k] = g[1..(k - 1)] * 10 + Digit[text[k]]
<1> DEFINE n == Len(text)
           step == [p \in Nat \X DOMAIN Digit |-> p[1] * 10 + Digit[p[2]]]
           f == CHOOSE g : DecimalFold(g, text)
<1>1. n \in Nat /\ DOMAIN text = 1..n /\ text \in [1..n -> DOMAIN Digit] BY LenProperties
<1>2. \A c \in DOMAIN Digit : Digit[c] \in 0..9 BY CliAssumption
<1>3. step \in [Nat \X DOMAIN Digit -> Nat]
  <2> SUFFICES ASSUME NEW r \in Nat, NEW c \in DOMAIN Digit PROVE r * 10 + Digit[c] \in Nat OBVIOUS
  <2>1. Digit[c] \in Nat BY <1>2
  <2> QED BY <2>1
<1>4. \E g : DecimalFold(g, text)
  <2>1. ASSUME NEW r \in Nat, NEW c \in DOMAIN Digit PROVE step[<<r, c>>] = r * 10 + Digit[c]
    OBVIOUS
  <2> HIDE DEF step, n
  <2>2. PICK g : Folds(g, n, Nat, 0, step, text) BY <1>1, <1>3, FoldExists
  <2>3. ASSUME NEW S \in SUBSET (1..n)
        PROVE  g[S] = IF S = {} THEN 0 ELSE g[S \ {Max(S)}] * 10 + Digit[text[Max(S)]]
    <3>1. g[S] = IF S = {} THEN 0 ELSE step[<<g[S \ {Max(S)}], text[Max(S)]>>]
      BY <2>2 DEF Folds
    <3>2. CASE S # {}
      <4>1. Max(S) \in 1..n BY <1>1, <3>2, MaxProperties
      <4>2. text[Max(S)] \in DOMAIN Digit BY <1>1, <4>1
      <4>3. g[S \ {Max(S)}] \in Nat BY <2>2 DEF Folds
      <4> QED BY <2>1, <3>1, <3>2, <4>2, <4>3
    <3> QED BY <3>1, <3>2
  <2>4. g = [S \in SUBSET (1..n) |-> g[S]] BY <2>2 DEF Folds
  <2>5. DecimalFold(g, text) BY <1>1, <2>3, <2>4 DEF DecimalFold
  <2> QED BY <2>5 DEF n
<1>5. DecimalFold(f, text) BY <1>4
<1>6. Decimal(text) = f[DOMAIN text] BY DEF Decimal, FoldLeft, MapThenFoldSet, DecimalFold
<1> HIDE DEF f, n
<1>7. \A S \in SUBSET (1..n) :
        f[S] = IF S = {} THEN 0 ELSE f[S \ {Max(S)}] * 10 + Digit[text[Max(S)]]
  BY <1>1, <1>5 DEF DecimalFold
<1>8. f[{}] = 0 BY <1>7
<1>9. ASSUME NEW k \in 1..n PROVE f[1..k] = f[1..(k - 1)] * 10 + Digit[text[k]]
  <2>1. /\ 1..k \in SUBSET (1..n) /\ 1..k # {} /\ Max(1..k) = k
        /\ (1..k) \ {Max(1..k)} = 1..(k - 1)
    BY <1>1, UpTo
  <2> QED BY <1>7, <2>1
<1> QED BY <1>1, <1>6, <1>8, <1>9 DEF n

\* The check in front of a digit refuses exactly the numbers beyond SIZE_MAX.
LEMMA OverflowsExactly ==
  ASSUME NEW v \in Nat, NEW d \in 0..9
  PROVE  Overflows(v, d) <=> v * 10 + d > SizeMax
<1>1. SizeMax \in Nat /\ 9 <= SizeMax BY CliAssumption
<1>2. SizeMax - d \in Nat BY <1>1
<1> DEFINE q == (SizeMax - d) \div 10
<1>3. q \in Nat /\ 10 * q <= SizeMax - d /\ SizeMax - d < 10 * q + 10 BY <1>2
<1>4. Overflows(v, d) <=> v > q BY DEF Overflows
<1> HIDE DEF q
<1> QED BY <1>1, <1>3, <1>4

\* It reads the number that the digits write, within size_t and limited to PTRDIFF_MAX, and
\* takes nothing else for one.
LEMMA SizeIsDecimal ==
  ASSUME NEW text \in Seq(Char)
  PROVE  LET size == ParseSize(text)
         IN  /\ size.ok <=> IsNumber(text) /\ Decimal(text) <= SizeMax
             /\ IsNumber(text) => Decimal(text) \in Nat
             /\ size.ok =>
                  size.value = IF Decimal(text) > PtrdiffMax THEN PtrdiffMax ELSE Decimal(text)
<1> DEFINE n == Len(text)
<1>1. n \in Nat /\ text \in [1..n -> Char] BY LenProperties
<1>2. PICK f :
        /\ f[{}] = [ok |-> text # <<>>, value |-> 0]
        /\ \A k \in 1..n : f[1..k] = AddDigit(f[1..(k - 1)], text[k])
        /\ ParseSize(text) =
             IF f[1..n].value > PtrdiffMax THEN [f[1..n] EXCEPT !.value = PtrdiffMax] ELSE f[1..n]
  BY SizeRun
<1>3. text = <<>> <=> n = 0 BY EmptySeq
<1>4. 1..0 = {} OBVIOUS
<1>5. NoSize.ok = FALSE BY DEF NoSize
<1> HIDE DEF n
<1>6. CASE text = <<>>
  <2>1. 1..n = {} BY <1>3, <1>6
  <2>2. f[{}].ok = (text # <<>>) BY <1>2
  <2>3. f[1..n].ok = FALSE BY <1>6, <2>1, <2>2
  <2>4. ParseSize(text).ok = FALSE BY <1>2, <2>3
  <2> QED BY <1>6, <2>4 DEF IsNumber
<1>7. CASE \E j \in 1..n : text[j] \notin DOMAIN Digit
  <2>1. PICK j \in 1..n : text[j] \notin DOMAIN Digit BY <1>7
  <2> DEFINE T == {k \in Nat : j <= k /\ k <= n /\ f[1..k].ok}
  <2>2. T = {}
    <3> SUFFICES ASSUME T # {} PROVE FALSE OBVIOUS
    <3>1. T \in SUBSET Nat OBVIOUS
    <3>2. PICK k \in T : \A i \in T : k <= i BY <3>1, LeastProperties
    <3>3. k \in 1..n /\ j <= k /\ f[1..k].ok BY <1>1, <3>2
    <3>4. f[1..k] = AddDigit(f[1..(k - 1)], text[k]) BY <1>2, <3>3
    <3>5. CASE k = j
      <4>1. f[1..k] = NoSize BY <2>1, <3>4, <3>5 DEF AddDigit
      <4> QED BY <1>5, <3>3, <4>1
    <3>6. CASE k # j
      <4>1. k - 1 \in Nat /\ j <= k - 1 /\ k - 1 <= n /\ ~(k <= k - 1) BY <1>1, <3>3, <3>6
      <4>2. ~f[1..(k - 1)].ok BY <3>2, <4>1
      <4>3. f[1..k] = NoSize BY <3>4, <4>2 DEF AddDigit
      <4> QED BY <1>5, <3>3, <4>3
    <3> QED BY <3>5, <3>6
  <2>3. ~f[1..n].ok BY <1>1, <2>2
  <2>4. ~ParseSize(text).ok BY <1>2, <2>3
  <2>5. ~IsNumber(text) BY <1>7 DEF IsNumber, n
  <2> QED BY <2>4, <2>5
<1>8. CASE text # <<>> /\ \A j \in 1..n : text[j] \in DOMAIN Digit
  <2>1. text \in Seq(DOMAIN Digit)
    <3>1. text \in [1..n -> DOMAIN Digit] BY <1>1, <1>8
    <3> QED BY <1>1, <3>1, SeqDef
  <2>2. PICK g :
          /\ g[{}] = 0 /\ Decimal(text) = g[1..n]
          /\ \A k \in 1..n : g[1..k] = g[1..(k - 1)] * 10 + Digit[text[k]]
    BY <2>1, DecimalRun DEF n
  <2>3. IsNumber(text) BY <1>8 DEF IsNumber, n
  <2> DEFINE Agree(k) ==
               /\ g[1..k] \in Nat /\ f[1..k] \in Size
               /\ f[1..k].ok <=> g[1..k] <= SizeMax
               /\ f[1..k].ok => f[1..k].value = g[1..k]
             T == {k \in Nat : k <= n /\ ~Agree(k)}
  <2>4. T = {}
    <3> SUFFICES ASSUME T # {} PROVE FALSE OBVIOUS
    <3>1. T \in SUBSET Nat OBVIOUS
    <3>2. PICK k \in T : \A i \in T : k <= i BY <3>1, LeastProperties
    <3>3. k \in Nat /\ k <= n /\ ~Agree(k) BY <3>2
    <3>4. CASE k = 0
      <4>1. g[1..k] = 0 /\ f[1..k] = [ok |-> TRUE, value |-> 0] BY <1>2, <1>4, <1>8, <2>2, <3>4
      <4>2. f[1..k] \in Size /\ f[1..k].ok /\ f[1..k].value = 0 BY <4>1 DEF Size
      <4>3. 0 <= SizeMax BY CliAssumption
      <4> QED BY <3>3, <4>1, <4>2, <4>3
    <3>5. CASE k # 0
      <4> DEFINE r == f[1..(k - 1)]
                 v == g[1..(k - 1)]
                 d == Digit[text[k]]
      <4>1. k - 1 \in Nat /\ k - 1 <= n /\ ~(k <= k - 1) /\ k \in 1..n BY <1>1, <3>3, <3>5
      <4>2. Agree(k - 1) BY <3>2, <4>1
      <4>3. text[k] \in DOMAIN Digit /\ d \in 0..9 BY <1>8, <4>1, CliAssumption
      <4>4. f[1..k] = AddDigit(r, text[k]) /\ g[1..k] = v * 10 + d BY <1>2, <2>2, <4>1
      <4>5. /\ v \in Nat /\ r \in Size /\ (r.ok <=> v <= SizeMax) /\ (r.ok => r.value = v)
        BY <4>2
      <4> HIDE DEF r, v, d, Agree
      <4>6. SizeMax \in Nat BY CliAssumption
      <4>7. f[1..k] \in Size BY <4>4, <4>5, AddDigitType
      <4>8. g[1..k] \in Nat BY <4>3, <4>4, <4>5
      <4>9. CASE ~r.ok
        <5>1. f[1..k] = NoSize BY <4>4, <4>9 DEF AddDigit
        <5>2. g[1..k] > SizeMax BY <4>3, <4>4, <4>5, <4>6, <4>9
        <5> QED BY <1>5, <3>3, <4>6, <4>7, <4>8, <5>1, <5>2 DEF Agree
      <4>10. CASE r.ok /\ v * 10 + d > SizeMax
        <5>1. Overflows(r.value, d) BY <4>3, <4>5, <4>10, OverflowsExactly
        <5>2. f[1..k] = NoSize BY <4>3, <4>4, <4>10, <5>1 DEF AddDigit, d
        <5> QED BY <1>5, <3>3, <4>4, <4>6, <4>7, <4>8, <4>10, <5>2 DEF Agree
      <4>11. CASE r.ok /\ ~(v * 10 + d > SizeMax)
        <5>1. ~Overflows(r.value, d) BY <4>3, <4>5, <4>11, OverflowsExactly
        <5>2. f[1..k] = [r EXCEPT !.value = r.value * 10 + d]
          BY <4>3, <4>4, <4>11, <5>1 DEF AddDigit, d
        <5>3. f[1..k].ok /\ f[1..k].value = v * 10 + d BY <4>5, <4>11, <5>2 DEF Size
        <5> QED BY <3>3, <4>4, <4>6, <4>7, <4>8, <4>11, <5>3 DEF Agree
      <4> QED BY <4>9, <4>10, <4>11
    <3> QED BY <3>4, <3>5
  <2>5. Agree(n) BY <1>1, <2>4
  <2>6. /\ f[1..n] \in Size /\ Decimal(text) \in Nat
        /\ f[1..n].ok <=> Decimal(text) <= SizeMax
        /\ f[1..n].ok => f[1..n].value = Decimal(text)
    BY <2>2, <2>5
  <2> HIDE DEF Agree
  <2>7. ParseSize(text).ok <=> f[1..n].ok BY <1>2, <2>6 DEF Size
  <2>8. ParseSize(text).ok =>
          ParseSize(text).value = IF Decimal(text) > PtrdiffMax THEN PtrdiffMax ELSE Decimal(text)
    BY <1>2, <2>6, <2>7 DEF Size
  <2> QED BY <2>3, <2>6, <2>7, <2>8
<1> QED BY <1>6, <1>7, <1>8

\* A width option stores the number that its text writes, or records what is wrong with it.
LEMMA TakeWidthReads ==
  ASSUME NEW text \in Seq(Char), TakeWidth(text)
  PROVE  IF WidthFault(text) = "none"
         THEN width' = Decimal(text) /\ error' = error
         ELSE width' = width /\ error' = FirstError(WidthFault(text))
<1> DEFINE size == ParseSize(text)
           d == Decimal(text)
<1>1. /\ size.ok <=> IsNumber(text) /\ d <= SizeMax
      /\ IsNumber(text) => d \in Nat
      /\ size.ok => size.value = IF d > PtrdiffMax THEN PtrdiffMax ELSE d
  BY SizeIsDecimal
<1>2. /\ ColumnMax \in Nat /\ PtrdiffMax \in Nat /\ ColumnMax < PtrdiffMax /\ SizeMax \in Nat
  BY CliAssumption
<1>3. WidthFault(text) = IF ~IsNumber(text) \/ d \notin 1..SizeMax THEN "invalid"
                         ELSE IF d > ColumnMax THEN "too_wide" ELSE "none"
  BY DEF WidthFault
<1> HIDE DEF size, d
<1>4. CASE ~size.ok \/ size.value = 0
  <2>1. ~IsNumber(text) \/ d \notin 1..SizeMax BY <1>1, <1>2, <1>4
  <2>2. WidthFault(text) = "invalid" BY <1>3, <2>1
  <2>3. error' = FirstError("invalid") /\ width' = width BY <1>2, <1>4 DEF TakeWidth, size
  <2> QED BY <2>2, <2>3
<1>5. CASE size.ok /\ size.value # 0 /\ size.value > ColumnMax
  <2>1. IsNumber(text) /\ d \in 1..SizeMax /\ d > ColumnMax BY <1>1, <1>2, <1>5
  <2>2. WidthFault(text) = "too_wide" BY <1>3, <2>1
  <2> QED BY <1>5, <2>2 DEF TakeWidth, size
<1>6. CASE size.ok /\ size.value # 0 /\ ~(size.value > ColumnMax)
  <2>1. IsNumber(text) /\ d \in 1..SizeMax /\ ~(d > ColumnMax) /\ size.value = d BY <1>1, <1>2, <1>6
  <2>2. WidthFault(text) = "none" BY <1>3, <2>1
  <2> QED BY <1>6, <2>1, <2>2 DEF TakeWidth, size, d
<1> QED BY <1>4, <1>5, <1>6


-----------------------------------------------------------------------------
(* What cli_parse hands on *)

\* Without an error the input is standard input alone or files alone.
OneInput ==
  IF isStdin THEN paths = <<>>
  ELSE paths # <<>> /\ \A k \in 1..Len(paths) : args[paths[k]] # Dash

OutcomeInv ==
  /\ width \in 1..ColumnMax
  /\ pc = "resolve" /\ error = "none" => OneInput
  /\ pc \in {"dispatch", "wrap"} /\ action = "run" => OneInput /\ Conflict = "none"
  /\ pc = "wrap" => action = "run"

\* A width is stored only when it is a number within the limit.
LEMMA TakeWidthBounds ==
  ASSUME NEW text \in Seq(Char), width \in 1..ColumnMax, TakeWidth(text)
  PROVE  width' \in 1..ColumnMax
<1> DEFINE size == ParseSize(text)
<1>1. size.value \in Nat BY ParseSizeType
<1>2. \/ width' = width
      \/ width' = size.value /\ size.value # 0 /\ ~(size.value > ColumnMax)
  <2> HIDE DEF size
  <2>1. CASE ~size.ok \/ size.value = 0 BY <2>1 DEF TakeWidth, size
  <2>2. CASE size.ok /\ size.value # 0 /\ size.value > ColumnMax BY <2>2 DEF TakeWidth, size
  <2>3. CASE size.ok /\ size.value # 0 /\ ~(size.value > ColumnMax) BY <2>3 DEF TakeWidth, size
  <2> QED BY <2>1, <2>2, <2>3
<1> QED BY <1>1, <1>2, CliAssumption

\* A turn has left argv[0] behind.
LEMMA AtElement == ASSUME IInv, pc = "options" PROVE Opt.idx >= 1
<1>1. /\ Opt.idx \in Nat /\ copt.idx \in Nat /\ Opt.subidx \in Nat /\ copt.subidx \in Nat
      /\ GroupInv(Opt)
  BY TurnFacts DEF IInv, CoptInv, ArgvInv
<1>2. CASE Opt.idx > copt.idx BY <1>1, <1>2
<1>3. CASE Opt.subidx > copt.subidx
  <2>1. Opt.subidx > 0 BY <1>1, <1>3
  <2> QED BY <1>1, <2>1 DEF GroupInv
<1> QED BY <1>2, <1>3, TurnFacts

\* The text behind the letter or the equals sign.
LEMMA InlineType ==
  ASSUME ArgsOK, ArgvInv(Opt), NEW k \in 1..Argc(Opt), k = Opt.idx, HasInline
  PROVE  Inline \in Seq(Char)
<1> DEFINE from == IF Opt.subidx = 0 THEN Least(Equals) + 1
                   ELSE IF Element[Opt.subidx + 2] = "=" THEN Opt.subidx + 3
                   ELSE Opt.subidx + 2
<1>1. Element \in Seq(Char) /\ Len(Element) \in Nat BY ElementLen DEF Element
<1>2. Opt.subidx \in Nat BY DEF ArgvInv
<1>3. from \in Nat /\ from >= 1
  <2>1. CASE Opt.subidx = 0
    <3>1. Equals # {} BY <2>1 DEF HasInline
    <3>2. Equals \in SUBSET Nat /\ \A m \in Equals : m >= 1 BY <1>1 DEF Equals
    <3>3. Least(Equals) \in Equals BY <3>1, <3>2, LeastProperties
    <3>4. Least(Equals) \in Nat /\ Least(Equals) >= 1 BY <3>2, <3>3
    <3>5. Least(Equals) + 1 \in Nat /\ Least(Equals) + 1 >= 1 BY <3>4
    <3> QED BY <2>1, <3>5
  <2>2. CASE Opt.subidx # 0 BY <1>2, <2>2
  <2> QED BY <2>1, <2>2
<1> HIDE DEF from
<1>4. \A m \in from..Len(Element) : Element[m] \in Char
  <2> TAKE m \in from..Len(Element)
  <2>1. m \in 1..Len(Element) BY <1>1, <1>3
  <2> QED BY <1>1, <2>1, ElementOfSeq
<1>5. SubSeq(Element, from, Len(Element)) \in Seq(Char) BY <1>1, <1>3, <1>4, SubSeqProperties
<1> QED BY <1>5 DEF Inline, from

LEMMA WidthStep ==
  ASSUME IInv, ReadWidth, width \in 1..ColumnMax
  PROVE  width' \in 1..ColumnMax
<1>1. /\ ArgvInv(Opt) /\ Opt.idx <= Argc(Opt) /\ Behind(Opt)
      /\ ArgsOK /\ Argc(Opt) \in Nat /\ Opt.idx \in Nat
      /\ args' = args
  BY TurnFacts, LenProperties DEF ReadWidth, Turn, IInv, ArgvInv, ArgsOK
<1>2. CASE HasInline
  <2>1. TakeWidth(Inline) BY <1>2 DEF ReadWidth
  <2>2. Opt.idx >= 1 BY AtElement DEF ReadWidth, Turn
  <2>3. Opt.idx \in 1..Argc(Opt) BY <1>1, <2>2
  <2>4. Inline \in Seq(Char) BY <1>1, <1>2, <2>3, InlineType
  <2> QED BY <2>1, <2>4, TakeWidthBounds
<1>3. CASE ~HasInline /\ HasNext
  <2>1. TakeWidth(Arg(copt', copt'.idx)) /\ copt' = [Leave(ArgBroughtBack(Opt)) EXCEPT !.idx = @ + 1]
    BY <1>3 DEF ReadWidth
  <2>2. Opt.argidx <= Argc(Opt) BY <1>3 DEF HasNext
  <2>3. CoptInv(copt') /\ copt'.idx <= Argc(copt') /\ copt'.idx = Opt.idx + 1
    BY <1>1, <2>1, <2>2, ArgTakenKeeps
  <2>4. copt'.idx \in 1..Argc(copt')
    <3>1. Argc(copt') \in Nat BY <1>1, <2>3, LenProperties DEF CoptInv, ArgvInv, ArgsOK
    <3> QED BY <1>1, <2>3, <3>1
  <2>5. Arg(copt', copt'.idx) \in Seq(Char) BY <1>1, <2>3, <2>4, ElementLen DEF CoptInv
  <2> QED BY <2>1, <2>5, TakeWidthBounds
<1>4. CASE ~HasInline /\ ~HasNext BY <1>4 DEF ReadWidth
<1> QED BY <1>2, <1>3, <1>4

\* cli_parse_paths takes standard input or files, or records an error.
LEMMA TakePathsOutcome ==
  ASSUME IInv, TakePaths, error' = "none"
  PROVE  OneInput'
<1> DEFINE rest == SubSeq(copt.argv, copt.idx, Argc(copt))
           D == {k \in 1..Len(rest) : args[rest[k]] = Dash}
           isDash == Len(rest) = 1 /\ Cardinality(D) = 1
<1>1. /\ isStdin' = (rest = <<>> \/ isDash)
      /\ paths' = IF isDash THEN <<>> ELSE rest
      /\ error' = IF Cardinality(D) > 1 THEN FirstError("stdin_twice")
                  ELSE IF Cardinality(D) = 1 /\ ~isDash THEN FirstError("stdin_and_files")
                  ELSE error
      /\ args' = args
  BY DEF TakePaths
<1>2. FirstError("stdin_twice") # "none" /\ FirstError("stdin_and_files") # "none"
  BY DEF FirstError
<1>3. ~(Cardinality(D) > 1) /\ (Cardinality(D) = 1 => isDash) BY <1>1, <1>2
<1>4. IsFiniteSet(D) /\ Cardinality(D) \in Nat
  <2>1. Len(rest) \in Nat
    <3>1. copt.argv \in Seq(Elements) BY DEF IInv, CoptInv, ArgvInv
    <3>2. copt.idx \in Nat /\ Argc(copt) \in Nat BY <3>1, LenProperties DEF IInv, CoptInv, ArgvInv, Argc
    <3> DEFINE R == {copt.argv[k] : k \in copt.idx..Argc(copt)}
    <3>3. \A k \in copt.idx..Argc(copt) : copt.argv[k] \in R OBVIOUS
    <3>4. rest \in Seq(R)
      <4> HIDE DEF R
      <4> QED BY <3>2, <3>3, SubSeqProperties
    <3> QED BY <3>4, LenProperties
  <2>2. IsFiniteSet(1..Len(rest))
    <3> HIDE DEF rest
    <3>1. 1 \in Int /\ Len(rest) \in Int BY <2>1
    <3> QED BY <3>1, FS_Interval
  <2>3. IsFiniteSet(D) BY <2>2, FS_Subset
  <2> QED BY <2>3, FS_CardinalityType
<1> HIDE DEF rest
<1>5. CASE isDash BY <1>1, <1>5 DEF OneInput
<1>6. CASE ~isDash
  <2>1. Cardinality(D) = 0 BY <1>3, <1>4, <1>6
  <2>2. D = {} BY <1>4, <2>1, FS_EmptySet
  <2> QED BY <1>1, <1>6, <2>2 DEF OneInput
<1> QED BY <1>5, <1>6


LEMMA OutcomeInit == Init => OutcomeInv
BY CliAssumption DEF Init, OutcomeInv

LEMMA OutcomeStep == ASSUME IInv, OutcomeInv, [Next]_vars PROVE OutcomeInv'
<1> USE DEF OutcomeInv, OneInput
<1>1. CASE UNCHANGED vars BY <1>1 DEF vars, Conflict
<1>2. ASSUME NEW f \in DOMAIN Spelling, ReadFlag(f) PROVE OutcomeInv'
  BY <1>2 DEF ReadFlag, Turn
<1>3. CASE ReadWidth
  <2>1. width' \in 1..ColumnMax BY <1>3, WidthStep
  <2>2. pc' = "options" BY <1>3 DEF ReadWidth, Turn
  <2> QED BY <2>1, <2>2
<1>4. CASE ReadUnknown BY <1>4 DEF ReadUnknown, Turn
<1>5. CASE EndOptions BY <1>5 DEF EndOptions
<1>6. CASE TakePaths
  <2>1. pc' = "resolve" /\ width' = width BY <1>6 DEF TakePaths
  <2>2. error' = "none" => OneInput' BY <1>6, TakePathsOutcome
  <2> QED BY <2>1, <2>2
<1>7. CASE Resolve
  <2>1. pc = "resolve" /\ pc' = "dispatch" /\ UNCHANGED <<width, paths, isStdin, args, flags>>
    BY <1>7 DEF Resolve
  <2>2. action' = "run" => error = "none" /\ Conflict = "none"
    <3>1. CASE flags \cap {"version", "help"} # {} BY <1>7, <3>1 DEF Resolve
    <3>2. CASE flags \cap {"version", "help"} = {}
      <4>1. /\ error' = IF error = "none" THEN Conflict ELSE error
            /\ action' = IF error' = "none" THEN "run" ELSE "error"
        BY <1>7, <3>2 DEF Resolve, FirstError
      <4> QED BY <4>1
    <3> QED BY <3>1, <3>2
  <2> QED BY <2>1, <2>2 DEF Conflict
<1>8. CASE Dispatch
  <2>1. /\ pc = "dispatch" /\ pc' \in {"wrap", "end"} /\ (pc' = "wrap" => action = "run")
        /\ UNCHANGED <<args, flags, width, error, paths, isStdin, action>>
    BY <1>8 DEF Dispatch
  <2> QED BY <2>1 DEF Conflict
<1> QED BY <1>1, <1>2, <1>3, <1>4, <1>5, <1>6, <1>7, <1>8 DEF Next

\* For every command line the wrap command starts with an input, a mode and a width it
\* takes.
THEOREM RunsWhatWrapTakesHolds == Spec => []RunsWhatWrapTakes
<1>1. OutcomeInv => RunsWhatWrapTakes
  <2> SUFFICES ASSUME OutcomeInv, pc = "wrap" PROVE RunsWhatWrapTakes
    BY DEF RunsWhatWrapTakes
  <2>1. OneInput /\ Conflict = "none" /\ width \in 1..ColumnMax BY DEF OutcomeInv
  <2>2. ~({"check", "in_place"} \subseteq flags) /\ ~(isStdin /\ "in_place" \in flags)
    BY <2>1 DEF Conflict
  <2> QED BY <2>1, <2>2 DEF RunsWhatWrapTakes, OneInput
<1>2. Init /\ [][Next]_vars /\ []IInv => []OutcomeInv
  <2>1. OutcomeInv /\ IInv /\ [Next]_vars => OutcomeInv' BY OutcomeStep
  <2> QED BY <2>1, OutcomeInit, PTL
<1> QED BY <1>1, <1>2, Invariance, PTL DEF Spec


-----------------------------------------------------------------------------
(* The places of a command line *)

LEMMA FirstEqualsFacts ==
  ASSUME NEW e \in Seq(Char)
  PROVE  LET at == {k \in 1..Len(e) : e[k] = "="}
         IN  /\ FirstEquals(e) \in 1..(Len(e) + 1)
             /\ FirstEquals(e) <= Len(e) <=> at # {}
             /\ at # {} => FirstEquals(e) = Least(at) /\ FirstEquals(e) \in at
<1> DEFINE at == {k \in 1..Len(e) : e[k] = "="}
           all == at \cup {Len(e) + 1}
<1>1. Len(e) \in Nat BY LenProperties
<1>2. all \in SUBSET Nat /\ all # {} /\ at \in SUBSET Nat BY <1>1
<1>3. Least(all) \in all /\ \A y \in all : Least(all) <= y BY <1>2, LeastProperties
<1>4. FirstEquals(e) = Least(all) BY DEF FirstEquals
<1>5. CASE at = {} BY <1>1, <1>3, <1>4, <1>5
<1>6. CASE at # {}
  <2>1. Least(at) \in at /\ \A y \in at : Least(at) <= y BY <1>2, <1>6, LeastProperties
  <2>2. at \in SUBSET (1..Len(e)) OBVIOUS
  <2> HIDE DEF at
  <2>3. PICK v : v = Least(at) OBVIOUS
  <2>4. PICK w : w = Least(all) OBVIOUS
  <2>5. v \in at /\ v \in 1..Len(e) /\ \A y \in at : v <= y BY <2>1, <2>2, <2>3
  <2>6. w \in all /\ w <= v
    <3>1. v \in all BY <2>5
    <3> HIDE DEF all
    <3> QED BY <1>3, <2>4, <3>1
  <2>7. w \in at BY <1>1, <2>2, <2>5, <2>6
  <2>8. v <= w /\ w \in 1..Len(e) BY <2>2, <2>5, <2>7
  <2>9. v = w BY <2>5, <2>6, <2>8
  <2> QED BY <1>1, <1>4, <1>6, <2>3, <2>4, <2>5, <2>9 DEF at
<1> QED BY <1>5, <1>6

LEMMA LastLetterFacts ==
  ASSUME NEW e \in Seq(Char), Len(e) >= 2
  PROVE  /\ LastLetter(e) \in 2..Len(e)
         /\ LastLetter(e) < Len(e) => TakesRest(e, LastLetter(e))
         /\ \A p \in 2..Len(e) : TakesRest(e, p) => LastLetter(e) <= p
<1> DEFINE S == {k \in 2..Len(e) : TakesRest(e, k)} \cup {Len(e)}
<1>1. Len(e) \in Nat BY LenProperties
<1>2. S \in SUBSET Nat /\ S # {} BY <1>1
<1>3. Least(S) \in S /\ \A y \in S : Least(S) <= y BY <1>2, LeastProperties
<1>4. LastLetter(e) = Least(S) BY DEF LastLetter
<1> QED BY <1>1, <1>3, <1>4

\* A short option's places are its letters up to the one that takes the rest.
LEMMA NamePlacesBounds ==
  ASSUME NEW e \in Seq(Char), IsOption(e), NEW p \in NamePlaces(e)
  PROVE  IF IsLong(e) THEN p = 3 ELSE p \in 2..LastLetter(e) /\ p \in 2..Len(e)
<1>1. Len(e) \in Nat /\ Len(e) >= 2 BY LenProperties DEF IsOption
<1>2. LastLetter(e) \in 2..Len(e) BY <1>1, LastLetterFacts
<1> QED BY <1>1, <1>2 DEF NamePlaces

LEMMA ElementIs == ASSUME ArgsOK, NEW k \in Elements PROVE args[k] \in Seq(Char) /\ k \in Nat
BY ElementOfSeq, LenProperties DEF ArgsOK, Elements

LEMMA PlaceIs ==
  ASSUME NEW k \in Elements, NEW p
  PROVE  <<k, p>> \in Places <=> IsOptionAt(k) /\ p \in NamePlaces(args[k])
<1>1. ASSUME IsOptionAt(k), p \in NamePlaces(args[k]) PROVE <<k, p>> \in Places
  <2>1. k \in {j \in 1..Len(args) : IsOptionAt(j)} BY <1>1 DEF Elements
  <2>2. <<k, p>> \in {k} \X NamePlaces(args[k]) BY <1>1
  <2> QED BY <2>1, <2>2 DEF Places
<1>2. ASSUME <<k, p>> \in Places PROVE IsOptionAt(k) /\ p \in NamePlaces(args[k])
  <2>1. PICK j \in {i \in 1..Len(args) : IsOptionAt(i)} : <<k, p>> \in {j} \X NamePlaces(args[j])
    BY <1>2 DEF Places
  <2>2. k = j /\ p \in NamePlaces(args[j]) BY <2>1
  <2> QED BY <2>1, <2>2
<1> QED BY <1>1, <1>2

LEMMA PlaceParts ==
  ASSUME ArgsOK, NEW x \in Places
  PROVE  /\ x = <<x[1], x[2]>> /\ x[1] \in Elements /\ x[1] \in Nat /\ x[2] \in Nat
         /\ IsOptionAt(x[1]) /\ x[2] \in NamePlaces(args[x[1]])
<1>1. PICK k \in {i \in 1..Len(args) : IsOptionAt(i)} : x \in {k} \X NamePlaces(args[k])
  BY DEF Places
<1>2. x = <<x[1], x[2]>> /\ x[1] = k /\ x[2] \in NamePlaces(args[k]) BY <1>1
<1>3. k \in Elements /\ IsOptionAt(k) BY <1>1 DEF Elements
<1>4. args[k] \in Seq(Char) /\ k \in Nat BY <1>3, ElementIs
<1>5. x[2] \in Nat
  <2>1. IF IsLong(args[k]) THEN x[2] = 3
        ELSE x[2] \in 2..LastLetter(args[k]) /\ x[2] \in 2..Len(args[k])
    BY <1>2, <1>3, <1>4, NamePlacesBounds DEF IsOptionAt
  <2> QED BY <1>4, <2>1
<1> QED BY <1>2, <1>3, <1>4, <1>5

\* One place of a set comes before the others.
LEMMA FirstOfIsFirst ==
  ASSUME ArgsOK, NEW S \in SUBSET Places, S # {}
  PROVE  FirstOf(S) \in S /\ \A y \in S : y = FirstOf(S) \/ Before(FirstOf(S), y)
<1> DEFINE E == {x[1] : x \in S}
           k == Least(E)
           P == {p \in Nat : <<k, p>> \in S}
           first == <<k, Least(P)>>
<1>1. \A x \in S : x = <<x[1], x[2]>> /\ x[1] \in Nat /\ x[2] \in Nat BY PlaceParts
<1>2. k \in E /\ \A j \in E : k <= j
  <2>1. E \in SUBSET Nat /\ E # {} BY <1>1
  <2> HIDE DEF E
  <2> QED BY <2>1, LeastProperties
<1>3. PICK z \in S : z[1] = k BY <1>2
<1>4. z[2] \in P /\ k \in Nat BY <1>1, <1>3
<1> HIDE DEF k
<1>5. Least(P) \in P /\ \A p \in P : Least(P) <= p
  <2>1. P \in SUBSET Nat /\ P # {} BY <1>4
  <2> HIDE DEF P
  <2> QED BY <2>1, LeastProperties
<1>6. PICK q : q = Least(P) OBVIOUS
<1>7. q \in Nat /\ <<k, q>> \in S /\ \A p \in P : q <= p BY <1>5, <1>6
<1>8. \A y \in S : y = <<k, q>> \/ Before(<<k, q>>, y)
  <2> TAKE y \in S
  <2>1. y = <<y[1], y[2]>> /\ y[1] \in Nat /\ y[2] \in Nat /\ k <= y[1] BY <1>1, <1>2
  <2>2. CASE y[1] = k
    <3>1. y[2] \in P BY <2>1, <2>2
    <3>2. q <= y[2] BY <1>7, <3>1
    <3> QED BY <1>7, <2>1, <2>2, <3>2 DEF Before
  <2>3. CASE y[1] # k BY <1>4, <2>1, <2>3 DEF Before
  <2> QED BY <2>2, <2>3
<1> QED BY <1>7, <1>8 DEF FirstOf

\* A place behind all of a set is its last, and leaves the first one it has.
LEMMA AddedBehind ==
  ASSUME ArgsOK, NEW S \in SUBSET Places, NEW x \in Places, \A y \in S : Before(y, x)
  PROVE  /\ LastOf(S \cup {x}) = x
         /\ FirstOf(S \cup {x}) = IF S = {} THEN x ELSE FirstOf(S)
<1> DEFINE U == S \cup {x}
<1>1. \A y \in U : y = <<y[1], y[2]>> /\ y[1] \in Nat /\ y[2] \in Nat BY PlaceParts
<1>2. \A y, z \in U : ~(Before(y, z) /\ Before(z, y))
  <2> TAKE y, z \in U
  <2> QED BY <1>1 DEF Before
<1>3. LastOf(U) = x
  <2>1. x \in U /\ \A y \in U : y = x \/ Before(y, x) OBVIOUS
  <2>2. ASSUME NEW w \in U, \A y \in U : y = w \/ Before(y, w) PROVE w = x
    BY <1>2, <2>1, <2>2
  <2> HIDE DEF U
  <2>3. LastOf(U) \in U /\ \A y \in U : y = LastOf(U) \/ Before(y, LastOf(U)) BY <2>1 DEF LastOf
  <2> QED BY <2>2, <2>3
<1>4. FirstOf(U) = IF S = {} THEN x ELSE FirstOf(S)
  <2>1. U \in SUBSET Places /\ U # {} OBVIOUS
  <2>2. FirstOf(U) \in U /\ \A y \in U : y = FirstOf(U) \/ Before(FirstOf(U), y)
    BY <2>1, FirstOfIsFirst
  <2>3. CASE S = {} BY <2>2, <2>3
  <2>4. CASE S # {}
    <3>1. FirstOf(S) \in S /\ \A y \in S : y = FirstOf(S) \/ Before(FirstOf(S), y)
      BY <2>4, FirstOfIsFirst
    <3>2. PICK w : w = FirstOf(S) OBVIOUS
    <3>3. PICK v : v = FirstOf(U) OBVIOUS
    <3>4. w \in S /\ \A y \in U : y = w \/ Before(w, y) BY <3>1, <3>2
    <3>5. v = w BY <1>2, <2>2, <3>3, <3>4
    <3> QED BY <2>4, <3>2, <3>3, <3>5
  <2> QED BY <2>3, <2>4
<1> QED BY <1>3, <1>4

\* What a further place adds to what has been read.
LEMMA ReadOneMore ==
  ASSUME ArgsOK, NEW S \in SUBSET Places, NEW x \in Places, \A y \in S : Before(y, x)
  PROVE  /\ FlagsIn(S \cup {x}) =
              FlagsIn(S) \cup {f \in DOMAIN Spelling : NameAt(x) \in Spelling[f] /\ Fault(x) = "none"}
         /\ WidthIn(S \cup {x}) =
              IF NameAt(x) \in WidthSpelling /\ Fault(x) = "none" THEN Decimal(Value(x))
              ELSE WidthIn(S)
         /\ ErrorIn(S \cup {x}) = IF ErrorIn(S) = "none" THEN Fault(x) ELSE ErrorIn(S)
<1>1. FlagsIn(S \cup {x}) =
        FlagsIn(S) \cup {f \in DOMAIN Spelling : NameAt(x) \in Spelling[f] /\ Fault(x) = "none"}
  BY DEF FlagsIn
<1>2. WidthIn(S \cup {x}) =
        IF NameAt(x) \in WidthSpelling /\ Fault(x) = "none" THEN Decimal(Value(x)) ELSE WidthIn(S)
  <2>1. CASE NameAt(x) \in WidthSpelling /\ Fault(x) = "none"
    <3>1. WidthsIn(S \cup {x}) = WidthsIn(S) \cup {x} BY <2>1 DEF WidthsIn
    <3>2. WidthsIn(S) \in SUBSET Places /\ \A y \in WidthsIn(S) : Before(y, x) BY DEF WidthsIn
    <3>3. LastOf(WidthsIn(S) \cup {x}) = x BY <3>2, AddedBehind
    <3>4. WidthsIn(S \cup {x}) # {} BY <3>1
    <3> QED BY <2>1, <3>1, <3>3, <3>4 DEF WidthIn
  <2>2. CASE ~(NameAt(x) \in WidthSpelling /\ Fault(x) = "none")
    <3>1. WidthsIn(S \cup {x}) = WidthsIn(S) BY <2>2 DEF WidthsIn
    <3> QED BY <2>2, <3>1 DEF WidthIn
  <2> QED BY <2>1, <2>2
<1>3. ErrorIn(S \cup {x}) = IF ErrorIn(S) = "none" THEN Fault(x) ELSE ErrorIn(S)
  <2>0. FaultsIn(S) \in SUBSET Places /\ \A y \in FaultsIn(S) : Before(y, x) /\ Fault(y) # "none"
    BY DEF FaultsIn
  <2>1. CASE FaultsIn(S) = {}
    <3>1. ErrorIn(S) = "none" BY <2>1 DEF ErrorIn
    <3>2. CASE Fault(x) = "none"
      <4>1. FaultsIn(S \cup {x}) = {} BY <2>1, <3>2 DEF FaultsIn
      <4> QED BY <3>1, <3>2, <4>1 DEF ErrorIn
    <3>3. CASE Fault(x) # "none"
      <4>1. FaultsIn(S \cup {x}) = FaultsIn(S) \cup {x} BY <3>3 DEF FaultsIn
      <4>2. FirstOf(FaultsIn(S) \cup {x}) = x BY <2>0, <2>1, AddedBehind
      <4>3. FaultsIn(S \cup {x}) # {} BY <4>1
      <4> QED BY <3>1, <4>1, <4>2, <4>3 DEF ErrorIn
    <3> QED BY <3>2, <3>3
  <2>2. CASE FaultsIn(S) # {}
    <3>1. FirstOf(FaultsIn(S)) \in FaultsIn(S) BY <2>0, <2>2, FirstOfIsFirst
    <3>2. ErrorIn(S) = Fault(FirstOf(FaultsIn(S))) /\ ErrorIn(S) # "none"
      BY <2>0, <2>2, <3>1 DEF ErrorIn
    <3>3. FaultsIn(S \cup {x}) = FaultsIn(S) \/ FaultsIn(S \cup {x}) = FaultsIn(S) \cup {x}
      BY DEF FaultsIn
    <3>4. FirstOf(FaultsIn(S) \cup {x}) = FirstOf(FaultsIn(S)) BY <2>0, <2>2, AddedBehind
    <3>5. FaultsIn(S \cup {x}) # {} /\ FirstOf(FaultsIn(S \cup {x})) = FirstOf(FaultsIn(S))
      BY <2>2, <3>3, <3>4
    <3>6. ErrorIn(S \cup {x}) = Fault(FirstOf(FaultsIn(S))) BY <3>5 DEF ErrorIn
    <3> QED BY <3>2, <3>6
  <2> QED BY <2>1, <2>2
<1> QED BY <1>1, <1>2, <1>3

-----------------------------------------------------------------------------
(* Options are read in the order of the command line *)

\* The options read are in order and come before those that are not, and "--" has not been
\* met.
OptionsFollow(o) ==
  \A j, k \in 1..Argc(o) :
    j <= o.idx /\ j < k /\ IsOption(Arg(o, j)) /\ IsOption(Arg(o, k)) => o.argv[j] < o.argv[k]
NoDashDash(o) == \A j \in 1..Argc(o) : j <= o.idx => Arg(o, j) # DashDash

\* An element passed that is no option stood behind one, which took it.
TakenFollow(o, last) ==
  \A j \in 1..Argc(o) :
    j <= last /\ ~IsOption(Arg(o, j)) =>
      /\ IsTaken(o.argv[j])
      /\ \E i \in 1..Argc(o) :
           i <= last /\ IsOption(Arg(o, i)) /\ o.argv[j] = o.argv[i] + 1

\* What argidx says of the element that the command line has behind the option.
NextIs(o) ==
  IF o.argidx <= Argc(o) THEN o.argv[o.argidx] = o.argv[o.idx] + 1
  ELSE o.argv[o.idx] + 1 <= Len(args) => IsOption(args[o.argv[o.idx] + 1])

\* A permutation of the elements has each of them somewhere.
LEMMA ArgvOnto ==
  ASSUME ArgsOK, NEW o, ArgvInv(o), NEW x \in Elements
  PROVE  \E k \in 1..Argc(o) : o.argv[k] = x
<1> DEFINE n == Len(args)
<1>1. n \in Nat BY LenProperties DEF ArgsOK
<1>2. o.argv \in Seq(Elements) /\ Len(o.argv) = n /\ Injective(o.argv) /\ Argc(o) = n
  BY DEF ArgvInv, Argc
<1>3. o.argv \in [1..n -> Elements] BY <1>2, LenProperties
<1>4. o.argv \in Injection(1..n, 1..n)
  BY <1>2, <1>3 DEF Injective, Injection, IsInjective, Elements
<1>5. IsFiniteSet(1..n)
  <2>1. 1 \in Int /\ n \in Int BY <1>1
  <2> HIDE DEF n
  <2> QED BY <2>1, FS_Interval
<1>6. o.argv \in Surjection(1..n, 1..n)
  <2> HIDE DEF n
  <2> QED BY <1>4, <1>5, FS_Injection
<1> QED BY <1>2, <1>6 DEF Surjection, Elements

LEMMA OptionsEndFacts ==
  ASSUME ArgsOK
  PROVE  /\ OptionsEnd \in 1..(Len(args) + 1)
         /\ OptionsEnd <= Len(args) => args[OptionsEnd] = DashDash
         /\ \A k \in 1..Len(args) : args[k] = DashDash => OptionsEnd <= k
<1> DEFINE S == {k \in 1..Len(args) : args[k] = DashDash} \cup {Len(args) + 1}
<1>1. Len(args) \in Nat BY LenProperties DEF ArgsOK
<1>2. S \in SUBSET Nat /\ S # {} BY <1>1
<1>3. Least(S) \in S /\ \A y \in S : Least(S) <= y BY <1>2, LeastProperties
<1>4. OptionsEnd = Least(S) BY DEF OptionsEnd
<1> QED BY <1>1, <1>3, <1>4


\* The element behind an option still to be read stands behind it still.
LEMMA StandsBehind ==
  ASSUME ArgsOK, NEW o, ArgvInv(o), SortedBehind(o.argv, o.idx - 1), o.idx >= 1,
         \A j, k \in 1..Argc(o) :
           j < o.idx /\ j < k /\ IsOption(Arg(o, j)) /\ IsOption(Arg(o, k))
           => o.argv[j] < o.argv[k],
         TakenFollow(o, o.idx - 1),
         NEW at \in 1..Argc(o), o.idx <= at, IsOption(Arg(o, at)), o.argv[at] + 1 <= Len(args)
  PROVE  at < Argc(o) /\ o.argv[at + 1] = o.argv[at] + 1
<1> DEFINE x == o.argv[at]
<1>0. /\ Argc(o) = Len(args) /\ Len(args) \in Nat /\ o.idx \in Nat /\ Len(o.argv) = Len(args)
      /\ \A k \in 1..Argc(o) : o.argv[k] \in Nat /\ o.argv[k] <= Len(args) /\ o.argv[k] >= 1
  <2>1. /\ Argc(o) = Len(args) /\ Len(args) \in Nat /\ o.idx \in Nat /\ Len(o.argv) = Len(args)
    BY LenProperties DEF ArgvInv, ArgsOK, Argc
  <2>2. \A k \in 1..Argc(o) : o.argv[k] \in Elements BY ElementLen
  <2> QED BY <2>1, <2>2 DEF Elements
<1>1. x + 1 \in Elements BY <1>0 DEF Elements
<1>2. PICK m \in 1..Argc(o) : o.argv[m] = x + 1 BY <1>1, ArgvOnto
<1>3. m >= o.idx
  <2> SUFFICES ASSUME m < o.idx PROVE FALSE BY <1>0
  <2>1. CASE IsOption(Arg(o, m))
    <3>1. m < at BY <1>0
    <3>2. o.argv[m] < o.argv[at] BY <2>1, <3>1
    <3> QED BY <1>0, <1>2, <3>2
  <2>2. CASE ~IsOption(Arg(o, m))
    <3>1. m <= o.idx - 1 BY <1>0
    <3>2. PICK i \in 1..Argc(o) : i <= o.idx - 1 /\ o.argv[m] = o.argv[i] + 1
      BY <2>2, <3>1 DEF TakenFollow
    <3>3. o.argv[i] = o.argv[at]
      <4>1. o.argv[i] \in Nat /\ o.argv[at] \in Nat BY <1>0
      <4>2. o.argv[at] + 1 = o.argv[i] + 1 BY <1>2, <3>2
      <4> QED BY <4>1, <4>2
    <3>4. i = at BY <3>3 DEF ArgvInv, Injective, Argc
    <3> QED BY <1>0, <3>2, <3>4
  <2> QED BY <2>1, <2>2
<1>4. \A i, j \in 1..Argc(o) : o.idx <= i /\ i < j => o.argv[i] < o.argv[j]
  <2> SUFFICES ASSUME NEW i \in 1..Argc(o), NEW j \in 1..Argc(o), o.idx <= i, i < j
               PROVE  o.argv[i] < o.argv[j]
    OBVIOUS
  <2>1. o.idx - 1 < i BY <1>0
  <2> QED BY <2>1 DEF SortedBehind, Argc
<1>5. m > at
  <2>1. CASE m = at BY <1>0, <1>2, <2>1
  <2>2. CASE m < at
    <3>1. o.argv[m] < o.argv[at] BY <1>3, <1>4, <2>2
    <3> QED BY <1>0, <1>2, <3>1
  <2> QED BY <1>0, <2>1, <2>2
<1>6. at + 1 \in 1..Argc(o) /\ at < Argc(o) BY <1>0, <1>5
<1>7. m = at + 1
  <2> SUFFICES ASSUME m # at + 1 PROVE FALSE OBVIOUS
  <2>1. at + 1 < m BY <1>0, <1>5
  <2>2. o.argv[at] < o.argv[at + 1] /\ o.argv[at + 1] < o.argv[m] BY <1>0, <1>4, <1>6, <2>1
  <2> QED BY <1>0, <1>2, <1>6, <2>2
<1> QED BY <1>2, <1>6, <1>7


\* Where the elements go that a rotation moves or leaves.
LEMMA RotateRightPlaces ==
  ASSUME NEW s, NEW a \in 1..Len(s), NEW b \in 1..Len(s), a <= b, Len(s) \in Nat
  PROVE  LET r == RotateRight(s, a, b)
         IN  /\ \A k \in 1..Len(s) : k < a \/ k > b => r[k] = s[k]
             /\ r[a] = s[b]
             /\ \A k \in 1..Len(s) :
                  a < k /\ k <= b => k - 1 \in 1..Len(s) /\ r[k] = s[k - 1]
<1> DEFINE r == RotateRight(s, a, b)
<1>1. \A k \in 1..Len(s) :
        r[k] = IF k = a THEN s[b] ELSE IF k \in (a + 1)..b THEN s[k - 1] ELSE s[k]
  BY DEF RotateRight
<1> HIDE DEF r
<1>2. \A k \in 1..Len(s) : k < a \/ k > b => r[k] = s[k] BY <1>1
<1>3. r[a] = s[b] BY <1>1
<1>4. \A k \in 1..Len(s) : a < k /\ k <= b => k - 1 \in 1..Len(s) /\ r[k] = s[k - 1] BY <1>1
<1> QED BY <1>2, <1>3, <1>4 DEF r

\* copt_reorder_opt brings the next option forward, and no option stays behind when there
\* is none.
LEMMA ReorderedFollows ==
  ASSUME ArgsOK, NEW o, ArgvInv(o), o.idx >= 1, o.idx <= Argc(o), o.subidx = 0,
         SortedBehind(o.argv, o.idx - 1),
         \A j, k \in 1..Argc(o) :
           j < o.idx /\ j < k /\ IsOption(Arg(o, j)) /\ IsOption(Arg(o, k))
           => o.argv[j] < o.argv[k],
         TakenFollow(o, o.idx - 1)
  PROVE  LET n == Reordered(o, o.idx)
         IN  /\ \A j \in 1..Argc(o) : j < o.idx => n.argv[j] = o.argv[j]
             /\ OptionsFollow(n)
             /\ IsOption(Arg(n, n.idx)) => NextIs(n)
             /\ ~IsOption(Arg(n, n.idx)) =>
                  n.argv = o.argv /\ \A k \in 1..Argc(n) : k >= n.idx => ~IsOption(Arg(n, k))
<1> DEFINE k == o.idx
           at == Least(OptionsFrom(o, k))
           n == Reordered(o, k)
<1>0. /\ o \in [argv : Seq(Elements), idx : Nat, subidx : Nat, argidx : Nat]
      /\ Argc(o) = Len(args) /\ Len(args) \in Nat /\ k \in 1..Len(o.argv) /\ Len(o.argv) = Len(args)
  BY LenProperties DEF ArgvInv, Argc, ArgsOK
<1>1. CASE OptionsFrom(o, k) = {}
  <2>1. n = [o EXCEPT !.argidx = 0] BY <1>1 DEF Reordered
  <2> HIDE DEF n
  <2>2. n.idx = k /\ n.argv = o.argv BY <1>0, <2>1
  <2>3. \A j \in 1..Argc(n) : j >= k => ~IsOption(Arg(n, j))
    BY <1>0, <1>1, <2>2 DEF OptionsFrom, Argc, Arg
  <2>4. OptionsFollow(n)
    <3> SUFFICES ASSUME NEW i \in 1..Argc(o), NEW j \in 1..Argc(o), i <= k, i < j,
                        IsOption(Arg(o, i)), IsOption(Arg(o, j))
                 PROVE  o.argv[i] < o.argv[j]
      BY <2>2 DEF OptionsFollow, Arg, Argc
    <3>1. i # k BY <2>2, <2>3 DEF Argc, Arg
    <3> QED BY <1>0, <3>1
  <2>5. ~IsOption(Arg(n, n.idx)) BY <1>0, <2>2, <2>3 DEF Argc
  <2> QED BY <2>2, <2>3, <2>4, <2>5 DEF n
<1>2. CASE OptionsFrom(o, k) # {}
  <2> DEFINE r == RotateRight(o.argv, k, at)
             hasOperand == at < Argc(o) /\ ~IsOption(Arg(o, at + 1))
             arg == IF hasOperand THEN at + 1 ELSE Argc(o) + 1
  <2>0. OptionsFrom(o, k) \in SUBSET Nat BY <1>0 DEF OptionsFrom
  <2>1. at \in OptionsFrom(o, k) /\ \A m \in OptionsFrom(o, k) : at <= m
    BY <1>2, <2>0, LeastProperties
  <2>2. at \in 1..Len(o.argv) /\ k <= at /\ IsOption(Arg(o, at))
    BY <1>0, <2>1 DEF OptionsFrom, Argc
  <2>3. \A m \in 1..Len(o.argv) : k <= m /\ m < at => ~IsOption(Arg(o, m))
    <3> SUFFICES ASSUME NEW m \in 1..Len(o.argv), k <= m, m < at, IsOption(Arg(o, m)) PROVE FALSE
      OBVIOUS
    <3>1. m \in OptionsFrom(o, k) BY <1>0 DEF OptionsFrom, Argc
    <3>2. at <= m BY <2>1, <3>1
    <3> HIDE DEF at
    <3> QED BY <1>0, <2>2, <3>2
  <2> HIDE DEF at
  <2>4. n = [o EXCEPT !.argv = r, !.argidx = arg] BY <1>2 DEF Reordered, at
  <2>5. arg \in Nat BY <1>0, <2>2 DEF Argc
  <2> HIDE DEF n
  <2>6. n.argv = r /\ n.idx = k
    <3> HIDE DEF r, arg
    <3> QED BY <1>0, <2>4
  <2>7. /\ \A j \in 1..Len(o.argv) : j < k \/ j > at => r[j] = o.argv[j]
        /\ r[k] = o.argv[at]
        /\ \A j \in 1..Len(o.argv) : k < j /\ j <= at =>
             j - 1 \in 1..Len(o.argv) /\ r[j] = o.argv[j - 1]
    <3>1. Len(o.argv) \in Nat /\ k \in 1..Len(o.argv) BY <1>0
    <3> HIDE DEF k
    <3> QED BY <2>2, <3>1, RotateRightPlaces
  <2>8. Len(r) = Len(o.argv)
    <3>1. o.argv \in Seq(1..Len(args)) /\ Injective(o.argv) /\ SortedBehind(o.argv, k - 1)
      BY <1>0 DEF Elements, ArgvInv
    <3> HIDE DEF k
    <3> QED BY <1>0, <2>2, <3>1, RotateRightKeeps
  <2> HIDE DEF r, arg
  <2>9. IsOption(Arg(n, k)) BY <2>2, <2>6, <2>7 DEF Arg
  <2>10. \A j \in 1..Len(o.argv) : k < j /\ j <= at => ~IsOption(args[r[j]])
    <3> SUFFICES ASSUME NEW j \in 1..Len(o.argv), k < j, j <= at PROVE ~IsOption(args[r[j]])
      OBVIOUS
    <3>1. j - 1 \in 1..Len(o.argv) /\ r[j] = o.argv[j - 1] BY <2>7
    <3>2. k <= j - 1 /\ j - 1 < at BY <1>0, <2>2
    <3> QED BY <2>3, <3>1, <3>2 DEF Arg
  <2>11. OptionsFollow(n)
    <3> SUFFICES ASSUME NEW i \in 1..Len(o.argv), NEW j \in 1..Len(o.argv), i <= k, i < j,
                        IsOption(args[r[i]]), IsOption(args[r[j]])
                 PROVE  r[i] < r[j]
      BY <2>6, <2>8 DEF OptionsFollow, Arg, Argc
    <3>0. CASE j <= k
      <4>1. i < k /\ r[i] = o.argv[i] BY <1>0, <2>7, <3>0
      <4>2. PICK m \in 1..Len(o.argv) : i < m /\ r[j] = o.argv[m]
        <5>1. CASE j = k
          <6>1. i < at BY <1>0, <2>2, <4>1
          <6> QED BY <2>2, <2>7, <5>1, <6>1
        <5>2. CASE j # k BY <1>0, <2>7, <3>0, <5>2
        <5> QED BY <5>1, <5>2
      <4> QED BY <4>1, <4>2 DEF Arg, Argc
    <3>1. CASE k < j
      <4>1. j > at /\ r[j] = o.argv[j] BY <1>0, <2>2, <2>7, <2>10, <3>1
      <4>2. CASE i = k
        <5>1. r[i] = o.argv[at] BY <2>7, <4>2
        <5>2. k - 1 < at /\ at < j BY <1>0, <2>2, <4>1
        <5>3. o.argv[at] < o.argv[j] BY <2>2, <5>2 DEF SortedBehind
        <5> QED BY <4>1, <5>1, <5>3
      <4>3. CASE i # k
        <5>1. i < k /\ r[i] = o.argv[i] BY <1>0, <2>7, <4>3
        <5> QED BY <1>0, <4>1, <5>1 DEF Arg, Argc
      <4> QED BY <4>2, <4>3
    <3> QED BY <1>0, <3>0, <3>1
  <2>12. NextIs(n)
    <3>1. at \in 1..Argc(o) /\ o.idx <= at BY <2>2 DEF Argc
    <3>2. o.argv[at] \in Nat /\ o.argv[at] <= Len(args)
      <4>1. o.argv[at] \in Elements BY <3>1, ElementLen
      <4> QED BY <1>0, <4>1 DEF Elements
    <3>3. o.argv[at] + 1 <= Len(args) => at < Argc(o) /\ o.argv[at + 1] = o.argv[at] + 1
      BY <2>2, <3>1, StandsBehind
    <3>4. n.argv[n.idx] = o.argv[at] /\ n.argidx = arg /\ Argc(n) = Argc(o)
      BY <1>0, <2>4, <2>5, <2>6, <2>7, <2>8 DEF Argc
    <3>5. CASE hasOperand
      <4>1. arg = at + 1 /\ arg <= Argc(o) /\ at + 1 \in 1..Argc(o)
        BY <1>0, <3>1, <3>5 DEF arg
      <4>2. r[at + 1] = o.argv[at + 1] BY <1>0, <2>7, <3>1, <4>1 DEF Argc
      <4>3. o.argv[at] < o.argv[at + 1]
        <5>1. o.idx - 1 < at /\ at < at + 1 BY <1>0, <3>1
        <5> QED BY <3>1, <4>1, <5>1 DEF SortedBehind, Argc
      <4>4. o.argv[at + 1] \in Nat /\ o.argv[at + 1] <= Len(args)
        <5>1. o.argv[at + 1] \in Elements BY <4>1, ElementLen
        <5> QED BY <1>0, <5>1 DEF Elements
      <4>5. o.argv[at + 1] = o.argv[at] + 1 BY <1>0, <3>2, <3>3, <4>3, <4>4
      <4> QED BY <2>6, <3>4, <4>1, <4>2, <4>5 DEF NextIs
    <3>6. CASE ~hasOperand
      <4>1. arg = Argc(o) + 1 /\ ~(arg <= Argc(o)) BY <1>0, <3>6 DEF arg
      <4>2. o.argv[at] + 1 <= Len(args) => IsOption(args[o.argv[at] + 1])
        BY <3>3, <3>6 DEF Arg
      <4> QED BY <3>4, <4>1, <4>2 DEF NextIs
    <3> QED BY <3>5, <3>6
  <2> QED BY <1>0, <2>6, <2>7, <2>9, <2>11, <2>12 DEF n, Argc
<1> QED BY <1>1, <1>2

\* copt_next goes on to an option behind those read, or to none.
LEMMA NextElementFollows ==
  ASSUME ArgsOK, NEW o, ArgvInv(o), o.idx <= Argc(o), OptionsFollow(o),
         TakenFollow(o, o.idx)
  PROVE  LET n == NextElement(o)
         IN  /\ \A j \in 1..Argc(o) : j <= o.idx => n.argv[j] = o.argv[j]
             /\ OptionsFollow(n)
             /\ IsAtOption(n) => NextIs(n)
             /\ n.idx <= Argc(n) /\ ~IsOption(Arg(n, n.idx)) =>
                  n.argv = o.argv /\ \A k \in 1..Argc(n) : k >= n.idx => ~IsOption(Arg(n, k))
<1> DEFINE l == [o EXCEPT !.idx = o.idx + 1]
           m == [l EXCEPT !.subidx = 0]
           n == NextElement(o)
<1>0. /\ o \in [argv : Seq(Elements), idx : Nat, subidx : Nat, argidx : Nat]
      /\ Argc(o) = Len(args) /\ Len(args) \in Nat
  BY LenProperties DEF ArgvInv, ArgsOK
<1>1. /\ m.argv = o.argv /\ m.idx = o.idx + 1 /\ m.subidx = 0 /\ Argc(m) = Argc(o)
      /\ m \in [argv : Seq(Elements), idx : Nat, subidx : Nat, argidx : Nat]
  <2>1. o.idx + 1 \in Nat BY <1>0
  <2>2. /\ l.argv = o.argv /\ l.idx = o.idx + 1
        /\ l \in [argv : Seq(Elements), idx : Nat, subidx : Nat, argidx : Nat]
    BY <1>0, <2>1
  <2> HIDE DEF l
  <2> QED BY <2>2 DEF Argc
<1>2. n = IF m.idx > Argc(o) THEN m ELSE Reordered(m, m.idx) BY <1>1 DEF NextElement
<1> HIDE DEF m, n
<1>3. CASE m.idx > Argc(o)
  <2>1. n = m BY <1>2, <1>3
  <2>2. OptionsFollow(n) BY <1>0, <1>1, <1>3, <2>1 DEF OptionsFollow, Arg
  <2> QED BY <1>0, <1>1, <1>3, <2>1, <2>2 DEF n, IsAtOption
<1>4. CASE ~(m.idx > Argc(o))
  <2>1. n = Reordered(m, m.idx) /\ m.idx >= 1 /\ m.idx <= Argc(m) BY <1>0, <1>1, <1>2, <1>4
  <2>2. SortedBehind(m.argv, m.idx - 1) /\ ArgvInv(m)
    <3>1. SortedBehind(o.argv, o.idx) /\ m.idx - 1 = o.idx BY <1>0, <1>1 DEF ArgvInv
    <3>2. SortedBehind(o.argv, o.idx + 1) BY <1>0, <3>1 DEF SortedBehind, Argc
    <3>3. m.idx <= Argc(m) + 1 BY <1>0, <1>1
    <3> QED BY <1>0, <1>1, <3>1, <3>2, <3>3 DEF ArgvInv
  <2>3. \A i, j \in 1..Argc(m) :
          i < m.idx /\ i < j /\ IsOption(Arg(m, i)) /\ IsOption(Arg(m, j))
          => m.argv[i] < m.argv[j]
    <3> SUFFICES ASSUME NEW i \in 1..Argc(o), NEW j \in 1..Argc(o), i < o.idx + 1, i < j,
                        IsOption(Arg(o, i)), IsOption(Arg(o, j))
                 PROVE  o.argv[i] < o.argv[j]
      BY <1>1 DEF Arg
    <3>1. i <= o.idx BY <1>0
    <3> QED BY <3>1 DEF OptionsFollow
  <2>4. /\ \A j \in 1..Argc(m) : j < m.idx => n.argv[j] = m.argv[j]
        /\ OptionsFollow(n)
        /\ IsOption(Arg(n, n.idx)) => NextIs(n)
        /\ ~IsOption(Arg(n, n.idx)) =>
             n.argv = m.argv /\ \A k \in 1..Argc(n) : k >= n.idx => ~IsOption(Arg(n, k))
    <3>1. m.idx - 1 = o.idx BY <1>0, <1>1
    <3>2. TakenFollow(m, m.idx - 1) BY <1>1, <3>1 DEF TakenFollow, Arg
    <3> QED BY <1>1, <2>1, <2>2, <2>3, <3>2, ReorderedFollows
  <2>5. \A j \in 1..Argc(o) : j <= o.idx => n.argv[j] = o.argv[j] BY <1>0, <1>1, <2>4
  <2> QED BY <1>1, <2>4, <2>5 DEF n, IsAtOption
<1> QED BY <1>3, <1>4


-----------------------------------------------------------------------------
(* What has been read so far *)

\* The place of the name a turn reads.
Place(o) == IF o.subidx > 0 THEN o.subidx + 1 ELSE 3
Here(o) == <<o.argv[o.idx], Place(o)>>

\* The places read, in the group being read up to its letter; and those read before this
\* turn.
ReadSoFar(o) ==
  {x \in Places : \E k \in 1..Argc(o) :
     /\ k <= o.idx /\ o.argv[k] = x[1]
     /\ k = o.idx /\ o.subidx > 0 => x[2] <= o.subidx + 1}
ReadBefore(o) ==
  {x \in Places : \E k \in 1..Argc(o) :
     k <= o.idx /\ o.argv[k] = x[1] /\ (k = o.idx => x[2] < Place(o))}

\* No letter of the group up to the one read has taken its rest.
GroupGoesOn(o, last) ==
  o.subidx > 0 => \A p \in 2..last : ~TakesRest(Arg(o, o.idx), p)

\* What a width has taken has been passed.
TakenRead(o, S) ==
  \A x \in S : TakesNext(x) => \E j \in 1..Argc(o) : j <= o.idx /\ o.argv[j] = x[1] + 1

\* The options so far stand for the places read.
Reads(S) == flags = FlagsIn(S) /\ width = WidthIn(S) /\ error = ErrorIn(S)

ArgvReadInv(o) ==
  /\ OptionsFollow(o) /\ NoDashDash(o) /\ GroupGoesOn(o, o.subidx + 1)
  /\ TakenFollow(o, o.idx) /\ TakenRead(o, ReadSoFar(o))
  /\ o.subidx > 0 => NextIs(o)

ReadInv ==
  /\ NoLetterIsMistaken
  /\ pc = "options" => ArgvReadInv(copt) /\ \E S : S = ReadSoFar(copt) /\ Reads(S)

\* An option that has been read stands before "--".
LEMMA ReadIsOption ==
  ASSUME ArgsOK, NEW o, ArgvInv(o), OptionsFollow(o), NoDashDash(o),
         NEW k \in 1..Argc(o), k <= o.idx, IsOption(Arg(o, k))
  PROVE  IsOptionAt(o.argv[k])
<1>0. Len(args) \in Nat /\ Argc(o) = Len(args) /\ o.idx \in Nat BY LenProperties DEF ArgvInv, ArgsOK
<1>1. /\ OptionsEnd \in 1..(Len(args) + 1)
      /\ OptionsEnd <= Len(args) => args[OptionsEnd] = DashDash
  BY OptionsEndFacts
<1>2. o.argv[k] \in Elements BY ElementLen
<1>3. o.argv[k] < OptionsEnd
  <2>1. CASE OptionsEnd > Len(args) BY <1>0, <1>1, <1>2, <2>1 DEF Elements
  <2>2. CASE ~(OptionsEnd > Len(args))
    <3>1. OptionsEnd \in Elements /\ args[OptionsEnd] = DashDash BY <1>0, <1>1, <2>2 DEF Elements
    <3>2. PICK j \in 1..Argc(o) : o.argv[j] = OptionsEnd BY <3>1, ArgvOnto
    <3>3. Arg(o, j) = DashDash BY <3>1, <3>2 DEF Arg
    <3>4. o.idx < j BY <1>0, <3>3 DEF NoDashDash
    <3>5. k < j BY <1>0, <3>4
    <3>6. IsOption(DashDash) BY DEF IsOption, DashDash
    <3> QED BY <3>2, <3>3, <3>5, <3>6 DEF OptionsFollow
  <2> QED BY <2>1, <2>2
<1> QED BY <1>3 DEF IsOptionAt, Arg

\* A turn that reads a new element finds what was read before it.
LEMMA NewElementRead ==
  ASSUME ArgsOK, NEW o, CoptInv(o), o.idx <= Argc(o), NEW n, ArgvInv(n), n.idx = o.idx + 1,
         ~InCluster(o), \A j \in 1..Argc(o) : j <= o.idx => n.argv[j] = o.argv[j],
         IsAtOption(n), IF IsShort(n) THEN n.subidx = 1 ELSE n.subidx = 0
  PROVE  ReadSoFar(o) = ReadBefore(n)
<1>0. /\ Argc(o) = Len(args) /\ Argc(n) = Len(args) /\ Len(args) \in Nat
      /\ o.idx \in Nat /\ o.subidx \in Nat /\ ArgvInv(o)
  BY LenProperties DEF ArgvInv, CoptInv, ArgsOK
<1>1. ASSUME NEW x \in ReadSoFar(o) PROVE x \in ReadBefore(n)
  <2>1. PICK k \in 1..Argc(o) : k <= o.idx /\ o.argv[k] = x[1] BY DEF ReadSoFar
  <2>2. k \in 1..Argc(n) /\ k <= n.idx /\ k # n.idx /\ n.argv[k] = o.argv[k] BY <1>0, <2>1
  <2>3. x \in Places BY DEF ReadSoFar
  <2> QED BY <2>1, <2>2, <2>3 DEF ReadBefore
<1>2. ASSUME NEW x \in ReadBefore(n) PROVE x \in ReadSoFar(o)
  <2>0. x \in Places BY DEF ReadBefore
  <2>1. PICK k \in 1..Argc(n) : k <= n.idx /\ n.argv[k] = x[1] /\ (k = n.idx => x[2] < Place(n))
    BY DEF ReadBefore
  <2>2. x[1] \in Elements /\ x[2] \in Nat /\ IsOption(args[x[1]]) /\ x[2] \in NamePlaces(args[x[1]])
    BY <2>0, PlaceParts DEF IsOptionAt
  <2>3. args[x[1]] \in Seq(Char) /\ Len(args[x[1]]) \in Nat BY <2>2, ElementIs, LenProperties
  <2>4. IF IsLong(args[x[1]]) THEN x[2] = 3 ELSE x[2] \in 2..Len(args[x[1]])
    BY <2>2, <2>3, NamePlacesBounds
  <2>5. k # n.idx
    <3> SUFFICES ASSUME k = n.idx PROVE FALSE OBVIOUS
    <3>1. IsShort(n) <=> ~IsLong(args[x[1]]) BY <2>1 DEF IsShort, IsLong, Arg
    <3>2. CASE IsShort(n)
      <4>1. Place(n) = 2 BY <3>2 DEF Place
      <4> QED BY <2>1, <2>2, <2>4, <3>1, <3>2, <4>1
    <3>3. CASE ~IsShort(n)
      <4>1. Place(n) = 3 BY <3>3 DEF Place
      <4> QED BY <2>1, <2>2, <2>4, <3>1, <3>3, <4>1
    <3> QED BY <3>2, <3>3
  <2>6. k \in 1..Argc(o) /\ k <= o.idx /\ o.argv[k] = x[1] BY <1>0, <2>1, <2>5
  <2>7. k = o.idx /\ o.subidx > 0 => x[2] <= o.subidx + 1
    <3> SUFFICES ASSUME k = o.idx, o.subidx > 0 PROVE x[2] <= o.subidx + 1 OBVIOUS
    <3>1. Arg(o, o.idx) = args[x[1]] BY <2>6 DEF Arg
    <3>2. ~(o.subidx + 2 <= Len(args[x[1]])) BY <3>1 DEF InCluster
    <3>3. ~IsLong(args[x[1]]) BY <3>1 DEF CoptInv, GroupInv, IsShort, IsLong
    <3> QED BY <1>0, <2>2, <2>3, <2>4, <3>2, <3>3
  <2> QED BY <2>0, <2>6, <2>7 DEF ReadSoFar
<1> QED BY <1>1, <1>2

\* What a turn finds: what was read before it, in a group none of whose letters has taken
\* the rest.
LEMMA TurnReads ==
  ASSUME IInv, ReadInv, Turn
  PROVE  /\ OptionsFollow(Opt) /\ NoDashDash(Opt) /\ GroupGoesOn(Opt, Opt.subidx)
         /\ TakenFollow(Opt, Opt.idx) /\ NextIs(Opt)
         /\ TakenRead(Opt, ReadBefore(Opt)) /\ Reads(ReadBefore(Opt))
<1> DEFINE o == copt
           n == NextElement(o)
<1>0. /\ pc = "options" /\ ArgsOK /\ CoptInv(o) /\ ArgvInv(o) /\ o.idx <= Argc(o)
      /\ o \in [argv : Seq(Elements), idx : Nat, subidx : Nat, argidx : Nat]
      /\ OptionsFollow(o) /\ NoDashDash(o) /\ GroupGoesOn(o, o.subidx + 1)
      /\ TakenFollow(o, o.idx) /\ TakenRead(o, ReadSoFar(o)) /\ (o.subidx > 0 => NextIs(o))
      /\ Reads(ReadSoFar(o)) /\ Argc(o) = Len(args) /\ Len(args) \in Nat
  BY LenProperties DEF Turn, IInv, CoptInv, ArgvInv, ReadInv, ArgvReadInv, ArgsOK
<1>1. Opt = IF InCluster(o) THEN [o EXCEPT !.subidx = @ + 1]
            ELSE IF IsAtOption(n) /\ IsShort(n) THEN [n EXCEPT !.subidx = 1] ELSE n
  BY DEF Opt, NextOption
<1>2. ArgvInv(n) /\ n.idx = o.idx + 1 /\ n.subidx = 0 BY <1>0, NextElementKeeps
<1>3. /\ \A j \in 1..Argc(o) : j <= o.idx => n.argv[j] = o.argv[j]
      /\ OptionsFollow(n) /\ (IsAtOption(n) => NextIs(n))
  BY <1>0, NextElementFollows
<1> HIDE DEF n
<1>4. CASE InCluster(o)
  <2>1. /\ Opt.argv = o.argv /\ Opt.idx = o.idx /\ Opt.subidx = o.subidx + 1 /\ o.subidx > 0
        /\ Opt.argidx = o.argidx
    BY <1>0, <1>1, <1>4 DEF InCluster
  <2>2. OptionsFollow(Opt) /\ NoDashDash(Opt) /\ TakenFollow(Opt, Opt.idx) /\ NextIs(Opt)
    BY <1>0, <2>1 DEF OptionsFollow, NoDashDash, TakenFollow, NextIs, Argc, Arg
  <2>3. GroupGoesOn(Opt, Opt.subidx) BY <1>0, <2>1 DEF GroupGoesOn, Arg
  <2>4. ReadBefore(Opt) = ReadSoFar(o)
    <3>1. Place(Opt) = o.subidx + 2 BY <1>0, <2>1 DEF Place
    <3>2. ASSUME NEW x \in Places
          PROVE  x[2] <= o.subidx + 1 <=> x[2] < o.subidx + 2
      BY <1>0, PlaceParts
    <3> QED BY <2>1, <3>1, <3>2 DEF ReadBefore, ReadSoFar, Argc
  <2>5. TakenRead(Opt, ReadBefore(Opt)) BY <1>0, <2>1, <2>4 DEF TakenRead, Argc
  <2> QED BY <1>0, <2>2, <2>3, <2>4, <2>5
<1>5. CASE ~InCluster(o)
  <2>1. IsAtOption(n)
    <3>1. CASE IsAtOption(n) /\ IsShort(n) BY <3>1
    <3>2. CASE ~(IsAtOption(n) /\ IsShort(n))
      <4>1. Opt = n BY <1>1, <1>5, <3>2
      <4> QED BY <4>1 DEF Turn
    <3> QED BY <3>1, <3>2
  <2>2. /\ Opt.argv = n.argv /\ Opt.idx = n.idx /\ Opt.argidx = n.argidx
        /\ IF IsShort(n) THEN Opt.subidx = 1 ELSE Opt.subidx = 0
    BY <1>1, <1>2, <1>5, <2>1 DEF ArgvInv
  <2>3. Argc(Opt) = Argc(n) /\ (\A k : Arg(Opt, k) = Arg(n, k)) /\ (IsShort(Opt) <=> IsShort(n))
    BY <2>2 DEF Argc, Arg, IsShort
  <2>4. OptionsFollow(Opt) /\ NextIs(Opt) BY <1>3, <2>1, <2>2, <2>3 DEF OptionsFollow, NextIs
  <2>5. ASSUME NEW j \in 1..Argc(n), j <= n.idx, j # n.idx
        PROVE  j \in 1..Argc(o) /\ j <= o.idx /\ Arg(n, j) = Arg(o, j) /\ n.argv[j] = o.argv[j]
    <3>1. j \in 1..Argc(o) /\ j <= o.idx BY <1>0, <1>2, <2>5 DEF ArgvInv
    <3> QED BY <1>3, <3>1 DEF Arg
  <2>6. NoDashDash(Opt)
    <3> SUFFICES ASSUME NEW j \in 1..Argc(n), j <= n.idx PROVE Arg(n, j) # DashDash
      BY <2>2, <2>3 DEF NoDashDash
    <3>1. CASE j = n.idx BY <2>1, <3>1 DEF IsAtOption
    <3>2. CASE j # n.idx BY <1>0, <2>5, <3>2 DEF NoDashDash
    <3> QED BY <3>1, <3>2
  <2>7. TakenFollow(Opt, Opt.idx)
    <3> SUFFICES ASSUME NEW j \in 1..Argc(n), j <= n.idx, ~IsOption(Arg(n, j))
                 PROVE  /\ IsTaken(n.argv[j])
                        /\ \E i \in 1..Argc(n) :
                             i <= n.idx /\ IsOption(Arg(n, i)) /\ n.argv[j] = n.argv[i] + 1
      BY <2>2, <2>3 DEF TakenFollow
    <3>1. j # n.idx BY <2>1 DEF IsAtOption
    <3>2. /\ j \in 1..Argc(o) /\ j <= o.idx /\ Arg(n, j) = Arg(o, j) /\ n.argv[j] = o.argv[j]
      BY <2>5, <3>1
    <3>3. /\ IsTaken(o.argv[j])
          /\ \E i \in 1..Argc(o) : i <= o.idx /\ IsOption(Arg(o, i)) /\ o.argv[j] = o.argv[i] + 1
      BY <1>0, <3>2 DEF TakenFollow
    <3>4. PICK i \in 1..Argc(o) : i <= o.idx /\ IsOption(Arg(o, i)) /\ o.argv[j] = o.argv[i] + 1
      BY <3>3
    <3>5. i \in 1..Argc(n) /\ i <= n.idx /\ n.argv[i] = o.argv[i] BY <1>0, <1>2, <1>3, <3>4 DEF ArgvInv
    <3> QED BY <3>2, <3>3, <3>4, <3>5 DEF Arg
  <2>8. GroupGoesOn(Opt, Opt.subidx) BY <2>2 DEF GroupGoesOn
  <2>9. ReadSoFar(o) = ReadBefore(Opt)
    <3> DEFINE q == Opt
    <3>1. /\ ArgvInv(q) /\ q.idx = o.idx + 1 /\ IsAtOption(q)
          /\ \A j \in 1..Argc(o) : j <= o.idx => q.argv[j] = o.argv[j]
          /\ IF IsShort(q) THEN q.subidx = 1 ELSE q.subidx = 0
      BY <1>0, <1>2, <1>3, <2>2, <2>3, TurnFacts DEF Turn
    <3> HIDE DEF q
    <3>2. ReadSoFar(o) = ReadBefore(q) BY <1>0, <1>5, <3>1, NewElementRead
    <3> QED BY <3>2 DEF q
  <2>10. TakenRead(Opt, ReadBefore(Opt))
    <3> SUFFICES ASSUME NEW x \in ReadSoFar(o), TakesNext(x)
                 PROVE  \E j \in 1..Argc(n) : j <= n.idx /\ n.argv[j] = x[1] + 1
      BY <2>2, <2>3, <2>9 DEF TakenRead
    <3>1. PICK j \in 1..Argc(o) : j <= o.idx /\ o.argv[j] = x[1] + 1 BY <1>0 DEF TakenRead
    <3>2. j \in 1..Argc(n) /\ j <= n.idx /\ n.argv[j] = o.argv[j] BY <1>0, <1>2, <1>3, <3>1 DEF ArgvInv
    <3> QED BY <3>1, <3>2
  <2> QED BY <1>0, <2>4, <2>6, <2>7, <2>8, <2>9, <2>10
<1> QED BY <1>4, <1>5


\* A turn stands at an option, long or short.
LEMMA TurnElement ==
  ASSUME IInv, Turn
  PROVE  /\ CoptInv(Opt) /\ ArgvInv(Opt) /\ ArgsOK /\ Argc(Opt) \in Nat
         /\ Opt.idx \in 1..Argc(Opt) /\ Opt.subidx \in Nat
         /\ Element = Arg(Opt, Opt.idx) /\ Element \in Seq(Char) /\ Len(Element) \in Nat
         /\ IsOption(Element) /\ Name = Element[Place(Opt)]
         /\ IF Opt.subidx > 0
            THEN /\ ~IsLong(Element) /\ Place(Opt) = Opt.subidx + 1
                 /\ Place(Opt) \in 2..Len(Element)
            ELSE IsLong(Element) /\ Place(Opt) = 3 /\ Opt.subidx = 0
<1>1. /\ CoptInv(Opt) /\ ArgvInv(Opt) /\ ArgsOK /\ IsAtOption(Opt) /\ Opt.idx <= Argc(Opt)
      /\ Opt.subidx \in Nat /\ Argc(Opt) \in Nat /\ Opt.idx \in Nat /\ pc = "options"
  BY TurnFacts, LenProperties DEF Turn, IInv, ArgvInv, ArgsOK
<1>2. Opt.idx \in 1..Argc(Opt) BY <1>1, AtElement
<1>3. /\ Element = Arg(Opt, Opt.idx) /\ Element \in Seq(Char) /\ Len(Element) \in Nat
      /\ IsOption(Element)
  BY <1>1, <1>2, ElementLen DEF Element, IsAtOption
<1>4. Name = Element[Place(Opt)] BY DEF Name, Place
<1>5. CASE Opt.subidx > 0
  <2>1. ~IsLong(Element) BY <1>1, <1>5 DEF CoptInv, GroupInv, IsShort, IsLong, Element
  <2>2. Opt.subidx + 1 <= Len(Element) BY <1>1, <1>5 DEF CoptInv, GroupInv, Element
  <2> QED BY <1>1, <1>2, <1>3, <1>4, <1>5, <2>1, <2>2 DEF Place
<1>6. CASE ~(Opt.subidx > 0)
  <2>1. Opt.subidx = 0 BY <1>1, <1>6
  <2>2. IsLong(Element)
    <3> SUFFICES ASSUME ~IsLong(Element) PROVE FALSE OBVIOUS
    <3> DEFINE n == NextElement(copt)
    <3>1. Opt = IF InCluster(copt) THEN [copt EXCEPT !.subidx = @ + 1]
                ELSE IF IsAtOption(n) /\ IsShort(n) THEN [n EXCEPT !.subidx = 1] ELSE n
      BY DEF Opt, NextOption
    <3>2. CoptInv(copt) /\ ArgsOK /\ copt.idx <= Argc(copt) BY <1>1 DEF IInv
    <3>3. ArgvInv(n) BY <3>2, NextElementKeeps DEF CoptInv
    <3> HIDE DEF n
    <3>4. CASE InCluster(copt)
      <4>1. Opt.subidx = copt.subidx + 1 BY <3>1, <3>2, <3>4 DEF CoptInv, ArgvInv
      <4>2. copt.subidx \in Nat BY <3>2 DEF CoptInv, ArgvInv
      <4> QED BY <2>1, <4>1, <4>2
    <3>5. CASE ~InCluster(copt) /\ IsAtOption(n) /\ IsShort(n)
      <4>1. Opt.subidx = 1 BY <3>1, <3>3, <3>5 DEF ArgvInv
      <4> QED BY <2>1, <4>1
    <3>6. CASE ~InCluster(copt) /\ ~(IsAtOption(n) /\ IsShort(n))
      <4>1. Opt = n BY <3>1, <3>6
      <4>2. ~IsShort(Opt) BY <1>1, <3>6, <4>1
      <4> QED BY <1>3, <4>2 DEF IsShort, IsLong
    <3> QED BY <3>4, <3>5, <3>6
  <2> QED BY <1>1, <1>2, <1>3, <1>4, <1>6, <2>1, <2>2 DEF Place
<1> QED BY <1>5, <1>6

\* The element a turn reads is one of the command line's options.
LEMMA TurnIsOption ==
  ASSUME IInv, ReadInv, Turn
  PROVE  /\ Opt.argv[Opt.idx] \in Elements /\ args[Opt.argv[Opt.idx]] = Element
         /\ IsOptionAt(Opt.argv[Opt.idx])
<1>1. /\ ArgvInv(Opt) /\ ArgsOK /\ Opt.idx \in 1..Argc(Opt) /\ Argc(Opt) \in Nat
      /\ Element = Arg(Opt, Opt.idx) /\ IsOption(Element)
  BY TurnElement
<1>2. OptionsFollow(Opt) /\ NoDashDash(Opt) BY TurnReads
<1>3. Opt.argv[Opt.idx] \in Elements /\ args[Opt.argv[Opt.idx]] = Element
  BY <1>1, ElementLen DEF Arg
<1>4. IsOptionAt(Opt.argv[Opt.idx])
  <2>1. Opt.idx <= Opt.idx BY <1>1
  <2> QED BY <1>1, <1>2, <2>1, ReadIsOption
<1> QED BY <1>3, <1>4

\* In a group the letter read is the last one that asks exactly when it takes the rest.
LEMMA LetterFacts ==
  ASSUME IInv, ReadInv, Turn, Opt.subidx > 0
  PROVE  /\ LastLetter(Element) >= Place(Opt) /\ LastLetter(Element) \in 2..Len(Element)
         /\ TakesRest(Element, Place(Opt)) => LastLetter(Element) = Place(Opt)
         /\ LastLetter(Element) = Place(Opt) => Place(Opt) = Len(Element) \/ TakesRest(Element, Place(Opt))
         /\ Attached \/ Name \in WidthSpelling <=> TakesRest(Element, Place(Opt))
<1>1. /\ Element \in Seq(Char) /\ Len(Element) \in Nat /\ Name = Element[Place(Opt)]
      /\ IsOption(Element) /\ Opt.subidx \in Nat
      /\ Place(Opt) = Opt.subidx + 1 /\ Place(Opt) \in 2..Len(Element)
      /\ Element = Arg(Opt, Opt.idx)
  BY TurnElement
<1>2. GroupGoesOn(Opt, Opt.subidx) BY TurnReads
<1> DEFINE last == LastLetter(Element)
<1>3. /\ last \in 2..Len(Element)
      /\ last < Len(Element) => TakesRest(Element, last)
      /\ \A p \in 2..Len(Element) : TakesRest(Element, p) => last <= p
  <2>1. Len(Element) >= 2 BY <1>1
  <2> QED BY <1>1, <2>1, LastLetterFacts
<1> HIDE DEF last
<1>4. \A p \in 2..Opt.subidx : ~TakesRest(Element, p) BY <1>1, <1>2 DEF GroupGoesOn
<1>5. last >= Place(Opt)
  <2> SUFFICES ASSUME last < Place(Opt) PROVE FALSE BY <1>1, <1>3
  <2>1. last < Len(Element) /\ last \in 2..Opt.subidx BY <1>1, <1>3
  <2> QED BY <1>3, <1>4, <2>1
<1>6. TakesRest(Element, Place(Opt)) => last = Place(Opt) BY <1>1, <1>3, <1>5
<1>7. last = Place(Opt) => Place(Opt) = Len(Element) \/ TakesRest(Element, Place(Opt))
  BY <1>1, <1>3
<1>8. Attached \/ Name \in WidthSpelling <=> TakesRest(Element, Place(Opt))
  <2> DEFINE at == FirstEquals(Element)
  <2>1. /\ at \in 1..(Len(Element) + 1) /\ (at <= Len(Element) <=> Equals # {})
        /\ Equals # {} => at = Least(Equals)
    BY <1>1, FirstEqualsFacts DEF Equals
  <2>2. Attached <=> at <= Len(Element) /\ Element[at - 1] = Name BY <2>1 DEF Attached
  <2>3. TakesRest(Element, Place(Opt)) <=>
          Name \in WidthSpelling \/ (Place(Opt) < Len(Element) /\ Place(Opt) + 1 = at)
    BY <1>1 DEF TakesRest
  <2> HIDE DEF at
  <2>4. ASSUME Attached, Name \notin WidthSpelling PROVE Place(Opt) + 1 = at
    <3>1. ~MistakesALetter(Element) /\ ~IsLong(Element)
      <4>1. Opt.argv[Opt.idx] \in Elements /\ args[Opt.argv[Opt.idx]] = Element
            /\ IsOptionAt(Opt.argv[Opt.idx])
        BY TurnIsOption
      <4>2. ~IsLong(Element) BY TurnElement
      <4> QED BY <4>1, <4>2 DEF ReadInv, NoLetterIsMistaken, Elements
    <3>2. Place(Opt) \in 2..last BY <1>1, <1>3, <1>5
    <3>3. Element[Place(Opt)] = Element[at - 1] /\ at <= Len(Element) BY <1>1, <2>2, <2>4
    <3>4. Place(Opt) = at - 1
      BY <1>1, <2>4, <3>1, <3>2, <3>3 DEF MistakesALetter, last, at
    <3> QED BY <1>1, <2>1, <3>4
  <2>5. ASSUME Place(Opt) < Len(Element), Place(Opt) + 1 = at PROVE Attached
    BY <1>1, <2>1, <2>2, <2>5
  <2>6. Attached => at <= Len(Element) BY <2>2
  <2> QED BY <1>1, <2>3, <2>4, <2>5, <2>6
<1> QED BY <1>3, <1>5, <1>6, <1>7, <1>8 DEF last

\* The place of the name read is one of the command line's, behind those read before.
LEMMA HereIsNext ==
  ASSUME IInv, ReadInv, Turn
  PROVE  /\ Here(Opt) \in Places /\ NameAt(Here(Opt)) = Name
         /\ Opt.argv[Opt.idx] \in Elements /\ args[Opt.argv[Opt.idx]] = Element
         /\ Here(Opt)[1] = Opt.argv[Opt.idx] /\ Here(Opt)[2] = Place(Opt)
         /\ ReadBefore(Opt) \in SUBSET Places
         /\ \A y \in ReadBefore(Opt) : Before(y, Here(Opt))
<1> DEFINE x == Opt.argv[Opt.idx]
<1>1. /\ ArgvInv(Opt) /\ ArgsOK /\ Opt.idx \in 1..Argc(Opt) /\ Argc(Opt) \in Nat
      /\ Element = Arg(Opt, Opt.idx) /\ Element \in Seq(Char) /\ Len(Element) \in Nat
      /\ IsOption(Element) /\ Name = Element[Place(Opt)] /\ Opt.subidx \in Nat
      /\ IF Opt.subidx > 0
         THEN /\ ~IsLong(Element) /\ Place(Opt) = Opt.subidx + 1
              /\ Place(Opt) \in 2..Len(Element)
         ELSE IsLong(Element) /\ Place(Opt) = 3 /\ Opt.subidx = 0
  BY TurnElement
<1>2. OptionsFollow(Opt) /\ NoDashDash(Opt) BY TurnReads
<1>3. x \in Elements /\ args[x] = Element /\ IsOptionAt(x) BY TurnIsOption
<1>4. Here(Opt) = <<x, Place(Opt)>> BY DEF Here
<1> HIDE DEF x
<1>5. Here(Opt)[1] = x /\ Here(Opt)[2] = Place(Opt) BY <1>4
<1>6. Place(Opt) \in NamePlaces(Element)
  <2>1. CASE Opt.subidx > 0
    <3>1. LastLetter(Element) >= Place(Opt) /\ LastLetter(Element) \in 2..Len(Element)
      BY <2>1, LetterFacts
    <3> QED BY <1>1, <2>1, <3>1 DEF NamePlaces
  <2>2. CASE ~(Opt.subidx > 0) BY <1>1, <2>2 DEF NamePlaces
  <2> QED BY <2>1, <2>2
<1>7. Here(Opt) \in Places BY <1>3, <1>4, <1>6, PlaceIs
<1>8. NameAt(Here(Opt)) = Name BY <1>1, <1>3, <1>5 DEF NameAt
<1>9. ASSUME NEW y \in ReadBefore(Opt) PROVE Before(y, Here(Opt))
  <2>1. y \in Places BY DEF ReadBefore
  <2>2. y[1] \in Elements /\ IsOption(args[y[1]]) BY <1>1, <2>1, PlaceParts DEF IsOptionAt
  <2>3. PICK k \in 1..Argc(Opt) :
          k <= Opt.idx /\ Opt.argv[k] = y[1] /\ (k = Opt.idx => y[2] < Place(Opt))
    BY DEF ReadBefore
  <2>4. CASE k = Opt.idx BY <1>5, <2>3, <2>4 DEF Before, x
  <2>5. CASE k # Opt.idx
    <3>1. k < Opt.idx BY <1>1, <2>3, <2>5
    <3>2. IsOption(Arg(Opt, k)) /\ IsOption(Arg(Opt, Opt.idx)) BY <1>1, <2>2, <2>3 DEF Arg
    <3>3. Opt.argv[k] < Opt.argv[Opt.idx] BY <1>1, <1>2, <3>1, <3>2 DEF OptionsFollow
    <3> QED BY <1>5, <2>3, <3>3 DEF Before, x
  <2> QED BY <2>4, <2>5
<1>10. ReadBefore(Opt) \in SUBSET Places BY DEF ReadBefore
<1> QED BY <1>3, <1>5, <1>7, <1>8, <1>9, <1>10 DEF x

\* A flag is rejected where it is read exactly when a value is attached to it.
LEMMA FlagHere ==
  ASSUME IInv, ReadInv, Turn, NEW f \in DOMAIN Spelling, Name \in Spelling[f]
  PROVE  /\ Fault(Here(Opt)) = IF Attached THEN "attached" ELSE "none"
         /\ \A g \in DOMAIN Spelling : g # f => Name \notin Spelling[g]
         /\ Name \notin WidthSpelling
<1>1. /\ Element \in Seq(Char) /\ Len(Element) \in Nat /\ Name = Element[Place(Opt)]
      /\ IsOption(Element) /\ Opt.subidx \in Nat
      /\ IF Opt.subidx > 0
         THEN /\ ~IsLong(Element) /\ Place(Opt) = Opt.subidx + 1
              /\ Place(Opt) \in 2..Len(Element)
         ELSE IsLong(Element) /\ Place(Opt) = 3 /\ Opt.subidx = 0
  BY TurnElement
<1>2. /\ DOMAIN Spelling = {"version", "help", "in_place", "check"}
      /\ Spelling["version"] = {"V", "version"} /\ Spelling["help"] = {"h", "help"}
      /\ Spelling["in_place"] = {"i", "in-place"} /\ Spelling["check"] = {"c", "check"}
  BY DEF Spelling
<1>3. Name \notin WidthSpelling /\ Name # "-" BY <1>2 DEF WidthSpelling
<1>4. \A g \in DOMAIN Spelling : g # f => Name \notin Spelling[g] BY <1>2
<1>5. Name \in Known
  <2>1. Spelling[f] \in {Spelling[h] : h \in DOMAIN Spelling} OBVIOUS
  <2> QED BY <2>1 DEF Known
<1>6. FirstEquals(Element) <= Len(Element) <=> Equals # {} BY <1>1, FirstEqualsFacts DEF Equals
<1>7. Equals # {} => FirstEquals(Element) = Least(Equals) /\ Least(Equals) \in Equals
  BY <1>1, FirstEqualsFacts DEF Equals
<1>8. HasValue(Element, Place(Opt)) <=> Attached
  <2>1. CASE Opt.subidx > 0
    <3> DEFINE last == LastLetter(Element)
    <3>1. /\ last >= Place(Opt) /\ last \in 2..Len(Element)
          /\ TakesRest(Element, Place(Opt)) => last = Place(Opt)
          /\ last = Place(Opt) => Place(Opt) = Len(Element) \/ TakesRest(Element, Place(Opt))
          /\ Attached <=> TakesRest(Element, Place(Opt))
      BY <1>3, <2>1, LetterFacts
    <3>2. HasValue(Element, Place(Opt)) <=> Place(Opt) = last /\ Place(Opt) < Len(Element)
      BY <1>1, <2>1 DEF HasValue
    <3> HIDE DEF last
    <3>3. CASE ~Attached BY <1>1, <2>1, <3>1, <3>2, <3>3
    <3>4. CASE Attached
      <4> DEFINE at == Least(Equals)
      <4>1. Equals # {} /\ Element[at - 1] = Name BY <2>1, <3>4 DEF Attached
      <4>2. at \in 1..Len(Element) /\ Element[at] = "=" BY <1>7, <4>1 DEF Equals
      <4>3. FirstEquals(Element) = at BY <1>7, <4>1
      <4> HIDE DEF at
      <4>4. Element[1] = "-" BY <1>1 DEF IsOption
      <4>5. at # 1 /\ at - 1 # 1 BY <1>3, <4>1, <4>2, <4>4
      <4>6. at - 1 \in 2..Len(Element) BY <1>1, <4>2, <4>5
      <4>7. TakesRest(Element, at - 1)
        BY <1>1, <4>2, <4>3, <4>5 DEF TakesRest
      <4>8. last <= at - 1
        <5>1. Len(Element) >= 2 BY <1>1, <2>1
        <5> QED BY <1>1, <4>6, <4>7, <5>1, LastLetterFacts DEF last
      <4>9. Place(Opt) < Len(Element) BY <1>1, <2>1, <3>1, <3>4, <4>2, <4>8
      <4> QED BY <1>1, <2>1, <3>1, <3>2, <3>4, <4>9
    <3> QED BY <3>3, <3>4
  <2>2. CASE ~(Opt.subidx > 0)
    <3>1. HasValue(Element, Place(Opt)) <=> FirstEquals(Element) <= Len(Element)
      BY <1>1, <2>2 DEF HasValue
    <3>2. Attached <=> Equals # {} BY <2>2 DEF Attached
    <3> QED BY <1>6, <3>1, <3>2
  <2> QED BY <2>1, <2>2
<1>9. Fault(Here(Opt)) = IF Attached THEN "attached" ELSE "none"
  <2>1. IsGiven(Here(Opt)) <=> Attached BY <1>3, <1>8, HereIsNext DEF IsGiven, TakesNext
  <2> QED BY <1>3, <1>5, <2>1, HereIsNext DEF Fault
<1> QED BY <1>3, <1>4, <1>9

\* The value of a width is where the option's place has it.
LEMMA WidthHere ==
  ASSUME IInv, ReadInv, Turn, Name \in WidthSpelling
  PROVE  /\ HasInline <=> HasValue(Element, Place(Opt))
         /\ HasInline => Inline = ValueIn(Element, Place(Opt))
         /\ ~HasInline => (TakesNext(Here(Opt)) <=> Opt.argidx <= Argc(Opt))
<1>1. /\ Element \in Seq(Char) /\ Len(Element) \in Nat /\ ArgsOK /\ ArgvInv(Opt)
      /\ IsOption(Element) /\ Opt.subidx \in Nat /\ Opt.idx \in 1..Argc(Opt) /\ Argc(Opt) \in Nat
      /\ IF Opt.subidx > 0
         THEN /\ ~IsLong(Element) /\ Place(Opt) = Opt.subidx + 1
              /\ Place(Opt) \in 2..Len(Element)
         ELSE IsLong(Element) /\ Place(Opt) = 3 /\ Opt.subidx = 0
  BY TurnElement
<1>2. FirstEquals(Element) <= Len(Element) <=> Equals # {} BY <1>1, FirstEqualsFacts DEF Equals
<1>3. Equals # {} => FirstEquals(Element) = Least(Equals) BY <1>1, FirstEqualsFacts DEF Equals
<1>4. (HasInline <=> HasValue(Element, Place(Opt))) /\ (HasInline => Inline = ValueIn(Element, Place(Opt)))
  <2>1. CASE Opt.subidx > 0
    <3>1. LastLetter(Element) = Place(Opt) BY <2>1, LetterFacts
    <3>2. HasInline <=> HasValue(Element, Place(Opt)) BY <1>1, <2>1, <3>1 DEF HasInline, HasValue
    <3>3. Place(Opt) + 1 = Opt.subidx + 2 /\ (Place(Opt) + 1) + 1 = Opt.subidx + 3 /\ Opt.subidx # 0
      BY <1>1, <2>1
    <3>4. Inline = ValueIn(Element, Place(Opt))
      <4>1. CASE Element[Opt.subidx + 2] = "="
        <5>1. Inline = SubSeq(Element, Opt.subidx + 3, Len(Element)) BY <3>3, <4>1 DEF Inline
        <5>2. ValueIn(Element, Place(Opt)) = SubSeq(Element, (Place(Opt) + 1) + 1, Len(Element))
          BY <1>1, <2>1, <3>3, <4>1 DEF ValueIn
        <5> QED BY <3>3, <5>1, <5>2
      <4>2. CASE Element[Opt.subidx + 2] # "="
        <5>1. Inline = SubSeq(Element, Opt.subidx + 2, Len(Element)) BY <3>3, <4>2 DEF Inline
        <5>2. ValueIn(Element, Place(Opt)) = SubSeq(Element, Place(Opt) + 1, Len(Element))
          BY <1>1, <2>1, <3>3, <4>2 DEF ValueIn
        <5> QED BY <3>3, <5>1, <5>2
      <4> QED BY <4>1, <4>2
    <3> QED BY <3>2, <3>4
  <2>2. CASE ~(Opt.subidx > 0)
    <3>1. HasInline <=> HasValue(Element, Place(Opt)) BY <1>1, <1>2, <2>2 DEF HasInline, HasValue
    <3>2. HasInline => Inline = ValueIn(Element, Place(Opt))
      BY <1>1, <1>3, <2>2 DEF Inline, ValueIn, HasInline
    <3> QED BY <3>1, <3>2
  <2> QED BY <2>1, <2>2
<1>5. ASSUME ~HasInline PROVE TakesNext(Here(Opt)) <=> Opt.argidx <= Argc(Opt)
  <2> DEFINE x == Opt.argv[Opt.idx]
  <2>1. /\ Here(Opt)[1] = x /\ Here(Opt)[2] = Place(Opt) /\ NameAt(Here(Opt)) = Name
        /\ x \in Elements /\ args[x] = Element /\ Here(Opt) \in Places
    BY HereIsNext
  <2>2. IsOptionAt(x) BY <1>1, <2>1, PlaceParts
  <2>3. NextIs(Opt) /\ Behind(Opt) BY TurnReads, TurnFacts DEF Turn
  <2> HIDE DEF x
  <2>4. TakesNext(Here(Opt)) <=> x + 1 < OptionsEnd /\ ~IsOption(args[x + 1])
    BY <1>4, <1>5, <2>1 DEF TakesNext
  <2>5. /\ OptionsEnd \in 1..(Len(args) + 1) /\ Len(args) \in Nat /\ x \in Nat
        /\ OptionsEnd <= Len(args) => args[OptionsEnd] = DashDash
    BY <1>1, <2>1, OptionsEndFacts, LenProperties DEF ArgsOK, Elements
  <2>6. IsOption(DashDash) BY DEF IsOption, DashDash
  <2>7. x < OptionsEnd BY <2>2 DEF IsOptionAt
  <2>8. CASE Opt.argidx <= Argc(Opt)
    <3>1. Opt.argv[Opt.argidx] = x + 1 /\ ~IsOption(Arg(Opt, Opt.argidx))
      BY <2>3, <2>8 DEF NextIs, Behind, x
    <3>2. ~IsOption(args[x + 1]) BY <3>1 DEF Arg
    <3>3. x + 1 \in Elements
      <4>1. Opt.argidx \in 1..Argc(Opt) BY <1>1, <2>3, <2>8 DEF Behind, ArgvInv
      <4> QED BY <1>1, <3>1, <4>1, ElementLen
    <3>4. x + 1 # OptionsEnd BY <2>5, <2>6, <3>2, <3>3 DEF Elements
    <3> QED BY <2>4, <2>5, <2>7, <2>8, <3>2, <3>4
  <2>9. CASE ~(Opt.argidx <= Argc(Opt))
    <3>1. x + 1 <= Len(args) => IsOption(args[x + 1]) BY <2>3, <2>9 DEF NextIs, x
    <3> QED BY <2>4, <2>5, <2>9, <3>1
  <2> QED BY <2>8, <2>9
<1> QED BY <1>4, <1>5

\* What has been read after a turn: what was before it, and the place it reads, when no
\* other is left in an element that it leaves.
LEMMA ReadAfter ==
  ASSUME ArgsOK, NEW o, CoptInv(o), 1 <= o.idx, o.idx <= Argc(o), IsOption(Arg(o, o.idx)),
         o.subidx = 0 => IsLong(Arg(o, o.idx)), Here(o) \in Places,
         NEW n, ArgvInv(n),
         \A j \in 1..Argc(o) : j <= o.idx => n.argv[j] = o.argv[j],
         \/ n.idx = o.idx /\ n.subidx = o.subidx
         \/ /\ n.subidx = 0 /\ (o.subidx > 0 => LastLetter(Arg(o, o.idx)) = Place(o))
            /\ \/ n.idx = o.idx
               \/ n.idx = o.idx + 1 /\ n.idx <= Argc(n) /\ ~IsOption(Arg(n, n.idx))
  PROVE  ReadSoFar(n) = ReadBefore(o) \cup {Here(o)}
<1>0. /\ Argc(o) = Len(args) /\ Argc(n) = Len(args) /\ Len(args) \in Nat
      /\ o.idx \in Nat /\ o.subidx \in Nat /\ ArgvInv(o) /\ n.idx \in Nat
      /\ Here(o) = <<o.argv[o.idx], Place(o)>> /\ o.idx \in 1..Argc(o)
  BY LenProperties DEF ArgvInv, CoptInv, ArgsOK, Here
<1>1. ASSUME NEW x \in ReadSoFar(n) PROVE x \in ReadBefore(o) \cup {Here(o)}
  <2>1. PICK k \in 1..Argc(n) :
          k <= n.idx /\ n.argv[k] = x[1] /\ (k = n.idx /\ n.subidx > 0 => x[2] <= n.subidx + 1)
    BY DEF ReadSoFar
  <2>2. x \in Places BY DEF ReadSoFar
  <2>3. /\ x = <<x[1], x[2]>> /\ x[1] \in Elements /\ x[2] \in Nat /\ IsOption(args[x[1]])
        /\ x[2] \in NamePlaces(args[x[1]])
    BY <2>2, PlaceParts DEF IsOptionAt
  <2>4. k <= o.idx
    <3> SUFFICES ASSUME ~(k <= o.idx) PROVE FALSE OBVIOUS
    <3>1. k = n.idx /\ ~IsOption(Arg(n, n.idx)) BY <1>0, <2>1
    <3> QED BY <2>1, <2>3, <3>1 DEF Arg
  <2>5. k \in 1..Argc(o) /\ o.argv[k] = x[1] BY <1>0, <2>1, <2>4
  <2>6. CASE k # o.idx BY <2>2, <2>4, <2>5, <2>6 DEF ReadBefore
  <2>7. CASE k = o.idx
    <3>1. Arg(o, o.idx) = args[x[1]] BY <2>5, <2>7 DEF Arg
    <3>2. args[x[1]] \in Seq(Char) BY <2>3, ElementIs
    <3>3. IF IsLong(args[x[1]]) THEN x[2] = 3 ELSE x[2] \in 2..LastLetter(args[x[1]])
      BY <2>3, <3>2, NamePlacesBounds
    <3>4. x[2] <= Place(o)
      <4>1. CASE o.subidx = 0 BY <3>1, <3>3, <4>1 DEF Place
      <4>2. CASE o.subidx # 0
        <5>1. o.subidx > 0 /\ Place(o) = o.subidx + 1 BY <1>0, <4>2 DEF Place
        <5>2. ~IsLong(args[x[1]]) BY <3>1, <5>1 DEF CoptInv, GroupInv, IsShort, IsLong
        <5>3. CASE n.idx = o.idx /\ n.subidx = o.subidx BY <2>1, <2>7, <5>1, <5>3
        <5>4. CASE LastLetter(Arg(o, o.idx)) = Place(o)
          <6>1. x[2] \in 2..Place(o) BY <3>1, <3>3, <5>2, <5>4
          <6> QED BY <1>0, <5>1, <6>1
        <5> QED BY <5>1, <5>3, <5>4
      <4> QED BY <4>1, <4>2
    <3>5. Place(o) \in Nat BY <1>0 DEF Place
    <3>6. CASE x[2] = Place(o) BY <1>0, <2>3, <2>5, <2>7, <3>6
    <3>7. CASE x[2] < Place(o) BY <2>2, <2>4, <2>5, <3>7 DEF ReadBefore
    <3> QED BY <2>3, <3>4, <3>5, <3>6, <3>7
  <2> QED BY <2>6, <2>7
<1>2. ASSUME NEW x \in Places, NEW k \in 1..Argc(o), k <= o.idx, o.argv[k] = x[1],
             k = o.idx => x[2] <= Place(o)
      PROVE  x \in ReadSoFar(n)
  <2>1. k \in 1..Argc(n) /\ k <= n.idx /\ n.argv[k] = x[1] BY <1>0, <1>2
  <2>2. ASSUME k = n.idx, n.subidx > 0 PROVE x[2] <= n.subidx + 1
    <3>1. n.idx = o.idx /\ n.subidx = o.subidx BY <1>0, <1>2, <2>2
    <3>2. Place(o) = n.subidx + 1 BY <2>2, <3>1 DEF Place
    <3> QED BY <1>2, <2>2, <3>1, <3>2
  <2> QED BY <2>1, <2>2 DEF ReadSoFar
<1>3. ASSUME NEW x \in ReadBefore(o) PROVE x \in ReadSoFar(n)
  <2>1. PICK k \in 1..Argc(o) :
          k <= o.idx /\ o.argv[k] = x[1] /\ (k = o.idx => x[2] < Place(o))
    BY DEF ReadBefore
  <2>2. x \in Places /\ x[2] \in Nat /\ Place(o) \in Nat BY <1>0, PlaceParts DEF ReadBefore, Place
  <2>3. k = o.idx => x[2] <= Place(o) BY <2>1, <2>2
  <2> QED BY <1>2, <2>1, <2>2, <2>3
<1>4. Here(o) \in ReadSoFar(n)
  <2>1. Here(o)[1] = o.argv[o.idx] /\ Here(o)[2] = Place(o) BY <1>0
  <2>2. Place(o) <= Place(o) /\ o.idx <= o.idx BY <1>0 DEF Place
  <2> QED BY <1>0, <1>2, <2>1, <2>2
<1> QED BY <1>1, <1>3, <1>4

\* What the strings say stays while they do.
LEMMA ReadingStays ==
  ASSUME args' = args
  PROVE  /\ Places' = Places /\ \A k : IsTaken(k)' <=> IsTaken(k)
         /\ NoLetterIsMistaken' <=> NoLetterIsMistaken
         /\ \A x : TakesNext(x)' <=> TakesNext(x)
         /\ \A S : FlagsIn(S)' = FlagsIn(S) /\ WidthIn(S)' = WidthIn(S) /\ ErrorIn(S)' = ErrorIn(S)
<1>1. Places' = Places
  BY DEF Places, IsOptionAt, OptionsEnd, NamePlaces, IsLong, LastLetter, TakesRest, FirstEquals
<1>2. \A x : /\ TakesNext(x)' <=> TakesNext(x)
             /\ NameAt(x)' = NameAt(x) /\ Value(x)' = Value(x)
             /\ IsGiven(x)' <=> IsGiven(x)
  BY DEF TakesNext, NameAt, HasValue, Value, ValueIn, IsGiven, OptionsEnd, IsLong, LastLetter,
         TakesRest, FirstEquals
<1>3. \A x : Fault(x)' = Fault(x) BY <1>2 DEF Fault
<1>4. \A k : IsTaken(k)' <=> IsTaken(k) BY <1>1, <1>2 DEF IsTaken
<1>5. \A S : FlagsIn(S)' = FlagsIn(S) BY <1>2, <1>3 DEF FlagsIn
<1>6. \A S : WidthsIn(S)' = WidthsIn(S) /\ FaultsIn(S)' = FaultsIn(S)
  BY <1>2, <1>3 DEF WidthsIn, FaultsIn
<1>7. \A S : WidthIn(S)' = WidthIn(S) BY <1>2, <1>6 DEF WidthIn
<1>8. \A S : ErrorIn(S)' = ErrorIn(S) BY <1>3, <1>6 DEF ErrorIn
<1>9. NoLetterIsMistaken' <=> NoLetterIsMistaken
  BY DEF NoLetterIsMistaken, MistakesALetter, IsOptionAt, OptionsEnd, IsLong, LastLetter,
         TakesRest, FirstEquals
<1> QED BY <1>1, <1>2, <1>4, <1>5, <1>7, <1>8, <1>9

\* The reading of an option: the place is read, and the value of a width is passed with it.
HereIsRead(n) ==
  /\ \A j \in 1..Argc(Opt) : j <= Opt.idx => n.argv[j] = Opt.argv[j]
  /\ OptionsFollow(n)
  /\ \/ n.idx = Opt.idx /\ n.subidx = Opt.subidx /\ NextIs(n) /\ GroupGoesOn(Opt, Opt.subidx + 1)
        /\ ~TakesNext(Here(Opt))
     \/ n.idx = Opt.idx /\ n.subidx = 0 /\ (Opt.subidx > 0 => LastLetter(Element) = Place(Opt))
        /\ ~TakesNext(Here(Opt))
     \/ /\ n.idx = Opt.idx + 1 /\ n.subidx = 0 /\ n.idx <= Argc(n) /\ ~IsOption(Arg(n, n.idx))
        /\ Opt.subidx > 0 => LastLetter(Element) = Place(Opt)
        /\ TakesNext(Here(Opt)) /\ n.argv[n.idx] = Opt.argv[Opt.idx] + 1

LEMMA ArgvStep ==
  ASSUME IInv, ReadInv, Turn, NEW n, CoptInv(n), HereIsRead(n)
  PROVE  ArgvReadInv(n) /\ ReadSoFar(n) = ReadBefore(Opt) \cup {Here(Opt)}
<1>1. /\ CoptInv(Opt) /\ ArgvInv(Opt) /\ ArgsOK /\ Argc(Opt) \in Nat
      /\ Opt.idx \in 1..Argc(Opt) /\ Opt.subidx \in Nat /\ Element = Arg(Opt, Opt.idx)
      /\ IsOption(Element) /\ (Opt.subidx = 0 => IsLong(Element))
  BY TurnElement
<1>2. /\ NoDashDash(Opt) /\ TakenFollow(Opt, Opt.idx) /\ TakenRead(Opt, ReadBefore(Opt))
  BY TurnReads
<1>3. Argc(n) = Argc(Opt) /\ ArgvInv(n) /\ n.idx \in Nat /\ n.subidx \in Nat
  BY <1>1 DEF CoptInv, ArgvInv
<1>4. /\ \A j \in 1..Argc(Opt) : j <= Opt.idx => n.argv[j] = Opt.argv[j]
      /\ OptionsFollow(n)
  BY DEF HereIsRead
<1>5. Here(Opt) \in Places /\ Here(Opt)[1] = Opt.argv[Opt.idx] BY HereIsNext
<1>6. ReadSoFar(n) = ReadBefore(Opt) \cup {Here(Opt)}
  <2> DEFINE o == Opt
  <2>1. /\ CoptInv(o) /\ 1 <= o.idx /\ o.idx <= Argc(o) /\ IsOption(Arg(o, o.idx))
        /\ o.subidx = 0 => IsLong(Arg(o, o.idx))
        /\ Here(o) \in Places
        /\ \A j \in 1..Argc(o) : j <= o.idx => n.argv[j] = o.argv[j]
        /\ \/ n.idx = o.idx /\ n.subidx = o.subidx
           \/ /\ n.subidx = 0 /\ (o.subidx > 0 => LastLetter(Arg(o, o.idx)) = Place(o))
              /\ \/ n.idx = o.idx
                 \/ n.idx = o.idx + 1 /\ n.idx <= Argc(n) /\ ~IsOption(Arg(n, n.idx))
    BY <1>1, <1>4, <1>5 DEF HereIsRead
  <2> HIDE DEF o
  <2>2. ReadSoFar(n) = ReadBefore(o) \cup {Here(o)} BY <1>1, <1>3, <2>1, ReadAfter
  <2> QED BY <2>2 DEF o
\* Of what the reading passes, only a width's value is not an option.
<1>7. ASSUME NEW j \in 1..Argc(n), j <= n.idx
      PROVE  \/ j <= Opt.idx /\ n.argv[j] = Opt.argv[j] /\ Arg(n, j) = Arg(Opt, j)
             \/ /\ j = n.idx /\ n.idx = Opt.idx + 1 /\ ~IsOption(Arg(n, j))
                /\ TakesNext(Here(Opt)) /\ n.argv[j] = Opt.argv[Opt.idx] + 1
  <2>1. CASE j <= Opt.idx BY <1>1, <1>3, <1>4, <2>1 DEF Arg
  <2>2. CASE ~(j <= Opt.idx) BY <1>1, <1>3, <1>7, <2>2 DEF HereIsRead
  <2> QED BY <2>1, <2>2
<1>8. NoDashDash(n)
  <2> SUFFICES ASSUME NEW j \in 1..Argc(n), j <= n.idx PROVE Arg(n, j) # DashDash
    BY DEF NoDashDash
  <2>1. IsOption(DashDash) BY DEF IsOption, DashDash
  <2> QED BY <1>2, <1>3, <1>7, <2>1 DEF NoDashDash
<1>9. GroupGoesOn(n, n.subidx + 1) /\ (n.subidx > 0 => NextIs(n))
  <2>1. CASE n.subidx = 0 BY <2>1 DEF GroupGoesOn
  <2>2. CASE n.subidx # 0
    <3>1. /\ n.idx = Opt.idx /\ n.subidx = Opt.subidx /\ GroupGoesOn(Opt, Opt.subidx + 1)
          /\ NextIs(n)
      BY <2>2 DEF HereIsRead
    <3>2. Arg(n, n.idx) = Arg(Opt, Opt.idx) BY <1>1, <1>4, <3>1 DEF Arg
    <3> QED BY <3>1, <3>2 DEF GroupGoesOn
  <2> QED BY <2>1, <2>2
<1>10. n.idx >= Opt.idx BY <1>1, <1>3 DEF HereIsRead
<1>11. TakenFollow(n, n.idx)
  <2> SUFFICES ASSUME NEW j \in 1..Argc(n), j <= n.idx, ~IsOption(Arg(n, j))
               PROVE  /\ IsTaken(n.argv[j])
                      /\ \E i \in 1..Argc(n) :
                           i <= n.idx /\ IsOption(Arg(n, i)) /\ n.argv[j] = n.argv[i] + 1
    BY DEF TakenFollow
  <2>1. CASE j <= Opt.idx /\ n.argv[j] = Opt.argv[j] /\ Arg(n, j) = Arg(Opt, j)
    <3>1. /\ IsTaken(Opt.argv[j])
          /\ \E i \in 1..Argc(Opt) :
               i <= Opt.idx /\ IsOption(Arg(Opt, i)) /\ Opt.argv[j] = Opt.argv[i] + 1
      BY <1>2, <1>3, <2>1 DEF TakenFollow
    <3>2. PICK i \in 1..Argc(Opt) :
            i <= Opt.idx /\ IsOption(Arg(Opt, i)) /\ Opt.argv[j] = Opt.argv[i] + 1
      BY <3>1
    <3>3. i \in 1..Argc(n) /\ i <= n.idx /\ n.argv[i] = Opt.argv[i] /\ Arg(n, i) = Arg(Opt, i)
      BY <1>1, <1>3, <1>4, <1>10, <3>2 DEF Arg
    <3> QED BY <2>1, <3>1, <3>2, <3>3
  <2>2. CASE TakesNext(Here(Opt)) /\ n.argv[j] = Opt.argv[Opt.idx] + 1
    <3>1. IsTaken(n.argv[j]) BY <1>5, <2>2 DEF IsTaken
    <3>2. /\ Opt.idx \in 1..Argc(n) /\ Opt.idx <= n.idx /\ IsOption(Arg(n, Opt.idx))
          /\ n.argv[Opt.idx] = Opt.argv[Opt.idx]
      BY <1>1, <1>3, <1>4, <1>10 DEF Arg
    <3> QED BY <2>2, <3>1, <3>2
  <2> QED BY <1>7, <2>1, <2>2
<1>12. TakenRead(n, ReadSoFar(n))
  <2> SUFFICES ASSUME NEW x \in ReadBefore(Opt) \cup {Here(Opt)}, TakesNext(x)
               PROVE  \E j \in 1..Argc(n) : j <= n.idx /\ n.argv[j] = x[1] + 1
    BY <1>6 DEF TakenRead
  <2>1. CASE x \in ReadBefore(Opt)
    <3>1. PICK j \in 1..Argc(Opt) : j <= Opt.idx /\ Opt.argv[j] = x[1] + 1
      BY <1>2, <2>1 DEF TakenRead
    <3>2. j \in 1..Argc(n) /\ j <= n.idx /\ n.argv[j] = Opt.argv[j]
      BY <1>1, <1>3, <1>4, <1>10, <3>1
    <3> QED BY <3>1, <3>2
  <2>2. CASE x = Here(Opt)
    <3>1. n.idx = Opt.idx + 1 /\ n.idx <= Argc(n) /\ n.argv[n.idx] = Opt.argv[Opt.idx] + 1
      BY <2>2 DEF HereIsRead
    <3>2. n.idx \in 1..Argc(n) /\ n.idx <= n.idx BY <1>1, <1>3, <3>1
    <3> QED BY <1>5, <2>2, <3>1, <3>2
  <2> QED BY <2>1, <2>2
<1> QED BY <1>4, <1>6, <1>8, <1>9, <1>11, <1>12 DEF ArgvReadInv

\* With what the place says added to the options so far, the invariant goes on.
LEMMA ReadStep ==
  ASSUME IInv, ReadInv, Turn, args' = args, NEW n, copt' = n, CoptInv(n), HereIsRead(n),
         flags' = flags \cup {f \in DOMAIN Spelling : Name \in Spelling[f] /\ Fault(Here(Opt)) = "none"},
         width' = IF Name \in WidthSpelling /\ Fault(Here(Opt)) = "none"
                  THEN Decimal(Value(Here(Opt))) ELSE width,
         error' = IF error = "none" THEN Fault(Here(Opt)) ELSE error
  PROVE  ReadInv'
<1> DEFINE S == ReadBefore(Opt) \cup {Here(Opt)}
<1>1. ArgvReadInv(n) /\ ReadSoFar(n) = S BY ArgvStep
<1>2. Reads(ReadBefore(Opt)) BY TurnReads
<1>3. /\ Here(Opt) \in Places /\ NameAt(Here(Opt)) = Name /\ ReadBefore(Opt) \in SUBSET Places
      /\ \A y \in ReadBefore(Opt) : Before(y, Here(Opt))
  BY HereIsNext
<1>4. flags' = FlagsIn(S) /\ width' = WidthIn(S) /\ error' = ErrorIn(S)
  <2>1. ArgsOK BY DEF IInv
  <2> QED BY <1>2, <1>3, <2>1, ReadOneMore DEF Reads
<1> HIDE DEF S
<1>5. ArgvReadInv(copt)'
  <2>1. OptionsFollow(copt)' BY <1>1 DEF ArgvReadInv, OptionsFollow, Arg, Argc
  <2>2. NoDashDash(copt)' BY <1>1 DEF ArgvReadInv, NoDashDash, Arg, Argc
  <2>3. GroupGoesOn(copt, copt.subidx + 1)'
    BY <1>1 DEF ArgvReadInv, GroupGoesOn, Arg, TakesRest, FirstEquals
  <2>4. TakenFollow(copt, copt.idx)'
    BY <1>1, ReadingStays DEF ArgvReadInv, TakenFollow, Arg, Argc
  <2>5. TakenRead(copt, ReadSoFar(copt))'
    <3>1. TakenRead(n, ReadSoFar(n)) BY <1>1 DEF ArgvReadInv
    <3>2. ReadSoFar(copt)' = ReadSoFar(n) BY ReadingStays DEF ReadSoFar, Argc
    <3> QED BY <3>1, <3>2, ReadingStays DEF TakenRead, Argc
  <2>6. (copt.subidx > 0 => NextIs(copt))' BY <1>1 DEF ArgvReadInv, NextIs, Arg, Argc
  <2> QED BY <2>1, <2>2, <2>3, <2>4, <2>5, <2>6 DEF ArgvReadInv
<1>6. (\E U : U = ReadSoFar(copt) /\ Reads(U))'
  <2>1. ReadSoFar(copt)' = ReadSoFar(n) BY ReadingStays DEF ReadSoFar, Argc
  <2>2. PICK U : U = S OBVIOUS
  <2>3. flags' = FlagsIn(U) /\ width' = WidthIn(U) /\ error' = ErrorIn(U) BY <1>4, <2>2
  <2>4. Reads(U)' BY <2>3, ReadingStays DEF Reads
  <2>5. U = ReadSoFar(copt)' BY <1>1, <2>1, <2>2
  <2> QED BY <2>4, <2>5
<1>7. NoLetterIsMistaken' BY ReadingStays DEF ReadInv
<1> QED BY <1>5, <1>6, <1>7 DEF ReadInv


\* An option that leaves the rest of its element or goes on in it, and moves nothing.
LEMMA FlagStep ==
  ASSUME IInv, ReadInv, Turn, Name \notin WidthSpelling,
         copt' = IF Attached THEN Leave(Opt) ELSE Opt
  PROVE  CoptInv(copt') /\ HereIsRead(copt')
<1>1. CoptInv(Opt) /\ ArgvInv(Opt) /\ Element = Arg(Opt, Opt.idx) /\ Opt.subidx \in Nat
  BY TurnElement
<1>2. OptionsFollow(Opt) /\ GroupGoesOn(Opt, Opt.subidx) /\ NextIs(Opt) BY TurnReads
<1>3. ~TakesNext(Here(Opt)) BY HereIsNext DEF TakesNext
<1>4. CASE Attached
  <2> DEFINE n == Leave(Opt)
  <2>1. CoptInv(n) BY <1>1, LeaveKeeps
  <2>2. n.argv = Opt.argv /\ n.idx = Opt.idx /\ n.subidx = 0 BY <1>1 DEF Leave, ArgvInv
  <2>3. copt' = n BY <1>4
  <2> HIDE DEF n
  <2>4. OptionsFollow(n) BY <1>2, <2>2 DEF OptionsFollow, Arg, Argc
  <2>5. Opt.subidx > 0 => LastLetter(Element) = Place(Opt) BY <1>4, LetterFacts
  <2>6. HereIsRead(n) BY <1>3, <2>2, <2>4, <2>5 DEF HereIsRead
  <2> QED BY <2>1, <2>3, <2>6
<1>5. CASE ~Attached
  <2>1. GroupGoesOn(Opt, Opt.subidx + 1)
    <3> SUFFICES ASSUME Opt.subidx > 0, NEW p \in 2..(Opt.subidx + 1)
                 PROVE  ~TakesRest(Element, p)
      BY <1>1 DEF GroupGoesOn
    <3>1. CASE p = Opt.subidx + 1
      <4>1. p = Place(Opt) BY <3>1 DEF Place
      <4> QED BY <1>5, <4>1, LetterFacts
    <3>2. CASE p # Opt.subidx + 1
      <4>1. p \in 2..Opt.subidx BY <1>1, <3>2
      <4> QED BY <1>1, <1>2, <4>1 DEF GroupGoesOn
    <3> QED BY <3>1, <3>2
  <2>2. HereIsRead(Opt) BY <1>2, <1>3, <2>1 DEF HereIsRead
  <2> QED BY <1>1, <1>5, <2>2
<1> QED BY <1>4, <1>5

LEMMA ReadFlagReads ==
  ASSUME IInv, ReadInv, NEW f \in DOMAIN Spelling, ReadFlag(f)
  PROVE  ReadInv'
<1>1. Turn /\ Name \in Spelling[f] /\ args' = args /\ width' = width BY DEF ReadFlag
<1>2. /\ Fault(Here(Opt)) = IF Attached THEN "attached" ELSE "none"
      /\ \A g \in DOMAIN Spelling : g # f => Name \notin Spelling[g]
      /\ Name \notin WidthSpelling
  BY <1>1, FlagHere
<1>3. /\ copt' = IF Attached THEN Leave(Opt) ELSE Opt
      /\ flags' = IF Attached THEN flags ELSE flags \cup {f}
      /\ error' = IF Attached THEN FirstError("attached") ELSE error
  BY DEF ReadFlag
<1>4. flags' = flags \cup {g \in DOMAIN Spelling : Name \in Spelling[g] /\ Fault(Here(Opt)) = "none"}
  BY <1>1, <1>2, <1>3
<1>5. error' = IF error = "none" THEN Fault(Here(Opt)) ELSE error BY <1>2, <1>3 DEF FirstError
<1>6. CoptInv(copt') /\ HereIsRead(copt') BY <1>1, <1>2, <1>3, FlagStep
<1>7. PICK n : n = copt' OBVIOUS
<1> QED BY <1>1, <1>2, <1>4, <1>5, <1>6, <1>7, ReadStep

LEMMA ReadUnknownReads ==
  ASSUME IInv, ReadInv, ReadUnknown
  PROVE  ReadInv'
<1>1. /\ Turn /\ Name \notin Known /\ args' = args /\ flags' = flags /\ width' = width
      /\ copt' = IF Attached THEN Leave(Opt) ELSE Opt
      /\ error' = FirstError("unknown")
  BY DEF ReadUnknown
<1>2. Name \notin WidthSpelling /\ \A g \in DOMAIN Spelling : Name \notin Spelling[g]
  <2>1. Name \notin UNION {Spelling[g] : g \in DOMAIN Spelling} BY <1>1 DEF Known
  <2>2. \A g \in DOMAIN Spelling : Spelling[g] \in {Spelling[h] : h \in DOMAIN Spelling} OBVIOUS
  <2>3. Name \notin WidthSpelling BY <1>1 DEF Known
  <2> QED BY <1>1, <2>1, <2>2, <2>3
<1>3. Fault(Here(Opt)) = "unknown" BY <1>1, <1>2, HereIsNext DEF Fault
<1>4. flags' = flags \cup {g \in DOMAIN Spelling : Name \in Spelling[g] /\ Fault(Here(Opt)) = "none"}
  BY <1>1, <1>2
<1>5. error' = IF error = "none" THEN Fault(Here(Opt)) ELSE error BY <1>1, <1>3 DEF FirstError
<1>6. CoptInv(copt') /\ HereIsRead(copt') BY <1>1, <1>2, FlagStep
<1>7. PICK n : n = copt' OBVIOUS
<1> QED BY <1>1, <1>2, <1>4, <1>5, <1>6, <1>7, ReadStep

\* A width that takes the element behind it: that element follows it again, and is its value.
LEMMA NextTaken ==
  ASSUME IInv, ReadInv, Turn, Name \in WidthSpelling, ~HasInline, Opt.argidx <= Argc(Opt),
         NEW n, n = [Leave(ArgBroughtBack(Opt)) EXCEPT !.idx = @ + 1]
  PROVE  /\ CoptInv(n) /\ HereIsRead(n)
         /\ Arg(n, n.idx) = args[Here(Opt)[1] + 1] /\ Arg(n, n.idx) \in Seq(Char)
<1> DEFINE o == Opt
           k == Opt.idx + 1
<1>1. /\ CoptInv(Opt) /\ ArgvInv(Opt) /\ ArgsOK /\ Element = Arg(Opt, Opt.idx)
      /\ Opt.idx \in 1..Argc(Opt) /\ Argc(Opt) \in Nat
  BY TurnElement
<1>2. Behind(Opt) /\ OptionsFollow(Opt) /\ NextIs(Opt) BY TurnFacts, TurnReads DEF Turn
<1>3. /\ CoptInv(n) /\ n.idx <= Argc(n) /\ n.idx = k /\ n.subidx = 0
      /\ n.argv = RotateRight(o.argv, k, o.argidx)
  BY <1>1, <1>2, ArgTakenKeeps
<1>4. /\ k \in 1..Len(o.argv) /\ o.argidx \in 1..Len(o.argv) /\ k <= o.argidx
      /\ Len(o.argv) \in Nat /\ o.idx \in Nat
  BY <1>1, <1>2 DEF Behind, ArgvInv, Argc
<1>5. Argc(n) = Argc(o) /\ Len(n.argv) = Len(o.argv) BY <1>1, <1>3 DEF CoptInv, ArgvInv, Argc
<1>6. /\ o.argidx > o.idx /\ ~IsOption(args[o.argv[o.argidx]])
      /\ o.argv[o.argidx] = o.argv[o.idx] + 1
  BY <1>1, <1>2 DEF ArgvInv, Behind, Arg, NextIs
<1>7. TakesNext(Here(Opt)) /\ Here(Opt)[1] = Opt.argv[Opt.idx] BY WidthHere, HereIsNext
<1>8. Opt.subidx > 0 => LastLetter(Element) = Place(Opt) BY LetterFacts
<1>9. k = o.idx + 1 /\ o = Opt OBVIOUS
<1> HIDE DEF k, o
<1>10. /\ \A j \in 1..Len(o.argv) : j < k \/ j > o.argidx => n.argv[j] = o.argv[j]
       /\ n.argv[k] = o.argv[o.argidx]
       /\ \A j \in 1..Len(o.argv) : k < j /\ j <= o.argidx =>
            j - 1 \in 1..Len(o.argv) /\ n.argv[j] = o.argv[j - 1]
  <2> DEFINE r == RotateRight(o.argv, k, o.argidx)
  <2>1. /\ \A j \in 1..Len(o.argv) : j < k \/ j > o.argidx => r[j] = o.argv[j]
        /\ r[k] = o.argv[o.argidx]
        /\ \A j \in 1..Len(o.argv) : k < j /\ j <= o.argidx =>
             j - 1 \in 1..Len(o.argv) /\ r[j] = o.argv[j - 1]
    BY <1>4, RotateRightPlaces
  <2>2. n.argv = r BY <1>3
  <2> HIDE DEF r
  <2> QED BY <2>1, <2>2
<1>11. ~IsOption(Arg(n, n.idx)) /\ n.argv[n.idx] = o.argv[o.idx] + 1
  BY <1>3, <1>6, <1>10 DEF Arg
<1>12. \A j \in 1..Argc(Opt) : j <= Opt.idx => n.argv[j] = Opt.argv[j]
  BY <1>4, <1>9, <1>10 DEF Argc
<1>13. OptionsFollow(n)
  <2> SUFFICES ASSUME NEW i \in 1..Len(o.argv), NEW j \in 1..Len(o.argv), i <= k, i < j,
                      IsOption(Arg(n, i)), IsOption(Arg(n, j))
               PROVE  n.argv[i] < n.argv[j]
    BY <1>3, <1>5 DEF OptionsFollow, Argc
  <2>1. i < k /\ n.argv[i] = o.argv[i]
    <3>1. i # k BY <1>3, <1>11
    <3>2. i < k BY <1>4, <3>1
    <3> QED BY <1>10, <3>2
  <2>2. i <= o.idx /\ IsOption(Arg(o, i)) BY <1>4, <1>9, <2>1 DEF Arg
  <2>3. PICK m \in 1..Len(o.argv) : i < m /\ n.argv[j] = o.argv[m]
    <3>1. j # k BY <1>3, <1>11
    <3>2. CASE j < k \/ j > o.argidx BY <1>10, <3>2
    <3>3. CASE ~(j < k \/ j > o.argidx)
      <4>1. k < j /\ j <= o.argidx BY <1>4, <3>1, <3>3
      <4>2. j - 1 \in 1..Len(o.argv) /\ n.argv[j] = o.argv[j - 1] BY <1>10, <4>1
      <4>3. i < j - 1 BY <1>4, <2>1, <4>1
      <4> QED BY <4>2, <4>3
    <3> QED BY <3>2, <3>3
  <2>4. IsOption(Arg(o, m)) BY <2>3 DEF Arg
  <2>5. o.argv[i] < o.argv[m] BY <1>2, <1>9, <2>2, <2>3, <2>4 DEF OptionsFollow, Argc
  <2> QED BY <2>1, <2>3, <2>5
<1>14. HereIsRead(n)
  BY <1>3, <1>7, <1>8, <1>9, <1>11, <1>12, <1>13 DEF HereIsRead
<1>15. Arg(n, n.idx) = args[Here(Opt)[1] + 1] BY <1>7, <1>9, <1>11 DEF Arg
<1>16. Arg(n, n.idx) \in Seq(Char)
  <2>1. n.idx \in 1..Argc(n) BY <1>1, <1>3, <1>4, <1>5 DEF Argc
  <2> QED BY <1>1, <1>3, <2>1, ElementLen DEF CoptInv
<1> QED BY <1>3, <1>14, <1>15, <1>16

LEMMA ReadWidthReads ==
  ASSUME IInv, ReadInv, ReadWidth
  PROVE  ReadInv'
<1>1. Turn /\ Name \in WidthSpelling /\ args' = args /\ flags' = flags BY DEF ReadWidth
<1>2. /\ CoptInv(Opt) /\ ArgvInv(Opt) /\ ArgsOK /\ Element = Arg(Opt, Opt.idx)
      /\ Opt.idx \in 1..Argc(Opt) /\ Argc(Opt) \in Nat
  BY <1>1, TurnElement
<1>3. Behind(Opt) /\ OptionsFollow(Opt) BY <1>1, TurnFacts, TurnReads DEF Turn
<1>4. flags' = flags \cup {g \in DOMAIN Spelling : Name \in Spelling[g] /\ Fault(Here(Opt)) = "none"}
  <2>1. \A g \in DOMAIN Spelling : Name \notin Spelling[g] BY <1>1 DEF Spelling, WidthSpelling
  <2> QED BY <1>1, <2>1
<1>5. Opt.subidx > 0 => LastLetter(Element) = Place(Opt) BY <1>1, LetterFacts
<1>6. /\ HasInline <=> HasValue(Element, Place(Opt))
      /\ HasInline => Inline = ValueIn(Element, Place(Opt))
      /\ ~HasInline => (TakesNext(Here(Opt)) <=> Opt.argidx <= Argc(Opt))
  BY <1>1, WidthHere
<1>7. /\ NameAt(Here(Opt)) = Name /\ args[Here(Opt)[1]] = Element /\ Here(Opt)[2] = Place(Opt)
  BY <1>1, HereIsNext
<1>8. Fault(Here(Opt)) = IF IsGiven(Here(Opt)) THEN WidthFault(Value(Here(Opt))) ELSE "missing"
  BY <1>1, <1>7 DEF Fault
\* A value that is given is stored or found at fault.
<1>9. ASSUME NEW text \in Seq(Char), TakeWidth(text), IsGiven(Here(Opt)), text = Value(Here(Opt))
      PROVE  /\ width' = IF Fault(Here(Opt)) = "none" THEN Decimal(Value(Here(Opt))) ELSE width
             /\ error' = IF error = "none" THEN Fault(Here(Opt)) ELSE error
  <2>1. Fault(Here(Opt)) = WidthFault(text) BY <1>8, <1>9
  <2>2. IF WidthFault(text) = "none"
        THEN width' = Decimal(text) /\ error' = error
        ELSE width' = width /\ error' = FirstError(WidthFault(text))
    BY <1>9, TakeWidthReads
  <2> QED BY <1>9, <2>1, <2>2 DEF FirstError
\* An option that moves nothing.
<1>10. ASSUME copt' = Leave(Opt), ~TakesNext(Here(Opt))
       PROVE  CoptInv(copt') /\ HereIsRead(copt')
  <2> DEFINE n == Leave(Opt)
  <2>1. CoptInv(n) BY <1>2, LeaveKeeps
  <2>2. n.argv = Opt.argv /\ n.idx = Opt.idx /\ n.subidx = 0 BY <1>2 DEF Leave, ArgvInv
  <2>3. copt' = n BY <1>10
  <2> HIDE DEF n
  <2>4. OptionsFollow(n) BY <1>3, <2>2 DEF OptionsFollow, Arg, Argc
  <2>5. HereIsRead(n) BY <1>5, <1>10, <2>2, <2>4 DEF HereIsRead
  <2> QED BY <2>1, <2>3, <2>5
<1>11. PICK n : n = copt' OBVIOUS
<1>12. CASE HasInline
  <2>1. copt' = Leave(Opt) /\ TakeWidth(Inline) BY <1>12 DEF ReadWidth
  <2>2. HasValue(args[Here(Opt)[1]], Here(Opt)[2]) BY <1>6, <1>7, <1>12
  <2>3. ~TakesNext(Here(Opt)) /\ IsGiven(Here(Opt)) BY <2>2 DEF TakesNext, IsGiven
  <2>4. Inline = Value(Here(Opt)) BY <1>6, <1>7, <1>12, <2>2 DEF Value
  <2>5. Inline \in Seq(Char) BY <1>2, <1>12, InlineType
  <2>6. /\ width' = IF Fault(Here(Opt)) = "none" THEN Decimal(Value(Here(Opt))) ELSE width
        /\ error' = IF error = "none" THEN Fault(Here(Opt)) ELSE error
    BY <1>9, <2>1, <2>3, <2>4, <2>5
  <2>7. CoptInv(copt') /\ HereIsRead(copt') BY <1>10, <2>1, <2>3
  <2> QED BY <1>1, <1>4, <1>11, <2>6, <2>7, ReadStep
<1>13. CASE ~HasInline /\ Opt.argidx <= Argc(Opt)
  <2>1. HasNext BY <1>2, <1>3, <1>13, ArgTakenKeeps DEF HasNext
  <2>2. /\ copt' = [Leave(ArgBroughtBack(Opt)) EXCEPT !.idx = @ + 1]
        /\ TakeWidth(Arg(copt', copt'.idx))
    BY <1>13, <2>1 DEF ReadWidth
  <2>3. /\ CoptInv(n) /\ HereIsRead(n)
        /\ Arg(n, n.idx) = args[Here(Opt)[1] + 1] /\ Arg(n, n.idx) \in Seq(Char)
    BY <1>1, <1>11, <1>13, <2>2, NextTaken
  <2>4. TakesNext(Here(Opt)) /\ IsGiven(Here(Opt)) BY <1>6, <1>13 DEF IsGiven
  <2>5. Arg(n, n.idx) = Value(Here(Opt)) BY <2>3, <2>4 DEF Value, TakesNext
  <2>6. TakeWidth(Arg(n, n.idx)) BY <1>11, <2>2
  <2>7. /\ width' = IF Fault(Here(Opt)) = "none" THEN Decimal(Value(Here(Opt))) ELSE width
        /\ error' = IF error = "none" THEN Fault(Here(Opt)) ELSE error
    BY <1>9, <2>3, <2>4, <2>5, <2>6
  <2> QED BY <1>1, <1>4, <1>11, <2>3, <2>7, ReadStep
<1>14. CASE ~HasInline /\ ~(Opt.argidx <= Argc(Opt))
  <2>1. Opt.argidx \in Nat /\ ~HasNext BY <1>2, <1>14 DEF ArgvInv, HasNext
  <2>2. Opt.argidx > Argc(Opt) BY <1>2, <1>14, <2>1
  <2>3. copt' = Leave(Opt) /\ error' = FirstError("missing") /\ width' = width
    BY <1>14, <2>1, <2>2 DEF ReadWidth
  <2>4. ~HasValue(args[Here(Opt)[1]], Here(Opt)[2]) BY <1>6, <1>7, <1>14
  <2>5. ~TakesNext(Here(Opt)) /\ ~IsGiven(Here(Opt)) BY <1>6, <1>14, <2>4 DEF IsGiven
  <2>6. Fault(Here(Opt)) = "missing" BY <1>8, <2>5
  <2>7. CoptInv(copt') /\ HereIsRead(copt') BY <1>10, <2>3, <2>5
  <2>8. /\ width' = IF Name \in WidthSpelling /\ Fault(Here(Opt)) = "none"
                    THEN Decimal(Value(Here(Opt))) ELSE width
        /\ error' = IF error = "none" THEN Fault(Here(Opt)) ELSE error
    BY <2>3, <2>6 DEF FirstError
  <2> QED BY <1>1, <1>4, <1>11, <2>7, <2>8, ReadStep
<1> QED BY <1>12, <1>13, <1>14

-----------------------------------------------------------------------------
(* What has been read when the loop ends *)

\* The loop ends behind a whole element, with no option in front of "--" left.
LEMMA LoopEnds ==
  ASSUME IInv, ReadInv, pc = "options", ~IsAtOption(Opt)
  PROVE  LET n == NextElement(copt)
         IN  /\ ~InCluster(copt) /\ Opt = n
             /\ ArgvInv(n) /\ n.idx = copt.idx + 1 /\ OptionsFollow(n)
             /\ \A j \in 1..Argc(copt) : j <= copt.idx => n.argv[j] = copt.argv[j]
             /\ n.idx <= Argc(n) =>
                  \/ Arg(n, n.idx) = DashDash
                  \/ n.argv = copt.argv /\ \A k \in 1..Argc(n) : k >= n.idx => ~IsOption(Arg(n, k))
<1> DEFINE o == copt
           n == NextElement(o)
<1>0. /\ ArgsOK /\ CoptInv(o) /\ ArgvInv(o) /\ o.idx <= Argc(o) /\ OptionsFollow(o)
      /\ TakenFollow(o, o.idx)
      /\ o \in [argv : Seq(Elements), idx : Nat, subidx : Nat, argidx : Nat]
  BY DEF IInv, CoptInv, ArgvInv, ReadInv, ArgvReadInv
<1>1. Opt = IF InCluster(o) THEN [o EXCEPT !.subidx = @ + 1]
            ELSE IF IsAtOption(n) /\ IsShort(n) THEN [n EXCEPT !.subidx = 1] ELSE n
  BY DEF Opt, NextOption
<1>2. ArgvInv(n) /\ n.idx = o.idx + 1 BY <1>0, NextElementKeeps
<1>3. /\ \A j \in 1..Argc(o) : j <= o.idx => n.argv[j] = o.argv[j]
      /\ OptionsFollow(n)
      /\ n.idx <= Argc(n) /\ ~IsOption(Arg(n, n.idx)) =>
           n.argv = o.argv /\ \A k \in 1..Argc(n) : k >= n.idx => ~IsOption(Arg(n, k))
  BY <1>0, NextElementFollows
<1> HIDE DEF n
<1>4. ~InCluster(o)
  <2> SUFFICES ASSUME InCluster(o) PROVE FALSE OBVIOUS
  <2>1. o.subidx > 0 BY DEF InCluster
  <2>2. IsOption(Arg(o, o.idx)) /\ IsShort(o) BY <1>0, <2>1 DEF CoptInv, GroupInv
  <2>3. Arg(o, o.idx) # DashDash BY <2>2 DEF IsShort, DashDash
  <2>4. Opt.argv = o.argv /\ Opt.idx = o.idx BY <1>0, <1>1
  <2> QED BY <1>0, <2>2, <2>3, <2>4 DEF IsAtOption, Arg, Argc
<1>5. ~IsAtOption(n)
  <2> SUFFICES ASSUME IsAtOption(n) PROVE FALSE OBVIOUS
  <2>1. CASE IsShort(n)
    <3>1. Opt.argv = n.argv /\ Opt.idx = n.idx BY <1>1, <1>2, <1>4, <2>1 DEF ArgvInv
    <3> QED BY <3>1 DEF IsAtOption, Arg, Argc
  <2>2. CASE ~IsShort(n) BY <1>1, <1>4, <2>2
  <2> QED BY <2>1, <2>2
<1>6. Opt = n BY <1>1, <1>4, <1>5
<1> QED BY <1>2, <1>3, <1>4, <1>5, <1>6 DEF n, IsAtOption

\* It has then read the options that stand before "--", and no other element that is one.
LEMMA AllOptionsRead ==
  ASSUME IInv, ReadInv, pc = "options", ~IsAtOption(Opt),
         NEW x \in Elements, IsOption(args[x])
  PROVE  x < OptionsEnd <=> \E k \in 1..Argc(copt) : k <= copt.idx /\ copt.argv[k] = x
<1> DEFINE n == NextElement(copt)
<1>0. /\ ArgsOK /\ ArgvInv(copt) /\ OptionsFollow(copt) /\ NoDashDash(copt)
      /\ Len(args) \in Nat /\ Argc(copt) = Len(args) /\ copt.idx \in Nat
  BY LenProperties DEF IInv, CoptInv, ReadInv, ArgvReadInv, ArgvInv, ArgsOK
<1>1. /\ ArgvInv(n) /\ n.idx = copt.idx + 1 /\ OptionsFollow(n)
      /\ \A j \in 1..Argc(copt) : j <= copt.idx => n.argv[j] = copt.argv[j]
      /\ n.idx <= Argc(n) =>
           \/ Arg(n, n.idx) = DashDash
           \/ \A k \in 1..Argc(n) : k >= n.idx => ~IsOption(Arg(n, k))
  BY LoopEnds
<1> HIDE DEF n
<1>2. /\ OptionsEnd \in 1..(Len(args) + 1)
      /\ \A k \in 1..Len(args) : args[k] = DashDash => OptionsEnd <= k
  BY <1>0, OptionsEndFacts
<1>3. IsOption(DashDash) BY DEF IsOption, DashDash
<1>4. ASSUME x < OptionsEnd PROVE \E k \in 1..Argc(copt) : k <= copt.idx /\ copt.argv[k] = x
  <2>1. PICK k \in 1..Argc(n) : n.argv[k] = x BY <1>0, <1>1, ArgvOnto
  <2>2. Argc(n) = Argc(copt) BY <1>0, <1>1 DEF ArgvInv
  <2>3. CASE k <= copt.idx BY <1>1, <2>1, <2>2, <2>3
  <2>4. CASE ~(k <= copt.idx)
    <3>1. n.idx <= k /\ n.idx \in 1..Argc(n) BY <1>0, <1>1, <2>2, <2>4
    <3>2. IsOption(Arg(n, k)) BY <2>1 DEF Arg
    <3>3. Arg(n, n.idx) = DashDash BY <1>1, <3>1, <3>2
    <3>4. n.argv[n.idx] \in 1..Len(args) BY <1>0, <1>1, <3>1, ElementLen DEF Elements
    <3>5. OptionsEnd <= n.argv[n.idx] BY <1>2, <3>3, <3>4 DEF Arg
    <3>6. n.argv[n.idx] <= x
      <4>1. CASE k = n.idx BY <1>0, <2>1, <4>1 DEF Elements
      <4>2. CASE k # n.idx
        <5>1. n.idx < k /\ n.idx <= n.idx BY <1>0, <1>1, <2>2, <3>1, <4>2
        <5>2. n.argv[n.idx] < n.argv[k]
          BY <1>0, <1>1, <1>3, <3>1, <3>2, <3>3, <5>1 DEF OptionsFollow
        <5> QED BY <2>1, <3>4, <5>2 DEF Elements
      <4> QED BY <4>1, <4>2
    <3> QED BY <1>0, <1>2, <1>4, <3>4, <3>5, <3>6 DEF Elements
  <2> QED BY <2>3, <2>4
<1>5. ASSUME NEW k \in 1..Argc(copt), k <= copt.idx, copt.argv[k] = x PROVE x < OptionsEnd
  <2>1. IsOption(Arg(copt, k)) BY <1>5 DEF Arg
  <2>2. IsOptionAt(copt.argv[k])
    <3> DEFINE o == copt
    <3>1. ArgvInv(o) /\ OptionsFollow(o) /\ NoDashDash(o) /\ k \in 1..Argc(o) /\ k <= o.idx
          /\ IsOption(Arg(o, k))
      BY <1>0, <1>5, <2>1
    <3> HIDE DEF o
    <3>2. IsOptionAt(o.argv[k]) BY <1>0, <3>1, ReadIsOption
    <3> QED BY <3>2 DEF o
  <2> QED BY <1>5, <2>2 DEF IsOptionAt
<1> QED BY <1>4, <1>5

\* Every place of the command line has then been read.
LEMMA AllPlacesRead ==
  ASSUME IInv, ReadInv, pc = "options", ~IsAtOption(Opt)
  PROVE  ReadSoFar(copt) = Places
<1>0. /\ ArgsOK /\ ArgvInv(copt) /\ CoptInv(copt) /\ Len(args) \in Nat /\ Argc(copt) = Len(args)
      /\ copt.idx \in Nat /\ copt.subidx \in Nat
  BY LenProperties DEF IInv, CoptInv, ArgvInv, ArgsOK
<1>1. SUFFICES ASSUME NEW x \in Places PROVE x \in ReadSoFar(copt)
  BY DEF ReadSoFar
<1>2. x[1] \in Elements /\ x[2] \in Nat /\ IsOptionAt(x[1]) /\ x[2] \in NamePlaces(args[x[1]])
  BY <1>0, PlaceParts
<1>3. IsOption(args[x[1]]) /\ x[1] < OptionsEnd BY <1>2 DEF IsOptionAt
<1>4. PICK k \in 1..Argc(copt) : k <= copt.idx /\ copt.argv[k] = x[1]
  BY <1>2, <1>3, AllOptionsRead
<1>5. ASSUME k = copt.idx, copt.subidx > 0 PROVE x[2] <= copt.subidx + 1
  <2>1. Arg(copt, k) = args[x[1]] BY <1>4 DEF Arg
  <2>2. args[x[1]] \in Seq(Char) /\ Len(args[x[1]]) \in Nat
    BY <1>0, <1>2, ElementIs, LenProperties
  <2>3. ~(copt.subidx + 2 <= Len(args[x[1]])) BY <1>5, <2>1, LoopEnds DEF InCluster
  <2>4. ~IsLong(args[x[1]]) BY <1>0, <1>5, <2>1 DEF CoptInv, GroupInv, IsShort, IsLong
  <2>5. x[2] \in 2..Len(args[x[1]]) BY <1>2, <1>3, <2>2, <2>4, NamePlacesBounds
  <2> QED BY <1>0, <2>2, <2>3, <2>5
<1> QED BY <1>1, <1>4, <1>5 DEF ReadSoFar

\* What stands behind the options that were read, "--" left aside, are the operands.
LEMMA OperandsBehind ==
  ASSUME IInv, ReadInv, pc = "options", ~IsAtOption(Opt),
         NEW n, n = NextElement(copt), NEW k \in 1..Argc(n)
  PROVE  n.argv[k] \in OperandsRead <=> k > copt.idx /\ ~(k = n.idx /\ Arg(n, k) = DashDash)
<1>0. /\ ArgsOK /\ ArgvInv(copt) /\ NoDashDash(copt) /\ TakenFollow(copt, copt.idx)
      /\ OptionsFollow(copt) /\ TakenRead(copt, ReadSoFar(copt))
      /\ Len(args) \in Nat /\ Argc(copt) = Len(args) /\ copt.idx \in Nat
  BY LenProperties DEF IInv, CoptInv, ReadInv, ArgvReadInv, ArgvInv, ArgsOK
<1>1. /\ ArgvInv(n) /\ n.idx = copt.idx + 1 /\ OptionsFollow(n) /\ Argc(n) = Len(args)
      /\ \A j \in 1..Argc(copt) : j <= copt.idx => n.argv[j] = copt.argv[j]
      /\ n.idx <= Argc(n) =>
           \/ Arg(n, n.idx) = DashDash
           \/ \A j \in 1..Argc(n) : j >= n.idx => ~IsOption(Arg(n, j))
  BY LoopEnds DEF ArgvInv
<1>2. /\ OptionsEnd \in 1..(Len(args) + 1)
      /\ OptionsEnd <= Len(args) => args[OptionsEnd] = DashDash
      /\ \A j \in 1..Len(args) : args[j] = DashDash => OptionsEnd <= j
  BY <1>0, OptionsEndFacts
<1>3. IsOption(DashDash) BY DEF IsOption, DashDash
<1>4. PICK x : x = n.argv[k] OBVIOUS
<1>5. x \in Elements /\ x \in 1..Len(args) /\ Arg(n, k) = args[x]
  BY <1>0, <1>1, <1>4, ElementLen DEF Elements, Arg
<1>6. \A i, j \in 1..Argc(n) : n.argv[i] = n.argv[j] => i = j
  BY <1>1 DEF ArgvInv, Injective, Argc
\* What has been read is an option or taken by one.
<1>7. CASE k <= copt.idx
  <2>1. k \in 1..Argc(copt) /\ copt.argv[k] = x /\ Arg(copt, k) = args[x]
    BY <1>0, <1>1, <1>4, <1>7 DEF Arg
  <2>2. CASE IsOption(args[x])
    <3>1. x < OptionsEnd BY <1>5, <1>7, <2>1, <2>2, AllOptionsRead
    <3>2. IsOptionAt(x) BY <2>2, <3>1 DEF IsOptionAt
    <3> QED BY <1>0, <1>4, <1>7, <3>2 DEF OperandsRead
  <2>3. CASE ~IsOption(args[x])
    <3>1. IsTaken(x) BY <1>0, <1>7, <2>1, <2>3 DEF TakenFollow
    <3> QED BY <1>0, <1>4, <1>7, <3>1 DEF OperandsRead
  <2> QED BY <2>2, <2>3
\* What has not is neither.
<1>8. CASE ~(k <= copt.idx)
  <2>1. k > copt.idx /\ k >= n.idx /\ n.idx <= Argc(n) /\ n.idx \in 1..Argc(n) BY <1>0, <1>1, <1>8
  <2>2. \A j \in 1..Argc(copt) : j <= copt.idx => copt.argv[j] # x
    <3> SUFFICES ASSUME NEW j \in 1..Argc(copt), j <= copt.idx, copt.argv[j] = x PROVE FALSE
      OBVIOUS
    <3>1. n.argv[j] = n.argv[k] /\ j \in 1..Argc(n) BY <1>0, <1>1, <1>4
    <3>2. j = k BY <1>6, <3>1
    <3> QED BY <1>8, <3>2
  <2>3. ~IsOptionAt(x) BY <1>5, <2>2, AllOptionsRead DEF IsOptionAt
  <2>4. ~IsTaken(x)
    <3> SUFFICES ASSUME NEW y \in Places, y[1] + 1 = x, TakesNext(y) PROVE FALSE BY DEF IsTaken
    <3>1. y \in ReadSoFar(copt) BY AllPlacesRead
    <3>2. \E j \in 1..Argc(copt) : j <= copt.idx /\ copt.argv[j] = x
      BY <1>0, <3>1 DEF TakenRead
    <3> QED BY <2>2, <3>2
  <2>5. x = OptionsEnd <=> k = n.idx /\ Arg(n, k) = DashDash
    <3>1. ASSUME x = OptionsEnd PROVE k = n.idx /\ Arg(n, k) = DashDash
      <4>1. Arg(n, k) = DashDash BY <1>2, <1>5, <3>1
      <4>2. Arg(n, n.idx) = DashDash BY <1>1, <1>3, <2>1, <4>1
      <4>3. n.argv[n.idx] \in 1..Len(args) /\ args[n.argv[n.idx]] = DashDash
        BY <1>0, <1>1, <2>1, <4>2, ElementLen DEF Elements, Arg
      <4>4. OptionsEnd <= n.argv[n.idx] BY <1>2, <4>3
      <4>5. k = n.idx
        <5> SUFFICES ASSUME k # n.idx PROVE FALSE OBVIOUS
        <5>1. n.idx < k /\ n.idx <= n.idx BY <1>0, <1>1, <2>1
        <5>2. n.argv[n.idx] < n.argv[k] BY <1>1, <1>3, <2>1, <4>1, <4>2, <5>1 DEF OptionsFollow
        <5> QED BY <1>2, <1>4, <3>1, <4>3, <4>4, <5>2
      <4> QED BY <4>1, <4>5
    <3>2. ASSUME k = n.idx, Arg(n, k) = DashDash PROVE x = OptionsEnd
      <4>1. OptionsEnd <= x BY <1>2, <1>5, <3>2
      <4>2. OptionsEnd \in Elements /\ args[OptionsEnd] = DashDash BY <1>0, <1>2, <1>5, <4>1 DEF Elements
      <4>3. PICK m \in 1..Argc(n) : n.argv[m] = OptionsEnd BY <1>0, <1>1, <4>2, ArgvOnto
      <4>4. Arg(n, m) = DashDash BY <4>2, <4>3 DEF Arg
      <4>5. CASE m < n.idx
        <5>1. m \in 1..Argc(copt) /\ m <= copt.idx /\ Arg(copt, m) = DashDash
          BY <1>0, <1>1, <4>4, <4>5 DEF Arg
        <5> QED BY <1>0, <5>1 DEF NoDashDash
      <4>6. CASE m > n.idx
        <5>1. n.idx <= n.idx BY <1>0, <1>1
        <5>2. n.argv[n.idx] < n.argv[m] BY <1>1, <1>3, <2>1, <3>2, <4>4, <4>6, <5>1 DEF OptionsFollow
        <5> QED BY <1>2, <1>4, <1>5, <3>2, <4>1, <4>3, <5>2
      <4>7. CASE m = n.idx BY <1>4, <3>2, <4>3, <4>7
      <4> QED BY <1>0, <1>1, <4>5, <4>6, <4>7
    <3> QED BY <3>1, <3>2
  <2> QED BY <1>4, <1>5, <2>1, <2>3, <2>4, <2>5 DEF OperandsRead
<1> QED BY <1>7, <1>8

\* The operands are left in the order of the command line.
OperandsLeft ==
  LET rest == SubSeq(copt.argv, copt.idx, Argc(copt))
  IN  Ascends(rest) /\ {rest[k] : k \in 1..Len(rest)} = OperandsRead

LEMMA EndLeavesOperands ==
  ASSUME IInv, ReadInv, EndOptions
  PROVE  OperandsLeft'
<1> DEFINE n == NextElement(copt)
           from == IF n.idx <= Argc(n) /\ Arg(n, n.idx) = DashDash THEN n.idx + 1 ELSE n.idx
<1>1. pc = "options" /\ ~IsAtOption(Opt) /\ args' = args BY DEF EndOptions
<1>2. /\ ArgvInv(n) /\ n.idx = copt.idx + 1 /\ Opt = n
      /\ n.idx <= Argc(n) =>
           \/ Arg(n, n.idx) = DashDash
           \/ n.argv = copt.argv /\ \A j \in 1..Argc(n) : j >= n.idx => ~IsOption(Arg(n, j))
  BY <1>1, LoopEnds
<1>3. PICK c : c = copt' OBVIOUS
<1> HIDE DEF n
<1>4. /\ ArgsOK /\ Argc(n) = Len(args) /\ Len(args) \in Nat /\ n.idx \in Nat /\ copt.idx \in Nat
      /\ n \in [argv : Seq(Elements), idx : Nat, subidx : Nat, argidx : Nat]
      /\ SortedBehind(copt.argv, copt.idx) /\ SortedBehind(n.argv, n.idx)
      /\ n.idx >= 1 /\ Len(n.argv) = Len(args)
  BY <1>2, LenProperties DEF IInv, CoptInv, ArgvInv, ArgsOK, Argc
<1>5. c.argv = n.argv /\ c.idx = from
  <2>1. copt' = IF n.idx <= Argc(n) /\ Arg(n, n.idx) = DashDash THEN [n EXCEPT !.idx = @ + 1] ELSE n
    BY <1>2 DEF EndOptions, Element
  <2> QED BY <1>3, <1>4, <2>1
<1>6. from \in Nat /\ from >= 1 BY <1>4
\* The elements from there on are the operands, and in order.
<1>7. \A k \in 1..Len(args) : n.argv[k] \in OperandsRead <=> from <= k
  <2> TAKE k \in 1..Len(args)
  <2>1. n.argv[k] \in OperandsRead <=> k > copt.idx /\ ~(k = n.idx /\ Arg(n, k) = DashDash)
    BY <1>1, <1>4, OperandsBehind DEF n
  <2> QED BY <1>2, <1>4, <2>1
<1>8. \A j, k \in 1..Len(args) : from <= j /\ j < k => n.argv[j] < n.argv[k]
  <2> TAKE j, k \in 1..Len(args)
  <2> HAVE from <= j /\ j < k
  <2>1. CASE n.idx < j BY <1>4, <2>1 DEF SortedBehind
  <2>2. CASE ~(n.idx < j)
    <3>1. n.idx <= Argc(n) /\ from = n.idx BY <1>4, <2>2
    <3>2. Arg(n, n.idx) # DashDash BY <1>4, <3>1
    <3>3. n.argv = copt.argv BY <1>2, <3>1, <3>2
    <3>4. copt.idx < j BY <1>2, <1>4, <3>1
    <3> QED BY <1>4, <3>3, <3>4 DEF SortedBehind
  <2> QED BY <2>1, <2>2
<1> HIDE DEF from
<1> DEFINE rest == SubSeq(n.argv, from, Len(args))
           size == IF from <= Len(args) THEN Len(args) - from + 1 ELSE 0
<1>9. Len(rest) = size /\ \A i \in 1..(Len(args) - from + 1) : rest[i] = n.argv[from + i - 1]
  <2> DEFINE R == {n.argv[k] : k \in from..Len(args)}
             s == n.argv
             last == Len(args)
  <2>1. \A k \in from..last : s[k] \in R OBVIOUS
  <2>2. from \in Int /\ last \in Int BY <1>4, <1>6
  <2>3. R = R /\ s = n.argv OBVIOUS
  <2> HIDE DEF R, s, last
  <2>4. /\ Len(SubSeq(s, from, last)) = IF from <= last THEN last - from + 1 ELSE 0
        /\ \A i \in 1..(last - from + 1) : SubSeq(s, from, last)[i] = s[from + i - 1]
    BY <2>1, <2>2, SubSeqProperties
  <2> QED BY <2>4 DEF s, last
<1> HIDE DEF rest
<1>10. \A i \in 1..Len(rest) :
         from + i - 1 \in 1..Len(args) /\ from <= from + i - 1 /\ rest[i] = n.argv[from + i - 1]
  <2> TAKE i \in 1..Len(rest)
  <2>1. i \in 1..(Len(args) - from + 1) BY <1>4, <1>6, <1>9
  <2>2. rest[i] = n.argv[from + i - 1] BY <1>9, <2>1
  <2>3. from + i - 1 \in 1..Len(args) /\ from <= from + i - 1 BY <1>4, <1>6, <2>1
  <2> QED BY <2>2, <2>3
<1>11. Len(rest) \in Nat BY <1>4, <1>6, <1>9
<1>12. Ascends(rest)
  <2> SUFFICES ASSUME NEW i \in 1..Len(rest), NEW j \in 1..Len(rest), i < j
               PROVE  rest[i] < rest[j]
    BY DEF Ascends
  <2>1. from + i - 1 < from + j - 1 BY <1>6, <1>11
  <2> QED BY <1>8, <1>10, <2>1
<1>13. {rest[i] : i \in 1..Len(rest)} = OperandsRead
  <2>1. ASSUME NEW i \in 1..Len(rest) PROVE rest[i] \in OperandsRead BY <1>7, <1>10
  <2>2. ASSUME NEW x \in OperandsRead PROVE \E i \in 1..Len(rest) : rest[i] = x
    <3>1. x \in Elements BY <2>2 DEF OperandsRead, Elements
    <3>2. PICK k \in 1..Len(args) : n.argv[k] = x BY <1>2, <1>4, <3>1, ArgvOnto
    <3>3. from <= k BY <1>7, <2>2, <3>2
    <3> DEFINE i == k - from + 1
    <3>4. i \in 1..Len(rest) /\ i \in 1..(Len(args) - from + 1) /\ from + i - 1 = k
      BY <1>4, <1>6, <1>9, <3>3
    <3>5. rest[i] = n.argv[from + i - 1] BY <1>9, <3>4
    <3> QED BY <3>2, <3>4, <3>5
  <2> QED BY <2>1, <2>2
<1>14. SubSeq(copt.argv, copt.idx, Argc(copt))' = rest
  BY <1>3, <1>4, <1>5 DEF rest, Argc
<1>15. OperandsRead' = OperandsRead
  <2>1. \A k : IsTaken(k)' <=> IsTaken(k) BY <1>1, ReadingStays
  <2> QED BY <1>1, <2>1 DEF OperandsRead, IsOptionAt, OptionsEnd
<1> QED BY <1>12, <1>13, <1>14, <1>15 DEF OperandsLeft, Ascends

-----------------------------------------------------------------------------
(* The reading, and what comes of it *)

\* While the loop turns it has read the places up to the one it is at; behind it the flags
\* are those of all places, and the action follows from them.
ReadingInv ==
  /\ ReadInv /\ ReadsLeftToRight
  /\ pc # "options" => flags = FlagsIn(Places)
  /\ pc \in {"dispatch", "wrap", "end"} =>
       /\ action = "version" <=> "version" \in flags
       /\ action = "help" <=> "version" \notin flags /\ "help" \in flags
       /\ error = "none" <=> action # "error"

LEMMA ReadingInit == ASSUME Init, NoLetterIsMistaken PROVE ReadingInv
<1>1. /\ copt.idx = 0 /\ copt.subidx = 0 /\ copt.argv = [k \in 1..Len(args) |-> k]
      /\ flags = {} /\ width = ColumnDefault /\ error = "none" /\ pc = "options"
  BY DEF Init
<1>2. ArgsOK /\ ArgvInv(copt) /\ Len(args) \in Nat /\ Argc(copt) = Len(args)
  BY InitInv, LenProperties DEF IInv, CoptInv, ArgvInv, ArgsOK
<1>3. OptionsFollow(copt) /\ NoDashDash(copt) BY <1>1, <1>2 DEF OptionsFollow, NoDashDash
<1>4. GroupGoesOn(copt, copt.subidx + 1) BY <1>1 DEF GroupGoesOn
<1>5. TakenFollow(copt, copt.idx) BY <1>1, <1>2 DEF TakenFollow
<1>6. ReadSoFar(copt) = {} BY <1>1, <1>2 DEF ReadSoFar
<1>7. TakenRead(copt, ReadSoFar(copt)) BY <1>6 DEF TakenRead
<1>8. Reads({})
  <2>1. FlagsIn({}) = {} /\ WidthsIn({}) = {} /\ FaultsIn({}) = {}
    BY DEF FlagsIn, WidthsIn, FaultsIn
  <2> QED BY <1>1, <2>1 DEF Reads, WidthIn, ErrorIn
<1>9. ReadInv BY <1>1, <1>3, <1>4, <1>5, <1>6, <1>7, <1>8 DEF ReadInv, ArgvReadInv
<1> QED BY <1>1, <1>9 DEF ReadingInv, ReadsLeftToRight

LEMMA EndOptionsReads ==
  ASSUME IInv, ReadInv, EndOptions
  PROVE  ReadsLeftToRight' /\ flags' = FlagsIn(Places)'
<1>1. /\ pc = "options" /\ ~IsAtOption(Opt) /\ UNCHANGED <<args, flags, width, error>>
  BY DEF EndOptions
<1>2. Reads(Places) BY <1>1, AllPlacesRead DEF ReadInv
<1>3. /\ Places' = Places
      /\ \A S : FlagsIn(S)' = FlagsIn(S) /\ WidthIn(S)' = WidthIn(S) /\ ErrorIn(S)' = ErrorIn(S)
  BY <1>1, ReadingStays
<1>4. FlagsIn(Places)' = FlagsIn(Places) /\ WidthIn(Places)' = WidthIn(Places)
      /\ ErrorIn(Places)' = ErrorIn(Places)
  BY <1>3
<1>5. OperandsLeft' BY EndLeavesOperands
<1> QED BY <1>1, <1>2, <1>4, <1>5 DEF Reads, ReadsLeftToRight, OperandsLeft

\* A step behind the loop that leaves the flags.
LEMMA BehindTheLoop ==
  ASSUME ReadingInv, pc # "options", pc' \notin {"options", "paths"}, UNCHANGED <<args, flags>>
  PROVE  ReadInv' /\ ReadsLeftToRight' /\ flags' = FlagsIn(Places)'
<1>1. FlagsIn(Places)' = FlagsIn(Places) /\ (NoLetterIsMistaken' <=> NoLetterIsMistaken)
  BY ReadingStays
<1> QED BY <1>1 DEF ReadingInv, ReadInv, ReadsLeftToRight

LEMMA ReadingStutters ==
  ASSUME ReadingInv, UNCHANGED vars
  PROVE  ReadingInv'
<1>1. UNCHANGED <<args, copt, flags, width, error, action, pc>> BY DEF vars
<1>2. /\ Places' = Places /\ (\A k : IsTaken(k)' <=> IsTaken(k))
      /\ \A x : TakesNext(x)' <=> TakesNext(x)
      /\ \A S : FlagsIn(S)' = FlagsIn(S) /\ WidthIn(S)' = WidthIn(S) /\ ErrorIn(S)' = ErrorIn(S)
  BY <1>1, ReadingStays
<1>3. /\ FlagsIn(Places)' = FlagsIn(Places) /\ WidthIn(Places)' = WidthIn(Places)
      /\ ErrorIn(Places)' = ErrorIn(Places)
  BY <1>2
<1>4. ReadInv'
  <2>0. NoLetterIsMistaken' BY <1>1, ReadingStays DEF ReadingInv, ReadInv
  <2> SUFFICES ASSUME pc = "options" PROVE ReadInv' BY <1>1, <2>0 DEF ReadInv
  <2>1. ArgvReadInv(copt) BY DEF ReadingInv, ReadInv
  <2>2. PICK S : S = ReadSoFar(copt) /\ Reads(S) BY DEF ReadingInv, ReadInv
  <2>3. ReadSoFar(copt)' = ReadSoFar(copt) BY <1>1, <1>2 DEF ReadSoFar, Argc
  <2>4. Reads(S)' BY <1>1, <1>2, <2>2 DEF Reads
  <2>5. (\E U : U = ReadSoFar(copt) /\ Reads(U))' BY <2>2, <2>3, <2>4
  <2>6. OptionsFollow(copt)' /\ NoDashDash(copt)' /\ (copt.subidx > 0 => NextIs(copt))'
    BY <1>1, <2>1 DEF ArgvReadInv, OptionsFollow, NoDashDash, NextIs, Arg, Argc
  <2>7. GroupGoesOn(copt, copt.subidx + 1)'
    BY <1>1, <2>1 DEF ArgvReadInv, GroupGoesOn, Arg, TakesRest, FirstEquals
  <2>8. TakenFollow(copt, copt.idx)' BY <1>1, <1>2, <2>1 DEF ArgvReadInv, TakenFollow, Arg, Argc
  <2>9. TakenRead(copt, ReadSoFar(copt))'
    BY <1>1, <1>2, <2>1, <2>3 DEF ArgvReadInv, TakenRead, Argc
  <2> QED BY <2>0, <2>5, <2>6, <2>7, <2>8, <2>9 DEF ReadInv, ArgvReadInv
<1>5. OperandsRead' = OperandsRead
  BY <1>1, <1>2 DEF OperandsRead, IsOptionAt, OptionsEnd
<1>6. ReadsLeftToRight'
  BY <1>1, <1>3, <1>5 DEF ReadingInv, ReadInv, ReadsLeftToRight, Ascends, Argc
<1> QED BY <1>1, <1>3, <1>4, <1>6 DEF ReadingInv

LEMMA ReadingStep == ASSUME IInv, ReadingInv, [Next]_vars PROVE ReadingInv'
<1>0. ReadInv BY DEF ReadingInv
<1>1. ASSUME ReadInv', pc' = "options" PROVE ReadingInv'
  BY <1>1 DEF ReadingInv, ReadsLeftToRight
<1>2. ASSUME NEW f \in DOMAIN Spelling, ReadFlag(f) PROVE ReadingInv'
  <2>1. pc' = "options" BY <1>2 DEF ReadFlag, Turn
  <2> QED BY <1>0, <1>1, <1>2, <2>1, ReadFlagReads
<1>3. CASE ReadWidth
  <2>1. pc' = "options" BY <1>3 DEF ReadWidth, Turn
  <2> QED BY <1>0, <1>1, <1>3, <2>1, ReadWidthReads
<1>4. CASE ReadUnknown
  <2>1. pc' = "options" BY <1>4 DEF ReadUnknown, Turn
  <2> QED BY <1>0, <1>1, <1>4, <2>1, ReadUnknownReads
<1>5. CASE EndOptions
  <2>1. pc' = "paths" BY <1>5 DEF EndOptions
  <2>2. ReadsLeftToRight' /\ flags' = FlagsIn(Places)' BY <1>0, <1>5, EndOptionsReads
  <2>3. NoLetterIsMistaken' BY <1>0, <1>5, ReadingStays DEF EndOptions, ReadInv
  <2> QED BY <2>1, <2>2, <2>3 DEF ReadingInv, ReadInv
<1>6. CASE TakePaths
  <2>1. pc = "paths" /\ pc' = "resolve" /\ UNCHANGED <<args, flags>> BY <1>6 DEF TakePaths
  <2>2. ReadInv' /\ ReadsLeftToRight' /\ flags' = FlagsIn(Places)' BY <2>1, BehindTheLoop
  <2> QED BY <2>1, <2>2 DEF ReadingInv
<1>7. CASE Resolve
  <2>1. pc = "resolve" /\ pc' = "dispatch" /\ UNCHANGED <<args, flags>> BY <1>7 DEF Resolve
  <2>2. /\ action' = "version" <=> "version" \in flags
        /\ action' = "help" <=> "version" \notin flags /\ "help" \in flags
        /\ error' = "none" <=> action' # "error"
    <3>1. CASE flags \cap {"version", "help"} # {} BY <1>7, <3>1 DEF Resolve
    <3>2. CASE flags \cap {"version", "help"} = {}
      <4>1. action' = IF error' = "none" THEN "run" ELSE "error" BY <1>7, <3>2 DEF Resolve
      <4>2. "version" \notin flags /\ "help" \notin flags BY <3>2
      <4> QED BY <4>1, <4>2
    <3> QED BY <3>1, <3>2
  <2>3. ReadInv' /\ ReadsLeftToRight' /\ flags' = FlagsIn(Places)' BY <2>1, BehindTheLoop
  <2> QED BY <2>1, <2>2, <2>3 DEF ReadingInv
<1>8. CASE Dispatch
  <2>1. /\ pc = "dispatch" /\ pc' \in {"wrap", "end"} /\ UNCHANGED <<args, flags, error, action>>
    BY <1>8 DEF Dispatch
  <2>2. ReadInv' /\ ReadsLeftToRight' /\ flags' = FlagsIn(Places)' BY <2>1, BehindTheLoop
  <2> QED BY <2>1, <2>2 DEF ReadingInv
<1>9. CASE UNCHANGED vars BY <1>9, ReadingStutters
<1> QED BY <1>2, <1>3, <1>4, <1>5, <1>6, <1>7, <1>8, <1>9 DEF Next

LEMMA ReadingHolds == Spec => [](NoLetterIsMistaken => ReadingInv)
<1> DEFINE L == NoLetterIsMistaken => ReadingInv
<1>1. Init /\ [][Next]_vars /\ []IInv => []L
  <2>1. Init => L BY ReadingInit
  <2>2. L /\ IInv /\ [Next]_vars => L'
    <3> SUFFICES ASSUME L, IInv, [Next]_vars, NoLetterIsMistaken' PROVE ReadingInv' OBVIOUS
    <3>1. args' = args
      BY DEF Next, vars, ReadFlag, ReadWidth, ReadUnknown, EndOptions, TakePaths, Resolve, Dispatch
    <3>2. NoLetterIsMistaken BY <3>1, ReadingStays
    <3> QED BY <3>2, ReadingStep
  <2> QED BY <2>1, <2>2, PTL
<1> QED BY <1>1, Invariance, PTL DEF Spec

\* For every command line without a letter mistaken for the one before an equals sign, the
\* loop over the permuted argv reads what a reader from left to right does: the flags,
\* the last width, the first error, and the operands in order.
THEOREM ReadsLeftToRightHolds == Spec => []ReadsLeftToRight
<1>1. (NoLetterIsMistaken => ReadingInv) => ReadsLeftToRight BY DEF ReadingInv, ReadsLeftToRight
<1> QED BY <1>1, ReadingHolds, PTL

\* For every such command line the version and the help are printed exactly when an element
\* before "--" asks for them, wherever it stands, and an error is reported exactly when
\* the command line is rejected.
THEOREM OrderIsImmaterialHolds == Spec => []OrderIsImmaterial
<1>1. (NoLetterIsMistaken => ReadingInv) => OrderIsImmaterial
  BY DEF ReadingInv, OrderIsImmaterial
<1> QED BY <1>1, ReadingHolds, PTL
=============================================================================
