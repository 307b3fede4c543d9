---------------------------- MODULE Atoms_proofs ----------------------------
(***************************************************************************)
(* For texts of any length: the second pass of atom_split stores as many   *)
(* atoms as the first counted, the atoms are the words of the text, hex    *)
(* runs, quantities and backtick spans are kept together, and a second run *)
(* finds the same atoms in what the fill made of them.                     *)
(***************************************************************************)
EXTENDS MCAtoms, SequenceTheorems, WellFoundedInduction, TLAPS

LEMMA LeastIsLeast ==
  ASSUME NEW S \in SUBSET Nat, S # {}
  PROVE  Least(S) \in S /\ \A y \in S : Least(S) <= y
<1>1. PICK x \in S : \A y \in S : <<y, x>> \notin OpToRel(<, Nat)
  BY NatLessThanWellFounded, WFMin
<1>2. ASSUME NEW y \in S PROVE x <= y
  <2>1. x \in Nat /\ y \in Nat OBVIOUS
  <2>2. ~(y < x) BY <1>1, <2>1, Zenon DEF OpToRel
  <2> QED BY <2>1, <2>2
<1> QED BY <1>2 DEF Least

LEMMA UntilBounds ==
  ASSUME NEW t \in Seq(Byte), NEW n \in 1..(Len(t) + 1), NEW C
  PROVE  /\ Until(t, n, C) \in n..(Len(t) + 1)
         /\ Until(t, n, C) = Len(t) + 1 \/ t[Until(t, n, C)] \in C
         /\ \A p \in n..(Until(t, n, C) - 1) : t[p] \notin C
<1>0. Len(t) \in Nat OBVIOUS
<1> DEFINE S == {p \in n..(Len(t) + 1) : p = Len(t) + 1 \/ t[p] \in C}
<1>1. S \in SUBSET Nat /\ Len(t) + 1 \in S BY <1>0
<1>2. Least(S) \in S /\ \A y \in S : Least(S) <= y BY <1>1, LeastIsLeast
<1>3. Until(t, n, C) = Least(S) BY DEF Until
<1>4. ASSUME NEW p \in n..(Least(S) - 1) PROVE t[p] \notin C
  <2>1. Least(S) \in n..(Len(t) + 1) BY <1>2
  <2>2. p \in n..(Len(t) + 1) /\ ~(Least(S) <= p) BY <1>0, <2>1
  <2> QED BY <1>2, <2>2
<1> QED BY <1>2, <1>3, <1>4

\* A run of hex groups ends within the text.
LEMMA HexRunBounds ==
  ASSUME NEW t \in Seq(Byte), NEW p \in 1..Len(t)
  PROVE  HexRunEnd(t, p) \in p..(Len(t) + 1)
<1> DEFINE S == {g \in 0..Len(t) : ~IsHexGroup(t, p, g)}   g == HexGroups(t, p)
<1>0. Len(t) \in Nat OBVIOUS
<1>1. ~IsHexGroup(t, p, Len(t)) BY <1>0 DEF IsHexGroup
<1>2. S \in SUBSET Nat /\ Len(t) \in S BY <1>0, <1>1
<1>3. g \in S /\ \A y \in S : g <= y BY <1>2, LeastIsLeast DEF HexGroups
<1>4. g \in 0..Len(t) BY <1>3
<1>5. CASE g >= 2
  <2>1. g - 1 \in 0..Len(t) /\ ~(g <= g - 1) BY <1>0, <1>4, <1>5
  <2>2. IsHexGroup(t, p, g - 1) BY <1>3, <2>1
  <2>3. p + 3 * (g - 1) < Len(t) BY <2>2 DEF IsHexGroup
  <2>4. p + 3 * g - 1 \in p..(Len(t) + 1) BY <1>0, <1>4, <1>5, <2>3
  <2> QED BY <1>0, <2>4 DEF HexRunEnd
<1>6. CASE ~(g >= 2) BY <1>0, <1>6 DEF HexRunEnd
<1> QED BY <1>5, <1>6

LEMMA QuantityBounds ==
  ASSUME NEW t \in Seq(Byte), NEW p \in 1..Len(t)
  PROVE  QuantityEnd(t, p) \in p..(Len(t) + 1)
<1> DEFINE n == NumberEnd(t, p)   d == DigitsEnd(t, p)
<1>0. Len(t) \in Nat OBVIOUS
<1>1. d \in p..(Len(t) + 1) BY <1>0, UntilBounds DEF DigitsEnd
<1>2. n \in p..(Len(t) + 1)
  <2>1. CASE d < Len(t) /\ t[d] = "dot" /\ t[d + 1] = "dig"
    <3>1. d + 1 \in 1..(Len(t) + 1) BY <1>0, <1>1, <2>1
    <3>2. DigitsEnd(t, d + 1) \in (d + 1)..(Len(t) + 1) BY <3>1, UntilBounds DEF DigitsEnd
    <3>3. n = DigitsEnd(t, d + 1) BY <2>1 DEF NumberEnd
    <3> QED BY <1>0, <1>1, <3>2, <3>3
  <2>2. CASE ~(d < Len(t) /\ t[d] = "dot" /\ t[d + 1] = "dig")
    BY <1>1, <2>2 DEF NumberEnd
  <2> QED BY <2>1, <2>2
<1>3. CASE n <= Len(t)
  <2>1. n + 1 \in 1..(Len(t) + 1) BY <1>0, <1>2, <1>3
  <2>2. Until(t, n + 1, Byte \ Alpha) \in (n + 1)..(Len(t) + 1) BY <2>1, UntilBounds
  <2>3. Until(t, n + 1, Byte \ Alpha) \in p..(Len(t) + 1) BY <1>0, <1>2, <2>2
  <2> QED BY <1>0, <2>3 DEF QuantityEnd
<1>4. CASE ~(n <= Len(t)) BY <1>0, <1>4 DEF QuantityEnd
<1> QED BY <1>3, <1>4

\* An atom that starts at a byte that is no blank has that byte, and ends at a blank
\* or with the text.
LEMMA AtomEndBounds ==
  ASSUME NEW t \in Seq(Byte), NEW p \in 1..Len(t), t[p] \notin Blank
  PROVE  /\ AtomEnd(t, p) \in (p + 1)..(Len(t) + 1)
         /\ AtomEnd(t, p) = Len(t) + 1 \/ t[AtomEnd(t, p)] \in Blank
<1> DEFINE head == IF HexRunEnd(t, p) # p THEN HexRunEnd(t, p) ELSE QuantityEnd(t, p)
           from == IF head = p /\ OpensSpan(t, p) THEN SpanEnd(t, p) ELSE head
<1>0. Len(t) \in Nat OBVIOUS
<1>1. head \in p..(Len(t) + 1) BY HexRunBounds, QuantityBounds
<1>2. OpensSpan(t, p) => SpanEnd(t, p) \in p..(Len(t) + 1)
  <2> SUFFICES ASSUME OpensSpan(t, p) PROVE SpanEnd(t, p) \in p..(Len(t) + 1) OBVIOUS
  <2>1. LeadsEnd(t, p) \in p..(Len(t) + 1) BY <1>0, UntilBounds DEF LeadsEnd
  <2>2. LeadsEnd(t, p) <= Len(t) /\ SpanEnd(t, p) <= Len(t) + 1 BY DEF OpensSpan
  <2>3. LeadsEnd(t, p) + 1 \in 1..(Len(t) + 1) BY <1>0, <2>1, <2>2
  <2>4. Until(t, LeadsEnd(t, p) + 1, {"tick"}) \in (LeadsEnd(t, p) + 1)..(Len(t) + 1)
    BY <2>3, UntilBounds
  <2> QED BY <1>0, <2>1, <2>2, <2>4 DEF SpanEnd
<1>3. from \in p..(Len(t) + 1) BY <1>1, <1>2
<1>4. AtomEnd(t, p) = Until(t, from, Blank) BY DEF AtomEnd, AttachTrailer
<1> HIDE DEF from
<1>5. from \in 1..(Len(t) + 1) BY <1>0, <1>3
<1>6. /\ Until(t, from, Blank) \in from..(Len(t) + 1)
      /\ Until(t, from, Blank) = Len(t) + 1 \/ t[Until(t, from, Blank)] \in Blank
  BY <1>5, UntilBounds
<1>7. Until(t, from, Blank) # p BY <1>0, <1>6
<1> QED BY <1>0, <1>3, <1>4, <1>6, <1>7

Span == [from : Nat, to : Nat]

\* The next atom from a place between two words on: a whole word behind blanks.
LEMMA AtomFromBounds ==
  ASSUME NEW t \in Seq(Byte), NEW n \in 1..(Len(t) + 1), HasAtom(t, n)
  PROVE  LET a == AtomFrom(t, n)
         IN  /\ a \in Span /\ n <= a.from /\ a.from < a.to /\ a.to <= Len(t) + 1
             /\ a.from \in 1..Len(t) /\ t[a.from] \notin Blank
             /\ \A k \in n..(a.from - 1) : t[k] \in Blank
             /\ a.to = Len(t) + 1 \/ t[a.to] \in Blank
<1> DEFINE s == NextStart(t, n)   e == AtomEnd(t, s)
<1>0. Len(t) \in Nat /\ \A k \in 1..Len(t) : t[k] \in Byte OBVIOUS
<1>1. /\ s \in n..(Len(t) + 1) /\ (s = Len(t) + 1 \/ t[s] \in Byte \ Blank)
      /\ \A k \in n..(s - 1) : t[k] \notin Byte \ Blank
  BY UntilBounds DEF NextStart
<1>2. s <= Len(t) BY DEF HasAtom
<1>3. s \in 1..Len(t) /\ t[s] \notin Blank BY <1>0, <1>1, <1>2
<1>4. \A k \in n..(s - 1) : t[k] \in Blank BY <1>0, <1>1, <1>3
<1>5. e \in (s + 1)..(Len(t) + 1) /\ (e = Len(t) + 1 \/ t[e] \in Blank)
  BY <1>3, AtomEndBounds
<1>6. AtomFrom(t, n).from = s /\ AtomFrom(t, n).to = e BY DEF AtomFrom
<1>7. AtomFrom(t, n) \in Span BY <1>0, <1>3, <1>5 DEF AtomFrom, Span
<1> HIDE DEF s, e
<1> QED BY <1>0, <1>1, <1>3, <1>4, <1>5, <1>6, <1>7

-----------------------------------------------------------------------------

\* The place where the first n atoms of a list end.
To(atoms, n) == IF n = 0 THEN 1 ELSE atoms[n].to

\* Each atom is the next one from where the one before it ended.
IsChain(atoms) ==
  \A k \in 1..Len(atoms) :
    /\ To(atoms, k - 1) \in 1..(Len(text) + 1) /\ HasAtom(text, To(atoms, k - 1))
    /\ atoms[k] = AtomFrom(text, To(atoms, k - 1))

TypeInv ==
  /\ text \in Seq(Byte) /\ pass \in {"count", "store", "done"}
  /\ i \in 1..(Len(text) + 1)
  /\ counted \in Seq(Span) /\ items \in Seq(Span)

CountInv ==
  /\ IsChain(counted)
  /\ IF pass = "count" THEN i = To(counted, Len(counted)) /\ items = <<>>
     ELSE ~HasAtom(text, To(counted, Len(counted)))

StoreInv ==
  /\ IsChain(items)
  /\ Len(items) <= Len(counted) /\ \A k \in 1..Len(items) : items[k] = counted[k]
  /\ pass # "count" => i = To(items, Len(items))
  /\ pass = "done" => ~HasAtom(text, i)

IInv == TypeInv /\ CountInv /\ StoreInv

\* Appending the next atom to a chain makes a chain.
LEMMA ChainGrows ==
  ASSUME text \in Seq(Byte), NEW atoms \in Seq(Span), IsChain(atoms),
         i \in 1..(Len(text) + 1), i = To(atoms, Len(atoms)), HasAtom(text, i)
  PROVE  LET more == Append(atoms, AtomFrom(text, i))
         IN  /\ more \in Seq(Span) /\ Len(more) = Len(atoms) + 1
             /\ \A k \in 1..Len(atoms) : more[k] = atoms[k]
             /\ more[Len(atoms) + 1] = AtomFrom(text, i)
             /\ IsChain(more) /\ To(more, Len(more)) = AtomFrom(text, i).to
             /\ AtomFrom(text, i).to \in 1..(Len(text) + 1)
<1> DEFINE a == AtomFrom(text, i)   more == Append(atoms, a)   n == Len(atoms)
<1>1. a \in Span /\ a.to \in 1..(Len(text) + 1) BY AtomFromBounds DEF Span
<1> HIDE DEF a
<1>2. /\ more \in Seq(Span) /\ n \in Nat /\ Len(more) = n + 1
      /\ \A k \in 1..n : more[k] = atoms[k]
      /\ more[n + 1] = a
  BY <1>1, AppendProperties
<1> HIDE DEF more
<1>3. \A k \in 0..n : To(more, k) = To(atoms, k) BY <1>2 DEF To
<1>4. To(more, n + 1) = a.to BY <1>2 DEF To
<1>5. ASSUME NEW k \in 1..(n + 1)
      PROVE  /\ To(more, k - 1) \in 1..(Len(text) + 1) /\ HasAtom(text, To(more, k - 1))
             /\ more[k] = AtomFrom(text, To(more, k - 1))
  <2>1. k - 1 \in 0..n /\ To(more, k - 1) = To(atoms, k - 1) BY <1>2, <1>3
  <2>2. CASE k \in 1..n BY <1>2, <2>1, <2>2 DEF IsChain
  <2>3. CASE k = n + 1
    <3>1. k - 1 = n BY <1>2, <2>3
    <3> QED BY <1>2, <2>1, <2>3, <3>1 DEF a
  <2> QED BY <1>2, <2>2, <2>3
<1>6. IsChain(more) BY <1>2, <1>5 DEF IsChain
<1> QED BY <1>1, <1>2, <1>4, <1>6 DEF more, a

LEMMA InitInvariant == Init => IInv
<1> SUFFICES ASSUME Init PROVE IInv OBVIOUS
<1>1. text \in Seq(Byte) /\ Len(text) \in Nat BY AtomsAssumption DEF Init
<1>2. TypeInv BY <1>1 DEF Init, TypeInv
<1>3. counted = <<>> /\ items = <<>> /\ pass = "count" /\ i = 1 BY DEF Init
<1>4. IsChain(<<>>) /\ To(<<>>, 0) = 1 BY DEF IsChain, To
<1>5. CountInv BY <1>3, <1>4 DEF CountInv
<1>6. StoreInv BY <1>3, <1>4 DEF StoreInv
<1> QED BY <1>2, <1>5, <1>6 DEF IInv

\* A store has room: an array of the atoms counted has a place for the next one.
LEMMA StoreHasRoom ==
  ASSUME IInv, pass # "count", HasAtom(text, i)
  PROVE  Len(items) < Len(counted) /\ counted[Len(items) + 1] = AtomFrom(text, i)
<1>1. /\ Len(items) \in Nat /\ Len(counted) \in Nat /\ Len(items) <= Len(counted)
      /\ \A k \in 1..Len(items) : items[k] = counted[k]
      /\ i = To(items, Len(items))
  BY DEF IInv, TypeInv, StoreInv
<1>2. To(items, Len(items)) = To(counted, Len(items)) BY <1>1 DEF To
<1>3. Len(items) # Len(counted) BY <1>1, <1>2 DEF IInv, CountInv
<1>4. Len(items) + 1 \in 1..Len(counted) /\ (Len(items) + 1) - 1 = Len(items) BY <1>1, <1>3
<1>5. counted[Len(items) + 1] = AtomFrom(text, To(counted, (Len(items) + 1) - 1))
  BY <1>4 DEF IInv, CountInv, IsChain
<1> QED BY <1>1, <1>2, <1>3, <1>4, <1>5

LEMMA StepInvariant == IInv /\ [Next]_vars => IInv'
<1> SUFFICES ASSUME IInv, [Next]_vars PROVE IInv' OBVIOUS
<1>0. /\ text \in Seq(Byte) /\ i \in 1..(Len(text) + 1) /\ Len(text) \in Nat
      /\ counted \in Seq(Span) /\ items \in Seq(Span)
      /\ IsChain(counted) /\ IsChain(items)
  BY DEF IInv, TypeInv, CountInv, StoreInv
<1>1. CASE CountAtom
  <2>1. /\ pass = "count" /\ HasAtom(text, i) /\ i = To(counted, Len(counted)) /\ items = <<>>
        /\ counted' = Append(counted, AtomFrom(text, i)) /\ i' = AtomFrom(text, i).to
        /\ text' = text /\ pass' = pass /\ items' = items
    BY <1>1 DEF CountAtom, IInv, CountInv
  <2>2. /\ counted' \in Seq(Span) /\ IsChain(counted') /\ i' \in 1..(Len(text) + 1)
        /\ To(counted', Len(counted')) = i'
    BY <1>0, <2>1, ChainGrows
  <2>3. IsChain(counted)' BY <2>1, <2>2 DEF IsChain
  <2>4. TypeInv' BY <1>0, <2>1, <2>2 DEF TypeInv
  <2>5. CountInv' BY <2>1, <2>2, <2>3 DEF CountInv
  <2>6. Len(items') = 0 /\ Len(counted') \in Nat BY <2>1, <2>2
  <2>7. StoreInv' BY <2>1, <2>6 DEF StoreInv, IsChain
  <2> QED BY <2>4, <2>5, <2>7 DEF IInv
<1>2. CASE StartStore
  <2>1. /\ pass = "count" /\ ~HasAtom(text, i) /\ pass' = "store" /\ i' = 1
        /\ text' = text /\ counted' = counted /\ items' = items
    BY <1>2 DEF StartStore
  <2>2. i = To(counted, Len(counted)) /\ items = <<>> BY <2>1 DEF IInv, CountInv
  <2>3. TypeInv' BY <1>0, <2>1 DEF TypeInv
  <2>4. IsChain(counted)' /\ IsChain(items)' BY <1>0, <2>1 DEF IsChain
  <2>5. CountInv' BY <2>1, <2>2, <2>4 DEF CountInv
  <2>6. Len(items) = 0 /\ Len(counted) \in Nat BY <1>0, <2>2
  <2>7. StoreInv' BY <2>1, <2>4, <2>6 DEF StoreInv, To
  <2> QED BY <2>3, <2>5, <2>7 DEF IInv
<1>3. CASE StoreAtom
  <2>1. /\ pass = "store" /\ HasAtom(text, i) /\ i = To(items, Len(items))
        /\ items' = Append(items, AtomFrom(text, i)) /\ i' = AtomFrom(text, i).to
        /\ text' = text /\ pass' = pass /\ counted' = counted
    BY <1>3 DEF StoreAtom, IInv, StoreInv
  <2>2. /\ items' \in Seq(Span) /\ IsChain(items') /\ i' \in 1..(Len(text) + 1)
        /\ To(items', Len(items')) = i' /\ Len(items') = Len(items) + 1
        /\ \A k \in 1..Len(items) : items'[k] = items[k]
        /\ items'[Len(items) + 1] = AtomFrom(text, i)
    BY <1>0, <2>1, ChainGrows
  <2>3. IsChain(items)' /\ IsChain(counted)' BY <1>0, <2>1, <2>2 DEF IsChain
  <2>4. TypeInv' BY <1>0, <2>1, <2>2 DEF TypeInv
  <2>5. CountInv' BY <2>1, <2>3 DEF IInv, CountInv
  <2>6. Len(items) < Len(counted) /\ counted[Len(items) + 1] = AtomFrom(text, i)
    BY <2>1, StoreHasRoom
  <2>7. Len(items') <= Len(counted') BY <1>0, <2>1, <2>2, <2>6
  <2>8. ASSUME NEW k \in 1..Len(items') PROVE items'[k] = counted'[k]
    <3>1. k \in 1..Len(items) \/ k = Len(items) + 1 BY <1>0, <2>2
    <3>2. k \in 1..Len(items) => items[k] = counted[k] BY DEF IInv, StoreInv
    <3> QED BY <2>1, <2>2, <2>6, <3>1, <3>2
  <2>9. StoreInv' BY <2>1, <2>2, <2>3, <2>7, <2>8 DEF StoreInv
  <2> QED BY <2>4, <2>5, <2>9 DEF IInv
<1>4. CASE Finish
  <2>1. /\ pass = "store" /\ ~HasAtom(text, i) /\ pass' = "done"
        /\ text' = text /\ i' = i /\ counted' = counted /\ items' = items
    BY <1>4 DEF Finish
  <2>2. TypeInv' BY <1>0, <2>1 DEF TypeInv
  <2>3. IsChain(counted)' /\ IsChain(items)' BY <1>0, <2>1 DEF IsChain
  <2>4. CountInv' BY <2>1, <2>3 DEF IInv, CountInv
  <2>5. StoreInv' BY <2>1, <2>3 DEF IInv, StoreInv
  <2> QED BY <2>2, <2>4, <2>5 DEF IInv
<1>5. CASE UNCHANGED vars
  BY <1>5 DEF vars, IInv, TypeInv, CountInv, StoreInv, IsChain
<1> QED BY <1>1, <1>2, <1>3, <1>4, <1>5 DEF Next

LEMMA InvariantImplies == IInv => AtomsAreWhole
<1> SUFFICES ASSUME IInv PROVE AtomsAreWhole OBVIOUS
<1>0. /\ text \in Seq(Byte) /\ Len(text) \in Nat /\ IsChain(items)
      /\ Len(items) \in Nat /\ Len(counted) \in Nat /\ Len(items) <= Len(counted)
      /\ i \in 1..(Len(text) + 1)
  BY DEF IInv, TypeInv, StoreInv
<1>1. ASSUME NEW k \in 1..Len(items)
      PROVE  LET from == items[k].from   to == items[k].to
                 last == IF k = 1 THEN 1 ELSE items[k - 1].to
             IN  /\ last <= from /\ from < to /\ to <= Len(text) + 1
                 /\ \A n \in last..(from - 1) : text[n] \in Blank
                 /\ from = 1 \/ text[from - 1] \in Blank
                 /\ to = Len(text) + 1 \/ text[to] \in Blank
  <2> DEFINE last == To(items, k - 1)   a == items[k]
  <2>1. last = IF k = 1 THEN 1 ELSE items[k - 1].to BY <1>0 DEF To
  <2>2. last \in 1..(Len(text) + 1) /\ HasAtom(text, last) /\ a = AtomFrom(text, last)
    BY <1>0 DEF IsChain
  <2>3. /\ a \in Span /\ last <= a.from /\ a.from < a.to /\ a.to <= Len(text) + 1
        /\ a.from \in 1..Len(text) /\ text[a.from] \notin Blank
        /\ \A n \in last..(a.from - 1) : text[n] \in Blank
        /\ a.to = Len(text) + 1 \/ text[a.to] \in Blank
    BY <1>0, <2>2, AtomFromBounds
  <2>4. last = 1 \/ last = Len(text) + 1 \/ text[last] \in Blank
    <3>1. CASE k = 1 BY <2>1, <3>1
    <3>2. CASE k # 1
      <4>1. k - 1 \in 1..Len(items) BY <1>0, <3>2
      <4>2. /\ To(items, k - 2) \in 1..(Len(text) + 1) /\ HasAtom(text, To(items, k - 2))
            /\ items[k - 1] = AtomFrom(text, To(items, k - 2))
        <5>1. (k - 1) - 1 = k - 2 OBVIOUS
        <5> QED BY <1>0, <4>1, <5>1 DEF IsChain
      <4>3. items[k - 1].to = Len(text) + 1 \/ text[items[k - 1].to] \in Blank
        BY <1>0, <4>2, AtomFromBounds
      <4> QED BY <2>1, <3>2, <4>3
    <3> QED BY <3>1, <3>2
  <2> HIDE DEF last, a
  <2>5. a.from = 1 \/ text[a.from - 1] \in Blank
    <3>1. CASE last = a.from BY <1>0, <2>3, <2>4, <3>1
    <3>2. CASE last # a.from
      <4>1. a.from - 1 \in last..(a.from - 1) BY <1>0, <2>2, <2>3, <3>2
      <4> QED BY <2>3, <4>1
    <3> QED BY <3>1, <3>2
  <2> QED BY <2>1, <2>3, <2>5 DEF a
<1>2. ASSUME pass = "done"
      PROVE  Len(items) = Len(counted) /\ \A n \in i..Len(text) : text[n] \in Blank
  <2>1. ~HasAtom(text, i) /\ i = To(items, Len(items))
    BY <1>2 DEF IInv, StoreInv
  <2>2. Len(items) = Len(counted)
    <3> SUFFICES ASSUME Len(items) < Len(counted) PROVE FALSE BY <1>0
    <3>1. To(items, Len(items)) = To(counted, Len(items))
      BY <1>0 DEF To, IInv, StoreInv
    <3>2. Len(items) + 1 \in 1..Len(counted) /\ (Len(items) + 1) - 1 = Len(items) BY <1>0
    <3>3. HasAtom(text, To(counted, (Len(items) + 1) - 1))
      BY <3>2 DEF IInv, CountInv, IsChain
    <3> QED BY <2>1, <3>1, <3>2, <3>3
  <2>3. ASSUME NEW n \in i..Len(text) PROVE text[n] \in Blank
    <3>1. /\ NextStart(text, i) \in i..(Len(text) + 1)
          /\ \A k \in i..(NextStart(text, i) - 1) : text[k] \notin Byte \ Blank
      BY <1>0, UntilBounds DEF NextStart
    <3>2. n \in i..(NextStart(text, i) - 1) /\ n \in 1..Len(text)
      BY <1>0, <2>1, <3>1 DEF HasAtom
    <3>3. text[n] \in Byte BY <1>0, <3>2
    <3> QED BY <3>1, <3>2, <3>3
  <2> QED BY <2>2, <2>3
<1> QED BY <1>0, <1>1, <1>2 DEF AtomsAreWhole

\* For every text: the array is filled exactly, and the atoms are whole words in the
\* order of the text, with only blanks outside them.
THEOREM AtomsAreWholeHolds == Spec => []AtomsAreWhole
BY InitInvariant, StepInvariant, InvariantImplies, PTL DEF Spec

-----------------------------------------------------------------------------
(* What the splitter's helpers return, over the words of the text.          *)

LEMMA UntilIs ==
  ASSUME NEW t \in Seq(Byte), NEW n \in 1..(Len(t) + 1), NEW C, NEW m \in n..(Len(t) + 1),
         m = Len(t) + 1 \/ t[m] \in C, \A p \in n..(m - 1) : t[p] \notin C
  PROVE  Until(t, n, C) = m
<1> DEFINE u == Until(t, n, C)
<1>0. Len(t) \in Nat OBVIOUS
<1>1. /\ u \in n..(Len(t) + 1) /\ (u = Len(t) + 1 \/ t[u] \in C)
      /\ \A p \in n..(u - 1) : t[p] \notin C
  BY UntilBounds
<1> HIDE DEF u
<1>2. ~(u < m) BY <1>0, <1>1
<1>3. ~(m < u) BY <1>0, <1>1
<1>4. u = m BY <1>0, <1>1, <1>2, <1>3
<1> QED BY <1>4 DEF u

LEMMA HexGroupsAre ==
  ASSUME NEW t \in Seq(Byte), NEW p \in 1..Len(t)
  PROVE  LET g == HexGroups(t, p)
         IN  g \in 0..Len(t) /\ ~IsHexGroup(t, p, g) /\ \A h \in 0..(g - 1) : IsHexGroup(t, p, h)
<1> DEFINE S == {g \in 0..Len(t) : ~IsHexGroup(t, p, g)}   g == HexGroups(t, p)
<1>0. Len(t) \in Nat OBVIOUS
<1>1. ~IsHexGroup(t, p, Len(t)) BY <1>0 DEF IsHexGroup
<1>2. S \in SUBSET Nat /\ S # {} BY <1>0, <1>1
<1>3. g \in S /\ \A y \in S : g <= y BY <1>2, LeastIsLeast DEF HexGroups
<1> HIDE DEF g
<1>4. ASSUME NEW h \in 0..(g - 1) PROVE IsHexGroup(t, p, h)
  <2>1. h \in 0..Len(t) /\ ~(g <= h) BY <1>0, <1>3
  <2> QED BY <1>3, <2>1
<1>5. g \in 0..Len(t) /\ ~IsHexGroup(t, p, g) BY <1>3
<1> QED BY <1>4, <1>5 DEF g

\* What hex_run_len takes is a hex run.
LEMMA TakesHexRun ==
  ASSUME text \in Seq(Byte), NEW p \in WordStarts, HexRunEnd(text, p) # p
  PROVE  IsHexRun(p, HexRunEnd(text, p)) /\ HexRunEnd(text, p) \in (p + 5)..(Len(text) + 1)
<1> DEFINE g == HexGroups(text, p)   e == p + 3 * g - 1
<1>0. Len(text) \in Nat /\ p \in 1..Len(text) BY DEF WordStarts
<1>1. /\ g \in 0..Len(text) /\ ~IsHexGroup(text, p, g)
      /\ \A h \in 0..(g - 1) : IsHexGroup(text, p, h)
  BY <1>0, HexGroupsAre
<1>2. /\ g >= 2
      /\ e <= Len(text) => text[e] \notin Alpha \cup {"dig"}
      /\ HexRunEnd(text, p) = e
  BY DEF HexRunEnd
<1>3. e \in (p + 5)..(Len(text) + 1) /\ e = p + 3 * g - 1
  <2>1. HexRunEnd(text, p) \in p..(Len(text) + 1) BY <1>0, HexRunBounds
  <2> QED BY <1>0, <1>1, <1>2, <2>1
<1> HIDE DEF g, e
<1>4. e - p >= 5 /\ (e - p) % 3 = 2
  <2>1. e - p = 3 * (g - 1) + 2 /\ g - 1 \in Nat BY <1>0, <1>1, <1>2, <1>3
  <2> QED BY <1>0, <1>3, <2>1
<1>5. ASSUME NEW n \in p..(e - 1)
      PROVE  text[n] \in IF (n - p) % 3 = 2 THEN {"sp"} ELSE Hex
  <2> DEFINE h == (n - p) \div 3
  <2>1. /\ h \in 0..(g - 1) /\ n \in Int
        /\ n = p + 3 * h \/ n = p + 3 * h + 1 \/ (n = p + 3 * (h + 1) - 1 /\ h + 1 \in 0..(g - 1))
        /\ n = p + 3 * (h + 1) - 1 <=> (n - p) % 3 = 2
    BY <1>0, <1>1, <1>2, <1>3
  <2> HIDE DEF h
  <2>2. CASE n = p + 3 * h
    <3>1. IsHexGroup(text, p, h) BY <1>1, <2>1
    <3>2. text[n] \in Hex BY <2>2, <3>1 DEF IsHexGroup
    <3>3. n # p + 3 * (h + 1) - 1 BY <1>0, <2>1, <2>2
    <3> QED BY <2>1, <3>2, <3>3
  <2>3. CASE n = p + 3 * h + 1
    <3>1. IsHexGroup(text, p, h) BY <1>1, <2>1
    <3>2. text[n] \in Hex BY <2>3, <3>1 DEF IsHexGroup
    <3>3. n # p + 3 * (h + 1) - 1 BY <1>0, <2>1, <2>3
    <3> QED BY <2>1, <3>2, <3>3
  <2>4. CASE n = p + 3 * (h + 1) - 1
    <3>1. h + 1 \in 0..(g - 1) /\ h + 1 > 0 BY <1>0, <2>1, <2>4
    <3>2. IsHexGroup(text, p, h + 1) BY <1>1, <3>1
    <3> DEFINE m == p + 3 * (h + 1)
    <3>3. text[m - 1] = "sp" BY <3>1, <3>2 DEF IsHexGroup
    <3>4. m - 1 = n BY <1>0, <2>1, <2>4
    <3> HIDE DEF m
    <3>5. text[n] = "sp" BY <3>3, <3>4
    <3> QED BY <2>1, <2>4, <3>5
  <2> QED BY <2>1, <2>2, <2>3, <2>4
<1>6. ~ByteIn(e, Alpha \cup {"dig"}) BY <1>2 DEF ByteIn
<1>7. ~(ByteIn(e, {"sp"}) /\ ByteIn(e + 1, Hex) /\ ByteIn(e + 2, Hex))
  <2> SUFFICES ASSUME ByteIn(e, {"sp"}), ByteIn(e + 1, Hex), ByteIn(e + 2, Hex) PROVE FALSE
    OBVIOUS
  <2>1. /\ text[e] = "sp" /\ text[e + 1] \in Hex /\ text[e + 2] \in Hex /\ e + 2 <= Len(text)
    BY <1>0 DEF ByteIn
  <2> DEFINE n == p + 3 * g
  <2>2. n = e + 1 /\ n + 1 = e + 2 /\ n - 1 = e /\ n < Len(text)
    BY <1>0, <1>1, <1>3, <2>1
  <2> HIDE DEF n
  <2>3. n < Len(text) /\ text[n] \in Hex /\ text[n + 1] \in Hex /\ text[n - 1] = "sp"
    BY <2>1, <2>2
  <2>4. IsHexGroup(text, p, g) BY <2>3 DEF IsHexGroup, n
  <2> QED BY <1>1, <2>4
<1>8. IsHexRun(p, e) BY <1>4, <1>5, <1>6, <1>7 DEF IsHexRun
<1> QED BY <1>2, <1>3, <1>8 DEF e

\* hex_run_len takes a whole hex run.
LEMMA TakesWholeHexRun ==
  ASSUME text \in Seq(Byte), NEW a \in WordStarts, NEW b \in 2..(Len(text) + 1), IsHexRun(a, b)
  PROVE  HexRunEnd(text, a) = b /\ b # a
<1> DEFINE g == (b - a + 1) \div 3
<1>0. Len(text) \in Nat /\ a \in 1..Len(text) BY DEF WordStarts
<1>1. /\ b - a >= 5 /\ (b - a) % 3 = 2
      /\ \A n \in a..(b - 1) : text[n] \in IF (n - a) % 3 = 2 THEN {"sp"} ELSE Hex
      /\ ~ByteIn(b, Alpha \cup {"dig"})
      /\ ~(ByteIn(b, {"sp"}) /\ ByteIn(b + 1, Hex) /\ ByteIn(b + 2, Hex))
  BY DEF IsHexRun
<1>2. g \in Nat /\ g >= 2 /\ g <= Len(text) /\ b = a + 3 * g - 1 BY <1>0, <1>1
<1> HIDE DEF g
<1>3. ASSUME NEW h \in 0..(g - 1) PROVE IsHexGroup(text, a, h)
  <2> DEFINE n == a + 3 * h
  <2>1. /\ n \in a..(b - 1) /\ n + 1 \in a..(b - 1) /\ (n - a) % 3 = 0 /\ (n + 1 - a) % 3 = 1
        /\ n < Len(text) /\ (h > 0 => n - 1 \in a..(b - 1) /\ (n - 1 - a) % 3 = 2)
    BY <1>0, <1>2
  <2> HIDE DEF n
  <2>2. text[n] \in Hex /\ text[n + 1] \in Hex /\ (h > 0 => text[n - 1] = "sp")
    <3>1. \A k \in a..(b - 1) : (k - a) % 3 # 2 => text[k] \in Hex BY <1>1
    <3>2. \A k \in a..(b - 1) : (k - a) % 3 = 2 => text[k] = "sp" BY <1>1
    <3>3. (n - a) % 3 # 2 /\ ((n + 1) - a) % 3 # 2 /\ (h > 0 => ((n - 1) - a) % 3 = 2)
      BY <1>0, <2>1
    <3> QED BY <2>1, <3>1, <3>2, <3>3
  <2> QED BY <2>1, <2>2 DEF n, IsHexGroup
<1>4. ~IsHexGroup(text, a, g)
  <2> SUFFICES ASSUME IsHexGroup(text, a, g) PROVE FALSE OBVIOUS
  <2>1. a + 3 * g = b + 1 /\ a + 3 * g + 1 = b + 2 /\ a + 3 * g - 1 = b /\ g > 0
    BY <1>0, <1>2
  <2>2. /\ b + 1 < Len(text) /\ text[b + 1] \in Hex /\ text[b + 2] \in Hex /\ text[b] = "sp"
    BY <2>1 DEF IsHexGroup
  <2>3. ByteIn(b, {"sp"}) /\ ByteIn(b + 1, Hex) /\ ByteIn(b + 2, Hex)
    BY <1>0, <2>2 DEF ByteIn
  <2> QED BY <1>1, <2>3
<1>5. /\ HexGroups(text, a) \in 0..Len(text) /\ ~IsHexGroup(text, a, HexGroups(text, a))
      /\ \A h \in 0..(HexGroups(text, a) - 1) : IsHexGroup(text, a, h)
  BY <1>0, HexGroupsAre
<1>6. HexGroups(text, a) = g
  <2>1. ~(HexGroups(text, a) < g) BY <1>2, <1>3, <1>5
  <2>2. ~(g < HexGroups(text, a)) BY <1>2, <1>4, <1>5
  <2> QED BY <1>2, <1>5, <2>1, <2>2
<1>7. b <= Len(text) => text[b] \notin Alpha \cup {"dig"} BY <1>0, <1>1 DEF ByteIn
<1>8. HexRunEnd(text, a) = b BY <1>2, <1>6, <1>7 DEF HexRunEnd
<1> QED BY <1>0, <1>1, <1>8

\* A number and its unit, n the space between: what quantity_unit_len takes, if anything.
LEMMA NumberBytes ==
  ASSUME NEW t \in Seq(Byte), NEW p \in 1..Len(t), t[p] = "dig"
  PROVE  /\ NumberEnd(t, p) \in (p + 1)..(Len(t) + 1)
         /\ \A k \in p..(NumberEnd(t, p) - 1) : t[k] \in {"dig", "dot"}
<1> DEFINE n == NumberEnd(t, p)   d == DigitsEnd(t, p)   e == DigitsEnd(t, d + 1)
<1>0. Len(t) \in Nat /\ \A k \in 1..Len(t) : t[k] \in Byte OBVIOUS
<1>1. /\ d \in p..(Len(t) + 1) /\ (d = Len(t) + 1 \/ t[d] \in Byte \ {"dig"})
      /\ \A k \in p..(d - 1) : t[k] \notin Byte \ {"dig"}
  BY <1>0, UntilBounds DEF DigitsEnd
<1>2. d # p BY <1>0, <1>1
<1>3. \A k \in p..(d - 1) : t[k] = "dig" BY <1>0, <1>1
<1>4. CASE d < Len(t) /\ t[d] = "dot" /\ t[d + 1] = "dig"
  <2>1. d + 1 \in 1..(Len(t) + 1) BY <1>0, <1>1, <1>4
  <2>2. /\ e \in (d + 1)..(Len(t) + 1)
        /\ \A k \in (d + 1)..(e - 1) : t[k] \notin Byte \ {"dig"}
    BY <2>1, UntilBounds DEF DigitsEnd
  <2>3. n = e BY <1>4 DEF NumberEnd
  <2> HIDE DEF d, e, n
  <2>4. ASSUME NEW k \in p..(e - 1) PROVE t[k] \in {"dig", "dot"}
    <3>1. k \in 1..Len(t) BY <1>0, <2>2
    <3>2. k \in p..(d - 1) \/ k = d \/ k \in (d + 1)..(e - 1) BY <1>0, <1>1, <2>2
    <3> QED BY <1>0, <1>3, <1>4, <2>2, <3>1, <3>2
  <2> QED BY <1>0, <1>1, <2>2, <2>3, <2>4 DEF n
<1>5. CASE ~(d < Len(t) /\ t[d] = "dot" /\ t[d + 1] = "dig")
  <2>1. n = d BY <1>5 DEF NumberEnd
  <2> HIDE DEF d, n
  <2> QED BY <1>0, <1>1, <1>2, <1>3, <2>1 DEF n
<1> QED BY <1>4, <1>5

LEMMA TakesQuantity ==
  ASSUME NEW t \in Seq(Byte), NEW p \in 1..Len(t), QuantityEnd(t, p) # p
  PROVE  \E n \in (p + 1)..Len(t) :
           /\ t[p] = "dig" /\ t[n] = "sp" /\ n + 1 <= Len(t) /\ t[n + 1] = "m"
           /\ \A k \in p..(n - 1) : t[k] \notin Blank
           /\ QuantityEnd(t, p) \in (n + 1)..(Len(t) + 1)
           /\ \A k \in (n + 1)..(QuantityEnd(t, p) - 1) : t[k] \notin Blank
<1> DEFINE n == NumberEnd(t, p)   end == Until(t, n + 1, Byte \ Alpha)
<1>0. Len(t) \in Nat /\ \A k \in 1..Len(t) : t[k] \in Byte OBVIOUS
<1>1. /\ t[p] = "dig" /\ n <= Len(t) /\ t[n] = "sp"
      /\ SubSeq(t, n + 1, end - 1) \in Unit /\ QuantityEnd(t, p) = end
  BY DEF QuantityEnd
<1>2. /\ n \in (p + 1)..(Len(t) + 1)
      /\ \A k \in p..(n - 1) : t[k] \in {"dig", "dot"}
  BY <1>1, NumberBytes
<1> HIDE DEF n
<1>3. n + 1 \in 1..(Len(t) + 1) BY <1>0, <1>1, <1>2
<1>4. /\ end \in (n + 1)..(Len(t) + 1)
      /\ \A k \in (n + 1)..(end - 1) : t[k] \notin Byte \ Alpha
  BY <1>3, UntilBounds
<1> HIDE DEF end
<1>5. ASSUME NEW k \in (n + 1)..(end - 1) PROVE t[k] \in Alpha /\ k \in 1..Len(t)
  <2>1. k \in 1..Len(t) BY <1>0, <1>3, <1>4
  <2> QED BY <1>0, <1>4, <2>1
<1>6. n + 1 <= Len(t) /\ t[n + 1] = "m"
  <2> DEFINE u == SubSeq(t, n + 1, end - 1)
  <2>1. \A k \in (n + 1)..(end - 1) : t[k] \in Byte BY <1>0, <1>5
  <2>2. /\ Len(u) = IF n + 1 <= end - 1 THEN end - 1 - (n + 1) + 1 ELSE 0
        /\ \A k \in 1..(end - 1 - (n + 1) + 1) : u[k] = t[n + 1 + k - 1]
    BY <1>0, <1>3, <1>4, <2>1, SubSeqProperties
  <2>3. u = <<"m", "s">> BY <1>1 DEF Unit
  <2> HIDE DEF u
  <2>4. Len(u) = 2 /\ u[1] = "m" BY <2>3
  <2>5. end = n + 3
    <3>1. end \in Int /\ n \in Int BY <1>0, <1>2, <1>4
    <3>2. 2 = IF n + 1 <= end - 1 THEN end - 1 - (n + 1) + 1 ELSE 0 BY <2>2, <2>4
    <3> QED BY <3>1, <3>2
  <2>6. 1 \in 1..(end - 1 - (n + 1) + 1) /\ n + 1 + 1 - 1 = n + 1 BY <1>2, <2>5
  <2>7. u[1] = t[n + 1] BY <2>2, <2>6
  <2> QED BY <1>0, <1>2, <1>4, <2>4, <2>5, <2>7
<1>7. \A k \in (n + 1)..(end - 1) : t[k] \notin Blank BY <1>5 DEF Alpha, Blank
<1>8. \A k \in p..(n - 1) : t[k] \notin Blank BY <1>2 DEF Blank
<1>9. n \in (p + 1)..Len(t) BY <1>0, <1>1, <1>2
<1> QED BY <1>1, <1>4, <1>6, <1>7, <1>8, <1>9

\* quantity_unit_len takes a whole quantity, and no hex run starts with one.
LEMMA TakesWholeQuantity ==
  ASSUME text \in Seq(Byte), NEW a \in WordStarts, NEW b \in 2..(Len(text) + 1),
         NEW n \in a..b, IsQuantity(a, n, b)
  PROVE  /\ QuantityEnd(text, a) = b /\ b # a /\ text[a] = "dig"
         /\ n + 1 <= Len(text) /\ text[n] = "sp" /\ text[n + 1] = "m"
         /\ \A k \in a..(n - 1) : text[k] \in {"dig", "dot"}
<1>0. /\ Len(text) \in Nat /\ a \in 1..Len(text)
      /\ \A k \in 1..Len(text) : text[k] \in Byte
  BY DEF WordStarts
<1>1. /\ a < n /\ n < b /\ text[n] = "sp" /\ SubSeq(text, n + 1, b - 1) \in Unit
      /\ ~ByteIn(b, Alpha)
  BY DEF IsQuantity
<1>2. PICK d \in a..n : /\ \A k \in a..(n - 1) : text[k] = IF k = d THEN "dot" ELSE "dig"
                        /\ d \notin {a, n - 1}
  BY DEF IsQuantity
<1>3. a \in a..(n - 1) /\ a # d /\ d \in Int /\ n \in Int BY <1>0, <1>1, <1>2
<1>4. text[a] = "dig" BY <1>2, <1>3
<1>5. \A k \in a..(n - 1) : text[k] \in {"dig", "dot"} BY <1>2
<1>6. n \in 1..Len(text) /\ n + 1 \in 1..(Len(text) + 1) BY <1>0, <1>1
<1>7. DigitsEnd(text, a) = d
  <2>1. d \in a..(Len(text) + 1) /\ d \in 1..Len(text) BY <1>0, <1>2, <1>6
  <2>2. text[d] \in Byte \ {"dig"}
    <3>1. CASE d = n BY <1>0, <1>1, <2>1, <3>1
    <3>2. CASE d # n
      <4>1. d \in a..(n - 1) BY <1>0, <1>2, <1>3, <3>2
      <4> QED BY <1>0, <1>2, <2>1, <4>1
    <3> QED BY <3>1, <3>2
  <2>3. \A k \in a..(d - 1) : text[k] \notin Byte \ {"dig"}
    <3> SUFFICES ASSUME NEW k \in a..(d - 1) PROVE text[k] = "dig" OBVIOUS
    <3>1. k \in a..(n - 1) /\ k # d BY <1>0, <1>2, <1>3
    <3> QED BY <1>2, <3>1
  <2>4. a \in 1..(Len(text) + 1) BY <1>0
  <2>5. Until(text, a, Byte \ {"dig"}) = d BY <2>1, <2>2, <2>3, <2>4, UntilIs
  <2> QED BY <2>5 DEF DigitsEnd
<1>8. NumberEnd(text, a) = n
  <2>1. CASE d = n
    <3>1. text[d] # "dot" BY <1>1, <2>1
    <3> QED BY <1>7, <2>1, <3>1 DEF NumberEnd
  <2>2. CASE d # n
    <3>1. /\ d \in a..(n - 1) /\ d + 1 \in a..(n - 1) /\ d + 1 # d /\ d < Len(text)
          /\ d + 1 \in 1..(Len(text) + 1)
      BY <1>0, <1>2, <1>3, <1>6, <2>2
    <3>2. text[d] = "dot" /\ text[d + 1] = "dig" BY <1>2, <3>1
    <3>3. \A k \in (d + 1)..(n - 1) : text[k] \notin Byte \ {"dig"}
      <4> SUFFICES ASSUME NEW k \in (d + 1)..(n - 1) PROVE text[k] = "dig" OBVIOUS
      <4>1. k \in a..(n - 1) /\ k # d BY <1>0, <1>2, <1>3, <3>1
      <4> QED BY <1>2, <4>1
    <3>4. n \in (d + 1)..(Len(text) + 1) /\ text[n] \in Byte \ {"dig"}
      BY <1>0, <1>1, <1>6, <3>1
    <3>5. DigitsEnd(text, d + 1) = n BY <3>1, <3>3, <3>4, UntilIs DEF DigitsEnd
    <3> QED BY <1>7, <3>1, <3>2, <3>5 DEF NumberEnd
  <2> QED BY <2>1, <2>2
<1> DEFINE u == SubSeq(text, n + 1, b - 1)
<1>9. /\ b = n + 3 /\ text[n + 1] = "m" /\ text[n + 2] = "s"
  <2>1. \A k \in (n + 1)..(b - 1) : text[k] \in Byte BY <1>0, <1>6
  <2>2. /\ Len(u) = IF n + 1 <= b - 1 THEN b - 1 - (n + 1) + 1 ELSE 0
        /\ \A k \in 1..(b - 1 - (n + 1) + 1) : u[k] = text[n + 1 + k - 1]
    BY <1>3, <2>1, SubSeqProperties
  <2>3. u = <<"m", "s">> BY <1>1 DEF Unit
  <2> HIDE DEF u
  <2>4. Len(u) = 2 /\ u[1] = "m" /\ u[2] = "s" BY <2>3
  <2>5. b = n + 3
    <3>1. b \in Int /\ n \in Int BY <1>0, <1>3
    <3>2. 2 = IF n + 1 <= b - 1 THEN b - 1 - (n + 1) + 1 ELSE 0 BY <2>2, <2>4
    <3> QED BY <3>1, <3>2
  <2>6. /\ 1 \in 1..(b - 1 - (n + 1) + 1) /\ n + 1 + 1 - 1 = n + 1
        /\ 2 \in 1..(b - 1 - (n + 1) + 1) /\ n + 1 + 2 - 1 = n + 2
    BY <1>3, <2>5
  <2>7. u[1] = text[n + 1] /\ u[2] = text[n + 2] BY <2>2, <2>6
  <2> QED BY <2>4, <2>5, <2>7
<1>10. Until(text, n + 1, Byte \ Alpha) = b
  <2>1. b \in (n + 1)..(Len(text) + 1) BY <1>3, <1>9
  <2>2. b = Len(text) + 1 \/ text[b] \in Byte \ Alpha
    BY <1>0, <1>1 DEF ByteIn
  <2>3. \A k \in (n + 1)..(b - 1) : text[k] \notin Byte \ Alpha
    <3> SUFFICES ASSUME NEW k \in (n + 1)..(b - 1) PROVE text[k] \in Alpha OBVIOUS
    <3>1. k = n + 1 \/ k = n + 2 BY <1>3, <1>9
    <3> QED BY <1>9, <3>1 DEF Alpha
  <2> QED BY <1>6, <2>1, <2>2, <2>3, UntilIs
<1>11. QuantityEnd(text, a) = b BY <1>1, <1>4, <1>6, <1>8, <1>10 DEF QuantityEnd
<1>12. b # a /\ n + 1 <= Len(text) BY <1>0, <1>1, <1>3, <1>9
<1> QED BY <1>1, <1>4, <1>5, <1>9, <1>11, <1>12

\* A span that attach_trailer takes is a backtick span.
LEMMA TakesSpan ==
  ASSUME text \in Seq(Byte), NEW p \in WordStarts, OpensSpan(text, p)
  PROVE  /\ IsSpan(p, SpanEnd(text, p)) /\ SpanEnd(text, p) \in (p + 2)..(Len(text) + 1)
         /\ text[SpanEnd(text, p) - 1] = "tick"
<1> DEFINE q == LeadsEnd(text, p)   r == Until(text, q + 1, {"tick"})
<1>0. /\ Len(text) \in Nat /\ p \in 1..Len(text)
      /\ \A k \in 1..Len(text) : text[k] \in Byte
  BY DEF WordStarts
<1>1. /\ q \in p..(Len(text) + 1) /\ \A k \in p..(q - 1) : text[k] \notin Byte \ {"open"}
  BY <1>0, UntilBounds DEF LeadsEnd
<1>2. q <= Len(text) /\ text[q] = "tick" /\ ~IsQuoted(text, p) /\ r + 1 <= Len(text) + 1
  BY DEF OpensSpan, SpanEnd
<1>3. SpanEnd(text, p) = r + 1 BY DEF SpanEnd
<1>4. ~(q > p /\ q < Len(text) /\ text[q + 1] = "close") BY <1>2 DEF IsQuoted
<1> HIDE DEF q
<1>5. q + 1 \in 1..(Len(text) + 1) BY <1>0, <1>1, <1>2
<1>6. /\ r \in (q + 1)..(Len(text) + 1) /\ (r = Len(text) + 1 \/ text[r] \in {"tick"})
      /\ \A k \in (q + 1)..(r - 1) : text[k] \notin {"tick"}
  BY <1>5, UntilBounds
<1> HIDE DEF r
<1>7. r \in (q + 1)..Len(text) /\ text[r] = "tick" /\ q \in p..Len(text)
  BY <1>0, <1>1, <1>2, <1>6
<1>8. \A k \in p..(q - 1) : text[k] = "open" BY <1>0, <1>1, <1>2
<1>9. {k \in q..((r + 1) - 1) : text[k] = "tick"} = {q, (r + 1) - 1}
  <2>1. ASSUME NEW k \in q..((r + 1) - 1) PROVE k = q \/ k = r \/ k \in (q + 1)..(r - 1)
    BY <1>0, <1>7
  <2>2. q \in q..((r + 1) - 1) /\ r \in q..((r + 1) - 1) /\ (r + 1) - 1 = r BY <1>0, <1>7
  <2> QED BY <1>2, <1>6, <1>7, <2>1, <2>2
<1>10. q < Len(text) /\ q \in p..((r + 1) - 2) BY <1>0, <1>7
<1> DEFINE b == r + 1
<1>11. IsSpan(p, b)
  <2>1. q \in p..(b - 2) /\ ~(q > p /\ text[q + 1] = "close") BY <1>4, <1>10
  <2>2. {n \in q..(b - 1) : text[n] = "tick"} = {q, b - 1} BY <1>9
  <2> HIDE DEF b
  <2> QED BY <1>8, <2>1, <2>2, Zenon DEF IsSpan
<1>12. r + 1 \in (p + 2)..(Len(text) + 1) /\ (r + 1) - 1 = r BY <1>0, <1>7
<1> QED BY <1>3, <1>7, <1>11, <1>12

\* attach_trailer takes a whole span, which no hex run and no quantity starts with.
LEMMA TakesWholeSpan ==
  ASSUME text \in Seq(Byte), NEW a \in WordStarts, NEW b \in 2..(Len(text) + 1), IsSpan(a, b)
  PROVE  /\ OpensSpan(text, a) /\ SpanEnd(text, a) = b
         /\ HexRunEnd(text, a) = a /\ QuantityEnd(text, a) = a
         /\ text[a] \in {"open", "tick"}
<1>0. /\ Len(text) \in Nat /\ a \in 1..Len(text)
      /\ \A k \in 1..Len(text) : text[k] \in Byte
  BY DEF WordStarts
<1>1. PICK q \in a..(b - 2) :
        /\ \A n \in a..(q - 1) : text[n] = "open"
        /\ {n \in q..(b - 1) : text[n] = "tick"} = {q, b - 1}
        /\ ~(q > a /\ text[q + 1] = "close")
  BY DEF IsSpan
<1>2. /\ q \in 1..Len(text) /\ q + 1 \in 1..Len(text) /\ b - 1 \in (q + 1)..Len(text)
      /\ q \in q..(b - 1) /\ q < Len(text)
  BY <1>0, <1>1
<1>3. text[q] = "tick" /\ text[b - 1] = "tick" BY <1>1
<1>4. ASSUME NEW n \in (q + 1)..((b - 1) - 1) PROVE text[n] \notin {"tick"}
  <2>1. n \in q..(b - 1) /\ n # q /\ n # b - 1 BY <1>0, <1>1
  <2> QED BY <1>1, <2>1
<1>5. LeadsEnd(text, a) = q
  <2>1. q \in a..(Len(text) + 1) /\ text[q] \in Byte \ {"open"} BY <1>0, <1>1, <1>2, <1>3
  <2>2. \A n \in a..(q - 1) : text[n] \notin Byte \ {"open"} BY <1>1
  <2>3. a \in 1..(Len(text) + 1) BY <1>0
  <2>4. Until(text, a, Byte \ {"open"}) = q BY <2>1, <2>2, <2>3, UntilIs
  <2> QED BY <2>4 DEF LeadsEnd
<1>6. Until(text, q + 1, {"tick"}) = b - 1
  <2>1. b - 1 \in (q + 1)..(Len(text) + 1) /\ q + 1 \in 1..(Len(text) + 1) BY <1>0, <1>2
  <2>2. text[b - 1] \in {"tick"} BY <1>3
  <2> QED BY <1>4, <2>1, <2>2, UntilIs
<1>7. SpanEnd(text, a) = b BY <1>0, <1>5, <1>6 DEF SpanEnd
<1>8. ~IsQuoted(text, a) BY <1>1, <1>5 DEF IsQuoted
<1>9. OpensSpan(text, a) BY <1>0, <1>2, <1>3, <1>5, <1>7, <1>8 DEF OpensSpan
<1>10. text[a] \in {"open", "tick"}
  <2>1. CASE q = a BY <1>3, <2>1
  <2>2. CASE q # a
    <3>1. a \in a..(q - 1) BY <1>0, <1>1, <1>2, <2>2
    <3> QED BY <1>1, <3>1
  <2> QED BY <2>1, <2>2
<1>11. HexRunEnd(text, a) = a
  <2> SUFFICES ASSUME HexRunEnd(text, a) # a PROVE FALSE OBVIOUS
  <2>1. IsHexRun(a, HexRunEnd(text, a)) /\ HexRunEnd(text, a) \in (a + 5)..(Len(text) + 1)
    BY TakesHexRun
  <2>2. a \in a..(HexRunEnd(text, a) - 1) /\ (a - a) % 3 # 2 BY <1>0, <2>1
  <2>3. text[a] \in Hex BY <2>1, <2>2 DEF IsHexRun
  <2> QED BY <1>10, <2>3 DEF Hex
<1>12. QuantityEnd(text, a) = a
  <2>1. text[a] # "dig" BY <1>10
  <2> QED BY <2>1 DEF QuantityEnd
<1> QED BY <1>7, <1>9, <1>10, <1>11, <1>12

HeadEnd(p) == IF HexRunEnd(text, p) # p THEN HexRunEnd(text, p) ELSE QuantityEnd(text, p)

\* An atom is its head, or its span, and the bytes behind it up to a blank.
LEMMA AtomEndsBehindHead ==
  ASSUME text \in Seq(Byte), NEW p \in 1..Len(text)
  PROVE  LET from == IF HeadEnd(p) = p /\ OpensSpan(text, p) THEN SpanEnd(text, p) ELSE HeadEnd(p)
         IN  /\ from <= AtomEnd(text, p) /\ from \in p..(Len(text) + 1)
             /\ \A k \in from..(AtomEnd(text, p) - 1) : text[k] \notin Blank
<1> DEFINE from == IF HeadEnd(p) = p /\ OpensSpan(text, p) THEN SpanEnd(text, p) ELSE HeadEnd(p)
<1>0. Len(text) \in Nat OBVIOUS
<1>1. HeadEnd(p) \in p..(Len(text) + 1) BY HexRunBounds, QuantityBounds DEF HeadEnd
<1>2. OpensSpan(text, p) => SpanEnd(text, p) \in p..(Len(text) + 1)
  <2> SUFFICES ASSUME OpensSpan(text, p) PROVE SpanEnd(text, p) \in p..(Len(text) + 1) OBVIOUS
  <2>1. LeadsEnd(text, p) \in p..(Len(text) + 1) BY <1>0, UntilBounds DEF LeadsEnd
  <2>2. LeadsEnd(text, p) <= Len(text) /\ SpanEnd(text, p) <= Len(text) + 1 BY DEF OpensSpan
  <2>3. LeadsEnd(text, p) + 1 \in 1..(Len(text) + 1) BY <1>0, <2>1, <2>2
  <2>4. Until(text, LeadsEnd(text, p) + 1, {"tick"}) \in (LeadsEnd(text, p) + 1)..(Len(text) + 1)
    BY <2>3, UntilBounds
  <2> QED BY <1>0, <2>1, <2>2, <2>4 DEF SpanEnd
<1>3. from \in p..(Len(text) + 1) BY <1>1, <1>2
<1>4. AtomEnd(text, p) = Until(text, from, Blank) BY DEF AtomEnd, AttachTrailer, HeadEnd
<1> HIDE DEF from
<1>5. from \in 1..(Len(text) + 1) BY <1>0, <1>3
<1>6. /\ Until(text, from, Blank) \in from..(Len(text) + 1)
      /\ \A k \in from..(Until(text, from, Blank) - 1) : text[k] \notin Blank
  BY <1>5, UntilBounds
<1>7. from <= AtomEnd(text, p) BY <1>0, <1>3, <1>4, <1>6
<1> QED BY <1>3, <1>4, <1>6, <1>7 DEF from

\* A word within an atom, behind its start, is a group of its hex run, the unit of its
\* quantity, or stands in its span.
LEMMA WordsOfAnAtom ==
  ASSUME text \in Seq(Byte), NEW p \in WordStarts, NEW a \in WordStarts,
         p < a, a < AtomEnd(text, p)
  PROVE  \/ HexRunEnd(text, p) # p /\ a < HexRunEnd(text, p)
         \/ text[a] = "m"
         \/ IsInSpan(a)
<1>0. /\ Len(text) \in Nat /\ p \in 1..Len(text) /\ a \in 1..Len(text) /\ text[a] \notin Blank
      /\ text[a - 1] \in Blank /\ a - 1 \in p..(a - 1)
  BY DEF WordStarts
<1> DEFINE from == IF HeadEnd(p) = p /\ OpensSpan(text, p) THEN SpanEnd(text, p) ELSE HeadEnd(p)
<1>1. /\ from <= AtomEnd(text, p) /\ from \in p..(Len(text) + 1)
      /\ \A k \in from..(AtomEnd(text, p) - 1) : text[k] \notin Blank
  BY <1>0, AtomEndsBehindHead
<1>2. a - 1 < from
  <2> HIDE DEF from
  <2>1. AtomEnd(text, p) \in Int BY <1>0, AtomEndBounds DEF WordStarts
  <2> SUFFICES ASSUME ~(a - 1 < from) PROVE FALSE OBVIOUS
  <2>2. a - 1 \in from..(AtomEnd(text, p) - 1) BY <1>0, <1>1, <2>1
  <2> QED BY <1>0, <1>1, <2>2
<1>3. CASE HexRunEnd(text, p) # p
  <2>1. /\ IsHexRun(p, HexRunEnd(text, p))
        /\ HexRunEnd(text, p) \in (p + 5)..(Len(text) + 1) /\ from = HexRunEnd(text, p)
    BY <1>3, TakesHexRun DEF HeadEnd
  <2> DEFINE e == HexRunEnd(text, p)
  <2> HIDE DEF from
  <2>2. a # e
    <3> SUFFICES ASSUME a = e PROVE FALSE OBVIOUS
    <3>1. a - 1 \in p..(e - 1) /\ ((a - 1) - p) % 3 # 2
      <4>1. (e - p) % 3 = 2 /\ e \in Int BY <2>1 DEF IsHexRun
      <4> HIDE DEF e
      <4> QED BY <1>0, <4>1
    <3>2. text[a - 1] \in Hex BY <2>1, <3>1 DEF IsHexRun
    <3> QED BY <1>0, <3>2 DEF Hex, Blank
  <2>3. e \in Int BY <2>1
  <2> HIDE DEF e
  <2>4. a < e BY <1>0, <1>2, <2>1, <2>2, <2>3 DEF e
  <2> QED BY <1>3, <2>4 DEF e
<1>4. CASE HexRunEnd(text, p) = p /\ QuantityEnd(text, p) # p
  <2>1. from = QuantityEnd(text, p) BY <1>4 DEF HeadEnd
  <2> HIDE DEF from
  <2>2. PICK n \in (p + 1)..Len(text) :
          /\ text[n + 1] = "m"
          /\ \A k \in p..(n - 1) : text[k] \notin Blank
          /\ \A k \in (n + 1)..(from - 1) : text[k] \notin Blank
    BY <1>0, <1>4, <2>1, TakesQuantity
  <2>3. a - 1 \in p..(n - 1) \/ a - 1 = n \/ a - 1 \in (n + 1)..(from - 1)
    BY <1>0, <1>1, <1>2
  <2>4. a - 1 = n BY <1>0, <2>2, <2>3
  <2>5. n + 1 = a BY <1>0, <2>4
  <2> QED BY <2>2, <2>5
<1>5. CASE HexRunEnd(text, p) = p /\ QuantityEnd(text, p) = p
  <2>1. HeadEnd(p) = p BY <1>5 DEF HeadEnd
  <2>2. OpensSpan(text, p) BY <1>0, <1>2, <2>1
  <2>3. from = SpanEnd(text, p) BY <2>1, <2>2
  <2>4. /\ IsSpan(p, from) /\ from \in (p + 2)..(Len(text) + 1) /\ text[from - 1] = "tick"
    BY <2>2, <2>3, TakesSpan
  <2> HIDE DEF from
  <2>5. a - 1 # from - 1 BY <1>0, <2>4 DEF Blank
  <2>6. p \in 1..(a - 1) /\ from \in (a + 1)..(Len(text) + 1) BY <1>0, <1>2, <2>4, <2>5
  <2>7. IsInSpan(a) BY <2>4, <2>6 DEF IsInSpan
  <2> QED BY <2>7
<1> QED BY <1>3, <1>4, <1>5

\* A word within a hex run starts a group of it.
LEMMA WordInRun ==
  ASSUME text \in Seq(Byte), NEW p \in WordStarts, NEW a \in WordStarts, NEW e \in Int,
         p < a, a < e, IsHexRun(p, e)
  PROVE  (a - p) % 3 = 0 /\ (e - p) % 3 = 2 /\ text[a] \in Hex /\ a + 2 <= e
<1>0. /\ p \in Int /\ a \in Int /\ text[a] \notin Blank /\ text[a - 1] \in Blank
      /\ a - 1 \in p..(e - 1) /\ a \in p..(e - 1)
  BY DEF WordStarts
<1>1. /\ (e - p) % 3 = 2
      /\ \A n \in p..(e - 1) : text[n] \in IF (n - p) % 3 = 2 THEN {"sp"} ELSE Hex
  BY DEF IsHexRun
<1>2. ((a - 1) - p) % 3 = 2 BY <1>0, <1>1 DEF Hex, Blank
<1>3. (a - p) % 3 = 0 BY <1>0, <1>2
<1>4. text[a] \in Hex BY <1>0, <1>1, <1>3
<1>5. a + 2 <= e BY <1>0, <1>1, <1>3
<1> QED BY <1>1, <1>3, <1>4, <1>5

LEMMA HexRunStays ==
  ASSUME text \in Seq(Byte), NEW p \in WordStarts, NEW a \in WordStarts,
         NEW b \in 2..(Len(text) + 1),
         p <= a, a < AtomEnd(text, p), ~IsInSpan(a), IsHexRun(a, b)
  PROVE  b <= AtomEnd(text, p)
<1>0. Len(text) \in Nat /\ p \in 1..Len(text) /\ a \in 1..Len(text) BY DEF WordStarts
<1>1. CASE p = a
  <2>1. HeadEnd(p) = b /\ b # p BY <1>1, TakesWholeHexRun DEF HeadEnd
  <2> QED BY <1>0, <2>1, AtomEndsBehindHead
<1>2. CASE p # a
  <2> DEFINE e == HexRunEnd(text, p)
  <2>1. \A n \in a..(b - 1) : text[n] \in IF (n - a) % 3 = 2 THEN {"sp"} ELSE Hex
    BY DEF IsHexRun
  <2>2. b - a >= 5 /\ (b - a) % 3 = 2 BY DEF IsHexRun
  <2>3. a \in a..(b - 1) /\ (a - a) % 3 # 2 /\ p < a BY <1>0, <1>2, <2>2
  <2>4. text[a] # "m" BY <2>1, <2>3 DEF Hex
  <2>5. e # p /\ a < e BY <2>3, <2>4, WordsOfAnAtom
  <2>6. IsHexRun(p, e) /\ e \in (p + 5)..(Len(text) + 1) BY <2>5, TakesHexRun
  <2>7. HeadEnd(p) = e /\ e # p BY <2>5 DEF HeadEnd
  <2>8. e <= AtomEnd(text, p) BY <1>0, <2>7, AtomEndsBehindHead
  <2> HIDE DEF e
  <2>9. (a - p) % 3 = 0 /\ (e - p) % 3 = 2 BY <2>3, <2>5, <2>6, WordInRun
  <2>10. b <= e
    <3> SUFFICES ASSUME e < b PROVE FALSE BY <1>0, <2>6
    <3>1. /\ e \in a..(b - 1) /\ (e - a) % 3 = 2
          /\ e + 1 \in a..(b - 1) /\ ((e + 1) - a) % 3 # 2
          /\ e + 2 \in a..(b - 1) /\ ((e + 2) - a) % 3 # 2
      BY <1>0, <2>2, <2>5, <2>6, <2>9
    <3>2. text[e] = "sp" /\ text[e + 1] \in Hex /\ text[e + 2] \in Hex BY <2>1, <3>1
    <3>3. e \in 1..Len(text) /\ e + 1 \in 1..Len(text) /\ e + 2 \in 1..Len(text)
      BY <1>0, <3>1
    <3>4. ByteIn(e, {"sp"}) /\ ByteIn(e + 1, Hex) /\ ByteIn(e + 2, Hex)
      BY <3>2, <3>3 DEF ByteIn
    <3> QED BY <2>6, <3>4 DEF IsHexRun
  <2>11. AtomEnd(text, p) \in Int BY <1>0, AtomEndBounds DEF WordStarts
  <2> QED BY <1>0, <2>6, <2>8, <2>10, <2>11
<1> QED BY <1>1, <1>2

LEMMA SpanStays ==
  ASSUME text \in Seq(Byte), NEW p \in WordStarts, NEW a \in WordStarts,
         NEW b \in 2..(Len(text) + 1),
         p <= a, a < AtomEnd(text, p), ~IsInSpan(a), IsSpan(a, b)
  PROVE  b <= AtomEnd(text, p)
<1>0. Len(text) \in Nat /\ p \in 1..Len(text) /\ a \in 1..Len(text) BY DEF WordStarts
<1>1. /\ OpensSpan(text, a) /\ SpanEnd(text, a) = b
      /\ HexRunEnd(text, a) = a /\ QuantityEnd(text, a) = a
      /\ text[a] \in {"open", "tick"}
  BY TakesWholeSpan
<1>2. CASE p = a
  <2>1. HeadEnd(p) = p BY <1>1, <1>2 DEF HeadEnd
  <2> QED BY <1>0, <1>1, <1>2, <2>1, AtomEndsBehindHead
<1>3. CASE p # a
  <2> DEFINE e == HexRunEnd(text, p)
  <2>1. p < a /\ text[a] # "m" BY <1>0, <1>1, <1>3
  <2>2. e # p /\ a < e BY <2>1, WordsOfAnAtom
  <2>3. IsHexRun(p, e) /\ e \in (p + 5)..(Len(text) + 1) BY <2>2, TakesHexRun
  <2> HIDE DEF e
  <2>4. text[a] \in Hex BY <2>1, <2>2, <2>3, WordInRun
  <2> QED BY <1>1, <2>4 DEF Hex
<1> QED BY <1>2, <1>3

LEMMA QuantityStays ==
  ASSUME text \in Seq(Byte), NEW p \in WordStarts, NEW a \in WordStarts,
         NEW b \in 2..(Len(text) + 1), NEW n \in a..b,
         p <= a, a < AtomEnd(text, p), ~IsInSpan(a),
         IsQuantity(a, n, b), ~ContinuesHexRun(a, n)
  PROVE  b <= AtomEnd(text, p)
<1>0. Len(text) \in Nat /\ p \in 1..Len(text) /\ a \in 1..Len(text) BY DEF WordStarts
<1>1. /\ QuantityEnd(text, a) = b /\ b # a /\ text[a] = "dig"
      /\ n + 1 <= Len(text) /\ text[n] = "sp" /\ text[n + 1] = "m"
      /\ \A k \in a..(n - 1) : text[k] \in {"dig", "dot"}
  BY TakesWholeQuantity
<1>2. a < n /\ n < b /\ n \in Int BY <1>0 DEF IsQuantity
<1>3. ASSUME NEW e \in Int, IsHexRun(p, e), a < e, (a - p) % 3 = 0 PROVE e <= n
  <2> SUFFICES ASSUME n < e PROVE FALSE BY <1>2
  <2>1. /\ (e - p) % 3 = 2
        /\ \A k \in p..(e - 1) : text[k] \in IF (k - p) % 3 = 2 THEN {"sp"} ELSE Hex
    BY <1>3 DEF IsHexRun
  <2>2. n \in p..(e - 1) BY <1>0, <1>2
  <2>3. (n - p) % 3 = 2 BY <1>1, <2>1, <2>2 DEF Hex
  <2>4. n + 1 \in p..(e - 1) /\ ((n + 1) - p) % 3 # 2 BY <1>0, <1>2, <2>1, <2>3
  <2>5. text[n + 1] \in Hex BY <2>1, <2>4
  <2> QED BY <1>1, <2>5 DEF Hex
<1> DEFINE e == HexRunEnd(text, p)
<1>4. e # p => IsHexRun(p, e) /\ e \in (p + 5)..(Len(text) + 1) BY TakesHexRun
<1>5. CASE p = a
  <2>1. e = p
    <3> SUFFICES ASSUME e # p PROVE FALSE OBVIOUS
    <3>1. IsHexRun(p, e) /\ e \in (p + 5)..(Len(text) + 1) BY <1>4
    <3> HIDE DEF e
    <3>2. e <= n BY <1>0, <1>3, <1>5, <3>1
    <3>3. /\ p + 2 \in p..(e - 1) /\ ((p + 2) - p) % 3 = 2 /\ p + 2 \in a..(n - 1)
      BY <1>0, <1>2, <1>5, <3>1, <3>2
    <3>4. text[p + 2] = "sp" BY <3>1, <3>3 DEF IsHexRun
    <3> QED BY <1>1, <3>3, <3>4
  <2>2. HeadEnd(p) = b /\ b # p BY <1>1, <1>5, <2>1 DEF HeadEnd
  <2> QED BY <1>0, <2>2, AtomEndsBehindHead
<1>6. CASE p # a
  <2>1. p < a /\ text[a] # "m" BY <1>0, <1>1, <1>6
  <2>2. e # p /\ a < e BY <2>1, WordsOfAnAtom
  <2>3. IsHexRun(p, e) /\ e \in Int BY <1>4, <2>2
  <2> HIDE DEF e
  <2>4. (a - p) % 3 = 0 BY <2>1, <2>2, <2>3, WordInRun
  <2>5. e <= n BY <1>3, <2>2, <2>3, <2>4
  <2>6. p \in 1..(a - 1) /\ e \in (a + 1)..n BY <1>0, <1>2, <2>1, <2>2, <2>3, <2>5
  <2>7. ContinuesHexRun(a, n) BY <2>3, <2>6 DEF ContinuesHexRun
  <2> QED BY <2>7
<1> QED BY <1>5, <1>6

-----------------------------------------------------------------------------

\* A byte before the end of the last atom is blank or stands in an atom.
CoverInv ==
  \A n \in 1..(To(items, Len(items)) - 1) :
    text[n] \in Blank \/ \E k \in 1..Len(items) : items[k].from <= n /\ n < items[k].to

LEMMA StoreCovers ==
  ASSUME IInv, CoverInv, StoreAtom
  PROVE  CoverInv'
<1> DEFINE a == AtomFrom(text, i)   last == To(items, Len(items))
<1>0. /\ text \in Seq(Byte) /\ i \in 1..(Len(text) + 1) /\ Len(text) \in Nat
      /\ items \in Seq(Span) /\ Len(items) \in Nat /\ IsChain(items)
      /\ HasAtom(text, i) /\ i = last /\ items' = Append(items, a) /\ text' = text
  BY DEF IInv, TypeInv, StoreInv, StoreAtom
<1>1. /\ Len(items') = Len(items) + 1 /\ \A k \in 1..Len(items) : items'[k] = items[k]
      /\ items'[Len(items) + 1] = a /\ To(items', Len(items')) = a.to
  BY <1>0, ChainGrows
<1>2. /\ a \in Span /\ i <= a.from /\ a.from < a.to
      /\ \A n \in i..(a.from - 1) : text[n] \in Blank
  BY <1>0, AtomFromBounds
<1>3. a.from \in Int /\ a.to \in Int BY <1>2 DEF Span
<1> HIDE DEF a, last
<1>4. ASSUME NEW n \in 1..(a.to - 1)
      PROVE  \/ text[n] \in Blank
             \/ \E k \in 1..Len(items') : items'[k].from <= n /\ n < items'[k].to
  <2>1. CASE n < i
    <3>1. n \in 1..(To(items, Len(items)) - 1) BY <1>0, <1>3, <2>1 DEF last
    <3>2. CASE text[n] \in Blank BY <3>2
    <3>3. CASE text[n] \notin Blank
      <4>1. PICK k \in 1..Len(items) : items[k].from <= n /\ n < items[k].to
        BY <3>1, <3>3 DEF CoverInv
      <4>2. k \in 1..Len(items') /\ items'[k] = items[k] BY <1>0, <1>1
      <4> QED BY <4>1, <4>2
    <3> QED BY <3>2, <3>3
  <2>2. CASE i <= n /\ n < a.from
    <3>1. n \in i..(a.from - 1) BY <1>0, <1>3, <2>2
    <3> QED BY <1>2, <3>1
  <2>3. CASE a.from <= n
    <3>1. Len(items) + 1 \in 1..Len(items') /\ n < a.to BY <1>0, <1>1, <1>3
    <3> QED BY <1>1, <2>3, <3>1
  <2>4. n < i \/ (i <= n /\ n < a.from) \/ a.from <= n
    <3>1. n \in Int /\ i \in Int BY <1>0, <1>3
    <3> QED BY <1>3, <3>1
  <2> QED BY <2>1, <2>2, <2>3, <2>4, Zenon
<1> QED BY <1>0, <1>1, <1>4 DEF CoverInv

LEMMA CoverHolds ==
  /\ Init => CoverInv
  /\ IInv /\ CoverInv /\ [Next]_vars => CoverInv'
<1>1. Init => CoverInv BY DEF Init, CoverInv, To
<1>2. ASSUME IInv, CoverInv, [Next]_vars PROVE CoverInv'
  <2>1. CASE StoreAtom BY <1>2, <2>1, StoreCovers
  <2>2. CASE UNCHANGED <<text, items>> BY <1>2, <2>2 DEF CoverInv, To
  <2>3. [Next]_vars => StoreAtom \/ UNCHANGED <<text, items>>
    BY DEF Next, vars, CountAtom, StartStore, Finish
  <2> QED BY <1>2, <2>1, <2>2, <2>3
<1> QED BY <1>1, <1>2

\* Each word stands in an atom once all are stored, and an atom keeps what starts
\* there together.
LEMMA TogetherImplied == IInv /\ CoverInv /\ AtomsAreWhole => KeepsTogether
<1> SUFFICES ASSUME IInv, CoverInv, AtomsAreWhole, pass = "done",
                    NEW a \in WordStarts, NEW b \in 2..(Len(text) + 1), ~IsInSpan(a)
             PROVE  /\ IsHexRun(a, b) \/ IsSpan(a, b) => AreTogether(a, b)
                    /\ \A n \in a..b :
                         IsQuantity(a, n, b) /\ ~ContinuesHexRun(a, n) => AreTogether(a, b)
  BY DEF KeepsTogether
<1>0. /\ text \in Seq(Byte) /\ Len(text) \in Nat /\ a \in 1..Len(text)
      /\ text[a] \notin Blank /\ items \in Seq(Span) /\ IsChain(items)
      /\ i = To(items, Len(items)) /\ i \in 1..(Len(text) + 1)
  BY DEF IInv, TypeInv, StoreInv, WordStarts
<1>1. a < i BY <1>0 DEF AtomsAreWhole
<1>2. a \in 1..(To(items, Len(items)) - 1) BY <1>0, <1>1
<1>3. PICK k \in 1..Len(items) : items[k].from <= a /\ a < items[k].to
  BY <1>0, <1>2 DEF CoverInv
<1> DEFINE p == items[k].from   n == To(items, k - 1)
<1>4. n \in 1..(Len(text) + 1) /\ HasAtom(text, n) /\ items[k] = AtomFrom(text, n)
  BY <1>0 DEF IsChain
<1>5. p = NextStart(text, n) /\ items[k].to = AtomEnd(text, p)
  BY <1>4 DEF AtomFrom
<1>6. p \in 1..Len(text) /\ text[p] \notin Blank BY <1>0, <1>4, AtomFromBounds
<1>7. p = 1 \/ text[p - 1] \in Blank BY DEF AtomsAreWhole
<1>8. p \in WordStarts BY <1>6, <1>7 DEF WordStarts
<1> HIDE DEF p
<1>9. p <= a /\ a < AtomEnd(text, p) BY <1>3, <1>5 DEF p
<1>10. ASSUME b <= AtomEnd(text, p) PROVE AreTogether(a, b)
  BY <1>3, <1>5, <1>10 DEF AreTogether
<1>11. IsHexRun(a, b) \/ IsSpan(a, b) => AreTogether(a, b)
  BY <1>0, <1>8, <1>9, <1>10, HexRunStays, SpanStays
<1>12. ASSUME NEW m \in a..b, IsQuantity(a, m, b), ~ContinuesHexRun(a, m)
       PROVE  AreTogether(a, b)
  BY <1>0, <1>8, <1>9, <1>10, <1>12, QuantityStays
<1> QED BY <1>11, <1>12

\* For every text: a hex run, a quantity with its unit and a backtick span stay in one
\* atom, unless they start in a span or the quantity continues a hex run.
THEOREM KeepsTogetherHolds == Spec => []KeepsTogether
BY InitInvariant, StepInvariant, InvariantImplies, CoverHolds, TogetherImplied, PTL DEF Spec

-----------------------------------------------------------------------------
(* What the splitter makes of a text is what it makes of it inside a longer one. *)

\* u stands in t behind d bytes, and only spaces stand behind it.
StandsIn(u, t, d) ==
  /\ d \in Nat /\ Len(u) + d <= Len(t)
  /\ \A n \in 1..Len(u) : t[n + d] = u[n]
  /\ \A n \in (Len(u) + d + 1)..Len(t) : t[n] = "sp"

LEMMA UntilMoves ==
  ASSUME NEW t \in Seq(Byte), NEW u \in Seq(Byte), NEW d, StandsIn(u, t, d),
         NEW C, "sp" \in C, NEW n \in 1..(Len(u) + 1)
  PROVE  /\ Until(u, n, C) \in n..(Len(u) + 1) /\ n + d \in 1..(Len(t) + 1)
         /\ Until(t, n + d, C) = Until(u, n, C) + d
<1> DEFINE m == Until(u, n, C)
<1>0. /\ Len(t) \in Nat /\ Len(u) \in Nat /\ d \in Nat /\ Len(u) + d <= Len(t)
      /\ \A k \in 1..Len(u) : t[k + d] = u[k]
      /\ \A k \in (Len(u) + d + 1)..Len(t) : t[k] = "sp"
  BY DEF StandsIn
<1>1. /\ m \in n..(Len(u) + 1) /\ (m = Len(u) + 1 \/ u[m] \in C)
      /\ \A k \in n..(m - 1) : u[k] \notin C
  BY UntilBounds
<1> HIDE DEF m
<1>2. n + d \in 1..(Len(t) + 1) /\ m + d \in (n + d)..(Len(t) + 1) BY <1>0, <1>1
<1>3. m + d = Len(t) + 1 \/ t[m + d] \in C
  <2>1. CASE m = Len(u) + 1
    <3>1. Len(u) + d + 1 = Len(t) + 1 \/ Len(u) + d + 1 \in (Len(u) + d + 1)..Len(t)
      BY <1>0
    <3>2. m + d = Len(u) + d + 1 BY <1>0, <2>1
    <3> QED BY <1>0, <3>1, <3>2
  <2>2. CASE m # Len(u) + 1
    <3>1. m \in 1..Len(u) BY <1>0, <1>1, <2>2
    <3> QED BY <1>0, <1>1, <2>2, <3>1
  <2> QED BY <2>1, <2>2
<1>4. ASSUME NEW k \in (n + d)..((m + d) - 1) PROVE t[k] \notin C
  <2>1. k - d \in n..(m - 1) /\ k - d \in 1..Len(u) /\ (k - d) + d = k BY <1>0, <1>1
  <2> QED BY <1>0, <1>1, <2>1
<1> DEFINE x == n + d   y == m + d
<1>5. /\ x \in 1..(Len(t) + 1) /\ y \in x..(Len(t) + 1)
      /\ y = Len(t) + 1 \/ t[y] \in C
      /\ \A k \in x..(y - 1) : t[k] \notin C
  <2>1. \A k \in (n + d)..((m + d) - 1) : t[k] \notin C BY <1>4
  <2> QED BY <1>2, <1>3, <2>1
<1> HIDE DEF x, y
<1>6. Until(t, x, C) = y BY <1>5, UntilIs
<1> QED BY <1>1, <1>2, <1>6 DEF m, x, y

LEMMA HexRunMoves ==
  ASSUME NEW t \in Seq(Byte), NEW u \in Seq(Byte), NEW d, StandsIn(u, t, d),
         NEW p \in 1..Len(u)
  PROVE  HexRunEnd(t, p + d) = HexRunEnd(u, p) + d
<1> DEFINE g == HexGroups(u, p)   h == HexGroups(t, p + d)
<1>0. /\ Len(t) \in Nat /\ Len(u) \in Nat /\ d \in Nat /\ Len(u) + d <= Len(t)
      /\ \A k \in 1..Len(u) : t[k + d] = u[k]
      /\ \A k \in (Len(u) + d + 1)..Len(t) : t[k] = "sp"
  BY DEF StandsIn
<1>1. p + d \in 1..Len(t) BY <1>0
<1>2. ASSUME NEW m \in Nat PROVE IsHexGroup(t, p + d, m) <=> IsHexGroup(u, p, m)
  <2> DEFINE n == p + 3 * m
  <2>1. p + d + 3 * m = n + d /\ n \in Nat /\ n >= 1 BY <1>0
  <2>2. IsHexGroup(t, p + d, m) <=>
          /\ n + d < Len(t) /\ t[n + d] \in Hex /\ t[n + d + 1] \in Hex
          /\ m > 0 => t[n + d - 1] = "sp"
    <3>1. IsHexGroup(t, p + d, m) <=>
            LET k == p + d + 3 * m
            IN  /\ k < Len(t) /\ t[k] \in Hex /\ t[k + 1] \in Hex
                /\ m > 0 => t[k - 1] = "sp"
      BY DEF IsHexGroup
    <3> DEFINE k == p + d + 3 * m
    <3>2. k = n + d BY <2>1
    <3> HIDE DEF n, k
    <3>3. IsHexGroup(t, p + d, m) <=>
            /\ k < Len(t) /\ t[k] \in Hex /\ t[k + 1] \in Hex
            /\ m > 0 => t[k - 1] = "sp"
      BY <3>1 DEF k
    <3>4. k - 1 = n + d - 1 /\ k + 1 = n + d + 1 BY <1>0, <2>1, <3>2
    <3> QED BY <3>2, <3>3, <3>4
  <2>3. IsHexGroup(u, p, m) <=>
          /\ n < Len(u) /\ u[n] \in Hex /\ u[n + 1] \in Hex
          /\ m > 0 => u[n - 1] = "sp"
    BY DEF IsHexGroup
  <2>4. m > 0 => n > 1 BY <1>0
  <2> HIDE DEF n
  <2>5. CASE n < Len(u)
    <3>1. /\ n \in 1..Len(u) /\ n + 1 \in 1..Len(u) /\ (n + 1) + d = n + d + 1
          /\ m > 0 => n - 1 \in 1..Len(u) /\ (n - 1) + d = n + d - 1
      BY <1>0, <2>1, <2>4, <2>5
    <3>2. /\ t[n + d] = u[n] /\ t[n + d + 1] = u[n + 1]
          /\ m > 0 => t[n + d - 1] = u[n - 1]
      BY <1>0, <3>1
    <3>3. n + d < Len(t) BY <1>0, <2>1, <2>5
    <3> QED BY <2>2, <2>3, <2>5, <3>2, <3>3
  <2>6. CASE ~(n < Len(u))
    <3>1. n + d < Len(t) => n + d + 1 \in (Len(u) + d + 1)..Len(t) BY <1>0, <2>1, <2>6
    <3>2. n + d < Len(t) => t[n + d + 1] = "sp" BY <1>0, <3>1
    <3> QED BY <2>2, <2>3, <2>6, <3>2 DEF Hex
  <2> QED BY <2>5, <2>6
<1>3. /\ g \in 0..Len(u) /\ ~IsHexGroup(u, p, g) /\ \A m \in 0..(g - 1) : IsHexGroup(u, p, m)
  BY HexGroupsAre
<1>4. /\ h \in 0..Len(t) /\ ~IsHexGroup(t, p + d, h)
      /\ \A m \in 0..(h - 1) : IsHexGroup(t, p + d, m)
  BY <1>1, HexGroupsAre
<1>5. HexRunEnd(u, p) = LET end == p + 3 * g - 1
                       IN  IF g >= 2 /\ (end <= Len(u) => u[end] \notin Alpha \cup {"dig"})
                           THEN end ELSE p
  BY DEF HexRunEnd
<1>6. HexRunEnd(t, p + d) = LET end == p + d + 3 * h - 1
                           IN  IF h >= 2 /\ (end <= Len(t) => t[end] \notin Alpha \cup {"dig"})
                               THEN end ELSE p + d
  BY DEF HexRunEnd
<1> HIDE DEF g, h
<1>7. g = h
  <2>1. ~(g < h) BY <1>0, <1>2, <1>3, <1>4
  <2>2. ~(h < g) BY <1>0, <1>2, <1>3, <1>4
  <2> QED BY <1>0, <1>3, <1>4, <2>1, <2>2
<1> DEFINE e == p + 3 * g - 1
<1>8. p + d + 3 * h - 1 = e + d BY <1>0, <1>3, <1>7
<1>9. g >= 2 => ((e <= Len(u) => u[e] \notin Alpha \cup {"dig"})
                 <=> (e + d <= Len(t) => t[e + d] \notin Alpha \cup {"dig"}))
  <2> SUFFICES ASSUME g >= 2
               PROVE  (e <= Len(u) => u[e] \notin Alpha \cup {"dig"})
                      <=> (e + d <= Len(t) => t[e + d] \notin Alpha \cup {"dig"})
    OBVIOUS
  <2>0. e \in Nat /\ e >= 1 BY <1>0, <1>3
  <2> HIDE DEF e
  <2>1. CASE e <= Len(u)
    <3>1. e \in 1..Len(u) /\ e + d <= Len(t) BY <1>0, <2>0, <2>1
    <3> QED BY <1>0, <2>1, <3>1
  <2>2. CASE ~(e <= Len(u))
    <3>1. e + d <= Len(t) => e + d \in (Len(u) + d + 1)..Len(t) BY <1>0, <2>0, <2>2
    <3>2. e + d <= Len(t) => t[e + d] = "sp" BY <1>0, <3>1
    <3> QED BY <2>2, <3>2 DEF Alpha
  <2> QED BY <2>1, <2>2
<1>10. CASE g >= 2
  <2>1. p + d + 3 * h - 1 = e + d BY <1>8, <1>10
  <2> HIDE DEF e
  <2>2. HexRunEnd(t, p + d) = IF e + d <= Len(t) => t[e + d] \notin Alpha \cup {"dig"}
                              THEN e + d ELSE p + d
    BY <1>6, <1>7, <1>10, <2>1
  <2>3. HexRunEnd(u, p) = IF e <= Len(u) => u[e] \notin Alpha \cup {"dig"} THEN e ELSE p
    BY <1>5, <1>10 DEF e
  <2> QED BY <1>9, <1>10, <2>2, <2>3
<1>11. CASE ~(g >= 2) BY <1>5, <1>6, <1>7, <1>11
<1> QED BY <1>10, <1>11

LEMMA QuantityMoves ==
  ASSUME NEW t \in Seq(Byte), NEW u \in Seq(Byte), NEW d, StandsIn(u, t, d),
         NEW p \in 1..Len(u)
  PROVE  QuantityEnd(t, p + d) = QuantityEnd(u, p) + d
<1> DEFINE n == NumberEnd(u, p)   a == DigitsEnd(u, p)   end == Until(u, n + 1, Byte \ Alpha)
<1>0. /\ Len(t) \in Nat /\ Len(u) \in Nat /\ d \in Nat /\ Len(u) + d <= Len(t)
      /\ \A k \in 1..Len(u) : t[k + d] = u[k]
      /\ \A k \in (Len(u) + d + 1)..Len(t) : t[k] = "sp"
  BY DEF StandsIn
<1>1. "sp" \in Byte \ {"dig"} /\ "sp" \in Byte \ Alpha BY DEF Byte, Alpha
<1>2. ASSUME NEW k \in 1..(Len(u) + 1)
      PROVE  DigitsEnd(u, k) \in k..(Len(u) + 1) /\ DigitsEnd(t, k + d) = DigitsEnd(u, k) + d
  <2> DEFINE C == Byte \ {"dig"}
  <2>1. "sp" \in C BY <1>1
  <2> HIDE DEF C
  <2>2. Until(u, k, C) \in k..(Len(u) + 1) /\ Until(t, k + d, C) = Until(u, k, C) + d
    BY <2>1, UntilMoves
  <2> QED BY <2>2 DEF DigitsEnd, C
<1>3. a \in p..(Len(u) + 1) /\ DigitsEnd(t, p + d) = a + d BY <1>0, <1>2
<1> HIDE DEF a
<1>4. n \in p..(Len(u) + 1) /\ NumberEnd(t, p + d) = n + d
  <2>1. n = IF a < Len(u) /\ u[a] = "dot" /\ u[a + 1] = "dig" THEN DigitsEnd(u, a + 1) ELSE a
    BY DEF NumberEnd, a
  <2>2. NumberEnd(t, p + d) = IF a + d < Len(t) /\ t[a + d] = "dot" /\ t[a + d + 1] = "dig"
                              THEN DigitsEnd(t, a + d + 1) ELSE a + d
    BY <1>3 DEF NumberEnd
  <2> HIDE DEF n
  <2>3. CASE a < Len(u)
    <3>1. /\ a \in 1..Len(u) /\ a + 1 \in 1..Len(u) /\ (a + 1) + d = a + d + 1
          /\ a + d < Len(t)
      BY <1>0, <1>3, <2>3
    <3>2. t[a + d] = u[a] /\ t[a + d + 1] = u[a + 1] BY <1>0, <3>1
    <3>3. /\ DigitsEnd(u, a + 1) \in (a + 1)..(Len(u) + 1)
          /\ DigitsEnd(t, a + d + 1) = DigitsEnd(u, a + 1) + d
      BY <1>0, <1>2, <3>1
    <3>4. n = (IF u[a] = "dot" /\ u[a + 1] = "dig" THEN DigitsEnd(u, a + 1) ELSE a)
      BY <2>1, <2>3
    <3>5. NumberEnd(t, p + d) = IF u[a] = "dot" /\ u[a + 1] = "dig"
                                THEN DigitsEnd(u, a + 1) + d ELSE a + d
      BY <2>2, <3>1, <3>2, <3>3
    <3> QED BY <1>0, <1>3, <3>3, <3>4, <3>5
  <2>4. CASE ~(a < Len(u))
    <3>1. a + d < Len(t) => a + d + 1 \in (Len(u) + d + 1)..Len(t) BY <1>0, <1>3, <2>4
    <3>2. a + d < Len(t) => t[a + d + 1] = "sp" BY <1>0, <3>1
    <3> QED BY <1>0, <1>3, <2>1, <2>2, <2>4, <3>2
  <2> QED BY <2>3, <2>4
<1>5. QuantityEnd(u, p) = IF /\ u[p] = "dig" /\ n <= Len(u) /\ u[n] = "sp"
                            /\ SubSeq(u, n + 1, end - 1) \in Unit
                         THEN end ELSE p
  BY DEF QuantityEnd
<1> DEFINE tend == Until(t, n + d + 1, Byte \ Alpha)
<1>6. QuantityEnd(t, p + d) = IF /\ t[p + d] = "dig" /\ n + d <= Len(t) /\ t[n + d] = "sp"
                                /\ SubSeq(t, n + d + 1, tend - 1) \in Unit
                             THEN tend ELSE p + d
  BY <1>4 DEF QuantityEnd
<1>7. t[p + d] = u[p] BY <1>0
<1> HIDE DEF n
<1>8. CASE n <= Len(u)
  <2>1. n \in 1..Len(u) /\ n + 1 \in 1..(Len(u) + 1) /\ (n + 1) + d = n + d + 1
    BY <1>0, <1>4, <1>8
  <2>2. end \in (n + 1)..(Len(u) + 1) /\ tend = end + d
    <3> DEFINE C == Byte \ Alpha   k == n + 1
    <3>1. "sp" \in C /\ k \in 1..(Len(u) + 1) BY <1>1, <2>1
    <3> HIDE DEF C, k
    <3>2. Until(u, k, C) \in k..(Len(u) + 1) /\ Until(t, k + d, C) = Until(u, k, C) + d
      BY <3>1, UntilMoves
    <3> QED BY <2>1, <3>2 DEF C, k
  <2>3. t[n + d] = u[n] /\ n + d <= Len(t) BY <1>0, <2>1
  <2> HIDE DEF end, tend
  <2>4. SubSeq(t, n + d + 1, tend - 1) = SubSeq(u, n + 1, end - 1)
    <3>1. /\ \A k \in (n + 1)..(end - 1) : u[k] \in Byte
          /\ \A k \in (n + d + 1)..(tend - 1) : t[k] \in Byte
      BY <1>0, <2>1, <2>2
    <3>2. /\ SubSeq(u, n + 1, end - 1) \in Seq(Byte)
          /\ Len(SubSeq(u, n + 1, end - 1)) = end - 1 - n
          /\ \A k \in 1..(end - 1 - n) : SubSeq(u, n + 1, end - 1)[k] = u[n + k]
      <4>1. /\ n + 1 \in Int /\ end - 1 \in Int /\ (end - 1) - (n + 1) + 1 = end - 1 - n
            /\ \A k \in 1..(end - 1 - n) : (n + 1) + k - 1 = n + k
            /\ ~(n + 1 <= end - 1) => end - 1 - n = 0
        BY <1>0, <2>1, <2>2
      <4> QED BY <3>1, <4>1, SubSeqProperties
    <3>3. /\ SubSeq(t, n + d + 1, tend - 1) \in Seq(Byte)
          /\ Len(SubSeq(t, n + d + 1, tend - 1)) = end - 1 - n
          /\ \A k \in 1..(end - 1 - n) : SubSeq(t, n + d + 1, tend - 1)[k] = t[n + d + k]
      <4>1. /\ n + d + 1 \in Int /\ tend - 1 \in Int
            /\ (tend - 1) - (n + d + 1) + 1 = end - 1 - n
            /\ \A k \in 1..(end - 1 - n) : (n + d + 1) + k - 1 = n + d + k
            /\ ~(n + d + 1 <= tend - 1) => end - 1 - n = 0
        BY <1>0, <2>1, <2>2
      <4> QED BY <3>1, <4>1, SubSeqProperties
    <3>4. ASSUME NEW k \in 1..(end - 1 - n) PROVE t[n + d + k] = u[n + k]
      <4>1. n + k \in 1..Len(u) /\ (n + k) + d = n + d + k BY <1>0, <2>1, <2>2
      <4> QED BY <1>0, <4>1
    <3> DEFINE x == SubSeq(t, n + d + 1, tend - 1)   y == SubSeq(u, n + 1, end - 1)
    <3>5. /\ x \in Seq(Byte) /\ y \in Seq(Byte) /\ Len(x) = Len(y)
          /\ \A k \in 1..Len(x) : x[k] = y[k]
      BY <3>2, <3>3, <3>4
    <3> HIDE DEF x, y
    <3>6. x = y BY <3>5, SeqEqual
    <3> QED BY <3>6 DEF x, y
  <2>5. QuantityEnd(t, p + d) = IF /\ u[p] = "dig" /\ u[n] = "sp"
                                   /\ SubSeq(u, n + 1, end - 1) \in Unit
                                THEN end + d ELSE p + d
    BY <1>6, <1>7, <2>2, <2>3, <2>4
  <2>6. QuantityEnd(u, p) = IF /\ u[p] = "dig" /\ u[n] = "sp"
                               /\ SubSeq(u, n + 1, end - 1) \in Unit
                            THEN end ELSE p
    BY <1>5, <1>8
  <2> QED BY <2>5, <2>6
<1>9. CASE ~(n <= Len(u))
  <2>1. n + d <= Len(t) => SubSeq(t, n + d + 1, tend - 1) = <<>>
    <3> SUFFICES ASSUME n + d <= Len(t) PROVE SubSeq(t, n + d + 1, tend - 1) = <<>> OBVIOUS
    <3>0. n = Len(u) + 1
      <4>1. Len(u) \in Nat /\ n \in p..(Len(u) + 1) /\ p \in Nat BY <1>0, <1>4
      <4> QED BY <1>9, <4>1
    <3>1. /\ n + d + 1 \in 1..(Len(t) + 1)
          /\ n + d + 1 = Len(t) + 1 \/ n + d + 1 \in (Len(u) + d + 1)..Len(t)
      <4>1. Len(t) \in Nat /\ Len(u) \in Nat /\ d \in Nat BY <1>0
      <4> QED BY <3>0, <4>1
    <3>2. n + d + 1 = Len(t) + 1 \/ t[n + d + 1] \in Byte \ Alpha BY <1>0, <1>1, <3>1
    <3>3. tend = n + d + 1
      <4> DEFINE m == n + d + 1
      <4>1. m \in m..(Len(t) + 1) /\ \A k \in m..(m - 1) : t[k] \notin Byte \ Alpha
        BY <1>0, <3>1
      <4>2. m \in 1..(Len(t) + 1) /\ (m = Len(t) + 1 \/ t[m] \in Byte \ Alpha) BY <3>1, <3>2
      <4> HIDE DEF m
      <4>3. Until(t, m, Byte \ Alpha) = m BY <4>1, <4>2, UntilIs
      <4> QED BY <4>3 DEF m
    <3> HIDE DEF tend
    <3>4. tend - 1 < n + d + 1 /\ n + d + 1 \in Int /\ tend - 1 \in Int BY <1>0, <3>1, <3>3
    <3> QED BY <3>4, SubSeqEmpty
  <2>2. <<>> \notin Unit
    <3>1. Len(<<"m", "s">>) = 2 /\ Len(<<>>) = 0 OBVIOUS
    <3> QED BY <3>1 DEF Unit
  <2> HIDE DEF tend, end
  <2>3. QuantityEnd(t, p + d) = p + d BY <1>6, <2>1, <2>2
  <2>4. QuantityEnd(u, p) = p BY <1>5, <1>9
  <2> QED BY <2>3, <2>4
<1> QED BY <1>8, <1>9

LEMMA SpanMoves ==
  ASSUME NEW t \in Seq(Byte), NEW u \in Seq(Byte), NEW d, StandsIn(u, t, d),
         NEW p \in 1..Len(u)
  PROVE  /\ OpensSpan(t, p + d) <=> OpensSpan(u, p)
         /\ OpensSpan(u, p) => /\ SpanEnd(u, p) \in 1..(Len(u) + 1)
                               /\ SpanEnd(t, p + d) = SpanEnd(u, p) + d
<1> DEFINE q == LeadsEnd(u, p)
<1>0. /\ Len(t) \in Nat /\ Len(u) \in Nat /\ d \in Nat /\ Len(u) + d <= Len(t)
      /\ \A k \in 1..Len(u) : t[k + d] = u[k]
      /\ \A k \in (Len(u) + d + 1)..Len(t) : t[k] = "sp"
  BY DEF StandsIn
<1>1. q \in p..(Len(u) + 1) /\ LeadsEnd(t, p + d) = q + d
  <2> DEFINE C == Byte \ {"open"}
  <2>1. "sp" \in C /\ p \in 1..(Len(u) + 1) BY <1>0 DEF Byte
  <2> HIDE DEF C
  <2>2. Until(u, p, C) \in p..(Len(u) + 1) /\ Until(t, p + d, C) = Until(u, p, C) + d
    BY <2>1, UntilMoves
  <2> QED BY <2>2 DEF LeadsEnd, C
<1> DEFINE e == Until(u, q + 1, {"tick"})   f == Until(t, q + d + 1, {"tick"})
<1>2. /\ SpanEnd(u, p) = e + 1 /\ SpanEnd(t, p + d) = f + 1
      /\ OpensSpan(u, p) <=>
           /\ q <= Len(u) /\ u[q] = "tick"
           /\ ~(q > p /\ q < Len(u) /\ u[q + 1] = "close")
           /\ e + 1 <= Len(u) + 1
      /\ OpensSpan(t, p + d) <=>
           /\ q + d <= Len(t) /\ t[q + d] = "tick"
           /\ ~(q + d > p + d /\ q + d < Len(t) /\ t[q + d + 1] = "close")
           /\ f + 1 <= Len(t) + 1
  BY <1>1 DEF SpanEnd, OpensSpan, IsQuoted
<1> HIDE DEF q
<1>3. CASE q <= Len(u)
  <2>1. q \in 1..Len(u) /\ q + 1 \in 1..(Len(u) + 1) /\ q + d + 1 \in 1..(Len(t) + 1)
    BY <1>0, <1>1, <1>3
  <2>2. q + d <= Len(t) /\ t[q + d] = u[q] BY <1>0, <2>1
  <2>3. (q < Len(u) /\ u[q + 1] = "close") <=> (q + d < Len(t) /\ t[q + d + 1] = "close")
    <3>1. CASE q < Len(u)
      <4>1. q + 1 \in 1..Len(u) /\ (q + 1) + d = q + d + 1 /\ q + d < Len(t)
        BY <1>0, <2>1, <3>1
      <4> QED BY <1>0, <3>1, <4>1
    <3>2. CASE ~(q < Len(u))
      <4>1. q + d < Len(t) => q + d + 1 \in (Len(u) + d + 1)..Len(t) BY <1>0, <2>1, <3>2
      <4> QED BY <1>0, <3>2, <4>1
    <3> QED BY <3>1, <3>2
  <2>4. /\ e \in (q + 1)..(Len(u) + 1) /\ (e = Len(u) + 1 \/ u[e] \in {"tick"})
        /\ \A k \in (q + 1)..(e - 1) : u[k] \notin {"tick"}
    BY <2>1, UntilBounds
  <2>5. /\ f \in (q + d + 1)..(Len(t) + 1) /\ (f = Len(t) + 1 \/ t[f] \in {"tick"})
        /\ \A k \in (q + d + 1)..(f - 1) : t[k] \notin {"tick"}
    BY <2>1, UntilBounds
  <2> HIDE DEF e, f
  <2>6. CASE e <= Len(u)
    <3>1. e \in 1..Len(u) /\ t[e + d] = "tick" BY <1>0, <2>1, <2>4, <2>6
    <3>2. ~(e + d < f) BY <1>0, <2>1, <2>4, <2>5, <3>1
    <3>3. ~(f < e + d)
      <4> SUFFICES ASSUME f < e + d PROVE FALSE OBVIOUS
      <4>1. /\ f - d \in (q + 1)..(e - 1) /\ f - d \in 1..Len(u) /\ (f - d) + d = f
            /\ f # Len(t) + 1
        BY <1>0, <2>1, <2>4, <2>5, <2>6
      <4>2. u[f - d] = t[f] BY <1>0, <4>1
      <4> QED BY <2>4, <2>5, <4>1, <4>2
    <3>4. f = e + d BY <1>0, <2>1, <2>4, <2>5, <3>2, <3>3
    <3>5. f + 1 <= Len(t) + 1 /\ e + 1 <= Len(u) + 1 /\ f + 1 = (e + 1) + d
          /\ e + 1 \in 1..(Len(u) + 1)
      BY <1>0, <2>6, <3>1, <3>4
    <3>6. q > p <=> q + d > p + d BY <1>0, <2>1
    <3> QED BY <1>2, <1>3, <2>2, <2>3, <3>5, <3>6
  <2>7. CASE ~(e <= Len(u))
    <3>1. e = Len(u) + 1
      <4>1. Len(u) \in Nat /\ q \in Nat /\ e \in (q + 1)..(Len(u) + 1) BY <1>0, <2>1, <2>4
      <4> QED BY <2>7, <4>1
    <3>2. f = Len(t) + 1
      <4> SUFFICES ASSUME f # Len(t) + 1 PROVE FALSE OBVIOUS
      <4>0. Len(t) \in Nat /\ q \in Nat /\ d \in Nat BY <1>0, <2>1
      <4>1. t[f] = "tick" /\ f \in (q + d + 1)..Len(t) BY <2>5, <4>0
      <4>2. CASE f \in (Len(u) + d + 1)..Len(t) BY <1>0, <4>1, <4>2
      <4>3. CASE f \notin (Len(u) + d + 1)..Len(t)
        <5>1. f - d \in (q + 1)..(e - 1) /\ f - d \in 1..Len(u) /\ (f - d) + d = f
          BY <1>0, <2>1, <3>1, <4>1, <4>3
        <5>2. u[f - d] = t[f] BY <1>0, <5>1
        <5> QED BY <2>4, <4>1, <5>1, <5>2
      <4> QED BY <4>2, <4>3
    <3>3. ~(e + 1 <= Len(u) + 1) /\ ~(f + 1 <= Len(t) + 1) BY <1>0, <3>1, <3>2
    <3> QED BY <1>2, <3>3
  <2> QED BY <2>6, <2>7
<1>4. CASE ~(q <= Len(u))
  <2>1. ~OpensSpan(u, p) BY <1>2, <1>4
  <2>2. q + d <= Len(t) => q + d \in (Len(u) + d + 1)..Len(t) BY <1>0, <1>1, <1>4
  <2>3. ~(q + d <= Len(t) /\ t[q + d] = "tick") BY <1>0, <2>2
  <2> QED BY <1>2, <2>1, <2>3
<1> QED BY <1>3, <1>4

LEMMA AtomMoves ==
  ASSUME NEW t \in Seq(Byte), NEW u \in Seq(Byte), NEW d, StandsIn(u, t, d),
         NEW p \in 1..Len(u)
  PROVE  AtomEnd(t, p + d) = AtomEnd(u, p) + d
<1> DEFINE head(s, n) == IF HexRunEnd(s, n) # n THEN HexRunEnd(s, n) ELSE QuantityEnd(s, n)
           from(s, n) == IF head(s, n) = n /\ OpensSpan(s, n) THEN SpanEnd(s, n) ELSE head(s, n)
<1>0. d \in Nat /\ Len(u) \in Nat BY DEF StandsIn
<1>1. HexRunEnd(t, p + d) = HexRunEnd(u, p) + d /\ HexRunEnd(u, p) \in p..(Len(u) + 1)
  BY HexRunMoves, HexRunBounds
<1>2. QuantityEnd(t, p + d) = QuantityEnd(u, p) + d /\ QuantityEnd(u, p) \in p..(Len(u) + 1)
  BY QuantityMoves, QuantityBounds
<1>3. head(t, p + d) = head(u, p) + d /\ head(u, p) \in p..(Len(u) + 1)
  <2>1. HexRunEnd(t, p + d) # p + d <=> HexRunEnd(u, p) # p BY <1>0, <1>1
  <2> QED BY <1>1, <1>2, <2>1
<1>4. /\ OpensSpan(t, p + d) <=> OpensSpan(u, p)
      /\ OpensSpan(u, p) => /\ SpanEnd(u, p) \in 1..(Len(u) + 1)
                            /\ SpanEnd(t, p + d) = SpanEnd(u, p) + d
  BY SpanMoves
<1>5. AtomEnd(t, p + d) = Until(t, from(t, p + d), Blank) BY DEF AtomEnd, AttachTrailer
<1>6. AtomEnd(u, p) = Until(u, from(u, p), Blank) BY DEF AtomEnd, AttachTrailer
<1>7. from(t, p + d) = from(u, p) + d /\ from(u, p) \in 1..(Len(u) + 1)
  <2> HIDE DEF head
  <2>1. head(t, p + d) = p + d <=> head(u, p) = p BY <1>0, <1>3
  <2>2. head(u, p) \in 1..(Len(u) + 1) BY <1>0, <1>3
  <2> QED BY <1>3, <1>4, <2>1, <2>2
<1> HIDE DEF from
<1> DEFINE n == from(u, p)
<1>8. "sp" \in Blank /\ n \in 1..(Len(u) + 1) BY <1>7 DEF Blank
<1> HIDE DEF n
<1>9. Until(t, n + d, Blank) = Until(u, n, Blank) + d BY <1>8, UntilMoves
<1> QED BY <1>5, <1>6, <1>7, <1>9 DEF n

\* The next atom is found in u where it is in t, and none where only spaces are left.
LEMMA NextMoves ==
  ASSUME NEW t \in Seq(Byte), NEW u \in Seq(Byte), NEW d, StandsIn(u, t, d),
         NEW n \in 1..(Len(u) + 1)
  PROVE  /\ HasAtom(t, n + d) <=> HasAtom(u, n)
         /\ HasAtom(u, n) => /\ AtomFrom(t, n + d).from = AtomFrom(u, n).from + d
                             /\ AtomFrom(t, n + d).to = AtomFrom(u, n).to + d
<1> DEFINE W == Byte \ Blank   a == NextStart(u, n)   x == n + d   b == NextStart(t, x)
<1>0. /\ Len(t) \in Nat /\ Len(u) \in Nat /\ d \in Nat /\ Len(u) + d <= Len(t)
      /\ \A k \in 1..Len(u) : t[k + d] = u[k]
      /\ \A k \in (Len(u) + d + 1)..Len(t) : t[k] = "sp"
  BY DEF StandsIn
<1>1. x \in 1..(Len(t) + 1) /\ "sp" \notin W BY <1>0 DEF Blank
<1>2. x = n + d OBVIOUS
<1> HIDE DEF W, x
<1>3. /\ a \in n..(Len(u) + 1) /\ (a = Len(u) + 1 \/ u[a] \in W)
      /\ \A k \in n..(a - 1) : u[k] \notin W
  BY UntilBounds DEF NextStart, W
<1>4. /\ b \in x..(Len(t) + 1) /\ (b = Len(t) + 1 \/ t[b] \in W)
      /\ \A k \in x..(b - 1) : t[k] \notin W
  BY <1>1, UntilBounds DEF NextStart, W
<1>5. /\ HasAtom(u, n) <=> a <= Len(u)
      /\ HasAtom(t, x) <=> b <= Len(t)
      /\ AtomFrom(u, n).from = a /\ AtomFrom(u, n).to = AtomEnd(u, a)
      /\ AtomFrom(t, x).from = b /\ AtomFrom(t, x).to = AtomEnd(t, b)
  BY DEF HasAtom, AtomFrom
<1> HIDE DEF a, b
<1>6. CASE a <= Len(u)
  <2>1. a \in 1..Len(u) /\ t[a + d] \in W BY <1>0, <1>3, <1>6
  <2>2. ~(a + d < b) BY <1>0, <1>2, <1>3, <1>4, <2>1
  <2>3. ~(b < a + d)
    <3> SUFFICES ASSUME b < a + d PROVE FALSE OBVIOUS
    <3>1. b - d \in n..(a - 1) /\ b - d \in 1..Len(u) /\ (b - d) + d = b /\ b # Len(t) + 1
      BY <1>0, <1>1, <1>2, <1>3, <1>4, <1>6
    <3>2. u[b - d] = t[b] BY <1>0, <3>1
    <3> QED BY <1>3, <1>4, <3>1, <3>2
  <2>4. b = a + d /\ b <= Len(t) BY <1>0, <1>1, <1>3, <1>4, <1>6, <2>2, <2>3
  <2>5. AtomEnd(t, a + d) = AtomEnd(u, a) + d BY <2>1, AtomMoves
  <2> QED BY <1>2, <1>5, <1>6, <2>4, <2>5
<1>7. CASE ~(a <= Len(u))
  <2>1. a = Len(u) + 1 BY <1>0, <1>3, <1>7
  <2>2. ~(b <= Len(t))
    <3> SUFFICES ASSUME b <= Len(t) PROVE FALSE OBVIOUS
    <3>1. t[b] \in W /\ b \in x..Len(t) BY <1>0, <1>1, <1>4
    <3>2. b \notin (Len(u) + d + 1)..Len(t) BY <1>0, <1>1, <3>1
    <3>3. b - d \in n..(a - 1) /\ b - d \in 1..Len(u) /\ (b - d) + d = b
      BY <1>0, <1>1, <1>2, <2>1, <3>1, <3>2
    <3>4. u[b - d] = t[b] BY <1>0, <3>3
    <3> QED BY <1>3, <3>1, <3>3, <3>4
  <2> QED BY <1>2, <1>5, <1>7, <2>2
<1> QED BY <1>6, <1>7

-----------------------------------------------------------------------------
(* The paragraph that atoms make, as their own text again.                  *)

\* The sequences whose concatenations FlattenSeq computes.
Concats(f, ss, n) == f = [k \in 1..n |-> IF k = 1 THEN ss[k] ELSE f[k - 1] \o ss[k]]

LEMMA ConcatsExist ==
  ASSUME NEW ss
  PROVE  \A n \in Nat : \E f : Concats(f, ss, n)
<1> DEFINE T == {n \in Nat : ~ \E f : Concats(f, ss, n)}
<1>1. SUFFICES ASSUME T # {} PROVE FALSE OBVIOUS
<1>2. Least(T) \in T /\ \A m \in T : Least(T) <= m BY <1>1, LeastIsLeast
<1>3. PICK n \in T : \A m \in T : n <= m BY <1>2
<1>4. n # 0
  <2>1. Concats([k \in 1..0 |-> 0], ss, 0) BY DEF Concats
  <2> QED BY <1>3, <2>1
<1>5. n - 1 \in Nat /\ n - 1 \notin T BY <1>3, <1>4
<1>6. PICK g : Concats(g, ss, n - 1) BY <1>5
<1> DEFINE f == [k \in 1..n |-> IF k < n THEN g[k]
                                  ELSE IF k = 1 THEN ss[k] ELSE g[k - 1] \o ss[k]]
<1>7. \A k \in 1..n : f[k] = IF k = 1 THEN ss[k] ELSE f[k - 1] \o ss[k]
  <2> TAKE k \in 1..n
  <2>1. CASE k = n
    <3>1. CASE k = 1 BY <2>1, <3>1
    <3>2. CASE k # 1
      <4>1. k - 1 \in 1..n /\ k - 1 < n BY <3>2, <1>3
      <4>2. f[k - 1] = g[k - 1] BY <4>1
      <4>3. n \in Nat /\ ~ (k < n) BY <2>1, <1>3
      <4>4. f[k] = g[k - 1] \o ss[k] BY <4>3, <3>2
      <4> HIDE DEF f
      <4> QED BY <4>2, <4>4, <3>2
    <3> QED BY <3>1, <3>2
  <2>2. CASE k < n
    <3>1. k \in 1..(n - 1) BY <2>2, <1>3
    <3>2. g[k] = IF k = 1 THEN ss[k] ELSE g[k - 1] \o ss[k] BY <3>1, <1>6 DEF Concats
    <3>3. k # 1 => k - 1 \in 1..n /\ k - 1 < n BY <2>2, <1>3
    <3> QED BY <3>2, <3>3, <2>2
  <2> QED BY <2>1, <2>2, <1>3
<1>8. Concats(f, ss, n)
  <2> HIDE DEF T
  <2>1. f = [k \in 1..n |-> f[k]] OBVIOUS
  <2> HIDE DEF f
  <2> QED BY <1>7, <2>1 DEF Concats
<1> QED BY <1>3, <1>8

LEMMA FlattenSeqType ==
  ASSUME NEW S, NEW ss \in Seq(Seq(S))
  PROVE  FlattenSeq(ss) \in Seq(S)
<1>1. CASE Len(ss) = 0
  <2>1. ss = <<>> BY <1>1, EmptySeq
  <2>2. FlattenSeq(ss) = ss BY <1>1 DEF FlattenSeq
  <2> QED BY <2>1, <2>2, EmptySeq
<1>2. CASE Len(ss) # 0
  <2> DEFINE n == Len(ss)
             f == CHOOSE f : Concats(f, ss, n)
  <2>1. n \in Nat /\ n >= 1 BY <1>2, LenProperties
  <2>2. Concats(f, ss, n) BY <2>1, ConcatsExist
  <2>3. FlattenSeq(ss) = f[n] BY <1>2 DEF FlattenSeq, Concats
  <2> HIDE DEF f
  <2> DEFINE T == {k \in Nat : k \in 1..n /\ f[k] \notin Seq(S)}
  <2>4. T = {}
    <3>1. SUFFICES ASSUME T # {} PROVE FALSE OBVIOUS
    <3>2. PICK k \in T : \A m \in T : k <= m BY <3>1, LeastIsLeast
    <3>3. ss[k] \in Seq(S) BY ElementOfSeq
    <3>4. f[k] = IF k = 1 THEN ss[k] ELSE f[k - 1] \o ss[k] BY <2>2 DEF Concats
    <3>5. CASE k = 1 BY <3>3, <3>4, <3>5
    <3>6. CASE k # 1
      <4>1. k - 1 \in 1..n /\ k - 1 \notin T BY <3>2, <3>6, <2>1
      <4>2. f[k - 1] \in Seq(S) BY <4>1
      <4>3. f[k - 1] \o ss[k] \in Seq(S) BY <4>2, <3>3, ConcatProperties
      <4> QED BY <4>3, <3>4, <3>6
    <3> QED BY <3>5, <3>6
  <2>5. n \in 1..n BY <2>1
  <2> QED BY <2>3, <2>4, <2>5
<1> QED BY <1>1, <1>2

\* The table behind a FlattenSeq that is not empty.
LEMMA FlattenTable ==
  ASSUME NEW S, NEW ss \in Seq(S), Len(ss) # 0
  PROVE  \E f : Concats(f, ss, Len(ss)) /\ FlattenSeq(ss) = f[Len(ss)]
<1> DEFINE f == CHOOSE f : Concats(f, ss, Len(ss))
<1>1. Len(ss) \in Nat BY LenProperties
<1>2. Concats(f, ss, Len(ss)) BY <1>1, ConcatsExist
<1>3. FlattenSeq(ss) = f[Len(ss)] BY DEF FlattenSeq, Concats
<1> QED BY <1>2, <1>3


\* Adjacent bytes of a text with the space between them.
LEMMA JoinAround ==
  ASSUME NEW t \in Seq(Byte), NEW a \in 1..Len(t), NEW m \in a..Len(t), t[m] = "sp",
         NEW b \in (m + 1)..(Len(t) + 1)
  PROVE  SubSeq(t, a, m - 1) \o (<<"sp">> \o SubSeq(t, m + 1, b - 1)) = SubSeq(t, a, b - 1)
<1>0. Len(t) \in Nat OBVIOUS
<1>1. SubSeq(t, m, b - 1) = <<"sp">> \o SubSeq(t, m + 1, b - 1)
  <2> DEFINE n == b - 1
  <2>1. m \in 1..Len(t) /\ n \in m..Len(t) BY <1>0
  <2> HIDE DEF n
  <2>2. SubSeq(t, m, n) = <<t[m]>> \o SubSeq(t, m + 1, n) BY <2>1, SubSeqRecursiveFirst
  <2> QED BY <2>2 DEF n
<1>2. SubSeq(t, a, m - 1) \o SubSeq(t, m, b - 1) = SubSeq(t, a, b - 1)
  <2> DEFINE k == m - 1   n == b - 1
  <2>1. /\ a \in 1..(Len(t) + 1) /\ k \in (a - 1)..Len(t) /\ n \in k..Len(t) /\ k + 1 = m
    BY <1>0
  <2> HIDE DEF k, n
  <2>2. SubSeq(t, a, k) \o SubSeq(t, k + 1, n) = SubSeq(t, a, n)
    BY <2>1, ConcatAdjacentSubSeq
  <2> QED BY <2>1, <2>2 DEF k, n
<1> QED BY <1>1, <1>2

\* The atoms of t from its start on, and all of them.
ChainOf(t, atoms) ==
  \A k \in 1..Len(atoms) :
    /\ To(atoms, k - 1) \in 1..(Len(t) + 1) /\ HasAtom(t, To(atoms, k - 1))
    /\ atoms[k] = AtomFrom(t, To(atoms, k - 1))

SplitOf(t, atoms) ==
  /\ t \in Seq(Byte) /\ atoms \in Seq(Span) /\ ChainOf(t, atoms)
  /\ To(atoms, Len(atoms)) \in 1..(Len(t) + 1) /\ ~HasAtom(t, To(atoms, Len(atoms)))

WordsOf(t, atoms) == [k \in 1..Len(atoms) |-> SubSeq(t, atoms[k].from, atoms[k].to - 1)]

NarrowGaps(t) ==
  \A n \in 1..Len(t) : t[n] # "tab" /\ ~(n > 1 /\ t[n] \in Blank /\ t[n - 1] \in Blank)

LEMMA ChainBounds ==
  ASSUME NEW t, NEW c, SplitOf(t, c), NEW k \in 1..Len(c)
  PROVE  /\ c[k].from \in 1..Len(t) /\ c[k].to \in (c[k].from + 1)..(Len(t) + 1)
         /\ t[c[k].from] \notin Blank
         /\ c[k].to = Len(t) + 1 \/ t[c[k].to] \in Blank
         /\ To(c, k - 1) <= c[k].from
         /\ c[k].to = AtomEnd(t, c[k].from) /\ c[k].from = NextStart(t, To(c, k - 1))
<1>1. /\ t \in Seq(Byte) /\ Len(t) \in Nat
      /\ To(c, k - 1) \in 1..(Len(t) + 1) /\ HasAtom(t, To(c, k - 1))
      /\ c[k] = AtomFrom(t, To(c, k - 1))
  BY DEF SplitOf, ChainOf
<1> DEFINE n == To(c, k - 1)   a == AtomFrom(t, n)
<1> HIDE DEF n
<1>2. /\ a \in Span /\ n <= a.from /\ a.from < a.to /\ a.to <= Len(t) + 1
      /\ a.from \in 1..Len(t) /\ t[a.from] \notin Blank
      /\ a.to = Len(t) + 1 \/ t[a.to] \in Blank
  BY <1>1, AtomFromBounds DEF n
<1>3. a.to \in (a.from + 1)..(Len(t) + 1) BY <1>1, <1>2 DEF Span
<1>4. a.from = NextStart(t, n) /\ a.to = AtomEnd(t, a.from) BY DEF AtomFrom
<1> QED BY <1>1, <1>2, <1>3, <1>4 DEF n

LEMMA ChainAscends ==
  ASSUME NEW t, NEW c, SplitOf(t, c), NEW k \in 1..Len(c)
  PROVE  c[1].from < c[k].to
<1> DEFINE N == Len(c)   a == c[1].from
<1>0. t \in Seq(Byte) /\ Len(t) \in Nat /\ c \in Seq(Span) /\ N \in Nat /\ 1 \in 1..N
  BY DEF SplitOf
<1>1. a \in 1..Len(t) BY <1>0, ChainBounds
<1> DEFINE S == {j \in Nat : j \in 1..N /\ ~(a < c[j].to)}
<1>2. S = {}
  <2>1. SUFFICES ASSUME S # {} PROVE FALSE OBVIOUS
  <2>2. PICK j \in S : \A l \in S : j <= l BY <2>1, LeastIsLeast
  <2>3. j \in 1..N /\ ~(a < c[j].to) BY <2>2
  <2> DEFINE x == c[j - 1].to   y == c[j].from   z == c[j].to
  <2>4. y \in 1..Len(t) /\ z \in (y + 1)..(Len(t) + 1) /\ To(c, j - 1) <= y
    BY <2>3, ChainBounds
  <2>5. j # 1 BY <1>0, <1>1, <2>3, <2>4
  <2>6. j - 1 \in 1..N /\ ~(j <= j - 1) /\ j - 1 \in Nat /\ j - 1 # 0 BY <1>0, <2>3, <2>5
  <2>7. a < x
    <3> HIDE DEF a
    <3> QED BY <2>2, <2>6
  <2>8. To(c, j - 1) = x BY <2>6 DEF To
  <2>9. x \in Nat
    <3>1. c[j - 1].from \in 1..Len(t) /\ c[j - 1].to \in (c[j - 1].from + 1)..(Len(t) + 1)
      BY <2>6, ChainBounds
    <3> QED BY <1>0, <3>1
  <2>10. ~(a < z) /\ x <= y BY <2>3, <2>4, <2>8
  <2> HIDE DEF a, x, y, z
  <2> QED BY <1>0, <1>1, <2>4, <2>7, <2>9, <2>10
<1> HIDE DEF a, N
<1> QED BY <1>0, <1>2 DEF N, a

\* One space stands between two atoms, where the text has no wider gap.
LEMMA OneSpaceBetween ==
  ASSUME NEW t, NEW c, SplitOf(t, c), NarrowGaps(t), NEW k \in 2..Len(c)
  PROVE  /\ c[k - 1].to \in 1..Len(t) /\ t[c[k - 1].to] = "sp"
         /\ c[k].from = c[k - 1].to + 1
<1>0. t \in Seq(Byte) /\ Len(t) \in Nat /\ \A n \in 1..Len(t) : t[n] \in Byte
  BY DEF SplitOf
<1>1. c \in Seq(Span) /\ Len(c) \in Nat BY DEF SplitOf
<1>2. k \in 1..Len(c) /\ k - 1 \in 1..Len(c) /\ k # 1 /\ k - 1 # 0 BY <1>1
<1> DEFINE x == c[k - 1].to   y == c[k].from
<1>3. /\ y \in 1..Len(t) /\ t[y] \notin Blank /\ To(c, k - 1) <= y
  BY <1>2, ChainBounds
<1>4. x \in 2..(Len(t) + 1) /\ (x = Len(t) + 1 \/ t[x] \in Blank)
  <2>1. c[k - 1].from \in 1..Len(t) /\ x \in (c[k - 1].from + 1)..(Len(t) + 1)
    BY <1>2, ChainBounds
  <2>2. x = Len(t) + 1 \/ t[x] \in Blank BY <1>2, ChainBounds
  <2> HIDE DEF x
  <2> QED BY <1>0, <2>1, <2>2
<1>5. To(c, k - 1) = x BY <1>2 DEF To
<1>6. y = NextStart(t, x) BY <1>2, <1>5, ChainBounds
<1> HIDE DEF x, y
<1>7. x \in 1..Len(t) /\ t[x] \in Blank /\ x < y BY <1>0, <1>3, <1>4, <1>5
<1>8. t[x] = "sp" BY <1>7 DEF NarrowGaps, Blank
<1>9. ~(x + 1 < y)
  <2> SUFFICES ASSUME x + 1 < y PROVE FALSE OBVIOUS
  <2>1. \A n \in x..(y - 1) : t[n] \notin Byte \ Blank
    <3>1. x \in 1..(Len(t) + 1) BY <1>0, <1>7
    <3> QED BY <1>0, <1>6, <3>1, UntilBounds DEF NextStart
  <2>2. x + 1 \in x..(y - 1) /\ x + 1 \in 1..Len(t) /\ x + 1 > 1 /\ (x + 1) - 1 = x
    BY <1>0, <1>3, <1>7
  <2>3. t[x + 1] \in Blank BY <1>0, <2>1, <2>2
  <2> QED BY <1>7, <2>2, <2>3 DEF NarrowGaps
<1>10. y = x + 1 BY <1>0, <1>3, <1>7, <1>9
<1> QED BY <1>7, <1>8, <1>10 DEF x, y

\* Atoms with one space between them are the text from the first to the last.
LEMMA Rejoined ==
  ASSUME NEW t, NEW c, SplitOf(t, c), NarrowGaps(t), Len(c) # 0
  PROVE  Joined(WordsOf(t, c)) = SubSeq(t, c[1].from, c[Len(c)].to - 1)
<1> DEFINE w == WordsOf(t, c)   N == Len(c)
           Piece(k) == IF k = 1 THEN w[1] ELSE <<"sp">> \o w[k]
           pp == [k \in 1..N |-> Piece(k)]
<1>0. t \in Seq(Byte) /\ Len(t) \in Nat /\ \A n \in 1..Len(t) : t[n] \in Byte
  BY DEF SplitOf
<1>1. c \in Seq(Span) /\ N \in Nat /\ N >= 1
  <2>1. c \in Seq(Span) BY DEF SplitOf
  <2> QED BY <2>1, LenProperties
<1>2. w = [k \in 1..N |-> SubSeq(t, c[k].from, c[k].to - 1)] BY DEF WordsOf
<1> HIDE DEF w
<1>3. ASSUME NEW k \in 1..N
      PROVE  w[k] \in Seq(Byte) /\ w[k] = SubSeq(t, c[k].from, c[k].to - 1)
  <2>1. c[k].from \in 1..Len(t) /\ c[k].to \in (c[k].from + 1)..(Len(t) + 1)
    BY ChainBounds
  <2> DEFINE a == c[k].from   b == c[k].to - 1
  <2>2. a \in Int /\ b \in Int /\ \A n \in a..b : t[n] \in Byte BY <1>0, <2>1
  <2> HIDE DEF a, b
  <2>3. SubSeq(t, a, b) \in Seq(Byte) BY <2>2, SubSeqProperties
  <2>4. w[k] = SubSeq(t, a, b) BY <1>2 DEF a, b
  <2> QED BY <2>3, <2>4 DEF a, b
<1>4. w \in Seq(Seq(Byte)) /\ Len(w) = N
  <2> DEFINE E(k) == SubSeq(t, c[k].from, c[k].to - 1)
  <2>1. \A k \in 1..N : E(k) \in Seq(Byte) BY <1>3
  <2>2. w = [k \in 1..N |-> E(k)] BY <1>2
  <2> HIDE DEF E
  <2>3. w \in Seq(Seq(Byte)) BY <1>1, <2>1, <2>2, IsASeq
  <2> QED BY <1>1, <2>2, <2>3
<1>5. pp \in Seq(Seq(Byte)) /\ Len(pp) = N /\ \A k \in 1..N : pp[k] = Piece(k)
  <2>1. ASSUME NEW k \in 1..N PROVE Piece(k) \in Seq(Byte)
    <3>1. w[k] \in Seq(Byte) /\ w[1] \in Seq(Byte) BY <1>1, <1>3
    <3>2. <<"sp">> \in Seq(Byte) BY DEF Byte
    <3>3. <<"sp">> \o w[k] \in Seq(Byte) BY <3>1, <3>2, ConcatProperties
    <3> QED BY <3>1, <3>3
  <2> HIDE DEF Piece
  <2>2. pp \in Seq(Seq(Byte)) BY <1>1, <2>1, IsASeq
  <2> QED BY <1>1, <2>2
<1>6. Joined(w) = FlattenSeq(pp) BY <1>4 DEF Joined
<1> HIDE DEF pp
<1>7. PICK f : Concats(f, pp, N) /\ FlattenSeq(pp) = f[N]
  <2>1. Len(pp) # 0 BY <1>1, <1>5
  <2> QED BY <1>5, <2>1, FlattenTable
<1>8. \A k \in 1..N : f[k] = IF k = 1 THEN pp[k] ELSE f[k - 1] \o pp[k] BY <1>7 DEF Concats
<1> DEFINE a == c[1].from
           T == {k \in Nat : k \in 1..N /\ f[k] # SubSeq(t, a, c[k].to - 1)}
<1>9. T = {}
  <2>1. SUFFICES ASSUME T # {} PROVE FALSE OBVIOUS
  <2>2. PICK k \in T : \A m \in T : k <= m BY <2>1, LeastIsLeast
  <2>3. k \in 1..N /\ f[k] # SubSeq(t, a, c[k].to - 1) BY <2>2
  <2>4. CASE k = 1 BY <1>3, <1>5, <1>8, <2>3, <2>4
  <2>5. CASE k # 1
    <3>1. k - 1 \in 1..N /\ ~(k <= k - 1) /\ k - 1 \in Nat /\ k \in 2..N BY <1>1, <2>3, <2>5
    <3>2. f[k - 1] = SubSeq(t, a, c[k - 1].to - 1)
      <4> HIDE DEF a
      <4> QED BY <2>2, <3>1
    <3> DEFINE m == c[k - 1].to   b == c[k].to
    <3>3. m \in 1..Len(t) /\ t[m] = "sp" /\ c[k].from = m + 1 BY <3>1, OneSpaceBetween
    <3>4. b \in (m + 2)..(Len(t) + 1)
      <4>1. c[k].from \in 1..Len(t) /\ b \in (c[k].from + 1)..(Len(t) + 1)
        BY <2>3, ChainBounds
      <4> QED BY <1>0, <3>3, <4>1
    <3>5. a \in 1..Len(t) /\ a <= m
      <4>1. a \in 1..Len(t) BY <1>1, ChainBounds
      <4>2. a < m BY <3>1, ChainAscends
      <4> QED BY <1>0, <3>3, <4>1, <4>2
    <3>6. pp[k] = <<"sp">> \o SubSeq(t, m + 1, b - 1)
      <4>1. w[k] = SubSeq(t, m + 1, b - 1) BY <1>3, <2>3, <3>3
      <4> QED BY <1>5, <2>3, <2>5, <4>1
    <3> HIDE DEF a, m, b
    <3>7. SubSeq(t, a, m - 1) \o (<<"sp">> \o SubSeq(t, m + 1, b - 1)) = SubSeq(t, a, b - 1)
      <4>1. a \in 1..Len(t) /\ m \in a..Len(t) /\ b \in (m + 1)..(Len(t) + 1)
        BY <1>0, <3>3, <3>4, <3>5
      <4> QED BY <1>0, <3>3, <4>1, JoinAround
    <3>8. f[k] = SubSeq(t, a, b - 1) BY <1>8, <2>3, <2>5, <3>2, <3>6, <3>7 DEF m
    <3> QED BY <2>3, <3>8 DEF b
  <2> QED BY <2>4, <2>5
<1>10. f[N] = SubSeq(t, a, c[N].to - 1)
  <2>1. N \in Nat /\ N \in 1..N BY <1>1
  <2> HIDE DEF N, a
  <2> QED BY <1>9, <2>1
<1> QED BY <1>6, <1>7, <1>10 DEF w

\* Behind the last atom stand only blanks.
LEMMA BlankBehind ==
  ASSUME NEW t \in Seq(Byte), NEW n \in 1..(Len(t) + 1), ~HasAtom(t, n),
         NEW k \in n..Len(t)
  PROVE  t[k] \in Blank
<1>0. Len(t) \in Nat /\ \A m \in 1..Len(t) : t[m] \in Byte OBVIOUS
<1>1. /\ NextStart(t, n) \in n..(Len(t) + 1)
      /\ \A m \in n..(NextStart(t, n) - 1) : t[m] \notin Byte \ Blank
  BY UntilBounds DEF NextStart
<1>2. k \in n..(NextStart(t, n) - 1) /\ k \in 1..Len(t) BY <1>0, <1>1 DEF HasAtom
<1> QED BY <1>0, <1>1, <1>2

\* The text of the atoms, from the first to the last, stands in the text they are of.
LEMMA RejoinedStands ==
  ASSUME NEW t, NEW c, SplitOf(t, c), NarrowGaps(t), Len(c) # 0,
         NEW u, u = Joined(WordsOf(t, c))
  PROVE  u \in Seq(Byte) /\ Len(u) >= 1 /\ StandsIn(u, t, c[1].from - 1)
<1> DEFINE N == Len(c)   a == c[1].from   b == c[N].to
<1>0. t \in Seq(Byte) /\ Len(t) \in Nat /\ \A n \in 1..Len(t) : t[n] \in Byte
  BY DEF SplitOf
<1>1. c \in Seq(Span) /\ N \in Nat /\ N >= 1 /\ 1 \in 1..N /\ N \in 1..N
  <2>1. c \in Seq(Span) BY DEF SplitOf
  <2> QED BY <2>1, LenProperties
<1>2. u = SubSeq(t, a, b - 1) BY Rejoined
<1>3. a \in 1..Len(t) /\ b \in 1..(Len(t) + 1)
  <2>1. a \in 1..Len(t) BY <1>1, ChainBounds
  <2>2. c[N].from \in 1..Len(t) /\ b \in (c[N].from + 1)..(Len(t) + 1)
    BY <1>1, ChainBounds
  <2> HIDE DEF b
  <2> QED BY <1>0, <2>1, <2>2
<1>4. a < b BY <1>1, ChainAscends
<1> HIDE DEF a, b
<1>5. /\ u \in Seq(Byte) /\ Len(u) = b - a
      /\ \A n \in 1..(b - a) : u[n] = t[n + (a - 1)]
  <2> DEFINE m == b - 1
  <2>1. /\ a \in Int /\ m \in Int /\ a <= m /\ m - a + 1 = b - a
        /\ \A n \in a..m : t[n] \in Byte
        /\ \A n \in 1..(b - a) : a + n - 1 = n + (a - 1)
    BY <1>0, <1>3, <1>4
  <2> HIDE DEF m
  <2>2. /\ SubSeq(t, a, m) \in Seq(Byte)
        /\ Len(SubSeq(t, a, m)) = IF a <= m THEN m - a + 1 ELSE 0
        /\ \A n \in 1..(m - a + 1) : SubSeq(t, a, m)[n] = t[a + n - 1]
    BY <2>1, SubSeqProperties
  <2> QED BY <1>2, <2>1, <2>2 DEF m
<1>6. \A n \in b..Len(t) : t[n] = "sp"
  <2> TAKE n \in b..Len(t)
  <2>1. To(c, N) = b /\ ~HasAtom(t, b) BY <1>1 DEF To, SplitOf, b
  <2>2. t[n] \in Blank BY <1>0, <1>3, <2>1, BlankBehind
  <2>3. n \in 1..Len(t) BY <1>0, <1>3
  <2> QED BY <2>2, <2>3 DEF NarrowGaps, Blank
<1>7. /\ a - 1 \in Nat /\ Len(u) + (a - 1) <= Len(t) /\ Len(u) + (a - 1) + 1 = b
      /\ Len(u) >= 1
  BY <1>0, <1>3, <1>4, <1>5
<1>8. StandsIn(u, t, a - 1) BY <1>5, <1>6, <1>7 DEF StandsIn
<1> QED BY <1>5, <1>7, <1>8 DEF a

\* Those atoms, split again, are the same ones, a - 1 bytes to the left.
LEMMA SplitAgain ==
  ASSUME NEW t, NEW c, SplitOf(t, c), NarrowGaps(t),
         NEW u, u = Joined(WordsOf(t, c)), NEW v, SplitOf(u, v)
  PROVE  WordsOf(u, v) = WordsOf(t, c)
<1> DEFINE N == Len(c)   M == Len(v)   d == c[1].from - 1
<1>0. /\ t \in Seq(Byte) /\ Len(t) \in Nat /\ u \in Seq(Byte) /\ Len(u) \in Nat
      /\ c \in Seq(Span) /\ v \in Seq(Span) /\ N \in Nat /\ M \in Nat
  <2>1. t \in Seq(Byte) /\ u \in Seq(Byte) /\ c \in Seq(Span) /\ v \in Seq(Span)
    BY DEF SplitOf
  <2> QED BY <2>1, LenProperties
<1>1. CASE N = 0
  <2>1. WordsOf(t, c) = <<>> /\ Len(WordsOf(t, c)) = 0
    <3>1. WordsOf(t, c) = [k \in 1..0 |-> SubSeq(t, c[k].from, c[k].to - 1)]
      BY <1>1 DEF WordsOf
    <3> QED BY <3>1
  <2>2. u = <<>>
    <3>1. u = FlattenSeq([k \in 1..0 |-> IF k = 1 THEN WordsOf(t, c)[1]
                                         ELSE <<"sp">> \o WordsOf(t, c)[k]])
      BY <2>1 DEF Joined
    <3> DEFINE e == [k \in 1..0 |-> IF k = 1 THEN WordsOf(t, c)[1]
                                    ELSE <<"sp">> \o WordsOf(t, c)[k]]
    <3>2. e = <<>> /\ Len(e) = 0 OBVIOUS
    <3> HIDE DEF e
    <3>3. FlattenSeq(e) = e BY <3>2 DEF FlattenSeq
    <3> QED BY <3>1, <3>2, <3>3 DEF e
  <2>3. M = 0
    <3> SUFFICES ASSUME M # 0 PROVE FALSE OBVIOUS
    <3>1. 1 \in 1..M BY <1>0
    <3>2. v[1].from \in 1..Len(u) BY <3>1, ChainBounds
    <3> QED BY <2>2, <3>2
  <2>4. WordsOf(u, v) = [k \in 1..0 |-> SubSeq(u, v[k].from, v[k].to - 1)]
    BY <2>3 DEF WordsOf
  <2> QED BY <2>1, <2>4
<1>2. CASE N # 0
  <2>0. Len(u) >= 1 /\ StandsIn(u, t, d) /\ d \in Nat
    <3>1. u \in Seq(Byte) /\ Len(u) >= 1 /\ StandsIn(u, t, d) BY <1>2, RejoinedStands
    <3> QED BY <3>1 DEF StandsIn
  <2>1. /\ 1 \in 1..N /\ d + 1 = c[1].from /\ d + 1 \in 1..Len(t)
        /\ NextStart(t, d + 1) = d + 1
        /\ AtomFrom(t, d + 1).from = c[1].from /\ AtomFrom(t, d + 1).to = c[1].to
        /\ HasAtom(t, d + 1)
    <3>1. 1 \in 1..N BY <1>0, <1>2
    <3>2. /\ c[1].from \in 1..Len(t) /\ t[c[1].from] \notin Blank
          /\ c[1].to = AtomEnd(t, c[1].from)
      BY <3>1, ChainBounds
    <3>3. d + 1 = c[1].from BY <1>0, <3>2
    <3> DEFINE x == d + 1
    <3>4. x \in 1..Len(t) /\ t[x] \notin Blank /\ c[1].to = AtomEnd(t, x) /\ x = c[1].from
      BY <3>2, <3>3
    <3> HIDE DEF x, d
    <3>5. NextStart(t, x) = x
      <4>1. /\ x \in 1..(Len(t) + 1) /\ x \in x..(Len(t) + 1) /\ t[x] \in Byte \ Blank
            /\ \A p \in x..(x - 1) : t[p] \notin Byte \ Blank
        BY <1>0, <3>4
      <4> DEFINE W == Byte \ Blank
      <4>2. t[x] \in W /\ \A p \in x..(x - 1) : t[p] \notin W BY <4>1
      <4> HIDE DEF W
      <4>3. Until(t, x, W) = x BY <1>0, <4>1, <4>2, UntilIs
      <4> QED BY <4>3 DEF NextStart, W
    <3>6. HasAtom(t, x) BY <3>4, <3>5 DEF HasAtom
    <3>7. AtomFrom(t, x).from = x /\ AtomFrom(t, x).to = c[1].to
      BY <3>4, <3>5 DEF AtomFrom
    <3> QED BY <3>1, <3>4, <3>5, <3>6, <3>7 DEF x
  <2> HIDE DEF d
  \* Each place of one list that an atom is looked for from, and the other's.
  <2> DEFINE Same(k) == k <= N /\ (k > 0 => c[k].from = v[k].from + d /\ c[k].to = v[k].to + d)
  <2>2. ASSUME NEW k \in 0..M, Same(k)
        PROVE  /\ To(v, k) \in 1..(Len(u) + 1)
               /\ HasAtom(u, To(v, k)) =>
                    /\ k + 1 <= N
                    /\ c[k + 1].from = AtomFrom(u, To(v, k)).from + d
                    /\ c[k + 1].to = AtomFrom(u, To(v, k)).to + d
               /\ k < N => HasAtom(u, To(v, k))
    <3> DEFINE n == To(v, k)
    <3>1. n \in 1..(Len(u) + 1)
      <4>1. CASE k = 0 BY <1>0, <4>1 DEF To
      <4>2. CASE k # 0
        <5>1. k \in 1..M BY <1>0, <4>2
        <5>2. v[k].from \in 1..Len(u) /\ v[k].to \in (v[k].from + 1)..(Len(u) + 1)
          BY <5>1, ChainBounds
        <5>3. n = v[k].to BY <4>2 DEF To
        <5> HIDE DEF n
        <5> QED BY <1>0, <5>2, <5>3
      <4> QED BY <4>1, <4>2
    <3> HIDE DEF n
    <3>2. /\ HasAtom(t, n + d) <=> HasAtom(u, n)
          /\ HasAtom(u, n) => /\ AtomFrom(t, n + d).from = AtomFrom(u, n).from + d
                              /\ AtomFrom(t, n + d).to = AtomFrom(u, n).to + d
      BY <1>0, <2>0, <3>1, NextMoves
    <3>3. CASE k = 0
      <4>1. n = 1 /\ n + d = d + 1 BY <2>0, <3>3 DEF To, n
      <4>2. HasAtom(u, n) BY <2>1, <3>2, <4>1
      <4>3. k + 1 = 1 /\ k + 1 <= N BY <1>0, <1>2, <3>3
      <4> QED BY <2>1, <3>1, <3>2, <4>1, <4>2, <4>3 DEF n
    <3>4. CASE k # 0
      <4>1. k \in 1..N BY <1>0, <2>2, <3>4
      <4>2. To(c, k) = n + d BY <2>2, <4>1, <3>4 DEF To, n
      <4>3. k = N => ~HasAtom(t, n + d) BY <4>2 DEF SplitOf
      <4>4. k # N => /\ k + 1 \in 1..N /\ (k + 1) - 1 = k
                     /\ HasAtom(t, n + d) /\ c[k + 1] = AtomFrom(t, n + d)
        <5> SUFFICES ASSUME k # N
                     PROVE  /\ k + 1 \in 1..N /\ (k + 1) - 1 = k
                            /\ HasAtom(t, n + d) /\ c[k + 1] = AtomFrom(t, n + d)
          OBVIOUS
        <5>1. k + 1 \in 1..N /\ (k + 1) - 1 = k BY <1>0, <4>1
        <5>2. HasAtom(t, To(c, (k + 1) - 1)) /\ c[k + 1] = AtomFrom(t, To(c, (k + 1) - 1))
          BY <5>1 DEF SplitOf, ChainOf
        <5> QED BY <4>2, <5>1, <5>2
      <4>5. k # N => k + 1 <= N BY <1>0, <4>4
      <4>6. k < N => k # N BY <1>0
      <4> QED BY <3>1, <3>2, <4>3, <4>4, <4>5, <4>6 DEF n
    <3> QED BY <3>3, <3>4
  <2> DEFINE T == {k \in Nat : k \in 0..M /\ ~Same(k)}
  <2>3. T = {}
    <3> HIDE DEF Same
    <3>1. SUFFICES ASSUME T # {} PROVE FALSE OBVIOUS
    <3>2. PICK k \in T : \A m \in T : k <= m BY <3>1, LeastIsLeast
    <3>3. k \in 0..M /\ ~Same(k) BY <3>2
    <3>4. k # 0 BY <1>0 , <3>3 DEF Same
    <3> DEFINE j == k - 1
    <3>5. j \in 0..M /\ ~(k <= j) /\ j \in Nat /\ j + 1 = k /\ k \in 1..M BY <1>0, <3>3, <3>4
    <3>6. Same(j) BY <3>2, <3>5
    <3>7. HasAtom(u, To(v, j)) /\ v[k] = AtomFrom(u, To(v, j))
      BY <3>5 DEF SplitOf, ChainOf
    <3> HIDE DEF j
    <3>8. k <= N /\ c[k].from = v[k].from + d /\ c[k].to = v[k].to + d
      BY <2>2, <3>5, <3>6, <3>7
    <3> QED BY <3>3, <3>8 DEF Same
  <2>4. ASSUME NEW k \in 1..M
        PROVE  k <= N /\ c[k].from = v[k].from + d /\ c[k].to = v[k].to + d
    <3>1. k \in 0..M /\ k \in Nat /\ k > 0 BY <1>0
    <3>2. Same(k)
      <4> HIDE DEF Same
      <4> QED BY <2>3, <3>1
    <3> QED BY <3>1, <3>2
  <2>5. M = N
    <3>1. M \in 0..M /\ M \in Nat BY <1>0
    <3>2. Same(M)
      <4> HIDE DEF Same, M
      <4> QED BY <2>3, <3>1
    <3>3. ~HasAtom(u, To(v, M)) BY DEF SplitOf
    <3>4. ~(M < N) /\ M <= N BY <2>2, <3>1, <3>2, <3>3
    <3> QED BY <1>0, <3>4
  <2>6. ASSUME NEW k \in 1..N
        PROVE  SubSeq(u, v[k].from, v[k].to - 1) = SubSeq(t, c[k].from, c[k].to - 1)
    <3> DEFINE x == v[k].from   y == v[k].to
    <3>1. x \in 1..Len(u) /\ y \in (x + 1)..(Len(u) + 1) BY <2>5, ChainBounds
    <3>2. c[k].from = x + d /\ c[k].to = y + d BY <2>4, <2>5
    <3>3. /\ Len(u) + d <= Len(t) /\ \A n \in 1..Len(u) : t[n + d] = u[n]
      BY <2>0 DEF StandsIn
    <3> HIDE DEF x, y
    <3> DEFINE p == SubSeq(u, x, y - 1)   q == SubSeq(t, x + d, (y + d) - 1)
    <3>4. /\ p \in Seq(Byte) /\ Len(p) = y - x
          /\ \A n \in 1..(y - x) : p[n] = u[x + n - 1]
      <4> DEFINE z == y - 1
      <4>1. /\ x \in Int /\ z \in Int /\ x <= z /\ z - x + 1 = y - x
            /\ \A n \in x..z : u[n] \in Byte
        BY <1>0, <3>1
      <4> HIDE DEF z
      <4>2. /\ SubSeq(u, x, z) \in Seq(Byte)
            /\ Len(SubSeq(u, x, z)) = IF x <= z THEN z - x + 1 ELSE 0
            /\ \A n \in 1..(z - x + 1) : SubSeq(u, x, z)[n] = u[x + n - 1]
        BY <4>1, SubSeqProperties
      <4> QED BY <4>1, <4>2 DEF z
    <3>5. /\ q \in Seq(Byte) /\ Len(q) = y - x
          /\ \A n \in 1..(y - x) : q[n] = t[(x + d) + n - 1]
      <4> DEFINE z == (y + d) - 1   w == x + d
      <4>1. /\ w \in Int /\ z \in Int /\ w <= z /\ z - w + 1 = y - x
            /\ \A n \in w..z : t[n] \in Byte
        BY <1>0, <2>0, <3>1, <3>3
      <4> HIDE DEF z, w
      <4>2. /\ SubSeq(t, w, z) \in Seq(Byte)
            /\ Len(SubSeq(t, w, z)) = IF w <= z THEN z - w + 1 ELSE 0
            /\ \A n \in 1..(z - w + 1) : SubSeq(t, w, z)[n] = t[w + n - 1]
        BY <4>1, SubSeqProperties
      <4> QED BY <4>1, <4>2 DEF z, w
    <3>6. ASSUME NEW n \in 1..(y - x) PROVE t[(x + d) + n - 1] = u[x + n - 1]
      <4>1. x + n - 1 \in 1..Len(u) /\ (x + n - 1) + d = (x + d) + n - 1
        BY <1>0, <2>0, <3>1
      <4> QED BY <3>3, <4>1
    <3>7. /\ p \in Seq(Byte) /\ q \in Seq(Byte) /\ Len(p) = Len(q)
          /\ \A n \in 1..Len(p) : p[n] = q[n]
      BY <3>4, <3>5, <3>6
    <3> HIDE DEF p, q
    <3>8. p = q BY <3>7, SeqEqual
    <3> QED BY <3>2, <3>8 DEF p, q, x, y
  <2>7. WordsOf(t, c) = [k \in 1..N |-> SubSeq(t, c[k].from, c[k].to - 1)]
    BY DEF WordsOf
  <2>8. WordsOf(u, v) = [k \in 1..N |-> SubSeq(u, v[k].from, v[k].to - 1)]
    BY <2>5 DEF WordsOf
  <2> QED BY <2>6, <2>7, <2>8
<1> QED BY <1>1, <1>2

\* The first run splits the source, and the second the atoms of the first, joined.
AgainInv ==
  /\ source \in Seq(Byte)
  /\ ~IsSecondRun => text = source
  /\ IsSecondRun =>
       \E c \in Seq(Span) : /\ SplitOf(source, c) /\ before = <<WordsOf(source, c)>>
                            /\ text = Joined(WordsOf(source, c))

LEMMA JoinedType ==
  ASSUME NEW w \in Seq(Seq(Byte))
  PROVE  Joined(w) \in Seq(Byte)
<1> DEFINE Piece(k) == IF k = 1 THEN w[1] ELSE <<"sp">> \o w[k]
           pp == [k \in 1..Len(w) |-> Piece(k)]
<1>1. Len(w) \in Nat BY LenProperties
<1>2. ASSUME NEW k \in 1..Len(w) PROVE Piece(k) \in Seq(Byte)
  <2>1. 1 \in 1..Len(w) BY <1>1
  <2>2. w[k] \in Seq(Byte) /\ w[1] \in Seq(Byte) BY <2>1, ElementOfSeq
  <2>3. <<"sp">> \in Seq(Byte) BY DEF Byte
  <2>4. <<"sp">> \o w[k] \in Seq(Byte) BY <2>2, <2>3, ConcatProperties
  <2> QED BY <2>2, <2>4
<1> HIDE DEF Piece
<1>3. pp \in Seq(Seq(Byte)) BY <1>1, <1>2, IsASeq
<1> HIDE DEF pp
<1>4. FlattenSeq(pp) \in Seq(Byte) BY <1>3, FlattenSeqType
<1> QED BY <1>4 DEF Joined, pp, Piece

\* A run that is done has all the atoms of its text.
LEMMA DoneIsSplit ==
  ASSUME IInv, pass = "done"
  PROVE  SplitOf(text, items) /\ Texts = WordsOf(text, items)
<1>1. /\ text \in Seq(Byte) /\ i \in 1..(Len(text) + 1) /\ items \in Seq(Span)
      /\ IsChain(items) /\ i = To(items, Len(items)) /\ ~HasAtom(text, i)
  BY DEF IInv, TypeInv, StoreInv
<1>2. ChainOf(text, items) BY <1>1 DEF IsChain, ChainOf
<1> QED BY <1>1, <1>2 DEF SplitOf, Texts, WordsOf

LEMMA WordsType ==
  ASSUME NEW t, NEW c, SplitOf(t, c)
  PROVE  WordsOf(t, c) \in Seq(Seq(Byte))
<1> DEFINE E(k) == SubSeq(t, c[k].from, c[k].to - 1)
<1>0. t \in Seq(Byte) /\ Len(t) \in Nat /\ c \in Seq(Span) /\ Len(c) \in Nat
  BY DEF SplitOf
<1>1. ASSUME NEW k \in 1..Len(c) PROVE E(k) \in Seq(Byte)
  <2>1. c[k].from \in 1..Len(t) /\ c[k].to \in (c[k].from + 1)..(Len(t) + 1)
    BY ChainBounds
  <2> DEFINE a == c[k].from   b == c[k].to - 1
  <2>2. a \in Int /\ b \in Int /\ \A n \in a..b : t[n] \in Byte BY <1>0, <2>1
  <2> HIDE DEF a, b
  <2>3. SubSeq(t, a, b) \in Seq(Byte) BY <2>2, SubSeqProperties
  <2> QED BY <2>3 DEF a, b
<1>2. WordsOf(t, c) = [k \in 1..Len(c) |-> E(k)] BY DEF WordsOf
<1> HIDE DEF E
<1> QED BY <1>0, <1>1, <1>2, IsASeq

LEMMA AgainHolds ==
  /\ MCInit => IInv /\ AgainInv
  /\ IInv /\ AgainInv /\ [MCNext]_<<vars, source, before>> => (IInv /\ AgainInv)'
<1>1. ASSUME MCInit PROVE IInv /\ AgainInv
  <2>1. Init /\ source = text /\ before = <<>> BY <1>1 DEF MCInit
  <2>2. IInv BY <2>1, InitInvariant
  <2>3. ~IsSecondRun BY <2>1 DEF IsSecondRun
  <2>4. text \in Seq(Byte) BY <2>2 DEF IInv, TypeInv
  <2> QED BY <2>1, <2>2, <2>3, <2>4 DEF AgainInv
<1>2. ASSUME IInv, AgainInv, Next, UNCHANGED <<source, before>> PROVE (IInv /\ AgainInv)'
  <2>1. IInv' BY <1>2, StepInvariant
  <2>2. text' = text /\ source' = source /\ before' = before
    BY <1>2 DEF Next, CountAtom, StartStore, StoreAtom, Finish
  <2>3. AgainInv' BY <1>2, <2>2 DEF AgainInv, IsSecondRun
  <2> QED BY <2>1, <2>3
<1>3. ASSUME IInv, AgainInv, Rewrap PROVE (IInv /\ AgainInv)'
  <2>1. /\ pass = "done" /\ ~IsSecondRun
        /\ before' = <<Texts>> /\ text' = Joined(Texts)
        /\ pass' = "count" /\ i' = 1 /\ counted' = <<>> /\ items' = <<>>
        /\ source' = source
    BY <1>3 DEF Rewrap
  <2>2. text = source /\ source \in Seq(Byte) BY <1>3, <2>1 DEF AgainInv
  <2>3. SplitOf(source, items) /\ Texts = WordsOf(source, items) /\ items \in Seq(Span)
    <3>1. SplitOf(text, items) /\ Texts = WordsOf(text, items)
      BY <1>3, <2>1, DoneIsSplit
    <3> QED BY <1>3, <2>2, <3>1 DEF IInv, TypeInv
  <2>4. text' \in Seq(Byte) /\ Len(text') \in Nat
    <3>1. Texts \in Seq(Seq(Byte)) BY <2>3, WordsType
    <3>2. Joined(Texts) \in Seq(Byte) BY <3>1, JoinedType
    <3> QED BY <2>1, <3>2
  <2>5. TypeInv' BY <2>1, <2>4 DEF TypeInv
  <2>6. IsChain(<<>>)' /\ To(<<>>, 0) = 1 BY DEF IsChain, To
  <2>7. CountInv' BY <2>1, <2>6 DEF CountInv
  <2>8. StoreInv' BY <2>1, <2>6 DEF StoreInv
  <2>9. IInv' BY <2>5, <2>7, <2>8 DEF IInv
  <2>10. IsSecondRun'
    <3>1. Len(before') = 1 /\ Len(<<>>) = 0 BY <2>1
    <3> QED BY <3>1 DEF IsSecondRun
  <2>11. /\ SplitOf(source, items) /\ before' = <<WordsOf(source, items)>>
         /\ text' = Joined(WordsOf(source, items))
    BY <2>1, <2>3
  <2>12. AgainInv' BY <2>1, <2>2, <2>3, <2>10, <2>11 DEF AgainInv
  <2> QED BY <2>9, <2>12
<1>4. ASSUME IInv, AgainInv, UNCHANGED <<vars, source, before>> PROVE (IInv /\ AgainInv)'
  <2>1. IInv' BY <1>4, StepInvariant DEF vars
  <2>2. AgainInv' BY <1>4 DEF AgainInv, IsSecondRun, vars
  <2> QED BY <2>1, <2>2
<1> QED BY <1>1, <1>2, <1>3, <1>4 DEF MCNext

LEMMA SplitsBackImplied == IInv /\ AgainInv => SplitsBack
<1> SUFFICES ASSUME IInv, AgainInv, pass = "done", IsSecondRun, ~HasWideGap PROVE IsFixed
  BY DEF SplitsBack
<1>1. PICK c \in Seq(Span) : /\ SplitOf(source, c) /\ before = <<WordsOf(source, c)>>
                             /\ text = Joined(WordsOf(source, c))
  BY DEF AgainInv
<1>2. SplitOf(text, items) /\ Texts = WordsOf(text, items) BY DoneIsSplit
<1>3. NarrowGaps(source) BY DEF HasWideGap, NarrowGaps
<1>4. Texts = WordsOf(source, c) BY <1>1, <1>2, <1>3, SplitAgain
<1>5. Texts = before[1] BY <1>1, <1>4
<1> QED BY <1>5 DEF IsFixed

\* For every text whose words have one space between them: a second run finds the atoms
\* of the first in what the fill made of them, so that it fills the same lines.
THEOREM SplitsBackHolds == MCSpec => []SplitsBack
<1>1. MCInit => IInv /\ AgainInv BY AgainHolds
<1>2. IInv /\ AgainInv /\ [MCNext]_<<vars, source, before>> => (IInv /\ AgainInv)'
  BY AgainHolds
<1> QED BY <1>1, <1>2, SplitsBackImplied, PTL DEF MCSpec
=============================================================================
