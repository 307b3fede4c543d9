---------------------------- MODULE Fill_proofs ----------------------------
(***************************************************************************)
(* For every body, width and prefix: the two passes of fill_body_lines     *)
(* agree, so the array of lines is filled exactly and never overrun; every *)
(* line fits or holds one atom; and no turn of a loop stands still.  For   *)
(* every block, rewritten again and again: these hold at each fill, a      *)
(* block of one line has room for its closer, and no word is lost or moved *)
(* unless a description holds a line of blanks.                            *)
(***************************************************************************)
EXTENDS Rewrite, SequenceTheorems, FiniteSetTheorems, WellFoundedInduction, TLAPS

-----------------------------------------------------------------------------
(* Least elements and what is built by recursion.                          *)

LEMMA LeastProperties ==
  ASSUME NEW S \in SUBSET Nat, S # {}
  PROVE  Least(S) \in S /\ \A y \in S : Least(S) <= y
<1>1. PICK x \in S : \A y \in S : ~ (<<y, x>> \in OpToRel(<, Nat))
  BY NatLessThanWellFounded, WFMin
<1>2. \A y \in S : x <= y
  <2> TAKE y \in S
  <2>1. ~ (<<y, x>> \in OpToRel(<, Nat)) BY <1>1
  <2>2. x \in Nat /\ y \in Nat OBVIOUS
  <2>3. ~ (y < x) BY <2>1, <2>2, Zenon DEF OpToRel
  <2> QED BY <2>2, <2>3
<1> QED BY <1>2 DEF Least

\* The sequences whose concatenations FlattenSeq computes.
Concats(f, ss, n) == f = [k \in 1 .. n |-> IF k = 1 THEN ss[k] ELSE f[k - 1] \o ss[k]]

LEMMA ConcatsExist ==
  ASSUME NEW ss
  PROVE  \A n \in Nat : \E f : Concats(f, ss, n)
<1> DEFINE T == {n \in Nat : ~ \E f : Concats(f, ss, n)}
<1>1. SUFFICES ASSUME T # {} PROVE FALSE OBVIOUS
<1>2. Least(T) \in T /\ \A m \in T : Least(T) <= m BY <1>1, LeastProperties
<1>3. PICK n \in T : \A m \in T : n <= m BY <1>2
<1>4. n # 0
  <2>1. Concats([k \in 1 .. 0 |-> 0], ss, 0) BY DEF Concats
  <2> QED BY <1>3, <2>1
<1>5. n - 1 \in Nat /\ n - 1 \notin T BY <1>3, <1>4
<1>6. PICK g : Concats(g, ss, n - 1) BY <1>5
<1> DEFINE f == [k \in 1 .. n |-> IF k < n THEN g[k]
                                  ELSE IF k = 1 THEN ss[k] ELSE g[k - 1] \o ss[k]]
<1>7. \A k \in 1 .. n : f[k] = IF k = 1 THEN ss[k] ELSE f[k - 1] \o ss[k]
  <2> TAKE k \in 1 .. n
  <2>1. CASE k = n
    <3>1. CASE k = 1 BY <2>1, <3>1
    <3>2. CASE k # 1
      <4>1. k - 1 \in 1 .. n /\ k - 1 < n BY <3>2, <1>3
      <4>2. f[k - 1] = g[k - 1] BY <4>1
      <4>3. n \in Nat /\ ~ (k < n) BY <2>1, <1>3
      <4>4. f[k] = g[k - 1] \o ss[k] BY <4>3, <3>2
      <4> HIDE DEF f
      <4> QED BY <4>2, <4>4, <3>2
    <3> QED BY <3>1, <3>2
  <2>2. CASE k < n
    <3>1. k \in 1 .. n - 1 BY <2>2, <1>3
    <3>2. g[k] = IF k = 1 THEN ss[k] ELSE g[k - 1] \o ss[k] BY <3>1, <1>6 DEF Concats
    <3>3. k # 1 => k - 1 \in 1 .. n /\ k - 1 < n BY <2>2, <1>3
    <3> QED BY <3>2, <3>3, <2>2
  <2> QED BY <2>1, <2>2, <1>3
<1>8. Concats(f, ss, n)
  <2> HIDE DEF T
  <2>1. f = [k \in 1 .. n |-> f[k]] OBVIOUS
  <2> HIDE DEF f
  <2> QED BY <1>7, <2>1 DEF Concats
<1> QED BY <1>3, <1>8

LEMMA FlattenSeqType ==
  ASSUME NEW S, NEW ss \in Seq(Seq(S))
  PROVE  FlattenSeq(ss) \in Seq(S)
<1>1. CASE Len(ss) = 0
  <2>1. ss = <<>> BY <1>1, EmptySeq
  <2>2. FlattenSeq(ss) = ss BY <1>1 DEF FlattenSeq
  <2> QED BY <2>1, <2>2, EmptySeq
<1>2. CASE Len(ss) # 0
  <2> DEFINE n == Len(ss)
             f == CHOOSE f : Concats(f, ss, n)
  <2>1. n \in Nat /\ n >= 1 BY <1>2, LenProperties
  <2>2. Concats(f, ss, n) BY <2>1, ConcatsExist
  <2>3. FlattenSeq(ss) = f[n] BY <1>2 DEF FlattenSeq, Concats
  <2> HIDE DEF f
  <2> DEFINE T == {k \in Nat : k \in 1 .. n /\ f[k] \notin Seq(S)}
  <2>4. T = {}
    <3>1. SUFFICES ASSUME T # {} PROVE FALSE OBVIOUS
    <3>2. PICK k \in T : \A m \in T : k <= m BY <3>1, LeastProperties
    <3>3. ss[k] \in Seq(S) BY ElementOfSeq
    <3>4. f[k] = IF k = 1 THEN ss[k] ELSE f[k - 1] \o ss[k] BY <2>2 DEF Concats
    <3>5. CASE k = 1 BY <3>3, <3>4, <3>5
    <3>6. CASE k # 1
      <4>1. k - 1 \in 1 .. n /\ k - 1 \notin T BY <3>2, <3>6, <2>1
      <4>2. f[k - 1] \in Seq(S) BY <4>1
      <4>3. f[k - 1] \o ss[k] \in Seq(S) BY <4>2, <3>3, ConcatProperties
      <4> QED BY <4>3, <3>4, <3>6
    <3> QED BY <3>5, <3>6
  <2>5. n \in 1 .. n BY <2>1
  <2> QED BY <2>3, <2>4, <2>5
<1> QED BY <1>1, <1>2

LEMMA FlattenEmpty == FlattenSeq(<<>>) = <<>>
<1>1. Len(<<>>) = 0 BY EmptySeq
<1> QED BY <1>1 DEF FlattenSeq

\* The table behind a FlattenSeq that is not empty.
LEMMA FlattenTable ==
  ASSUME NEW S, NEW ss \in Seq(S), Len(ss) # 0
  PROVE  \E f : Concats(f, ss, Len(ss)) /\ FlattenSeq(ss) = f[Len(ss)]
<1> DEFINE f == CHOOSE f : Concats(f, ss, Len(ss))
<1>1. Len(ss) \in Nat BY LenProperties
<1>2. Concats(f, ss, Len(ss)) BY <1>1, ConcatsExist
<1>3. FlattenSeq(ss) = f[Len(ss)] BY DEF FlattenSeq, Concats
<1> QED BY <1>2, <1>3

\* One piece more at the end.
LEMMA FlattenStep ==
  ASSUME NEW S, NEW ss \in Seq(Seq(S)), NEW tt \in Seq(Seq(S)), Len(tt) = Len(ss) + 1,
         \A k \in 1 .. Len(ss) : tt[k] = ss[k]
  PROVE  FlattenSeq(tt) = FlattenSeq(ss) \o tt[Len(tt)]
<1>1. PICK n \in Nat : n = Len(ss) BY LenProperties
<1>2. PICK g : Concats(g, tt, n + 1) /\ FlattenSeq(tt) = g[n + 1]
  <2>1. Len(tt) # 0 BY <1>1
  <2> QED BY <1>1, <2>1, FlattenTable
<1>3. tt[n + 1] \in Seq(S) BY <1>1, ElementOfSeq
<1>4. CASE n = 0
  <2>1. ss = <<>> BY <1>1, <1>4, EmptySeq
  <2>2. FlattenSeq(ss) = <<>> BY <2>1, FlattenEmpty
  <2>3. g[1] = tt[1] BY <1>2, <1>4 DEF Concats
  <2>4. <<>> \o tt[1] = tt[1] BY <1>3, <1>4, ConcatEmptySeq
  <2> QED BY <1>1, <1>2, <1>4, <2>2, <2>3, <2>4
<1>5. CASE n # 0
  <2>1. PICK f : Concats(f, ss, n) /\ FlattenSeq(ss) = f[n] BY <1>1, <1>5, FlattenTable
  <2> DEFINE T == {k \in Nat : k \in 1 .. n /\ g[k] # f[k]}
  <2>2. T = {}
    <3>1. SUFFICES ASSUME T # {} PROVE FALSE OBVIOUS
    <3>2. PICK k \in T : \A m \in T : k <= m BY <3>1, LeastProperties
    <3>3. k \in 1 .. n /\ k \in 1 .. n + 1 BY <1>1, <3>2
    <3>4. f[k] = IF k = 1 THEN ss[k] ELSE f[k - 1] \o ss[k] BY <2>1, <3>3 DEF Concats
    <3>5. g[k] = IF k = 1 THEN tt[k] ELSE g[k - 1] \o tt[k] BY <1>2, <3>3 DEF Concats
    <3>6. tt[k] = ss[k] BY <1>1, <3>3
    <3>7. k # 1 => g[k - 1] = f[k - 1]
      <4>1. k # 1 => k - 1 \in 1 .. n /\ ~ (k <= k - 1) BY <1>1, <3>3
      <4>2. k # 1 => k - 1 \notin T BY <3>2, <4>1
      <4> QED BY <4>1, <4>2
    <3> QED BY <3>2, <3>4, <3>5, <3>6, <3>7
  <2>3. g[n] = f[n]
    <3>1. n \in Nat /\ n \in 1 .. n BY <1>1, <1>5
    <3> QED BY <2>2, <3>1
  <2>4. n + 1 \in 1 .. n + 1 /\ n + 1 # 1 /\ (n + 1) - 1 = n BY <1>1, <1>5
  <2>5. g[n + 1] = g[n] \o tt[n + 1] BY <1>2, <2>4 DEF Concats
  <2> QED BY <1>1, <1>2, <2>1, <2>3, <2>5
<1> QED BY <1>4, <1>5

LEMMA FlattenAppend ==
  ASSUME NEW S, NEW ss \in Seq(Seq(S)), NEW t \in Seq(S)
  PROVE  FlattenSeq(Append(ss, t)) = FlattenSeq(ss) \o t
<1>1. /\ Append(ss, t) \in Seq(Seq(S)) /\ Len(Append(ss, t)) = Len(ss) + 1
      /\ \A k \in 1 .. Len(ss) : Append(ss, t)[k] = ss[k]
      /\ Append(ss, t)[Len(ss) + 1] = t
  BY AppendProperties
<1> QED BY <1>1, FlattenStep

\* What two lists of pieces flatten to stands side by side.
LEMMA FlattenConcat ==
  ASSUME NEW S, NEW ss \in Seq(Seq(S)), NEW tt \in Seq(Seq(S))
  PROVE  FlattenSeq(ss \o tt) = FlattenSeq(ss) \o FlattenSeq(tt)
<1> DEFINE Part(m) == SubSeq(tt, 1, m)
           T == {m \in Nat : m <= Len(tt)
                              /\ FlattenSeq(ss \o Part(m)) # FlattenSeq(ss) \o FlattenSeq(Part(m))}
<1>0. Len(ss) \in Nat /\ Len(tt) \in Nat BY LenProperties
<1> DEFINE P == Seq(S)
<1>1. ASSUME NEW m \in 0 .. Len(tt)
      PROVE  /\ Part(m) \in Seq(Seq(S)) /\ Len(Part(m)) = m
             /\ \A k \in 1 .. m : Part(m)[k] = tt[k]
  <2>1. \A k \in 1 .. m : tt[k] \in Seq(S) BY <1>0, ElementOfSeq
  <2>2. /\ SubSeq(tt, 1, m) \in Seq(Seq(S))
        /\ Len(SubSeq(tt, 1, m)) = IF 1 <= m THEN m - 1 + 1 ELSE 0
        /\ \A k \in 1 .. m - 1 + 1 : SubSeq(tt, 1, m)[k] = tt[1 + k - 1]
    BY <1>0, <2>1, SubSeqProperties
  <2> QED BY <1>0, <2>2
<1>2. T = {}
  <2> HIDE DEF Part
  <2>1. SUFFICES ASSUME T # {} PROVE FALSE OBVIOUS
  <2>2. PICK m \in T : \A k \in T : m <= k BY <2>1, LeastProperties
  <2>3. /\ m \in 0 .. Len(tt)
        /\ FlattenSeq(ss \o Part(m)) # FlattenSeq(ss) \o FlattenSeq(Part(m))
    BY <1>0, <2>2
  <2> HIDE DEF T
  <2>10. Part(m) \in Seq(Seq(S)) /\ Len(Part(m)) = m BY <1>1, <2>3
  <2>4. CASE m = 0
    <3>1. Part(m) = <<>> BY <2>4, <2>10, EmptySeq
    <3>2. ss \o <<>> = ss BY ConcatEmptySeq
    <3>3. FlattenSeq(ss) \in Seq(S) BY FlattenSeqType
    <3>4. FlattenSeq(ss) \o <<>> = FlattenSeq(ss) BY <3>3, ConcatEmptySeq
    <3> QED BY <2>3, <3>1, <3>2, <3>4, FlattenEmpty
  <2>5. CASE m # 0
    <3>1. m - 1 \in 0 .. Len(tt) /\ m - 1 \in Nat /\ ~ (m <= m - 1) BY <1>0, <2>3, <2>5
    <3>2. m - 1 \notin T BY <2>2, <3>1
    <3>3. FlattenSeq(ss \o Part(m - 1)) = FlattenSeq(ss) \o FlattenSeq(Part(m - 1))
      BY <1>0, <3>1, <3>2 DEF T
    <3>4. /\ Part(m - 1) \in Seq(Seq(S)) /\ Len(Part(m - 1)) = m - 1
          /\ \A k \in 1 .. m - 1 : Part(m - 1)[k] = tt[k]
      BY <1>1, <3>1
    <3>5. \A k \in 1 .. m : Part(m)[k] = tt[k] BY <1>1, <2>3
    <3>6. Part(m)[m] \in Seq(S)
      <4>1. m \in 1 .. Len(Part(m)) BY <2>3, <2>5, <2>10
      <4> QED BY <2>10, <4>1, ElementOfSeq
    <3>7. FlattenSeq(Part(m)) = FlattenSeq(Part(m - 1)) \o Part(m)[m]
      <4>1. \A k \in 1 .. Len(Part(m - 1)) : Part(m)[k] = Part(m - 1)[k]
        BY <3>4, <3>5, <2>3
      <4>2. Len(Part(m)) = Len(Part(m - 1)) + 1 BY <2>3, <2>10, <3>4
      <4> QED BY <2>10, <3>4, <4>1, <4>2, FlattenStep
    <3>8. /\ ss \o Part(m) \in Seq(Seq(S)) /\ Len(ss \o Part(m)) = Len(ss) + m
          /\ \A k \in 1 .. Len(ss) + m :
               (ss \o Part(m))[k] = IF k <= Len(ss) THEN ss[k] ELSE Part(m)[k - Len(ss)]
      <4> HIDE DEF P
      <4>1. ss \in Seq(P) /\ Part(m) \in Seq(P) BY <2>10 DEF P
      <4> QED BY <2>10, <4>1, ConcatProperties DEF P
    <3>9. /\ ss \o Part(m - 1) \in Seq(Seq(S)) /\ Len(ss \o Part(m - 1)) = Len(ss) + (m - 1)
          /\ \A k \in 1 .. Len(ss) + (m - 1) :
               (ss \o Part(m - 1))[k] = IF k <= Len(ss) THEN ss[k] ELSE Part(m - 1)[k - Len(ss)]
      <4> HIDE DEF P
      <4>1. ss \in Seq(P) /\ Part(m - 1) \in Seq(P) BY <3>4 DEF P
      <4>2. /\ ss \o Part(m - 1) \in Seq(P) /\ Len(ss \o Part(m - 1)) = Len(ss) + Len(Part(m - 1))
            /\ \A k \in 1 .. Len(ss) + Len(Part(m - 1)) :
                 (ss \o Part(m - 1))[k] = IF k <= Len(ss) THEN ss[k] ELSE Part(m - 1)[k - Len(ss)]
        BY <4>1, ConcatProperties, Zenon
      <4>3. Len(Part(m - 1)) = m - 1 BY <3>4
      <4> QED BY <4>2, <4>3, Zenon DEF P
    <3>10. FlattenSeq(ss \o Part(m)) = FlattenSeq(ss \o Part(m - 1)) \o Part(m)[m]
      <4>1. ASSUME NEW k \in 1 .. Len(ss) + (m - 1)
            PROVE  (ss \o Part(m))[k] = (ss \o Part(m - 1))[k]
        <5>1. k \in 1 .. Len(ss) + m BY <1>0, <2>3
        <5>2. CASE k <= Len(ss) BY <3>8, <3>9, <5>1, <5>2
        <5>3. CASE ~ (k <= Len(ss))
          <6>1. k - Len(ss) \in 1 .. m - 1 /\ k - Len(ss) \in 1 .. m BY <1>0, <2>3, <5>3
          <6>2. Part(m)[k - Len(ss)] = Part(m - 1)[k - Len(ss)] BY <3>4, <3>5, <6>1
          <6> QED BY <3>8, <3>9, <5>1, <5>3, <6>2
        <5> QED BY <5>2, <5>3
      <4>2. Len(ss \o Part(m)) = Len(ss \o Part(m - 1)) + 1 BY <1>0, <2>3, <3>8, <3>9
      <4>3. (ss \o Part(m))[Len(ss) + m] = Part(m)[m]
        <5>1. Len(ss) + m \in 1 .. Len(ss) + m /\ ~ (Len(ss) + m <= Len(ss))
              /\ (Len(ss) + m) - Len(ss) = m
          BY <1>0, <2>3, <2>5
        <5> QED BY <3>8, <5>1
      <4>4. \A k \in 1 .. Len(ss \o Part(m - 1)) : (ss \o Part(m))[k] = (ss \o Part(m - 1))[k]
        BY <3>9, <4>1
      <4>5. FlattenSeq(ss \o Part(m))
              = FlattenSeq(ss \o Part(m - 1)) \o (ss \o Part(m))[Len(ss \o Part(m))]
        BY <3>8, <3>9, <4>2, <4>4, FlattenStep, Zenon
      <4> QED BY <3>8, <4>3, <4>5
    <3>11. /\ FlattenSeq(ss) \in Seq(S) /\ FlattenSeq(Part(m - 1)) \in Seq(S)
      BY <3>4, FlattenSeqType
    <3>12. (FlattenSeq(ss) \o FlattenSeq(Part(m - 1))) \o Part(m)[m]
             = FlattenSeq(ss) \o (FlattenSeq(Part(m - 1)) \o Part(m)[m])
      <4>1. PICK u \in Seq(S), v \in Seq(S), w \in Seq(S) :
              u = FlattenSeq(ss) /\ v = FlattenSeq(Part(m - 1)) /\ w = Part(m)[m]
        BY <3>6, <3>11
      <4>2. (u \o v) \o w = u \o (v \o w) BY ConcatAssociative
      <4> QED BY <4>1, <4>2
    <3> QED BY <2>3, <3>3, <3>7, <3>10, <3>12
  <2> QED BY <2>4, <2>5
<1>3. Part(Len(tt)) = tt BY SubSeqFull
<1>4. Len(tt) \in Nat /\ Len(tt) <= Len(tt) BY <1>0
<1> HIDE DEF Part
<1>5. FlattenSeq(ss \o Part(Len(tt))) = FlattenSeq(ss) \o FlattenSeq(Part(Len(tt)))
  BY <1>2, <1>4
<1> QED BY <1>3, <1>5

LEMMA SeqOfMap ==
  ASSUME NEW A, NEW n \in Nat, NEW f \in [1 .. n -> A]
  PROVE  f \in Seq(A) /\ Len(f) = n
<1>1. f \in Seq(A) BY SeqDef
<1>2. DOMAIN f = 1 .. n /\ DOMAIN f = 1 .. Len(f) /\ Len(f) \in Nat BY <1>1, LenProperties
<1>3. ASSUME NEW a \in Nat, NEW b \in Nat, 1 .. a = 1 .. b PROVE a <= b
  <2>1. CASE a = 0 BY <2>1
  <2>2. CASE a # 0
    <3>1. a \in 1 .. a BY <2>2
    <3>2. a \in 1 .. b BY <1>3, <3>1
    <3> QED BY <3>2
  <2> QED BY <2>1, <2>2
<1>4. Len(f) <= n /\ n <= Len(f) BY <1>2, <1>3
<1> QED BY <1>1, <1>2, <1>4

LEMMA SegmentProperties ==
  ASSUME NEW A, NEW s \in Seq(A), NEW m \in 1 .. Len(s) + 1, NEW n \in m - 1 .. Len(s)
  PROVE  /\ SubSeq(s, m, n) \in Seq(A) /\ Len(SubSeq(s, m, n)) = n - m + 1
         /\ \A k \in 1 .. n - m + 1 : SubSeq(s, m, n)[k] = s[m + k - 1]
<1>1. Len(s) \in Nat BY LenProperties
<1>2. m \in Int /\ n \in Int BY <1>1
<1>3. \A k \in m .. n : s[k] \in A
  <2> TAKE k \in m .. n
  <2>1. k \in 1 .. Len(s) BY <1>1
  <2> QED BY <2>1, ElementOfSeq
<1>4. (IF m <= n THEN n - m + 1 ELSE 0) = n - m + 1 BY <1>1
<1> QED BY <1>2, <1>3, <1>4, SubSeqProperties

LEMMA PrefixProperties ==
  ASSUME NEW A, NEW s \in Seq(A), NEW m \in 0 .. Len(s)
  PROVE  /\ SubSeq(s, 1, m) \in Seq(A) /\ Len(SubSeq(s, 1, m)) = m
         /\ \A k \in 1 .. m : SubSeq(s, 1, m)[k] = s[k]
<1>1. Len(s) \in Nat BY LenProperties
<1>2. 1 \in 1 .. Len(s) + 1 /\ m \in 1 - 1 .. Len(s) BY <1>1
<1>3. m - 1 + 1 = m /\ \A k \in 1 .. m : 1 + k - 1 = k BY <1>1
<1> QED BY <1>2, <1>3, SegmentProperties

-----------------------------------------------------------------------------
(* Sequences whose elements need no type.                                  *)

IsSeq(s) == Len(s) \in Nat /\ s = [k \in 1 .. Len(s) |-> s[k]]

LEMMA IsSeqOfRange ==
  ASSUME NEW s, IsSeq(s)
  PROVE  s \in Seq({s[k] : k \in 1 .. Len(s)})
<1> DEFINE S == {s[k] : k \in 1 .. Len(s)}
<1>1. s \in [1 .. Len(s) -> S] BY DEF IsSeq
<1> QED BY <1>1, SeqDef DEF IsSeq

LEMMA AppendAny ==
  ASSUME NEW s, IsSeq(s), NEW e
  PROVE  /\ IsSeq(Append(s, e))
         /\ Len(Append(s, e)) = Len(s) + 1
         /\ \A k \in 1 .. Len(s) : Append(s, e)[k] = s[k]
         /\ Append(s, e)[Len(s) + 1] = e
<1> DEFINE R == {s[k] : k \in 1 .. Len(s)}
           S == R \union {e}
<1>0. s \in Seq(R) BY IsSeqOfRange
<1> HIDE DEF R
<1>1. s \in Seq(S) BY <1>0, SeqMonotonic
<1>2. e \in S OBVIOUS
<1> HIDE DEF S
<1>3. /\ Append(s, e) \in Seq(S) /\ Len(Append(s, e)) = Len(s) + 1
      /\ \A k \in 1 .. Len(s) : Append(s, e)[k] = s[k]
      /\ Append(s, e)[Len(s) + 1] = e
  BY <1>1, <1>2, AppendProperties
<1>4. Append(s, e) \in [1 .. Len(Append(s, e)) -> S] /\ Len(Append(s, e)) \in Nat
  BY <1>3, LenProperties
<1> QED BY <1>3, <1>4 DEF IsSeq

-----------------------------------------------------------------------------
(* Folds from the left.                                                    *)

\* A set of numbers with a bound has a largest.
LEMMA BoundedMax ==
  ASSUME NEW n \in Nat, NEW S \in SUBSET Nat, S # {}, \A y \in S : y <= n
  PROVE  Max(S) \in S /\ \A y \in S : Max(S) >= y
<1> DEFINE U == {k \in Nat : \A y \in S : k >= y}
           u == Least(U)
<1>1. n \in U /\ U \in SUBSET Nat OBVIOUS
<1>2. u \in U /\ \A k \in U : u <= k BY <1>1, LeastProperties
<1> HIDE DEF u
<1>3. u \in S
  <2> SUFFICES ASSUME u \notin S PROVE FALSE OBVIOUS
  <2>1. \A y \in S : y \in Nat /\ u >= y /\ y # u BY <1>2
  <2>2. PICK x \in S : TRUE OBVIOUS
  <2>3. x \in Nat OBVIOUS
  <2>4. u \in Nat BY <1>2
  <2>5. u - 1 \in Nat /\ \A y \in S : u - 1 >= y BY <2>1, <2>2, <2>3, <2>4
  <2>6. u - 1 \in U BY <2>5
  <2> QED BY <1>2, <2>4, <2>6
<1>4. \A y \in S : u >= y BY <1>2
<1> QED BY <1>3, <1>4, Zenon DEF Max

\* The largest number of a set of places is in it.
LEMMA MaxProperties ==
  ASSUME NEW n \in Nat, NEW S \in SUBSET (1..n), S # {}
  PROVE  Max(S) \in S /\ \A y \in S : Max(S) >= y
<1>1. S \in SUBSET Nat /\ \A y \in S : y <= n OBVIOUS
<1> QED BY <1>1, BoundedMax

\* Numbers at finitely many places have a largest.
LEMMA MaxOfPlaces ==
  ASSUME NEW n \in Nat, NEW P \in SUBSET (1..n), P # {}, NEW f \in [P -> Nat]
  PROVE  LET S == {f[k] : k \in P}
         IN  Max(S) \in S /\ \A k \in P : Max(S) >= f[k]
<1> DEFINE S == {f[k] : k \in P}
           Bounded(m) == \E b \in Nat : \A k \in P : k <= m => f[k] <= b
           T == {m \in Nat : m <= n /\ ~ Bounded(m)}
<1>1. T = {}
  <2> SUFFICES ASSUME T # {} PROVE FALSE OBVIOUS
  <2>1. T \in SUBSET Nat OBVIOUS
  <2>2. PICK m \in T : \A k \in T : m <= k BY <2>1, LeastProperties
  <2>3. m \in Nat /\ m <= n /\ ~ Bounded(m) BY <2>2
  <2>4. m # 0
    <3>1. \A k \in P : ~ (k <= 0) OBVIOUS
    <3>2. Bounded(0) BY <3>1
    <3> QED BY <2>3, <3>2
  <2>5. m - 1 \in Nat /\ m - 1 <= n /\ ~ (m <= m - 1) BY <2>3, <2>4
  <2>6. Bounded(m - 1) BY <2>2, <2>5
  <2>7. PICK b \in Nat : \A k \in P : k <= m - 1 => f[k] <= b BY <2>6
  <2>8. CASE m \in P
    <3>1. f[m] \in Nat BY <2>8
    <3>2. PICK c \in Nat : b <= c /\ f[m] <= c
      <4>1. CASE b <= f[m] BY <3>1, <4>1
      <4>2. CASE ~ (b <= f[m])
        <5>1. PICK a \in Nat : a = f[m] BY <3>1
        <5>2. a <= b /\ b <= b BY <4>2, <5>1
        <5> QED BY <5>1, <5>2
      <4> QED BY <4>1, <4>2
    <3>3. ASSUME NEW k \in P, k <= m PROVE f[k] <= c
      <4>1. k \in Nat /\ f[k] \in Nat OBVIOUS
      <4>2. CASE k = m BY <3>2, <4>2
      <4>3. CASE k # m
        <5>1. k <= m - 1 BY <2>3, <3>3, <4>1, <4>3
        <5>2. f[k] <= b BY <2>7, <5>1
        <5> QED BY <3>2, <4>1, <5>2
      <4> QED BY <4>2, <4>3
    <3> QED BY <2>3, <3>3
  <2>9. CASE m \notin P
    <3>1. ASSUME NEW k \in P, k <= m PROVE k <= m - 1
      <4>1. k \in Nat /\ k # m BY <2>9
      <4> QED BY <2>3, <3>1, <4>1
    <3> QED BY <2>3, <2>7, <3>1
  <2> QED BY <2>8, <2>9
<1>2. Bounded(n)
  <2>1. n \notin T BY <1>1
  <2> QED BY <2>1
<1>3. PICK b \in Nat : \A k \in P : f[k] <= b BY <1>2
<1>4. S \in SUBSET Nat /\ S # {} /\ \A y \in S : y <= b BY <1>3
<1>5. Max(S) \in S /\ \A y \in S : Max(S) >= y BY <1>4, BoundedMax
<1> QED BY <1>5

\* A place that is the last there can be is the largest.
LEMMA MaxOfInterval ==
  ASSUME NEW m \in Nat, NEW S \in SUBSET (1..m), m \in S
  PROVE  Max(S) = m
<1>1. Max(S) \in S /\ \A y \in S : Max(S) >= y
  <2>1. S # {} OBVIOUS
  <2> QED BY <2>1, MaxProperties, Zenon
<1>2. Max(S) \in 1..m BY <1>1
<1>3. Max(S) >= m BY <1>1
<1> QED BY <1>2, <1>3

Folds(g, m, A, base, step, s) ==
  /\ g \in [SUBSET (1..m) -> A]
  /\ \A S \in SUBSET (1..m) :
       g[S] = IF S = {} THEN base ELSE step[<<g[S \ {Max(S)}], s[Max(S)]>>]

\* A fold from the left has a value for every set of places, whatever the step.
LEMMA FoldExists ==
  ASSUME NEW A, NEW base \in A, NEW C, NEW step \in [A \X C -> A], NEW n \in Nat,
         NEW s \in [1..n -> C]
  PROVE  \E g : Folds(g, n, A, base, step, s)
<1> DEFINE T == {m \in Nat : m <= n /\ ~\E g : Folds(g, m, A, base, step, s)}
<1>1. T = {}
  <2> SUFFICES ASSUME T # {} PROVE FALSE OBVIOUS
  <2>1. T \in SUBSET Nat OBVIOUS
  <2>2. PICK m \in T : \A k \in T : m <= k BY <2>1, LeastProperties
  <2>3. m \in Nat /\ m <= n /\ ~\E g : Folds(g, m, A, base, step, s) BY <2>2
  <2>4. CASE m = 0
    <3>1. SUBSET (1..m) = {{}} BY <2>4
    <3>2. Folds([S \in SUBSET (1..m) |-> base], m, A, base, step, s) BY <3>1 DEF Folds
    <3> QED BY <2>3, <3>2
  <2>5. CASE m # 0
    <3>1. m - 1 \in Nat /\ m - 1 <= n /\ ~(m <= m - 1) BY <2>3, <2>5
    <3>2. m - 1 \notin T BY <2>2, <3>1
    <3>3. PICK h : Folds(h, m - 1, A, base, step, s) BY <3>1, <3>2
    <3> DEFINE g == [S \in SUBSET (1..m) |->
                       IF m \in S THEN step[<<h[S \ {m}], s[m]>>] ELSE h[S]]
    <3>4. ASSUME NEW S \in SUBSET (1..m)
          PROVE  /\ m \in S => S \ {m} \in SUBSET (1..(m - 1))
                 /\ m \notin S => S \in SUBSET (1..(m - 1))
      BY <2>3, <3>1
    <3>5. s[m] \in C BY <2>3, <2>5
    <3>6. ASSUME NEW S \in SUBSET (1..(m - 1))
          PROVE  h[S] \in A
      BY <3>3 DEF Folds
    <3>7. g \in [SUBSET (1..m) -> A]
      <4> SUFFICES ASSUME NEW S \in SUBSET (1..m)
                   PROVE  (IF m \in S THEN step[<<h[S \ {m}], s[m]>>] ELSE h[S]) \in A
        OBVIOUS
      <4>1. CASE m \in S
        <5>1. h[S \ {m}] \in A BY <3>4, <3>6, <4>1
        <5> QED BY <3>5, <4>1, <5>1
      <4>2. CASE m \notin S BY <3>4, <3>6, <4>2
      <4> QED BY <4>1, <4>2
    <3>8. ASSUME NEW S \in SUBSET (1..m)
          PROVE  g[S] = IF S = {} THEN base ELSE step[<<g[S \ {Max(S)}], s[Max(S)]>>]
      <4>1. CASE m \in S
        <5>1. Max(S) = m BY <2>3, <4>1, MaxOfInterval
        <5>2. S \ {m} \in SUBSET (1..m) /\ m \notin S \ {m} OBVIOUS
        <5>3. g[S \ {m}] = h[S \ {m}] BY <3>4, <5>2
        <5>4. g[S] = step[<<h[S \ {m}], s[m]>>] BY <4>1
        <5> HIDE DEF g
        <5> QED BY <4>1, <5>1, <5>3, <5>4
      <4>2. CASE m \notin S
        <5>1. S \in SUBSET (1..(m - 1)) BY <3>4, <4>2
        <5>2. g[S] = h[S] BY <4>2
        <5>3. S \ {Max(S)} \in SUBSET (1..m) /\ m \notin S \ {Max(S)} BY <4>2
        <5>4. g[S \ {Max(S)}] = h[S \ {Max(S)}] BY <5>3
        <5>5. h[S] = IF S = {} THEN base ELSE step[<<h[S \ {Max(S)}], s[Max(S)]>>]
          BY <3>3, <5>1 DEF Folds
        <5> HIDE DEF g
        <5> QED BY <5>2, <5>4, <5>5
      <4> QED BY <4>1, <4>2
    <3> HIDE DEF g
    <3>9. Folds(g, m, A, base, step, s) BY <3>7, <3>8 DEF Folds
    <3> QED BY <2>3, <3>9
  <2> QED BY <2>4, <2>5
<1>2. n \notin T BY <1>1
<1> QED BY <1>2

-----------------------------------------------------------------------------
(* The n-th least number of a set, and the atoms that the words make.      *)

UpTo(S, x) == {y \in S : y <= x}

LEMMA UpToSize ==
  ASSUME NEW N \in Nat, NEW S \in SUBSET (1 .. N), NEW x
  PROVE  /\ IsFiniteSet(S) /\ IsFiniteSet(UpTo(S, x))
         /\ Cardinality(S) \in Nat /\ Cardinality(UpTo(S, x)) \in Nat
         /\ Cardinality(UpTo(S, x)) <= Cardinality(S)
<1>1. IsFiniteSet(1 .. N) BY FS_Interval
<1>2. IsFiniteSet(S) BY <1>1, FS_Subset
<1>3. UpTo(S, x) \subseteq S BY DEF UpTo
<1> QED BY <1>2, <1>3, FS_Subset, FS_CardinalityType

\* One number further there is at most one element more.
LEMMA UpToStep ==
  ASSUME NEW N \in Nat, NEW S \in SUBSET (1 .. N), NEW k \in Nat \ {0}
  PROVE  /\ k \notin S => UpTo(S, k) = UpTo(S, k - 1)
         /\ k \in S => Cardinality(UpTo(S, k)) = Cardinality(UpTo(S, k - 1)) + 1
<1>1. \A y \in S : y \in Nat OBVIOUS
<1>2. ASSUME k \notin S PROVE UpTo(S, k) = UpTo(S, k - 1)
  <2>1. \A y \in S : y <= k <=> y <= k - 1 BY <1>1, <1>2
  <2> QED BY <2>1 DEF UpTo
<1>3. ASSUME k \in S PROVE Cardinality(UpTo(S, k)) = Cardinality(UpTo(S, k - 1)) + 1
  <2>1. \A y \in S : y <= k <=> y <= k - 1 \/ y = k BY <1>1
  <2>2. UpTo(S, k) = UpTo(S, k - 1) \cup {k} BY <1>3, <2>1 DEF UpTo
  <2>3. k \notin UpTo(S, k - 1) BY DEF UpTo
  <2>4. IsFiniteSet(UpTo(S, k - 1)) BY UpToSize
  <2> QED BY <2>2, <2>3, <2>4, FS_AddElement
<1> QED BY <1>2, <1>3

LEMMA UpToGrows ==
  ASSUME NEW N \in Nat, NEW S \in SUBSET (1 .. N), NEW x \in S, NEW y \in S, x < y
  PROVE  Cardinality(UpTo(S, x)) < Cardinality(UpTo(S, y))
<1>1. x \in Nat /\ y \in Nat /\ y \in Nat \ {0} OBVIOUS
<1>2. Cardinality(UpTo(S, y)) = Cardinality(UpTo(S, y - 1)) + 1 BY <1>1, UpToStep
<1>3. UpTo(S, x) \subseteq UpTo(S, y - 1)
  <2>1. \A z \in S : z \in Nat OBVIOUS
  <2>2. \A z \in S : z <= x => z <= y - 1 BY <1>1, <2>1
  <2> QED BY <2>2 DEF UpTo
<1>4. IsFiniteSet(UpTo(S, y - 1)) BY UpToSize
<1>5. Cardinality(UpTo(S, x)) <= Cardinality(UpTo(S, y - 1)) BY <1>3, <1>4, FS_Subset
<1>6. Cardinality(UpTo(S, x)) \in Nat /\ Cardinality(UpTo(S, y - 1)) \in Nat BY UpToSize
<1> QED BY <1>2, <1>5, <1>6

LEMMA NthProperties ==
  ASSUME NEW N \in Nat, NEW S \in SUBSET (1 .. N), NEW n \in 1 .. Cardinality(S)
  PROVE  Nth(S, n) \in S /\ Cardinality(UpTo(S, Nth(S, n))) = n
<1>9. Cardinality(S) \in Nat BY UpToSize
<1>0. Cardinality(S) \in Nat /\ n \in Nat BY <1>9
<1> DEFINE T == {k \in Nat : Cardinality(UpTo(S, k)) >= n}
<1>1. N \in T
  <2>1. UpTo(S, N) = S
    <3>1. \A y \in S : y <= N OBVIOUS
    <3> QED BY <3>1 DEF UpTo
  <2> QED BY <1>0, <2>1
<1>2. PICK k \in T : \A m \in T : k <= m BY <1>1, LeastProperties
<1>3. k \in Nat /\ Cardinality(UpTo(S, k)) >= n /\ Cardinality(UpTo(S, k)) \in Nat
  BY <1>2, UpToSize
<1>4. k # 0
  <2>1. \A y \in S : y \in Nat /\ ~ (y <= 0) OBVIOUS
  <2>2. UpTo(S, 0) = {} BY <2>1 DEF UpTo
  <2> QED BY <1>0, <1>3, <2>2, FS_EmptySet
<1>5. k - 1 \in Nat /\ k - 1 \notin T /\ k \in Nat \ {0} BY <1>2, <1>3, <1>4
<1>6. Cardinality(UpTo(S, k - 1)) \in Nat /\ ~ (Cardinality(UpTo(S, k - 1)) >= n)
  BY <1>5, UpToSize
<1>7. k \in S /\ Cardinality(UpTo(S, k)) = n
  <2>1. k \in S BY <1>3, <1>5, <1>6, UpToStep
  <2>2. Cardinality(UpTo(S, k)) = Cardinality(UpTo(S, k - 1)) + 1 BY <1>5, <2>1, UpToStep
  <2> QED BY <1>0, <1>3, <1>6, <2>1, <2>2
<1>8. \E x \in S : Cardinality({y \in S : y <= x}) = n BY <1>7 DEF UpTo
<1> QED BY <1>8 DEF Nth, UpTo

LEMMA NthGrows ==
  ASSUME NEW N \in Nat, NEW S \in SUBSET (1 .. N), NEW n \in Nat, n >= 1,
         n + 1 <= Cardinality(S)
  PROVE  Nth(S, n) < Nth(S, n + 1)
<1>1. Cardinality(S) \in Nat BY UpToSize
<1>2. n \in 1 .. Cardinality(S) /\ n + 1 \in 1 .. Cardinality(S) BY <1>1
<1>3. PICK x \in S : x = Nth(S, n) /\ Cardinality(UpTo(S, x)) = n BY <1>2, NthProperties
<1>4. PICK y \in S : y = Nth(S, n + 1) /\ Cardinality(UpTo(S, y)) = n + 1
  BY <1>2, NthProperties
<1>5. x \in Nat /\ y \in Nat OBVIOUS
<1>6. ~ (y < x) /\ x # y
  <2>1. y < x => n + 1 < n BY <1>3, <1>4, UpToGrows
  <2> QED BY <1>3, <1>4, <2>1
<1> QED BY <1>3, <1>4, <1>5, <1>6

LEMMA NthFirst ==
  ASSUME NEW N \in Nat, NEW S \in SUBSET (1 .. N), 1 \in S
  PROVE  Cardinality(S) >= 1 /\ Nth(S, 1) = 1
<1>1. \A y \in S : y \in Nat /\ y >= 1 /\ (y <= 1 <=> y = 1) OBVIOUS
<1>2. UpTo(S, 1) = {1} BY <1>1 DEF UpTo
<1>3. Cardinality(UpTo(S, 1)) = 1 BY <1>2, FS_Singleton
<1>4. Cardinality(S) \in Nat /\ Cardinality(S) >= 1 BY <1>3, UpToSize
<1>5. 1 \in 1 .. Cardinality(S) BY <1>4
<1>6. PICK x \in S : x = Nth(S, 1) /\ Cardinality(UpTo(S, x)) = 1 BY <1>5, NthProperties
<1>7. ~ (1 < x)
  <2>1. 1 < x => Cardinality(UpTo(S, 1)) < Cardinality(UpTo(S, x))
    <3> HAVE 1 < x
    <3> QED BY UpToGrows
  <2> QED BY <1>3, <1>6, <2>1
<1> QED BY <1>1, <1>4, <1>6, <1>7

AtomStart(words, trail, n) ==
  IF n <= Cardinality(AtomStarts(words, trail)) THEN Nth(AtomStarts(words, trail), n)
  ELSE Len(words) + 1

\* The atoms stand one behind the other, from the first word to the last.
LEMMA AtomStartProperties ==
  ASSUME NEW words \in Seq(Word), NEW trail
  PROVE  LET count == Cardinality(AtomStarts(words, trail))
         IN  /\ count \in Nat
             /\ \A n \in 1 .. count + 1 : AtomStart(words, trail, n) \in 1 .. Len(words) + 1
             /\ \A n \in 1 .. count :
                  AtomStart(words, trail, n) < AtomStart(words, trail, n + 1)
             /\ AtomStart(words, trail, 1) = 1
             /\ AtomStart(words, trail, count + 1) = Len(words) + 1
             /\ Glue(words, trail) = [n \in 1 .. count |->
                  SubSeq(words, AtomStart(words, trail, n), AtomStart(words, trail, n + 1) - 1)]
<1> DEFINE S == AtomStarts(words, trail)
           count == Cardinality(S)
<1>1. Len(words) \in Nat BY LenProperties
<1>2. S \in SUBSET (1 .. Len(words)) BY DEF AtomStarts
<1>3. count \in Nat BY <1>1, <1>2, UpToSize
<1> HIDE DEF count
<1>4. ASSUME NEW n \in 1 .. count PROVE AtomStart(words, trail, n) = Nth(S, n) /\ Nth(S, n) \in S
  <2>1. n <= count BY <1>3
  <2>2. n \in 1 .. Cardinality(S) BY DEF count
  <2>3. Nth(S, n) \in S BY <1>1, <1>2, <2>2, NthProperties
  <2> QED BY <2>1, <2>3 DEF AtomStart, count
<1>5. AtomStart(words, trail, count + 1) = Len(words) + 1
  <2>1. ~ (count + 1 <= count) BY <1>3
  <2> QED BY <2>1 DEF AtomStart, count
<1>6. ASSUME NEW n \in 1 .. count + 1
      PROVE  AtomStart(words, trail, n) \in 1 .. Len(words) + 1
  <2>1. CASE n = count + 1
    <3>1. Len(words) + 1 \in 1 .. Len(words) + 1 BY <1>1
    <3> QED BY <1>5, <2>1, <3>1
  <2>2. CASE n # count + 1
    <3>1. n \in 1 .. count BY <1>3, <2>2
    <3>2. Nth(S, n) \in 1 .. Len(words) BY <1>2, <1>4, <3>1
    <3> QED BY <1>1, <1>4, <3>1, <3>2
  <2> QED BY <2>1, <2>2
<1>7. ASSUME NEW n \in 1 .. count
      PROVE  AtomStart(words, trail, n) < AtomStart(words, trail, n + 1)
  <2>1. AtomStart(words, trail, n) = Nth(S, n) /\ Nth(S, n) \in 1 .. Len(words)
    BY <1>2, <1>4
  <2>2. CASE n = count BY <1>1, <1>5, <2>1, <2>2
  <2>3. CASE n # count
    <3>1. n \in Nat /\ n >= 1 /\ n + 1 <= count /\ n + 1 \in 1 .. count BY <1>3, <2>3
    <3>2. Nth(S, n) < Nth(S, n + 1)
      <4>1. n + 1 <= Cardinality(S) BY <3>1 DEF count
      <4> QED BY <1>1, <1>2, <3>1, <4>1, NthGrows
    <3>3. AtomStart(words, trail, n + 1) = Nth(S, n + 1) BY <1>4, <3>1
    <3> QED BY <2>1, <3>2, <3>3
  <2> QED BY <2>2, <2>3
<1>8. AtomStart(words, trail, 1) = 1
  <2>1. CASE Len(words) = 0
    <3>1. S = {} BY <1>2, <2>1
    <3>2. count = 0 BY <3>1, FS_EmptySet DEF count
    <3> QED BY <1>5, <2>1, <3>2
  <2>2. CASE Len(words) # 0
    <3>1. 1 \in S BY <1>1, <2>2 DEF AtomStarts
    <3>2. count >= 1 /\ Nth(S, 1) = 1 BY <1>1, <1>2, <3>1, NthFirst DEF count
    <3>3. 1 \in 1 .. count BY <1>3, <3>2
    <3> QED BY <1>4, <3>2, <3>3
  <2> QED BY <2>1, <2>2
<1>9. Glue(words, trail)
        = [n \in 1 .. count |->
             SubSeq(words, AtomStart(words, trail, n), AtomStart(words, trail, n + 1) - 1)]
  <2>1. Glue(words, trail)
          = [n \in 1 .. count |-> SubSeq(words, Nth(S, n), IF n = count THEN Len(words)
                                                           ELSE Nth(S, n + 1) - 1)]
    BY DEF Glue, count
  <2>2. ASSUME NEW n \in 1 .. count
        PROVE  AtomStart(words, trail, n + 1) - 1
                 = IF n = count THEN Len(words) ELSE Nth(S, n + 1) - 1
    <3>1. CASE n = count BY <1>1, <1>5, <3>1
    <3>2. CASE n # count
      <4>1. n + 1 \in 1 .. count BY <1>3, <3>2
      <4> QED BY <1>4, <3>2, <4>1
    <3> QED BY <3>1, <3>2
  <2>3. ASSUME NEW n \in 1 .. count
        PROVE  SubSeq(words, Nth(S, n), IF n = count THEN Len(words) ELSE Nth(S, n + 1) - 1)
                 = SubSeq(words, AtomStart(words, trail, n), AtomStart(words, trail, n + 1) - 1)
    BY <1>4, <2>2
  <2> QED BY <2>1, <2>3
<1> QED BY <1>3, <1>5, <1>6, <1>7, <1>8, <1>9 DEF count

\* Gluing loses no word and doubles none: the atoms hold the words they were made of.
LEMMA GlueKeepsWords ==
  ASSUME NEW words \in Seq(Word), NEW trail
  PROVE  /\ Glue(words, trail) \in Seq(Seq(Word))
         /\ FlattenSeq(Glue(words, trail)) = words
<1> DEFINE count == Cardinality(AtomStarts(words, trail))
           At(n) == AtomStart(words, trail, n)
           g == Glue(words, trail)
           Part(m) == SubSeq(g, 1, m)
           T == {m \in Nat : m <= count /\ FlattenSeq(Part(m)) # SubSeq(words, 1, At(m + 1) - 1)}
<1>1. Len(words) \in Nat BY LenProperties
<1>2. /\ count \in Nat
      /\ \A n \in 1 .. count + 1 : At(n) \in 1 .. Len(words) + 1
      /\ \A n \in 1 .. count : At(n) < At(n + 1)
      /\ At(1) = 1 /\ At(count + 1) = Len(words) + 1
      /\ g = [n \in 1 .. count |-> SubSeq(words, At(n), At(n + 1) - 1)]
  BY AtomStartProperties
<1> HIDE DEF count, At, g
<1>3. ASSUME NEW n \in 1 .. count
      PROVE  /\ At(n) \in 1 .. Len(words) /\ At(n + 1) - 1 \in At(n) .. Len(words)
             /\ g[n] = SubSeq(words, At(n), At(n + 1) - 1) /\ g[n] \in Seq(Word)
  <2>1. n \in 1 .. count + 1 /\ n + 1 \in 1 .. count + 1 BY <1>2
  <2>2. At(n) \in 1 .. Len(words) + 1 /\ At(n + 1) \in 1 .. Len(words) + 1 /\ At(n) < At(n + 1)
    BY <1>2, <2>1
  <2>3. At(n) \in 1 .. Len(words) /\ At(n + 1) - 1 \in At(n) .. Len(words) BY <1>1, <2>2
  <2>4. \A k \in At(n) .. At(n + 1) - 1 : words[k] \in Word
    <3> TAKE k \in At(n) .. At(n + 1) - 1
    <3>1. k \in 1 .. Len(words) BY <1>1, <2>3
    <3> QED BY <3>1, ElementOfSeq
  <2>5. At(n) \in Int /\ At(n + 1) - 1 \in Int BY <1>1, <2>2
  <2>6. SubSeq(words, At(n), At(n + 1) - 1) \in Seq(Word) BY <2>4, <2>5, SubSeqProperties
  <2>7. g[n] = SubSeq(words, At(n), At(n + 1) - 1) BY <1>2
  <2> QED BY <2>3, <2>6, <2>7
<1>4. g \in Seq(Seq(Word)) /\ Len(g) = count
  <2>1. g = [n \in 1 .. count |-> g[n]] BY <1>2
  <2>2. g \in [1 .. count -> Seq(Word)] BY <1>3, <2>1
  <2> QED BY <1>2, <2>2, SeqOfMap, Zenon
<1>5. ASSUME NEW m \in 0 .. count
      PROVE  /\ Part(m) \in Seq(Seq(Word)) /\ Len(Part(m)) = m
             /\ \A k \in 1 .. m : Part(m)[k] = g[k]
  <2>1. m \in 0 .. Len(g) BY <1>4
  <2> QED BY <1>4, <2>1, PrefixProperties, Zenon
<1> HIDE DEF Part
<1>6. T = {}
  <2>1. SUFFICES ASSUME T # {} PROVE FALSE OBVIOUS
  <2>2. PICK m \in T : \A k \in T : m <= k BY <2>1, LeastProperties
  <2>3. m \in 0 .. count /\ m \in Nat /\ FlattenSeq(Part(m)) # SubSeq(words, 1, At(m + 1) - 1)
    BY <1>2, <2>2
  <2>4. CASE m = 0
    <3>1. Part(0) \in Seq(Seq(Word)) /\ Len(Part(0)) = 0 BY <1>5, <2>3, <2>4
    <3>2. Part(0) = <<>> BY <3>1, EmptySeq
    <3>3. SubSeq(words, 1, At(0 + 1) - 1) = <<>>
      <4>1. At(0 + 1) - 1 = 0 BY <1>2
      <4>2. SubSeq(words, 1, 0) = <<>> BY SubSeqEmpty
      <4> QED BY <4>1, <4>2
    <3> QED BY <2>3, <2>4, <3>2, <3>3, FlattenEmpty
  <2>5. CASE m # 0
    <3>1. m - 1 \in 0 .. count /\ m - 1 \in Nat /\ ~ (m <= m - 1) /\ m \in 1 .. count
          /\ m - 1 <= count /\ (m - 1) + 1 = m
      BY <1>2, <2>3, <2>5
    <3>2. m - 1 \notin T BY <2>2, <3>1
    <3>3. FlattenSeq(Part(m - 1)) = SubSeq(words, 1, At(m) - 1) BY <3>1, <3>2
    <3> HIDE DEF T
    <3>4. FlattenSeq(Part(m)) = FlattenSeq(Part(m - 1)) \o g[m]
      <4>1. /\ Part(m) \in Seq(Seq(Word)) /\ Len(Part(m)) = m
            /\ \A k \in 1 .. m : Part(m)[k] = g[k]
        BY <1>5, <2>3
      <4>2. /\ Part(m - 1) \in Seq(Seq(Word)) /\ Len(Part(m - 1)) = m - 1
            /\ \A k \in 1 .. m - 1 : Part(m - 1)[k] = g[k]
        BY <1>5, <3>1
      <4>3. ASSUME NEW k \in 1 .. Len(Part(m - 1)) PROVE Part(m)[k] = Part(m - 1)[k]
        <5>1. k \in 1 .. m - 1 /\ k \in 1 .. m BY <3>1, <4>2
        <5> QED BY <4>1, <4>2, <5>1
      <4>4. Len(Part(m)) = Len(Part(m - 1)) + 1 /\ Part(m)[Len(Part(m))] = g[m]
        BY <3>1, <4>1, <4>2
      <4> QED BY <4>1, <4>2, <4>3, <4>4, FlattenStep
    <3>5. SubSeq(words, 1, At(m) - 1) \o SubSeq(words, At(m), At(m + 1) - 1)
            = SubSeq(words, 1, At(m + 1) - 1)
      <4>1. At(m) \in 1 .. Len(words) /\ At(m + 1) - 1 \in At(m) .. Len(words) BY <1>3, <3>1
      <4>2. PICK k \in Int : k = At(m) - 1 BY <4>1
      <4>3. PICK n \in Int : n = At(m + 1) - 1 BY <4>1
      <4>4. 1 \in 1 .. Len(words) + 1 /\ k \in 1 - 1 .. Len(words) /\ n \in k .. Len(words)
            /\ k + 1 = At(m)
        BY <1>1, <4>1, <4>2, <4>3
      <4>5. SubSeq(words, 1, k) \o SubSeq(words, k + 1, n) = SubSeq(words, 1, n)
        BY <4>4, ConcatAdjacentSubSeq
      <4> QED BY <4>2, <4>3, <4>4, <4>5
    <3> QED BY <1>3, <2>3, <3>1, <3>3, <3>4, <3>5
  <2> QED BY <2>4, <2>5
<1>7. FlattenSeq(Part(count)) = SubSeq(words, 1, At(count + 1) - 1)
  <2>1. count \in Nat /\ count <= count BY <1>2
  <2> QED BY <1>6, <2>1
<1>8. Part(count) = g BY <1>4, SubSeqFull DEF Part
<1>9. SubSeq(words, 1, At(count + 1) - 1) = words
  <2>1. At(count + 1) - 1 = Len(words) BY <1>1, <1>2
  <2> QED BY <2>1, SubSeqFull
<1> QED BY <1>4, <1>7, <1>8, <1>9 DEF g

-----------------------------------------------------------------------------
(* The columns of a text.                                                  *)

ColumnsFold(g, words) ==
  g = [S \in SUBSET DOMAIN words |->
         IF S = {} THEN 0 ELSE g[S \ {Max(S)}] + Columns[words[Max(S)]] + 1]

\* The columns of the first k words, each with a blank behind it.
Sums(h, words) ==
  /\ h \in [0 .. Len(words) -> Nat]
  /\ h[0] = 0
  /\ \A k \in 1 .. Len(words) : h[k] = h[k - 1] + Columns[words[k]] + 1

LEMMA TextColumnsSum ==
  ASSUME NEW words \in Seq(Word)
  PROVE  \E h : /\ Sums(h, words)
                /\ TextColumns(words) = h[Len(words)] - (IF words = <<>> THEN 0 ELSE 1)
<1> DEFINE n == Len(words)
           step == [p \in Nat \X Word |-> p[1] + Columns[p[2]] + 1]
           f == CHOOSE g : ColumnsFold(g, words)
<1>1. n \in Nat /\ DOMAIN words = 1 .. n /\ words \in [1 .. n -> Word] BY LenProperties
<1>2. ASSUME NEW sum \in Nat, NEW w \in Word PROVE sum + Columns[w] + 1 \in Nat
  BY WordAssumption
<1>3. step \in [Nat \X Word -> Nat] BY <1>2
<1>4. \E g : ColumnsFold(g, words)
  <2>1. ASSUME NEW sum \in Nat, NEW w \in Word PROVE step[<<sum, w>>] = sum + Columns[w] + 1
    OBVIOUS
  <2> HIDE DEF step, n
  <2>2. PICK g : Folds(g, n, Nat, 0, step, words)
    <3>1. 0 \in Nat OBVIOUS
    <3> QED BY <1>1, <1>3, <3>1, FoldExists
  <2>3. ASSUME NEW S \in SUBSET (1 .. n)
        PROVE  g[S] = IF S = {} THEN 0 ELSE g[S \ {Max(S)}] + Columns[words[Max(S)]] + 1
    <3>1. g[S] = IF S = {} THEN 0 ELSE step[<<g[S \ {Max(S)}], words[Max(S)]>>]
      BY <2>2 DEF Folds
    <3>2. CASE S # {}
      <4>1. Max(S) \in 1 .. n BY <1>1, <3>2, MaxProperties
      <4>2. words[Max(S)] \in Word BY <1>1, <4>1
      <4>3. g[S \ {Max(S)}] \in Nat BY <2>2 DEF Folds
      <4> QED BY <2>1, <3>1, <3>2, <4>2, <4>3
    <3> QED BY <3>1, <3>2
  <2>4. g = [S \in SUBSET (1 .. n) |-> g[S]] BY <2>2 DEF Folds
  <2>5. ColumnsFold(g, words) BY <1>1, <2>3, <2>4 DEF ColumnsFold
  <2> QED BY <2>5
<1>5. ColumnsFold(f, words) BY <1>4
<1>6. TextColumns(words) = f[1 .. n] - (IF words = <<>> THEN 0 ELSE 1)
  BY <1>1 DEF TextColumns, FoldLeft, MapThenFoldSet, ColumnsFold
<1> HIDE DEF f, step
<1> DEFINE T == {k \in Nat : k <= n /\ f[1 .. k] \notin Nat}
           h == [k \in 0 .. n |-> f[1 .. k]]
<1>7. f[1 .. 0] = 0
  <2>1. 1 .. 0 = {} /\ {} \in SUBSET (1 .. n) OBVIOUS
  <2> QED BY <1>1, <1>5, <2>1 DEF ColumnsFold
<1>8. ASSUME NEW k \in 1 .. n PROVE f[1 .. k] = f[1 .. k - 1] + Columns[words[k]] + 1
  <2>9. k \in Nat /\ k >= 1 /\ k <= n BY <1>1
  <2>8. k \in 1 .. k /\ 1 .. k \in SUBSET (1 .. n) BY <1>1, <2>9
  <2>1. k \in 1 .. k /\ 1 .. k # {} /\ k \in Nat /\ 1 .. k \in SUBSET (1 .. n)
    BY <2>8, <2>9
  <2>2. Max(1 .. k) = k BY <2>1, MaxOfInterval
  <2>3. (1 .. k) \ {k} = 1 .. k - 1 BY <2>1
  <2>4. f[1 .. k] = f[(1 .. k) \ {Max(1 .. k)}] + Columns[words[Max(1 .. k)]] + 1
    BY <1>1, <1>5, <2>1 DEF ColumnsFold
  <2> QED BY <2>2, <2>3, <2>4
<1>9. T = {}
  <2>1. SUFFICES ASSUME T # {} PROVE FALSE OBVIOUS
  <2>2. PICK k \in T : \A m \in T : k <= m BY <2>1, LeastProperties
  <2>3. k \in Nat /\ k <= n /\ f[1 .. k] \notin Nat BY <2>2
  <2>4. k # 0 BY <1>7, <2>3
  <2>5. k - 1 \in Nat /\ k - 1 <= n /\ ~ (k <= k - 1) /\ k \in 1 .. n BY <1>1, <2>3, <2>4
  <2>6. f[1 .. k - 1] \in Nat BY <2>2, <2>5
  <2>7. words[k] \in Word BY <1>1, <2>5
  <2> QED BY <1>2, <1>8, <2>3, <2>5, <2>6, <2>7
<1>10. \A k \in 0 .. n : f[1 .. k] \in Nat BY <1>1, <1>9
<1>11. Sums(h, words)
  <2>1. h \in [0 .. n -> Nat] BY <1>10
  <2>2. h[0] = 0 BY <1>1, <1>7
  <2>3. ASSUME NEW k \in 1 .. n PROVE h[k] = h[k - 1] + Columns[words[k]] + 1
    <3>1. k \in 0 .. n /\ k - 1 \in 0 .. n BY <1>1
    <3> QED BY <1>8, <3>1
  <2> HIDE DEF h
  <2> QED BY <2>1, <2>2, <2>3 DEF Sums
<1>12. h[n] = f[1 .. n] BY <1>1
<1> HIDE DEF h
<1> QED BY <1>6, <1>11, <1>12

LEMMA TextColumnsType ==
  ASSUME NEW words \in Seq(Word)
  PROVE  TextColumns(words) \in Nat
<1>1. PICK h : /\ Sums(h, words)
               /\ TextColumns(words) = h[Len(words)] - (IF words = <<>> THEN 0 ELSE 1)
  BY TextColumnsSum
<1>2. PICK n \in Nat : n = Len(words) BY LenProperties
<1>3. h[n] \in Nat BY <1>1, <1>2 DEF Sums
<1>4. CASE words = <<>> BY <1>1, <1>2, <1>3, <1>4
<1>5. CASE words # <<>>
  <2>1. n # 0 BY <1>2, <1>5, EmptySeq
  <2>2. n \in 1 .. n /\ n - 1 \in 0 .. n BY <1>2, <2>1
  <2>3. words[n] \in Word BY <1>2, <2>2, ElementOfSeq
  <2>4. Columns[words[n]] \in Nat /\ h[n - 1] \in Nat
    BY <1>1, <1>2, <2>2, <2>3, WordAssumption DEF Sums
  <2>5. h[n] = h[n - 1] + Columns[words[n]] + 1 BY <1>1, <1>2, <2>2 DEF Sums
  <2> QED BY <1>1, <1>2, <1>5, <2>4, <2>5
<1> QED BY <1>4, <1>5

\* Side by side, two texts take one column more than each by itself.
LEMMA TextColumnsConcat ==
  ASSUME NEW u \in Seq(Word), NEW v \in Seq(Word)
  PROVE  TextColumns(u \o v) <= TextColumns(u) + 1 + TextColumns(v)
<1>1. PICK m \in Nat, n \in Nat : m = Len(u) /\ n = Len(v) BY LenProperties
<1>2. /\ u \o v \in Seq(Word) /\ Len(u \o v) = m + n
      /\ \A k \in 1 .. m + n : (u \o v)[k] = IF k <= m THEN u[k] ELSE v[k - m]
  BY <1>1, ConcatProperties
<1>3. PICK f : /\ Sums(f, u) /\ TextColumns(u) = f[m] - (IF u = <<>> THEN 0 ELSE 1)
  BY <1>1, TextColumnsSum
<1>4. PICK g : /\ Sums(g, v) /\ TextColumns(v) = g[n] - (IF v = <<>> THEN 0 ELSE 1)
  BY <1>1, TextColumnsSum
<1>5. PICK h : /\ Sums(h, u \o v)
               /\ TextColumns(u \o v) = h[m + n] - (IF u \o v = <<>> THEN 0 ELSE 1)
  BY <1>2, TextColumnsSum
<1> DEFINE Value(k) == IF k <= m THEN f[k] ELSE f[m] + g[k - m]
           T == {k \in Nat : k <= m + n /\ h[k] # Value(k)}
<1>6. /\ f[0] = 0 /\ g[0] = 0 /\ h[0] = 0
      /\ \A k \in 0 .. m : f[k] \in Nat
      /\ \A k \in 0 .. n : g[k] \in Nat
      /\ \A k \in 1 .. m : f[k] = f[k - 1] + Columns[u[k]] + 1
      /\ \A k \in 1 .. n : g[k] = g[k - 1] + Columns[v[k]] + 1
      /\ \A k \in 1 .. m + n : h[k] = h[k - 1] + Columns[(u \o v)[k]] + 1
  BY <1>1, <1>2, <1>3, <1>4, <1>5 DEF Sums
<1>7. T = {}
  <2>1. SUFFICES ASSUME T # {} PROVE FALSE OBVIOUS
  <2>2. PICK k \in T : \A x \in T : k <= x BY <2>1, LeastProperties
  <2>3. k \in Nat /\ k <= m + n /\ h[k] # Value(k) BY <2>2
  <2>4. k # 0 BY <1>6, <2>3
  <2>5. k - 1 \in Nat /\ k - 1 <= m + n /\ ~ (k <= k - 1) /\ k \in 1 .. m + n
    BY <2>3, <2>4
  <2>6. h[k - 1] = Value(k - 1) BY <2>2, <2>5
  <2>7. h[k] = h[k - 1] + Columns[(u \o v)[k]] + 1 BY <1>6, <2>5
  <2>8. CASE k <= m
    <3>1. k \in 1 .. m /\ k - 1 <= m BY <2>5, <2>8
    <3>2. (u \o v)[k] = u[k] BY <1>2, <2>5, <2>8
    <3>3. f[k] = f[k - 1] + Columns[u[k]] + 1 BY <1>6, <3>1
    <3> QED BY <2>3, <2>6, <2>7, <2>8, <3>1, <3>2, <3>3
  <2>9. CASE ~ (k <= m)
    <3>1. k - m \in 1 .. n /\ (k - m) - 1 = (k - 1) - m /\ (k - m) - 1 \in 0 .. n
      BY <2>5, <2>9
    <3>2. (u \o v)[k] = v[k - m] BY <1>2, <2>5, <2>9
    <3>3. g[k - m] = g[(k - m) - 1] + Columns[v[k - m]] + 1 BY <1>6, <3>1
    <3>4. Value(k - 1) = f[m] + g[(k - m) - 1]
      <4>1. CASE k - 1 <= m
        <5>1. k - 1 = m /\ (k - m) - 1 = 0 BY <2>5, <2>9, <4>1
        <5>2. f[m] \in Nat BY <1>6
        <5> QED BY <1>6, <4>1, <5>1, <5>2
      <4>2. CASE ~ (k - 1 <= m) BY <3>1, <4>2
      <4> QED BY <4>1, <4>2
    <3>5. Columns[v[k - m]] \in Nat BY <1>1, <3>1, ElementOfSeq, WordAssumption
    <3>6. f[m] \in Nat /\ g[(k - m) - 1] \in Nat BY <1>6, <3>1
    <3>7. h[k] = f[m] + g[k - m] BY <2>6, <2>7, <3>2, <3>3, <3>4, <3>5, <3>6
    <3> QED BY <2>3, <2>9, <3>7
  <2> QED BY <2>8, <2>9
<1>8. h[m + n] = f[m] + g[n]
  <2>1. m + n \in Nat /\ m + n <= m + n BY <1>1
  <2>2. h[m + n] = Value(m + n) BY <1>7, <2>1
  <2>3. f[m] \in Nat /\ g[n] \in Nat BY <1>6
  <2>4. CASE n = 0 BY <1>6, <2>2, <2>3, <2>4
  <2>5. CASE n # 0
    <3>1. ~ (m + n <= m) /\ (m + n) - m = n BY <2>5
    <3> QED BY <2>2, <3>1
  <2> QED BY <2>4, <2>5
<1>9. f[m] \in Nat /\ g[n] \in Nat BY <1>6
<1>10. u = <<>> => f[m] = 0 BY <1>1, <1>6, EmptySeq
<1>11. v = <<>> => g[n] = 0 BY <1>1, <1>6, EmptySeq
<1>12. u \o v = <<>> <=> u = <<>> /\ v = <<>> BY ConcatEqualIffEmpty
<1>13. PICK a \in Nat, b \in Nat : a = f[m] /\ b = g[n] BY <1>9
<1>14. PICK x : x = IF u = <<>> THEN 0 ELSE 1 OBVIOUS
<1>15. PICK y : y = IF v = <<>> THEN 0 ELSE 1 OBVIOUS
<1>16. PICK z : z = IF u \o v = <<>> THEN 0 ELSE 1 OBVIOUS
<1>17. /\ x \in {0, 1} /\ y \in {0, 1} /\ z \in {0, 1}
       /\ z = 0 <=> x = 0 /\ y = 0
       /\ x = 0 => a = 0
       /\ y = 0 => b = 0
  BY <1>10, <1>11, <1>12, <1>13, <1>14, <1>15, <1>16
<1>18. TextColumns(u) = a - x /\ TextColumns(v) = b - y /\ TextColumns(u \o v) = (a + b) - z
  BY <1>3, <1>4, <1>5, <1>8, <1>13, <1>14, <1>15, <1>16, Zenon
<1>19. /\ x \in Nat /\ y \in Nat /\ z \in Nat /\ x <= 1 /\ y <= 1
       /\ z = 1 \/ (x = 0 /\ y = 0 /\ z = 0)
  BY <1>17
<1>20. (a + b) - z <= (a - x) + 1 + (b - y) BY <1>19
<1> QED BY <1>18, <1>20, Zenon

-----------------------------------------------------------------------------
(* Paragraphs and the lines they take.                                     *)

LEMMA ParagraphEndBounds ==
  ASSUME NEW lines \in Seq(BodyLine), NEW s \in 1 .. Len(lines)
  PROVE  LET e == ParagraphEnd(lines, s)
         IN  /\ e \in s + 1 .. Len(lines) + 1
             /\ \A k \in s + 1 .. e - 1 : lines[k].kind = "prose"
<1>1. Len(lines) \in Nat BY LenProperties
<1>2. ParagraphEnds(lines, s) \in SUBSET Nat BY <1>1 DEF ParagraphEnds
<1>3. Len(lines) + 1 \in ParagraphEnds(lines, s) BY <1>1 DEF ParagraphEnds
<1>4. ParagraphEnd(lines, s) \in ParagraphEnds(lines, s)
      /\ \A m \in ParagraphEnds(lines, s) : ParagraphEnd(lines, s) <= m
  BY <1>2, <1>3, LeastProperties DEF ParagraphEnd
<1>5. PICK e \in s + 1 .. Len(lines) + 1 :
        e = ParagraphEnd(lines, s) /\ \A m \in ParagraphEnds(lines, s) : e <= m
  BY <1>4 DEF ParagraphEnds
<1>6. ASSUME NEW k \in s + 1 .. e - 1 PROVE lines[k].kind = "prose"
  <2>1. k \in s + 1 .. Len(lines) + 1 /\ ~ (e <= k) BY <1>1, <1>5
  <2>2. k \notin ParagraphEnds(lines, s) BY <1>5, <2>1
  <2> QED BY <2>1, <2>2 DEF ParagraphEnds
<1> QED BY <1>5, <1>6

LEMMA GlueIsSeq ==
  ASSUME NEW words \in Seq(Word), NEW trail
  PROVE  IsSeq(Glue(words, trail))
<1>1. Len(words) \in Nat BY LenProperties
<1>2. IsFiniteSet(AtomStarts(words, trail))
  <2>1. IsFiniteSet(1 .. Len(words)) BY <1>1, FS_Interval
  <2> QED BY <2>1, FS_Subset DEF AtomStarts
<1>3. Cardinality(AtomStarts(words, trail)) \in Nat BY <1>2, FS_CardinalityType
<1> DEFINE count == Cardinality(AtomStarts(words, trail))
           atom(n) == SubSeq(words, Nth(AtomStarts(words, trail), n),
                             IF n = count THEN Len(words)
                             ELSE Nth(AtomStarts(words, trail), n + 1) - 1)
           S == {atom(n) : n \in 1 .. count}
           g == [n \in 1 .. count |-> atom(n)]
<1>4. Glue(words, trail) = g BY DEF Glue
<1>5. count \in Nat BY <1>3
<1>6. g \in [1 .. count -> S] OBVIOUS
<1> HIDE DEF count, S, g
<1>7. g \in Seq(S) BY <1>5, <1>6, SeqDef
<1>8. Len(g) \in Nat /\ g \in [1 .. Len(g) -> S] BY <1>7, LenProperties
<1> QED BY <1>4, <1>8 DEF IsSeq

Single(x) == <<x>>

LEMMA SingleType ==
  ASSUME NEW S, NEW x \in S
  PROVE  Single(x) \in Seq(S) /\ Len(Single(x)) = 1 /\ Single(x)[1] = x
BY DEF Single

JoinedText == [words : Seq(Word), pad : Nat, trail : Nat]

LEMMA LineTextType ==
  ASSUME NEW line \in BodyLine
  PROVE  LineText(line) \in JoinedText /\ LineText(line).words = line.words
<1>1. line.words \in Seq(Word) /\ line.pad \in Nat /\ line.trail \in Nat BY DEF BodyLine
<1>2. PICK isBare \in BOOLEAN : isBare = (Len(line.words) = DescriptionOffset(line.words))
  OBVIOUS
<1>3. LineText(line) = [words |-> line.words, pad |-> IF isBare THEN 0 ELSE line.pad,
                        trail |-> line.trail + (IF isBare THEN line.pad ELSE 0)]
  BY <1>2 DEF LineText
<1> QED BY <1>1, <1>3 DEF JoinedText

\* Two texts with words make one with words.
LEMMA FuseEndsType ==
  ASSUME NEW u \in Seq(Word), NEW v \in Seq(Word), u # <<>>, v # <<>>
  PROVE  FuseEnds(u, v) \in Seq(Word) /\ FuseEnds(u, v) # <<>>
<1>1. PICK n \in Nat \ {0} : n = Len(u) BY EmptySeq
<1>2. u[n] \in Word
  <2>1. n \in 1 .. n BY <1>1
  <2> QED BY <1>1, <2>1, ElementOfSeq
<1>3. Head(v) \in Word /\ Tail(v) \in Seq(Word) BY HeadTailProperties
<1>4. PICK w \in Word : w = Fused[<<Last(u), Head(v)>>]
  <2>1. Last(u) = u[n] BY <1>1 DEF Last
  <2>2. <<Last(u), Head(v)>> \in Word \X Word BY <1>2, <1>3, <2>1
  <2> QED BY <2>2, WordAssumption
<1>5. PICK front \in Seq(Word) : front = Front(u)
  <2>1. n - 1 \in 0 .. Len(u) BY <1>1
  <2>2. SubSeq(u, 1, n - 1) \in Seq(Word) BY <2>1, PrefixProperties
  <2> QED BY <1>1, <2>2 DEF Front
<1>6. PICK one \in Seq(Word) : one = <<w>> /\ Len(one) = 1
  <2>1. Single(w) \in Seq(Word) /\ Len(Single(w)) = 1 BY <1>4, SingleType
  <2> QED BY <2>1 DEF Single
<1>7. front \o one \in Seq(Word) /\ Len(front \o one) = Len(front) + 1
  BY <1>5, <1>6, ConcatProperties
<1>8. front \o one # <<>>
  <2>1. Len(front) \in Nat BY LenProperties
  <2>2. Len(front \o one) # 0 BY <1>7, <2>1
  <2> QED BY <2>2, EmptySeq
<1>9. PICK head \in Seq(Word) : head = front \o one /\ head # <<>> BY <1>7, <1>8
<1>10. PICK tail \in Seq(Word) : tail = Tail(v) BY <1>3
<1>11. head \o tail \in Seq(Word) /\ head \o tail # <<>>
  BY <1>9, ConcatProperties, ConcatEqualIffEmpty
<1>12. FuseEnds(u, v) = head \o tail BY <1>4, <1>5, <1>6, <1>9, <1>10 DEF FuseEnds
<1> QED BY <1>11, <1>12

\* One line more loses no words, and where it is spaced keeps them all.
LEMMA JoinProperties ==
  ASSUME NEW joined \in JoinedText, NEW line \in BodyLine, NEW space \in BOOLEAN
  PROVE  LET longer == Join(joined, line, space)
         IN  /\ longer \in JoinedText
             /\ longer.words = <<>> => joined.words = <<>> /\ line.words = <<>>
             /\ space \/ joined.words = <<>> => longer.words = joined.words \o line.words
<1>1. /\ joined.words \in Seq(Word) /\ joined.pad \in Nat /\ joined.trail \in Nat
  BY DEF JoinedText
<1>2. line.words \in Seq(Word) BY DEF BodyLine
<1>3. PICK next \in JoinedText : next = LineText(line) /\ next.words = line.words
  BY LineTextType
<1>4. PICK gap \in Nat : gap = joined.trail + (IF space THEN 1 ELSE 0) /\ (space => gap # 0)
  BY <1>1
<1>5. PICK kept : kept = IF Len(joined.words) = DescriptionOffset(joined.words)
                         THEN gap - 1 ELSE 0
  OBVIOUS
<1>6. PICK longer : longer = Join(joined, line, space) OBVIOUS
<1>7. CASE line.words = <<>>
  <2>1. longer = joined BY <1>6, <1>7 DEF Join
  <2>2. joined.words \o <<>> = joined.words BY <1>1, ConcatEmptySeq
  <2> QED BY <1>6, <1>7, <2>1, <2>2
<1>8. CASE line.words # <<>> /\ joined.words = <<>>
  <2>1. longer = next BY <1>3, <1>6, <1>8 DEF Join
  <2>2. <<>> \o line.words = line.words BY <1>2, ConcatEmptySeq
  <2> QED BY <1>3, <1>6, <1>8, <2>1, <2>2
<1>9. CASE line.words # <<>> /\ joined.words # <<>> /\ gap = 0
  <2>1. PICK words \in Seq(Word) : words = FuseEnds(joined.words, line.words) /\ words # <<>>
    BY <1>1, <1>2, <1>9, FuseEndsType
  <2>2. longer = [next EXCEPT !.words = words, !.pad = joined.pad]
    BY <1>3, <1>4, <1>6, <1>9, <2>1 DEF Join
  <2>3. longer \in JoinedText /\ longer.words = words BY <1>1, <1>3, <2>1, <2>2 DEF JoinedText
  <2> QED BY <1>4, <1>6, <1>9, <2>1, <2>3
<1>10. CASE line.words # <<>> /\ joined.words # <<>> /\ gap # 0
  <2>1. kept \in Nat BY <1>4, <1>5, <1>10
  <2>2. PICK words \in Seq(Word) : words = joined.words \o line.words /\ words # <<>>
    <3>1. PICK u \in Seq(Word), v \in Seq(Word) : u = joined.words /\ v = line.words
      BY <1>1, <1>2
    <3>2. u \o v \in Seq(Word) BY <3>1, ConcatProperties
    <3>3. u \o v # <<>> BY <1>10, <3>1, ConcatEqualIffEmpty
    <3> QED BY <3>1, <3>2, <3>3
  <2>3. longer = [next EXCEPT !.words = words, !.pad = joined.pad + kept]
    BY <1>3, <1>4, <1>5, <1>6, <1>10, <2>2 DEF Join
  <2>4. joined.pad + kept \in Nat BY <1>1, <2>1
  <2>5. longer \in JoinedText /\ longer.words = words BY <1>3, <2>2, <2>3, <2>4 DEF JoinedText
  <2> QED BY <1>6, <2>2, <2>5
<1> QED BY <1>7, <1>8, <1>9, <1>10

JoinedFold(g, lines, s, n) ==
  g = [S \in SUBSET DOMAIN [k \in 1 .. n |-> s + k - 1] |->
         IF S = {} THEN Unjoined
         ELSE Join(g[S \ {Max(S)}], lines[[k \in 1 .. n |-> s + k - 1][Max(S)]],
                   HasJoinSpace(lines, s, [k \in 1 .. n |-> s + k - 1][Max(S)]))]

\* What has been joined behind each of the first n lines from s.
Joins(h, lines, s, n) ==
  /\ h \in [0 .. n -> JoinedText]
  /\ h[0] = Unjoined
  /\ \A k \in 1 .. n :
       h[k] = Join(h[k - 1], lines[s + k - 1], HasJoinSpace(lines, s, s + k - 1))

LEMMA UnjoinedType == Unjoined \in JoinedText /\ Unjoined.words = <<>>
<1>1. <<>> \in Seq(Word) BY EmptySeq
<1> QED BY <1>1 DEF Unjoined, JoinedText

LEMMA JoinedInTurn ==
  ASSUME NEW lines \in Seq(BodyLine), NEW s \in 1 .. Len(lines),
         NEW e \in s + 1 .. Len(lines) + 1
  PROVE  \E h : Joins(h, lines, s, e - s) /\ Joined(lines, s, e) = h[e - s]
<1> DEFINE n == e - s
           places == [k \in 1 .. n |-> s + k - 1]
           C == s .. e - 1
           step == [p \in JoinedText \X C |-> Join(p[1], lines[p[2]], HasJoinSpace(lines, s, p[2]))]
           f == CHOOSE g : JoinedFold(g, lines, s, n)
<1>1. n \in Nat /\ s \in Nat /\ e \in Nat /\ Len(lines) \in Nat BY LenProperties
<1>2. DOMAIN places = 1 .. n /\ places \in [1 .. n -> C]
      /\ \A k \in 1 .. n : places[k] = s + k - 1
  BY <1>1
<1>3. ASSUME NEW state \in JoinedText, NEW k \in C
      PROVE  Join(state, lines[k], HasJoinSpace(lines, s, k)) \in JoinedText
  <2>1. k \in 1 .. Len(lines) BY <1>1
  <2>2. lines[k] \in BodyLine BY <2>1, ElementOfSeq
  <2>3. HasJoinSpace(lines, s, k) \in BOOLEAN BY DEF HasJoinSpace
  <2> QED BY <2>2, <2>3, JoinProperties
<1>4. step \in [JoinedText \X C -> JoinedText] BY <1>3
<1>5. \E g : JoinedFold(g, lines, s, n)
  <2>1. ASSUME NEW state \in JoinedText, NEW k \in C
        PROVE  step[<<state, k>>] = Join(state, lines[k], HasJoinSpace(lines, s, k))
    OBVIOUS
  <2>2. PICK g : Folds(g, n, JoinedText, Unjoined, step, places)
    <3> HIDE DEF step, n, places, C
    <3> QED BY <1>1, <1>2, <1>4, UnjoinedType, FoldExists
  <2> HIDE DEF step, C
  <2>3. ASSUME NEW S \in SUBSET (1 .. n)
        PROVE  g[S] = IF S = {} THEN Unjoined
                      ELSE Join(g[S \ {Max(S)}], lines[places[Max(S)]],
                                HasJoinSpace(lines, s, places[Max(S)]))
    <3> HIDE DEF n, places
    <3>1. g[S] = IF S = {} THEN Unjoined ELSE step[<<g[S \ {Max(S)}], places[Max(S)]>>]
      BY <2>2 DEF Folds
    <3>2. CASE S # {}
      <4>1. Max(S) \in 1 .. n BY <1>1, <3>2, MaxProperties
      <4>2. places[Max(S)] \in C BY <1>2, <4>1
      <4>3. g[S \ {Max(S)}] \in JoinedText BY <2>2 DEF Folds
      <4> QED BY <2>1, <3>1, <3>2, <4>2, <4>3
    <3> QED BY <3>1, <3>2
  <2>4. g = [S \in SUBSET (1 .. n) |-> g[S]] BY <2>2 DEF Folds
  <2>5. JoinedFold(g, lines, s, n)
    <3> HIDE DEF n, places
    <3>1. g = [S \in SUBSET DOMAIN places |->
                 IF S = {} THEN Unjoined
                 ELSE Join(g[S \ {Max(S)}], lines[places[Max(S)]],
                           HasJoinSpace(lines, s, places[Max(S)]))]
      BY <1>2, <2>3, <2>4
    <3> QED BY <3>1 DEF JoinedFold, places
  <2> QED BY <2>5
<1>6. JoinedFold(f, lines, s, n) BY <1>5
<1>7. Joined(lines, s, e) = f[1 .. n]
  BY <1>2 DEF Joined, FoldLeft, MapThenFoldSet, JoinedFold
<1> HIDE DEF f, step
<1>8. ASSUME NEW S \in SUBSET (1 .. n)
      PROVE  f[S] = IF S = {} THEN Unjoined
                    ELSE Join(f[S \ {Max(S)}], lines[places[Max(S)]],
                              HasJoinSpace(lines, s, places[Max(S)]))
  BY <1>2, <1>6 DEF JoinedFold
<1> HIDE DEF places
<1>9. f[1 .. 0] = Unjoined
  <2>1. 1 .. 0 = {} /\ {} \in SUBSET (1 .. n) OBVIOUS
  <2> QED BY <1>8, <2>1
<1>10. ASSUME NEW k \in 1 .. n
       PROVE  f[1 .. k] = Join(f[1 .. k - 1], lines[s + k - 1], HasJoinSpace(lines, s, s + k - 1))
  <2>1. k \in Nat /\ k >= 1 /\ k <= n BY <1>1
  <2>2. k \in 1 .. k /\ 1 .. k \in SUBSET (1 .. n) BY <1>1, <2>1
  <2>3. Max(1 .. k) = k BY <2>1, <2>2, MaxOfInterval
  <2>4. (1 .. k) \ {k} = 1 .. k - 1 BY <2>1
  <2> QED BY <1>2, <1>8, <2>2, <2>3, <2>4
<1> DEFINE T == {k \in Nat : k <= n /\ f[1 .. k] \notin JoinedText}
<1>11. T = {}
  <2> SUFFICES ASSUME T # {} PROVE FALSE OBVIOUS
  <2>1. T \in SUBSET Nat OBVIOUS
  <2>2. PICK k \in T : \A m \in T : k <= m BY <2>1, LeastProperties
  <2>3. k \in Nat /\ k <= n /\ f[1 .. k] \notin JoinedText BY <2>2
  <2>4. k # 0 BY <1>9, <2>3, UnjoinedType
  <2>5. k - 1 \in Nat /\ k - 1 <= n /\ ~ (k <= k - 1) /\ k \in 1 .. n BY <1>1, <2>3, <2>4
  <2>6. f[1 .. k - 1] \in JoinedText BY <2>2, <2>5
  <2>7. s + k - 1 \in C BY <1>1, <2>5
  <2> QED BY <1>3, <1>10, <2>3, <2>5, <2>6, <2>7
<1>12. \A k \in 0 .. n : f[1 .. k] \in JoinedText BY <1>1, <1>11
<1> DEFINE h == [k \in 0 .. n |-> f[1 .. k]]
<1>13. Joins(h, lines, s, n)
  <2>1. h \in [0 .. n -> JoinedText] BY <1>12
  <2>2. h[0] = Unjoined BY <1>1, <1>9
  <2>3. ASSUME NEW k \in 1 .. n
        PROVE  h[k] = Join(h[k - 1], lines[s + k - 1], HasJoinSpace(lines, s, s + k - 1))
    <3>1. k \in 0 .. n /\ k - 1 \in 0 .. n BY <1>1
    <3> QED BY <1>10, <3>1
  <2> HIDE DEF h
  <2> QED BY <2>1, <2>2, <2>3 DEF Joins
<1>14. h[n] = f[1 .. n] BY <1>1
<1> HIDE DEF h
<1> QED BY <1>7, <1>13, <1>14

LEMMA JoinedIsText ==
  ASSUME NEW lines \in Seq(BodyLine), NEW s \in 1 .. Len(lines),
         NEW e \in s + 1 .. Len(lines) + 1
  PROVE  Joined(lines, s, e) \in JoinedText
<1>1. PICK h : Joins(h, lines, s, e - s) /\ Joined(lines, s, e) = h[e - s] BY JoinedInTurn
<1>2. e - s \in 0 .. e - s BY LenProperties
<1> QED BY <1>1, <1>2 DEF Joins

LEMMA RestIsText ==
  ASSUME NEW isTag \in BOOLEAN, NEW words \in Seq(Word)
  PROVE  Rest(isTag, words) \in Seq(Word)
<1> DEFINE n == FrozenCount(isTag, words)
<1>1. Len(words) \in Nat BY LenProperties
<1>2. CASE words = <<>>
  <2>1. n = 0 /\ Len(words) = 0 BY <1>2, EmptySeq DEF FrozenCount
  <2>2. SubSeq(words, n + 1, Len(words)) = <<>> BY <2>1, SubSeqEmpty
  <2> QED BY <2>2, EmptySeq DEF Rest
<1>3. CASE words # <<>>
  <2>1. Len(words) >= 1 BY <1>1, <1>3, EmptySeq
  <2>2. n \in 0 .. Len(words) BY <1>1, <1>3, <2>1 DEF FrozenCount, DescriptionOffset
  <2> HIDE DEF n
  <2>3. n + 1 \in 1 .. Len(words) + 1 /\ Len(words) \in (n + 1) - 1 .. Len(words)
    BY <1>1, <2>2
  <2>4. SubSeq(words, n + 1, Len(words)) \in Seq(Word) BY <2>3, SubSeqProperties
  <2> QED BY <2>4 DEF Rest, n
<1> QED BY <1>2, <1>3

LEMMA ParagraphShape ==
  ASSUME NEW j \in FillJob, NEW s \in 1 .. Len(j.lines)
  PROVE  LET p == Paragraph(j, s)
         IN  /\ p.start = s
             /\ p.end \in s + 1 .. Len(j.lines) + 1
             /\ p.kind \in {"tag", "prose"}
             /\ IsSeq(p.atoms)
             /\ p.prefixFirst = IF s = 1 THEN j.prefixFirst ELSE j.prefix
             /\ p.closer = CloserColumns(j, p.end)
<1>1. j.lines \in Seq(BodyLine) BY DEF FillJob
<1>2. PICK e : e = ParagraphEnd(j.lines, s) OBVIOUS
<1>3. e \in s + 1 .. Len(j.lines) + 1 BY <1>1, <1>2, ParagraphEndBounds
<1>4. PICK joined \in JoinedText : joined = Joined(j.lines, s, e) BY <1>1, <1>3, JoinedIsText
<1>5. PICK isTag \in BOOLEAN : isTag = (j.lines[s].kind = "tag") OBVIOUS
<1>6. PICK rest \in Seq(Word) : rest = Rest(isTag, joined.words)
  BY <1>4, <1>5, RestIsText DEF JoinedText
<1>7. IsSeq(Glue(rest, joined.trail)) BY <1>6, GlueIsSeq
<1>8. PICK p : p = Paragraph(j, s) OBVIOUS
<1>9. /\ p.start = s
      /\ p.end = e
      /\ p.kind \in {"tag", "prose"}
      /\ p.atoms = Glue(rest, joined.trail)
      /\ p.prefixFirst = IF s = 1 THEN j.prefixFirst ELSE j.prefix
      /\ p.closer = CloserColumns(j, e)
  BY <1>2, <1>4, <1>5, <1>6, <1>8 DEF Paragraph
<1> QED BY <1>3, <1>7, <1>8, <1>9

\* The words of the first n lines of a body, or of a block.
BodyWords(lines, n) == FlattenSeq([k \in 1 .. n |-> lines[k].words])

LEMMA PiecesType ==
  ASSUME NEW L \in {BodyLine, TextLine}, NEW lines \in Seq(L), NEW n \in 0 .. Len(lines)
  PROVE  LET pieces == [k \in 1 .. n |-> lines[k].words]
         IN  pieces \in Seq(Seq(Word)) /\ Len(pieces) = n
<1> DEFINE pieces == [k \in 1 .. n |-> lines[k].words]
<1>1. Len(lines) \in Nat /\ n \in Nat BY LenProperties
<1>2. \A k \in 1 .. n : lines[k].words \in Seq(Word)
  <2> TAKE k \in 1 .. n
  <2>1. k \in 1 .. Len(lines) BY <1>1
  <2>2. lines[k] \in L BY <2>1, ElementOfSeq
  <2>3. CASE L = BodyLine BY <2>2, <2>3 DEF BodyLine
  <2>4. CASE L = TextLine BY <2>2, <2>4 DEF TextLine
  <2> QED BY <2>3, <2>4
<1>3. pieces \in [1 .. n -> Seq(Word)] BY <1>2
<1> HIDE DEF pieces
<1>4. pieces \in Seq(Seq(Word)) /\ Len(pieces) = n BY <1>1, <1>3, SeqOfMap, Zenon
<1> QED BY <1>4 DEF pieces

LEMMA BodyWordsType ==
  ASSUME NEW L \in {BodyLine, TextLine}, NEW lines \in Seq(L), NEW n \in 0 .. Len(lines)
  PROVE  BodyWords(lines, n) \in Seq(Word)
BY PiecesType, FlattenSeqType DEF BodyWords

LEMMA BodyWordsStep ==
  ASSUME NEW L \in {BodyLine, TextLine}, NEW lines \in Seq(L), NEW n \in 1 .. Len(lines)
  PROVE  BodyWords(lines, n) = BodyWords(lines, n - 1) \o lines[n].words
<1> DEFINE tt == [k \in 1 .. n |-> lines[k].words]
           ss == [k \in 1 .. n - 1 |-> lines[k].words]
<1>1. Len(lines) \in Nat BY LenProperties
<1>2. n \in 0 .. Len(lines) /\ n - 1 \in 0 .. Len(lines) BY <1>1
<1>3. tt \in Seq(Seq(Word)) /\ Len(tt) = n BY <1>2, PiecesType
<1>4. ss \in Seq(Seq(Word)) /\ Len(ss) = n - 1 BY <1>2, PiecesType
<1>5. \A k \in 1 .. n - 1 : tt[k] = ss[k] BY <1>1
<1>6. tt[n] = lines[n].words BY <1>1
<1>7. BodyWords(lines, n) = FlattenSeq(tt) /\ BodyWords(lines, n - 1) = FlattenSeq(ss)
  BY DEF BodyWords
<1> HIDE DEF tt, ss
<1>8. Len(tt) = Len(ss) + 1 BY <1>1, <1>3, <1>4
<1>9. FlattenSeq(tt) = FlattenSeq(ss) \o tt[Len(tt)]
  BY <1>3, <1>4, <1>5, <1>8, FlattenStep
<1> QED BY <1>3, <1>6, <1>7, <1>9

\* Concatenation under a name of its own, for the provers to regroup.
Beside(u, v) == u \o v

LEMMA BesideAssociates ==
  ASSUME NEW u \in Seq(Word), NEW v \in Seq(Word), NEW w \in Seq(Word)
  PROVE  /\ Beside(u, v) \in Seq(Word)
         /\ Beside(Beside(u, v), w) = Beside(u, Beside(v, w))
BY ConcatAssociative, ConcatProperties, SMTT(30) DEF Beside

\* What a paragraph joins: nothing if its lines have no words, and otherwise, if none
\* of them is without, what stands behind the lines before it.
LEMMA BodyWordsJoined ==
  ASSUME NEW lines \in Seq(BodyLine), NEW s \in 1 .. Len(lines),
         NEW e \in s + 1 .. Len(lines) + 1
  PROVE  /\ Joined(lines, s, e).words = <<>> => BodyWords(lines, e - 1) = BodyWords(lines, s - 1)
         /\ (\A k \in s .. e - 1 : lines[k].words # <<>>) =>
              BodyWords(lines, e - 1) = BodyWords(lines, s - 1) \o Joined(lines, s, e).words
<1>1. Len(lines) \in Nat /\ s \in Nat /\ e \in Nat /\ e - s \in Nat BY LenProperties
<1>2. PICK n \in Nat : n = e - s BY <1>1
<1>3. PICK h : Joins(h, lines, s, n) /\ Joined(lines, s, e) = h[n] BY <1>2, JoinedInTurn
<1>4. PICK front \in Seq(Word) : front = BodyWords(lines, s - 1)
  <2>1. s - 1 \in 0 .. Len(lines) BY <1>1
  <2> QED BY <2>1, BodyWordsType
<1>5. ASSUME NEW k \in 1 .. n
      PROVE  /\ h[k - 1] \in JoinedText /\ s + k - 1 \in 1 .. Len(lines)
             /\ BodyWords(lines, s + k - 1) = BodyWords(lines, s + (k - 1) - 1)
                                                \o lines[s + k - 1].words
             /\ lines[s + k - 1] \in BodyLine
             /\ h[k] = Join(h[k - 1], lines[s + k - 1], HasJoinSpace(lines, s, s + k - 1))
             /\ HasJoinSpace(lines, s, s + k - 1) \in BOOLEAN
  <2>1. k - 1 \in 0 .. n BY <1>2
  <2>2. h[k - 1] \in JoinedText BY <1>3, <2>1 DEF Joins
  <2>3. s + k - 1 \in 1 .. Len(lines) /\ (s + k - 1) - 1 = s + (k - 1) - 1 BY <1>1, <1>2
  <2>4. BodyWords(lines, s + k - 1) = BodyWords(lines, (s + k - 1) - 1)
                                        \o lines[s + k - 1].words
    BY <2>3, BodyWordsStep
  <2>5. lines[s + k - 1] \in BodyLine BY <2>3, ElementOfSeq
  <2> QED BY <1>3, <2>2, <2>3, <2>4, <2>5 DEF Joins, HasJoinSpace
<1>6. ASSUME NEW k \in 1 .. n
      PROVE  /\ h[k].words = <<>> => h[k - 1].words = <<>> /\ lines[s + k - 1].words = <<>>
             /\ HasJoinSpace(lines, s, s + k - 1) \/ h[k - 1].words = <<>> =>
                  h[k].words = h[k - 1].words \o lines[s + k - 1].words
  <2>1. PICK joined \in JoinedText, line \in BodyLine :
          joined = h[k - 1] /\ line = lines[s + k - 1]
    BY <1>5
  <2>2. PICK space \in BOOLEAN : space = HasJoinSpace(lines, s, s + k - 1) BY <1>5
  <2>3. h[k] = Join(joined, line, space) BY <1>5, <2>1, <2>2
  <2>4. PICK longer : longer = Join(joined, line, space) OBVIOUS
  <2>5. /\ longer.words = <<>> => joined.words = <<>> /\ line.words = <<>>
        /\ space \/ joined.words = <<>> => longer.words = joined.words \o line.words
    BY <2>4, JoinProperties
  <2> QED BY <2>1, <2>2, <2>3, <2>4, <2>5
<1>7. \A a, b \in Seq(Word) : (front \o a) \o b = front \o (a \o b)
  <2> TAKE a \in Seq(Word), b \in Seq(Word)
  <2>1. Beside(Beside(front, a), b) = Beside(front, Beside(a, b)) BY <1>4, BesideAssociates
  <2> QED BY <2>1 DEF Beside
<1> DEFINE Empty(k) == h[k].words = <<>> => BodyWords(lines, s + k - 1) = front
           T == {k \in Nat : k <= n /\ ~ Empty(k)}
<1>8. T = {}
  <2> SUFFICES ASSUME T # {} PROVE FALSE OBVIOUS
  <2>1. T \in SUBSET Nat OBVIOUS
  <2>2. PICK k \in T : \A m \in T : k <= m BY <2>1, LeastProperties
  <2>3. k \in Nat /\ k <= n /\ ~ Empty(k) BY <2>2
  <2>4. k # 0
    <3>1. s + 0 - 1 = s - 1 BY <1>1
    <3> QED BY <1>4, <2>3, <3>1
  <2>5. k - 1 \in Nat /\ k - 1 <= n /\ ~ (k <= k - 1) /\ k \in 1 .. n BY <1>2, <2>3, <2>4
  <2>6. Empty(k - 1) BY <2>2, <2>5
  <2>7. h[k].words = <<>> BY <2>3
  <2>8. h[k - 1].words = <<>> /\ lines[s + k - 1].words = <<>> BY <1>6, <2>5, <2>7
  <2>9. BodyWords(lines, s + (k - 1) - 1) = front BY <2>6, <2>8
  <2>10. front \o <<>> = front BY ConcatEmptySeq
  <2> QED BY <1>5, <2>3, <2>5, <2>8, <2>9, <2>10
<1> DEFINE Whole(k) == BodyWords(lines, s + k - 1) = front \o h[k].words
           U == {k \in Nat : k <= n /\ ~ Whole(k)}
<1>9. ASSUME \A k \in s .. e - 1 : lines[k].words # <<>>
      PROVE  U = {}
  <2> SUFFICES ASSUME U # {} PROVE FALSE OBVIOUS
  <2>1. U \in SUBSET Nat OBVIOUS
  <2>2. PICK k \in U : \A m \in U : k <= m BY <2>1, LeastProperties
  <2>3. k \in Nat /\ k <= n /\ ~ Whole(k) BY <2>2
  <2>4. k # 0
    <3>1. h[0].words = <<>> BY <1>3, UnjoinedType DEF Joins
    <3>2. front \o <<>> = front BY ConcatEmptySeq
    <3>3. s + 0 - 1 = s - 1 BY <1>1
    <3> QED BY <1>4, <2>3, <3>1, <3>2, <3>3
  <2>5. k - 1 \in Nat /\ k - 1 <= n /\ ~ (k <= k - 1) /\ k \in 1 .. n BY <1>2, <2>3, <2>4
  <2>6. Whole(k - 1) BY <2>2, <2>5
  <2>7. PICK space \in BOOLEAN : space = HasJoinSpace(lines, s, s + k - 1) BY <1>5, <2>5
  <2>8. space \/ h[k - 1].words = <<>>
    <3>1. CASE k = 1
      <4>1. k - 1 = 0 BY <3>1
      <4>2. h[k - 1] = Unjoined BY <1>3, <4>1 DEF Joins
      <4> QED BY <4>2, UnjoinedType
    <3>2. CASE k # 1
      <4>1. s + k - 1 > s /\ s + k - 1 \in s .. e - 1 /\ (s + k - 1) - 1 \in s .. e - 1
        BY <1>1, <1>2, <2>5, <3>2
      <4> QED BY <1>9, <2>7, <4>1 DEF HasJoinSpace
    <3> QED BY <3>1, <3>2
  <2>9. PICK a \in Seq(Word), b \in Seq(Word) : a = h[k - 1].words /\ b = lines[s + k - 1].words
    BY <1>5, <2>5 DEF JoinedText, BodyLine
  <2>10. h[k].words = a \o b BY <1>6, <2>5, <2>7, <2>8, <2>9
  <2>11. BodyWords(lines, s + k - 1) = (front \o a) \o b BY <1>5, <2>5, <2>6, <2>9
  <2>12. (front \o a) \o b = front \o (a \o b) BY <1>7
  <2> QED BY <2>3, <2>10, <2>11, <2>12
<1>10. s + n - 1 = e - 1 BY <1>1, <1>2
<1>11. Empty(n)
  <2>1. n \notin T BY <1>8
  <2> QED BY <2>1
<1>12. ASSUME \A k \in s .. e - 1 : lines[k].words # <<>> PROVE Whole(n)
  <2>1. n \notin U BY <1>9, <1>12
  <2> QED BY <2>1
<1> HIDE DEF Empty, Whole, T, U
<1> QED BY <1>3, <1>4, <1>10, <1>11, <1>12 DEF Empty, Whole

\* No line of a paragraph is without words where no filled line is.
LEMMA ParagraphWorded ==
  ASSUME NEW j \in FillJob, IsWorded(j.lines),
         NEW s \in 1 .. Len(j.lines), IsFilled(j.lines[s])
  PROVE  \A k \in s .. Paragraph(j, s).end - 1 : j.lines[k].words # <<>>
<1>1. j.lines \in Seq(BodyLine) BY DEF FillJob
<1>2. PICK e : e = ParagraphEnd(j.lines, s) OBVIOUS
<1>3. /\ e \in s + 1 .. Len(j.lines) + 1
      /\ \A k \in s + 1 .. e - 1 : j.lines[k].kind = "prose"
  BY <1>1, <1>2, ParagraphEndBounds
<1>4. Paragraph(j, s).end = e BY <1>2 DEF Paragraph
<1>5. ASSUME NEW k \in s .. e - 1 PROVE j.lines[k].words # <<>>
  <2>1. k \in 1 .. Len(j.lines) /\ (k = s \/ k \in s + 1 .. e - 1) BY <1>1, <1>3, LenProperties
  <2>2. IsFilled(j.lines[k]) BY <1>3, <2>1 DEF IsFilled
  <2> QED BY <2>1, <2>2 DEF IsWorded
<1> QED BY <1>4, <1>5

\* The frozen words and the rest are the words.
LEMMA FrozenAndRest ==
  ASSUME NEW isTag \in BOOLEAN, NEW words \in Seq(Word)
  PROVE  /\ Frozen(isTag, words) \in Seq(Word)
         /\ Frozen(isTag, words) \o Rest(isTag, words) = words
         /\ ~ isTag => Frozen(isTag, words) = <<>>
<1>1. PICK n \in Nat : n = Len(words) BY LenProperties
<1>2. PICK c : c = FrozenCount(isTag, words) OBVIOUS
<1>3. c \in 0 .. n /\ (~ isTag => c = 0)
  <2>1. CASE words = <<>> BY <1>1, <1>2, <2>1 DEF FrozenCount
  <2>2. CASE words # <<>>
    <3>1. n >= 1 BY <1>1, <2>2, EmptySeq
    <3> QED BY <1>1, <1>2, <2>2, <3>1 DEF FrozenCount, DescriptionOffset
  <2> QED BY <2>1, <2>2
<1>4. 1 \in 1 .. n + 1 /\ c \in 1 - 1 .. n /\ n \in c .. n BY <1>3
<1>5. SubSeq(words, 1, c) \in Seq(Word) BY <1>1, <1>3, PrefixProperties
<1>6. SubSeq(words, 1, c) \o SubSeq(words, c + 1, n) = SubSeq(words, 1, n)
  BY <1>1, <1>4, ConcatAdjacentSubSeq
<1>7. SubSeq(words, 1, n) = words BY <1>1, SubSeqFull
<1>8. ~ isTag => SubSeq(words, 1, c) = <<>> BY <1>3, SubSeqEmpty
<1> QED BY <1>1, <1>2, <1>5, <1>6, <1>7, <1>8 DEF Frozen, Rest

LEMMA ParagraphText ==
  ASSUME NEW j \in FillJob, NEW s \in 1 .. Len(j.lines)
  PROVE  LET p == Paragraph(j, s)
         IN  /\ p.lead \in Seq(Word) /\ p.atoms \in Seq(Seq(Word))
             /\ p.pad \in Nat /\ p.trail \in Nat /\ p.hang \in Nat
             /\ p.lead \o FlattenSeq(p.atoms) = Joined(j.lines, s, p.end).words
             /\ p.kind = "prose" => p.lead = <<>> /\ p.pad = 0 /\ p.trail = 0
             /\ p.kind = "tag" /\ p.atoms # <<>> =>
                  p.trail = 0 /\ p.hang = TextColumns(p.lead) + p.pad + 1
<1>1. j.lines \in Seq(BodyLine) BY DEF FillJob
<1>2. PICK e : e = ParagraphEnd(j.lines, s) OBVIOUS
<1>3. e \in s + 1 .. Len(j.lines) + 1 BY <1>1, <1>2, ParagraphEndBounds
<1>4. PICK joined \in JoinedText : joined = Joined(j.lines, s, e) BY <1>1, <1>3, JoinedIsText
<1>5. /\ joined.words \in Seq(Word)
      /\ joined.pad \in Nat /\ joined.trail \in Nat
  BY DEF JoinedText
<1>6. PICK isTag \in BOOLEAN : isTag = (j.lines[s].kind = "tag") OBVIOUS
<1>7. PICK lead \in Seq(Word) : lead = Frozen(isTag, joined.words) BY <1>5, <1>6, FrozenAndRest
<1>8. PICK rest \in Seq(Word) : rest = Rest(isTag, joined.words) BY <1>5, <1>6, RestIsText
<1>9. lead \o rest = joined.words BY <1>5, <1>7, <1>8, FrozenAndRest
<1>10. PICK gap \in Nat : gap = (IF rest = <<>> THEN joined.trail ELSE 1) BY <1>5
<1>11. PICK p : p = Paragraph(j, s) OBVIOUS
<1>12. /\ p.end = e /\ p.kind = (IF lead # <<>> THEN "tag" ELSE "prose") /\ p.lead = lead
       /\ p.pad = (IF lead # <<>> THEN joined.pad ELSE 0)
       /\ p.trail = (IF lead # <<>> /\ rest = <<>> THEN gap ELSE 0)
       /\ p.hang = (IF lead # <<>> THEN TextColumns(lead) + joined.pad + gap ELSE 0)
       /\ p.atoms = Glue(rest, joined.trail)
  BY <1>2, <1>4, <1>6, <1>7, <1>8, <1>10, <1>11 DEF Paragraph
<1>13. p.atoms \in Seq(Seq(Word)) /\ FlattenSeq(p.atoms) = rest BY <1>12, GlueKeepsWords
<1>14. rest = <<>> => p.atoms = <<>>
  <2> HAVE rest = <<>>
  <2>1. Len(rest) = 0 BY EmptySeq
  <2>2. AtomStarts(rest, joined.trail) = {} BY <2>1 DEF AtomStarts
  <2>3. Cardinality(AtomStarts(rest, joined.trail)) = 0 BY <2>2, FS_EmptySet
  <2>4. Glue(rest, joined.trail) = <<>> BY <2>3 DEF Glue
  <2> QED BY <1>12, <2>4
<1>15. TextColumns(lead) \in Nat BY TextColumnsType
<1>16. p.pad \in Nat /\ p.trail \in Nat /\ p.hang \in Nat BY <1>5, <1>12, <1>15
<1>17. p.kind = "tag" /\ p.atoms # <<>> => p.trail = 0 /\ p.hang = TextColumns(p.lead) + p.pad + 1
  <2> HAVE p.kind = "tag" /\ p.atoms # <<>>
  <2>1. lead # <<>> /\ rest # <<>> BY <1>12, <1>14
  <2>2. p.pad = joined.pad /\ p.trail = 0 /\ p.hang = TextColumns(lead) + joined.pad + 1
    BY <1>10, <1>12, <2>1
  <2> QED BY <1>12, <2>2
<1>18. p.kind = "prose" => p.lead = <<>> /\ p.pad = 0 /\ p.trail = 0 BY <1>12
<1>19. p.lead \o FlattenSeq(p.atoms) = Joined(j.lines, s, p.end).words BY <1>4, <1>9, <1>12, <1>13
<1> QED BY <1>11, <1>12, <1>13, <1>16, <1>17, <1>18, <1>19

\* A line ends after its first atom or later, and but for its first atom fits.
LEMMA LineEndBounds ==
  ASSUME NEW p, Len(p.atoms) \in Nat, NEW from \in 0 .. Len(p.atoms),
         NEW prefix, NEW width
  PROVE  LET e == FilledLineEnd(p, from, prefix, width)
         IN  /\ e \in from .. Len(p.atoms)
             /\ e = Len(p.atoms) \/ e > from
             /\ e > from + 1 => ~ IsWidthExceeded(p, from, e, prefix, width)
<1> DEFINE E == LineEnds(p, from, prefix, width)
           e == FilledLineEnd(p, from, prefix, width)
<1>1. E \in SUBSET Nat BY DEF LineEnds
<1>2. Len(p.atoms) \in E BY DEF LineEnds
<1>3. e \in E /\ \A y \in E : e <= y BY <1>1, <1>2, LeastProperties DEF FilledLineEnd
<1> HIDE DEF e
<1>4. e \in from .. Len(p.atoms) /\ (e = Len(p.atoms) \/ e > from) BY <1>3 DEF LineEnds
<1>5. ASSUME e > from + 1 PROVE ~ IsWidthExceeded(p, from, e, prefix, width)
  <2>1. e - 1 \in from .. Len(p.atoms) /\ e - 1 > from BY <1>4, <1>5
  <2>2. e - 1 \notin E BY <1>1, <1>3, <1>4
  <2>3. ~ IsWidthExceeded(p, from, (e - 1) + 1, prefix, width) BY <2>1, <2>2 DEF LineEnds
  <2>4. (e - 1) + 1 = e BY <1>4
  <2> QED BY <2>3, <2>4
<1> QED BY <1>4, <1>5 DEF e

-----------------------------------------------------------------------------
(* The inductive invariant.  Both passes walk the same positions: the      *)
(* first records each one it counts a line at, and the second is, after    *)
(* writing n lines, where the first was after counting n.                  *)

FilledAt(n) == IsFilled(job.lines[n])

\* Where a pass goes from the position q.
NextPosition(j, q) ==
  IF ~ IsFilled(j.lines[q.i])
  THEN [i |-> q.i + 1, atomIndex |-> 0, behind |-> q.behind]
  ELSE LET p == Paragraph(j, q.i)
           e == FilledLineEnd(p, q.atomIndex,
                              IF q.atomIndex = 0 THEN p.prefixFirst ELSE j.prefix, j.width)
       IN  IF e < Len(p.atoms)
           THEN [i |-> q.i, atomIndex |-> e, behind |-> q.behind]
           ELSE [i |-> p.end, atomIndex |-> 0, behind |-> q.behind + 1]

FirstPosition == [i |-> 1, atomIndex |-> 0, behind |-> 0]

\* Where the first pass is, and where it ends.
CountPosition == Position(IF atomIndex = 0 THEN Len(paragraphs) ELSE Len(paragraphs) - 1)
EndPosition == [i |-> Len(job.lines) + 1, atomIndex |-> 0, behind |-> Len(paragraphs)]

\* The k-th position of the first pass, counting the one it is at now.
Visited(k) ==
  IF k <= Len(counted) THEN counted[k]
  ELSE IF stage = "count" THEN CountPosition ELSE EndPosition

Shapes ==
  /\ job \in FillJob
  /\ IsSeq(paragraphs) /\ IsSeq(counted) /\ IsSeq(rebuilt)
  /\ Len(counted) = capacity

ParagraphsKnown ==
  \A n \in 1 .. Len(paragraphs) :
    /\ paragraphs[n].start \in 1 .. Len(job.lines)
    /\ FilledAt(paragraphs[n].start)
    /\ paragraphs[n] = Paragraph(job, paragraphs[n].start)

\* Inside a paragraph the pass has atoms left to place.
InParagraph ==
  atomIndex # 0 =>
    /\ i <= Len(job.lines) /\ FilledAt(i)
    /\ atomIndex < Len(Paragraph(job, i).atoms)
    /\ stage = "count" => Len(paragraphs) > 0 /\ paragraphs[Len(paragraphs)].start = i

CountedKnown ==
  \A k \in 1 .. Len(counted) :
    /\ counted[k].i \in 1 .. Len(job.lines) /\ counted[k].behind \in Nat
    /\ FilledAt(counted[k].i) =>
         /\ counted[k].behind < Len(paragraphs)
         /\ paragraphs[counted[k].behind + 1].start = counted[k].i

Walk ==
  /\ Visited(1) = FirstPosition
  /\ \A k \in 1 .. Len(counted) : Visited(k + 1) = NextPosition(job, Visited(k))

SecondPass ==
  IF stage = "count"
  THEN rebuilt = <<>> /\ paragraphIndex = 1
  ELSE /\ Len(rebuilt) <= Len(counted)
       /\ Position(paragraphIndex - 1) = Visited(Len(rebuilt) + 1)
       /\ Len(rebuilt) > 0 => i > 1 \/ atomIndex > 0
       /\ stage = "done" => i > Len(job.lines)

IInv ==
  /\ TypeOK /\ Shapes /\ ParagraphsKnown /\ InParagraph /\ CountedKnown /\ Walk
  /\ SecondPass /\ FilledLinesFit

-----------------------------------------------------------------------------
LEMMA EmptyIsSeq == IsSeq(<<>>) /\ Len(<<>>) = 0
  BY EmptySeq, LenProperties DEF IsSeq

LEMMA LinesOfJob ==
  ASSUME job \in FillJob
  PROVE  /\ job.lines \in Seq(BodyLine) /\ Len(job.lines) \in Nat
         /\ \A n \in 1 .. Len(job.lines) : job.lines[n].kind \in Kinds
<1>1. job.lines \in Seq(BodyLine) BY DEF FillJob
<1>2. \A n \in 1 .. Len(job.lines) : job.lines[n] \in BodyLine BY <1>1, ElementOfSeq
<1> QED BY <1>1, <1>2, LenProperties DEF BodyLine

LEMMA InitInvariant == FillInit => IInv
<1> SUFFICES ASSUME NEW j \in FillJob, FillStart(j) PROVE IInv BY DEF FillInit
<1> USE DEF FillStart
<1>1. Len(job.lines) \in Nat BY LinesOfJob
<1>2. TypeOK BY <1>1, EmptyIsSeq DEF TypeOK
<1>3. Shapes BY EmptyIsSeq DEF Shapes
<1>4. ParagraphsKnown BY EmptyIsSeq DEF ParagraphsKnown
<1>5. InParagraph BY DEF InParagraph
<1>6. CountedKnown BY EmptyIsSeq DEF CountedKnown
<1>7. Walk
  <2>1. Visited(1) = CountPosition BY EmptyIsSeq DEF Visited
  <2>2. CountPosition = FirstPosition
    BY EmptyIsSeq DEF CountPosition, Position, FirstPosition
  <2> QED BY <2>1, <2>2, EmptyIsSeq DEF Walk
<1>8. SecondPass BY DEF SecondPass
<1>9. FilledLinesFit BY EmptyIsSeq DEF FilledLinesFit
<1> QED BY <1>2, <1>3, <1>4, <1>5, <1>6, <1>7, <1>8, <1>9 DEF IInv

-----------------------------------------------------------------------------
\* One turn of either pass inside the paragraph at i.
LEMMA TurnBounds ==
  ASSUME IInv, i <= Len(job.lines), FilledAt(i), NEW prefix
  PROVE  LET p == Paragraph(job, i)
             e == FilledLineEnd(p, atomIndex, prefix, job.width)
         IN  /\ Len(p.atoms) \in Nat /\ atomIndex \in 0 .. Len(p.atoms)
             /\ e \in atomIndex .. Len(p.atoms)
             /\ e < Len(p.atoms) => e > atomIndex
             /\ e > atomIndex + 1 => ~ IsWidthExceeded(p, atomIndex, e, prefix, job.width)
             /\ p.start = i /\ p.end \in i + 1 .. Len(job.lines) + 1
             /\ p.kind \in {"tag", "prose"}
<1> DEFINE p == Paragraph(job, i)
           e == FilledLineEnd(p, atomIndex, prefix, job.width)
<1>1. job \in FillJob /\ i \in 1 .. Len(job.lines) /\ atomIndex \in Nat
  BY LinesOfJob DEF IInv, TypeOK, Shapes
<1>2. /\ p.start = i /\ p.end \in i + 1 .. Len(job.lines) + 1
      /\ p.kind \in {"tag", "prose"} /\ IsSeq(p.atoms)
  BY <1>1, ParagraphShape
<1>3. atomIndex # 0 => atomIndex < Len(p.atoms) BY DEF IInv, InParagraph
<1> HIDE DEF p
<1>4. Len(p.atoms) \in Nat BY <1>2 DEF IsSeq
<1>5. atomIndex \in 0 .. Len(p.atoms) BY <1>1, <1>3, <1>4
<1>6. /\ e \in atomIndex .. Len(p.atoms)
      /\ e = Len(p.atoms) \/ e > atomIndex
      /\ e > atomIndex + 1 => ~ IsWidthExceeded(p, atomIndex, e, prefix, job.width)
  BY <1>4, <1>5, LineEndBounds
<1> HIDE DEF e
<1>7. e < Len(p.atoms) => e > atomIndex BY <1>4, <1>5, <1>6
<1> QED BY <1>2, <1>4, <1>5, <1>6, <1>7 DEF p, e

\* The first pass records where it is, and goes to the next position.
LEMMA CountWalk ==
  ASSUME IInv, stage = "count", stage' = stage, job' = job,
         counted' = Append(counted, CountPosition),
         CountPosition' = NextPosition(job, CountPosition)
  PROVE  Walk'
<1>0. IsSeq(counted) BY DEF IInv, Shapes
<1>1. PICK n \in Nat : n = Len(counted) BY <1>0 DEF IsSeq
<1>2. /\ Len(counted') = n + 1
      /\ \A k \in 1 .. n : counted'[k] = counted[k]
      /\ counted'[n + 1] = CountPosition
  BY <1>0, <1>1, AppendAny
<1>3. Visited(n + 1) = CountPosition BY <1>1 DEF Visited
<1>4. \A k \in 1 .. n : Visited(k)' = Visited(k) BY <1>1, <1>2 DEF Visited
<1>5. Visited(n + 1)' = Visited(n + 1) BY <1>1, <1>2, <1>3 DEF Visited
<1>6. Visited(n + 2)' = CountPosition' BY <1>1, <1>2 DEF Visited
<1>7. Visited(1)' = FirstPosition
  <2>1. Visited(1) = FirstPosition BY DEF IInv, Walk
  <2>2. 1 \in 1 .. n \/ 1 = n + 1 BY <1>1
  <2> QED BY <2>1, <2>2, <1>4, <1>5
<1>8. ASSUME NEW k \in 1 .. n + 1 PROVE Visited(k + 1)' = NextPosition(job, Visited(k)')
  <2>1. CASE k = n + 1
    <3>1. Visited(k)' = CountPosition BY <2>1, <1>3, <1>5
    <3>2. k + 1 = n + 2 BY <2>1, <1>1
    <3> QED BY <3>1, <3>2, <1>6
  <2>2. CASE k \in 1 .. n
    <3>1. Visited(k + 1) = NextPosition(job, Visited(k)) BY <2>2, <1>1 DEF IInv, Walk
    <3>2. k + 1 \in 1 .. n \/ k + 1 = n + 1 BY <1>1, <2>2
    <3>3. Visited(k + 1)' = Visited(k + 1) BY <3>2, <1>4, <1>5
    <3> QED BY <3>1, <3>3, <2>2, <1>4
  <2> QED BY <2>1, <2>2, <1>1
<1>9. Walk' = (/\ Visited(1)' = FirstPosition
               /\ \A k \in 1 .. Len(counted') : Visited(k + 1)' = NextPosition(job', Visited(k)'))
  BY DEF Walk, FirstPosition
<1> QED BY <1>2, <1>7, <1>8, <1>9

LEMMA CountCopiedKeeps == IInv /\ CountCopied => IInv'
<1> SUFFICES ASSUME IInv, CountCopied PROVE IInv' OBVIOUS
<1> DEFINE n == Len(counted)
<1>0. /\ stage = "count" /\ i <= Len(job.lines) /\ ~ FilledAt(i)
      /\ capacity' = capacity + 1 /\ i' = i + 1
      /\ counted' = Append(counted, Position(Len(paragraphs)))
      /\ UNCHANGED <<job, stage, atomIndex, paragraphs, paragraphIndex, rebuilt>>
  BY DEF CountCopied, FilledAt
<1>1. /\ job \in FillJob /\ Len(job.lines) \in Nat /\ i \in 1 .. Len(job.lines)
      /\ IsSeq(paragraphs) /\ Len(paragraphs) \in Nat
      /\ IsSeq(counted) /\ n \in Nat /\ n = capacity
  BY <1>0, LinesOfJob DEF IInv, TypeOK, Shapes, IsSeq
<1>2. atomIndex = 0 BY <1>0 DEF IInv, InParagraph
<1>3. /\ IsSeq(counted') /\ Len(counted') = n + 1
      /\ \A k \in 1 .. n : counted'[k] = counted[k]
      /\ counted'[n + 1] = Position(Len(paragraphs))
  BY <1>0, <1>1, AppendAny
<1>4. TypeOK' BY <1>0, <1>1, <1>2 DEF IInv, TypeOK
<1>5. Shapes' BY <1>0, <1>1, <1>3 DEF IInv, Shapes
<1>6. ParagraphsKnown' BY <1>0 DEF IInv, ParagraphsKnown, FilledAt
<1>7. InParagraph' BY <1>0, <1>2 DEF InParagraph
<1>8. CountedKnown'
  <2>1. ASSUME NEW k \in 1 .. n PROVE counted'[k] = counted[k] BY <1>3
  <2>2. /\ counted'[n + 1].i = i /\ counted'[n + 1].behind = Len(paragraphs)
    BY <1>3 DEF Position
  <2>3. \A k \in 1 .. n + 1 : k \in 1 .. n \/ k = n + 1 BY <1>1
  <2>4. CountedKnown /\ UNCHANGED <<job, paragraphs>> BY <1>0 DEF IInv
  <2> DEFINE Known(c) ==
        /\ c.i \in 1 .. Len(job.lines) /\ c.behind \in Nat
        /\ FilledAt(c.i) => /\ c.behind < Len(paragraphs)
                            /\ paragraphs[c.behind + 1].start = c.i
  <2>5. ASSUME NEW k \in 1 .. n PROVE Known(counted'[k])
    BY <2>1, <2>4 DEF CountedKnown
  <2>6. Known(counted'[n + 1]) BY <1>0, <1>1, <2>2
  <2>7. \A k \in 1 .. Len(counted') : Known(counted'[k]) BY <1>3, <2>3, <2>5, <2>6
  <2> QED BY <2>4, <2>7 DEF CountedKnown, FilledAt
<1>9. Walk'
  <2>1. CountPosition = Position(Len(paragraphs)) BY <1>2 DEF CountPosition
  <2>2. CountPosition' = [i |-> i + 1, atomIndex |-> 0, behind |-> Len(paragraphs)]
    BY <1>0, <1>2 DEF CountPosition, Position
  <2>3. NextPosition(job, CountPosition)
          = [i |-> i + 1, atomIndex |-> 0, behind |-> Len(paragraphs)]
    BY <1>0, <2>1 DEF NextPosition, Position, FilledAt
  <2> QED BY <1>0, <2>1, <2>2, <2>3, CountWalk
<1>10. SecondPass' BY <1>0 DEF IInv, SecondPass
<1>11. FilledLinesFit'
  <2>1. rebuilt = <<>> BY <1>0 DEF IInv, SecondPass
  <2> QED BY <1>0, <2>1, EmptyIsSeq DEF FilledLinesFit
<1> QED BY <1>4, <1>5, <1>6, <1>7, <1>8, <1>9, <1>10, <1>11 DEF IInv

LEMMA CountLineKeeps == IInv /\ CountLine => IInv'
<1> SUFFICES ASSUME IInv, CountLine PROVE IInv' OBVIOUS
<1>1. /\ stage = "count" /\ i <= Len(job.lines) /\ FilledAt(i)
      /\ capacity' = capacity + 1
      /\ UNCHANGED <<job, stage, paragraphIndex, rebuilt>>
  BY DEF CountLine, AtParagraph, FilledAt
<1>2. /\ job \in FillJob /\ Len(job.lines) \in Nat /\ i \in 1 .. Len(job.lines)
      /\ IsSeq(paragraphs) /\ Len(paragraphs) \in Nat /\ atomIndex \in Nat
      /\ IsSeq(counted) /\ Len(counted) = capacity /\ capacity \in Nat
  BY <1>1, LinesOfJob DEF IInv, TypeOK, Shapes, IsSeq
<1>3. PICK p : p = Paragraph(job, i) OBVIOUS
<1>4. PICK ps : ps = IF atomIndex # 0 THEN paragraphs ELSE Append(paragraphs, p) OBVIOUS
<1>5. /\ IsSeq(ps) /\ Len(ps) \in Nat /\ Len(ps) > 0
      /\ \A k \in 1 .. Len(paragraphs) : ps[k] = paragraphs[k]
      /\ Len(paragraphs) <= Len(ps)
      /\ ps[Len(ps)] = p
      /\ \A k \in 1 .. Len(ps) : k \in 1 .. Len(paragraphs) \/ ps[k] = p
      /\ Len(ps) - 1 = IF atomIndex # 0 THEN Len(paragraphs) - 1 ELSE Len(paragraphs)
  <2>1. CASE atomIndex # 0
    <3>1. Len(paragraphs) > 0 /\ paragraphs[Len(paragraphs)].start = i
      BY <1>1, <2>1 DEF IInv, InParagraph
    <3>2. Len(paragraphs) \in 1 .. Len(paragraphs) BY <1>2, <3>1
    <3>3. paragraphs[Len(paragraphs)] = p BY <1>3, <3>1, <3>2 DEF IInv, ParagraphsKnown
    <3> QED BY <1>2, <1>4, <2>1, <3>1, <3>3
  <2>2. CASE atomIndex = 0
    <3>1. ps = Append(paragraphs, p) BY <1>4, <2>2
    <3>2. /\ IsSeq(ps) /\ Len(ps) = Len(paragraphs) + 1
          /\ \A k \in 1 .. Len(paragraphs) : ps[k] = paragraphs[k]
          /\ ps[Len(paragraphs) + 1] = p
      BY <1>2, <3>1, AppendAny
    <3> QED BY <1>2, <2>2, <3>2
  <2> QED BY <2>1, <2>2
<1>6. PICK prefix : prefix = CountPrefix(p) OBVIOUS
<1>7. PICK e : e = FilledLineEnd(p, atomIndex, prefix, job.width) OBVIOUS
<1>8. /\ paragraphs' = ps
      /\ counted' = Append(counted, Position(Len(ps) - 1))
      /\ IF e < Len(p.atoms) THEN atomIndex' = e /\ i' = i
                             ELSE atomIndex' = 0 /\ i' = p.end
  <2>1. (IF atomIndex # 0 THEN paragraphs ELSE Append(paragraphs, Paragraph(job, i))) = ps
    BY <1>3, <1>4
  <2> QED BY <1>5, <1>6, <1>7, <2>1 DEF CountLine, After
<1>9. /\ Len(p.atoms) \in Nat /\ e \in atomIndex .. Len(p.atoms)
      /\ e < Len(p.atoms) => e > atomIndex
      /\ p.start = i /\ p.end \in i + 1 .. Len(job.lines) + 1
  BY <1>1, <1>3, <1>7, TurnBounds
<1>10. Position(Len(ps) - 1) = CountPosition BY <1>5 DEF CountPosition
<1>11. /\ IsSeq(counted') /\ Len(counted') = Len(counted) + 1
       /\ \A k \in 1 .. Len(counted) : counted'[k] = counted[k]
       /\ counted'[Len(counted) + 1] = Position(Len(ps) - 1)
  BY <1>2, <1>8, AppendAny
<1>12. TypeOK'
  <2>1. i' \in 1 .. Len(job.lines) + 1 /\ atomIndex' \in Nat
    <3>1. CASE e < Len(p.atoms)
      <4>1. e \in Nat BY <1>2, <1>9
      <4> QED BY <1>2, <1>8, <3>1, <4>1
    <3>2. CASE ~ (e < Len(p.atoms))
      <4>1. i' = p.end /\ atomIndex' = 0 BY <1>8, <3>2
      <4>2. p.end \in 1 .. Len(job.lines) + 1 BY <1>2, <1>9
      <4> QED BY <4>1, <4>2
    <3> QED BY <3>1, <3>2
  <2>2. paragraphIndex = 1 BY <1>1 DEF IInv, SecondPass
  <2>3. paragraphIndex' \in 1 .. Len(paragraphs') + 1 BY <1>1, <1>5, <1>8, <2>2
  <2> QED BY <1>1, <1>2, <2>1, <2>3 DEF IInv, TypeOK
<1>13. Shapes' BY <1>1, <1>2, <1>5, <1>8, <1>11 DEF IInv, Shapes
<1>14. ParagraphsKnown'
  <2>1. \A k \in 1 .. Len(paragraphs) :
          /\ paragraphs[k].start \in 1 .. Len(job.lines) /\ FilledAt(paragraphs[k].start)
          /\ paragraphs[k] = Paragraph(job, paragraphs[k].start)
    BY DEF IInv, ParagraphsKnown
  <2>2. \A k \in 1 .. Len(ps) :
          /\ ps[k].start \in 1 .. Len(job.lines) /\ FilledAt(ps[k].start)
          /\ ps[k] = Paragraph(job, ps[k].start)
    BY <1>1, <1>2, <1>3, <1>5, <1>9, <2>1
  <2> QED BY <1>1, <1>8, <2>2 DEF ParagraphsKnown, FilledAt
<1>15. InParagraph'
  <2>1. CASE e < Len(p.atoms) BY <1>1, <1>3, <1>5, <1>8, <1>9, <2>1 DEF InParagraph, FilledAt
  <2>2. CASE ~ (e < Len(p.atoms)) BY <1>8, <2>2 DEF InParagraph
  <2> QED BY <2>1, <2>2
<1>16. CountedKnown'
  <2>1. ASSUME NEW k \in 1 .. Len(counted)
        PROVE  /\ counted'[k].i \in 1 .. Len(job.lines) /\ counted'[k].behind \in Nat
               /\ FilledAt(counted'[k].i) =>
                    /\ counted'[k].behind < Len(ps)
                    /\ ps[counted'[k].behind + 1].start = counted'[k].i
    <3>1. counted'[k] = counted[k] BY <1>11
    <3>2. /\ counted[k].i \in 1 .. Len(job.lines) /\ counted[k].behind \in Nat
          /\ FilledAt(counted[k].i) =>
               /\ counted[k].behind < Len(paragraphs)
               /\ paragraphs[counted[k].behind + 1].start = counted[k].i
      BY DEF IInv, CountedKnown
    <3>3. counted[k].behind < Len(paragraphs) =>
            /\ counted[k].behind < Len(ps)
            /\ ps[counted[k].behind + 1] = paragraphs[counted[k].behind + 1]
      <4>1. PICK b \in Nat : b = counted[k].behind BY <3>2
      <4>2. b < Len(paragraphs) => b < Len(ps) /\ b + 1 \in 1 .. Len(paragraphs)
        BY <1>2, <1>5
      <4>3. b < Len(paragraphs) => ps[b + 1] = paragraphs[b + 1] BY <1>5, <4>2
      <4> QED BY <4>1, <4>2, <4>3
    <3> QED BY <3>1, <3>2, <3>3
  <2>2. /\ Position(Len(ps) - 1).i = i
        /\ Position(Len(ps) - 1).behind = Len(ps) - 1
    BY DEF Position
  <2>3. Len(ps) - 1 \in Nat /\ Len(ps) - 1 < Len(ps) /\ (Len(ps) - 1) + 1 = Len(ps) BY <1>5
  <2>4. \A k \in 1 .. Len(counted) + 1 : k \in 1 .. Len(counted) \/ k = Len(counted) + 1
    BY <1>2
  <2>5. \A k \in 1 .. Len(counted') :
          /\ counted'[k].i \in 1 .. Len(job.lines) /\ counted'[k].behind \in Nat
          /\ FilledAt(counted'[k].i) =>
               /\ counted'[k].behind < Len(ps)
               /\ ps[counted'[k].behind + 1].start = counted'[k].i
    BY <1>2, <1>5, <1>9, <1>11, <2>1, <2>2, <2>3, <2>4
  <2> QED BY <1>1, <1>8, <2>5 DEF CountedKnown, FilledAt
<1>17. Walk'
  <2>1. CountPosition.i = i /\ CountPosition.atomIndex = atomIndex
        /\ CountPosition.behind = Len(ps) - 1
    BY <1>10 DEF Position
  <2>2. prefix = IF atomIndex = 0 THEN p.prefixFirst ELSE job.prefix
    BY <1>6 DEF CountPrefix
  <2>3. NextPosition(job, CountPosition)
          = IF e < Len(p.atoms)
            THEN [i |-> i, atomIndex |-> e, behind |-> Len(ps) - 1]
            ELSE [i |-> p.end, atomIndex |-> 0, behind |-> (Len(ps) - 1) + 1]
    BY <1>1, <1>3, <1>7, <2>1, <2>2 DEF NextPosition, FilledAt
  <2>4. CountPosition' = IF e < Len(p.atoms)
                         THEN [i |-> i, atomIndex |-> e, behind |-> Len(ps) - 1]
                         ELSE [i |-> p.end, atomIndex |-> 0, behind |-> Len(ps)]
    <3>1. CASE e < Len(p.atoms)
      <4>1. atomIndex' # 0 /\ atomIndex' = e /\ i' = i BY <1>2, <1>8, <1>9, <3>1
      <4> QED BY <1>8, <3>1, <4>1 DEF CountPosition, Position
    <3>2. CASE ~ (e < Len(p.atoms)) BY <1>8, <3>2 DEF CountPosition, Position
    <3> QED BY <3>1, <3>2
  <2>5. (Len(ps) - 1) + 1 = Len(ps) BY <1>5
  <2> QED BY <1>1, <1>8, <1>10, <2>3, <2>4, <2>5, CountWalk
<1>18. SecondPass' BY <1>1 DEF IInv, SecondPass
<1>19. FilledLinesFit'
  <2>1. rebuilt = <<>> BY <1>1 DEF IInv, SecondPass
  <2> QED BY <1>1, <2>1, EmptyIsSeq DEF FilledLinesFit
<1> QED BY <1>12, <1>13, <1>14, <1>15, <1>16, <1>17, <1>18, <1>19 DEF IInv

LEMMA StartAppendKeeps == IInv /\ StartAppend => IInv'
<1> SUFFICES ASSUME IInv, StartAppend PROVE IInv' OBVIOUS
<1>1. /\ stage = "count" /\ i > Len(job.lines) /\ stage' = "append" /\ i' = 1
      /\ UNCHANGED <<job, atomIndex, paragraphs, paragraphIndex, capacity, rebuilt, counted>>
  BY DEF StartAppend
<1>2. /\ Len(job.lines) \in Nat /\ i \in 1 .. Len(job.lines) + 1
      /\ Len(counted) \in Nat /\ Len(paragraphs) \in Nat
  BY LinesOfJob DEF IInv, TypeOK, Shapes, IsSeq
<1>3. i = Len(job.lines) + 1 /\ atomIndex = 0 BY <1>1, <1>2 DEF IInv, InParagraph
<1>4. rebuilt = <<>> /\ paragraphIndex = 1 BY <1>1 DEF IInv, SecondPass
<1>5. TypeOK' BY <1>1, <1>2 DEF IInv, TypeOK
<1>6. Shapes' BY <1>1 DEF IInv, Shapes
<1>7. ParagraphsKnown' BY <1>1 DEF IInv, ParagraphsKnown, FilledAt
<1>8. InParagraph' BY <1>1, <1>3 DEF InParagraph
<1>9. CountedKnown' BY <1>1 DEF IInv, CountedKnown, FilledAt
<1>10. ASSUME NEW k \in Nat PROVE Visited(k)' = Visited(k)
  <2>1. CountPosition = EndPosition
    BY <1>3 DEF CountPosition, Position, EndPosition
  <2>2. EndPosition' = EndPosition BY <1>1 DEF EndPosition
  <2> QED BY <1>1, <2>1, <2>2 DEF Visited
<1>11. Walk'
  <2>1. \A k \in 1 .. Len(counted) : k \in Nat /\ k + 1 \in Nat BY <1>2
  <2> QED BY <1>1, <1>10, <2>1 DEF IInv, Walk, FirstPosition
<1>12. SecondPass'
  <2>1. Visited(1)' = FirstPosition BY <1>11 DEF Walk, FirstPosition
  <2>2. Position(paragraphIndex - 1)' = FirstPosition
    BY <1>1, <1>3, <1>4 DEF Position, FirstPosition
  <2>3. Len(rebuilt') = 0 /\ Len(rebuilt') + 1 = 1 BY <1>1, <1>4, EmptyIsSeq
  <2>4. Len(counted') \in Nat BY <1>1, <1>2
  <2> QED BY <1>1, <2>1, <2>2, <2>3, <2>4 DEF SecondPass
<1>13. FilledLinesFit' BY <1>1, <1>4, EmptyIsSeq DEF FilledLinesFit
<1> QED BY <1>5, <1>6, <1>7, <1>8, <1>9, <1>11, <1>12, <1>13 DEF IInv

-----------------------------------------------------------------------------
(* The second pass.                                                        *)

\* While lines are left, the second pass is at a position that the first
\* counted, and knows the paragraph there exactly when there is one.
LEMMA AppendPosition ==
  ASSUME IInv, stage = "append", i <= Len(job.lines)
  PROVE  /\ Len(rebuilt) < Len(counted)
         /\ Position(paragraphIndex - 1) = counted[Len(rebuilt) + 1]
         /\ AtKnownParagraph <=> FilledAt(i)
         /\ AtKnownParagraph => paragraphs[paragraphIndex] = Paragraph(job, i)
<1>1. PICK r \in Nat : r = Len(rebuilt) BY DEF IInv, Shapes, IsSeq
<1>2. /\ Len(counted) \in Nat /\ Len(paragraphs) \in Nat /\ Len(job.lines) \in Nat
      /\ i \in 1 .. Len(job.lines) /\ paragraphIndex \in 1 .. Len(paragraphs) + 1
  BY LinesOfJob DEF IInv, TypeOK, Shapes, IsSeq
<1>3. r <= Len(counted) /\ Position(paragraphIndex - 1) = Visited(r + 1)
  BY <1>1 DEF IInv, SecondPass
<1>4. r < Len(counted)
  <2>1. SUFFICES ASSUME r = Len(counted) PROVE FALSE BY <1>1, <1>2, <1>3
  <2>2. Visited(r + 1) = EndPosition BY <1>2, <2>1 DEF Visited
  <2>3. i = Len(job.lines) + 1 BY <1>3, <2>2 DEF Position, EndPosition
  <2> QED BY <1>2, <2>3
<1>5. r + 1 \in 1 .. Len(counted) BY <1>2, <1>4
<1>6. Position(paragraphIndex - 1) = counted[r + 1] BY <1>3, <1>5 DEF Visited
<1>7. counted[r + 1].i = i /\ counted[r + 1].behind = paragraphIndex - 1
  BY <1>6 DEF Position
<1>8. FilledAt(i) => AtKnownParagraph
  <2>1. FilledAt(i) => /\ paragraphIndex - 1 < Len(paragraphs)
                       /\ paragraphs[(paragraphIndex - 1) + 1].start = i
    BY <1>5, <1>7 DEF IInv, CountedKnown
  <2>2. (paragraphIndex - 1) + 1 = paragraphIndex
        /\ (paragraphIndex - 1 < Len(paragraphs) => paragraphIndex <= Len(paragraphs))
    BY <1>2
  <2> QED BY <2>1, <2>2 DEF AtKnownParagraph
<1>9. ASSUME AtKnownParagraph
      PROVE  FilledAt(i) /\ paragraphs[paragraphIndex] = Paragraph(job, i)
  <2>1. paragraphIndex \in 1 .. Len(paragraphs) /\ paragraphs[paragraphIndex].start = i
    BY <1>2, <1>9 DEF AtKnownParagraph
  <2> QED BY <2>1 DEF IInv, ParagraphsKnown
<1> QED BY <1>1, <1>4, <1>6, <1>8, <1>9

\* The line that is written takes the second pass to the position the first
\* went to.
LEMMA AppendWalk ==
  ASSUME IInv, stage = "append", i <= Len(job.lines),
         UNCHANGED <<job, stage, paragraphs, capacity, counted>>,
         NEW line, rebuilt' = Append(rebuilt, line),
         Position(paragraphIndex - 1)' = NextPosition(job, Position(paragraphIndex - 1)),
         i' \in Nat, atomIndex' \in Nat, i' > 1 \/ atomIndex' > 0
  PROVE  Walk' /\ SecondPass'
<1>1. \A k : Visited(k)' = Visited(k) BY DEF Visited, EndPosition
<1>2. Walk' BY <1>1 DEF IInv, Walk, FirstPosition
<1>3. IsSeq(rebuilt) BY DEF IInv, Shapes
<1>4. PICK r \in Nat : r = Len(rebuilt) BY <1>3 DEF IsSeq
<1>5. Len(rebuilt') = r + 1 BY <1>3, <1>4, AppendAny
<1>6. Len(counted) \in Nat /\ r < Len(counted) BY <1>4, AppendPosition DEF IInv, Shapes, IsSeq
<1>7. Position(paragraphIndex - 1) = Visited(r + 1) BY <1>4 DEF IInv, SecondPass
<1>8. Visited(r + 1 + 1) = NextPosition(job, Visited(r + 1)) BY <1>6 DEF IInv, Walk
<1>9. Position(paragraphIndex - 1)' = Visited(Len(rebuilt) + 1)'
  BY <1>1, <1>5, <1>7, <1>8
<1>10. Len(rebuilt') <= Len(counted') BY <1>5, <1>6
<1> QED BY <1>2, <1>5, <1>9, <1>10 DEF SecondPass

LEMMA AppendCopiedKeeps == IInv /\ AppendCopied => IInv'
<1> SUFFICES ASSUME IInv, AppendCopied PROVE IInv' OBVIOUS
<1> DEFINE line == [kind |-> job.lines[i].kind, hang |-> job.lines[i].indent,
                    lead |-> job.lines[i].words, atoms |-> <<>>,
                    pad |-> job.lines[i].pad, trail |-> job.lines[i].trail]
<1>1. /\ stage = "append" /\ i <= Len(job.lines) /\ ~ AtKnownParagraph
      /\ rebuilt' = Append(rebuilt, line) /\ i' = i + 1
      /\ UNCHANGED <<job, stage, atomIndex, paragraphs, paragraphIndex, capacity, counted>>
  BY DEF AppendCopied
<1>2. /\ Len(job.lines) \in Nat /\ i \in 1 .. Len(job.lines) /\ IsSeq(rebuilt)
      /\ \A n \in 1 .. Len(job.lines) : job.lines[n].kind \in Kinds
  BY <1>1, LinesOfJob DEF IInv, TypeOK, Shapes
<1>3. ~ FilledAt(i) BY <1>1, AppendPosition
<1>4. atomIndex = 0 BY <1>3 DEF IInv, InParagraph
<1>5. PICK r \in Nat : r = Len(rebuilt) BY <1>2 DEF IsSeq
<1>6. /\ IsSeq(rebuilt') /\ Len(rebuilt') = r + 1
      /\ \A k \in 1 .. r : rebuilt'[k] = rebuilt[k]
      /\ rebuilt'[r + 1] = line
  BY <1>1, <1>2, <1>5, AppendAny
<1>7. line.kind = job.lines[i].kind OBVIOUS
<1> HIDE DEF line
<1>8. \A k \in 1 .. r + 1 : k \in 1 .. r \/ k = r + 1 BY <1>5
<1>9. TypeOK'
  <2>1. \A k \in 1 .. Len(rebuilt') : rebuilt'[k].kind \in Kinds
    BY <1>2, <1>5, <1>6, <1>7, <1>8 DEF IInv, TypeOK
  <2> QED BY <1>1, <1>2, <1>4, <2>1 DEF IInv, TypeOK
<1>10. Shapes' BY <1>1, <1>6 DEF IInv, Shapes
<1>11. ParagraphsKnown' BY <1>1 DEF IInv, ParagraphsKnown, FilledAt
<1>12. InParagraph' BY <1>1, <1>4 DEF InParagraph
<1>13. CountedKnown' BY <1>1 DEF IInv, CountedKnown, FilledAt
<1>14. Walk' /\ SecondPass'
  <2>1. Position(paragraphIndex - 1)' = NextPosition(job, Position(paragraphIndex - 1))
    BY <1>1, <1>3, <1>4 DEF Position, NextPosition, FilledAt
  <2>2. i' \in Nat /\ atomIndex' \in Nat /\ i' > 1 BY <1>1, <1>2, <1>4
  <2> QED BY <1>1, <2>1, <2>2, AppendWalk
<1>15. FilledLinesFit'
  <2>1. ~ IsFilled(rebuilt'[r + 1]) BY <1>3, <1>6, <1>7 DEF FilledAt, IsFilled
  <2>2. ASSUME NEW k \in 1 .. r
        PROVE  LET prefix == IF k = 1 THEN job.prefixFirst ELSE job.prefix
               IN  ~ IsFilled(rebuilt[k]) \/ Len(rebuilt[k].atoms) <= 1
                     \/ ~ (prefix + rebuilt[k].hang + AtomsColumns(rebuilt[k].atoms) + 0
                              > job.width)
    BY <1>1, <1>2, <1>5 DEF IInv, FilledLinesFit
  <2>3. \A k \in 1 .. r : k # r + 1 BY <1>5
  <2> QED BY <1>1, <1>6, <1>8, <2>1, <2>2, <2>3 DEF FilledLinesFit
<1> QED BY <1>9, <1>10, <1>11, <1>12, <1>13, <1>14, <1>15 DEF IInv

\* A line that holds the atoms from .. to - 1 holds that many.
LEMMA LineHolds ==
  ASSUME NEW atoms, IsSeq(atoms), NEW from \in 0 .. Len(atoms), NEW to \in from .. Len(atoms)
  PROVE  Len(SubSeq(atoms, from + 1, to)) = to - from
<1>1. atoms \in Seq({atoms[k] : k \in 1 .. Len(atoms)}) BY IsSeqOfRange
<1>2. Len(atoms) \in Nat BY DEF IsSeq
<1>3. from + 1 \in 1 .. Len(atoms) + 1 /\ to \in (from + 1) - 1 .. Len(atoms) BY <1>2
<1>4. Len(SubSeq(atoms, from + 1, to)) = to - (from + 1) + 1
  BY <1>1, <1>3, SubSeqProperties
<1> QED BY <1>2, <1>4

LEMMA AppendLineKeeps == IInv /\ AppendLine => IInv'
<1> SUFFICES ASSUME IInv, AppendLine PROVE IInv' OBVIOUS
<1>1. /\ stage = "append" /\ i <= Len(job.lines) /\ AtKnownParagraph
      /\ UNCHANGED <<job, stage, paragraphs, capacity, counted>>
  BY DEF AppendLine
<1>2. /\ job \in FillJob /\ Len(job.lines) \in Nat /\ i \in 1 .. Len(job.lines)
      /\ IsSeq(rebuilt) /\ atomIndex \in Nat /\ Len(paragraphs) \in Nat
      /\ paragraphIndex \in 1 .. Len(paragraphs) + 1
  BY <1>1, LinesOfJob DEF IInv, TypeOK, Shapes, IsSeq
<1>3. FilledAt(i) /\ paragraphs[paragraphIndex] = Paragraph(job, i)
  BY <1>1, AppendPosition
<1>4. PICK p : p = Paragraph(job, i) OBVIOUS
<1>5. PICK prefix : prefix = AppendPrefix(p) OBVIOUS
<1>6. PICK e : e = FilledLineEnd(p, atomIndex, prefix, job.width) OBVIOUS
<1>7. PICK line : line = [kind  |-> IF atomIndex = 0 THEN p.kind ELSE "prose",
                          hang  |-> p.hang,
                          lead  |-> IF atomIndex = 0 THEN p.lead ELSE <<>>,
                          atoms |-> SubSeq(p.atoms, atomIndex + 1, e),
                          pad   |-> IF atomIndex = 0 THEN p.pad ELSE 0,
                          trail |-> p.trail]
  OBVIOUS
<1>8. /\ rebuilt' = Append(rebuilt, line)
      /\ IF e < Len(p.atoms)
         THEN atomIndex' = e /\ i' = i /\ paragraphIndex' = paragraphIndex
         ELSE atomIndex' = 0 /\ i' = p.end /\ paragraphIndex' = paragraphIndex + 1
  BY <1>3, <1>4, <1>5, <1>6, <1>7 DEF AppendLine, After
<1>9. /\ Len(p.atoms) \in Nat /\ atomIndex \in 0 .. Len(p.atoms)
      /\ e \in atomIndex .. Len(p.atoms)
      /\ e < Len(p.atoms) => e > atomIndex
      /\ e > atomIndex + 1 => ~ IsWidthExceeded(p, atomIndex, e, prefix, job.width)
      /\ p.start = i /\ p.end \in i + 1 .. Len(job.lines) + 1
      /\ p.kind \in {"tag", "prose"}
  BY <1>1, <1>3, <1>4, <1>6, TurnBounds
<1>10. /\ IsSeq(p.atoms)
       /\ p.prefixFirst = IF i = 1 THEN job.prefixFirst ELSE job.prefix
       /\ p.closer = CloserColumns(job, p.end)
  BY <1>2, <1>4, ParagraphShape
<1>11. PICK r \in Nat : r = Len(rebuilt) BY <1>2 DEF IsSeq
<1>12. /\ IsSeq(rebuilt') /\ Len(rebuilt') = r + 1
       /\ \A k \in 1 .. r : rebuilt'[k] = rebuilt[k]
       /\ rebuilt'[r + 1] = line
  BY <1>2, <1>8, <1>11, AppendAny
<1>13. \A k \in 1 .. r + 1 : k \in 1 .. r \/ k = r + 1 BY <1>11
<1>14. i' \in 1 .. Len(job.lines) + 1 /\ atomIndex' \in Nat
  <2>1. CASE e < Len(p.atoms)
    <3>1. e \in Nat BY <1>9
    <3> QED BY <1>2, <1>8, <2>1, <3>1
  <2>2. CASE ~ (e < Len(p.atoms))
    <3>1. i' = p.end /\ atomIndex' = 0 BY <1>8, <2>2
    <3>2. p.end \in 1 .. Len(job.lines) + 1 BY <1>2, <1>9
    <3> QED BY <3>1, <3>2
  <2> QED BY <2>1, <2>2
<1>15. TypeOK'
  <2>1. line.kind \in Kinds BY <1>7, <1>9 DEF Kinds
  <2>2. \A k \in 1 .. Len(rebuilt') : rebuilt'[k].kind \in Kinds
    BY <1>11, <1>12, <1>13, <2>1 DEF IInv, TypeOK
  <2>3. paragraphIndex' \in 1 .. Len(paragraphs) + 1
    <3>1. paragraphIndex <= Len(paragraphs) BY <1>1 DEF AtKnownParagraph
    <3> QED BY <1>2, <1>8, <3>1
  <2> QED BY <1>1, <1>14, <2>2, <2>3 DEF IInv, TypeOK
<1>16. Shapes' BY <1>1, <1>12 DEF IInv, Shapes
<1>17. ParagraphsKnown' BY <1>1 DEF IInv, ParagraphsKnown, FilledAt
<1>18. InParagraph'
  <2>1. CASE e < Len(p.atoms)
    BY <1>1, <1>3, <1>4, <1>8, <2>1 DEF InParagraph, FilledAt
  <2>2. CASE ~ (e < Len(p.atoms)) BY <1>8, <2>2 DEF InParagraph
  <2> QED BY <2>1, <2>2
<1>19. CountedKnown' BY <1>1 DEF IInv, CountedKnown, FilledAt
<1>20. Walk' /\ SecondPass'
  <2>1. Position(paragraphIndex - 1).i = i
        /\ Position(paragraphIndex - 1).atomIndex = atomIndex
        /\ Position(paragraphIndex - 1).behind = paragraphIndex - 1
    BY DEF Position
  <2>2. prefix = IF atomIndex = 0 THEN p.prefixFirst ELSE job.prefix
    BY <1>5 DEF AppendPrefix
  <2>3. NextPosition(job, Position(paragraphIndex - 1))
          = IF e < Len(p.atoms)
            THEN [i |-> i, atomIndex |-> e, behind |-> paragraphIndex - 1]
            ELSE [i |-> p.end, atomIndex |-> 0, behind |-> (paragraphIndex - 1) + 1]
    BY <1>3, <1>4, <1>6, <2>1, <2>2 DEF NextPosition, FilledAt
  <2>4. (paragraphIndex - 1) + 1 = (paragraphIndex + 1) - 1 BY <1>2
  <2>5. Position(paragraphIndex - 1)' = NextPosition(job, Position(paragraphIndex - 1))
    <3>1. CASE e < Len(p.atoms) BY <1>8, <2>3, <3>1 DEF Position
    <3>2. CASE ~ (e < Len(p.atoms)) BY <1>8, <2>3, <2>4, <3>2 DEF Position
    <3> QED BY <3>1, <3>2
  <2>6. i' \in Nat /\ (i' > 1 \/ atomIndex' > 0)
    <3>1. CASE e < Len(p.atoms) BY <1>2, <1>8, <1>9, <3>1
    <3>2. CASE ~ (e < Len(p.atoms)) BY <1>2, <1>8, <1>9, <3>2
    <3> QED BY <3>1, <3>2
  <2> QED BY <1>1, <1>8, <1>14, <2>5, <2>6, AppendWalk
<1>21. FilledLinesFit'
  <2>1. prefix = IF r + 1 = 1 THEN job.prefixFirst ELSE job.prefix
    <3>1. prefix = IF atomIndex = 0 /\ i = 1 THEN job.prefixFirst ELSE job.prefix
      BY <1>5, <1>10 DEF AppendPrefix
    <3>2. r > 0 => i > 1 \/ atomIndex > 0 BY <1>1, <1>11 DEF IInv, SecondPass
    <3>3. r = 0 => i = 1 /\ atomIndex = 0
      <4>1. Position(paragraphIndex - 1) = Visited(r + 1)
        BY <1>1, <1>11 DEF IInv, SecondPass
      <4>2. r = 0 => Visited(r + 1) = FirstPosition BY DEF IInv, Walk
      <4> QED BY <4>1, <4>2 DEF Position, FirstPosition
    <3>4. (r + 1 = 1) <=> (atomIndex = 0 /\ i = 1) BY <1>2, <1>11, <3>2, <3>3
    <3> QED BY <3>1, <3>4
  <2>2. (IF e = Len(p.atoms) THEN p.closer ELSE 0)
          = IF job.hasCloser /\ i' > Len(job.lines) THEN 3 ELSE 0
    <3>1. CASE e < Len(p.atoms) BY <1>2, <1>8, <1>9, <3>1
    <3>2. CASE ~ (e < Len(p.atoms))
      <4>1. e = Len(p.atoms) /\ i' = p.end BY <1>8, <1>9, <3>2
      <4>2. i' > Len(job.lines) <=> p.end = Len(job.lines) + 1 BY <1>2, <1>9, <4>1
      <4> QED BY <1>10, <4>1, <4>2 DEF CloserColumns
    <3> QED BY <3>1, <3>2
  <2>3. line.atoms = SubSeq(p.atoms, atomIndex + 1, e) /\ line.hang = p.hang BY <1>7
  <2>4. Len(line.atoms) = e - atomIndex BY <1>9, <1>10, <2>3, LineHolds
  <2>5. Len(line.atoms) <= 1
          \/ ~ (prefix + line.hang + AtomsColumns(line.atoms)
                  + (IF job.hasCloser /\ i' > Len(job.lines) THEN 3 ELSE 0) > job.width)
    <3>1. CASE e > atomIndex + 1
      <4>1. ~ IsWidthExceeded(p, atomIndex, e, prefix, job.width) BY <1>9, <3>1
      <4>2. ~ (prefix + p.hang + AtomsColumns(SubSeq(p.atoms, atomIndex + 1, e))
                 + (IF e = Len(p.atoms) THEN p.closer ELSE 0) > job.width)
        BY <4>1 DEF IsWidthExceeded
      <4> QED BY <2>2, <2>3, <4>2
    <3>2. CASE ~ (e > atomIndex + 1) BY <1>2, <1>9, <2>4, <3>2
    <3> QED BY <3>1, <3>2
  <2>6. ASSUME NEW k \in 1 .. r
        PROVE  LET columns == IF k = 1 THEN job.prefixFirst ELSE job.prefix
               IN  ~ IsFilled(rebuilt[k]) \/ Len(rebuilt[k].atoms) <= 1
                     \/ ~ (columns + rebuilt[k].hang + AtomsColumns(rebuilt[k].atoms) + 0
                              > job.width)
    BY <1>1, <1>2, <1>11 DEF IInv, FilledLinesFit
  <2>7. \A k \in 1 .. r : k # r + 1 BY <1>11
  <2> QED BY <1>1, <1>12, <1>13, <2>1, <2>5, <2>6, <2>7 DEF FilledLinesFit
<1> QED BY <1>15, <1>16, <1>17, <1>18, <1>19, <1>20, <1>21 DEF IInv

LEMMA FinishFillKeeps == IInv /\ FinishFill => IInv'
<1> SUFFICES ASSUME IInv, FinishFill PROVE IInv' OBVIOUS
<1>1. /\ stage = "append" /\ i > Len(job.lines) /\ stage' = "done"
      /\ UNCHANGED <<job, i, atomIndex, paragraphs, paragraphIndex, capacity, rebuilt, counted>>
  BY DEF FinishFill
<1>2. TypeOK' BY <1>1 DEF IInv, TypeOK
<1>3. Shapes' BY <1>1 DEF IInv, Shapes
<1>4. ParagraphsKnown' BY <1>1 DEF IInv, ParagraphsKnown, FilledAt
<1>5. InParagraph' BY <1>1 DEF IInv, InParagraph, FilledAt
<1>6. CountedKnown' BY <1>1 DEF IInv, CountedKnown, FilledAt
<1>7. \A k : Visited(k)' = Visited(k) BY <1>1 DEF Visited, EndPosition
<1>8. Walk' BY <1>1, <1>7 DEF IInv, Walk, FirstPosition
<1>9. SecondPass'
  <2>1. Position(paragraphIndex - 1)' = Position(paragraphIndex - 1) BY <1>1 DEF Position
  <2> QED BY <1>1, <1>7, <2>1 DEF IInv, SecondPass
<1>10. FilledLinesFit' BY <1>1 DEF IInv, FilledLinesFit
<1> QED BY <1>2, <1>3, <1>4, <1>5, <1>6, <1>8, <1>9, <1>10 DEF IInv

LEMMA StutterKeeps == IInv /\ UNCHANGED fillVars => IInv'
<1> SUFFICES ASSUME IInv, UNCHANGED fillVars PROVE IInv' OBVIOUS
<1>1. UNCHANGED <<job, stage, i, atomIndex, paragraphs, paragraphIndex, capacity, rebuilt,
                  counted>>
  BY DEF fillVars
<1>2. TypeOK' BY <1>1 DEF IInv, TypeOK
<1>3. Shapes' BY <1>1 DEF IInv, Shapes
<1>4. ParagraphsKnown' BY <1>1 DEF IInv, ParagraphsKnown, FilledAt
<1>5. InParagraph' BY <1>1 DEF IInv, InParagraph, FilledAt
<1>6. CountedKnown' BY <1>1 DEF IInv, CountedKnown, FilledAt
<1>7. \A k : Visited(k)' = Visited(k)
  BY <1>1 DEF Visited, CountPosition, EndPosition, Position
<1>8. Walk' BY <1>1, <1>7 DEF IInv, Walk, FirstPosition
<1>9. SecondPass'
  <2>1. Position(paragraphIndex - 1)' = Position(paragraphIndex - 1) BY <1>1 DEF Position
  <2> QED BY <1>1, <1>7, <2>1 DEF IInv, SecondPass
<1>10. FilledLinesFit' BY <1>1 DEF IInv, FilledLinesFit
<1> QED BY <1>2, <1>3, <1>4, <1>5, <1>6, <1>8, <1>9, <1>10 DEF IInv

LEMMA StepInvariant == IInv /\ [FillNext]_fillVars => IInv'
BY CountCopiedKeeps, CountLineKeeps, StartAppendKeeps, AppendCopiedKeeps, AppendLineKeeps,
   FinishFillKeeps, StutterKeeps DEF FillNext

LEMMA InvariantHolds == FillSpec => []IInv
BY InitInvariant, StepInvariant, PTL DEF FillSpec

-----------------------------------------------------------------------------
(* The words.  What the second pass has written holds, in order, the words *)
(* of the body lines behind it and of the atoms behind it in a paragraph.  *)
(* That takes a body with no line that is filled and has no words: words   *)
(* on either side of such a line may be joined into one.  Of any body      *)
(* something is left if anything was there.                                *)

RebuiltLine == [kind : Kinds, hang : Nat, lead : Seq(Word), atoms : Seq(Seq(Word)),
                pad : Nat, trail : Nat]

LinesWords(lines) == FlattenSeq([k \in 1 .. Len(lines) |-> LineWords(lines[k])])

\* A copied line has no atoms, a prose line nothing besides its atoms, and a tag
\* line one blank behind what is frozen and padded.
LineShape(line) ==
  /\ ~ IsFilled(line) => line.atoms = <<>>
  /\ line.kind = "prose" => line.lead = <<>> /\ line.pad = 0 /\ line.trail = 0
  /\ line.kind = "tag" /\ line.atoms # <<>> =>
       line.trail = 0 /\ line.hang = TextColumns(line.lead) + line.pad + 1

PlacedBefore(p) == p.lead \o FlattenSeq(SubSeq(p.atoms, 1, atomIndex))

Placed ==
  IF atomIndex = 0 THEN BodyWords(job.lines, i - 1)
  ELSE BodyWords(job.lines, i - 1) \o PlacedBefore(Paragraph(job, i))

WordsInv ==
  /\ rebuilt \in Seq(RebuiltLine)
  /\ \A k \in 1 .. Len(rebuilt) : LineShape(rebuilt[k])
  /\ stage # "count" /\ IsWorded(job.lines) => LinesWords(rebuilt) = Placed
  /\ stage # "count" /\ Placed # <<>> => LinesWords(rebuilt) # <<>>

LEMMA LineWordsType ==
  ASSUME NEW line \in RebuiltLine
  PROVE  LineWords(line) \in Seq(Word)
<1>1. line.lead \in Seq(Word) /\ line.atoms \in Seq(Seq(Word)) BY DEF RebuiltLine
<1>2. FlattenSeq(line.atoms) \in Seq(Word) BY <1>1, FlattenSeqType
<1> QED BY <1>1, <1>2, ConcatProperties DEF LineWords

LEMMA LinePieces ==
  ASSUME NEW lines \in Seq(RebuiltLine)
  PROVE  LET pieces == [k \in 1 .. Len(lines) |-> LineWords(lines[k])]
         IN  pieces \in Seq(Seq(Word)) /\ Len(pieces) = Len(lines)
<1> DEFINE pieces == [k \in 1 .. Len(lines) |-> LineWords(lines[k])]
<1>1. Len(lines) \in Nat BY LenProperties
<1>2. \A k \in 1 .. Len(lines) : LineWords(lines[k]) \in Seq(Word)
  BY ElementOfSeq, LineWordsType
<1>3. pieces \in [1 .. Len(lines) -> Seq(Word)] BY <1>2
<1> HIDE DEF pieces
<1>4. pieces \in Seq(Seq(Word)) /\ Len(pieces) = Len(lines) BY <1>1, <1>3, SeqOfMap, Zenon
<1> QED BY <1>4 DEF pieces

LEMMA LinesWordsType ==
  ASSUME NEW lines \in Seq(RebuiltLine)
  PROVE  LinesWords(lines) \in Seq(Word)
BY LinePieces, FlattenSeqType DEF LinesWords

LEMMA LinesWordsAppend ==
  ASSUME NEW lines \in Seq(RebuiltLine), NEW line \in RebuiltLine
  PROVE  LinesWords(Append(lines, line)) = LinesWords(lines) \o LineWords(line)
<1> DEFINE ss == [k \in 1 .. Len(lines) |-> LineWords(lines[k])]
           longer == Append(lines, line)
           tt == [k \in 1 .. Len(longer) |-> LineWords(longer[k])]
<1>1. Len(lines) \in Nat BY LenProperties
<1>2. /\ longer \in Seq(RebuiltLine) /\ Len(longer) = Len(lines) + 1
      /\ \A k \in 1 .. Len(lines) : longer[k] = lines[k]
      /\ longer[Len(lines) + 1] = line
  BY AppendProperties
<1> HIDE DEF longer
<1>3. ss \in Seq(Seq(Word)) /\ Len(ss) = Len(lines) BY LinePieces
<1>4. tt \in Seq(Seq(Word)) /\ Len(tt) = Len(longer) BY <1>2, LinePieces
<1>5. \A k \in 1 .. Len(ss) : tt[k] = ss[k] BY <1>1, <1>2, <1>3
<1>6. tt[Len(tt)] = LineWords(line) BY <1>1, <1>2, <1>4
<1>7. LinesWords(lines) = FlattenSeq(ss) /\ LinesWords(longer) = FlattenSeq(tt) BY DEF LinesWords
<1> HIDE DEF ss, tt
<1>8. Len(tt) = Len(ss) + 1 BY <1>2, <1>3, <1>4
<1>9. FlattenSeq(tt) = FlattenSeq(ss) \o tt[Len(tt)] BY <1>3, <1>4, <1>5, <1>8, FlattenStep
<1> QED BY <1>6, <1>7, <1>9 DEF longer

\* One line more keeps the invariant if its words are those it moves past.
LEMMA WrittenLineKeeps ==
  ASSUME WordsInv, NEW line \in RebuiltLine, LineShape(line),
         stage # "count", job' = job, rebuilt' = Append(rebuilt, line),
         IsWorded(job.lines) => Placed' = Placed \o LineWords(line),
         Placed' # <<>> => Placed \o LineWords(line) # <<>>
  PROVE  WordsInv'
<1>1. rebuilt \in Seq(RebuiltLine) BY DEF WordsInv
<1>2. PICK r \in Nat : r = Len(rebuilt) BY <1>1, LenProperties
<1>3. /\ rebuilt' \in Seq(RebuiltLine) /\ Len(rebuilt') = r + 1
      /\ \A k \in 1 .. r : rebuilt'[k] = rebuilt[k]
      /\ rebuilt'[r + 1] = line
  BY <1>1, <1>2, AppendProperties
<1>4. ASSUME NEW k \in 1 .. Len(rebuilt') PROVE LineShape(rebuilt'[k])
  <2>1. k \in 1 .. r \/ k = r + 1 BY <1>2, <1>3
  <2>2. \A n \in 1 .. r : LineShape(rebuilt[n]) BY <1>2 DEF WordsInv
  <2> QED BY <1>3, <2>1, <2>2
<1>5. LinesWords(rebuilt') = LinesWords(rebuilt) \o LineWords(line) BY <1>1, LinesWordsAppend
<1>6. PICK u \in Seq(Word), v \in Seq(Word) : u = LinesWords(rebuilt) /\ v = LineWords(line)
  BY <1>1, LinesWordsType, LineWordsType
<1>7. IsWorded(job.lines) => LinesWords(rebuilt') = Placed' BY <1>5 DEF WordsInv
<1>8. ASSUME Placed' # <<>> PROVE LinesWords(rebuilt') # <<>>
  <2>1. u # <<>> \/ v # <<>>
    <3>1. ASSUME u = <<>>, v = <<>> PROVE FALSE
      <4>1. Placed = <<>> BY <1>6, <3>1 DEF WordsInv
      <4>2. <<>> \o <<>> = <<>> BY ConcatEmptySeq, EmptySeq
      <4> QED BY <1>6, <1>8, <3>1, <4>1, <4>2
    <3> QED BY <3>1
  <2>2. u \o v # <<>> BY <2>1, ConcatEqualIffEmpty
  <2> QED BY <1>5, <1>6, <2>2
<1>9. LinesWords(rebuilt)' = LinesWords(rebuilt') /\ IsWorded(job.lines)' = IsWorded(job.lines)
  BY DEF LinesWords, LineWords, IsWorded, IsFilled
<1> QED BY <1>3, <1>4, <1>7, <1>8, <1>9 DEF WordsInv, LineShape

LEMMA CopiedWords ==
  ASSUME IInv, WordsInv, AppendCopied
  PROVE  WordsInv'
<1>1. /\ stage = "append" /\ i <= Len(job.lines) /\ ~ AtKnownParagraph
      /\ i' = i + 1 /\ UNCHANGED <<job, stage, atomIndex>>
  BY DEF AppendCopied
<1>2. /\ job.lines \in Seq(BodyLine) /\ i \in 1 .. Len(job.lines)
  BY <1>1, LinesOfJob DEF IInv, TypeOK, Shapes
<1>3. ~ FilledAt(i) BY <1>1, AppendPosition
<1>4. atomIndex = 0 BY <1>3 DEF IInv, InParagraph
<1>5. PICK body \in BodyLine : body = job.lines[i] BY <1>2, ElementOfSeq
<1>6. PICK line : line = [kind |-> body.kind, hang |-> body.indent, lead |-> body.words,
                          atoms |-> <<>>, pad |-> body.pad, trail |-> body.trail]
  OBVIOUS
<1>7. rebuilt' = Append(rebuilt, line) BY <1>5, <1>6 DEF AppendCopied
<1>8. line \in RebuiltLine
  <2>1. <<>> \in Seq(Seq(Word)) BY EmptySeq
  <2> QED BY <1>6, <2>1 DEF BodyLine, RebuiltLine
<1>9. LineShape(line) BY <1>3, <1>5, <1>6 DEF LineShape, FilledAt, IsFilled
<1>10. LineWords(line) = body.words
  <2>1. line.lead = body.words /\ line.atoms = <<>> /\ body.words \in Seq(Word)
    BY <1>6 DEF BodyLine
  <2>2. body.words \o <<>> = body.words BY <2>1, ConcatEmptySeq
  <2> QED BY <2>1, <2>2, FlattenEmpty DEF LineWords
<1>11. Placed = BodyWords(job.lines, i - 1) BY <1>4 DEF Placed
<1>12. Placed' = BodyWords(job.lines, i)
  <2>1. (i + 1) - 1 = i BY <1>2
  <2> QED BY <1>1, <1>4, <2>1 DEF Placed, BodyWords
<1>13. BodyWords(job.lines, i) = BodyWords(job.lines, i - 1) \o body.words
  BY <1>2, <1>5, BodyWordsStep
<1>14. Placed' = Placed \o LineWords(line) BY <1>10, <1>11, <1>12, <1>13
<1> QED BY <1>1, <1>7, <1>8, <1>9, <1>14, WrittenLineKeeps

\* The atoms of a paragraph up to one, and those from there to another.
LEMMA AtomsMove ==
  ASSUME NEW atoms \in Seq(Seq(Word)), NEW a \in 0 .. Len(atoms), NEW e \in a .. Len(atoms)
  PROVE  /\ FlattenSeq(SubSeq(atoms, 1, a)) \in Seq(Word)
         /\ SubSeq(atoms, a + 1, e) \in Seq(Seq(Word))
         /\ FlattenSeq(SubSeq(atoms, a + 1, e)) \in Seq(Word)
         /\ FlattenSeq(SubSeq(atoms, 1, a)) \o FlattenSeq(SubSeq(atoms, a + 1, e))
              = FlattenSeq(SubSeq(atoms, 1, e))
<1> DEFINE P == Seq(Word)
<1>0. atoms \in Seq(P) OBVIOUS
<1>1. SubSeq(atoms, 1, a) \in Seq(P) /\ SubSeq(atoms, a + 1, e) \in Seq(P)
  <2> HIDE DEF P
  <2>1. Len(atoms) \in Nat BY <1>0, LenProperties
  <2>2. a + 1 \in 1 .. Len(atoms) + 1 /\ e \in (a + 1) - 1 .. Len(atoms) BY <2>1
  <2>3. SubSeq(atoms, a + 1, e) \in Seq(P) BY <1>0, <2>2, SegmentProperties
  <2> QED BY <1>0, <2>3, PrefixProperties
<1>2. SubSeq(atoms, 1, a) \o SubSeq(atoms, a + 1, e) = SubSeq(atoms, 1, e)
  <2> HIDE DEF P
  <2>1. Len(atoms) \in Nat BY <1>0, LenProperties
  <2>2. 1 \in 1 .. Len(atoms) + 1 /\ a \in 1 - 1 .. Len(atoms) /\ e \in a .. Len(atoms)
    BY <2>1
  <2> QED BY <1>0, <2>2, ConcatAdjacentSubSeq
<1>3. FlattenSeq(SubSeq(atoms, 1, a) \o SubSeq(atoms, a + 1, e))
        = FlattenSeq(SubSeq(atoms, 1, a)) \o FlattenSeq(SubSeq(atoms, a + 1, e))
  BY <1>1, FlattenConcat
<1> QED BY <1>1, <1>2, <1>3, FlattenSeqType

LEMMA FilledWords ==
  ASSUME IInv, WordsInv, AppendLine
  PROVE  WordsInv'
<1>1. /\ stage = "append" /\ i <= Len(job.lines) /\ AtKnownParagraph
      /\ UNCHANGED <<job, stage, paragraphs, capacity, counted>>
  BY DEF AppendLine
<1>2. /\ job \in FillJob /\ job.lines \in Seq(BodyLine) /\ Len(job.lines) \in Nat
      /\ i \in 1 .. Len(job.lines) /\ atomIndex \in Nat
  BY <1>1, LinesOfJob DEF IInv, TypeOK, Shapes
<1>3. FilledAt(i) /\ paragraphs[paragraphIndex] = Paragraph(job, i)
  BY <1>1, AppendPosition
<1>4. PICK p : p = Paragraph(job, i) OBVIOUS
<1>5. PICK e : e = FilledLineEnd(p, atomIndex, AppendPrefix(p), job.width) OBVIOUS
<1>6. PICK lead : lead = IF atomIndex = 0 THEN p.lead ELSE <<>> OBVIOUS
<1>7. PICK atoms : atoms = SubSeq(p.atoms, atomIndex + 1, e) OBVIOUS
<1>8. PICK line : line = [kind  |-> IF atomIndex = 0 THEN p.kind ELSE "prose",
                          hang  |-> p.hang,
                          lead  |-> lead,
                          atoms |-> atoms,
                          pad   |-> IF atomIndex = 0 THEN p.pad ELSE 0,
                          trail |-> p.trail]
  OBVIOUS
<1>9. /\ rebuilt' = Append(rebuilt, line)
      /\ IF e < Len(p.atoms) THEN atomIndex' = e /\ i' = i
                             ELSE atomIndex' = 0 /\ i' = p.end
  BY <1>3, <1>4, <1>5, <1>6, <1>7, <1>8 DEF AppendLine, After
<1>10. /\ Len(p.atoms) \in Nat /\ atomIndex \in 0 .. Len(p.atoms)
       /\ e \in atomIndex .. Len(p.atoms)
       /\ e < Len(p.atoms) => e > atomIndex
       /\ p.end \in i + 1 .. Len(job.lines) + 1 /\ p.kind \in {"tag", "prose"}
  BY <1>1, <1>3, <1>4, <1>5, TurnBounds
<1>11. /\ p.lead \in Seq(Word) /\ p.atoms \in Seq(Seq(Word))
       /\ p.pad \in Nat /\ p.trail \in Nat /\ p.hang \in Nat
       /\ p.lead \o FlattenSeq(p.atoms) = Joined(job.lines, i, p.end).words
       /\ p.kind = "prose" => p.lead = <<>> /\ p.pad = 0 /\ p.trail = 0
       /\ p.kind = "tag" /\ p.atoms # <<>> =>
            p.trail = 0 /\ p.hang = TextColumns(p.lead) + p.pad + 1
  BY <1>2, <1>4, ParagraphText
<1> DEFINE before == FlattenSeq(SubSeq(p.atoms, 1, atomIndex))
           behind == FlattenSeq(SubSeq(p.atoms, 1, e))
           body == BodyWords(job.lines, i - 1)
<1>12. /\ before \in Seq(Word) /\ atoms \in Seq(Seq(Word)) /\ FlattenSeq(atoms) \in Seq(Word)
       /\ before \o FlattenSeq(atoms) = behind
  BY <1>7, <1>10, <1>11, AtomsMove
<1>13. atomIndex # 0 => p.atoms # <<>>
  <2>1. atomIndex # 0 => Len(p.atoms) # 0 BY <1>10
  <2> QED BY <2>1, EmptySeq
<1>14. atoms # <<>> => p.atoms # <<>>
  <2> SUFFICES ASSUME p.atoms = <<>> PROVE atoms = <<>> OBVIOUS
  <2>1. Len(p.atoms) = 0 BY EmptySeq
  <2>2. e < atomIndex + 1 /\ e \in Int /\ atomIndex + 1 \in Int BY <1>10, <2>1
  <2> QED BY <1>7, <2>2, SubSeqEmpty
<1>15. lead \in Seq(Word) BY <1>6, <1>11, EmptySeq
<1>16. line \in RebuiltLine
  BY <1>8, <1>10, <1>11, <1>12, <1>15 DEF RebuiltLine, Kinds
<1>17. LineShape(line)
  <2>1. line.kind \in {"tag", "prose"} BY <1>8, <1>10
  <2>2. CASE atomIndex = 0
    <3>1. /\ line.kind = p.kind /\ line.lead = p.lead /\ line.pad = p.pad
          /\ line.trail = p.trail /\ line.hang = p.hang /\ line.atoms = atoms
      BY <1>6, <1>8, <2>2
    <3> QED BY <1>11, <1>14, <2>1, <3>1 DEF LineShape, IsFilled
  <2>3. CASE atomIndex # 0
    <3>1. line.kind = "prose" /\ line.lead = <<>> /\ line.pad = 0 /\ line.trail = p.trail
      BY <1>6, <1>8, <2>3
    <3>2. p.trail = 0 BY <1>10, <1>11, <1>13, <2>3
    <3> QED BY <3>1, <3>2 DEF LineShape, IsFilled
  <2> QED BY <2>2, <2>3
<1>18. body \in Seq(Word)
  <2>1. i - 1 \in 0 .. Len(job.lines) BY <1>2
  <2> QED BY <1>2, <2>1, BodyWordsType
<1>19. LineWords(line) = lead \o FlattenSeq(atoms) BY <1>8 DEF LineWords
<1>20. Placed = IF atomIndex = 0 THEN body ELSE body \o (p.lead \o before)
  BY <1>4 DEF Placed, PlacedBefore
<1> HIDE DEF before, behind, body
<1>21. Placed \o LineWords(line) = body \o (p.lead \o behind)
  <2>1. PICK b \in Seq(Word), f \in Seq(Word), m \in Seq(Word), l \in Seq(Word) :
          b = body /\ f = before /\ m = FlattenSeq(atoms) /\ l = p.lead
    BY <1>11, <1>12, <1>18
  <2>2. CASE atomIndex = 0
    <3>1. before = <<>>
      <4>1. SubSeq(p.atoms, 1, atomIndex) = <<>>
        <5>1. 0 < 1 /\ 0 \in Int /\ 1 \in Int OBVIOUS
        <5> QED BY <2>2, <5>1, SubSeqEmpty
      <4> QED BY <4>1, FlattenEmpty DEF before
    <3>2. behind = m BY <1>12, <2>1, <3>1, ConcatEmptySeq
    <3> QED BY <1>6, <1>19, <1>20, <2>1, <2>2, <3>2
  <2>3. CASE atomIndex # 0
    <3>1. LineWords(line) = m
      <4>1. <<>> \o m = m BY ConcatEmptySeq
      <4> QED BY <1>6, <1>19, <2>1, <2>3, <4>1
    <3>2. Placed = b \o (l \o f) BY <1>20, <2>1, <2>3
    <3>3. (b \o (l \o f)) \o m = b \o (l \o (f \o m))
      <4>1. Beside(l, f) \in Seq(Word) BY BesideAssociates
      <4>2. Beside(Beside(b, Beside(l, f)), m) = Beside(b, Beside(Beside(l, f), m))
        BY <4>1, BesideAssociates
      <4>3. Beside(Beside(l, f), m) = Beside(l, Beside(f, m)) BY BesideAssociates
      <4>4. Beside(Beside(b, Beside(l, f)), m) = Beside(b, Beside(l, Beside(f, m)))
        BY <4>2, <4>3
      <4> QED BY <4>4 DEF Beside
    <3>6. f \o m = behind BY <1>12, <2>1
    <3> QED BY <2>1, <3>1, <3>2, <3>3, <3>6
  <2> QED BY <2>2, <2>3
<1>22. e < Len(p.atoms) => Placed' = body \o (p.lead \o behind)
  <2> HAVE e < Len(p.atoms)
  <2>1. e # 0 BY <1>10
  <2>2. Placed' = BodyWords(job.lines, i - 1)
                    \o (Paragraph(job, i).lead
                          \o FlattenSeq(SubSeq(Paragraph(job, i).atoms, 1, e)))
    <3>1. job' = job /\ i' = i /\ atomIndex' = e BY <1>1, <1>9
    <3>2. Placed' = IF atomIndex' = 0 THEN BodyWords(job'.lines, i' - 1)
                    ELSE BodyWords(job'.lines, i' - 1)
                           \o (Paragraph(job', i').lead
                                 \o FlattenSeq(SubSeq(Paragraph(job', i').atoms, 1, atomIndex')))
      BY DEF Placed, PlacedBefore
    <3> QED BY <2>1, <3>1, <3>2
  <2> QED BY <1>4, <2>2 DEF body, behind
<1>23. ~ (e < Len(p.atoms)) =>
         /\ p.lead \o behind = Joined(job.lines, i, p.end).words
         /\ Placed' = BodyWords(job.lines, p.end - 1)
  <2> HAVE ~ (e < Len(p.atoms))
  <2>1. e = Len(p.atoms) BY <1>10
  <2>2. behind = FlattenSeq(p.atoms)
    <3>1. SubSeq(p.atoms, 1, Len(p.atoms)) = p.atoms BY <1>11, SubSeqFull
    <3> QED BY <2>1, <3>1 DEF behind
  <2>3. job' = job /\ i' = p.end /\ atomIndex' = 0 BY <1>1, <1>9
  <2>4. Placed' = IF atomIndex' = 0 THEN BodyWords(job'.lines, i' - 1)
                  ELSE BodyWords(job'.lines, i' - 1) \o PlacedBefore(Paragraph(job, i))'
    BY DEF Placed
  <2> QED BY <1>11, <2>2, <2>3, <2>4
<1>24. IsWorded(job.lines) => Placed' = Placed \o LineWords(line)
  <2> HAVE IsWorded(job.lines)
  <2>1. CASE e < Len(p.atoms) BY <1>21, <1>22, <2>1
  <2>2. CASE ~ (e < Len(p.atoms))
    <3>1. \A k \in i .. p.end - 1 : job.lines[k].words # <<>>
      BY <1>2, <1>3, <1>4, ParagraphWorded DEF FilledAt
    <3>2. BodyWords(job.lines, p.end - 1) = body \o Joined(job.lines, i, p.end).words
      BY <1>2, <1>10, <3>1, BodyWordsJoined DEF body
    <3> QED BY <1>21, <1>23, <2>2, <3>2
  <2> QED BY <2>1, <2>2
<1>25. Placed' # <<>> => Placed \o LineWords(line) # <<>>
  <2> SUFFICES ASSUME Placed' # <<>>, body \o (p.lead \o behind) = <<>> PROVE FALSE BY <1>21
  <2>1. ~ (e < Len(p.atoms)) BY <1>22
  <2>2. PICK w \in Seq(Word) : w = p.lead \o behind
    <3>1. behind \in Seq(Word)
      <4>1. before \o FlattenSeq(atoms) \in Seq(Word) BY <1>12, ConcatProperties
      <4> QED BY <1>12, <4>1
    <3> QED BY <1>11, <3>1, ConcatProperties
  <2>3. body = <<>> /\ w = <<>> BY <1>18, <2>2, ConcatEqualIffEmpty
  <2>4. BodyWords(job.lines, p.end - 1) = body
    BY <1>2, <1>10, <1>23, <2>1, <2>2, <2>3, BodyWordsJoined DEF body
  <2> QED BY <1>23, <2>1, <2>3, <2>4
<1> QED BY <1>1, <1>9, <1>16, <1>17, <1>24, <1>25, WrittenLineKeeps

\* Until the second pass no line is written; the other steps write none.
LEMMA WordsStart == FillStart(job) => WordsInv
<1> SUFFICES ASSUME FillStart(job) PROVE WordsInv OBVIOUS
<1>1. rebuilt = <<>> /\ stage = "count" BY DEF FillStart
<1>2. rebuilt \in Seq(RebuiltLine) /\ Len(rebuilt) = 0 BY <1>1, EmptySeq
<1> QED BY <1>1, <1>2 DEF WordsInv

LEMMA WordsStep == IInv /\ WordsInv /\ [FillNext]_fillVars => WordsInv'
<1> SUFFICES ASSUME IInv, WordsInv, [FillNext]_fillVars PROVE WordsInv' OBVIOUS
<1>1. CASE CountCopied \/ CountLine
  <2>1. rebuilt' = rebuilt /\ stage' = stage /\ stage = "count"
    BY <1>1 DEF CountCopied, CountLine
  <2> QED BY <2>1 DEF WordsInv
<1>2. CASE StartAppend
  <2>1. /\ stage = "count" /\ i > Len(job.lines) /\ stage' = "append" /\ i' = 1
        /\ UNCHANGED <<job, atomIndex, rebuilt>>
    BY <1>2 DEF StartAppend
  <2>2. /\ job.lines \in Seq(BodyLine) /\ Len(job.lines) \in Nat
        /\ i \in 1 .. Len(job.lines) + 1
    BY LinesOfJob DEF IInv, TypeOK, Shapes
  <2>3. atomIndex = 0 BY <2>1, <2>2 DEF IInv, InParagraph
  <2>4. rebuilt = <<>> BY <2>1 DEF IInv, SecondPass
  <2>5. Placed' = BodyWords(job.lines, 1 - 1) BY <2>1, <2>3 DEF Placed, BodyWords
  <2>6. BodyWords(job.lines, 1 - 1) = <<>>
    <3>1. [k \in 1 .. 1 - 1 |-> job.lines[k].words] = <<>> OBVIOUS
    <3> QED BY <3>1, FlattenEmpty DEF BodyWords
  <2>7. LinesWords(rebuilt) = <<>>
    <3>1. Len(rebuilt) = 0 BY <2>4, EmptySeq
    <3>2. [k \in 1 .. Len(rebuilt) |-> LineWords(rebuilt[k])] = <<>> BY <3>1
    <3> QED BY <3>2, FlattenEmpty DEF LinesWords
  <2>8. LinesWords(rebuilt)' = LinesWords(rebuilt) BY <2>1 DEF LinesWords, LineWords
  <2> QED BY <2>1, <2>5, <2>6, <2>7, <2>8 DEF WordsInv
<1>3. CASE FinishFill \/ UNCHANGED fillVars
  <2>1. UNCHANGED <<job, i, atomIndex, rebuilt>>
        /\ (stage' # "count" => stage # "count")
    BY <1>3 DEF FinishFill, fillVars
  <2>2. Placed' = Placed BY <2>1 DEF Placed, PlacedBefore
  <2>3. LinesWords(rebuilt)' = LinesWords(rebuilt) BY <2>1 DEF LinesWords, LineWords
  <2>4. IsWorded(job.lines)' = IsWorded(job.lines) BY <2>1 DEF IsWorded, IsFilled
  <2> QED BY <2>1, <2>2, <2>3, <2>4 DEF WordsInv
<1> QED BY <1>1, <1>2, <1>3, CopiedWords, FilledWords DEF FillNext

\* Where the second pass is says how many lines it has written.
LEMMA CapacityFilled == IInv => RebuiltFillsCapacity
<1>1. ASSUME IInv, stage = "done" PROVE Len(rebuilt) = capacity
  <2>1. PICK r \in Nat : r = Len(rebuilt) BY <1>1 DEF IInv, Shapes, IsSeq
  <2>2. Len(counted) = capacity /\ capacity \in Nat /\ Len(job.lines) \in Nat /\ i \in Nat
    BY <1>1, LinesOfJob DEF IInv, Shapes, TypeOK
  <2>3. /\ r <= Len(counted) /\ i > Len(job.lines)
        /\ Position(paragraphIndex - 1) = Visited(r + 1)
    BY <1>1, <2>1 DEF IInv, SecondPass
  <2>4. SUFFICES ASSUME r < Len(counted) PROVE FALSE BY <2>1, <2>2, <2>3
  <2>5. r + 1 \in 1 .. Len(counted) BY <2>2, <2>4
  <2>6. counted[r + 1].i = i BY <2>3, <2>5 DEF Visited, Position
  <2>7. counted[r + 1].i \in 1 .. Len(job.lines) BY <1>1, <2>5 DEF IInv, CountedKnown
  <2> QED BY <2>2, <2>3, <2>6, <2>7
<1>2. IInv /\ stage # "count" => Len(rebuilt) <= capacity
  BY DEF IInv, Shapes, SecondPass
<1> QED BY <1>1, <1>2 DEF RebuiltFillsCapacity

Advance == i' > i \/ (i' = i /\ atomIndex' > atomIndex)

\* A turn of either pass does not stand still.
LEMMA TurnsAdvance ==
  ASSUME IInv, FillNext, stage' = stage
  PROVE  Advance
<1>1. i \in Nat /\ Len(job.lines) \in Nat BY LinesOfJob DEF IInv, TypeOK, Shapes
<1>2. ASSUME CountCopied PROVE Advance BY <1>1, <1>2 DEF Advance, CountCopied
<1>3. ASSUME AppendCopied PROVE Advance BY <1>1, <1>3 DEF Advance, AppendCopied
<1>4. ASSUME StartAppend \/ FinishFill PROVE stage' # stage
  BY <1>4 DEF StartAppend, FinishFill
<1>5. ASSUME NEW p, NEW prefix, NEW e,
             i <= Len(job.lines), FilledAt(i), p = Paragraph(job, i),
             e = FilledLineEnd(p, atomIndex, prefix, job.width),
             IF e < Len(p.atoms) THEN atomIndex' = e /\ i' = i
                                 ELSE atomIndex' = 0 /\ i' = p.end
      PROVE  Advance
  <2>1. /\ Len(p.atoms) \in Nat /\ atomIndex \in 0 .. Len(p.atoms)
        /\ e \in atomIndex .. Len(p.atoms) /\ (e < Len(p.atoms) => e > atomIndex)
        /\ p.end \in i + 1 .. Len(job.lines) + 1
    BY <1>5, TurnBounds
  <2>2. CASE e < Len(p.atoms) BY <1>5, <2>1, <2>2 DEF Advance
  <2>3. CASE ~ (e < Len(p.atoms)) BY <1>1, <1>5, <2>1, <2>3 DEF Advance
  <2> QED BY <2>2, <2>3
<1>6. ASSUME CountLine PROVE Advance
  <2>1. i <= Len(job.lines) /\ FilledAt(i)
    BY <1>6 DEF CountLine, AtParagraph, FilledAt
  <2>2. PICK ps : ps = IF atomIndex # 0 THEN paragraphs
                       ELSE Append(paragraphs, Paragraph(job, i))
    OBVIOUS
  <2>3. ps[Len(ps)] = Paragraph(job, i)
    <3>1. IsSeq(paragraphs) /\ Len(paragraphs) \in Nat BY DEF IInv, Shapes, IsSeq
    <3>2. CASE atomIndex # 0
      <4>1. stage = "count" BY <1>6 DEF CountLine
      <4>2. Len(paragraphs) > 0 /\ paragraphs[Len(paragraphs)].start = i
        BY <3>2, <4>1 DEF IInv, InParagraph
      <4>3. Len(paragraphs) \in 1 .. Len(paragraphs) BY <3>1, <4>2
      <4> QED BY <2>2, <3>2, <4>2, <4>3 DEF IInv, ParagraphsKnown
    <3>3. CASE atomIndex = 0 BY <2>2, <3>1, <3>3, AppendAny
    <3> QED BY <3>2, <3>3
  <2>4. PICK e : e = FilledLineEnd(ps[Len(ps)], atomIndex, CountPrefix(ps[Len(ps)]), job.width)
    OBVIOUS
  <2>5. IF e < Len(ps[Len(ps)].atoms) THEN atomIndex' = e /\ i' = i
                                      ELSE atomIndex' = 0 /\ i' = ps[Len(ps)].end
    BY <1>6, <2>2, <2>4 DEF CountLine, After
  <2> QED BY <1>5, <2>1, <2>3, <2>4, <2>5
<1>7. ASSUME AppendLine PROVE Advance
  <2>1. stage = "append" /\ i <= Len(job.lines) /\ AtKnownParagraph BY <1>7 DEF AppendLine
  <2>2. FilledAt(i) /\ paragraphs[paragraphIndex] = Paragraph(job, i)
    BY <2>1, AppendPosition
  <2>3. PICK p : p = Paragraph(job, i) OBVIOUS
  <2>4. PICK e : e = FilledLineEnd(p, atomIndex, AppendPrefix(p), job.width) OBVIOUS
  <2>5. IF e < Len(p.atoms) THEN atomIndex' = e /\ i' = i
                            ELSE atomIndex' = 0 /\ i' = p.end
    BY <1>7, <2>2, <2>3, <2>4 DEF AppendLine, After
  <2> QED BY <1>5, <2>1, <2>2, <2>3, <2>4, <2>5
<1> QED BY <1>2, <1>3, <1>4, <1>6, <1>7 DEF FillNext

-----------------------------------------------------------------------------
\* The state of fill_body_lines is well typed, and its indices stay inside their
\* arrays, for every body.
THEOREM TypeCorrect == FillSpec => []TypeOK
<1>1. IInv => TypeOK BY DEF IInv
<1> QED BY <1>1, InvariantHolds, PTL

\* The second pass writes no more lines than the first counted, so rebuilt is never
\* written past its end, and when it ends it has written them all.
THEOREM RebuiltFillsCapacityHolds == FillSpec => []RebuiltFillsCapacity
<1> QED BY CapacityFilled, InvariantHolds, PTL

\* Every filled line fits the width, with the closer where it trails the line, or
\* holds one atom.
THEOREM FilledLinesFitHolds == FillSpec => []FilledLinesFit
<1>1. IInv => FilledLinesFit BY DEF IInv
<1> QED BY <1>1, InvariantHolds, PTL

\* No turn of either pass stands still, so both loops end on every body.
THEOREM LinesAdvanceHolds == FillSpec => LinesAdvance
<1>1. IInv => [FillNext /\ stage' = stage => Advance]_fillVars BY TurnsAdvance
<1> QED BY <1>1, InvariantHolds, PTL DEF LinesAdvance, Advance

\* When the second pass ends it has written every word of the body, in order.
LEMMA DoneWords ==
  ASSUME IInv, WordsInv, stage = "done"
  PROVE  LET words == BodyWords(job.lines, Len(job.lines))
         IN  /\ IsWorded(job.lines) => LinesWords(rebuilt) = words
             /\ words # <<>> => LinesWords(rebuilt) # <<>>
<1>1. Len(job.lines) \in Nat /\ i \in 1 .. Len(job.lines) + 1
  BY LinesOfJob DEF IInv, TypeOK, Shapes
<1>2. i > Len(job.lines) BY DEF IInv, SecondPass
<1>3. atomIndex = 0 BY <1>1, <1>2 DEF IInv, InParagraph
<1>4. i - 1 = Len(job.lines) BY <1>1, <1>2
<1> QED BY <1>3, <1>4 DEF WordsInv, Placed

\* A refill loses no word, doubles none and moves none before another, in a body where
\* every line that is filled has a word.  (fill.c puts no space beside a line without,
\* and the words on its two sides may become one.)
THEOREM RefillKeepsWords ==
  FillSpec => [](stage = "done" /\ IsWorded(job.lines) =>
                   LinesWords(rebuilt) = BodyWords(job.lines, Len(job.lines)))
<1>1. IInv /\ WordsInv =>
        (stage = "done" /\ IsWorded(job.lines) =>
           LinesWords(rebuilt) = BodyWords(job.lines, Len(job.lines)))
  BY DoneWords
<1>2. FillInit => WordsInv
  <2> SUFFICES ASSUME NEW j \in FillJob, FillStart(j) PROVE WordsInv BY DEF FillInit
  <2>1. FillStart(job) BY DEF FillStart
  <2> QED BY <2>1, WordsStart
<1> QED BY <1>1, <1>2, WordsStep, InvariantHolds, PTL DEF FillSpec

-----------------------------------------------------------------------------
(* The body of a block.                                                    *)

LEMMA PayloadType ==
  ASSUME NEW t \in Text, NEW k \in 1 .. Len(t.lines)
  PROVE  /\ t.lines[k] \in TextLine
         /\ Payload(t, k).indent \in Nat /\ Payload(t, k).pad \in Nat
         /\ Payload(t, k).trail \in Nat
         /\ Payload(t, k).words \in Seq(Word) /\ Payload(t, k).words = t.lines[k].words
<1>1. t.lines \in Seq(TextLine) /\ t.opener \in Nat BY DEF Text
<1>2. PICK line \in TextLine : line = t.lines[k] BY <1>1, ElementOfSeq
<1>3. line.indent \in Nat /\ line.pad \in Nat /\ line.trail \in Nat /\ line.words \in Seq(Word)
  BY DEF TextLine
<1>4. PICK b : b = DecorationBlanks(t, k) OBVIOUS
<1>5. b \in Nat BY <1>1, <1>2, <1>3, <1>4 DEF DecorationBlanks
<1>6. PICK d \in Int : d = line.indent - b BY <1>3, <1>5
<1>7. Payload(t, k).indent = 0 \/ (Payload(t, k).indent = d /\ ~ (d < 0))
  BY <1>2, <1>4, <1>6 DEF Payload
<1>8. /\ Payload(t, k).words = line.words /\ Payload(t, k).pad = line.pad
      /\ Payload(t, k).trail = 0 \/ Payload(t, k).trail = line.trail
  BY <1>2 DEF Payload
<1>9. Payload(t, k).indent \in Nat BY <1>6, <1>7
<1> QED BY <1>2, <1>3, <1>8, <1>9

Fences == {"none", "markdown", "doxygen"}

LEMMA ClassifyType ==
  ASSUME NEW state, state.fence \in Fences, state.inTag \in BOOLEAN, NEW payload,
         NEW isDoxygen \in BOOLEAN
  PROVE  /\ Classify(state, payload, isDoxygen).fence \in Fences
         /\ Classify(state, payload, isDoxygen).inTag \in BOOLEAN
         /\ Classify(state, payload, isDoxygen).kind \in Kinds
BY DEF Classify, Fences, Kinds

ReadState == [fence : Fences, inTag : BOOLEAN, lines : Seq(BodyLine)]

LEMMA AddLineType ==
  ASSUME NEW t \in Text, NEW k \in 1 .. Len(t.lines), NEW state \in ReadState
  PROVE  /\ AddLine(t, state, k) \in ReadState
         /\ \/ t.lines[k].words = <<>> /\ AddLine(t, state, k) = state
            \/ \E line \in BodyLine :
                 /\ AddLine(t, state, k).lines = Append(state.lines, line)
                 /\ line.words = t.lines[k].words
<1>1. PICK payload : payload = Payload(t, k) OBVIOUS
<1>2. PICK next : next = Classify(state, payload, IsDoxygen(t)) OBVIOUS
<1>3. next.fence \in Fences /\ next.inTag \in BOOLEAN /\ next.kind \in Kinds
  <2>1. state.fence \in Fences /\ state.inTag \in BOOLEAN BY DEF ReadState
  <2>2. IsDoxygen(t) \in BOOLEAN BY DEF IsDoxygen
  <2> QED BY <1>2, <2>1, <2>2, ClassifyType
<1>4. PICK line : line = [kind   |-> next.kind,
                          indent |-> IF next.kind = "prose" THEN 0 ELSE payload.indent,
                          words  |-> payload.words,
                          pad    |-> payload.pad,
                          trail  |-> payload.trail]
  OBVIOUS
<1>5. /\ payload.indent \in Nat /\ payload.pad \in Nat /\ payload.trail \in Nat
      /\ payload.words \in Seq(Word) /\ payload.words = t.lines[k].words
  BY <1>1, PayloadType
<1>6. line \in BodyLine BY <1>3, <1>4, <1>5 DEF BodyLine
<1>7. AddLine(t, state, k) =
        IF IsDropped(t, k) THEN state
        ELSE [fence |-> next.fence, inTag |-> next.inTag, lines |-> Append(state.lines, line)]
  BY <1>1, <1>2, <1>4 DEF AddLine
<1>8. CASE IsDropped(t, k)
  <2>1. payload.words = <<>> BY <1>1, <1>8 DEF IsDropped, IsEmpty
  <2> QED BY <1>5, <1>7, <1>8, <2>1
<1>9. CASE ~ IsDropped(t, k)
  <2>1. Append(state.lines, line) \in Seq(BodyLine) BY <1>6, AppendProperties DEF ReadState
  <2>2. line.words = t.lines[k].words BY <1>4, <1>5
  <2> QED BY <1>3, <1>6, <1>7, <1>9, <2>1, <2>2 DEF ReadState
<1> QED BY <1>8, <1>9

BodyFold(g, t) ==
  g = [S \in SUBSET DOMAIN [k \in 1 .. Len(t.lines) |-> k] |->
         IF S = {} THEN NoLines
         ELSE AddLine(t, g[S \ {Max(S)}], [k \in 1 .. Len(t.lines) |-> k][Max(S)])]

\* The lines that were read of the first k of a block.
Reads(h, t) ==
  /\ h \in [0 .. Len(t.lines) -> ReadState]
  /\ h[0] = NoLines
  /\ \A k \in 1 .. Len(t.lines) : h[k] = AddLine(t, h[k - 1], k)

LEMMA NoLinesType == NoLines \in ReadState
<1>1. <<>> \in Seq(BodyLine) BY EmptySeq
<1> QED BY <1>1 DEF NoLines, ReadState, Fences

LEMMA BodyReads ==
  ASSUME NEW t \in Text
  PROVE  \E h : Reads(h, t) /\ Body(t) = h[Len(t.lines)].lines
<1> DEFINE n == Len(t.lines)
           places == [k \in 1 .. Len(t.lines) |-> k]
           step == [p \in ReadState \X (1 .. n) |-> AddLine(t, p[1], p[2])]
           f == CHOOSE g : BodyFold(g, t)
<1>1. n \in Nat
  <2>1. t.lines \in Seq(TextLine) BY DEF Text
  <2> QED BY <2>1, LenProperties
<1>2. DOMAIN places = 1 .. n /\ places \in [1 .. n -> 1 .. n]
      /\ \A k \in 1 .. n : places[k] = k
  OBVIOUS
<1>3. step \in [ReadState \X (1 .. n) -> ReadState] BY AddLineType
<1>4. \E g : BodyFold(g, t)
  <2>1. ASSUME NEW state \in ReadState, NEW k \in 1 .. n
        PROVE  step[<<state, k>>] = AddLine(t, state, k)
    OBVIOUS
  <2>2. PICK g : Folds(g, n, ReadState, NoLines, step, places)
    <3> HIDE DEF step, n, places
    <3> QED BY <1>1, <1>2, <1>3, NoLinesType, FoldExists
  <2> HIDE DEF step
  <2>3. ASSUME NEW S \in SUBSET (1 .. n)
        PROVE  g[S] = IF S = {} THEN NoLines ELSE AddLine(t, g[S \ {Max(S)}], places[Max(S)])
    <3> HIDE DEF n, places
    <3>1. g[S] = IF S = {} THEN NoLines ELSE step[<<g[S \ {Max(S)}], places[Max(S)]>>]
      BY <2>2 DEF Folds
    <3>2. CASE S # {}
      <4>1. Max(S) \in 1 .. n BY <1>1, <3>2, MaxProperties
      <4>2. places[Max(S)] \in 1 .. n BY <1>2, <4>1
      <4>3. g[S \ {Max(S)}] \in ReadState BY <2>2 DEF Folds
      <4> QED BY <2>1, <3>1, <3>2, <4>2, <4>3
    <3> QED BY <3>1, <3>2
  <2>4. g = [S \in SUBSET (1 .. n) |-> g[S]] BY <2>2 DEF Folds
  <2>5. BodyFold(g, t)
    <3> HIDE DEF n, places
    <3>1. g = [S \in SUBSET DOMAIN places |->
                 IF S = {} THEN NoLines ELSE AddLine(t, g[S \ {Max(S)}], places[Max(S)])]
      BY <1>2, <2>3, <2>4
    <3> QED BY <3>1 DEF BodyFold, places
  <2> QED BY <2>5
<1>5. BodyFold(f, t) BY <1>4
<1>6. Body(t) = f[1 .. n].lines
  BY <1>2 DEF Body, FoldLeft, MapThenFoldSet, BodyFold
<1> HIDE DEF f, step
<1>7. ASSUME NEW S \in SUBSET (1 .. n)
      PROVE  f[S] = IF S = {} THEN NoLines ELSE AddLine(t, f[S \ {Max(S)}], places[Max(S)])
  BY <1>2, <1>5 DEF BodyFold
<1> HIDE DEF places
<1> DEFINE h == [k \in 0 .. n |-> f[1 .. k]]
<1>8. f[1 .. 0] = NoLines
  <2>1. 1 .. 0 = {} /\ {} \in SUBSET (1 .. n) OBVIOUS
  <2> QED BY <1>7, <2>1
<1>9. ASSUME NEW k \in 1 .. n PROVE f[1 .. k] = AddLine(t, f[1 .. k - 1], k)
  <2>1. k \in Nat /\ k >= 1 /\ k <= n BY <1>1
  <2>2. k \in 1 .. k /\ 1 .. k \in SUBSET (1 .. n) BY <1>1, <2>1
  <2>3. Max(1 .. k) = k BY <2>1, <2>2, MaxOfInterval
  <2>4. (1 .. k) \ {k} = 1 .. k - 1 BY <2>1
  <2> QED BY <1>2, <1>7, <2>2, <2>3, <2>4
<1> DEFINE T == {k \in Nat : k <= n /\ f[1 .. k] \notin ReadState}
<1>10. T = {}
  <2> SUFFICES ASSUME T # {} PROVE FALSE OBVIOUS
  <2>1. T \in SUBSET Nat OBVIOUS
  <2>2. PICK k \in T : \A m \in T : k <= m BY <2>1, LeastProperties
  <2>3. k \in Nat /\ k <= n /\ f[1 .. k] \notin ReadState BY <2>2
  <2>4. k # 0 BY <1>8, <2>3, NoLinesType
  <2>5. k - 1 \in Nat /\ k - 1 <= n /\ ~ (k <= k - 1) /\ k \in 1 .. n BY <1>1, <2>3, <2>4
  <2>6. f[1 .. k - 1] \in ReadState BY <2>2, <2>5
  <2> QED BY <1>9, <2>3, <2>5, <2>6, AddLineType
<1>11. \A k \in 0 .. n : f[1 .. k] \in ReadState BY <1>1, <1>10
<1>12. Reads(h, t)
  <2>1. h \in [0 .. n -> ReadState] BY <1>11
  <2>2. h[0] = NoLines BY <1>1, <1>8
  <2>3. ASSUME NEW k \in 1 .. n PROVE h[k] = AddLine(t, h[k - 1], k)
    <3>1. k \in 0 .. n /\ k - 1 \in 0 .. n BY <1>1
    <3> QED BY <1>9, <3>1
  <2> HIDE DEF h
  <2> QED BY <2>1, <2>2, <2>3 DEF Reads
<1>13. h[n] = f[1 .. n] BY <1>1
<1> HIDE DEF h
<1> QED BY <1>6, <1>12, <1>13

\* The words of the first lines of a body depend on their words alone.
LEMMA BodyWordsSame ==
  ASSUME NEW n \in Nat, NEW a, NEW b, \A k \in 1 .. n : a[k].words = b[k].words
  PROVE  BodyWords(a, n) = BodyWords(b, n)
<1>1. [k \in 1 .. n |-> a[k].words] = [k \in 1 .. n |-> b[k].words] OBVIOUS
<1> QED BY <1>1 DEF BodyWords

LEMMA BodyWordsAppend ==
  ASSUME NEW lines \in Seq(BodyLine), NEW line \in BodyLine
  PROVE  BodyWords(Append(lines, line), Len(Append(lines, line)))
           = BodyWords(lines, Len(lines)) \o line.words
<1>1. PICK n \in Nat : n = Len(lines) BY LenProperties
<1>2. PICK longer : longer = Append(lines, line) OBVIOUS
<1>3. /\ longer \in Seq(BodyLine) /\ Len(longer) = n + 1
      /\ \A k \in 1 .. n : longer[k] = lines[k]
      /\ longer[n + 1] = line
  BY <1>1, <1>2, AppendProperties
<1>4. n + 1 \in 1 .. Len(longer) /\ (n + 1) - 1 = n BY <1>3
<1>5. BodyWords(longer, n + 1) = BodyWords(longer, n) \o line.words
  BY <1>3, <1>4, BodyWordsStep
<1>6. BodyWords(longer, n) = BodyWords(lines, n) BY <1>3, BodyWordsSame
<1> QED BY <1>1, <1>2, <1>3, <1>5, <1>6

\* Reading a block into a body loses no word: a line that is dropped has none.
LEMMA BodyOfBlock ==
  ASSUME NEW t \in Text
  PROVE  Body(t) \in Seq(BodyLine) /\ BodyWords(Body(t), Len(Body(t))) = TextWords(t)
<1>1. PICK h : Reads(h, t) /\ Body(t) = h[Len(t.lines)].lines BY BodyReads
<1>2. t.lines \in Seq(TextLine) BY DEF Text
<1>3. PICK n \in Nat : n = Len(t.lines) BY <1>2, LenProperties
<1>4. /\ \A k \in 0 .. n : h[k] \in ReadState
      /\ h[0] = NoLines
      /\ \A k \in 1 .. n : h[k] = AddLine(t, h[k - 1], k)
  BY <1>1, <1>3 DEF Reads
<1> DEFINE All(lines) == BodyWords(lines, Len(lines))
           T == {k \in Nat : k <= n /\ All(h[k].lines) # BodyWords(t.lines, k)}
<1>5. T = {}
  <2> SUFFICES ASSUME T # {} PROVE FALSE OBVIOUS
  <2>1. T \in SUBSET Nat OBVIOUS
  <2>2. PICK k \in T : \A m \in T : k <= m BY <2>1, LeastProperties
  <2>3. k \in Nat /\ k <= n /\ All(h[k].lines) # BodyWords(t.lines, k) BY <2>2
  <2>4. k # 0
    <3>1. h[0].lines = <<>> /\ Len(<<>>) = 0 BY <1>4, EmptySeq DEF NoLines
    <3>2. BodyWords(<<>>, 0) = BodyWords(t.lines, 0)
      <4>1. 0 \in Nat /\ \A m \in 1 .. 0 : <<>>[m].words = t.lines[m].words OBVIOUS
      <4> QED BY <4>1, BodyWordsSame
    <3> QED BY <2>3, <3>1, <3>2
  <2>5. k - 1 \in Nat /\ k - 1 <= n /\ ~ (k <= k - 1) /\ k \in 1 .. n /\ k - 1 \in 0 .. n
    BY <2>3, <2>4
  <2>6. All(h[k - 1].lines) = BodyWords(t.lines, k - 1) BY <2>2, <2>5
  <2> HIDE DEF T
  <2>7. PICK state \in ReadState : state = h[k - 1] BY <1>4, <2>5
  <2>8. h[k] = AddLine(t, state, k) BY <1>4, <2>5, <2>7
  <2>9. BodyWords(t.lines, k) = BodyWords(t.lines, k - 1) \o t.lines[k].words
    BY <1>2, <1>3, <2>5, BodyWordsStep
  <2>10. k \in 1 .. Len(t.lines) BY <1>3, <2>5
  <2>11. state.lines \in Seq(BodyLine) BY DEF ReadState
  <2>12. CASE t.lines[k].words = <<>> /\ h[k] = state
    <3>1. BodyWords(t.lines, k - 1) \in Seq(Word) BY <1>2, <1>3, <2>5, BodyWordsType
    <3>2. BodyWords(t.lines, k - 1) \o <<>> = BodyWords(t.lines, k - 1)
      BY <3>1, ConcatEmptySeq
    <3> QED BY <2>3, <2>6, <2>7, <2>9, <2>12, <3>2
  <2>13. CASE \E line \in BodyLine : /\ h[k].lines = Append(state.lines, line)
                                    /\ line.words = t.lines[k].words
    <3>1. PICK line \in BodyLine : /\ h[k].lines = Append(state.lines, line)
                                   /\ line.words = t.lines[k].words
      BY <2>13
    <3>2. All(h[k].lines) = All(state.lines) \o line.words BY <2>11, <3>1, BodyWordsAppend
    <3> QED BY <2>3, <2>6, <2>7, <2>9, <3>1, <3>2
  <2> QED BY <2>8, <2>10, <2>12, <2>13, AddLineType
<1>6. All(h[n].lines) = BodyWords(t.lines, n)
  <2>1. n \notin T BY <1>5
  <2> QED BY <2>1
<1>7. h[n].lines \in Seq(BodyLine)
  <2>1. h[n] \in ReadState BY <1>4
  <2> QED BY <2>1 DEF ReadState
<1>8. BodyWords(t.lines, Len(t.lines)) = TextWords(t) BY DEF BodyWords, TextWords
<1> QED BY <1>1, <1>3, <1>6, <1>7, <1>8

LEMMA NameColumnsType ==
  ASSUME NEW line \in BodyLine, IsNamedTag(line)
  PROVE  NameColumns(line) \in Nat
<1>1. line.words \in Seq(Word) BY DEF BodyLine
<1>2. PICK n \in Nat : n = Len(line.words) BY <1>1, LenProperties
<1>3. n > 1 BY <1>2 DEF IsNamedTag, DescriptionOffset
<1>4. 2 \in 1 .. n BY <1>3
<1>5. line.words[2] \in Word BY <1>1, <1>2, <1>4, ElementOfSeq
<1> QED BY <1>5, WordAssumption DEF NameColumns

\* No name is wider than the widest of its command.
LEMMA PadIsNumber ==
  ASSUME NEW lines \in Seq(BodyLine), NEW k \in 1 .. Len(lines), IsNamedTag(lines[k])
  PROVE  /\ NameColumnsMax(lines, k) \in Nat
         /\ NameColumnsMax(lines, k) - NameColumns(lines[k]) \in Nat
<1>1. Len(lines) \in Nat BY LenProperties
<1>2. PICK P : P = Siblings(lines, k) OBVIOUS
<1>3. P \in SUBSET (1 .. Len(lines)) /\ k \in P BY <1>2 DEF Siblings
<1>4. ASSUME NEW n \in P PROVE NameColumns(lines[n]) \in Nat
  <2>1. lines[n] \in BodyLine /\ IsNamedTag(lines[n]) BY <1>2, <1>3, ElementOfSeq DEF Siblings
  <2> QED BY <2>1, NameColumnsType
<1>5. PICK f : f = [n \in P |-> NameColumns(lines[n])] OBVIOUS
<1>6. f \in [P -> Nat] /\ \A n \in P : f[n] = NameColumns(lines[n]) BY <1>4, <1>5
<1>7. PICK S : S = {f[n] : n \in P} OBVIOUS
<1>8. Max(S) \in S /\ \A n \in P : Max(S) >= f[n] BY <1>1, <1>3, <1>6, <1>7, MaxOfPlaces
<1>9. NameColumnsMax(lines, k) = Max(S)
  <2>1. S = {NameColumns(lines[n]) : n \in P} BY <1>6, <1>7
  <2> QED BY <1>2, <2>1 DEF NameColumnsMax
<1>10. Max(S) \in Nat BY <1>6, <1>7, <1>8
<1>11. PICK a \in Nat, b \in Nat : a = Max(S) /\ b = f[k] BY <1>3, <1>6, <1>10
<1>12. a >= b BY <1>3, <1>8, <1>11
<1> QED BY <1>3, <1>6, <1>9, <1>11, <1>12

\* The alignment moves descriptions, and no word to another line.
LEMMA AlignedBody ==
  ASSUME NEW lines \in Seq(BodyLine)
  PROVE  /\ Aligned(lines) \in Seq(BodyLine) /\ Len(Aligned(lines)) = Len(lines)
         /\ \A k \in 1 .. Len(lines) : /\ Aligned(lines)[k].words = lines[k].words
                                       /\ Aligned(lines)[k].kind = lines[k].kind
<1>1. PICK n \in Nat : n = Len(lines) BY LenProperties
<1>2. ASSUME NEW k \in 1 .. n
      PROVE  /\ Aligned(lines)[k] \in BodyLine /\ Aligned(lines)[k].words = lines[k].words
             /\ Aligned(lines)[k].kind = lines[k].kind
  <2>1. lines[k] \in BodyLine BY <1>1, ElementOfSeq
  <2>2. CASE IsNamedTag(lines[k])
    <3>1. Aligned(lines)[k] = AlignedLine(lines, k) BY <1>1, <2>2 DEF Aligned
    <3>2. PICK pad : pad = IF HasDescription(lines[k]) \/ IsContinued(lines, k)
                           THEN NameColumnsMax(lines, k) - NameColumns(lines[k]) ELSE 0
      OBVIOUS
    <3>3. pad \in Nat BY <1>1, <2>2, <3>2, PadIsNumber
    <3>4. PICK trail : trail = IF HasDescription(lines[k]) THEN lines[k].trail ELSE 0 OBVIOUS
    <3>5. trail \in Nat BY <2>1, <3>4 DEF BodyLine
    <3>6. AlignedLine(lines, k) = [lines[k] EXCEPT !.pad = pad, !.trail = trail]
      BY <3>2, <3>4 DEF AlignedLine
    <3> QED BY <2>1, <3>1, <3>3, <3>5, <3>6 DEF BodyLine
  <2>3. CASE ~ IsNamedTag(lines[k])
    <3>1. Aligned(lines)[k] = lines[k] BY <1>1, <2>3 DEF Aligned
    <3> QED BY <2>1, <3>1
  <2> QED BY <2>2, <2>3
<1>3. Aligned(lines) = [k \in 1 .. n |-> Aligned(lines)[k]] BY <1>1 DEF Aligned
<1>4. Aligned(lines) \in [1 .. n -> BodyLine] BY <1>2, <1>3
<1> QED BY <1>1, <1>2, <1>4, SeqOfMap

LEMMA FillOfType ==
  ASSUME NEW t \in Text, NEW hasCloser \in BOOLEAN
  PROVE  /\ FillOf(t, hasCloser) \in FillJob
         /\ BodyWords(FillOf(t, hasCloser).lines, Len(FillOf(t, hasCloser).lines)) = TextWords(t)
         /\ IsWorded(Body(t)) => IsWorded(FillOf(t, hasCloser).lines)
<1>1. PICK lines \in Seq(BodyLine) : lines = Body(t) BY BodyOfBlock
<1>2. /\ Aligned(lines) \in Seq(BodyLine) /\ Len(Aligned(lines)) = Len(lines)
      /\ \A k \in 1 .. Len(lines) : /\ Aligned(lines)[k].words = lines[k].words
                                    /\ Aligned(lines)[k].kind = lines[k].kind
  BY AlignedBody
<1>3. t.opener \in Nat BY DEF Text
<1>4. PrefixColumns(t) \in Nat /\ PrefixColumnsFirst(t) \in Nat
  BY <1>3 DEF PrefixColumns, PrefixColumnsFirst
<1>5. Width \in Nat BY RewriteAssumption
<1>6. FillOf(t, hasCloser) \in FillJob BY <1>1, <1>2, <1>4, <1>5 DEF FillOf, FillJob
<1>7. FillOf(t, hasCloser).lines = Aligned(lines) BY <1>1 DEF FillOf
<1>8. BodyWords(Aligned(lines), Len(lines)) = BodyWords(lines, Len(lines))
  <2>1. Len(lines) \in Nat BY LenProperties
  <2> QED BY <1>2, <2>1, BodyWordsSame
<1>9. IsWorded(Body(t)) => IsWorded(FillOf(t, hasCloser).lines)
  BY <1>1, <1>2, <1>7 DEF IsWorded, IsFilled
<1> QED BY <1>1, <1>2, <1>6, <1>7, <1>8, <1>9, BodyOfBlock

-----------------------------------------------------------------------------
(* The block that is written from the filled lines.                        *)

LEMMA StarKinds == "none" \in Stars /\ "aligned" \in Stars BY DEF Stars

LEMMA WrittenType ==
  ASSUME NEW star \in Stars, NEW columns \in Nat, NEW line \in RebuiltLine
  PROVE  /\ Written(star, columns, line) \in TextLine
         /\ Written(star, columns, line).words = LineWords(line)
<1>1. LineWords(line) \in Seq(Word) BY LineWordsType
<1>2. line.hang \in Nat /\ line.pad \in Nat /\ line.trail \in Nat BY DEF RebuiltLine
<1>3. PICK n \in Nat : n = LineIndent(line) BY <1>2 DEF LineIndent
<1>4. PICK indent \in Nat :
        indent = IF LineWords(line) = <<>> /\ n = 0 THEN 0 ELSE columns + n
  BY <1>3
<1>5. Written(star, columns, line) =
        [star |-> star, indent |-> indent, words |-> LineWords(line), pad |-> line.pad,
         trail |-> line.trail]
  BY <1>3, <1>4 DEF Written
<1> QED BY <1>1, <1>2, <1>4, <1>5 DEF TextLine

LEMMA NoTextType == NoText \in TextLine /\ NoText.words = <<>>
<1>1. <<>> \in Seq(Word) BY EmptySeq
<1> QED BY <1>1 DEF NoText, TextLine, Stars

LEMMA WithCloserType ==
  ASSUME NEW line \in TextLine
  PROVE  WithCloser(line) \in TextLine /\ WithCloser(line).words = line.words
<1>1. line.indent + 1 \in Nat /\ line.trail + 1 \in Nat BY DEF TextLine
<1> QED BY <1>1 DEF WithCloser, TextLine

\* What is written before the lines under the opener, and those lines.
Opened(t, lines) == IF IsOpenerEmpty(t) THEN NoText ELSE Written("none", 1, lines[1])
Others(t, lines) == IF IsOpenerEmpty(t) THEN lines ELSE Tail(lines)
Under(t, lines, star, columns) ==
  [k \in 1 .. Len(Others(t, lines)) |-> Written(star, columns, Others(t, lines)[k])]

OpenerLines(t) == IF IsOpenerEmpty(t) THEN 1 ELSE 0

\* The lines of `block` from the place behind `skipped` are those that were filled.
IsWrittenFrom(block, skipped, lines) ==
  /\ \A k \in 1 .. skipped : block[k].words = <<>>
  /\ \A k \in 1 .. Len(lines) : block[skipped + k].words = LineWords(lines[k])

LEMMA OthersProperties ==
  ASSUME NEW t, NEW lines \in Seq(RebuiltLine), lines # <<>>
  PROVE  /\ Others(t, lines) \in Seq(RebuiltLine)
         /\ Len(Others(t, lines)) = OpenerLines(t) + Len(lines) - 1
         /\ \A k \in 1 .. Len(Others(t, lines)) :
              Others(t, lines)[k] = lines[k + 1 - OpenerLines(t)]
<1>1. Len(lines) \in Nat \ {0} BY EmptySeq
<1>2. CASE IsOpenerEmpty(t)
  <2>1. Others(t, lines) = lines /\ OpenerLines(t) = 1 BY <1>2 DEF Others, OpenerLines
  <2>2. \A k \in 1 .. Len(lines) : k + 1 - 1 = k BY <1>1
  <2> QED BY <1>1, <2>1, <2>2
<1>3. CASE ~ IsOpenerEmpty(t)
  <2>1. Others(t, lines) = Tail(lines) /\ OpenerLines(t) = 0 BY <1>3 DEF Others, OpenerLines
  <2>2. /\ Tail(lines) \in Seq(RebuiltLine) /\ Len(Tail(lines)) = Len(lines) - 1
        /\ \A k \in 1 .. Len(Tail(lines)) : Tail(lines)[k] = lines[k + 1]
    BY HeadTailProperties
  <2>3. \A k \in 1 .. Len(Tail(lines)) : k + 1 - 0 = k + 1 BY <1>1, <2>2
  <2> QED BY <1>1, <2>1, <2>2, <2>3
<1> QED BY <1>2, <1>3

LEMMA OpenedAndUnder ==
  ASSUME NEW t \in Text, NEW lines \in Seq(RebuiltLine), lines # <<>>,
         NEW star \in Stars, NEW columns \in Nat
  PROVE  LET block == Single(Opened(t, lines)) \o Under(t, lines, star, columns)
         IN  /\ block \in Seq(TextLine) /\ Len(block) = OpenerLines(t) + Len(lines)
             /\ IsWrittenFrom(block, OpenerLines(t), lines)
             /\ block[1] = Opened(t, lines)
<1>1. PICK n \in Nat \ {0} : n = Len(lines) BY EmptySeq
<1>2. PICK a \in {0, 1} : a = OpenerLines(t) /\ (a = 1 <=> IsOpenerEmpty(t)) BY DEF OpenerLines
<1>3. PICK m \in Nat : m = a + n - 1 BY <1>1, <1>2
<1>4. PICK others \in Seq(RebuiltLine) :
        /\ others = Others(t, lines) /\ Len(others) = m
        /\ \A k \in 1 .. m : others[k] = lines[k + 1 - a]
  BY <1>1, <1>2, <1>3, OthersProperties
<1>5. PICK under : under = Under(t, lines, star, columns) OBVIOUS
<1>6. under = [k \in 1 .. m |-> Written(star, columns, others[k])] BY <1>4, <1>5 DEF Under
<1>7. ASSUME NEW k \in 1 .. m
      PROVE  /\ Written(star, columns, others[k]) \in TextLine
             /\ under[k] = Written(star, columns, others[k])
             /\ under[k].words = LineWords(lines[k + 1 - a])
  <2>1. others[k] \in RebuiltLine BY <1>4, ElementOfSeq
  <2>2. under[k] = Written(star, columns, others[k]) BY <1>6
  <2>3. others[k] = lines[k + 1 - a] BY <1>4
  <2> QED BY <2>1, <2>2, <2>3, WrittenType
<1>8. under \in Seq(TextLine) /\ Len(under) = m
  <2>1. under \in [1 .. m -> TextLine] BY <1>6, <1>7
  <2> QED BY <2>1, SeqOfMap
<1>9. PICK opened : opened = Opened(t, lines) OBVIOUS
<1>10. /\ opened \in TextLine
       /\ a = 1 => opened.words = <<>>
       /\ a = 0 => opened.words = LineWords(lines[1])
  <2>1. lines[1] \in RebuiltLine
    <3>1. 1 \in 1 .. n BY <1>1
    <3> QED BY <1>1, <3>1, ElementOfSeq
  <2>2. Written("none", 1, lines[1]) \in TextLine
        /\ Written("none", 1, lines[1]).words = LineWords(lines[1])
    BY StarKinds, <2>1, WrittenType
  <2>3. CASE a = 1
    <3>1. opened = NoText BY <1>2, <1>9, <2>3 DEF Opened
    <3> QED BY <2>3, <3>1, NoTextType
  <2>4. CASE a = 0
    <3>1. opened = Written("none", 1, lines[1]) BY <1>2, <1>9, <2>4 DEF Opened
    <3>2. a # 1 BY <2>4
    <3> QED BY <2>2, <3>1, <3>2
  <2> QED BY <2>3, <2>4
<1>11. Single(opened) \in Seq(TextLine) /\ Len(Single(opened)) = 1 /\ Single(opened)[1] = opened
  BY <1>10, SingleType
<1>12. PICK block : block = Single(opened) \o under OBVIOUS
<1>13. /\ block \in Seq(TextLine) /\ Len(block) = 1 + m
       /\ \A k \in 1 .. 1 + m : block[k] = IF k <= 1 THEN Single(opened)[k] ELSE under[k - 1]
  <2>1. PICK one : one = Single(opened) OBVIOUS
  <2>2. one \in Seq(TextLine) /\ Len(one) = 1 BY <1>11, <2>1
  <2>3. /\ one \o under \in Seq(TextLine) /\ Len(one \o under) = Len(one) + Len(under)
        /\ \A k \in 1 .. Len(one) + Len(under) :
             (one \o under)[k] = IF k <= Len(one) THEN one[k] ELSE under[k - Len(one)]
    BY <1>8, <2>2, ConcatProperties, Zenon
  <2>4. /\ one \o under \in Seq(TextLine) /\ Len(one \o under) = 1 + m
        /\ \A k \in 1 .. 1 + m : (one \o under)[k] = IF k <= 1 THEN one[k] ELSE under[k - 1]
    BY <1>8, <2>2, <2>3
  <2> QED BY <1>12, <2>1, <2>4
<1>14. block[1] = opened
  <2>1. 1 \in 1 .. 1 + m /\ 1 <= 1 BY <1>3
  <2> QED BY <1>11, <1>13, <2>1
<1>15. \A k \in 1 .. a : block[k].words = <<>> BY <1>2, <1>10, <1>14
<1>16. ASSUME NEW k \in 1 .. n PROVE block[a + k].words = LineWords(lines[k])
  <2>1. CASE a + k = 1
    <3>1. a = 0 /\ k = 1 BY <1>2, <2>1
    <3> QED BY <1>10, <1>14, <3>1
  <2>2. CASE a + k # 1
    <3>1. a + k \in 1 .. 1 + m /\ ~ (a + k <= 1) /\ a + k - 1 \in 1 .. m
          /\ (a + k - 1) + 1 - a = k
      BY <1>1, <1>2, <1>3, <2>2
    <3>2. block[a + k] = under[a + k - 1] BY <1>13, <3>1
    <3> QED BY <1>7, <3>1, <3>2
  <2> QED BY <2>1, <2>2
<1>17. IsWrittenFrom(block, a, lines) BY <1>1, <1>15, <1>16 DEF IsWrittenFrom
<1>18. 1 + m = a + n BY <1>1, <1>2, <1>3
<1> QED BY <1>1, <1>2, <1>5, <1>9, <1>12, <1>13, <1>14, <1>17, <1>18

LEMMA FlattenSingle == FlattenSeq(Single(<<>>)) = <<>>
<1>1. PICK none \in Seq(Word) : none = <<>> BY EmptySeq
<1>2. PICK tt : tt = Single(none) OBVIOUS
<1>3. tt \in Seq(Seq(Word)) /\ Len(tt) = 1 /\ tt[1] = none BY <1>2, SingleType
<1>4. PICK ss \in Seq(Seq(Word)) : ss = <<>> /\ Len(ss) = 0 BY EmptySeq
<1>5. FlattenSeq(tt) = FlattenSeq(ss) \o tt[Len(tt)]
  <2>1. Len(tt) = Len(ss) + 1 /\ \A k \in 1 .. Len(ss) : tt[k] = ss[k] BY <1>3, <1>4
  <2> QED BY <1>3, <1>4, <2>1, FlattenStep
<1>6. FlattenSeq(ss) = <<>> BY <1>4, FlattenEmpty
<1>7. <<>> \o none = none BY <1>1, ConcatEmptySeq
<1> QED BY <1>1, <1>2, <1>3, <1>5, <1>6, <1>7

\* A block holds the words of the filled lines that are written in it, behind an
\* opener of its own if there is one.
LEMMA WrittenWords ==
  ASSUME NEW block \in Seq(TextLine), NEW lines \in Seq(RebuiltLine), NEW a \in {0, 1},
         Len(block) = a + Len(lines), IsWrittenFrom(block, a, lines)
  PROVE  BodyWords(block, Len(block)) = LinesWords(lines)
<1>1. PICK n \in Nat : n = Len(lines) BY LenProperties
<1>2. PICK pieces \in Seq(Seq(Word)) :
        pieces = [k \in 1 .. n |-> LineWords(lines[k])] /\ Len(pieces) = n
  BY <1>1, LinePieces
<1>3. LinesWords(lines) = FlattenSeq(pieces) BY <1>1, <1>2 DEF LinesWords
<1>4. PICK all \in Seq(Seq(Word)) :
        all = [k \in 1 .. a + n |-> block[k].words] /\ Len(all) = a + n
  <2>1. a + n \in 0 .. Len(block) BY <1>1
  <2>2. TextLine \in {BodyLine, TextLine} OBVIOUS
  <2> QED BY <2>1, <2>2, PiecesType
<1>5. BodyWords(block, Len(block)) = FlattenSeq(all) BY <1>1, <1>4 DEF BodyWords
<1>6. \A k \in 1 .. n : block[a + k].words = LineWords(lines[k]) BY <1>1 DEF IsWrittenFrom
<1>7. CASE a = 0
  <2>1. ASSUME NEW k \in 1 .. n PROVE block[k].words = LineWords(lines[k])
    <3>1. a + k = k BY <1>7
    <3> QED BY <1>6, <3>1
  <2>2. a + n = n BY <1>7
  <2>3. all = pieces BY <1>2, <1>4, <2>1, <2>2
  <2> QED BY <1>3, <1>5, <2>3
<1>8. CASE a = 1
  <2>1. PICK none \in Seq(Word) : none = <<>> BY EmptySeq
  <2>2. PICK one : one = Single(none) OBVIOUS
  <2>3. one \in Seq(Seq(Word)) /\ Len(one) = 1 /\ one[1] = none BY <2>2, SingleType
  <2>4. PICK whole : whole = one \o pieces OBVIOUS
  <2>5. /\ whole \in Seq(Seq(Word)) /\ Len(whole) = Len(one) + Len(pieces)
        /\ \A k \in 1 .. Len(one) + Len(pieces) :
             whole[k] = IF k <= Len(one) THEN one[k] ELSE pieces[k - Len(one)]
    <3> DEFINE P == Seq(Word)
    <3>1. one \in Seq(P) /\ pieces \in Seq(P) BY <2>3
    <3> HIDE DEF P
    <3>2. /\ one \o pieces \in Seq(P) /\ Len(one \o pieces) = Len(one) + Len(pieces)
          /\ \A k \in 1 .. Len(one) + Len(pieces) :
               (one \o pieces)[k] = IF k <= Len(one) THEN one[k] ELSE pieces[k - Len(one)]
      BY <3>1, ConcatProperties, SMTT(20)
    <3> QED BY <2>4, <3>2 DEF P
  <2>6. /\ Len(whole) = 1 + n
        /\ \A k \in 1 .. 1 + n : whole[k] = IF k <= 1 THEN one[k] ELSE pieces[k - 1]
    BY <1>2, <2>3, <2>5
  <2>7. ASSUME NEW k \in 1 .. 1 + n PROVE whole[k] = all[k]
    <3>1. all[k] = block[k].words BY <1>4, <1>8
    <3>2. CASE k = 1
      <4>1. block[1].words = <<>> BY <1>8 DEF IsWrittenFrom
      <4>2. whole[1] = one[1] BY <2>6, <3>2
      <4> QED BY <2>1, <2>3, <3>1, <3>2, <4>1, <4>2
    <3>3. CASE k # 1
      <4>1. k - 1 \in 1 .. n /\ 1 + (k - 1) = k /\ ~ (k <= 1) BY <1>1, <3>3
      <4>2. whole[k] = pieces[k - 1] BY <2>6, <4>1
      <4>3. pieces[k - 1] = LineWords(lines[k - 1]) BY <1>2, <4>1
      <4>4. block[k].words = LineWords(lines[k - 1]) BY <1>6, <1>8, <4>1
      <4> QED BY <3>1, <4>2, <4>3, <4>4
    <3> QED BY <3>2, <3>3
  <2>8. whole = all
    <3>1. Len(whole) = Len(all) /\ Len(whole) = 1 + n BY <1>4, <1>8, <2>6
    <3>2. \A k \in 1 .. Len(whole) : whole[k] = all[k] BY <2>7, <3>1
    <3> QED BY <1>4, <2>5, <3>1, <3>2, SeqEqual
  <2>9. FlattenSeq(one \o pieces) = FlattenSeq(one) \o FlattenSeq(pieces)
    BY <1>2, <2>3, FlattenConcat
  <2>10. FlattenSeq(one) = <<>> BY <2>1, <2>2, FlattenSingle
  <2>11. <<>> \o FlattenSeq(pieces) = FlattenSeq(pieces)
    <3>1. FlattenSeq(pieces) \in Seq(Word) BY <1>2, FlattenSeqType
    <3> QED BY <3>1, ConcatEmptySeq
  <2> QED BY <1>3, <1>5, <2>4, <2>8, <2>9, <2>10, <2>11
<1> QED BY <1>7, <1>8

\* A last line without words adds none.
LEMMA ClosedBelow ==
  ASSUME NEW block \in Seq(TextLine), NEW line \in TextLine, line.words = <<>>
  PROVE  LET closed == block \o Single(line)
         IN  /\ closed \in Seq(TextLine) /\ Len(closed) = Len(block) + 1
             /\ BodyWords(closed, Len(closed)) = BodyWords(block, Len(block))
<1>1. PICK one : one = Single(line) OBVIOUS
<1>2. one \in Seq(TextLine) /\ Len(one) = 1 /\ one[1] = line BY <1>1, SingleType
<1>3. PICK n \in Nat : n = Len(block) BY LenProperties
<1>4. PICK closed : closed = block \o one OBVIOUS
<1>5. /\ closed \in Seq(TextLine) /\ Len(closed) = Len(block) + Len(one)
      /\ \A k \in 1 .. Len(block) + Len(one) :
           closed[k] = IF k <= Len(block) THEN block[k] ELSE one[k - Len(block)]
  BY <1>2, <1>4, ConcatProperties, Zenon
<1>6. Len(closed) = n + 1 /\ closed[n + 1] = line /\ \A k \in 1 .. n : closed[k] = block[k]
  <2>1. n + 1 \in 1 .. n + 1 /\ ~ (n + 1 <= n) /\ (n + 1) - n = 1 BY <1>3
  <2>2. ASSUME NEW k \in 1 .. n PROVE k \in 1 .. n + 1 /\ k <= n BY <1>3
  <2> QED BY <1>2, <1>3, <1>5, <2>1, <2>2
<1>7. BodyWords(closed, n + 1) = BodyWords(closed, n) \o line.words
  <2>1. n + 1 \in 1 .. Len(closed) /\ (n + 1) - 1 = n BY <1>3, <1>6
  <2>2. TextLine \in {BodyLine, TextLine} OBVIOUS
  <2> QED BY <1>5, <1>6, <2>1, <2>2, BodyWordsStep
<1>8. BodyWords(closed, n) = BodyWords(block, n) BY <1>6, BodyWordsSame
<1>9. BodyWords(block, n) \o <<>> = BodyWords(block, n)
  <2>1. n \in 0 .. Len(block) BY <1>3
  <2>2. TextLine \in {BodyLine, TextLine} OBVIOUS
  <2>3. BodyWords(block, n) \in Seq(Word) BY <2>1, <2>2, BodyWordsType
  <2> QED BY <2>3, ConcatEmptySeq
<1> QED BY <1>1, <1>3, <1>4, <1>5, <1>6, <1>7, <1>8, <1>9

\* What comment_emit writes is a block with the words of the filled lines.
LEMMA EmittedBlock ==
  ASSUME NEW t \in Text, NEW lines \in Seq(RebuiltLine), lines # <<>>
  PROVE  /\ Emitted(t, lines) \in Seq(TextLine)
         /\ BodyWords(Emitted(t, lines), Len(Emitted(t, lines))) = LinesWords(lines)
         /\ Len(Emitted(t, lines)) = 1 /\ ~ t.isLine =>
              /\ Len(lines) = 1 /\ ~ IsOpenerEmpty(t)
              /\ Shape(t) = "hanging" \/ HasOpenerCloser(t, lines)
              /\ Emitted(t, lines)[1] = WithCloser(Written("none", 1, lines[1]))
<1> DEFINE Goal(block) ==
             /\ block \in Seq(TextLine)
             /\ BodyWords(block, Len(block)) = LinesWords(lines)
             /\ Len(block) = 1 /\ ~ t.isLine =>
                  /\ Len(lines) = 1 /\ ~ IsOpenerEmpty(t)
                  /\ Shape(t) = "hanging" \/ HasOpenerCloser(t, lines)
                  /\ block[1] = WithCloser(Written("none", 1, lines[1]))
<1>1. PICK n \in Nat \ {0} : n = Len(lines) BY EmptySeq
<1>2. PICK a \in {0, 1} : a = OpenerLines(t) /\ (a = 1 <=> IsOpenerEmpty(t)) BY DEF OpenerLines
<1>3. t.opener + 1 \in Nat /\ 1 \in Nat BY DEF Text
<1>4. Single(NoText) \in Seq(TextLine)
  BY NoTextType, SingleType
<1>5. CASE Shape(t) = "line"
  <2>1. t.isLine BY <1>5 DEF Shape
  <2>2. PICK block : block = [k \in 1 .. n |-> Written("none", 1, lines[k])] OBVIOUS
  <2>3. Emitted(t, lines) = block
    <3>1. Emitted(t, lines) = [k \in 1 .. Len(lines) |-> Written("none", 1, lines[k])]
      <4>1. Shape(t) # "starred" /\ Shape(t) # "hanging" /\ ~ HasOpenerCloser(t, lines)
        BY <1>5 DEF HasOpenerCloser
      <4> QED BY <1>5, <4>1, SMTT(30) DEF Emitted
    <3> QED BY <1>1, <2>2, <3>1
  <2>4. ASSUME NEW k \in 1 .. n
        PROVE  /\ Written("none", 1, lines[k]) \in TextLine
               /\ block[k].words = LineWords(lines[k])
    <3>1. lines[k] \in RebuiltLine BY <1>1, ElementOfSeq
    <3>2. block[k] = Written("none", 1, lines[k]) BY <2>2
    <3>3. /\ Written("none", 1, lines[k]) \in TextLine
          /\ Written("none", 1, lines[k]).words = LineWords(lines[k])
      <4>1. "none" \in Stars /\ 1 \in Nat BY StarKinds
      <4> QED BY <3>1, <4>1, WrittenType, Zenon
    <3> QED BY <3>2, <3>3
  <2>5. block \in Seq(TextLine) /\ Len(block) = n
    <3>1. block \in [1 .. n -> TextLine] BY <2>2, <2>4
    <3> QED BY <3>1, SeqOfMap
  <2>6. IsWrittenFrom(block, 0, lines)
    <3>1. ASSUME NEW k \in 1 .. n PROVE block[0 + k].words = LineWords(lines[k])
      <4>1. 0 + k = k OBVIOUS
      <4> QED BY <2>4, <4>1
    <3> QED BY <1>1, <3>1 DEF IsWrittenFrom
  <2>7. Len(block) = 0 + Len(lines) BY <1>1, <2>5
  <2> QED BY <2>1, <2>3, <2>5, <2>6, <2>7, WrittenWords
<1>6. CASE HasOpenerCloser(t, lines)
  <2>1. Shape(t) = "starred" /\ n = 1 /\ ~ IsOpenerEmpty(t) BY <1>1, <1>6 DEF HasOpenerCloser
  <2>2. PICK line : line = WithCloser(Written("none", 1, lines[1])) OBVIOUS
  <2>3. Emitted(t, lines) = Single(line)
    BY <1>6, <2>1, <2>2 DEF Emitted, Single
  <2>4. lines[1] \in RebuiltLine
    <3>1. 1 \in 1 .. n BY <1>1
    <3> QED BY <1>1, <3>1, ElementOfSeq
  <2>5. line \in TextLine /\ line.words = LineWords(lines[1])
    BY StarKinds, <2>2, <2>4, WrittenType, WithCloserType
  <2>6. PICK block : block = Single(line) OBVIOUS
  <2>7. block \in Seq(TextLine) /\ Len(block) = 1 /\ block[1] = line
    BY <2>5, <2>6, SingleType
  <2>8. IsWrittenFrom(block, 0, lines)
    <3>1. \A k \in 1 .. n : k = 1 /\ 0 + k = 1 BY <2>1
    <3> QED BY <1>1, <2>5, <2>7, <3>1 DEF IsWrittenFrom
  <2>9. Len(block) = 0 + Len(lines) BY <1>1, <2>1, <2>7
  <2>10. BodyWords(block, Len(block)) = LinesWords(lines) BY <2>7, <2>8, <2>9, WrittenWords
  <2> QED BY <1>1, <1>6, <2>1, <2>2, <2>3, <2>6, <2>7, <2>10
<1>7. CASE Shape(t) = "starred" /\ ~ HasOpenerCloser(t, lines)
  <2>1. PICK block : block = Single(Opened(t, lines)) \o Under(t, lines, "aligned", 1) OBVIOUS
  <2>2. /\ block \in Seq(TextLine) /\ Len(block) = a + n
        /\ IsWrittenFrom(block, a, lines)
    BY StarKinds, <1>1, <1>2, <1>3, <2>1, OpenedAndUnder
  <2>3. BodyWords(block, Len(block)) = LinesWords(lines) BY <1>1, <2>2, WrittenWords
  <2>4. PICK last \in TextLine : last = WithCloser(NoText) /\ last.words = <<>>
    BY NoTextType, WithCloserType
  <2>5. PICK closed : closed = block \o Single(last) OBVIOUS
  <2>6. /\ closed \in Seq(TextLine) /\ Len(closed) = Len(block) + 1
        /\ BodyWords(closed, Len(closed)) = BodyWords(block, Len(block))
    BY <2>2, <2>4, <2>5, ClosedBelow
  <2>7. Emitted(t, lines) = closed
    <3>1. CASE IsOpenerEmpty(t)
      BY <1>7, <2>1, <2>4, <2>5, <3>1 DEF Emitted, Opened, Under, Others, Single
    <3>2. CASE ~ IsOpenerEmpty(t)
      BY <1>7, <2>1, <2>4, <2>5, <3>2 DEF Emitted, Opened, Under, Others, Single
    <3> QED BY <3>1, <3>2
  <2>8. Len(closed) # 1
    <3>1. a + n + 1 # 1 BY <1>1, <1>2
    <3> QED BY <2>2, <2>6, <3>1
  <2> QED BY <2>3, <2>6, <2>7, <2>8
<1>8. CASE Shape(t) = "hanging"
  <2>1. PICK block : block = Single(Opened(t, lines)) \o Under(t, lines, "none", t.opener + 1)
    OBVIOUS
  <2>2. /\ block \in Seq(TextLine) /\ Len(block) = a + n
        /\ IsWrittenFrom(block, a, lines) /\ block[1] = Opened(t, lines)
    BY StarKinds, <1>1, <1>2, <1>3, <2>1, OpenedAndUnder
  <2>3. PICK m : m = a + n OBVIOUS
  <2>4. m \in Nat /\ m \in 1 .. m BY <1>1, <1>2, <2>3
  <2>5. block[m] \in TextLine BY <2>2, <2>3, <2>4, ElementOfSeq
  <2>6. PICK last \in TextLine : last = WithCloser(block[m]) /\ last.words = block[m].words
    BY <2>5, WithCloserType
  <2>7. PICK closed : closed = [block EXCEPT ![m] = last] OBVIOUS
  <2>8. /\ closed \in Seq(TextLine) /\ Len(closed) = m
        /\ \A k \in 1 .. m : closed[k] = IF k = m THEN last ELSE block[k]
    BY <2>2, <2>3, <2>4, <2>7, ExceptSeq
  <2>9. BodyWords(closed, m) = BodyWords(block, m)
    <3>1. \A k \in 1 .. m : closed[k].words = block[k].words BY <2>6, <2>8
    <3> QED BY <2>4, <3>1, BodyWordsSame
  <2>10. BodyWords(block, Len(block)) = LinesWords(lines) BY <1>1, <2>2, WrittenWords
  <2>11. Emitted(t, lines) = closed
    <3>1. Emitted(t, lines) = [block EXCEPT ![Len(block)] = WithCloser(@)]
      <4>1. ~ HasOpenerCloser(t, lines) BY <1>8 DEF HasOpenerCloser
      <4>2. CASE IsOpenerEmpty(t)
        BY <1>8, <2>1, <4>1, <4>2 DEF Emitted, Opened, Under, Others, Single
      <4>3. CASE ~ IsOpenerEmpty(t)
        BY <1>8, <2>1, <4>1, <4>3 DEF Emitted, Opened, Under, Others, Single
      <4> QED BY <4>2, <4>3
    <3> QED BY <2>2, <2>3, <2>6, <2>7, <3>1
  <2>12. ASSUME m = 1 PROVE a = 0 /\ n = 1 /\ closed[1] = WithCloser(Written("none", 1, lines[1]))
    <3>1. a = 0 /\ n = 1 BY <1>1, <1>2, <2>3, <2>12
    <3>2. ~ IsOpenerEmpty(t) BY <1>2, <3>1
    <3>3. closed[1] = last BY <2>4, <2>8, <2>12
    <3> QED BY <2>2, <2>6, <2>12, <3>1, <3>2, <3>3 DEF Opened
  <2> QED BY <1>1, <1>2, <1>8, <2>2, <2>3, <2>8, <2>9, <2>10, <2>11, <2>12
<1>9. Shape(t) \in {"line", "starred", "hanging"} BY DEF Shape
<1> QED BY <1>5, <1>6, <1>7, <1>8, <1>9

-----------------------------------------------------------------------------
(* The rewrite around the refill.                                          *)

\* The body being filled is the block's, and the closer has its room wherever it will
\* trail a hanging block.
FillsText ==
  phase = "fill" =>
    /\ job = FillOf(text, job.hasCloser)
    /\ Shape(text) = "hanging" => job.hasCloser

RInv ==
  /\ text \in Text /\ TextWords(text) # <<>>
  /\ pass \in Nat /\ phase \in {"read", "fill"}
  /\ IInv /\ WordsInv /\ FillsText /\ OneLineFits

LEMMA StartKeeps == FillInit => IInv /\ WordsInv
<1> SUFFICES ASSUME FillInit PROVE IInv /\ WordsInv OBVIOUS
<1>1. PICK j \in FillJob : FillStart(j) BY DEF FillInit
<1>2. FillStart(job) BY <1>1 DEF FillStart
<1> QED BY <1>2, InitInvariant, WordsStart

LEMMA StartKeepsNext == FillInit' => (IInv /\ WordsInv)'
BY StartKeeps, PTL

LEMMA BeginFillKeeps ==
  ASSUME NEW j \in FillJob, BeginFill(j)
  PROVE  IInv' /\ WordsInv' /\ job' = j
<1>1. FillInit' BY DEF BeginFill, FillInit, FillStart
<1> QED BY <1>1, StartKeepsNext DEF BeginFill

LEMMA RewriteStart == Init => RInv
<1> SUFFICES ASSUME NEW t \in Text, HasAlphanumericPayload(t), StartOn(t) PROVE RInv
  BY DEF Init
<1>1. text = t /\ pass = 0 /\ phase = "read" /\ FillStart(FillOf(t, FALSE)) BY DEF StartOn
<1>2. FillOf(t, FALSE) \in FillJob BY FillOfType
<1>3. FillInit BY <1>1, <1>2 DEF FillInit
<1>4. OneLineFits BY <1>1 DEF OneLineFits
<1>5. TextWords(t) # <<>>
  <2> SUFFICES ASSUME TextWords(t) = <<>> PROVE FALSE OBVIOUS
  <2>1. Len(TextWords(t)) = 0 BY EmptySeq
  <2> QED BY <2>1 DEF HasAlphanumericPayload
<1> QED BY <1>1, <1>3, <1>4, <1>5, StartKeeps DEF RInv, FillsText

LEMMA SameText ==
  ASSUME RInv, UNCHANGED text
  PROVE  text' \in Text /\ TextWords(text') # <<>>
BY DEF RInv, TextWords

LEMMA ReadStepsKeep == RInv /\ (KeepOneLine \/ Extract) => RInv' /\ UNCHANGED text
<1> SUFFICES ASSUME RInv, KeepOneLine \/ Extract PROVE RInv' /\ UNCHANGED text OBVIOUS
<1>1. CASE KeepOneLine
  <2>1. /\ phase = "read" /\ IsFittingOneLine(text) /\ pass' = pass + 1
        /\ UNCHANGED <<text, phase, job, stage, i, atomIndex, paragraphs, paragraphIndex,
                       capacity, rebuilt, counted>>
    BY <1>1 DEF KeepOneLine, fillVars
  <2>2. IInv'
    <3>1. UNCHANGED fillVars BY <2>1 DEF fillVars
    <3> QED BY <3>1, StutterKeeps DEF RInv
  <2>3. WordsInv'
    <3>1. UNCHANGED fillVars BY <2>1 DEF fillVars
    <3> QED BY <3>1, WordsStep DEF RInv
  <2>4. OneLineFits' BY <2>1 DEF OneLineFits, IsFittingOneLine, OneLineColumns
  <2>5. /\ text' \in Text /\ TextWords(text') # <<>>
        /\ pass' \in Nat /\ phase' \in {"read", "fill"}
    <3>1. pass \in Nat BY DEF RInv
    <3> QED BY <2>1, <3>1, SameText
  <2>6. FillsText' BY <2>1 DEF FillsText
  <2> QED BY <2>1, <2>2, <2>3, <2>4, <2>5, <2>6 DEF RInv
<1>2. CASE Extract
  <2>1. PICK hasCloser \in BOOLEAN : hasCloser = (Shape(text) = "hanging") OBVIOUS
  <2>2. /\ BeginFill(FillOf(text, hasCloser)) /\ phase' = "fill"
        /\ text' = text /\ pass' = pass
    BY <1>2, <2>1 DEF Extract
  <2>3. text \in Text BY DEF RInv
  <2>4. FillOf(text, hasCloser) \in FillJob BY <2>3, FillOfType
  <2>5. IInv' /\ WordsInv' /\ job' = FillOf(text, hasCloser) BY <2>2, <2>4, BeginFillKeeps
  <2>6. job'.hasCloser = hasCloser BY <2>5 DEF FillOf
  <2>7. FillsText'
    <3>1. job' = FillOf(text', job'.hasCloser) BY <2>2, <2>5, <2>6
    <3>2. Shape(text)' = "hanging" => job'.hasCloser BY <2>1, <2>2, <2>6
    <3> QED BY <3>1, <3>2 DEF FillsText
  <2>8. OneLineFits' BY <2>2 DEF OneLineFits
  <2>9. pass' \in Nat BY <2>2 DEF RInv
  <2> QED BY <2>2, <2>5, <2>7, <2>8, <2>9, SameText DEF RInv
<1> QED BY <1>1, <1>2

LEMMA FillStepKeeps == RInv /\ FillStep => RInv' /\ UNCHANGED text
<1> SUFFICES ASSUME RInv, FillStep PROVE RInv' /\ UNCHANGED text OBVIOUS
<1>1. phase = "fill" /\ FillNext /\ UNCHANGED <<text, pass, phase>> BY DEF FillStep
<1>2. IInv' BY <1>1, StepInvariant DEF RInv
<1>3. WordsInv' BY <1>1, WordsStep DEF RInv
<1>4. job' = job
  BY <1>1 DEF FillNext, CountCopied, CountLine, StartAppend, AppendCopied, AppendLine, FinishFill
<1>5. FillsText' BY <1>1, <1>4 DEF RInv, FillsText
<1>6. OneLineFits' BY <1>1 DEF OneLineFits
<1>7. pass' \in Nat BY <1>1 DEF RInv
<1> QED BY <1>1, <1>2, <1>3, <1>5, <1>6, <1>7, SameText DEF RInv

LEMMA RefillKeeps == RInv /\ Refill => RInv' /\ UNCHANGED text
<1> SUFFICES ASSUME RInv, Refill PROVE RInv' /\ UNCHANGED text OBVIOUS
<1>1. /\ phase = "fill" /\ BeginFill([job EXCEPT !.hasCloser = TRUE])
      /\ UNCHANGED <<text, pass, phase>>
  BY DEF Refill
<1>2. text \in Text /\ job = FillOf(text, job.hasCloser) BY <1>1 DEF RInv, FillsText
<1>3. [job EXCEPT !.hasCloser = TRUE] = FillOf(text, TRUE)
  <2>1. PICK c : c = job.hasCloser OBVIOUS
  <2>2. job = FillOf(text, c) BY <1>2, <2>1
  <2>3. PICK lines, first, prefix :
          \A closer : FillOf(text, closer) =
            [lines |-> lines, prefixFirst |-> first, prefix |-> prefix, width |-> Width,
             hasCloser |-> closer]
    BY DEF FillOf
  <2>4. \A l, f, p, w, d, e :
          [[lines |-> l, prefixFirst |-> f, prefix |-> p, width |-> w, hasCloser |-> d]
             EXCEPT !.hasCloser = e]
            = [lines |-> l, prefixFirst |-> f, prefix |-> p, width |-> w, hasCloser |-> e]
    OBVIOUS
  <2>5. PICK yes : yes = TRUE OBVIOUS
  <2>6. /\ job = [lines |-> lines, prefixFirst |-> first, prefix |-> prefix, width |-> Width,
                  hasCloser |-> c]
        /\ FillOf(text, yes) = [lines |-> lines, prefixFirst |-> first, prefix |-> prefix,
                               width |-> Width, hasCloser |-> yes]
    BY <2>2, <2>3
  <2>7. [job EXCEPT !.hasCloser = yes] = FillOf(text, yes) BY <2>4, <2>6
  <2> QED BY <2>5, <2>7
<1>4. FillOf(text, TRUE) \in FillJob BY <1>2, FillOfType
<1>5. IInv' /\ WordsInv' /\ job' = FillOf(text, TRUE) BY <1>1, <1>3, <1>4, BeginFillKeeps
<1>6. job'.hasCloser = TRUE BY <1>5 DEF FillOf
<1>7. FillsText' BY <1>1, <1>5, <1>6 DEF FillsText
<1>8. OneLineFits' BY <1>1 DEF OneLineFits
<1>9. pass' \in Nat BY <1>1 DEF RInv
<1> QED BY <1>1, <1>5, <1>7, <1>8, <1>9, SameText DEF RInv

\* The columns of what is written of a filled line are no more than those the refill
\* counted for it.
LEMMA WrittenColumns ==
  ASSUME NEW line \in RebuiltLine, LineShape(line), Len(line.atoms) > 1
  PROVE  /\ IsFilled(line)
         /\ LineIndent(line) + TextColumns(LineWords(line)) + line.pad + line.trail
              <= line.hang + AtomsColumns(line.atoms)
         /\ TextColumns(LineWords(line)) \in Nat /\ AtomsColumns(line.atoms) \in Nat
<1>1. /\ line.lead \in Seq(Word) /\ line.atoms \in Seq(Seq(Word))
      /\ line.hang \in Nat /\ line.pad \in Nat /\ line.trail \in Nat
  BY DEF RebuiltLine
<1>2. line.atoms # <<>> BY EmptySeq
<1>3. IsFilled(line) BY <1>2 DEF LineShape
<1>4. PICK f \in Seq(Word) : f = FlattenSeq(line.atoms) BY <1>1, FlattenSeqType
<1>5. PICK columns \in Nat : columns = TextColumns(f) BY TextColumnsType
<1>6. AtomsColumns(line.atoms) = columns BY <1>4, <1>5 DEF AtomsColumns
<1>7. LineWords(line) = line.lead \o f BY <1>4 DEF LineWords
<1>8. line.lead \o f \in Seq(Word) BY <1>1, ConcatProperties
<1>9. PICK all \in Nat : all = TextColumns(LineWords(line)) BY <1>7, <1>8, TextColumnsType
<1>10. CASE line.kind = "prose"
  <2>1. line.lead = <<>> /\ line.pad = 0 /\ line.trail = 0 BY <1>10 DEF LineShape
  <2>2. <<>> \o f = f BY ConcatEmptySeq
  <2>3. all = columns BY <1>5, <1>7, <1>9, <2>1, <2>2
  <2>4. LineIndent(line) = line.hang BY <1>10 DEF LineIndent
  <2>5. line.hang + columns + 0 + 0 <= line.hang + columns BY <1>1
  <2> QED BY <1>3, <1>6, <1>9, <2>1, <2>3, <2>4, <2>5
<1>11. CASE line.kind = "tag"
  <2>1. line.trail = 0 /\ line.hang = TextColumns(line.lead) + line.pad + 1
    BY <1>2, <1>11 DEF LineShape
  <2>2. LineIndent(line) = 0 BY <1>11 DEF LineIndent
  <2>3. PICK lead \in Nat : lead = TextColumns(line.lead) BY <1>1, TextColumnsType
  <2>4. all <= lead + 1 + columns BY <1>1, <1>5, <1>7, <1>9, <2>3, TextColumnsConcat
  <2>5. PICK pad \in Nat : pad = line.pad BY <1>1
  <2>6. 0 + all + pad + 0 <= (lead + pad + 1) + columns BY <2>4
  <2> QED BY <1>3, <1>6, <1>9, <2>1, <2>2, <2>3, <2>5, <2>6
<1> QED BY <1>3, <1>10, <1>11 DEF IsFilled

\* The marker, the blank behind it, the line, the blank before the closer, the closer.
LEMMA ClosedColumns ==
  ASSUME NEW t, t.opener \in Nat, NEW line \in RebuiltLine, Len(t.lines) = 1,
         t.lines[1] = WithCloser(Written("none", 1, line)), TextColumns(LineWords(line)) \in Nat
  PROVE  OneLineColumns(t) <=
           t.opener + 1 + LineIndent(line) + TextColumns(LineWords(line))
             + line.pad + line.trail + 3
<1>1. PICK columns \in Nat : columns = TextColumns(LineWords(line)) OBVIOUS
<1>2. line.hang \in Nat /\ line.pad \in Nat /\ line.trail \in Nat BY DEF RebuiltLine
<1>3. PICK n \in Nat : n = LineIndent(line) BY <1>2 DEF LineIndent
<1>4. PICK indent \in Nat : /\ indent = IF LineWords(line) = <<>> /\ n = 0 THEN 0 ELSE 1 + n
                            /\ indent <= 1 + n
  BY <1>3
<1>5. Written("none", 1, line) =
        [star |-> "none", indent |-> indent, words |-> LineWords(line), pad |-> line.pad,
         trail |-> line.trail]
  BY <1>3, <1>4 DEF Written
<1>6. PICK written : written = Written("none", 1, line) OBVIOUS
<1>7. /\ written.words = LineWords(line) /\ written.indent = indent
      /\ written.pad = line.pad /\ written.trail = line.trail
  <2>1. PICK no, words, pad, trail :
          no = "none" /\ words = LineWords(line) /\ pad = line.pad /\ trail = line.trail
    OBVIOUS
  <2>2. written = [star |-> no, indent |-> indent, words |-> words, pad |-> pad,
                   trail |-> trail]
    BY <1>5, <1>6, <2>1
  <2>3. /\ written.words = words /\ written.indent = indent
        /\ written.pad = pad /\ written.trail = trail
    BY <2>2
  <2> QED BY <2>1, <2>3
<1>8. PICK closed : closed = WithCloser(written) OBVIOUS
<1>9. /\ closed.words = LineWords(line) /\ closed.pad = line.pad
      /\ \/ closed.indent = indent + 1 /\ closed.trail = line.trail
         \/ closed.indent = indent /\ closed.trail = line.trail + 1
  BY <1>5, <1>6, <1>7, <1>8 DEF WithCloser
<1>10. OneLineColumns(t) = t.opener + closed.indent + columns + closed.pad + closed.trail + 2
  BY <1>1, <1>6, <1>8, <1>9 DEF OneLineColumns
<1>11. PICK opener \in Nat, pad \in Nat, trail \in Nat :
         opener = t.opener /\ pad = line.pad /\ trail = line.trail
  BY <1>2
<1>12. /\ opener + (indent + 1) + columns + pad + trail + 2
            <= opener + 1 + n + columns + pad + trail + 3
       /\ opener + indent + columns + pad + (trail + 1) + 2
            <= opener + 1 + n + columns + pad + trail + 3
  BY <1>4
<1> QED BY <1>1, <1>3, <1>9, <1>10, <1>11, <1>12

\* What a step does to the words of the block.
KeepsWords == IsWorded(Body(text)) => TextWords(text') = TextWords(text)

LEMMA EmitKeeps == RInv /\ Emit => RInv' /\ KeepsWords
<1> SUFFICES ASSUME RInv, Emit PROVE RInv' /\ KeepsWords OBVIOUS
<1>1. /\ phase = "fill" /\ stage = "done" /\ ~ MustRefill
      /\ text' = [text EXCEPT !.lines = Emitted(text, rebuilt)]
      /\ pass' = pass + 1 /\ phase' = "read"
      /\ UNCHANGED fillVars
  BY DEF Emit
<1>2. /\ text \in Text /\ IInv /\ WordsInv /\ rebuilt \in Seq(RebuiltLine)
      /\ \A k \in 1 .. Len(rebuilt) : LineShape(rebuilt[k])
  BY DEF RInv, WordsInv
<1>3. /\ job = FillOf(text, job.hasCloser) /\ job.hasCloser \in BOOLEAN
      /\ Shape(text) = "hanging" => job.hasCloser
  BY <1>1 DEF RInv, FillsText, IInv, Shapes, FillJob
<1>4. /\ IsWorded(Body(text)) => LinesWords(rebuilt) = TextWords(text)
      /\ LinesWords(rebuilt) # <<>>
  <2>1. PICK words : words = BodyWords(job.lines, Len(job.lines)) OBVIOUS
  <2>2. /\ IsWorded(job.lines) => LinesWords(rebuilt) = words
        /\ words # <<>> => LinesWords(rebuilt) # <<>>
    BY <1>1, <1>2, <2>1, DoneWords
  <2>3. PICK c \in BOOLEAN : c = job.hasCloser BY <1>3
  <2>4. job = FillOf(text, c) BY <1>3, <2>3
  <2>5. words = TextWords(text) /\ (IsWorded(Body(text)) => IsWorded(job.lines))
    BY <1>2, <2>1, <2>4, FillOfType
  <2>6. TextWords(text) # <<>> BY DEF RInv
  <2> QED BY <2>2, <2>5, <2>6
<1>5. rebuilt # <<>>
  <2> SUFFICES ASSUME rebuilt = <<>> PROVE FALSE OBVIOUS
  <2>1. Len(rebuilt) = 0 BY EmptySeq
  <2>2. [k \in 1 .. Len(rebuilt) |-> LineWords(rebuilt[k])] = <<>> BY <2>1
  <2> QED BY <1>4, <2>2, FlattenEmpty DEF LinesWords
<1>6. PICK block : block = Emitted(text, rebuilt) OBVIOUS
<1>7. /\ block \in Seq(TextLine)
      /\ BodyWords(block, Len(block)) = LinesWords(rebuilt)
      /\ Len(block) = 1 /\ ~ text.isLine =>
           /\ Len(rebuilt) = 1 /\ ~ IsOpenerEmpty(text)
           /\ Shape(text) = "hanging" \/ HasOpenerCloser(text, rebuilt)
           /\ block[1] = WithCloser(Written("none", 1, rebuilt[1]))
  BY <1>2, <1>5, <1>6, EmittedBlock
<1>8. /\ text' \in Text /\ text'.lines = block /\ text'.opener = text.opener
      /\ text'.isLine = text.isLine /\ text.opener \in Nat
  <2>1. PICK t \in Text : t = text BY <1>2
  <2>2. [t EXCEPT !.lines = block] \in Text BY <1>7 DEF Text
  <2>3. /\ [t EXCEPT !.lines = block].lines = block
        /\ [t EXCEPT !.lines = block].opener = t.opener
        /\ [t EXCEPT !.lines = block].isLine = t.isLine
        /\ t.opener \in Nat
    BY DEF Text
  <2>4. text' = [t EXCEPT !.lines = block] BY <1>1, <1>6, <2>1
  <2> QED BY <2>1, <2>2, <2>3, <2>4
<1>9. TextWords(text') = LinesWords(rebuilt)
  <2>1. TextWords(text') = BodyWords(block, Len(block)) BY <1>8 DEF TextWords, BodyWords
  <2> QED BY <1>7, <2>1
<1>10. TextWords(text') # <<>> /\ KeepsWords BY <1>4, <1>9 DEF KeepsWords
<1>11. IInv' BY <1>1, <1>2, StutterKeeps
<1>12. WordsInv' BY <1>1, <1>2, WordsStep
<1>13. FillsText' BY <1>1 DEF FillsText
<1>14. rebuilt' = rebuilt BY <1>1 DEF fillVars
<1>15. ASSUME ~ text'.isLine, Len(text'.lines) = 1, Len(rebuilt[1].atoms) > 1
       PROVE  OneLineColumns(text') <= Width
  <2>1. /\ Len(rebuilt) = 1 /\ ~ IsOpenerEmpty(text)
        /\ Shape(text) = "hanging" \/ HasOpenerCloser(text, rebuilt)
        /\ text'.lines[1] = WithCloser(Written("none", 1, rebuilt[1]))
    BY <1>7, <1>8, <1>15
  <2>2. job.hasCloser BY <1>1, <1>3, <2>1 DEF MustRefill
  <2>3. /\ job.prefixFirst = text.opener + 1 /\ job.width = Width
    <3>1. /\ job.prefixFirst = PrefixColumnsFirst(text) /\ job.width = Width
      BY <1>3 DEF FillOf
    <3> QED BY <2>1, <3>1 DEF PrefixColumnsFirst
  <2>4. PICK line \in RebuiltLine : line = rebuilt[1] /\ LineShape(line)
    <3>1. 1 \in 1 .. Len(rebuilt) BY <2>1
    <3> QED BY <1>2, <3>1, ElementOfSeq
  <2>5. /\ IsFilled(line)
        /\ LineIndent(line) + TextColumns(LineWords(line)) + line.pad + line.trail
             <= line.hang + AtomsColumns(line.atoms)
        /\ TextColumns(LineWords(line)) \in Nat /\ AtomsColumns(line.atoms) \in Nat
    BY <1>15, <2>4, WrittenColumns
  <2>6. i > Len(job.lines) BY <1>1, <1>2 DEF IInv, SecondPass
  <2>7. ~ (job.prefixFirst + line.hang + AtomsColumns(line.atoms) + 3 > job.width)
    <3>1. FilledLinesFit /\ 1 \in 1 .. Len(rebuilt) BY <1>2, <2>1 DEF IInv
    <3>2. ~ (Len(rebuilt[1].atoms) <= 1)
      <4>1. line.atoms \in Seq(Seq(Word)) BY DEF RebuiltLine
      <4>2. Len(line.atoms) \in Nat BY <4>1, LenProperties
      <4> QED BY <1>15, <2>4, <4>2
    <3> QED BY <2>1, <2>2, <2>4, <2>5, <2>6, <3>1, <3>2 DEF FilledLinesFit
  <2>8. OneLineColumns(text') <=
          text.opener + 1 + LineIndent(line) + TextColumns(LineWords(line))
            + line.pad + line.trail + 3
    BY <1>8, <1>15, <2>1, <2>4, <2>5, ClosedColumns
  <2>9. PICK opener \in Nat, hang \in Nat, columns \in Nat, pad \in Nat, trail \in Nat,
             all \in Nat, n \in Nat :
          /\ opener = text.opener /\ hang = line.hang /\ pad = line.pad /\ trail = line.trail
          /\ columns = AtomsColumns(line.atoms) /\ all = TextColumns(LineWords(line))
          /\ n = LineIndent(line)
    BY <1>8, <2>5 DEF RebuiltLine, LineIndent
  <2>10. PICK total : total = OneLineColumns(text') OBVIOUS
  <2>11. total <= opener + 1 + n + all + pad + trail + 3 BY <2>8, <2>9, <2>10
  <2>12. n + all + pad + trail <= hang + columns BY <2>5, <2>9
  <2>13. ~ ((opener + 1) + hang + columns + 3 > Width) BY <2>3, <2>7, <2>9
  <2>14. Width \in Nat BY RewriteAssumption
  <2>15. total \in Int
    <3>1. text'.lines[1] \in TextLine
      <4>1. Len(block) = 1 /\ 1 \in 1 .. 1 BY <1>8, <1>15
      <4>2. block[1] \in TextLine BY <1>7, <4>1, ElementOfSeq
      <4> QED BY <1>8, <4>2
    <3>2. TextColumns(text'.lines[1].words) \in Nat BY <3>1, TextColumnsType DEF TextLine
    <3> QED BY <1>8, <2>10, <3>1, <3>2 DEF OneLineColumns, TextLine
  <2>16. total <= Width BY <2>11, <2>12, <2>13, <2>14, <2>15
  <2> QED BY <2>10, <2>16
<1>16. OneLineFits'
  <2> SUFFICES ASSUME ~ text'.isLine, Len(text'.lines) = 1, ~ (OneLineColumns(text') <= Width)
               PROVE  \A k \in 1 .. Len(rebuilt) : Len(rebuilt[k].atoms) <= 1
    BY <1>14 DEF OneLineFits, OneLineColumns
  <2>1. Len(rebuilt) = 1 BY <1>7, <1>8
  <2>2. rebuilt[1] \in RebuiltLine BY <1>2, <2>1, ElementOfSeq
  <2>3. Len(rebuilt[1].atoms) \in Nat BY <2>2, LenProperties DEF RebuiltLine
  <2>4. ~ (Len(rebuilt[1].atoms) > 1) BY <1>15
  <2>5. Len(rebuilt[1].atoms) <= 1 BY <2>3, <2>4
  <2> QED BY <2>1, <2>5
<1>17. pass' \in Nat BY <1>1 DEF RInv
<1> QED BY <1>1, <1>8, <1>9, <1>10, <1>11, <1>12, <1>13, <1>16, <1>17 DEF RInv

LEMMA RewriteStep == RInv /\ [Next]_vars => RInv' /\ KeepsWords
<1> SUFFICES ASSUME RInv, [Next]_vars PROVE RInv' /\ KeepsWords OBVIOUS
<1>1. CASE UNCHANGED text /\ RInv' BY <1>1 DEF KeepsWords, TextWords
<1>2. CASE UNCHANGED vars
  <2>1. UNCHANGED <<text, pass, phase>> /\ UNCHANGED fillVars BY <1>2 DEF vars
  <2>2. IInv' /\ WordsInv' BY <2>1, StutterKeeps, WordsStep DEF RInv
  <2>3. job' = job /\ rebuilt' = rebuilt BY <2>1 DEF fillVars
  <2>4. FillsText' BY <2>1, <2>3 DEF RInv, FillsText
  <2>5. OneLineFits' BY <2>1, <2>3 DEF RInv, OneLineFits, OneLineColumns
  <2> QED BY <2>1, <2>2, <2>4, <2>5, SameText DEF RInv, KeepsWords, TextWords
<1> QED BY <1>1, <1>2, ReadStepsKeep, FillStepKeeps, RefillKeeps, EmitKeeps DEF Next

LEMMA RewriteInvariant == Spec => []RInv
<1>1. RInv /\ [Next]_vars => RInv' BY RewriteStep
<1> QED BY <1>1, RewriteStart, PTL DEF Spec

\* A rewrite loses no word, doubles none and moves none before another, in every run
\* of the program, whatever the width and the words: in a block where no line that is
\* filled is blanks alone, and where a star in front of a line of a starred block is
\* its decoration.
THEOREM WordsSurviveHolds == Spec => WordsSurvive
<1>1. RInv /\ [Next]_vars =>
        [IsWorded(Body(text)) => TextWords(text') = TextWords(text)]_text
  BY RewriteStep DEF KeepsWords
<1> QED BY <1>1, RewriteInvariant, PTL DEF Spec, WordsSurvive

\* A block on one line fits the width with its closer, unless its line could not be
\* broken: a starred block is filled again when its closer turns out to trail it.
THEOREM OneLineFitsHolds == Spec => []OneLineFits
<1>1. RInv => OneLineFits BY DEF RInv
<1> QED BY <1>1, RewriteInvariant, PTL

\* Every refill of every run, the one after the closer was found to trail its line
\* included, fills its array exactly and fits its lines, and never stands still.
THEOREM RefillsHold == Spec => [](TypeOK /\ RebuiltFillsCapacity /\ FilledLinesFit)
<1>1. RInv => TypeOK /\ RebuiltFillsCapacity /\ FilledLinesFit
  BY CapacityFilled DEF RInv, IInv
<1> QED BY <1>1, RewriteInvariant, PTL

THEOREM RefillsAdvance == Spec => LinesAdvance
<1>1. RInv => [FillNext /\ stage' = stage => Advance]_fillVars BY TurnsAdvance DEF RInv
<1> QED BY <1>1, RewriteInvariant, PTL DEF LinesAdvance, Advance

=============================================================================
