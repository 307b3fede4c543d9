------------------------- MODULE OsReadStdin_proofs -------------------------
(***************************************************************************)
(* For any step, limit and input: os_read_stdin stays within its buffer,   *)
(* takes exactly the inputs it should, and bounds the memory it uses.      *)
(***************************************************************************)
EXTENDS OsReadStdin, TLAPS

\* While the loop runs, all that was taken is kept, is within the limit and is
\* free of NULs, and the caller has seen nothing.
LoopInv ==
  stdinPc \in {"grow", "read"} =>
    /\ consumed = len /\ len <= InputLenMax
    /\ nulAt = 0 \/ nulAt > len
    /\ stdinCause = "ok" /\ permLen = 0

\* Before each extension less than one step is free past what a read may bring.
RoomInv == stdinPc = "grow" => cap >= len /\ cap < len + 2 * StepLen

IInv == StdinTypeOK /\ LoopInv /\ RoomInv /\ ReadFits /\ VerdictIsExact /\ LimitBoundsMemory

\* A read asks for one byte at least, for a step at most, and for no more than
\* one byte past the limit.
LEMMA WantBounds ==
  ASSUME len \in Nat, len <= InputLenMax
  PROVE  Want \in 1..StepLen /\ len + Want <= InputLenMax + 1
BY OsReadStdinAssumption DEF Want

LEMMA InitInv == StdinInit => IInv
BY OsReadStdinAssumption
   DEF StdinInit, IInv, StdinTypeOK, LoopInv, RoomInv, ReadFits, VerdictIsExact, LimitBoundsMemory

LEMMA GrowStep == ASSUME IInv, Grow PROVE IInv'
<1>0. StdinTypeOK /\ LoopInv /\ RoomInv /\ LimitBoundsMemory BY DEF IInv
<1>1. /\ StepLen \in Nat /\ StepLen > 0 /\ InputLenMax \in Nat
      /\ len \in Nat /\ cap \in Nat /\ consumed \in Nat
      /\ len <= InputLenMax /\ cap >= len /\ cap < len + 2 * StepLen
      /\ permLen = 0 /\ stdinCause = "ok"
  BY <1>0, OsReadStdinAssumption DEF StdinTypeOK, LoopInv, RoomInv, Grow
<1>2. Want \in 1..StepLen BY <1>1, WantBounds
<1>3. UNCHANGED <<inputLen, nulAt, len, consumed, stdinCause, permLen, Want>>
  BY DEF Grow, input, Want
<1>4. /\ stdinPc' \in {"read", "oom"}
      /\ \/ cap - len < Want /\ cap' = cap + StepLen
         \/ ~(cap - len < Want) /\ cap' = cap
  BY DEF Grow, NeedsRoom
<1>5. cap' \in Nat /\ len + Want <= cap' /\ cap' < len + 2 * StepLen
  BY <1>1, <1>2, <1>4
<1>6. StdinTypeOK' BY <1>0, <1>3, <1>4, <1>5 DEF StdinTypeOK
<1>7. LoopInv' BY <1>0, <1>3, <1>4 DEF LoopInv, Grow
<1>8. ReadFits' BY <1>2, <1>3, <1>5 DEF ReadFits
<1>9. RoomInv' /\ VerdictIsExact' BY <1>4 DEF RoomInv, VerdictIsExact
<1>10. LimitBoundsMemory' BY <1>0, <1>3, <1>4, <1>5 DEF LimitBoundsMemory
<1> QED BY <1>6, <1>7, <1>8, <1>9, <1>10 DEF IInv

LEMMA ReadEndStep == ASSUME IInv, ReadEnd PROVE IInv'
<1> USE OsReadStdinAssumption DEF IInv, ReadEnd, input, Return
<1>1. len = inputLen /\ len <= InputLenMax /\ nulAt = 0
  BY DEF AtEnd, ReadFits, LoopInv, StdinTypeOK
<1>2. StdinTypeOK' BY DEF StdinTypeOK
<1>3. LoopInv' /\ RoomInv' /\ ReadFits' BY DEF LoopInv, RoomInv, ReadFits
<1>4. VerdictIsExact' BY <1>1 DEF VerdictIsExact
<1>5. LimitBoundsMemory' BY DEF LimitBoundsMemory
<1> QED BY <1>2, <1>3, <1>4, <1>5

LEMMA ReadSomeStep == ASSUME IInv, ReadSome PROVE IInv'
<1> USE OsReadStdinAssumption DEF IInv, input, Return
<1>1. PICK n \in 1..(inputLen - consumed) :
        /\ n <= Want
        /\ consumed' = consumed + n
        /\ \/ ChunkHasNul(n) /\ Return("nul") /\ UNCHANGED len
           \/ ~ChunkHasNul(n) /\ IsOverLimit(n) /\ Return("too_large") /\ len' = InputLenAfter(n)
           \/ /\ ~ChunkHasNul(n) /\ ~IsOverLimit(n)
              /\ stdinPc' = "grow" /\ len' = InputLenAfter(n) /\ UNCHANGED <<stdinCause, permLen>>
  BY DEF ReadSome
<1>2. stdinPc = "read" /\ UNCHANGED <<input, cap>> BY DEF ReadSome
<1>3. /\ consumed = len /\ len \in Nat /\ len <= InputLenMax
      /\ stdinCause = "ok" /\ permLen = 0 /\ (nulAt = 0 \/ nulAt > len)
      /\ inputLen \in Nat /\ nulAt \in Nat /\ cap \in Nat /\ consumed \in 0..inputLen
  BY <1>2 DEF LoopInv, StdinTypeOK
<1>4. n \in Nat /\ n >= 1 /\ consumed + n <= inputLen /\ n <= Want
  <2>1. n \in 1..(inputLen - consumed) /\ n <= Want BY <1>1
  <2> QED BY <1>3, <2>1
<1>5. /\ StepLen \in Nat /\ InputLenMax \in Nat /\ Want \in 1..StepLen
      /\ len + Want <= InputLenMax + 1 /\ len + Want <= cap
  BY <1>2, <1>3, WantBounds DEF ReadFits
<1>6. len + n <= InputLenMax + 1 /\ len + n <= cap
  <2> HIDE DEF IInv
  <2> QED BY <1>3, <1>4, <1>5
<1>7. cap < len + 2 * StepLen BY <1>2 DEF LimitBoundsMemory
<1> HIDE DEF IInv
<1>0. StdinTypeOK BY DEF IInv
<1>8. CASE ChunkHasNul(n) /\ Return("nul") /\ UNCHANGED len
  <2>1. nulAt \in 1..(InputLenMax + 1) BY <1>3, <1>4, <1>6, <1>8 DEF ChunkHasNul
  <2>2. StdinTypeOK' BY <1>0, <1>1, <1>2, <1>3, <1>4, <1>8 DEF StdinTypeOK
  <2>3. LoopInv' /\ RoomInv' /\ ReadFits' BY <1>8 DEF LoopInv, RoomInv, ReadFits
  <2>4. VerdictIsExact' BY <1>2, <1>8, <2>1 DEF VerdictIsExact
  <2>5. LimitBoundsMemory'
    BY <1>0, <1>1, <1>2, <1>3, <1>4, <1>6, <1>7, <1>8 DEF LimitBoundsMemory
  <2> QED BY <2>2, <2>3, <2>4, <2>5 DEF IInv
<1>9. CASE ~ChunkHasNul(n) /\ IsOverLimit(n) /\ Return("too_large") /\ len' = InputLenAfter(n)
  <2>0. /\ nulAt \notin (len + 1)..(len + n) /\ len + n > InputLenMax
        /\ stdinPc' = "returned" /\ stdinCause' = "too_large" /\ permLen' = permLen
        /\ len' = len + n
    BY <1>9 DEF ChunkHasNul, IsOverLimit, InputLenAfter
  <2>1. inputLen > InputLenMax /\ nulAt \notin 1..InputLenMax
    <3>1. inputLen > InputLenMax BY <1>3, <1>4, <1>5, <2>0
    <3>2. nulAt = 0 \/ nulAt > InputLenMax BY <1>3, <1>4, <1>5, <2>0
    <3> QED BY <1>3, <1>5, <3>1, <3>2
  <2>2. StdinTypeOK' BY <1>0, <1>1, <1>2, <1>3, <1>4, <2>0 DEF StdinTypeOK
  <2>3. LoopInv' /\ RoomInv' /\ ReadFits' BY <1>9 DEF LoopInv, RoomInv, ReadFits
  <2>4. VerdictIsExact' BY <1>2, <1>9, <2>1 DEF VerdictIsExact
  <2>5. LimitBoundsMemory'
    BY <1>1, <1>2, <1>3, <1>4, <1>5, <1>6, <1>7, <2>0 DEF LimitBoundsMemory
  <2> QED BY <2>2, <2>3, <2>4, <2>5 DEF IInv
<1>10. CASE /\ ~ChunkHasNul(n) /\ ~IsOverLimit(n)
            /\ stdinPc' = "grow" /\ len' = InputLenAfter(n) /\ UNCHANGED <<stdinCause, permLen>>
  <2>1. len' = len + n /\ len' <= InputLenMax /\ (nulAt = 0 \/ nulAt > len')
    BY <1>3, <1>4, <1>10 DEF ChunkHasNul, IsOverLimit, InputLenAfter
  <2>2. StdinTypeOK' BY <1>0, <1>1, <1>2, <1>3, <1>4, <1>10, <2>1 DEF StdinTypeOK
  <2>3. LoopInv' BY <1>1, <1>2, <1>3, <1>10, <2>1 DEF LoopInv
  <2>4. cap' = cap /\ cap >= len' /\ cap < len' + 2 * StepLen
    BY <1>2, <1>3, <1>4, <1>6, <1>7, <2>1
  <2>5. RoomInv' /\ ReadFits' /\ VerdictIsExact'
    BY <1>10, <2>4 DEF RoomInv, ReadFits, VerdictIsExact
  <2>6. LimitBoundsMemory' BY <1>1, <1>3, <1>6, <1>10, <2>4 DEF LimitBoundsMemory
  <2> QED BY <2>2, <2>3, <2>5, <2>6 DEF IInv
<1> QED BY <1>1, <1>8, <1>9, <1>10

LEMMA InvStep == ASSUME IInv, [StdinNext]_stdinVars PROVE IInv'
<1> USE OsReadStdinAssumption DEF IInv, input
<1>1. CASE Interrupted
  <2>1. cap >= len
    BY <1>1 DEF Interrupted, ReadFits, StdinTypeOK, Want, LoopInv
  <2>2. StdinTypeOK' BY <1>1 DEF Interrupted, StdinTypeOK
  <2>3. LoopInv' /\ RoomInv' BY <1>1, <2>1 DEF Interrupted, LoopInv, RoomInv, LimitBoundsMemory
  <2>4. ReadFits' /\ VerdictIsExact' BY <1>1 DEF Interrupted, ReadFits, VerdictIsExact
  <2>5. LimitBoundsMemory' BY <1>1 DEF Interrupted, LimitBoundsMemory
  <2> QED BY <2>2, <2>3, <2>4, <2>5
<1>2. CASE ReadFails
  <2>1. StdinTypeOK' BY <1>2 DEF ReadFails, Return, StdinTypeOK
  <2>2. LoopInv' /\ RoomInv' /\ ReadFits' /\ VerdictIsExact'
    BY <1>2 DEF ReadFails, Return, LoopInv, RoomInv, ReadFits, VerdictIsExact
  <2>3. LimitBoundsMemory'
    BY <1>2 DEF ReadFails, Return, LimitBoundsMemory, LoopInv
  <2> QED BY <2>1, <2>2, <2>3
<1>3. CASE UNCHANGED stdinVars
  <2>1. UNCHANGED <<inputLen, nulAt, stdinPc, cap, len, consumed, stdinCause, permLen>>
    BY <1>3 DEF stdinVars
  <2> QED
    BY <2>1 DEF StdinTypeOK, LoopInv, RoomInv, ReadFits, Want, VerdictIsExact, LimitBoundsMemory
<1> QED BY <1>1, <1>2, <1>3, GrowStep, ReadEndStep, ReadSomeStep DEF StdinNext, StdinStep

\* The invariant holds in every reachable state.
THEOREM Invariance == StdinSpec => []IInv
<1>1. IInv /\ [StdinNext]_stdinVars => IInv' BY InvStep
<1> QED BY <1>1, InitInv, PTL DEF StdinSpec

\* The state of os_read_stdin is well typed.
THEOREM TypeCorrect == StdinSpec => []StdinTypeOK
<1>1. IInv => StdinTypeOK BY DEF IInv
<1> QED BY <1>1, Invariance, PTL

\* No read goes past the buffer, and none asks for nothing; the limit bounds what is
\* taken and the memory it takes.
THEOREM BufferIsBoundedHolds == StdinSpec => []BufferIsBounded
<1>1. IInv => BufferIsBounded BY DEF IInv, BufferIsBounded
<1> QED BY <1>1, Invariance, PTL

\* The input is taken whole exactly when it is within the limit and has no NUL.
THEOREM VerdictIsExactHolds == StdinSpec => []VerdictIsExact
<1>1. IInv => VerdictIsExact BY DEF IInv
<1> QED BY <1>1, Invariance, PTL
=============================================================================
