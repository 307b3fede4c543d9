---------------------------- MODULE OsRead_proofs ----------------------------
(***************************************************************************)
(* For any limit, any length of file and any number of edits: what os_read *)
(* returns was in the file, a writer that only appends or only truncates   *)
(* is seen, and a diagnostic names what happened.                          *)
(***************************************************************************)
EXTENDS OsRead, SequenceTheorems, TLAPS

Live == pc \in Reading /\ ~eof

IsPrefixOf(s, t) == Len(s) <= Len(t) /\ \A k \in 1..Len(s) : s[k] = t[k]

TypeOK ==
  /\ pc \in Reading \cup {"open", "fstat", "fclose", "returned", "oom"}
  /\ cause \in {"ok", "errno", "too_large", "not_regular", "shrank", "grew", "nul"}
  /\ {file, stream, first, perm} \subseteq Seq(Byte) /\ versions \subseteq Seq(Byte)
  /\ edited \subseteq {"append", "truncate", "overwrite"}
  /\ size \in Nat /\ size = Len(first)
  /\ eof \in BOOLEAN /\ fdOpen \in BOOLEAN /\ hasData \in BOOLEAN

\* What holds at each call, whatever the other processes do.
ControlInv ==
  /\ pc \in {"open", "fstat"} => stream = <<>> /\ ~eof /\ edited = {}
  /\ pc # "returned" => perm = <<>> /\ ~hasData
  /\ pc \notin {"fclose", "returned"} => cause = "ok"
  /\ pc = "returned" => ~fdOpen /\ (cause # "ok" => perm = <<>> /\ ~hasData)
  /\ pc \in Reading \cup {"fclose"} \/ IsRead => size <= DataLenMax
  /\ eof => Len(stream) <= size

\* Each byte read was in the file at its place at some time, and while the end has
\* not been read the file is one of the versions.
StreamInv ==
  /\ \A k \in 1..Len(stream) : \E v \in versions : k <= Len(v) /\ stream[k] = v[k]
  /\ Live => file \in versions
  /\ eof => versions # {}

\* What a writer that only does one thing, or never does it, cannot have done.
WriterInv ==
  /\ edited \subseteq {"truncate"} => \A v \in versions : IsPrefixOf(v, first)
  /\ edited \subseteq {"append"} =>
       \A v \in versions :
         /\ IsPrefixOf(first, v)
         /\ Live => Len(v) <= Len(file)
         /\ eof => Len(v) <= Len(stream)
  /\ "truncate" \notin edited =>
       /\ Live => size <= Len(file)
       /\ eof => size <= Len(stream)
  /\ "append" \notin edited => \A v \in versions : Len(v) <= size

\* A cause is true, and a read without one took the whole of it, up to the end.
VerdictInv ==
  /\ cause = "shrank" => "truncate" \in edited
  /\ cause = "grew" => "append" \in edited
  /\ cause = "nul" => \E v \in versions : \E k \in 1..Len(v) : v[k] = "nul"
  /\ pc = "extra" => ~Shrank
  /\ (pc = "fclose" /\ cause = "ok") \/ IsRead => eof /\ ~Shrank /\ ~HasNul
  /\ IsRead => perm = Data

IInv == TypeOK /\ ControlInv /\ StreamInv /\ WriterInv /\ VerdictInv

-----------------------------------------------------------------------------
(* Sequences *)

\* A part of some bytes, and its bytes.
LEMMA SubSeqOfBytes ==
  ASSUME NEW s \in Seq(Byte), NEW m \in Nat, NEW n \in Nat, m >= 1, n <= Len(s)
  PROVE  /\ SubSeq(s, m, n) \in Seq(Byte)
         /\ Len(SubSeq(s, m, n)) = IF m <= n THEN n - m + 1 ELSE 0
         /\ \A k \in 1..Len(SubSeq(s, m, n)) : SubSeq(s, m, n)[k] = s[m + k - 1]
  OBVIOUS

\* Bytes after bytes, and where each came from.
LEMMA JoinOfBytes ==
  ASSUME NEW s \in Seq(Byte), NEW t \in Seq(Byte)
  PROVE  /\ s \o t \in Seq(Byte) /\ Len(s \o t) = Len(s) + Len(t)
         /\ \A k \in 1..Len(s \o t) :
              (s \o t)[k] = IF k <= Len(s) THEN s[k] ELSE t[k - Len(s)]
  OBVIOUS

\* What a file holds, or a writer appends, is bytes.
LEMMA ContentOfBytes ==
  ASSUME NEW S, S \subseteq Byte, NEW n \in Nat, NEW s \in SeqOf(S, n)
  PROVE  s \in Seq(Byte)
<1>1. PICK m \in 0..n : s \in [1..m -> S] BY DEF SeqOf
<1>2. s \in [1..m -> Byte] BY <1>1
<1> QED BY <1>1, <1>2

\* A full read is as long as st_size; a short one is the whole stream.
LEMMA DataBytes ==
  ASSUME TypeOK
  PROVE  /\ Data \in Seq(Byte) /\ Len(Data) <= Len(stream)
         /\ \A k \in 1..Len(Data) : Data[k] = stream[k]
         /\ ~Shrank => Len(Data) = size
<1>1. stream \in Seq(Byte) /\ size \in Nat BY DEF TypeOK
<1>2. CASE Shrank BY <1>1, <1>2 DEF Data
<1>3. CASE ~Shrank
  <2>1. size <= Len(stream) BY <1>1, <1>3 DEF Shrank
  <2>2. Data = SubSeq(stream, 1, size) BY <1>3 DEF Data
  <2> QED BY <1>1, <2>1, <2>2, <1>3, SubSeqOfBytes
<1> QED BY <1>2, <1>3

-----------------------------------------------------------------------------
(* The steps of os_read *)

\* Nothing is read yet, and no edit counts.
LEMMA InitInv == Init => IInv
<1> SUFFICES ASSUME Init PROVE IInv OBVIOUS
<1> USE OsReadAssumption DEF Init
<1>1. file \in Seq(Byte) BY ContentOfBytes DEF Byte
<1>2. <<>> \in Seq(Byte) /\ Len(<<>>) = 0 OBVIOUS
<1>3. TypeOK BY <1>1, <1>2 DEF TypeOK
<1>4. ControlInv BY DEF ControlInv, IsRead, Reading
<1>5. StreamInv BY DEF StreamInv, Live, Reading
<1>6. WriterInv BY <1>2 DEF WriterInv, Live, Reading
<1>7. VerdictInv BY DEF VerdictInv, IsRead
<1> QED BY <1>3, <1>4, <1>5, <1>6, <1>7 DEF IInv

\* A step that reads nothing, and neither starts a verdict nor publishes.
LEMMA QuietStep ==
  ASSUME IInv, UNCHANGED <<file, size, stream, eof, result, history>>,
         pc' \in Reading \cup {"fstat", "fclose", "returned", "oom"}, fdOpen' \in BOOLEAN,
         pc' = "fstat" => pc = "open",
         pc' \in Reading \cup {"fclose"} => pc \in Reading,
         pc # "returned", pc' # "extra",
         \/ cause' = "ok" /\ cause = "ok" /\ pc' \notin {"fclose", "returned"}
         \/ cause' = "errno" /\ pc' \in {"fclose", "returned"}
              /\ (pc' = "returned" => ~fdOpen')
  PROVE  IInv'
<1> USE DEF IInv, result, history
<1>1. TypeOK' BY DEF TypeOK
<1>2. ControlInv' BY DEF ControlInv, IsRead, Reading
<1>3. Live' => Live BY DEF Live, Reading
<1>4. StreamInv' BY <1>3 DEF StreamInv
<1>5. WriterInv' BY <1>3 DEF WriterInv, IsPrefixOf
<1>6. VerdictInv' BY DEF VerdictInv, IsRead
<1> QED BY <1>1, <1>2, <1>4, <1>5, <1>6

\* The calls that read no bytes, and the errors they may return.
LEMMA CallStep ==
  ASSUME IInv, Open \/ OpenFails \/ Alloc \/ FdOpen \/ FdOpenFails \/ SysReadFails
  PROVE  IInv'
<1> USE DEF call, result, history
<1>0. TypeOK /\ ControlInv BY DEF IInv
<1>1. CASE Open BY <1>0, <1>1, QuietStep DEF Open, ControlInv, Reading
<1>2. CASE OpenFails BY <1>2, QuietStep DEF OpenFails, Reading
<1>3. CASE Alloc BY <1>0, <1>3, QuietStep DEF Alloc, TypeOK, ControlInv, Reading
<1>4. CASE FdOpen BY <1>0, <1>4, QuietStep DEF FdOpen, TypeOK, ControlInv, Reading
<1>5. CASE FdOpenFails BY <1>5, QuietStep DEF FdOpenFails, Reading
<1>6. CASE SysReadFails
  BY <1>0, <1>6, QuietStep DEF SysReadFails, TypeOK, Reading
<1> QED BY <1>1, <1>2, <1>3, <1>4, <1>5, <1>6

\* fstat takes the size, and refuses what the code refuses.
LEMMA FstatStep == ASSUME IInv, Fstat PROVE IInv'
<1> USE DEF IInv, Fstat, result
<1>1. /\ stream = <<>> /\ ~eof /\ edited = {} /\ perm = <<>> /\ ~hasData /\ cause = "ok"
      /\ file \in Seq(Byte)
  BY DEF ControlInv, TypeOK
<1>2. /\ Len(file) \in Nat /\ Len(<<>>) = 0 /\ size' = Len(file)
      /\ first' = file /\ versions' = {file} /\ file' = file
      /\ stream' = <<>> /\ ~eof' /\ edited' = {} /\ perm' = <<>> /\ ~hasData'
  BY <1>1
<1>3. \/ pc' = "alloc" /\ size' <= DataLenMax /\ cause' = "ok"
      \/ pc' = "returned" /\ ~fdOpen' /\ cause' \in {"too_large", "not_regular"}
  BY <1>1, <1>2, OsReadAssumption DEF IsTooLarge
<1>4. TypeOK' BY <1>1, <1>2, <1>3 DEF TypeOK, Reading
<1>5. ControlInv' BY <1>1, <1>2, <1>3 DEF ControlInv, IsRead, Reading
<1>6. StreamInv' BY <1>1, <1>2 DEF StreamInv
<1>7. WriterInv' BY <1>1, <1>2 DEF WriterInv, IsPrefixOf
<1>8. VerdictInv' BY <1>1, <1>3 DEF VerdictInv, IsRead
<1> QED BY <1>4, <1>5, <1>6, <1>7, <1>8

\* What a read adds stood in the file when it was read.
LEMMA SysReadStep == ASSUME IInv, SysRead PROVE IInv'
<1> USE DEF IInv
<1>0. /\ UNCHANGED <<file, pc, fdOpen, size, cause, perm, hasData, first, versions, edited>>
      /\ Live /\ pc \in {"fread", "extra"} /\ Len(stream) <= size /\ cause = "ok"
      /\ file \in Seq(Byte) /\ stream \in Seq(Byte) /\ file \in versions
  BY DEF SysRead, result, history, Live, Reading, TypeOK, ControlInv, StreamInv
<1>1. Len(stream) <= Len(stream') => VerdictInv'
  BY <1>0 DEF VerdictInv, IsRead, Shrank, TypeOK
<1>2. CASE Len(stream) >= Len(file) /\ eof' = TRUE /\ UNCHANGED stream
  <2>1. TypeOK' BY <1>0, <1>2 DEF TypeOK
  <2>2. ControlInv' BY <1>0, <1>2 DEF ControlInv, IsRead, Reading
  <2>3. ~Live' BY <1>2 DEF Live
  <2>4. StreamInv' BY <1>0, <1>2, <2>3 DEF StreamInv
  <2>5. ASSUME edited \subseteq {"append"}, NEW v \in versions
        PROVE  Len(v) <= Len(stream)
    <3>1. Len(v) <= Len(file) BY <1>0, <2>5 DEF WriterInv
    <3>2. v \in Seq(Byte) BY DEF TypeOK
    <3> QED BY <1>0, <1>2, <3>1, <3>2
  <2>6. ASSUME "truncate" \notin edited PROVE size <= Len(stream)
    BY <1>0, <1>2, <2>6 DEF WriterInv, TypeOK
  <2>7. WriterInv' BY <1>0, <1>2, <2>3, <2>5, <2>6 DEF WriterInv, IsPrefixOf
  <2> QED BY <1>0, <1>1, <1>2, <2>1, <2>2, <2>4, <2>7
<1>3. ASSUME NEW n \in 1..(Len(file) - Len(stream)), UNCHANGED eof,
             stream' = stream \o SubSeq(file, Len(stream) + 1, Len(stream) + n)
      PROVE  IInv'
  <2> DEFINE more == SubSeq(file, Len(stream) + 1, Len(stream) + n)
  <2>0. Len(stream) \in Nat /\ n \in Nat /\ n >= 1 /\ Len(stream) + n <= Len(file)
    BY <1>0
  <2>1. /\ more \in Seq(Byte) /\ Len(more) = n
        /\ \A k \in 1..n : more[k] = file[Len(stream) + k]
    BY <1>0, <2>0, SubSeqOfBytes
  <2> HIDE DEF more
  <2>2. /\ stream' \in Seq(Byte) /\ Len(stream') = Len(stream) + n
        /\ \A k \in 1..Len(stream') :
             stream'[k] = IF k <= Len(stream) THEN stream[k] ELSE more[k - Len(stream)]
    BY <1>0, <1>3, <2>1, JoinOfBytes DEF more
  <2>3. TypeOK' BY <1>0, <1>3, <2>2 DEF TypeOK
  <2>4. ~eof' /\ Live' BY <1>0, <1>3 DEF Live
  <2>5. ControlInv' BY <1>0, <1>3, <2>4 DEF ControlInv, IsRead, Reading
  <2>6. ASSUME NEW k \in 1..Len(stream')
        PROVE  \E v \in versions : k <= Len(v) /\ stream'[k] = v[k]
    <3>1. CASE k <= Len(stream) BY <3>1, <2>2, <2>0 DEF StreamInv
    <3>2. CASE ~(k <= Len(stream))
      <4>1. k - Len(stream) \in 1..n BY <3>2, <2>0, <2>2
      <4>2. stream'[k] = more[k - Len(stream)] BY <3>2, <2>2
      <4>3. more[k - Len(stream)] = file[Len(stream) + (k - Len(stream))] BY <2>1, <4>1
      <4>4. Len(stream) + (k - Len(stream)) = k /\ k <= Len(file) BY <2>0, <2>2
      <4> QED BY <1>0, <4>2, <4>3, <4>4
    <3> QED BY <3>1, <3>2
  <2>7. StreamInv' BY <1>0, <2>6 DEF StreamInv
  <2>8. WriterInv' BY <1>0, <2>4 DEF WriterInv, IsPrefixOf
  <2> QED BY <1>1, <2>0, <2>2, <2>3, <2>5, <2>7, <2>8
<1> QED BY <1>2, <1>3 DEF SysRead, Offset

\* The bytes read are judged: by what the stream holds, and by its end.
LEMMA VerdictStep == ASSUME IInv, FreadReturns \/ ExtraReturns PROVE IInv'
<1> USE DEF IInv
<1>0. /\ UNCHANGED <<file, fdOpen, size, stream, eof, perm, hasData, first, versions, edited>>
      /\ pc \in {"fread", "extra"} /\ HasWanted /\ cause = "ok" /\ pc' \in {"extra", "fclose"}
      /\ stream \in Seq(Byte) /\ size \in Nat /\ Len(stream) \in Nat
  BY DEF FreadReturns, ExtraReturns, result, history, TypeOK, ControlInv
<1>1. /\ cause' \in {"ok", "shrank", "grew", "nul"} /\ (pc' = "extra" => cause' = "ok")
      /\ cause' = "shrank" => Shrank /\ eof
      /\ cause' = "grew" => Len(stream) > size
      /\ cause' = "nul" => HasNul
      /\ pc' = "fclose" /\ cause' = "ok" => eof /\ ~Shrank /\ ~HasNul
  <2>1. CASE FreadReturns
    BY <1>0, <2>1 DEF FreadReturns, GoesOnToExtra, NulCause, HasWanted, Wanted, Shrank
  <2>2. CASE ExtraReturns
    <3>1. pc' = "fclose" /\ cause' = IF Grew THEN "grew" ELSE NulCause BY <2>2 DEF ExtraReturns
    <3>2. ~Grew => eof
      BY <1>0, <2>2 DEF ExtraReturns, HasWanted, Wanted, Grew
    <3>3. ~Shrank
      BY <2>2 DEF ExtraReturns, VerdictInv
    <3> QED BY <3>1, <3>2, <3>3 DEF Grew, NulCause
  <2> QED BY <2>1, <2>2
<1>2. TypeOK' BY <1>0, <1>1 DEF TypeOK, Reading
<1>3. ControlInv' BY <1>0, <1>1 DEF ControlInv, IsRead, Reading
<1>4. Live' => Live BY <1>0 DEF Live, Reading
<1>5. StreamInv' BY <1>0, <1>4 DEF StreamInv
<1>6. WriterInv' BY <1>0, <1>4 DEF WriterInv, IsPrefixOf
<1>7. VerdictInv'
  <2>1. ASSUME cause' = "shrank" PROVE "truncate" \in edited
    BY <1>0, <1>1, <2>1 DEF WriterInv, Shrank
  <2>2. ASSUME cause' = "grew" PROVE "append" \in edited
    <3>1. Len(stream) \in 1..Len(stream) /\ Len(stream) > size BY <1>0, <1>1, <2>2
    <3>2. PICK v \in versions : Len(stream) <= Len(v) BY <3>1 DEF StreamInv
    <3>3. Len(v) \in Nat BY DEF TypeOK
    <3> QED BY <1>0, <3>1, <3>2, <3>3 DEF WriterInv
  <2>3. ASSUME cause' = "nul"
        PROVE  \E v \in versions : \E k \in 1..Len(v) : v[k] = "nul"
    <3>1. PICK k \in 1..Len(Data) : Data[k] = "nul" BY <1>1, <2>3 DEF HasNul
    <3>2. k \in 1..Len(stream) /\ stream[k] = "nul" BY <1>0, <3>1, DataBytes
    <3> QED BY <3>2 DEF StreamInv
  <2>4. pc' = "extra" => ~Shrank BY <1>0 DEF FreadReturns, ExtraReturns, GoesOnToExtra
  <2>5. UNCHANGED <<Shrank, HasNul>> BY <1>0 DEF Shrank, HasNul, Data
  <2>6. ~IsRead' BY <1>0 DEF IsRead
  <2> QED BY <1>0, <1>1, <2>1, <2>2, <2>3, <2>4, <2>5, <2>6 DEF VerdictInv
<1> QED BY <1>2, <1>3, <1>5, <1>6, <1>7

\* A close error takes back the verdict; only without one is anything published.
LEMMA FcloseStep == ASSUME IInv, Fclose PROVE IInv'
<1> USE DEF IInv
<1>0. /\ UNCHANGED <<file, size, stream, eof, first, versions, edited>>
      /\ pc = "fclose" /\ pc' = "returned" /\ ~fdOpen' /\ fdOpen' \in BOOLEAN
      /\ perm = <<>> /\ hasData' = (cause' = "ok")
      /\ \/ cause' = cause
         \/ cause = "ok" /\ cause' = "errno"
      /\ perm' = IF cause' = "ok" THEN Data ELSE <<>>
  BY DEF Fclose, PublishesArena, history, ControlInv
<1>1. Data \in Seq(Byte) /\ UNCHANGED <<Data, Shrank, HasNul>>
  BY <1>0, DataBytes DEF Data, Shrank, HasNul
<1>2. <<>> \in Seq(Byte) OBVIOUS
<1>3. TypeOK' BY <1>0, <1>1, <1>2 DEF TypeOK
<1>4. ControlInv' BY <1>0 DEF ControlInv, IsRead, Reading
<1>5. ~Live' BY <1>0 DEF Live, Reading
<1>6. StreamInv' BY <1>0, <1>5 DEF StreamInv
<1>7. WriterInv' BY <1>0, <1>5 DEF WriterInv, IsPrefixOf
<1>8. VerdictInv' BY <1>0, <1>1 DEF VerdictInv, IsRead
<1> QED BY <1>3, <1>4, <1>6, <1>7, <1>8

-----------------------------------------------------------------------------
(* The other processes *)

\* What a writer of each kind leaves of the file it found.
EditKeeps(kind, content) ==
  /\ kind \in {"append", "truncate", "overwrite"} /\ content \in Seq(Byte)
  /\ kind = "append" => IsPrefixOf(file, content)
  /\ kind = "truncate" => IsPrefixOf(content, file)
  /\ kind = "overwrite" => Len(content) = Len(file)

\* An edit counts until the end of the file was read.
LEMMA EditStep ==
  ASSUME IInv, NEW kind, NEW content, Edit(kind, content), EditKeeps(kind, content)
  PROVE  IInv'
<1> USE DEF IInv
<1>0. /\ UNCHANGED <<pc, fdOpen, size, stream, eof, cause, perm, hasData, first>>
      /\ file' = content /\ content \in Seq(Byte) /\ file \in Seq(Byte)
      /\ kind \in {"append", "truncate", "overwrite"} /\ (Live' <=> Live)
      /\ Len(file) \in Nat /\ Len(content) \in Nat /\ size \in Nat
  BY DEF Edit, EditKeeps, call, result, Live, TypeOK
<1>1. CASE ~Live
  <2>1. UNCHANGED <<versions, edited>> BY <1>1 DEF Edit, Live
  <2>2. TypeOK' BY <1>0, <2>1 DEF TypeOK
  <2>3. ControlInv' BY <1>0, <2>1 DEF ControlInv, IsRead
  <2>4. StreamInv' BY <1>0, <1>1, <2>1 DEF StreamInv
  <2>5. WriterInv' BY <1>0, <1>1, <2>1 DEF WriterInv, IsPrefixOf
  <2>6. VerdictInv' BY <1>0, <2>1 DEF VerdictInv, IsRead, Shrank, HasNul, Data
  <2> QED BY <2>2, <2>3, <2>4, <2>5, <2>6
<1>2. CASE Live
  <2>0. /\ versions' = versions \cup {content} /\ edited' = edited \cup {kind}
        /\ file \in versions /\ versions \subseteq Seq(Byte) /\ pc \in Reading /\ ~eof
    BY <1>2 DEF Edit, Live, StreamInv, TypeOK
  <2>1. TypeOK' BY <1>0, <2>0 DEF TypeOK
  <2>2. ControlInv' BY <1>0, <2>0 DEF ControlInv, IsRead, Reading
  <2>3. StreamInv' BY <1>0, <2>0 DEF StreamInv
  <2>4. VerdictInv' BY <1>0, <2>0 DEF VerdictInv, IsRead, Reading, Shrank
  <2>5. ASSUME edited' \subseteq {"truncate"} PROVE IsPrefixOf(content, first)
    <3>1. edited \subseteq {"truncate"} /\ kind = "truncate" BY <2>0, <2>5
    <3>2. IsPrefixOf(content, file) /\ IsPrefixOf(file, first)
      BY <2>0, <3>1 DEF WriterInv, EditKeeps
    <3>3. Len(content) \in Nat /\ Len(file) \in Nat /\ Len(first) \in Nat
      BY <1>0 DEF TypeOK
    <3> QED BY <3>2, <3>3 DEF IsPrefixOf
  <2>6. ASSUME edited' \subseteq {"append"}, NEW v \in versions'
        PROVE  IsPrefixOf(first, v) /\ Len(v) <= Len(content)
    <3>1. edited \subseteq {"append"} /\ kind = "append" BY <2>0, <2>6
    <3>2. /\ IsPrefixOf(file, content) /\ IsPrefixOf(first, file)
          /\ \A w \in versions : IsPrefixOf(first, w) /\ Len(w) <= Len(file)
      BY <1>2, <2>0, <3>1 DEF WriterInv, EditKeeps
    <3>3. Len(first) \in Nat BY DEF TypeOK
    <3>4. IsPrefixOf(first, content) BY <1>0, <3>2, <3>3 DEF IsPrefixOf
    <3>5. CASE v = content BY <1>0, <3>4, <3>5
    <3>6. CASE v \in versions
      <4>1. Len(v) \in Nat /\ Len(v) <= Len(file) /\ Len(file) <= Len(content)
        BY <2>0, <3>2, <3>6 DEF IsPrefixOf
      <4> QED BY <1>0, <3>2, <3>6, <4>1
    <3> QED BY <2>0, <3>5, <3>6
  <2>7. ASSUME "truncate" \notin edited' PROVE size <= Len(content)
    <3>1. "truncate" \notin edited /\ kind # "truncate" BY <2>0, <2>7
    <3>2. size <= Len(file) BY <1>2, <3>1 DEF WriterInv
    <3>3. Len(file) <= Len(content) BY <1>0, <3>1 DEF EditKeeps, IsPrefixOf
    <3> QED BY <1>0, <3>2, <3>3
  <2>8. ASSUME "append" \notin edited', NEW v \in versions' PROVE Len(v) <= size
    <3>1. "append" \notin edited /\ kind # "append" BY <2>0, <2>8
    <3>2. \A w \in versions : Len(w) <= size BY <3>1 DEF WriterInv
    <3>3. Len(content) <= Len(file) BY <1>0, <3>1 DEF EditKeeps, IsPrefixOf
    <3>4. Len(content) <= size BY <1>0, <2>0, <3>2, <3>3
    <3> QED BY <2>0, <3>2, <3>4
  <2>9. \A v \in versions : edited' \subseteq {"truncate"} => IsPrefixOf(v, first)
    BY <2>0 DEF WriterInv
  <2>10. WriterInv'
    <3>1. (edited \subseteq {"truncate"} => \A v \in versions : IsPrefixOf(v, first))'
      BY <1>0, <2>0, <2>5, <2>9 DEF IsPrefixOf
    <3>2. (edited \subseteq {"append"} =>
             \A v \in versions :
               /\ IsPrefixOf(first, v)
               /\ Live => Len(v) <= Len(file)
               /\ eof => Len(v) <= Len(stream))'
      BY <1>0, <2>0, <2>6 DEF IsPrefixOf
    <3> QED BY <1>0, <2>0, <2>7, <2>8, <3>1, <3>2 DEF WriterInv
  <2> QED BY <2>1, <2>2, <2>3, <2>4, <2>10
<1> QED BY <1>1, <1>2

\* Each of the writers of the model is of its kind.
LEMMA WriterStep == ASSUME IInv, AppendMore \/ Truncate \/ Overwrite PROVE IInv'
<1>0. file \in Seq(Byte) /\ Len(file) \in Nat BY DEF IInv, TypeOK
<1>1. CASE AppendMore
  <2>1. PICK more \in SeqOf({"new", "nul"}, MaxLen - Len(file)) \ {<<>>} :
          Edit("append", file \o more)
    BY <1>1 DEF AppendMore
  <2>2. more \in Seq(Byte)
    <3>1. PICK m \in 0..(MaxLen - Len(file)) : more \in [1..m -> {"new", "nul"}]
      BY <2>1 DEF SeqOf
    <3>2. more \in [1..m -> Byte] BY <3>1 DEF Byte
    <3> QED BY <1>0, <3>1, <3>2, OsReadAssumption
  <2>3. EditKeeps("append", file \o more)
    BY <1>0, <2>2, JoinOfBytes DEF EditKeeps, IsPrefixOf
  <2> QED BY <2>1, <2>3, EditStep
<1>2. CASE Truncate
  <2>1. PICK n \in 0..(Len(file) - 1) : Edit("truncate", SubSeq(file, 1, n))
    BY <1>2 DEF Truncate
  <2>2. n \in Nat /\ n <= Len(file) BY <1>0, <2>1
  <2>3. EditKeeps("truncate", SubSeq(file, 1, n))
    BY <1>0, <2>2, SubSeqOfBytes DEF EditKeeps, IsPrefixOf
  <2> QED BY <2>1, <2>3, EditStep
<1>3. CASE Overwrite
  <2>1. PICK k \in 1..Len(file) : Edit("overwrite", [file EXCEPT ![k] = "new"])
    BY <1>3 DEF Overwrite
  <2>2. /\ [file EXCEPT ![k] = "new"] \in Seq(Byte)
        /\ Len([file EXCEPT ![k] = "new"]) = Len(file)
    BY <1>0, <2>1, ExceptSeq DEF Byte
  <2>3. EditKeeps("overwrite", [file EXCEPT ![k] = "new"])
    BY <2>2 DEF EditKeeps
  <2> QED BY <2>1, <2>3, EditStep
<1> QED BY <1>1, <1>2, <1>3

-----------------------------------------------------------------------------

\* Every step keeps the invariant.
LEMMA NextInv == IInv /\ [Next]_vars => IInv'
<1> SUFFICES ASSUME IInv, [Next]_vars PROVE IInv' OBVIOUS
<1>1. CASE UNCHANGED vars
  <2> USE <1>1 DEF IInv, vars, call, result, history
  <2>1. TypeOK' BY DEF TypeOK
  <2>2. ControlInv' BY DEF ControlInv, IsRead
  <2>3. StreamInv' BY DEF StreamInv, Live
  <2>4. WriterInv' BY DEF WriterInv, IsPrefixOf, Live
  <2>5. VerdictInv' BY DEF VerdictInv, IsRead, Shrank, HasNul, Data
  <2> QED BY <2>1, <2>2, <2>3, <2>4, <2>5
<1>2. CASE Next
  BY <1>2, CallStep, FstatStep, SysReadStep, VerdictStep, FcloseStep, WriterStep DEF Next
<1> QED BY <1>1, <1>2

\* The invariant holds in every state, whatever the other processes do.
THEOREM Invariant == Spec => []IInv
<1>1. Init => IInv BY InitInv
<1>2. IInv /\ [Next]_vars => IInv' BY NextInv
<1> QED BY <1>1, <1>2, PTL DEF Spec

\* What os_read publishes is as long as fstat said, within the limit, without a NUL,
\* and byte by byte something the file held while it was read.
THEOREM ReadsTheFileHolds == Spec => []ReadsTheFile
<1>1. IInv => ReadsTheFile
  <2> SUFFICES ASSUME IInv, IsRead PROVE ReadsTheFile!2
    BY DEF ReadsTheFile
  <2> USE DEF IInv
  <2>1. perm = Data /\ ~Shrank /\ ~HasNul /\ size = Len(first) /\ size <= DataLenMax
    BY DEF VerdictInv, ControlInv, TypeOK
  <2>2. /\ Len(Data) = size /\ Len(Data) <= Len(stream)
        /\ \A k \in 1..Len(Data) : Data[k] = stream[k]
    BY <2>1, DataBytes
  <2>3. ASSUME NEW k \in 1..Len(perm)
        PROVE  perm[k] # "nul" /\ \E v \in versions : k <= Len(v) /\ perm[k] = v[k]
    <3>1. perm[k] = stream[k] /\ perm[k] # "nul" BY <2>1, <2>2 DEF HasNul
    <3>2. k \in 1..Len(stream) BY <2>1, <2>2 DEF TypeOK
    <3> QED BY <3>1, <3>2 DEF StreamInv
  <2> QED BY <2>1, <2>2, <2>3
<1> QED BY <1>1, Invariant, PTL

\* If writers only appended, or only truncated, a read that succeeds is the file fstat
\* saw: the byte asked for past st_size, and the end of file, leave no other way.
THEOREM OneWayWriterIsSeenHolds == Spec => []OneWayWriterIsSeen
<1>1. IInv => OneWayWriterIsSeen
  <2> SUFFICES ASSUME IInv, IsRead PROVE OneWayWriterIsSeen!2
    BY DEF OneWayWriterIsSeen
  <2> USE DEF IInv
  <2>1. /\ perm = Data /\ eof /\ ~Shrank /\ size = Len(first) /\ Len(stream) <= size
        /\ perm \in Seq(Byte) /\ first \in Seq(Byte) /\ stream \in Seq(Byte)
    BY DEF VerdictInv, ControlInv, TypeOK
  <2>2. Len(stream) = Len(first) /\ Len(perm) = Len(first)
    BY <2>1, DataBytes DEF Shrank
  <2>3. \A k \in 1..Len(first) :
          \E v \in versions : v \in Seq(Byte) /\ k <= Len(v) /\ perm[k] = v[k]
    BY <2>1, <2>2, DataBytes DEF StreamInv, TypeOK
  <2>4. ASSUME edited \subseteq {"truncate"} PROVE perm = first
    <3>1. \A k \in 1..Len(first) : perm[k] = first[k]
      BY <2>3, <2>4 DEF WriterInv, IsPrefixOf
    <3> QED BY <2>1, <2>2, <3>1, SeqEqual
  <2>5. ASSUME edited \subseteq {"append"} PROVE perm = first /\ versions = {first}
    <3>1. ASSUME NEW v \in versions PROVE v = first
      <4>1. IsPrefixOf(first, v) /\ Len(v) <= Len(stream) /\ v \in Seq(Byte)
        BY <2>1, <2>5 DEF WriterInv, TypeOK
      <4>2. Len(v) = Len(first) BY <2>1, <2>2, <4>1 DEF IsPrefixOf
      <4> QED BY <2>1, <4>1, <4>2, SeqEqual DEF IsPrefixOf
    <3>2. \A k \in 1..Len(first) : perm[k] = first[k] BY <2>3, <3>1
    <3>3. perm = first BY <2>1, <2>2, <3>2, SeqEqual
    <3>4. versions # {} BY <2>1 DEF StreamInv
    <3> QED BY <3>1, <3>3, <3>4
  <2> QED BY <2>4, <2>5
<1> QED BY <1>1, Invariant, PTL

\* A file is said to have grown, shrunk or held a NUL only if it did, and a failed read
\* leaves neither a descriptor nor bytes behind.
THEOREM VerdictIsTrueHolds == Spec => []VerdictIsTrue
<1>1. IInv => VerdictIsTrue BY DEF IInv, ControlInv, VerdictInv, VerdictIsTrue
<1> QED BY <1>1, Invariant, PTL

=============================================================================
