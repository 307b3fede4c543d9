--------------------------- MODULE OsWrite_proofs ---------------------------
(***************************************************************************)
(* For data of any length, any modes and any number of replacements by others:    *)
(* os_write implements AtomicFile, and keeps the destination's mode.       *)
(***************************************************************************)
EXTENDS OsWrite, TLAPS

Dirs == [dest : Inode \cup {None, Directory}, link : {None, Symlink}, temp : {None, "new"}]

-----------------------------------------------------------------------------
(* The inductive invariant *)

\* Past each call, what the calls before it did.
Filled == {"fchmod", "fsync", "close", "rename"}
HasTemp == {"write"} \cup Filled

\* The temporary file is whole and synced before it is renamed.
TempInv ==
  /\ writePc \in HasTemp => dir["temp"] = "new" /\ bytes["new"].who = "new"
  /\ writePc \in {"fchmod", "fsync"} \/ (writePc \in Filled /\ rc = "ok") \/ isRenamed =>
       bytes["new"] = Held("new", DataLen)
  /\ (writePc \in {"close", "rename"} /\ rc = "ok") \/ isRenamed => synced["new"]

\* Only the rename lets a reader of the destination see the temporary file.
HiddenInv ==
  /\ prev # "new"
  /\ dir["dest"] = "new" => isRenamed

\* The destination of the rename is the file, not a link to it.
TargetInv ==
  writePc \in {"stat", "mkstemp"} \cup HasTemp /\ ~slash => target = "dest"

\* How far the call is, and whether it succeeded.
CallInv ==
  /\ writePc \in {"resolve", "stat", "mkstemp", "rename"} => rc = "ok"
  /\ writePc \in {"resolve", "stat", "mkstemp"} \cup HasTemp => ~isRenamed
  /\ writePc \in {"cleanup", "returned"} => (isRenamed <=> rc = "ok")

IInv == WriteTypeOK /\ TempInv /\ HiddenInv /\ TargetInv /\ CallInv

LEMMA InitInv == WriteInit => IInv
<1> SUFFICES ASSUME WriteInit PROVE IInv OBVIOUS
<1> USE OsWriteAssumption, NamesAssumption DEF WriteInit
<1>1. WriteTypeOK
  <2>1. \A n \in Inode : Held(n, DataLen) \in Bytes BY DEF Held, Bytes
  <2>2. PICK d \in {"old", None, Directory}, m \in Modes :
          /\ dir = [dest |-> d, link |-> IF path = "link" THEN Symlink ELSE None, temp |-> None]
          /\ mode = [n \in Inode |-> m]
          /\ existed = IF d = "old" THEN m ELSE None
          /\ prev = d
    OBVIOUS
  <2>3. dir \in Dirs
    BY <2>2 DEF Inode, Dirs
  <2>4. mode \in [Inode -> Modes] /\ existed \in Modes \cup {None}
        /\ prev \in Inode \cup {None, Directory}
    BY <2>2 DEF Inode
  <2>5. bytes \in [Inode -> Bytes] /\ synced \in [Inode -> BOOLEAN] BY <2>1
  <2>6. /\ path \in {"dest", "link"} /\ slash \in BOOLEAN /\ target \in {"dest", "link"}
        /\ writePc \in Calls /\ newMode \in Modes /\ rc = "ok"
        /\ replacements \in 0..MaxReplacements
        /\ tempOpen = FALSE /\ isRenamed = FALSE /\ litter = FALSE
    BY DEF Calls
  <2> HIDE DEF WriteInit
  <2> QED BY <2>3, <2>4, <2>5, <2>6 DEF WriteTypeOK, Dirs
<1>2. dir["dest"] # "new" /\ prev # "new" BY DEF Inode
<1> QED
  BY <1>1, <1>2 DEF IInv, TempInv, HiddenInv, TargetInv, CallInv, HasTemp, Filled

LEMMA TypeStep == ASSUME WriteTypeOK, TempInv, TargetInv, [WriteNext]_writeVars PROVE WriteTypeOK'
<1> USE OsWriteAssumption DEF WriteTypeOK, given, fs, locals, Calls, Dirs
<1>0. ASSUME UNCHANGED <<given, fs, newMode, isRenamed, litter, replacements>>,
             writePc' \in Calls \cup {"returned"}, rc' \in {"ok", "failed"},
             target' \in {"dest", "link"}, tempOpen' \in BOOLEAN
      PROVE  WriteTypeOK'
  BY <1>0
<1>1. CASE ReturnFailed \/ Resolve \/ MkstempFails \/ TempFails \/ Close \/ RenameFails
  <2>1. UNCHANGED <<given, fs, newMode, isRenamed, litter, replacements>>
    BY <1>1 DEF ReturnFailed, Resolve, MkstempFails, TempFails, Close, RenameFails
  <2>2. writePc' \in Calls \cup {"returned"} /\ rc' \in {"ok", "failed"}
    BY <1>1 DEF ReturnFailed, Resolve, MkstempFails, TempFails, Close, RenameFails
  <2>3. target' \in {"dest", "link"} /\ tempOpen' \in BOOLEAN
    BY <1>1 DEF ReturnFailed, Resolve, Resolved, MkstempFails, TempFails, Close, RenameFails
  <2> QED BY <1>0, <2>1, <2>2, <2>3
<1>2. CASE Stat BY <1>2 DEF Stat, NewMode, Found
<1>3. CASE Mkstemp
  <2>1. Held("new", 0) \in Bytes BY DEF Held, Bytes, Inode
  <2> QED BY <1>3, <2>1 DEF Mkstemp, Inode
<1>4. CASE Write
  <2>1. Written \in 0..DataLen BY DEF Written, Bytes, Inode
  <2>2. \A n \in ShortWrites : Held("new", LenAfter(n)) \in Bytes
    BY <2>1 DEF ShortWrites, LenAfter, Held, Bytes, Inode
  <2>3. bytes' \in [Inode -> Bytes] BY <1>4, <2>2 DEF Write
  <2> QED BY <1>4, <2>3 DEF Write
<1>5. CASE Fchmod
  <2>1. mode' \in [Inode -> Modes] BY <1>5 DEF Fchmod
  <2> QED BY <1>5, <2>1 DEF Fchmod, AfterFchmod
<1>6. CASE Fsync
  <2>1. synced' \in [Inode -> BOOLEAN] BY <1>6 DEF Fsync
  <2> QED BY <1>6, <2>1 DEF Fsync
<1>7. CASE Rename
  <2>0. target = "dest" /\ dir["temp"] = "new"
    BY <1>7 DEF Rename, TempInv, TargetInv, HasTemp, Filled
  <2>1. dir' \in Dirs BY <1>7, <2>0 DEF Rename, Inode
  <2>2. prev' \in Inode \cup {None, Directory} BY <1>7, <2>0 DEF Rename
  <2> QED BY <1>7, <2>1, <2>2 DEF Rename
<1>8. CASE Cleanup
  <2>1. dir' \in Dirs BY <1>8 DEF Cleanup
  <2>2. /\ writePc' = "returned" /\ tempOpen' \in BOOLEAN
        /\ litter' \in BOOLEAN /\ rc' \in {"ok", "failed"}
    BY <1>8 DEF Cleanup
  <2>3. UNCHANGED <<given, bytes, mode, synced, prev, target, newMode, isRenamed, replacements>>
    BY <1>8 DEF Cleanup
  <2> QED BY <2>1, <2>2, <2>3
<1>9. CASE Kill BY <1>9 DEF Kill
<1>10. CASE PowerLoss
  <2>1. Written \in 0..DataLen BY DEF Written, Bytes, Inode
  <2>2. \A len \in 0..Written : Held("new", len) \in Bytes
    BY <2>1 DEF Held, Bytes, Inode
  <2>3. bytes' \in [Inode -> Bytes] BY <1>10, <2>2 DEF PowerLoss
  <2>4. mode' \in [Inode -> Modes] BY <1>10 DEF PowerLoss, Inode
  <2>5. dir' \in Dirs
    BY <1>10 DEF PowerLoss
  <2> QED BY <1>10, <2>3, <2>4, <2>5 DEF PowerLoss
<1>11. ASSUME NEW x \in {"theirs", None, Directory}, Other(x) PROVE WriteTypeOK'
  <2>1. x \in Inode \cup {None, Directory} BY DEF Inode
  <2> QED BY <1>11, <2>1 DEF Other
<1>12. CASE UNCHANGED writeVars BY <1>12 DEF writeVars
<1> QED
  BY <1>1, <1>2, <1>3, <1>4, <1>5, <1>6, <1>7, <1>8, <1>9, <1>10, <1>11, <1>12
     DEF WriteNext, WriteStep

LEMMA TempStep == ASSUME IInv, [WriteNext]_writeVars PROVE TempInv'
<1> USE DEF TempInv, given, fs, locals, HasTemp, Filled
<1>0. WriteTypeOK /\ TempInv /\ CallInv /\ TargetInv BY DEF IInv
<1>1. CASE Mkstemp
  <2>1. dir'["temp"] = "new" /\ bytes'["new"] = Held("new", 0)
    BY <1>0, <1>1 DEF Mkstemp, WriteTypeOK, Inode
  <2>2. writePc' = "write" /\ ~isRenamed' BY <1>0, <1>1 DEF Mkstemp, CallInv
  <2> QED BY <2>1, <2>2 DEF Held
<1>2. CASE Write
  <2>0. ~isRenamed' /\ dir' = dir BY <1>0, <1>2 DEF Write, CallInv
  <2>1. CASE Written = DataLen
    <3>1. bytes["new"] = Held("new", DataLen)
      BY <1>0, <1>2, <2>1 DEF Write, Written, WriteTypeOK, Bytes, Held, Inode
    <3>2. writePc' = "fchmod" /\ bytes' = bytes
      BY <1>2, <2>1, OsWriteAssumption DEF Write
    <3> QED BY <1>0, <1>2, <2>0, <3>1, <3>2 DEF Write, Held
  <2>2. CASE Written # DataLen
    <3>1. writePc' = "write" /\ \E n \in ShortWrites : bytes'["new"] = Held("new", LenAfter(n))
      BY <1>0, <1>2, <2>2 DEF Write, WriteTypeOK, Inode
    <3> QED BY <1>0, <1>2, <2>0, <3>1 DEF Write, Held
  <2> QED BY <2>1, <2>2
<1>3. CASE Fchmod
  <2>1. writePc' = "fsync" /\ ~isRenamed' /\ UNCHANGED <<dir, bytes>>
    BY <1>0, <1>3 DEF Fchmod, AfterFchmod, CallInv
  <2> QED BY <1>0, <1>3, <2>1 DEF Fchmod
<1>4. CASE Fsync
  <2>1. synced'["new"] = TRUE BY <1>0, <1>4 DEF Fsync, WriteTypeOK, Inode
  <2> QED BY <1>0, <1>4, <2>1 DEF Fsync, CallInv
<1>5. CASE TempFails BY <1>0, <1>5 DEF TempFails, CallInv
<1>6. CASE Close BY <1>0, <1>6 DEF Close, CallInv, WriteTypeOK
<1>7. CASE Rename BY <1>0, <1>7 DEF Rename, CallInv
<1>8. CASE PowerLoss
  <2>1. writePc' = "off" /\ UNCHANGED <<isRenamed, synced>> BY <1>8 DEF PowerLoss
  <2>2. isRenamed => bytes' = bytes BY <1>0, <1>8 DEF PowerLoss
  <2> QED BY <1>0, <2>1, <2>2
<1>9. CASE ReturnFailed \/ Resolve \/ Stat \/ MkstempFails \/ RenameFails \/ Kill \/ Cleanup
  BY <1>0, <1>9 DEF ReturnFailed, Resolve, Stat, MkstempFails, RenameFails, Kill,
    Cleanup, CallInv
<1>10. ASSUME NEW x \in {"theirs", None, Directory}, Other(x) PROVE TempInv'
  BY <1>0, <1>10 DEF Other, WriteTypeOK
<1>11. CASE UNCHANGED writeVars BY <1>0, <1>11 DEF writeVars
<1> QED
  BY <1>1, <1>2, <1>3, <1>4, <1>5, <1>6, <1>7, <1>8, <1>9, <1>10, <1>11 DEF WriteNext, WriteStep

LEMMA CallStep == ASSUME IInv, [WriteNext]_writeVars PROVE CallInv' /\ TargetInv'
<1> USE DEF CallInv, TargetInv, given, fs, locals, HasTemp, Filled
<1>0. WriteTypeOK /\ CallInv /\ TargetInv BY DEF IInv
<1>1. CASE ReturnFailed \/ MkstempFails
  <2>1. /\ writePc' \in {"returned", "cleanup"} /\ rc' = "failed" /\ ~isRenamed'
        /\ UNCHANGED <<target, slash>>
    BY <1>0, <1>1 DEF ReturnFailed, MkstempFails
  <2> QED BY <1>0, <1>1, <2>1 DEF ReturnFailed, MkstempFails
<1>9. CASE Stat BY <1>0, <1>9 DEF Stat
<1>10. CASE Mkstemp BY <1>0, <1>10 DEF Mkstemp
<1>2. CASE Resolve BY <1>0, <1>2 DEF Resolve, Resolved, WriteTypeOK
<1>3. CASE Write \/ Fchmod \/ Fsync \/ TempFails
  BY <1>0, <1>3 DEF Write, Fchmod, AfterFchmod, Fsync, TempFails
<1>4. CASE Close BY <1>0, <1>4 DEF Close, WriteTypeOK
<1>5. CASE Rename BY <1>0, <1>5 DEF Rename
<1>11. CASE RenameFails BY <1>0, <1>11 DEF RenameFails
<1>12. CASE Cleanup BY <1>0, <1>12 DEF Cleanup
<1>13. CASE Kill BY <1>0, <1>13 DEF Kill
<1>6. CASE PowerLoss
  <2>1. writePc' = "off" /\ UNCHANGED <<given, locals>> BY <1>6 DEF PowerLoss
  <2> QED BY <1>0, <2>1
<1>7. ASSUME NEW x \in {"theirs", None, Directory}, Other(x)
      PROVE  CallInv' /\ TargetInv'
  BY <1>0, <1>7 DEF Other
<1>8. CASE UNCHANGED writeVars BY <1>0, <1>8 DEF writeVars
<1> QED
  BY <1>1, <1>2, <1>3, <1>4, <1>5, <1>6, <1>7, <1>8, <1>9, <1>10, <1>11, <1>12, <1>13
     DEF WriteNext, WriteStep

LEMMA HiddenStep == ASSUME IInv, [WriteNext]_writeVars PROVE HiddenInv'
<1> USE NamesAssumption DEF HiddenInv, given, fs, locals, HasTemp, Filled
<1>0. WriteTypeOK /\ CallInv /\ TargetInv /\ HiddenInv /\ TempInv BY DEF IInv
<1>1. CASE Rename
  <2>1. target = "dest" /\ ~isRenamed BY <1>0, <1>1 DEF Rename, TargetInv, CallInv
  <2>2. prev' = dir["dest"] BY <1>1, <2>1 DEF Rename
  <2> QED BY <1>0, <1>1, <2>1, <2>2 DEF Rename
<1>2. CASE Mkstemp \/ Cleanup
  <2>1. dir'["dest"] = dir["dest"] BY <1>0, <1>2 DEF Mkstemp, Cleanup, WriteTypeOK
  <2> QED BY <1>0, <1>2, <2>1 DEF Mkstemp, Cleanup
<1>3. CASE PowerLoss
  <2>1. dir'["dest"] = dir["dest"] \/ dir'["dest"] = prev
    BY <1>0, <1>3 DEF PowerLoss, WriteTypeOK
  <2> QED BY <1>0, <1>3, <2>1 DEF PowerLoss
<1>4. ASSUME NEW x \in {"theirs", None, Directory}, Other(x) PROVE HiddenInv'
  <2>1. x # "new" BY DEF Inode
  <2>2. dir'["dest"] = x BY <1>0, <1>4 DEF Other, WriteTypeOK
  <2> QED BY <1>4, <2>1, <2>2 DEF Other
<1>5. CASE ReturnFailed \/ Resolve \/ Stat \/ MkstempFails \/ Write \/ Fchmod
  BY <1>0, <1>5 DEF ReturnFailed, Resolve, Stat, MkstempFails, Write, Fchmod
<1>6. CASE Fsync \/ TempFails \/ Close \/ RenameFails \/ Kill
  BY <1>0, <1>6 DEF Fsync, TempFails, Close, RenameFails, Kill
<1>7. CASE UNCHANGED writeVars BY <1>0, <1>7 DEF writeVars
<1> QED
  BY <1>1, <1>2, <1>3, <1>4, <1>5, <1>6, <1>7 DEF WriteNext, WriteStep

\* The invariant holds in every reachable state.
THEOREM Invariance == WriteSpec => []IInv
<1>1. IInv /\ [WriteNext]_writeVars => IInv'
  <2> SUFFICES ASSUME IInv, [WriteNext]_writeVars PROVE IInv' OBVIOUS
  <2>1. WriteTypeOK' BY TypeStep DEF IInv
  <2>2. TempInv' /\ CallInv' /\ TargetInv' /\ HiddenInv' BY TempStep, CallStep, HiddenStep
  <2> QED BY <2>1, <2>2 DEF IInv
<1> QED BY <1>1, InitInv, PTL DEF WriteSpec

\* The state of os_write is well typed.
THEOREM TypeCorrect == WriteSpec => []WriteTypeOK
<1>1. IInv => WriteTypeOK BY DEF IInv
<1> QED BY <1>1, Invariance, PTL

-----------------------------------------------------------------------------
(* The refinement *)

\* A step that leaves the names alone, and the bytes of all but the temporary
\* file, changes nothing that is seen until the rename.
LEMMA Unseen ==
  ASSUME HiddenInv, dir'["dest"] = dir["dest"], prev' = prev,
         \A n \in Inode \ {"new"} : bytes'[n] = bytes[n],
         isRenamed => bytes' = bytes
  PROVE  UNCHANGED <<Seen(dir["dest"]), Seen(prev)>>
BY DEF HiddenInv, Seen

LEMMA RefinesInit == WriteInit => Promise!Init
<1> SUFFICES ASSUME WriteInit PROVE Promise!Init OBVIOUS
<1> USE NamesAssumption DEF WriteInit
<1>1. Seen(dir["dest"]) \in Bytes \cup {None, Directory}
  BY InitInv DEF IInv, WriteTypeOK, Seen
<1>2. Seen(prev) = Seen(dir["dest"]) OBVIOUS
<1>3. CallState = "pending" BY DEF CallState, Calls
<1> QED BY <1>1, <1>2, <1>3 DEF Promise!Init

\* Each step of os_write is a step of the promise, or is not seen.
LEMMA RefinesStep == ASSUME IInv, [WriteNext]_writeVars PROVE [Promise!Next]_Promise!vars
<1> USE DEF given, fs, locals, HasTemp, Filled
<1>0. WriteTypeOK /\ TempInv /\ HiddenInv /\ TargetInv /\ CallInv BY DEF IInv
<1>1. CASE \/ Resolve \/ Stat \/ Mkstemp \/ MkstempFails \/ Write \/ Fchmod
           \/ Fsync \/ TempFails \/ Close \/ RenameFails
  <2>1. writePc \in Calls /\ writePc' \in Calls /\ ~isRenamed /\ ~isRenamed'
    BY <1>0, <1>1 DEF Resolve, Stat, Mkstemp, MkstempFails, Write, Fchmod, AfterFchmod,
      Fsync, TempFails, Close, RenameFails, Calls, CallInv
  <2>2. CallState = "pending" /\ CallState' = "pending"
    BY <2>1 DEF CallState, Calls
  <2>3. /\ dir'["dest"] = dir["dest"] /\ prev' = prev
        /\ \A n \in Inode \ {"new"} : bytes'[n] = bytes[n]
    BY <1>0, <1>1 DEF Resolve, Stat, Mkstemp, MkstempFails, Write, Fchmod, Fsync,
      TempFails, Close, RenameFails, WriteTypeOK
  <2>4. UNCHANGED <<Seen(dir["dest"]), Seen(prev)>> BY <1>0, <2>1, <2>3, Unseen
  <2> QED BY <2>2, <2>4 DEF Promise!vars
<1>2. CASE ReturnFailed
  <2>1. CallState = "pending" /\ CallState' = "failed"
    BY <1>0, <1>2 DEF ReturnFailed, CallState, CallInv, Calls
  <2>2. UNCHANGED <<Seen(dir["dest"]), Seen(prev)>> BY <1>2 DEF ReturnFailed, Seen
  <2> QED BY <2>1, <2>2 DEF Promise!Next, Promise!Fail
<1>3. CASE Rename
  <2>1. CallState = "pending" /\ CallState' = "committed"
    BY <1>0, <1>3 DEF Rename, CallState, CallInv, Calls
  <2>2. target = "dest" /\ dir["temp"] = "new" /\ bytes["new"] = Held("new", DataLen)
    BY <1>0, <1>3 DEF Rename, TargetInv, TempInv, CallInv
  <2>3. dir'["dest"] = "new" /\ prev' = dir["dest"] /\ bytes' = bytes
    BY <1>0, <1>3, <2>2 DEF Rename, WriteTypeOK
  <2>4. Seen(dir["dest"])' = Held("new", DataLen) /\ Seen(prev)' = Seen(dir["dest"])
    BY <2>2, <2>3 DEF Seen, Inode
  <2> QED BY <2>1, <2>4 DEF Promise!Next, Promise!Commit
<1>4. CASE Cleanup
  <2>1. dir'["dest"] = dir["dest"] /\ UNCHANGED <<prev, bytes, rc, isRenamed>>
    BY <1>0, <1>4 DEF Cleanup, WriteTypeOK
  <2>2. UNCHANGED <<Seen(dir["dest"]), Seen(prev)>> BY <2>1 DEF Seen
  <2>3. CASE isRenamed
    <3>1. writePc = "cleanup" /\ writePc' = "returned" /\ rc' = "ok"
      BY <1>0, <1>4, <2>1, <2>3 DEF Cleanup, CallInv
    <3>2. CallState = "committed" /\ CallState' = "ok" BY <2>3, <3>1 DEF CallState, Calls
    <3> QED BY <2>2, <3>2 DEF Promise!Next, Promise!Succeed
  <2>4. CASE ~isRenamed
    <3>1. CallState = "pending" /\ CallState' = "failed"
      BY <1>0, <1>4, <2>1, <2>4 DEF Cleanup, CallState, CallInv, Calls, WriteTypeOK
    <3> QED BY <2>2, <3>1 DEF Promise!Next, Promise!Fail
  <2> QED BY <2>3, <2>4
<1>5. CASE Kill
  <2>0. writePc \in Calls /\ writePc' = "killed" BY <1>5 DEF Kill
  <2>1. CallState \in {"pending", "committed"} /\ CallState' = "died"
    <3>1. writePc # "off" /\ writePc # "killed" /\ writePc # "returned" BY <2>0 DEF Calls
    <3>2. CallState = IF isRenamed THEN "committed" ELSE "pending"
      BY <2>0, <3>1 DEF CallState
    <3>3. CallState' = "died" BY <2>0 DEF CallState, Calls
    <3> QED BY <3>2, <3>3
  <2>2. UNCHANGED <<Seen(dir["dest"]), Seen(prev)>> BY <1>5 DEF Kill, Seen
  <2> QED BY <2>1, <2>2 DEF Promise!Next, Promise!Die
<1>6. CASE PowerLoss
  <2>0. writePc # "off" /\ writePc' = "off" BY <1>6 DEF PowerLoss
  <2>1. CallState # "off" /\ CallState' = "off"
    <3>1. CallState' = "off" BY <2>0 DEF CallState, Calls
    <3>2. rc # "off" BY <1>0 DEF WriteTypeOK
    <3>3. CallState # "off" BY <1>0, <2>0, <3>2 DEF CallState, Calls, WriteTypeOK
    <3> QED BY <3>1, <3>3
  <2>2. /\ isRenamed => bytes' = bytes
        /\ \A n \in Inode \ {"new"} : bytes'[n] = bytes[n]
        /\ prev' = prev
    BY <1>0, <1>6 DEF PowerLoss, TempInv, WriteTypeOK
  <2>3. Seen(prev)' = Seen(prev) BY <1>0, <2>2 DEF HiddenInv, Seen
  <2>4. CASE dir' = dir
    <3>1. Seen(dir["dest"])' = Seen(dir["dest"]) BY <1>0, <2>2, <2>4, Unseen
    <3> QED BY <2>1, <2>3, <3>1 DEF Promise!Next, Promise!PowerLoss
  <2>5. CASE isRenamed /\ dir' = [dir EXCEPT !["dest"] = prev]
    <3>1. dir'["dest"] = prev BY <1>0, <2>5 DEF WriteTypeOK
    <3>2. Seen(dir["dest"])' = Seen(prev) BY <2>2, <2>5, <3>1 DEF Seen
    <3> QED BY <2>1, <2>3, <3>2 DEF Promise!Next, Promise!PowerLoss
  <2> QED BY <1>6, <2>4, <2>5 DEF PowerLoss
<1>7. ASSUME NEW x \in {"theirs", None, Directory}, Other(x)
      PROVE  Promise!Next
  <2>1. CallState # "off" /\ CallState' = CallState
    BY <1>0, <1>7 DEF Other, CallState, WriteTypeOK
  <2>2. dir'["dest"] = x /\ prev' = x /\ bytes' = bytes BY <1>0, <1>7 DEF Other, WriteTypeOK
  <2> DEFINE v == Seen(x)
  <2>3. v \in Bytes \cup {None, Directory}
    BY <1>0, NamesAssumption DEF Seen, Inode, WriteTypeOK
  <2>4. Seen(dir["dest"])' = v /\ Seen(prev)' = v BY <2>2 DEF Seen
  <2>5. Promise!Other(v) BY <2>1, <2>4 DEF Promise!Other
  <2> QED BY <2>3, <2>5 DEF Promise!Next
<1>8. CASE UNCHANGED writeVars
  <2>1. UNCHANGED <<Seen(dir["dest"]), Seen(prev), CallState>>
    BY <1>8 DEF writeVars, Seen, CallState
  <2> QED BY <2>1 DEF Promise!vars
<1> QED
  BY <1>1, <1>2, <1>3, <1>4, <1>5, <1>6, <1>7, <1>8 DEF WriteNext, WriteStep

\* os_write does to its destination only what os.h promises, whatever fails and
\* whenever the process or the machine stops.
THEOREM Refines == WriteSpec => ImplementsAtomicFile
<1>1. IInv /\ [WriteNext]_writeVars => [Promise!Next]_Promise!vars BY RefinesStep
<1> QED BY <1>1, RefinesInit, Invariance, PTL DEF WriteSpec, ImplementsAtomicFile, Promise!Spec

-----------------------------------------------------------------------------
(* The mode, and what a call leaves behind *)

Kept == IF existed = None THEN Created ELSE existed

\* While nobody else replacements: what stat is to find, what it found, and where fchmod
\* put it.
ModeInv ==
  replacements = 0 =>
    /\ writePc \in {"resolve", "stat"} =>
         IF dir["dest"] \in Inode
         THEN mode[dir["dest"]] = existed /\ existed # None
         ELSE existed = None
    /\ writePc = "mkstemp" \/ writePc \in HasTemp => newMode = Kept
    /\ writePc = "fsync" \/ (writePc \in {"close", "rename"} /\ rc = "ok") \/ isRenamed =>
         mode["new"] = Kept

\* The descriptor and the temporary name last from mkstemp to close and to cleanup.
LeftInv ==
  /\ writePc \in {"resolve", "stat", "mkstemp"} => ~tempOpen /\ dir["temp"] = None
  /\ writePc \in {"rename", "cleanup", "returned"} => ~tempOpen
  /\ writePc = "returned" => litter \/ dir["temp"] = None
  /\ isRenamed => dir["temp"] = None
  /\ dir["link"] = IF path = "link" THEN Symlink ELSE None

LEMMA LeftInit == WriteInit => ModeInv /\ LeftInv
<1> SUFFICES ASSUME WriteInit PROVE ModeInv /\ LeftInv OBVIOUS
<1>1. PICK d \in {"old", None, Directory}, m \in Modes :
        /\ dir = [dest |-> d, link |-> IF path = "link" THEN Symlink ELSE None, temp |-> None]
        /\ mode = [n \in Inode |-> m]
        /\ existed = IF d = "old" THEN m ELSE None
  BY DEF WriteInit
<1>2. writePc = "resolve" /\ ~isRenamed /\ ~tempOpen BY DEF WriteInit
<1>3. ModeInv BY <1>1, <1>2, NamesAssumption DEF ModeInv, HasTemp, Filled, Inode
<1>4. LeftInv BY <1>1, <1>2 DEF LeftInv
<1> QED BY <1>3, <1>4

LEMMA ModeStep == ASSUME IInv, ModeInv, [WriteNext]_writeVars PROVE ModeInv'
<1> USE NamesAssumption DEF ModeInv, given, fs, locals, HasTemp, Filled, Kept
<1>0. WriteTypeOK /\ CallInv /\ TempInv /\ HiddenInv BY DEF IInv
<1>1. CASE ReturnFailed \/ Resolve \/ MkstempFails \/ RenameFails \/ Kill
  BY <1>0, <1>1 DEF ReturnFailed, Resolve, MkstempFails, RenameFails, Kill, CallInv
<1>2. CASE Stat BY <1>0, <1>2 DEF Stat, NewMode, Found, CallInv
<1>3. CASE Mkstemp BY <1>0, <1>3 DEF Mkstemp, CallInv
<1>4. CASE Write BY <1>0, <1>4 DEF Write, CallInv
<1>5. CASE Fchmod
  <2>1. mode'["new"] = newMode BY <1>0, <1>5 DEF Fchmod, WriteTypeOK, Inode
  <2> QED BY <1>0, <1>5, <2>1 DEF Fchmod, AfterFchmod, CallInv
<1>6. CASE Fsync BY <1>0, <1>6 DEF Fsync, CallInv
<1>7. CASE TempFails BY <1>0, <1>7 DEF TempFails, CallInv
<1>8. CASE Close BY <1>0, <1>8 DEF Close, CallInv, WriteTypeOK
<1>9. CASE Rename BY <1>0, <1>9 DEF Rename, CallInv
<1>10. CASE Cleanup BY <1>0, <1>10 DEF Cleanup
<1>11. CASE PowerLoss
  <2>1. writePc' = "off" /\ UNCHANGED <<given, synced, locals, replacements>> BY <1>11 DEF PowerLoss
  <2>2. isRenamed => mode' = mode BY <1>0, <1>11 DEF PowerLoss, TempInv
  <2> QED BY <2>1, <2>2
<1>12. ASSUME NEW x \in {"theirs", None, Directory}, Other(x) PROVE ModeInv'
  BY <1>0, <1>12, OsWriteAssumption DEF Other, WriteTypeOK
<1>13. CASE UNCHANGED writeVars BY <1>13 DEF writeVars
<1> QED
  BY <1>1, <1>2, <1>3, <1>4, <1>5, <1>6, <1>7, <1>8, <1>9, <1>10, <1>11, <1>12, <1>13
     DEF WriteNext, WriteStep

LEMMA LeftStep == ASSUME IInv, LeftInv, [WriteNext]_writeVars PROVE LeftInv'
<1> USE DEF LeftInv, given, fs, locals, HasTemp, Filled
<1>0. WriteTypeOK /\ CallInv /\ TargetInv BY DEF IInv
<1>1. CASE ReturnFailed \/ Resolve \/ Stat \/ MkstempFails \/ RenameFails \/ Kill
  BY <1>0, <1>1 DEF ReturnFailed, Resolve, Stat, MkstempFails, RenameFails, Kill
<1>2. CASE Mkstemp
  <2>1. dir'["link"] = dir["link"] BY <1>0, <1>2 DEF Mkstemp, WriteTypeOK
  <2> QED BY <1>0, <1>2, <2>1 DEF Mkstemp, CallInv
<1>3. CASE Write \/ Fchmod \/ Fsync \/ TempFails
  BY <1>0, <1>3 DEF Write, Fchmod, AfterFchmod, Fsync, TempFails
<1>4. CASE Close BY <1>4 DEF Close
<1>5. CASE Rename
  <2>1. target = "dest" BY <1>0, <1>5 DEF Rename, TargetInv
  <2>2. dir'["link"] = dir["link"] /\ dir'["temp"] = None
    BY <1>0, <1>5, <2>1 DEF Rename, WriteTypeOK
  <2> QED BY <1>5, <2>2 DEF Rename
<1>6. CASE Cleanup
  <2>1. /\ dir'["link"] = dir["link"]
        /\ dir' = dir \/ dir'["temp"] = None
        /\ Unlinks => litter' \/ dir'["temp"] = None
    BY <1>0, <1>6 DEF Cleanup, WriteTypeOK
  <2> QED BY <1>6, <2>1 DEF Cleanup, Unlinks
<1>7. CASE PowerLoss
  <2>1. writePc' = "off" /\ UNCHANGED <<given, locals, litter>> BY <1>7 DEF PowerLoss
  <2>2. dir'["link"] = dir["link"] /\ dir'["temp"] = dir["temp"]
    BY <1>0, <1>7 DEF PowerLoss, WriteTypeOK
  <2> QED BY <2>1, <2>2
<1>8. ASSUME NEW x \in {"theirs", None, Directory}, Other(x) PROVE LeftInv'
  <2>1. dir'["link"] = dir["link"] /\ dir'["temp"] = dir["temp"]
    BY <1>0, <1>8 DEF Other, WriteTypeOK
  <2> QED BY <1>8, <2>1 DEF Other
<1>9. CASE UNCHANGED writeVars BY <1>9 DEF writeVars
<1> QED BY <1>1, <1>2, <1>3, <1>4, <1>5, <1>6, <1>7, <1>8, <1>9 DEF WriteNext, WriteStep

\* Unless someone else replaces it, the destination has the mode it had, or the
\* umask's when os_write created it, after any failure and any loss of power.
THEOREM ModeIsKeptHolds == WriteSpec => []ModeIsKept
<1>1. WriteInit => ModeInv BY LeftInit
<1>2. IInv /\ ModeInv /\ [WriteNext]_writeVars => ModeInv' BY ModeStep
<1>3. IInv /\ ModeInv => ModeIsKept BY DEF IInv, HiddenInv, ModeInv, Kept, ModeIsKept
<1> QED BY <1>1, <1>2, <1>3, Invariance, PTL DEF WriteSpec

\* Whichever call fails, os_write returns with its descriptor closed and its
\* temporary file gone, unless unlink itself failed, and never replaces the link.
THEOREM NothingIsLeftHolds == WriteSpec => []NothingIsLeft
<1>1. WriteInit => LeftInv BY LeftInit
<1>2. IInv /\ LeftInv /\ [WriteNext]_writeVars => LeftInv' BY LeftStep
<1>3. LeftInv => NothingIsLeft BY DEF LeftInv, NothingIsLeft
<1> QED BY <1>1, <1>2, <1>3, Invariance, PTL DEF WriteSpec
=============================================================================
