------------------------------- MODULE OsRead -------------------------------
(***************************************************************************)
(* os_read of fs.c, one system call per step, while another process may    *)
(* append to the file, truncate it or overwrite it. The size is taken once,*)
(* before the bytes, and the bytes come through stdio in as many system    *)
(* reads as it likes.                                                      *)
(*                                                                         *)
(* A byte says who wrote it: "old" bytes were there at first, "new" ones   *)
(* come from an edit, and either may be a NUL.                             *)
(***************************************************************************)
EXTENDS Naturals, Sequences, SequencesExt

CONSTANTS
  DataLenMax,  \* data_len_max
  MaxLen,      \* Bound: length of a file
  MaxEdits     \* Bound: edits by other processes

ASSUME OsReadAssumption == DataLenMax \in Nat /\ MaxLen \in Nat /\ MaxEdits \in Nat

Byte == {"old", "new", "nul"}
Content == SeqOf(Byte, MaxLen)

VARIABLES
  regular,   \* Whether the path names a regular file, and not with a slash
  file,      \* The bytes of the file
  pc,        \* The next system call, or "returned" or "oom"
  fdOpen,    \* Whether the descriptor, or the stream over it, is open
  size,      \* st_size
  stream,    \* What stdio has read, buffered bytes included
  eof,       \* Whether stdio has seen the end
  cause,     \* The error logged, "ok" when there is none
  perm,      \* Bytes left in the caller's arena
  hasData,   \* Whether data_out was set
  first,     \* History: the file at fstat
  versions,  \* History: the file at any time from fstat to the last read
  edited,    \* History: the kinds of edits in that time
  edits      \* Edits so far

call == <<size, stream, eof, cause>>
result == <<perm, hasData>>
history == <<first, versions, edited, edits>>
vars == <<regular, file, pc, fdOpen, call, result, history>>

Reading == {"alloc", "fdopen", "fread", "extra"}

Init ==
  /\ regular \in BOOLEAN
  /\ file \in SeqOf({"old", "nul"}, MaxLen)
  /\ pc = "open" /\ fdOpen = FALSE
  /\ size = 0 /\ stream = <<>> /\ eof = FALSE /\ cause = "ok"
  /\ perm = <<>> /\ hasData = FALSE
  /\ first = <<>> /\ versions = {} /\ edited = {} /\ edits = 0

-----------------------------------------------------------------------------
(* Open and inspect *)

Open ==
  /\ pc = "open"
  /\ pc' = "fstat" /\ fdOpen' = TRUE
  /\ UNCHANGED <<regular, file, call, result, history>>

\* A missing file, or one that cannot be opened or inspected.
OpenFails ==
  /\ pc \in {"open", "fstat"}
  /\ pc' = "returned" /\ cause' = "errno" /\ fdOpen' = FALSE
  /\ UNCHANGED <<regular, file, size, stream, eof, result, history>>

IsTooLarge_Inclusive == Len(file) > DataLenMax + 1
IsTooLarge == Len(file) > DataLenMax

\* fstat and os_read_check. A refusal closes the descriptor.
Fstat ==
  /\ pc = "fstat"
  /\ size' = Len(file)
  /\ \/ /\ regular /\ ~IsTooLarge
        /\ pc' = "alloc" /\ UNCHANGED <<fdOpen, cause>>
     \/ /\ ~regular \/ IsTooLarge
        /\ pc' = "returned" /\ fdOpen' = FALSE
        /\ cause' = IF regular THEN "too_large" ELSE "not_regular"
  /\ first' = file /\ versions' = {file}
  /\ UNCHANGED <<regular, file, stream, eof, result, edited, edits>>

\* The bytes are placed in a copy of the arena, which may run out.
Alloc ==
  /\ pc = "alloc"
  /\ pc' \in {"fdopen", "oom"}
  /\ UNCHANGED <<regular, file, fdOpen, call, result, history>>

-----------------------------------------------------------------------------
(* Read *)

FdOpen ==
  /\ pc = "fdopen"
  /\ pc' = "fread"
  /\ UNCHANGED <<regular, file, fdOpen, call, result, history>>

FdOpenFails ==
  /\ pc = "fdopen"
  /\ pc' = "returned" /\ cause' = "errno" /\ fdOpen' = FALSE
  /\ UNCHANGED <<regular, file, size, stream, eof, result, history>>

Wanted == IF pc = "fread" THEN size ELSE size + 1
HasWanted == Len(stream) >= Wanted \/ eof

\* Where the file is read.
Offset == Len(stream)

\* One system read of stdio: some bytes, past the wanted ones too, or the end.
\* It may look for the end after the last byte, and makes no call for no bytes.
SysRead ==
  /\ pc \in {"fread", "extra"} /\ ~eof
  /\ Len(stream) <= size /\ Wanted > 0
  /\ \/ /\ Offset >= Len(file)
        /\ eof' = TRUE /\ UNCHANGED stream
     \/ \E n \in 1..(Len(file) - Offset) :
          /\ stream' = stream \o SubSeq(file, Offset + 1, Offset + n)
          /\ UNCHANGED eof
  /\ UNCHANGED <<regular, file, pc, fdOpen, size, cause, result, history>>

SysReadFails ==
  /\ pc \in {"fread", "extra"} /\ ~eof /\ Wanted > 0
  /\ pc' = "fclose" /\ cause' = "errno"
  /\ UNCHANGED <<regular, file, fdOpen, size, stream, eof, result, history>>

Shrank == Len(stream) < size

Data == IF Shrank THEN stream ELSE SubSeq(stream, 1, size)
HasNul == \E k \in 1..Len(Data) : Data[k] = "nul"

NulCause == IF HasNul THEN "nul" ELSE "ok"

GoesOnToExtra_Never == FALSE
GoesOnToExtra == ~Shrank /\ ~eof

\* The first fread returns: too few bytes, all of them and the end, or all of them.
FreadReturns ==
  /\ pc = "fread" /\ HasWanted
  /\ \/ GoesOnToExtra /\ pc' = "extra" /\ UNCHANGED cause
     \/ /\ ~GoesOnToExtra /\ pc' = "fclose"
        /\ cause' = IF Shrank THEN "shrank" ELSE NulCause
  /\ UNCHANGED <<regular, file, fdOpen, size, stream, eof, result, history>>

\* One byte more means that the file grew.
Grew_AtEnd == eof
Grew == Len(stream) > size

ExtraReturns ==
  /\ pc = "extra" /\ HasWanted
  /\ pc' = "fclose"
  /\ cause' = IF Grew THEN "grew" ELSE NulCause
  /\ UNCHANGED <<regular, file, fdOpen, size, stream, eof, result, history>>

PublishesArena == cause' = "ok"

\* fclose, which may fail, and what os_read publishes.
Fclose ==
  /\ pc = "fclose"
  /\ pc' = "returned" /\ fdOpen' = FALSE
  /\ cause' \in {cause, IF cause = "ok" THEN "errno" ELSE cause}
  /\ perm' = IF PublishesArena THEN Data ELSE perm
  /\ hasData' = (cause' = "ok")
  /\ UNCHANGED <<regular, file, size, stream, eof, history>>

-----------------------------------------------------------------------------
(* Another process *)

Edit(kind, content) ==
  /\ edits < MaxEdits
  /\ edits' = edits + 1
  /\ file' = content
  /\ IF pc \in Reading /\ ~eof
     THEN versions' = versions \cup {content} /\ edited' = edited \cup {kind}
     ELSE UNCHANGED <<versions, edited>>
  /\ UNCHANGED <<regular, pc, fdOpen, call, result, first>>

AppendMore ==
  \E more \in SeqOf({"new", "nul"}, MaxLen - Len(file)) \ {<<>>} :
    Edit("append", file \o more)

Truncate == \E n \in 0..(Len(file) - 1) : Edit("truncate", SubSeq(file, 1, n))

Overwrite == \E k \in 1..Len(file) : Edit("overwrite", [file EXCEPT ![k] = "new"])

Next ==
  \/ Open \/ OpenFails \/ Fstat \/ Alloc \/ FdOpen \/ FdOpenFails
  \/ SysRead \/ SysReadFails \/ FreadReturns \/ ExtraReturns \/ Fclose
  \/ AppendMore \/ Truncate \/ Overwrite

Spec == Init /\ [][Next]_vars

-----------------------------------------------------------------------------
(* Properties *)

IsRead == pc = "returned" /\ cause = "ok"

\* A successful read is as long as the file fstat saw, within the limit and without
\* a NUL, and each of its bytes was in the file at its place.
ReadsTheFile ==
  IsRead =>
    /\ Len(perm) = Len(first) /\ Len(perm) <= DataLenMax
    /\ \A k \in 1..Len(perm) :
         perm[k] # "nul" /\ \E v \in versions : k <= Len(v) /\ perm[k] = v[k]

\* A writer that only appends, or only truncates, cannot make the read succeed with
\* anything but the file that fstat saw, and nothing is appended before its end is
\* read.
OneWayWriterIsSeen ==
  IsRead =>
    /\ edited \subseteq {"truncate"} => perm = first
    /\ edited \subseteq {"append"} => perm = first /\ versions = {first}

\* A diagnostic names what happened: a file that only grew is not said to have
\* shrunk, nor one that only shrank to have grown.  A read that returns leaves no
\* descriptor open, and one that fails leaves the caller's arena and its output as it
\* found them.
VerdictIsTrue ==
  /\ cause = "shrank" => "truncate" \in edited
  /\ cause = "grew" => "append" \in edited
  /\ cause = "nul" => \E v \in versions : \E k \in 1..Len(v) : v[k] = "nul"
  /\ pc = "returned" =>
       /\ ~fdOpen
       /\ cause # "ok" => perm = <<>> /\ ~hasData
=============================================================================
