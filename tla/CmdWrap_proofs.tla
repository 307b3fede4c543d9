--------------------------- MODULE CmdWrap_proofs ---------------------------
(***************************************************************************)
(* For every command line, every set of files and every rewrap: a bad      *)
(* input found by the first pass keeps every file unwritten, a file ends   *)
(* as it was or rewrapped, and the log, the report of a failed allocation  *)
(* and the exit code tell what happened to every input.                    *)
(***************************************************************************)
EXTENDS CmdWrap, SequenceTheorems, TLAPS

-----------------------------------------------------------------------------
(* Type correctness *)

\* The command line of cmd_wrap_run is a nonempty sequence of names, of paths
\* when it writes.
LEMMA InitInputs ==
  ASSUME Init
  PROVE  /\ inputs \in Seq(Source) /\ Len(inputs) \in 1..MaxInputs
         /\ mode = "in_place" => \A k \in 1..Len(inputs) : inputs[k] \in Path
<1>1. ASSUME NEW n \in 1..MaxInputs, inputs \in [1..n -> Path]
      PROVE  inputs \in Seq(Path) /\ Len(inputs) = n
  <2>1. inputs \in Seq(Path) BY <1>1, SeqDef
  <2> QED BY <1>1, <2>1, LenProperties
<1>2. ASSUME inputs = <<Stdin>>, mode # "in_place"
      PROVE  /\ inputs \in Seq(Source) /\ Len(inputs) \in 1..MaxInputs
  BY <1>2, CmdWrapAssumption DEF Source
<1>3. Path \subseteq Source BY DEF Source
<1> QED BY <1>1, <1>2, <1>3, SeqMonotonic, ElementOfSeq DEF Init

\* The command line is fixed for the run.
LEMMA OptionsStep == ASSUME OptionsOK, [Next]_vars PROVE OptionsOK' /\ UNCHANGED options
<1>1. UNCHANGED options
  BY DEF Next, Step, vars, ReserveLog, ReserveBlock, NextInput, EndProbe,
    EndRun, ReadInput, ReadFails, Rewrap, EmitUnchanged, EmitCheck, EmitWrite,
    EmitPrint, EmitFails, LogError, PrintLog, ClearOom, Release, Oom, Kill, Edit
<1> QED BY <1>1 DEF options, OptionsOK

\* A fault spends one of the budget.
LEMMA FaultStep ==
  ASSUME Fault, faults \in 0..MaxFaults
  PROVE  faults' \in 0..MaxFaults
BY CmdWrapAssumption DEF Fault

\* The program counters, counters and flags.
LEMMA ControlStep ==
  ASSUME OptionsOK, ControlOK, [Next]_vars
  PROVE  ControlOK'
<1> USE CmdWrapAssumption DEF ControlOK, Running, Ended, options, oomState, printed
<1>1. inputs' = inputs /\ Len(inputs) \in Nat
  BY OptionsStep DEF OptionsOK
<1>2. CASE NextInput BY <1>1, <1>2 DEF NextInput
<1>3. CASE EndProbe
  <2>1. (pc \in Running /\ ~ pc \in {"read", "rewrap", "emit", "diagnose"})'
    BY <1>3 DEF EndProbe
  <2>2. (pass \in {"probe", "run"} /\ i \in 0..Len(inputs))'
    BY <1>1, <1>3 DEF EndProbe
  <2> QED BY <1>3, <2>1, <2>2 DEF EndProbe
<1>9. CASE EndRun BY <1>1, <1>9 DEF EndRun
<1>4. CASE ReadInput BY <1>1, <1>4 DEF ReadInput
<1>10. CASE ReadFails
  <2>1. faults' \in 0..MaxFaults BY <1>10, FaultStep DEF ReadFails
  <2> QED BY <1>1, <1>10, <2>1 DEF ReadFails, Diagnostics
<1>11. CASE EmitFails
  <2>1. faults' \in 0..MaxFaults BY <1>11, FaultStep DEF EmitFails
  <2> QED BY <1>1, <1>11, <2>1 DEF EmitFails, Diagnostics
<1>5. CASE \/ ReserveLog \/ ReserveBlock \/ Rewrap \/ EmitUnchanged \/ EmitCheck
           \/ EmitWrite \/ EmitPrint
  BY <1>1, <1>5 DEF ReserveLog, ReserveBlock, Rewrap, EmitUnchanged, EmitCheck,
    EmitWrite, EmitPrint, Diagnostics
<1>6. CASE LogError \/ PrintLog \/ ClearOom \/ Release \/ Oom \/ Kill
  BY <1>1, <1>6 DEF LogError, PrintLog, ClearOom, Release, Oom, Kill, FailsTheRun,
    ExitCode
<1>7. ASSUME NEW p \in Path, NEW c \in Content \cup {Unreadable}, Edit(p, c)
      PROVE  ControlOK'
  BY <1>1, <1>7 DEF Edit
<1>8. CASE UNCHANGED vars BY <1>8 DEF vars
<1> QED
  BY <1>2, <1>3, <1>4, <1>5, <1>6, <1>7, <1>8, <1>9, <1>10, <1>11 DEF Next, Step

\* The current input is one of the inputs, and a path when the run writes.
LEMMA CurrentInput ==
  ASSUME OptionsOK, ControlOK
  PROVE  /\ i > 0 => i \in 1..Len(inputs) /\ inputs[i] \in Source
         /\ i > 0 /\ mode = "in_place" => inputs[i] \in Path
         /\ i < Len(inputs) => inputs[i + 1] \in Source
<1>1. Len(inputs) \in Nat /\ i \in 0..Len(inputs) BY DEF OptionsOK, ControlOK
<1>2. \A k \in 1..Len(inputs) : inputs[k] \in Source BY ElementOfSeq DEF OptionsOK
<1>3. i > 0 => i \in 1..Len(inputs) BY <1>1
<1>4. i < Len(inputs) => i + 1 \in 1..Len(inputs) BY <1>1
<1> QED BY <1>2, <1>3, <1>4 DEF OptionsOK

\* The bytes in hand.
LEMMA DataStep ==
  ASSUME OptionsOK, ControlOK, DataOK, [Next]_vars
  PROVE  DataOK'
<1> USE DEF DataOK
<1>1. CASE ReadInput
  <2>1. disk[inputs[i]] \in Content
    BY <1>1, CurrentInput DEF ReadInput, ControlOK
  <2> QED BY <1>1, <2>1 DEF ReadInput
<1>2. CASE Rewrap
  <2>1. Wrap[source] \in Content BY <1>2, CmdWrapAssumption DEF Rewrap
  <2> QED BY <1>2, <2>1 DEF Rewrap
<1>3. CASE EmitWrite
  <2>1. disk' \in [Source -> Content \cup {Unreadable}] BY <1>3 DEF EmitWrite
  <2> QED BY <1>3, <2>1 DEF EmitWrite
<1>4. ASSUME NEW p \in Path, NEW c \in Content \cup {Unreadable}, Edit(p, c)
      PROVE  DataOK'
  <2>1. disk' \in [Source -> Content \cup {Unreadable}] BY <1>4 DEF Edit
  <2> QED BY <1>4, <2>1 DEF Edit
<1>5. CASE \/ ReserveLog \/ ReserveBlock \/ NextInput \/ EndProbe \/ EndRun
           \/ ReadFails
  BY <1>5 DEF ReserveLog, ReserveBlock, NextInput, EndProbe, EndRun, ReadFails
<1>6. CASE EmitUnchanged \/ EmitCheck \/ EmitPrint \/ EmitFails
  BY <1>6 DEF EmitUnchanged, EmitCheck, EmitPrint, EmitFails
<1>7. CASE LogError \/ PrintLog \/ ClearOom \/ Release \/ Oom \/ Kill
  BY <1>7 DEF LogError, PrintLog, ClearOom, Release, Oom, Kill, ExitCode
<1>8. CASE UNCHANGED vars BY <1>8 DEF vars
<1> QED
  BY <1>1, <1>2, <1>3, <1>4, <1>5, <1>6, <1>7, <1>8 DEF Next, Step

\* The job that the out-of-memory report would name, and the one it named.
LEMMA JobStep ==
  ASSUME OptionsOK, ControlOK, JobOK, [Next]_vars
  PROVE  JobOK'
<1> USE DEF JobOK, oomState, printed
<1>1. \A phase \in Phases \cup {""}, name \in Source :
        Job(phase, name) \in [phase : Phases \cup {""}, name : Source]
  BY DEF Job
<1>2. CASE NextInput
  <2>1. inputs[i + 1] \in Source BY <1>2, CurrentInput DEF NextInput
  <2> QED BY <1>1, <1>2, <2>1 DEF NextInput, Phases
<1>3. CASE ReadInput
  <2>1. inputs[i] \in Source BY <1>3, CurrentInput DEF ReadInput, ControlOK
  <2>2. /\ oomJob' = oomJob \/ oomJob' = Job("rewrap", inputs[i])
        /\ blame' = blame
    BY <1>3 DEF ReadInput
  <2>3. Job("rewrap", inputs[i]) \in [phase : Phases \cup {""}, name : Source]
    BY <1>1, <2>1 DEF Phases
  <2> QED BY <2>2, <2>3
<1>4. CASE Rewrap
  <2>1. inputs[i] \in Source BY <1>4, CurrentInput DEF Rewrap, ControlOK
  <2>2. WritePhase \in Phases BY DEF WritePhase, Phases
  <2>3. EmitJob \in [phase : Phases \cup {""}, name : Source]
    BY <1>1, <2>1, <2>2 DEF EmitJob
  <2>4. oomJob' = EmitJob /\ blame' = blame BY <1>4 DEF Rewrap
  <2> QED BY <2>3, <2>4
<1>5. CASE ClearOom
  BY <1>1, <1>5 DEF ClearOom, NoJob, Source
<1>6. CASE Oom BY <1>6 DEF Oom
<1>7. CASE \/ ReserveLog \/ ReserveBlock \/ EndProbe \/ EndRun \/ ReadFails
  BY <1>7 DEF ReserveLog, ReserveBlock, EndProbe, EndRun, ReadFails
<1>8. CASE EmitUnchanged \/ EmitCheck \/ EmitWrite \/ EmitPrint \/ EmitFails
  BY <1>8 DEF EmitUnchanged, EmitCheck, EmitWrite, EmitPrint, EmitFails
<1>9. CASE LogError \/ PrintLog \/ Release \/ Kill
  BY <1>9 DEF LogError, PrintLog, Release, Kill
<1>10. ASSUME NEW p \in Path, NEW c \in Content \cup {Unreadable}, Edit(p, c)
       PROVE  JobOK'
  BY <1>10 DEF Edit
<1>11. CASE UNCHANGED vars BY <1>11 DEF vars
<1> QED
  BY <1>2, <1>3, <1>4, <1>5, <1>6, <1>7, <1>8, <1>9, <1>10, <1>11 DEF Next, Step

\* The log and what was printed of it.
LEMMA LogStep ==
  ASSUME OptionsOK, ControlOK, LogOK, [Next]_vars
  PROVE  LogOK'
<1> USE DEF LogOK, printed
<1>1. ToStderr(log) \in Seq(Entry) BY ConcatProperties DEF ToStderr
<1>2. CASE LogError
  <2>1. [pass |-> pass, at |-> LogPosition, what |-> diag] \in Entry
    <3>1. i \in 1..MaxInputs
      BY <1>2, CurrentInput, CmdWrapAssumption DEF LogError, ControlOK, OptionsOK
    <3> QED BY <3>1 DEF Entry, ControlOK, LogPosition
  <2> QED BY <1>2, <2>1 DEF LogError
<1>3. CASE PrintLog BY <1>1, <1>3 DEF PrintLog
<1>4. CASE Oom BY <1>1, <1>4 DEF Oom
<1>5. CASE \/ ReserveLog \/ ReserveBlock \/ NextInput \/ EndProbe \/ EndRun
           \/ ReadInput \/ ReadFails \/ Rewrap
  BY <1>5 DEF ReserveLog, ReserveBlock, NextInput, EndProbe, EndRun, ReadInput,
    ReadFails, Rewrap
<1>6. CASE EmitUnchanged \/ EmitCheck \/ EmitWrite \/ EmitPrint \/ EmitFails
  BY <1>6 DEF EmitUnchanged, EmitCheck, EmitWrite, EmitPrint, EmitFails
<1>7. CASE ClearOom \/ Release \/ Kill
  BY <1>7 DEF ClearOom, Release, Kill
<1>8. ASSUME NEW p \in Path, NEW c \in Content \cup {Unreadable}, Edit(p, c)
      PROVE  LogOK'
  BY <1>8 DEF Edit
<1>9. CASE UNCHANGED vars BY <1>9 DEF vars
<1> QED
  BY <1>2, <1>3, <1>4, <1>5, <1>6, <1>7, <1>8, <1>9 DEF Next, Step

\* What was printed and written.
LEMMA HistoryStep ==
  ASSUME OptionsOK, ControlOK, DataOK, HistoryOK, [Next]_vars
  PROVE  HistoryOK'
<1> USE DEF HistoryOK, printed
<1>1. CASE EmitWrite
  <2>1. inputs[i] \in Path BY <1>1, CurrentInput DEF EmitWrite, ControlOK
  <2>2. [path |-> inputs[i], from |-> source, to |-> output]
          \in [path : Path, from : Content, to : Content]
    BY <1>1, <2>1 DEF EmitWrite, DataOK
  <2> QED BY <1>1, <2>2 DEF EmitWrite
<1>2. CASE EmitPrint \/ EmitFails
  <2>1. PICK b \in BOOLEAN :
          UNCHANGED stdout \/ stdout' = Append(stdout, [text |-> output, whole |-> b])
    BY <1>2 DEF EmitPrint, EmitFails
  <2>2. [text |-> output, whole |-> b] \in [text : Content, whole : BOOLEAN]
    BY <1>2 DEF EmitPrint, EmitFails, DataOK
  <2>3. Append(stdout, [text |-> output, whole |-> b])
          \in Seq([text : Content, whole : BOOLEAN])
    BY <2>2, AppendProperties
  <2> QED BY <1>2, <2>1, <2>3 DEF EmitPrint, EmitFails
<1>3. CASE \/ ReserveLog \/ ReserveBlock \/ NextInput \/ EndProbe \/ EndRun
           \/ ReadInput \/ ReadFails \/ Rewrap
  BY <1>3 DEF ReserveLog, ReserveBlock, NextInput, EndProbe, EndRun, ReadInput,
    ReadFails, Rewrap
<1>4. CASE \/ EmitUnchanged \/ EmitCheck \/ LogError \/ PrintLog \/ ClearOom
           \/ Release \/ Kill \/ Oom
  BY <1>4 DEF EmitUnchanged, EmitCheck, LogError, PrintLog, ClearOom, Release,
    Kill, Oom
<1>5. ASSUME NEW p \in Path, NEW c \in Content \cup {Unreadable}, Edit(p, c)
      PROVE  HistoryOK'
  BY <1>5 DEF Edit
<1>6. CASE UNCHANGED vars BY <1>6 DEF vars
<1> QED
  BY <1>1, <1>2, <1>3, <1>4, <1>5, <1>6 DEF Next, Step

\* Every step of a run keeps its state well typed.
THEOREM TypeCorrect == Spec => []TypeOK
<1>1. ASSUME Init PROVE TypeOK
  <2> USE DEF Init
  <2>1. OptionsOK BY <1>1, InitInputs DEF OptionsOK
  <2>2. ControlOK
    <3>1. 0 \in 0..Len(inputs) /\ 0 \in 0..MaxFaults /\ 0 \in 0..MaxEdits
      BY <2>1, CmdWrapAssumption DEF OptionsOK
    <3> QED BY <1>1, <3>1 DEF ControlOK, Running, Diagnostics
  <2>3. DataOK BY <1>1 DEF DataOK
  <2>4. JobOK
    <3>1. NoJob \in [phase : Phases \cup {""}, name : Source] BY DEF NoJob, Job, Source
    <3> QED BY <1>1, <3>1 DEF JobOK
  <2>5. LogOK /\ HistoryOK BY <1>1, EmptySeq DEF LogOK, HistoryOK
  <2> QED BY <2>1, <2>2, <2>3, <2>4, <2>5 DEF TypeOK
<1>2. TypeOK /\ [Next]_vars => TypeOK'
  BY OptionsStep, ControlStep, DataStep, JobStep, LogStep, HistoryStep DEF TypeOK
<1> QED BY <1>1, <1>2, PTL DEF Spec

-----------------------------------------------------------------------------
(* A bad input keeps every file unwritten, and the log is in path order *)

\* The inputs that the current pass is done with.
Settled == IF pc = "next" THEN 1..i ELSE 1..(i - 1)

AtInput == {"read", "rewrap", "emit", "diagnose"}

\* Nothing is emitted before the run, or outside the mode that writes.
WriteInv ==
  /\ pc \in {"rewrap", "emit"} => pass = "run"
  /\ pass = "probe" => written = <<>>
  /\ mode # "in_place" => written = <<>>

\* The log belongs to one pass and follows the inputs.
LogInv ==
  /\ \A k \in 1..Len(log) :
       /\ log[k].pass = pass
       /\ log[k].at <= i
       /\ pc \in AtInput => log[k].at < i
  /\ \A j, k \in 1..Len(log) : j < k => log[j].at < log[k].at

\* With no edits, a probe without diagnostics has seen that the inputs it is
\* done with are good, and a run that writes starts from good inputs only.
ProbeInv ==
  /\ pc \in {"reserve_log", "reserve_block"} => i = 0
  /\ edits = 0 /\ pass = "probe" =>
       /\ disk = disk0
       /\ log = <<>> => \A k \in Settled : disk0[inputs[k]] # Unreadable
  /\ edits = 0 /\ pass = "run" /\ mode = "in_place" =>
       \A k \in 1..Len(inputs) : disk0[inputs[k]] # Unreadable

IInv == TypeOK /\ WriteInv /\ LogInv /\ ProbeInv

LEMMA WriteStep == ASSUME TypeOK, WriteInv, [Next]_vars PROVE WriteInv'
<1> USE DEF WriteInv, options
<1>0. UNCHANGED mode BY OptionsStep DEF TypeOK, options
<1>1. CASE EmitWrite BY <1>0, <1>1 DEF EmitWrite
<1>2. CASE ReadInput BY <1>0, <1>2 DEF ReadInput, TypeOK, ControlOK
<1>3. CASE EndProbe BY <1>0, <1>3 DEF EndProbe
<1>4. CASE Release BY <1>0, <1>4 DEF Release, ExitCode
<1>5. CASE \/ ReserveLog \/ ReserveBlock \/ NextInput \/ EndRun \/ ReadFails
           \/ Rewrap \/ EmitUnchanged \/ EmitCheck
  BY <1>0, <1>5 DEF ReserveLog, ReserveBlock, NextInput, EndRun, ReadFails,
    Rewrap, EmitUnchanged, EmitCheck
<1>6. CASE EmitPrint \/ EmitFails \/ LogError \/ PrintLog \/ ClearOom \/ Oom \/ Kill
  BY <1>0, <1>6 DEF EmitPrint, EmitFails, LogError, PrintLog, ClearOom, Oom, Kill
<1>7. ASSUME NEW p \in Path, NEW c \in Content \cup {Unreadable}, Edit(p, c)
      PROVE  WriteInv'
  BY <1>0, <1>7 DEF Edit
<1>8. CASE UNCHANGED vars BY <1>8 DEF vars
<1> QED
  BY <1>1, <1>2, <1>3, <1>4, <1>5, <1>6, <1>7, <1>8 DEF Next, Step

LEMMA LogInvStep == ASSUME TypeOK, LogInv, [Next]_vars PROVE LogInv'
<1> USE DEF LogInv
<1>0. i \in Nat /\ log \in Seq(Entry) /\ Len(log) \in Nat
  BY DEF TypeOK, ControlOK, OptionsOK, LogOK
<1>1. \A k \in 1..Len(log) : log[k].at \in Int
  <2>1. \A k \in 1..Len(log) : log[k] \in Entry BY <1>0, ElementOfSeq
  <2>2. \A e \in Entry : e.at \in Int BY CmdWrapAssumption DEF Entry
  <2> QED BY <2>1, <2>2
<1>2. CASE LogError
  <2> DEFINE e == [pass |-> pass, at |-> LogPosition, what |-> diag]
  <2>1. e.pass = pass /\ e.at = i BY DEF LogPosition
  <2>2. e \in Entry
    BY <1>2, CurrentInput, CmdWrapAssumption
       DEF LogError, Entry, LogPosition, TypeOK, ControlOK, OptionsOK
  <2>3. /\ Len(log') = Len(log) + 1
        /\ \A k \in 1..Len(log) : log'[k] = log[k]
        /\ log'[Len(log) + 1] = e
    BY <1>0, <1>2, <2>2, AppendProperties DEF LogError
  <2>4. pc = "diagnose" /\ pc' \notin AtInput /\ pass' = pass /\ i' = i
    BY <1>2 DEF LogError, AtInput, GoesOn
  <2> HIDE DEF e
  <2>5. \A k \in 1..Len(log') : log'[k].pass = pass' /\ log'[k].at <= i'
    <3>1. \A k \in 1..Len(log') : k \in 1..Len(log) \/ k = Len(log) + 1
      BY <1>0, <2>3
    <3> QED BY <1>0, <1>1, <2>1, <2>3, <2>4, <3>1
  <2>6. ASSUME NEW j \in 1..Len(log'), NEW k \in 1..Len(log'), j < k
        PROVE  log'[j].at < log'[k].at
    <3>1. j \in 1..Len(log) /\ log'[j] = log[j] BY <1>0, <2>3, <2>6
    <3>2. CASE k \in 1..Len(log) BY <2>3, <2>6, <3>1, <3>2
    <3>3. CASE k = Len(log) + 1
      <4>1. log[j].at < i BY <2>4, <3>1 DEF AtInput
      <4> QED BY <2>1, <2>3, <3>1, <3>3, <4>1
    <3> QED BY <1>0, <2>3, <3>2, <3>3
  <2> QED BY <2>4, <2>5, <2>6
<1>3. CASE EndProbe
  <2>1. CASE log = <<>>
    <3>1. log' = <<>> /\ Len(log') = 0 BY <1>3, <2>1 DEF EndProbe
    <3> QED BY <3>1
  <2>2. CASE log # <<>>
    <3>1. pc' = "report" /\ UNCHANGED <<log, pass, i>>
      BY <1>3, <2>2 DEF EndProbe, ProbeIsClean
    <3> QED BY <3>1 DEF AtInput
  <2> QED BY <2>1, <2>2
<1>4. CASE NextInput
  <2>1. i' = i + 1 /\ UNCHANGED <<log, pass>> BY <1>4 DEF NextInput
  <2> QED BY <1>0, <1>1, <2>1
<1>5. CASE UNCHANGED <<log, pass, i>> /\ (pc' \in AtInput => pc \in AtInput)
  BY <1>5
<1>6. CASE \/ ReserveLog \/ ReserveBlock \/ EndRun \/ PrintLog \/ ClearOom
           \/ Release \/ Oom \/ Kill
  BY <1>5, <1>6 DEF ReserveLog, ReserveBlock, EndRun, PrintLog, ClearOom,
    Release, ExitCode, Oom, Kill, AtInput
<1>7. CASE \/ ReadInput \/ ReadFails \/ Rewrap \/ EmitUnchanged \/ EmitCheck
           \/ EmitWrite \/ EmitPrint \/ EmitFails
  BY <1>5, <1>7 DEF ReadInput, ReadFails, Rewrap, EmitUnchanged, EmitCheck,
    EmitWrite, EmitPrint, EmitFails, AtInput
<1>8. ASSUME NEW p \in Path, NEW c \in Content \cup {Unreadable}, Edit(p, c)
      PROVE  LogInv'
  BY <1>5, <1>8 DEF Edit
<1>9. CASE UNCHANGED vars BY <1>5, <1>9 DEF vars
<1> QED
  BY <1>2, <1>3, <1>4, <1>6, <1>7, <1>8, <1>9 DEF Next, Step

LEMMA ProbeStep ==
  ASSUME TypeOK, WriteInv, ProbeInv, [Next]_vars
  PROVE  ProbeInv'
<1> USE DEF ProbeInv, options
<1>0. UNCHANGED <<mode, inputs, disk0>> /\ i \in Nat /\ edits \in Nat /\ Len(inputs) \in Nat
  BY OptionsStep, CmdWrapAssumption DEF TypeOK, options, ControlOK, OptionsOK
<1>1. ASSUME NEW p \in Path, NEW c \in Content \cup {Unreadable}, Edit(p, c)
      PROVE  ProbeInv'
  BY <1>0, <1>1 DEF Edit
<1>2. CASE NextInput
  <2>1. Settled' = Settled
    BY <1>0, <1>2 DEF NextInput, Settled
  <2> QED BY <1>0, <1>2, <2>1 DEF NextInput
<1>3. CASE EndProbe
  <2>1. CASE log # <<>>
    BY <1>0, <1>3, <2>1 DEF EndProbe, ProbeIsClean
  <2>2. CASE log = <<>>
    <3>1. edits = 0 => \A k \in 1..Len(inputs) : disk0[inputs[k]] # Unreadable
      BY <1>3, <2>2 DEF EndProbe, AtEnd, Settled
    <3> QED BY <1>0, <1>3, <2>2, <3>1 DEF EndProbe, ProbeIsClean
  <2> QED BY <2>1, <2>2
<1>4. CASE ReadInput
  <2>1. CASE pass = "probe"
    <3>1. Settled' = Settled \cup {i}
      BY <1>0, <1>4, <2>1 DEF ReadInput, Settled, TypeOK, ControlOK
    <3>2. edits = 0 => disk0[inputs[i]] # Unreadable
      BY <1>4, <2>1 DEF ReadInput
    <3> QED BY <1>0, <1>4, <2>1, <3>1, <3>2 DEF ReadInput
  <2>2. CASE pass = "run" BY <1>0, <1>4, <2>2 DEF ReadInput
  <2> QED BY <2>1, <2>2 DEF TypeOK, ControlOK
<1>5. CASE LogError
  <2>1. log' # <<>> BY <1>5 DEF LogError, TypeOK, LogOK
  <2> QED BY <1>0, <1>5, <2>1 DEF LogError, GoesOn
<1>6. CASE EmitUnchanged \/ EmitCheck \/ EmitWrite \/ EmitPrint \/ EmitFails \/ Rewrap
  BY <1>0, <1>6 DEF EmitUnchanged, EmitCheck, EmitWrite, EmitPrint, EmitFails,
    Rewrap, WriteInv
<1>7. CASE ReserveLog \/ ReserveBlock
  <2>1. Settled' = {} BY <1>7 DEF ReserveLog, ReserveBlock, Settled
  <2> QED BY <1>0, <1>7, <2>1 DEF ReserveLog, ReserveBlock
<1>8. CASE EndRun \/ ReadFails \/ PrintLog \/ ClearOom \/ Release \/ Oom \/ Kill
  <2>1. Settled' \subseteq Settled
    <3>1. i' = i /\ pc' # "next"
      BY <1>8 DEF EndRun, ReadFails, PrintLog, ClearOom, Release, ExitCode, Oom, Kill
    <3> QED BY <1>0, <3>1 DEF Settled
  <2> QED
    BY <1>0, <1>8, <2>1 DEF EndRun, ReadFails, PrintLog, ClearOom, Release,
      ExitCode, Oom, Kill
<1>9. CASE UNCHANGED vars BY <1>9 DEF vars, Settled
<1> QED
  BY <1>1, <1>2, <1>3, <1>4, <1>5, <1>6, <1>7, <1>8, <1>9 DEF Next, Step

\* The invariant holds in every reachable state.
THEOREM Invariance == Spec => []IInv
<1>1. Init => WriteInv /\ LogInv /\ ProbeInv
  <2> SUFFICES ASSUME Init PROVE WriteInv /\ LogInv /\ ProbeInv OBVIOUS
  <2>1. Len(log) = 0 BY EmptySeq DEF Init
  <2>2. Settled = {}
    <3>1. i = 0 /\ pc # "next" BY DEF Init
    <3> QED BY <3>1 DEF Settled
  <2>3. WriteInv BY DEF Init, WriteInv
  <2>5. LogInv BY <2>1 DEF LogInv
  <2>4. i = 0 /\ disk = disk0 /\ ~ (pass = "run" /\ mode = "in_place") BY DEF Init
  <2> QED BY <2>2, <2>3, <2>4, <2>5 DEF ProbeInv
<1>2. TypeOK /\ WriteInv /\ LogInv /\ ProbeInv /\ [Next]_vars
        => (WriteInv /\ LogInv /\ ProbeInv)'
  BY WriteStep, LogInvStep, ProbeStep
<1> QED BY <1>1, <1>2, TypeCorrect, PTL DEF Spec, IInv

\* An in-place run writes no file once its first pass met a bad input, or when
\* an input was bad from the start and nobody edited the files.
THEOREM BadInputWritesNothingHolds == Spec => []BadInputWritesNothing
<1>1. IInv => BadInputWritesNothing
  BY DEF IInv, TypeOK, ControlOK, WriteInv, LogInv, ProbeInv, BadInputWritesNothing
<1> QED BY <1>1, Invariance, PTL

\* The log of a run has one diagnostic per input, in path order.
THEOREM LogInPathOrderHolds == Spec => []LogInPathOrder
<1>1. IInv => LogInPathOrder BY DEF IInv, LogInv, LogInPathOrder
<1> QED BY <1>1, Invariance, PTL
-----------------------------------------------------------------------------
(* What is written and printed is a rewrap, once *)

\* The bytes in hand, and what went out.
EmitInv ==
  /\ pass = "probe" => mode = "in_place"
  /\ pc = "emit" => output = Wrap[source]
  /\ pc \in {"rewrap", "emit"} /\ edits = 0 => source = disk[inputs[i]]
  /\ stdout # <<>> => mode = "print"
  /\ mode # "in_place" /\ edits = 0 => disk = disk0
  /\ \A k \in 1..Len(written) :
       written[k].to = Wrap[written[k].from] /\ written[k].to # written[k].from

Untouched(p) ==
  disk[p] = disk0[p] /\ \A k \in 1..Len(written) : written[k].path # p
WrappedOnce(p) ==
  /\ disk[p] = Wrap[disk0[p]]
  /\ \E k \in 1..Len(written) :
       /\ written[k].path = p
       /\ \A j \in 1..Len(written) : written[j].path = p => j = k

\* A file rewrapped is a fixed point, so nothing writes it again.
OldInv ==
  edits = 0 =>
    \A p \in Path : FixedAfterOne(disk0[p]) => Untouched(p) \/ WrappedOnce(p)

\* A write is the last in the history.
LEMMA WriteAppends ==
  ASSUME TypeOK, EmitWrite
  PROVE  /\ Len(written') = Len(written) + 1 /\ Len(written) \in Nat
         /\ \A k \in 1..Len(written) : written'[k] = written[k]
         /\ written'[Len(written) + 1] = [path |-> inputs[i], from |-> source, to |-> output]
         /\ inputs[i] \in Path /\ disk' = [disk EXCEPT ![inputs[i]] = output]
<1>1. inputs[i] \in Path
  BY CurrentInput DEF EmitWrite, TypeOK, ControlOK
<1>2. [path |-> inputs[i], from |-> source, to |-> output]
        \in [path : Path, from : Content, to : Content]
  BY <1>1 DEF EmitWrite, TypeOK, DataOK
<1>3. written \in Seq([path : Path, from : Content, to : Content])
  BY DEF TypeOK, HistoryOK
<1> QED BY <1>1, <1>2, <1>3, AppendProperties, LenProperties DEF EmitWrite

LEMMA EmitStep == ASSUME IInv, EmitInv, [Next]_vars PROVE EmitInv'
<1> USE DEF EmitInv, options, printed, oomState
<1>0. /\ UNCHANGED <<mode, inputs, disk0>> /\ TypeOK /\ WriteInv /\ edits \in Nat
      /\ mode \in {"print", "check", "in_place"}
  BY OptionsStep, CmdWrapAssumption DEF IInv, TypeOK, options, ControlOK, OptionsOK
<1>1. CASE ReadInput BY <1>0, <1>1 DEF ReadInput
<1>2. CASE Rewrap BY <1>0, <1>2 DEF Rewrap
<1>3. CASE EmitWrite
  <2>1. /\ Len(written') = Len(written) + 1 /\ Len(written) \in Nat
        /\ \A k \in 1..Len(written) : written'[k] = written[k]
        /\ written'[Len(written) + 1] = [path |-> inputs[i], from |-> source, to |-> output]
    BY <1>0, <1>3, WriteAppends
  <2>2. output = Wrap[source] /\ output # source BY <1>3 DEF EmitWrite, IsChanged
  <2>3. \A k \in 1..Len(written') : k \in 1..Len(written) \/ k = Len(written) + 1 BY <2>1
  <2>4. \A k \in 1..Len(written') :
          written'[k].to = Wrap[written'[k].from] /\ written'[k].to # written'[k].from
    BY <2>1, <2>2, <2>3
  <2> QED BY <1>0, <1>3, <2>4 DEF EmitWrite
<1>4. CASE EmitPrint BY <1>0, <1>4 DEF EmitPrint
<1>5. CASE EmitFails BY <1>0, <1>5 DEF EmitFails
<1>6. CASE EndProbe BY <1>0, <1>6 DEF EndProbe
<1>7. CASE \/ ReserveLog \/ ReserveBlock \/ NextInput \/ EndRun \/ ReadFails
           \/ EmitUnchanged \/ EmitCheck
  BY <1>0, <1>7 DEF ReserveLog, ReserveBlock, NextInput, EndRun, ReadFails,
    EmitUnchanged, EmitCheck
<1>8. CASE LogError \/ PrintLog \/ ClearOom \/ Release \/ Oom \/ Kill
  BY <1>0, <1>8 DEF LogError, GoesOn, PrintLog, ClearOom, Release, ExitCode, Oom, Kill
<1>9. ASSUME NEW p \in Path, NEW c \in Content \cup {Unreadable}, Edit(p, c)
      PROVE  EmitInv'
  BY <1>0, <1>9 DEF Edit
<1>10. CASE UNCHANGED vars BY <1>10 DEF vars
<1> QED
  BY <1>1, <1>2, <1>3, <1>4, <1>5, <1>6, <1>7, <1>8, <1>9, <1>10 DEF Next, Step

LEMMA OldStep == ASSUME IInv, EmitInv, OldInv, [Next]_vars PROVE OldInv'
<1> USE DEF OldInv, options
<1>0. UNCHANGED <<mode, inputs, disk0>> /\ TypeOK /\ edits \in Nat
  BY OptionsStep, CmdWrapAssumption DEF IInv, TypeOK, options, ControlOK
<1>1. CASE EmitWrite
  <2> SUFFICES ASSUME edits = 0, NEW p \in Path, FixedAfterOne(disk0[p])
               PROVE  (Untouched(p) \/ WrappedOnce(p))'
    BY <1>0, <1>1 DEF EmitWrite, FixedAfterOne
  <2>1. /\ Len(written') = Len(written) + 1 /\ Len(written) \in Nat
        /\ \A k \in 1..Len(written) : written'[k] = written[k]
        /\ written'[Len(written) + 1].path = inputs[i]
        /\ inputs[i] \in Path /\ disk' = [disk EXCEPT ![inputs[i]] = output]
    BY <1>0, <1>1, WriteAppends
  <2>2. \A k \in 1..Len(written') : k \in 1..Len(written) \/ k = Len(written) + 1 BY <2>1
  <2>3. Untouched(p) \/ WrappedOnce(p) OBVIOUS
  <2>4. CASE p # inputs[i]
    <3>1. disk'[p] = disk[p] /\ disk0'[p] = disk0[p] BY <1>0, <2>1, <2>4
    <3>2. CASE Untouched(p) BY <2>1, <2>2, <2>4, <3>1, <3>2 DEF Untouched
    <3>3. CASE WrappedOnce(p)
      <4>1. PICK k \in 1..Len(written) :
              /\ written[k].path = p
              /\ \A j \in 1..Len(written) : written[j].path = p => j = k
        BY <3>3 DEF WrappedOnce
      <4>2. k \in 1..Len(written') /\ written'[k].path = p BY <2>1, <4>1
      <4>3. \A j \in 1..Len(written') : written'[j].path = p => j = k
        BY <2>1, <2>2, <2>4, <4>1
      <4> QED BY <3>1, <3>3, <4>2, <4>3 DEF WrappedOnce
    <3> QED BY <2>3, <3>2, <3>3
  <2>5. CASE p = inputs[i]
    <3>1. /\ source = disk[p] /\ output = Wrap[source] /\ output # source
          /\ disk'[p] = output /\ disk0'[p] = disk0[p]
      BY <1>0, <1>1, <2>1, <2>5 DEF EmitWrite, EmitInv, IsChanged, TypeOK, DataOK, Source
    <3>2. Untouched(p) BY <2>3, <3>1 DEF WrappedOnce, FixedAfterOne
    <3>3. \A j \in 1..Len(written') : written'[j].path = p => j = Len(written) + 1
      BY <2>1, <2>2, <3>2 DEF Untouched
    <3>4. Len(written) + 1 \in 1..Len(written') BY <2>1
    <3> QED BY <2>1, <2>5, <3>1, <3>2, <3>3, <3>4 DEF Untouched, WrappedOnce
  <2> QED BY <2>4, <2>5
<1>2. CASE UNCHANGED <<disk, written, edits>>
  BY <1>0, <1>2 DEF Untouched, WrappedOnce, FixedAfterOne
<1>3. CASE \/ ReserveLog \/ ReserveBlock \/ NextInput \/ EndProbe \/ EndRun
           \/ ReadInput \/ ReadFails \/ Rewrap \/ EmitUnchanged \/ EmitCheck
  BY <1>2, <1>3 DEF ReserveLog, ReserveBlock, NextInput, EndProbe, EndRun, ReadInput,
    ReadFails, Rewrap, EmitUnchanged, EmitCheck, printed
<1>4. CASE \/ EmitPrint \/ EmitFails \/ LogError \/ PrintLog \/ ClearOom \/ Release
           \/ Oom \/ Kill
  BY <1>2, <1>4 DEF EmitPrint, EmitFails, LogError, PrintLog, ClearOom, Release, Oom, Kill
<1>5. ASSUME NEW p \in Path, NEW c \in Content \cup {Unreadable}, Edit(p, c)
      PROVE  OldInv'
  BY <1>0, <1>5 DEF Edit
<1>6. CASE UNCHANGED vars BY <1>2, <1>6 DEF vars
<1> QED BY <1>1, <1>3, <1>4, <1>5, <1>6 DEF Next, Step

-----------------------------------------------------------------------------
(* The log, the report and the exit code *)

Looping == AtInput \cup {"next"}
Leaving == {"clear", "release", "ok", "failure"}

\* The phase that the out-of-memory report would name.
JobPhase ==
  CASE pc = "emit" -> IF mode = "check" THEN "rewrap" ELSE WritePhase
    [] OTHER -> PhaseAt

\* The report knows the log while it lives, and the job at hand. Standard error
\* has nothing before the log.
ReportInv ==
  /\ pc = "reserve_block" \/ oomLog => logLive
  /\ pc \in Looping \cup {"report", "clear"} => oomLog
  /\ pc \in {"reserve_log", "reserve_block", "release"} => ~oomLog
  /\ pc \in {"reserve_log", "reserve_block"} => log = <<>> /\ oomJob = NoJob /\ i = 0
  /\ pc \in Looping \cup {"reserve_log", "reserve_block", "report"} => stderr = <<>>
  /\ pc \in AtInput => oomJob = Job(JobPhase, inputs[i])
  /\ pc = "diagnose" /\ diag = "would rewrap" => mode = "check"
  /\ pc = "diagnose" /\ diag = "failed to write" => mode # "check"

\* The run has failed once it logged something, and then prints the whole log.
ExitInv ==
  /\ pass = "run" \/ pc \in {"report"} \cup Leaving => (failed <=> log # <<>>)
  /\ pass = "probe" /\ pc \in Looping \cup {"reserve_log", "reserve_block"} => ~failed
  /\ pc = "report" => failed
  /\ pc \in Leaving =>
       IF failed THEN stderrOpen => stderr = log ELSE stderr = <<>>
  /\ pc = "ok" => ~failed
  /\ pc = "failure" => failed

LEMMA ReportStep == ASSUME IInv, ReportInv, [Next]_vars PROVE ReportInv'
<1> USE DEF ReportInv, options, printed, oomState, Looping, AtInput, JobPhase, PhaseAt
<1>0. /\ UNCHANGED <<mode, inputs>> /\ mode \in {"print", "check", "in_place"}
      /\ ProbeInv /\ LogInv
  BY OptionsStep DEF IInv, TypeOK, options, OptionsOK
<1>1. CASE ReserveLog BY <1>0, <1>1 DEF ReserveLog
<1>16. CASE ReserveBlock BY <1>0, <1>16 DEF ReserveBlock
<1>2. CASE NextInput BY <1>0, <1>2 DEF NextInput
<1>3. CASE EndProbe \/ EndRun BY <1>0, <1>3 DEF EndProbe, EndRun
<1>4. CASE ReadInput BY <1>0, <1>4 DEF ReadInput
<1>5. CASE ReadFails BY <1>0, <1>5 DEF ReadFails, DiagnosedPhase
<1>6. CASE Rewrap BY <1>0, <1>6 DEF Rewrap, EmitJob, WritePhase
<1>7. CASE EmitUnchanged \/ EmitWrite \/ EmitPrint
  BY <1>0, <1>7 DEF EmitUnchanged, EmitWrite, EmitPrint
<1>8. CASE EmitCheck BY <1>0, <1>8 DEF EmitCheck, DiagnosedPhase
<1>9. CASE EmitFails
  <2>1. /\ pc = "emit" /\ mode # "check" /\ pc' = "diagnose" /\ diag' = "failed to write"
        /\ UNCHANGED <<i, oomJob, oomLog, logLive, log, stderr>>
    BY <1>0, <1>9 DEF EmitFails
  <2> QED BY <1>0, <2>1 DEF DiagnosedPhase, WritePhase
<1>10. CASE LogError BY <1>0, <1>10 DEF LogError, GoesOn
<1>11. CASE PrintLog BY <1>0, <1>11 DEF PrintLog
<1>17. CASE ClearOom BY <1>0, <1>17 DEF ClearOom
<1>18. CASE Kill BY <1>0, <1>18 DEF Kill
<1>12. CASE Release BY <1>0, <1>12 DEF Release, ExitCode
<1>13. CASE Oom BY <1>0, <1>13 DEF Oom
<1>14. ASSUME NEW p \in Path, NEW c \in Content \cup {Unreadable}, Edit(p, c)
       PROVE  ReportInv'
  BY <1>0, <1>14 DEF Edit, DiagnosedPhase, WritePhase
<1>15. CASE UNCHANGED vars BY <1>15 DEF vars, DiagnosedPhase, WritePhase
<1> QED
  BY <1>1, <1>2, <1>3, <1>4, <1>5, <1>6, <1>7, <1>8, <1>9, <1>10, <1>11, <1>12, <1>13,
     <1>14, <1>15, <1>16, <1>17, <1>18 DEF Next, Step

LEMMA ExitStep == ASSUME IInv, ReportInv, ExitInv, [Next]_vars PROVE ExitInv'
<1> USE DEF ExitInv, options, printed, oomState, Looping, Leaving, AtInput
<1>0. /\ UNCHANGED <<mode, inputs, stderrOpen>> /\ pass \in {"probe", "run"}
      /\ failed \in BOOLEAN /\ log \in Seq(Entry) /\ stderr \in Seq(Entry)
      /\ pc \in Running \cup Ended
  BY OptionsStep DEF IInv, TypeOK, options, ControlOK, LogOK
<1>1. CASE ReserveLog \/ ReserveBlock \/ NextInput
  BY <1>0, <1>1 DEF ReserveLog, ReserveBlock, NextInput
<1>2. CASE EndProbe BY <1>0, <1>2 DEF EndProbe, ProbeIsClean, ReportInv
<1>3. CASE EndRun BY <1>0, <1>3 DEF EndRun, ReportInv
<1>4. CASE pc \in Looping /\ pc' \in Looping /\ UNCHANGED <<pass, failed, log, stderr>>
  BY <1>4
<1>5. CASE ReadInput \/ ReadFails \/ Rewrap
  BY <1>4, <1>5 DEF ReadInput, ReadFails, Rewrap
<1>6. CASE EmitUnchanged \/ EmitCheck \/ EmitWrite \/ EmitPrint \/ EmitFails
  BY <1>4, <1>6 DEF EmitUnchanged, EmitCheck, EmitWrite, EmitPrint, EmitFails
<1>7. CASE LogError
  <2>1. log' # <<>> BY <1>0, <1>7 DEF LogError
  <2> QED BY <1>0, <1>7, <2>1 DEF LogError, FailsTheRun, GoesOn
<1>8. CASE PrintLog
  <2>1. stderrOpen => stderr' = log
    BY <1>0, <1>8, ConcatEmptySeq DEF PrintLog, ToStderr, ReportInv
  <2> QED BY <1>0, <1>8, <2>1 DEF PrintLog
<1>9. CASE ClearOom BY <1>0, <1>9 DEF ClearOom
<1>10. CASE Release BY <1>0, <1>10 DEF Release, ExitCode
<1>11. CASE Oom \/ Kill BY <1>0, <1>11 DEF Oom, Kill
<1>12. ASSUME NEW p \in Path, NEW c \in Content \cup {Unreadable}, Edit(p, c)
       PROVE  ExitInv'
  BY <1>0, <1>12 DEF Edit
<1>13. CASE UNCHANGED vars BY <1>13 DEF vars
<1> QED
  BY <1>1, <1>2, <1>3, <1>4, <1>5, <1>6, <1>7, <1>8, <1>9, <1>10, <1>11, <1>12, <1>13
     DEF Next, Step

-----------------------------------------------------------------------------
(* Every input is dealt with *)

Through == IF pc \in AtInput THEN i - 1 ELSE i

\* What the mode owes an input.
IsDone(k) ==
  CASE mode = "print" -> k <= Len(stdout) /\ stdout[k].whole
    [] mode = "check" -> Wrap[disk0[inputs[k]]] = disk0[inputs[k]]
    [] mode = "in_place" ->
         FixedAfterOne(disk0[inputs[k]]) => disk[inputs[k]] = Wrap[disk0[inputs[k]]]

\* A run that logged nothing has dealt with each input it went through.
DoneInv ==
  /\ pc \in {"clear", "release", "ok"} /\ log = <<>> => pass = "run" /\ i = Len(inputs)
  /\ edits = 0 /\ pass = "run" /\ log = <<>> /\ pc \in Looping \cup Leaving =>
       \A k \in 1..Through : IsDone(k)

\* The print mode stops at the first input it cannot print.
PrefixInv ==
  mode = "print" =>
    /\ Len(stdout) \in {i - 1, i}
    /\ pc \in Looping \ {"diagnose"} => Len(stdout) = Through
    /\ pc \in {"reserve_log", "reserve_block"} => Len(stdout) = 0
    /\ \A k \in 1..Len(stdout) :
         /\ k < i \/ pc \in Looping \ {"diagnose"} => stdout[k].whole
         /\ pc = "diagnose" \/ log # <<>> => (stdout[k].whole <=> k < i)
         /\ edits = 0 => stdout[k].text = Wrap[disk0[inputs[k]]]
    /\ pc \in Looping => log = <<>>
    /\ log # <<>> => Len(log) = 1 /\ log[1].at = i

\* What is printed is the last on standard output.
LEMMA PrintAppends ==
  ASSUME TypeOK, NEW b \in BOOLEAN, output \in Content,
         stdout' = Append(stdout, [text |-> output, whole |-> b])
  PROVE  /\ Len(stdout') = Len(stdout) + 1 /\ Len(stdout) \in Nat
         /\ \A k \in 1..Len(stdout) : stdout'[k] = stdout[k]
         /\ stdout'[Len(stdout) + 1] = [text |-> output, whole |-> b]
BY AppendProperties, LenProperties DEF TypeOK, HistoryOK

\* A diagnostic is the last in the log.
LEMMA LogAppends ==
  ASSUME TypeOK, LogError
  PROVE  /\ Len(log') = Len(log) + 1 /\ Len(log) \in Nat /\ log' # <<>>
         /\ \A k \in 1..Len(log) : log'[k] = log[k]
         /\ log'[Len(log) + 1] = [pass |-> pass, at |-> i, what |-> diag]
<1>1. [pass |-> pass, at |-> i, what |-> diag] \in Entry
  BY CurrentInput, CmdWrapAssumption DEF LogError, Entry, TypeOK, ControlOK, OptionsOK
<1> QED BY <1>1, AppendProperties, LenProperties DEF LogError, LogPosition, TypeOK, LogOK

LEMMA PrefixStep ==
  ASSUME IInv, EmitInv, ReportInv, PrefixInv, [Next]_vars
  PROVE  PrefixInv'
<1> USE DEF options, printed, oomState, Looping, AtInput
<1>0. /\ UNCHANGED <<mode, inputs, disk0>> /\ TypeOK /\ WriteInv /\ i \in Nat /\ edits \in Nat
      /\ Len(stdout) \in Nat /\ pass \in {"probe", "run"}
  BY OptionsStep, LenProperties, CmdWrapAssumption
     DEF IInv, TypeOK, ControlOK, OptionsOK, HistoryOK
<1> SUFFICES ASSUME mode = "print" PROVE PrefixInv' BY <1>0 DEF PrefixInv
<1>1. pass = "run" BY <1>0 DEF EmitInv
<1>2. ASSUME UNCHANGED <<stdout, log, i, edits>>,
             pc' \notin Looping \cup {"reserve_log", "reserve_block"}
      PROVE  PrefixInv'
  BY <1>0, <1>2 DEF PrefixInv
<1>3. ASSUME UNCHANGED <<pc, stdout, log, i>>, edits' = edits \/ edits' # 0 PROVE PrefixInv'
  BY <1>0, <1>3 DEF PrefixInv, Through
<1>4. CASE EndRun \/ PrintLog \/ ClearOom \/ Release \/ Oom \/ Kill
  BY <1>2, <1>4 DEF EndRun, PrintLog, ClearOom, Release, ExitCode, Oom, Kill
<1>5. CASE ReserveLog \/ ReserveBlock
  <2>1. i = 0 /\ i' = 0 /\ Len(stdout) = 0 /\ UNCHANGED <<stdout, log, edits>>
        /\ pc' \in {"reserve_block", "next"}
    BY <1>0, <1>5 DEF ReserveLog, ReserveBlock, PrefixInv, IInv, ProbeInv
  <2>2. log = <<>> BY <1>5 DEF ReserveLog, ReserveBlock, ReportInv
  <2> QED BY <1>0, <2>1, <2>2 DEF PrefixInv, Through
<1>6. CASE NextInput
  <2>1. i' = i + 1 /\ pc = "next" /\ pc' = "read" /\ UNCHANGED <<stdout, log, edits>>
    BY <1>6 DEF NextInput
  <2> QED BY <1>0, <2>1 DEF PrefixInv, Through
<1>7. CASE ReadInput
  <2>1. pc = "read" /\ pc' = "rewrap" /\ UNCHANGED <<i, stdout, log, edits>>
    BY <1>1, <1>7 DEF ReadInput
  <2> QED BY <1>0, <2>1 DEF PrefixInv, Through
<1>8. CASE ReadFails
  <2>1. pc = "read" /\ pc' = "diagnose" /\ UNCHANGED <<i, stdout, log, edits>>
    BY <1>8 DEF ReadFails
  <2> QED BY <1>0, <2>1 DEF PrefixInv, Through
<1>9. CASE Rewrap
  <2>1. pc = "rewrap" /\ pc' = "emit" /\ UNCHANGED <<i, stdout, log, edits>>
    BY <1>9 DEF Rewrap
  <2> QED BY <1>0, <2>1 DEF PrefixInv, Through
<1>10. CASE EmitPrint \/ EmitFails
  <2>1. PICK b \in BOOLEAN :
          /\ stdout' = Append(stdout, [text |-> output, whole |-> b])
          /\ pc = "emit" /\ pc' = IF b THEN "next" ELSE "diagnose"
          /\ UNCHANGED <<i, log, edits>>
    BY <1>10 DEF EmitPrint, EmitFails
  <2>2. output \in Content BY <1>0, <2>1 DEF TypeOK, DataOK
  <2>3. /\ Len(stdout') = Len(stdout) + 1 /\ Len(stdout) = i - 1
        /\ \A k \in 1..Len(stdout) : stdout'[k] = stdout[k] /\ stdout[k].whole
        /\ stdout'[i].text = output /\ stdout'[i].whole = b
    BY <1>0, <2>1, <2>2, PrintAppends DEF PrefixInv, Through
  <2>4. edits = 0 => output = Wrap[disk0[inputs[i]]] BY <2>1 DEF EmitInv
  <2>5. \A k \in 1..Len(stdout') : k \in 1..Len(stdout) \/ k = i BY <1>0, <2>3
  <2>6. \A k \in 1..Len(stdout') :
          /\ k < i => stdout'[k].whole
          /\ stdout'[k].whole <=> k < i \/ b
          /\ edits = 0 => stdout'[k].text = Wrap[disk0[inputs[k]]]
    BY <1>0, <2>3, <2>4, <2>5 DEF PrefixInv
  <2> QED BY <1>0, <2>1, <2>3, <2>6 DEF PrefixInv, Through
<1>11. CASE LogError
  <2>1. pc = "diagnose" /\ pc' = "report" /\ UNCHANGED <<i, stdout, edits>> /\ log = <<>>
    BY <1>1, <1>11 DEF LogError, GoesOn, PrefixInv
  <2>2. Len(log') = 1 /\ log'[1].at = i
    BY <1>0, <1>11, <2>1, LogAppends, EmptySeq
  <2> QED BY <1>0, <2>1, <2>2 DEF PrefixInv
<1>12. CASE EndProbe \/ EmitUnchanged \/ EmitCheck \/ EmitWrite
  BY <1>1, <1>12 DEF EndProbe, EmitUnchanged, EmitCheck, EmitWrite
<1>13. ASSUME NEW p \in Path, NEW c \in Content \cup {Unreadable}, Edit(p, c)
       PROVE  PrefixInv'
  BY <1>0, <1>3, <1>13 DEF Edit
<1>14. CASE UNCHANGED vars BY <1>3, <1>14 DEF vars
<1> QED
  BY <1>4, <1>5, <1>6, <1>7, <1>8, <1>9, <1>10, <1>11, <1>12, <1>13, <1>14 DEF Next, Step

LEMMA DoneStep ==
  ASSUME IInv, EmitInv, OldInv, ReportInv, ExitInv, PrefixInv, DoneInv, [Next]_vars
  PROVE  DoneInv'
<1> USE DEF options, printed, oomState, Looping, Leaving, AtInput
<1>0. /\ UNCHANGED <<mode, inputs, disk0>> /\ TypeOK /\ i \in Nat /\ edits \in Nat
      /\ mode \in {"print", "check", "in_place"} /\ pass \in {"probe", "run"}
      /\ Len(stdout) \in Nat /\ Len(inputs) \in Nat
  BY OptionsStep, LenProperties, CmdWrapAssumption
     DEF IInv, TypeOK, ControlOK, OptionsOK, HistoryOK
<1>1. ASSUME UNCHANGED <<stdout, disk>> PROVE \A k : IsDone(k)' <=> IsDone(k)
  BY <1>0, <1>1 DEF IsDone, FixedAfterOne
<1>2. ASSUME UNCHANGED <<stdout, disk, edits, pass, log, i>>,
             pc' \in Looping \cup Leaving => pc \in Looping \cup Leaving /\ Through' = Through,
             pc' \in {"clear", "release", "ok"} => pc \in {"clear", "release", "ok"}
      PROVE  DoneInv'
  BY <1>0, <1>1, <1>2 DEF DoneInv
<1>3. ASSUME log' # <<>> PROVE DoneInv' BY <1>3 DEF DoneInv
<1>4. CASE ReserveLog \/ ReserveBlock
  <2>1. /\ i = 0 /\ i' = 0 /\ pc' \in {"reserve_block", "next"}
        /\ UNCHANGED <<stdout, disk, edits, pass, log>>
    BY <1>4 DEF ReserveLog, ReserveBlock, IInv, ProbeInv
  <2> QED BY <2>1 DEF DoneInv, Through
<1>5. CASE NextInput
  <2>1. /\ i' = i + 1 /\ pc = "next" /\ pc' = "read"
        /\ UNCHANGED <<stdout, disk, edits, pass, log>>
    BY <1>5 DEF NextInput
  <2>2. Through' = Through BY <1>0, <2>1 DEF Through
  <2> QED BY <1>0, <1>1, <2>1, <2>2 DEF DoneInv
<1>6. CASE EndProbe
  <2>1. CASE log = <<>>
    <3>1. pc' = "next" /\ i' = 0 BY <1>6, <2>1 DEF EndProbe, ProbeIsClean
    <3> QED BY <3>1 DEF DoneInv, Through
  <2>2. CASE log # <<>> BY <1>3, <1>6, <2>2 DEF EndProbe
  <2> QED BY <2>1, <2>2
<1>7. CASE EndRun
  <2>1. /\ pc = "next" /\ pass = "run" /\ i = Len(inputs) /\ pc' \in {"report", "clear"}
        /\ UNCHANGED <<stdout, disk, edits, pass, log, i>>
    BY <1>7 DEF EndRun, AtEnd
  <2> QED BY <1>0, <1>1, <2>1 DEF DoneInv, Through
<1>8. CASE ReadInput
  <2>1. CASE pass = "run" BY <1>2, <1>8, <2>1 DEF ReadInput, Through
  <2>2. CASE pass = "probe"
    <3>1. pass' = "probe" /\ pc' = "next" BY <1>8, <2>2 DEF ReadInput
    <3> QED BY <3>1 DEF DoneInv
  <2> QED BY <1>0, <2>1, <2>2
<1>9. CASE ReadFails \/ Rewrap \/ EmitCheck
  BY <1>2, <1>9 DEF ReadFails, Rewrap, EmitCheck, Through
<1>10. CASE EmitUnchanged
  <2>1. /\ pc = "emit" /\ pc' = "next" /\ mode \in {"check", "in_place"} /\ output = source
        /\ UNCHANGED <<stdout, disk, edits, pass, log, i>>
    BY <1>10 DEF EmitUnchanged, IsChanged
  <2>2. edits = 0 => IsDone(i)
    <3> SUFFICES ASSUME edits = 0 PROVE IsDone(i) OBVIOUS
    <3>1. Wrap[source] = source /\ source = disk[inputs[i]] BY <2>1 DEF EmitInv
    <3>2. CASE mode = "check" BY <3>1, <3>2 DEF EmitInv, IsDone
    <3>3. CASE mode = "in_place"
      <4>1. inputs[i] \in Path
        BY <1>0, <2>1, <3>3, CurrentInput DEF TypeOK, ControlOK
      <4>2. FixedAfterOne(disk0[inputs[i]]) =>
              disk[inputs[i]] \in {disk0[inputs[i]], Wrap[disk0[inputs[i]]]}
        BY <4>1 DEF OldInv, Untouched, WrappedOnce
      <4> QED BY <3>1, <3>3, <4>2 DEF IsDone, FixedAfterOne
    <3> QED BY <2>1, <3>2, <3>3
  <2>3. Through = i - 1 /\ Through' = i BY <2>1 DEF Through
  <2>4. \A k \in 1..i : k \in 1..(i - 1) \/ k = i BY <1>0
  <2> QED BY <1>0, <1>1, <2>1, <2>2, <2>3, <2>4 DEF DoneInv
<1>11. CASE EmitWrite
  <2>1. /\ pc = "emit" /\ pc' = "next" /\ mode = "in_place"
        /\ inputs[i] \in Path /\ disk' = [disk EXCEPT ![inputs[i]] = output]
        /\ UNCHANGED <<stdout, edits, pass, log, i>>
    BY <1>0, <1>11, WriteAppends DEF EmitWrite
  <2>2. ASSUME edits = 0, FixedAfterOne(disk0[inputs[i]])
        PROVE  output = Wrap[disk0[inputs[i]]]
    <3>1. output = Wrap[disk[inputs[i]]] BY <2>1, <2>2 DEF EmitInv
    <3>2. disk[inputs[i]] \in {disk0[inputs[i]], Wrap[disk0[inputs[i]]]}
      BY <2>1, <2>2 DEF OldInv, Untouched, WrappedOnce
    <3> QED BY <2>2, <3>1, <3>2 DEF FixedAfterOne
  <2>3. disk \in [Source -> Content \cup {Unreadable}] /\ inputs[i] \in Source
    BY <1>0, <2>1 DEF TypeOK, DataOK, Source
  <2>4. ASSUME edits = 0, NEW k \in 1..i, k = i \/ IsDone(k) PROVE IsDone(k)'
    <3>1. inputs[k] = inputs[i] =>
            (FixedAfterOne(disk0[inputs[k]]) => disk'[inputs[k]] = Wrap[disk0[inputs[k]]])
      BY <2>1, <2>2, <2>3, <2>4
    <3>2. inputs[k] # inputs[i] => disk'[inputs[k]] = disk[inputs[k]]
      <4>1. inputs[k] \in Source
        BY <1>0, <2>4, ElementOfSeq DEF TypeOK, OptionsOK, ControlOK
      <4> QED BY <2>1, <2>3, <4>1
    <3> QED BY <1>0, <2>1, <2>4, <3>1, <3>2 DEF IsDone, FixedAfterOne
  <2>5. Through = i - 1 /\ Through' = i BY <2>1 DEF Through
  <2>6. \A k \in 1..i : k \in 1..(i - 1) \/ k = i BY <1>0
  <2> QED BY <1>0, <2>1, <2>4, <2>5, <2>6 DEF DoneInv
<1>12. CASE EmitPrint \/ (EmitFails /\ mode = "print")
  <2>1. PICK b \in BOOLEAN :
          /\ stdout' = Append(stdout, [text |-> output, whole |-> b])
          /\ pc = "emit" /\ pc' = IF b THEN "next" ELSE "diagnose"
          /\ mode = "print" /\ UNCHANGED <<i, log, edits, pass>>
    BY <1>12 DEF EmitPrint, EmitFails
  <2>2. output \in Content BY <1>0, <2>1 DEF TypeOK, DataOK
  <2>3. /\ Len(stdout') = Len(stdout) + 1 /\ Len(stdout) = i - 1
        /\ \A k \in 1..Len(stdout) : stdout'[k] = stdout[k]
        /\ stdout'[i].whole = b
    BY <1>0, <2>1, <2>2, PrintAppends DEF PrefixInv, Through
  <2>4. \A k \in 1..(i - 1) : stdout'[k].whole BY <2>1, <2>3 DEF PrefixInv
  <2>5. \A k \in 1..i : k \in 1..(i - 1) \/ k = i BY <1>0
  <2>6. \A k \in 1..Through' : stdout'[k].whole /\ k <= Len(stdout')
    BY <1>0, <2>1, <2>3, <2>4, <2>5 DEF Through
  <2> QED BY <1>0, <2>1, <2>6 DEF DoneInv, IsDone
<1>13. CASE EmitFails /\ mode # "print"
  BY <1>2, <1>13 DEF EmitFails, Through
<1>21. CASE EmitPrint \/ EmitFails BY <1>12, <1>13, <1>21
<1>14. CASE LogError BY <1>0, <1>3, <1>14, LogAppends
<1>15. CASE PrintLog
  <2>1. log # <<>> BY <1>15 DEF PrintLog, ExitInv
  <2> QED BY <1>3, <1>15, <2>1 DEF PrintLog
<1>16. CASE ClearOom BY <1>2, <1>16 DEF ClearOom, Through
<1>17. CASE Release
  <2>1. pc' = "failure" => log # <<>> BY <1>17 DEF Release, ExitCode, ExitInv
  <2> QED BY <1>2, <1>17, <2>1 DEF Release, ExitCode, Through
<1>18. CASE Oom \/ Kill BY <1>2, <1>18 DEF Oom, Kill
<1>19. ASSUME NEW p \in Path, NEW c \in Content \cup {Unreadable}, Edit(p, c)
       PROVE  DoneInv'
  BY <1>0, <1>19 DEF Edit, DoneInv
<1>20. CASE UNCHANGED vars BY <1>2, <1>20 DEF vars, Through
<1> QED
  BY <1>4, <1>5, <1>6, <1>7, <1>8, <1>9, <1>10, <1>11, <1>14, <1>15, <1>16,
     <1>17, <1>18, <1>19, <1>20, <1>21 DEF Next, Step

Named(what, k) == \E l \in 1..Len(log) : log[l].what = what /\ log[l].at = k

\* A check, and a probe, log what is wrong with each input they went through.
NamedInv ==
  edits = 0 /\ faults = 0 =>
    /\ mode = "check" /\ pc \in Looping \cup Leaving \cup {"report"} =>
         \A k \in 1..Through :
           /\ Named("failed to read", k) <=> IsBad(k)
           /\ Named("would rewrap", k) <=> WouldChange(k)
    /\ mode = "check" /\ pc = "diagnose" =>
         IF diag = "failed to read" THEN IsBad(i) ELSE diag = "would rewrap" /\ WouldChange(i)
    /\ mode = "in_place" /\ pass = "probe" /\ pc \in Looping \cup Leaving \cup {"report"} =>
         \A k \in 1..Through : Named("failed to read", k) <=> IsBad(k)
    /\ mode = "in_place" /\ pass = "probe" /\ pc = "diagnose" =>
         diag = "failed to read" /\ IsBad(i)
    /\ mode = "in_place" /\ pass = "run" =>
         /\ log = <<>> /\ pc # "diagnose"
         /\ \A k \in 1..Len(inputs) : disk[inputs[k]] # Unreadable
    /\ mode \in {"check", "in_place"} /\ pc \in Leaving \cup {"report"} => i = Len(inputs)

LEMMA NamedStep ==
  ASSUME IInv, EmitInv, ReportInv, NamedInv, [Next]_vars
  PROVE  NamedInv'
<1> USE DEF options, printed, oomState, Looping, Leaving, AtInput
<1>0. /\ UNCHANGED <<mode, inputs, disk0>> /\ TypeOK /\ i \in Nat
      /\ edits \in Nat /\ faults \in Nat /\ Len(inputs) \in Nat
      /\ mode \in {"print", "check", "in_place"} /\ pass \in {"probe", "run"}
      /\ Unreadable \notin Content
      /\ \A k : (IsBad(k)' <=> IsBad(k)) /\ (WouldChange(k)' <=> WouldChange(k))
  BY OptionsStep, CmdWrapAssumption
     DEF IInv, TypeOK, ControlOK, OptionsOK, IsBad, WouldChange
<1>1. pc \in AtInput => \A what : ~Named(what, i)
  BY <1>0 DEF IInv, LogInv, Named
<1>2. UNCHANGED log => \A what, k : Named(what, k)' <=> Named(what, k) BY DEF Named
<1>3. ASSUME UNCHANGED <<edits, faults, pass, log, i, disk>>,
             pc' # "diagnose",
             pc' \in Looping \cup Leaving \cup {"report"} =>
               pc \in Looping \cup Leaving \cup {"report"} /\ Through' = Through,
             pc' \in Leaving \cup {"report"} => pc \in Leaving \cup {"report"}
      PROVE  NamedInv'
  BY <1>0, <1>2, <1>3 DEF NamedInv
<1>4. ASSUME edits' # 0 \/ faults' # 0 PROVE NamedInv' BY <1>4 DEF NamedInv
<1>5. CASE ReserveLog \/ ReserveBlock
  <2>1. /\ i = 0 /\ i' = 0 /\ pc' \in {"reserve_block", "next"}
        /\ UNCHANGED <<edits, faults, pass, log, disk>>
    BY <1>5 DEF ReserveLog, ReserveBlock, IInv, ProbeInv
  <2>2. \A k \in 1..0 : FALSE OBVIOUS
  <2> QED BY <1>0, <2>1, <2>2 DEF NamedInv, Through
<1>6. CASE NextInput
  <2>1. /\ i' = i + 1 /\ pc = "next" /\ pc' = "read"
        /\ UNCHANGED <<edits, faults, pass, log, disk>>
    BY <1>6 DEF NextInput
  <2>2. Through' = Through BY <1>0, <2>1 DEF Through
  <2> QED BY <1>0, <1>2, <2>1, <2>2 DEF NamedInv
<1>7. CASE EndProbe
  <2>0. pass = "probe" /\ mode = "in_place" BY <1>7 DEF EndProbe, EmitInv
  <2>1. CASE log = <<>>
    <3>1. /\ pc' = "next" /\ i' = 0 /\ pass' = "run"
          /\ UNCHANGED <<edits, faults, log, disk>>
      BY <1>7, <2>1 DEF EndProbe, ProbeIsClean
    <3>2. edits = 0 => \A k \in 1..Len(inputs) : disk[inputs[k]] # Unreadable
      BY <1>7, <2>0, <2>1 DEF EndProbe, AtEnd, IInv, ProbeInv, Settled
    <3> QED BY <1>0, <2>0, <2>1, <3>1, <3>2 DEF NamedInv
  <2>2. CASE log # <<>>
    <3>1. /\ pc = "next" /\ pc' = "report" /\ i = Len(inputs)
          /\ UNCHANGED <<edits, faults, pass, log, i, disk>>
      BY <1>7, <2>2 DEF EndProbe, ProbeIsClean, AtEnd
    <3> QED BY <1>0, <1>2, <2>0, <3>1 DEF NamedInv, Through
  <2> QED BY <2>1, <2>2
<1>8. CASE EndRun
  <2>1. /\ pc = "next" /\ pass = "run" /\ i = Len(inputs) /\ pc' \in {"report", "clear"}
        /\ UNCHANGED <<edits, faults, pass, log, i, disk>>
    BY <1>8 DEF EndRun, AtEnd
  <2> QED BY <1>0, <1>2, <2>1 DEF NamedInv, Through
<1>9. CASE ReadInput
  <2>1. CASE pass = "run" BY <1>3, <1>9, <2>1 DEF ReadInput, Through
  <2>2. CASE pass = "probe"
    <3>1. /\ pc = "read" /\ pc' = "next" /\ mode = "in_place"
          /\ disk[inputs[i]] # Unreadable
          /\ UNCHANGED <<edits, faults, pass, log, i, disk>>
      BY <1>9, <2>2 DEF ReadInput, EmitInv
    <3>2. edits = 0 => ~IsBad(i) BY <2>2, <3>1 DEF IInv, ProbeInv, IsBad
    <3>3. \A k \in 1..i : k \in 1..(i - 1) \/ k = i BY <1>0
    <3> QED BY <1>0, <1>1, <1>2, <2>2, <3>1, <3>2, <3>3 DEF NamedInv, Through
  <2> QED BY <1>0, <2>1, <2>2
<1>10. CASE ReadFails
  <2>1. /\ pc = "read" /\ pc' = "diagnose" /\ diag' = "failed to read"
        /\ UNCHANGED <<edits, pass, log, i, disk>>
        /\ \/ disk[inputs[i]] = Unreadable /\ faults' = faults
           \/ faults' = faults + 1
    BY <1>10 DEF ReadFails, Fault
  <2>2. CASE faults' = faults + 1 BY <1>0, <1>4, <2>2
  <2>3. CASE disk[inputs[i]] = Unreadable /\ faults' = faults
    <3>1. i \in 1..Len(inputs) BY <1>0, <2>1, CurrentInput DEF TypeOK, ControlOK
    <3>2. edits = 0 /\ (mode = "check" \/ pass = "probe") => IsBad(i)
      BY <2>3 DEF EmitInv, IInv, ProbeInv, IsBad
    <3> QED BY <1>0, <1>2, <2>1, <2>3, <3>1, <3>2 DEF NamedInv, Through
  <2> QED BY <2>1, <2>2, <2>3
<1>11. CASE Rewrap BY <1>3, <1>11 DEF Rewrap, Through
<1>12. CASE EmitUnchanged
  <2>1. /\ pc = "emit" /\ pc' = "next" /\ output = source
        /\ source \in Content /\ pass = "run"
        /\ UNCHANGED <<edits, faults, pass, log, i, disk>>
    BY <1>0, <1>12 DEF EmitUnchanged, IsChanged, TypeOK, DataOK, IInv, WriteInv
  <2>2. edits = 0 /\ mode = "check" => ~IsBad(i) /\ ~WouldChange(i)
    BY <1>0, <2>1 DEF EmitInv, IsBad, WouldChange
  <2>3. \A k \in 1..i : k \in 1..(i - 1) \/ k = i BY <1>0
  <2> QED BY <1>0, <1>1, <1>2, <2>1, <2>2, <2>3 DEF NamedInv, Through
<1>13. CASE EmitCheck
  <2>1. /\ pc = "emit" /\ pc' = "diagnose" /\ diag' = "would rewrap" /\ mode = "check"
        /\ output # source /\ source \in Content
        /\ UNCHANGED <<edits, faults, pass, log, i, disk>>
    BY <1>0, <1>13 DEF EmitCheck, IsChanged, TypeOK, DataOK
  <2>2. edits = 0 => WouldChange(i)
    BY <1>0, <2>1 DEF EmitInv, IsBad, WouldChange
  <2> QED BY <1>0, <1>2, <2>1, <2>2 DEF NamedInv, Through
<1>14. CASE EmitWrite
  <2>1. /\ mode = "in_place" /\ pass = "run" /\ pc' = "next" /\ output \in Content
        /\ disk' = [disk EXCEPT ![inputs[i]] = output]
        /\ UNCHANGED <<edits, faults, pass, log, i>>
    BY <1>0, <1>14, WriteAppends DEF EmitWrite, TypeOK, DataOK, IInv, WriteInv
  <2>2. ASSUME NEW k \in 1..Len(inputs), disk[inputs[k]] # Unreadable
        PROVE  disk'[inputs[k]] # Unreadable
    <3>1. inputs[k] \in Source BY <1>0, ElementOfSeq DEF TypeOK, OptionsOK
    <3> QED BY <1>0, <2>1, <2>2, <3>1 DEF TypeOK, DataOK
  <2> QED BY <1>0, <2>1, <2>2 DEF NamedInv
<1>15. CASE EmitPrint BY <1>0, <1>15 DEF EmitPrint, NamedInv
<1>16. CASE EmitFails
  <2>1. faults' = faults + 1 BY <1>16 DEF EmitFails, Fault
  <2>2. faults' # 0 BY <1>0, <2>1
  <2> QED BY <1>4, <2>2
<1>17. CASE LogError
  <2>1. pc = "diagnose" /\ UNCHANGED <<edits, faults, pass, i, disk>>
    BY <1>17 DEF LogError
  <2>2. ASSUME NEW what, NEW k
        PROVE  Named(what, k)' <=> Named(what, k) \/ (what = diag /\ k = i)
    <3>1. /\ Len(log') = Len(log) + 1 /\ Len(log) \in Nat
          /\ \A l \in 1..Len(log) : log'[l] = log[l]
          /\ log'[Len(log) + 1].at = i /\ log'[Len(log) + 1].what = diag
      BY <1>0, <1>17, LogAppends
    <3>2. \A l \in 1..Len(log') : l \in 1..Len(log) \/ l = Len(log) + 1 BY <3>1
    <3>3. 1..Len(log) \subseteq 1..Len(log') /\ Len(log) + 1 \in 1..Len(log') BY <3>1
    <3> QED BY <3>1, <3>2, <3>3 DEF Named
  <2>3. Through = i - 1 BY <2>1 DEF Through
  <2>4. \A k \in 1..i : k \in 1..(i - 1) \/ k = i BY <1>0
  <2>5. \A k \in 1..(i - 1) : k # i BY <1>0
  <2>6. CASE edits = 0 /\ faults = 0 /\ mode = "check"
    <3>1. pc' = "next" /\ Through' = i BY <1>17, <2>1, <2>6 DEF LogError, GoesOn, Through
    <3>2. \A k \in 1..(i - 1) :
            /\ Named("failed to read", k) <=> IsBad(k)
            /\ Named("would rewrap", k) <=> WouldChange(k)
      BY <2>1, <2>3, <2>6 DEF NamedInv
    <3>3. \/ diag = "failed to read" /\ IsBad(i) /\ ~WouldChange(i)
          \/ diag = "would rewrap" /\ WouldChange(i) /\ ~IsBad(i)
      BY <2>1, <2>6 DEF NamedInv, WouldChange
    <3>4. \A k \in 1..i :
            /\ Named("failed to read", k)' <=> IsBad(k)
            /\ Named("would rewrap", k)' <=> WouldChange(k)
      BY <1>1, <2>1, <2>2, <2>4, <2>5, <3>2, <3>3
    <3> QED BY <1>0, <2>6, <3>1, <3>4 DEF NamedInv
  <2>7. CASE edits = 0 /\ faults = 0 /\ mode = "in_place"
    <3>1. pass = "probe" /\ diag = "failed to read" /\ IsBad(i)
      BY <1>0, <2>1, <2>7 DEF NamedInv
    <3>2. pc' = "next" /\ Through' = i BY <1>17, <2>1, <3>1 DEF LogError, GoesOn, Through
    <3>3. \A k \in 1..(i - 1) : Named("failed to read", k) <=> IsBad(k)
      BY <2>1, <2>3, <2>7, <3>1 DEF NamedInv
    <3>4. \A k \in 1..i : Named("failed to read", k)' <=> IsBad(k)
      BY <2>2, <2>4, <2>5, <3>1, <3>3
    <3> QED BY <1>0, <2>1, <2>7, <3>1, <3>2, <3>4 DEF NamedInv
  <2> QED BY <1>0, <2>1, <2>6, <2>7 DEF NamedInv
<1>18. CASE PrintLog BY <1>3, <1>18 DEF PrintLog, Through
<1>19. CASE ClearOom BY <1>3, <1>19 DEF ClearOom, Through
<1>20. CASE Release BY <1>3, <1>20 DEF Release, ExitCode, Through
<1>21. CASE Oom \/ Kill BY <1>3, <1>21 DEF Oom, Kill
<1>22. ASSUME NEW p \in Path, NEW c \in Content \cup {Unreadable}, Edit(p, c)
       PROVE  NamedInv'
  BY <1>0, <1>4, <1>22 DEF Edit
<1>23. CASE UNCHANGED vars
  BY <1>0, <1>2, <1>23 DEF vars, NamedInv, Through
<1> QED
  BY <1>5, <1>6, <1>7, <1>8, <1>9, <1>10, <1>11, <1>12, <1>13, <1>14, <1>15, <1>16, <1>17,
     <1>18, <1>19, <1>20, <1>21, <1>22, <1>23 DEF Next, Step

-----------------------------------------------------------------------------
(* What every run promises *)

RunInv == IInv /\ EmitInv /\ OldInv /\ ReportInv /\ ExitInv /\ PrefixInv /\ DoneInv /\ NamedInv

\* The parts of the invariant hold together in every reachable state.
THEOREM RunInvariance == Spec => []RunInv
<1>1. ASSUME Init PROVE EmitInv /\ OldInv /\ ReportInv /\ ExitInv /\ PrefixInv /\ DoneInv /\ NamedInv
  <2> USE <1>1 DEF Looping, Leaving, AtInput
  <2>1. /\ pc = "reserve_log" /\ i = 0 /\ log = <<>> /\ stdout = <<>> /\ written = <<>>
        /\ stderr = <<>> /\ disk = disk0 /\ ~failed /\ ~oomLog /\ ~logLive /\ oomJob = NoJob
        /\ pass = IF mode = "in_place" THEN "probe" ELSE "run"
    BY DEF Init
  <2>2. Len(<<>>) = 0 OBVIOUS
  <2>3. EmitInv BY <2>1, <2>2 DEF EmitInv
  <2>4. OldInv BY <2>1, <2>2 DEF OldInv, Untouched
  <2>5. ReportInv BY <2>1 DEF ReportInv
  <2>6. ExitInv BY <2>1 DEF ExitInv
  <2>7. PrefixInv BY <2>1, <2>2 DEF PrefixInv
  <2>8. DoneInv BY <2>1 DEF DoneInv
  <2>9. NamedInv BY <2>1 DEF NamedInv
  <2> QED BY <2>3, <2>4, <2>5, <2>6, <2>7, <2>8, <2>9
<1>2. RunInv /\ [Next]_vars
        => (EmitInv /\ OldInv /\ ReportInv /\ ExitInv /\ PrefixInv /\ DoneInv /\ NamedInv)'
  BY EmitStep, OldStep, ReportStep, ExitStep, PrefixStep, DoneStep, NamedStep DEF RunInv
<1> QED BY <1>1, <1>2, Invariance, PTL DEF Spec, RunInv

\* Nothing but a rewrap is written, and only by the mode that writes; the others
\* leave the files alone and only the default one prints.
THEOREM OnlyWrapsLeaveTheRunHolds == Spec => []OnlyWrapsLeaveTheRun
<1>1. RunInv => OnlyWrapsLeaveTheRun
  BY EmptySeq DEF RunInv, IInv, EmitInv, WriteInv, OnlyWrapsLeaveTheRun
<1> QED BY <1>1, RunInvariance, PTL

\* Wherever a run of any length stops, a file that is a fixed point once rewrapped
\* is as it was or rewrapped, by one write at most.
THEOREM OldOrWrappedOnceHolds == Spec => []OldOrWrappedOnce
<1>1. RunInv => OldOrWrappedOnce
  <2> SUFFICES ASSUME OldInv, edits = 0, NEW p \in Path, FixedAfterOne(disk0[p])
               PROVE  LET writes == {k \in 1..Len(written) : written[k].path = p}
                      IN  \/ disk[p] = disk0[p] /\ writes = {}
                          \/ disk[p] = Wrap[disk0[p]] /\ \E k \in writes : writes = {k}
    BY DEF RunInv, OldOrWrappedOnce
  <2>1. CASE Untouched(p) BY <2>1 DEF Untouched
  <2>2. CASE WrappedOnce(p)
    <3>1. PICK k \in 1..Len(written) :
            /\ written[k].path = p
            /\ \A j \in 1..Len(written) : written[j].path = p => j = k
      BY <2>2 DEF WrappedOnce
    <3> QED BY <2>2, <3>1 DEF WrappedOnce
  <2> QED BY <2>1, <2>2 DEF OldInv
<1> QED BY <1>1, RunInvariance, PTL

\* The default mode prints whole rewraps of the first inputs, up to the one it blames.
THEOREM OutputIsPrefixHolds == Spec => []OutputIsPrefix
<1>1. RunInv => OutputIsPrefix
  <2> SUFFICES ASSUME RunInv, mode = "print" PROVE OutputIsPrefix!2
    BY DEF OutputIsPrefix
  <2>1. i \in Nat /\ i <= Len(inputs) /\ Len(inputs) \in Nat /\ Len(stdout) \in Nat
    BY LenProperties DEF RunInv, IInv, TypeOK, ControlOK, OptionsOK, HistoryOK
  <2> QED BY <2>1 DEF RunInv, PrefixInv
<1> QED BY <1>1, RunInvariance, PTL

\* A check that ends has named every bad input and every input that would change, and
\* a probe every bad one, for any number of inputs.
THEOREM ReportsEveryInputHolds == Spec => []ReportsEveryInput
<1>1. RunInv => ReportsEveryInput
  <2> DEFINE named(what) == {log[k].at : k \in {l \in 1..Len(log) : log[l].what = what}}
             all == 1..Len(inputs)
  <2> SUFFICES ASSUME RunInv, edits = 0, faults = 0, pc \in {"ok", "failure"},
                      mode \in {"check", "in_place"}
               PROVE  /\ named("failed to read") = {k \in all : IsBad(k)}
                      /\ mode = "check" => named("would rewrap") = {k \in all : WouldChange(k)}
    BY DEF ReportsEveryInput
  <2>1. i = Len(inputs) /\ Through = i /\ pass \in {"probe", "run"}
    BY DEF RunInv, NamedInv, Leaving, Through, AtInput, IInv, TypeOK, ControlOK
  <2>2. \A what : named(what) = {k \in all : Named(what, k)}
    <3>1. \A l \in 1..Len(log) : log[l].at \in 1..Len(inputs)
      <4>1. \A l \in 1..Len(log) : log[l] \in Entry /\ log[l].at <= i
        BY ElementOfSeq DEF RunInv, IInv, TypeOK, LogOK, LogInv
      <4>2. MaxInputs \in Nat /\ \A e \in Entry : e.at \in 1..MaxInputs
        BY CmdWrapAssumption DEF Entry
      <4>3. Len(inputs) \in Nat BY DEF RunInv, IInv, TypeOK, OptionsOK
      <4> QED BY <2>1, <4>1, <4>2, <4>3
    <3> QED BY <3>1 DEF Named
  <2>3. \/ mode = "in_place" /\ pass = "run"
        \/ \A k \in all : Named("failed to read", k) <=> IsBad(k)
    BY <2>1 DEF RunInv, NamedInv, Leaving
  <2>4. mode = "check" => \A k \in all : Named("would rewrap", k) <=> WouldChange(k)
    BY <2>1 DEF RunInv, NamedInv, Leaving
  <2>5. ASSUME mode = "in_place", pass = "run"
        PROVE  \A k \in all : ~Named("failed to read", k) /\ ~IsBad(k)
    <3>1. log = <<>> BY <2>5 DEF RunInv, NamedInv
    <3>2. \A k \in all : ~IsBad(k) BY <2>5 DEF RunInv, IInv, ProbeInv, IsBad
    <3> QED BY <3>1, <3>2 DEF Named
  <2>6. \A k \in all : Named("failed to read", k) <=> IsBad(k) BY <2>3, <2>5
  <2> QED BY <2>2, <2>4, <2>6
<1> QED BY <1>1, RunInvariance, PTL

\* The exit code is OK exactly when nothing went wrong, and then the mode's work is
\* done on every input.
THEOREM ExitTellsTheTruthHolds == Spec => []ExitTellsTheTruth
<1>1. RunInv => ExitTellsTheTruth
  <2> SUFFICES ASSUME RunInv PROVE ExitTellsTheTruth OBVIOUS
  <2> USE DEF RunInv, Leaving
  <2>1. pc = "ok" => log = <<>> /\ stderr = <<>> BY DEF ExitInv
  <2>2. pc = "failure" => log # <<>> /\ (stderrOpen => stderr = log) BY DEF ExitInv
  <2>3. pc = "ok" /\ edits = 0 => \A k \in 1..Len(inputs) : IsDone(k)
    BY <2>1 DEF DoneInv, Through, AtInput
  <2> QED BY <2>1, <2>2, <2>3 DEF ExitTellsTheTruth, IsDone
<1> QED BY <1>1, RunInvariance, PTL

\* The report of a failed allocation prints the log while it is there, after what was
\* logged, and blames the input and the phase that were at hand.
THEOREM OomReportIsTrueHolds == Spec => OomReportIsTrue
<1> DEFINE Report ==
      /\ oomLog' => logLive'
      /\ pc' = "oom" /\ stderrOpen =>
           /\ stderr' = log
           /\ blame' = IF PhaseAt = "" THEN NoJob ELSE Job(PhaseAt, inputs[i])
<1>1. ASSUME RunInv, RunInv', [Next]_vars PROVE [Report]_vars
  <2> SUFFICES ASSUME Next PROVE Report BY <1>1
  <2>1. oomLog' => logLive' BY <1>1 DEF RunInv, ReportInv
  <2>2. ASSUME pc' = "oom", stderrOpen
        PROVE  /\ stderr' = log
               /\ blame' = IF PhaseAt = "" THEN NoJob ELSE Job(PhaseAt, inputs[i])
    <3>1. Oom
      BY <2>2 DEF Next, Step, ReserveLog, ReserveBlock, NextInput, EndProbe, EndRun, ReadInput,
        ReadFails, Rewrap, EmitUnchanged, EmitCheck, EmitWrite, EmitPrint, EmitFails, LogError,
        PrintLog, ClearOom, Release, ExitCode, Kill, Edit, Running
    <3>2. log \in Seq(Entry) BY <1>1 DEF RunInv, IInv, TypeOK, LogOK
    <3>3. stderr' = log
      BY <1>1, <2>2, <3>1, <3>2, ConcatEmptySeq
         DEF Oom, Allocates, ToStderr, RunInv, ReportInv, Looping, AtInput
    <3>4. CASE pc \in {"reserve_log", "reserve_block"}
      BY <1>1, <2>2, <3>1, <3>4 DEF Oom, RunInv, ReportInv, PhaseAt
    <3>5. CASE pc \in {"read", "rewrap", "diagnose"}
      <4>1. blame' = Job(JobPhase, inputs[i])
        BY <1>1, <2>2, <3>1, <3>5 DEF Oom, RunInv, ReportInv, AtInput
      <4>2. JobPhase = PhaseAt BY <3>5 DEF JobPhase
      <4>3. diag \in Diagnostics BY <1>1 DEF RunInv, IInv, TypeOK, ControlOK
      <4>4. PhaseAt # ""
        BY <3>5, <4>3 DEF PhaseAt, DiagnosedPhase, WritePhase, Diagnostics
      <4> QED BY <3>3, <4>1, <4>2, <4>4
    <3> QED BY <3>1, <3>3, <3>4, <3>5 DEF Oom, Allocates
  <2> QED BY <2>1, <2>2
<1> QED BY <1>1, RunInvariance, PTL DEF Spec, OomReportIsTrue
=============================================================================
