------------------------------- MODULE CmdWrap -------------------------------
(***************************************************************************)
(* One run of the wrap command: cmd_wrap_run and the per-input steps of    *)
(* wrap_input.c, on a host whose files other processes may edit.           *)
(*                                                                         *)
(* A file is one of a few contents, and Wrap is rewrite_source at the      *)
(* run's width. os_read and os_write are single steps here: OsWrite shows  *)
(* that a write is one. Memory may run out wherever an arena commits, and  *)
(* a signal may end the process between any two steps.                     *)
(*                                                                         *)
(* A definition X_Fault is X with a fault in it. No formula uses it: a run *)
(* with it in place of X shows what a property would notice.               *)
(***************************************************************************)
EXTENDS Integers, Sequences

CONSTANTS
  Path,        \* Files a command line can name
  Stdin,       \* The one input of a run without paths
  Content,     \* Contents os_read accepts
  Unreadable,  \* What a path holds that os_read refuses: nothing, a directory, a NUL...
  Wrap,        \* rewrite_source: content |-> rewrapped content
  MaxInputs,   \* Bound: paths on the command line
  MaxFaults,   \* Bound: system calls that fail for no reason in the state
  MaxEdits     \* Bound: edits by other processes during the run

Source == Path \cup {Stdin}

ASSUME CmdWrapAssumption ==
  /\ Stdin \notin Path
  /\ Unreadable \notin Content
  /\ Wrap \in [Content -> Content]
  /\ MaxInputs \in Nat \ {0}
  /\ MaxFaults \in Nat
  /\ MaxEdits \in Nat

VARIABLES
  mode,        \* "print", "check" or "in_place": is_check and is_in_place
  inputs,      \* The paths in order, or <<Stdin>>
  stderrOpen,  \* Whether a print to standard error reaches anyone
  disk0,       \* History: the files when the run started
  disk,        \* The files
  pc,          \* The step the run is at, or how it ended
  pass,        \* "probe" in cmd_wrap_run_read_inputs, "run" in cmd_wrap_run_inputs
  i,           \* Inputs begun in this pass
  source,      \* Bytes read from the current input
  output,      \* Their rewrap
  diag,        \* The diagnostic about to be logged
  failed,      \* has_failed, then rc # 0
  log,         \* The run's log, one entry per diagnostic
  logLive,     \* Whether the log's arena is reserved
  oomLog,      \* Whether memory_oom_log names the log
  oomJob,      \* memory_oom_phase and memory_oom_input_name
  stdout,      \* What was printed to standard output
  stderr,      \* Log entries printed to standard error
  blame,       \* The job memory_oom_report printed, NoJob before it ran
  written,     \* History: the writes that replaced a file
  faults,      \* Faults so far
  edits        \* Edits so far

options == <<mode, inputs, stderrOpen, disk0>>
oomState == <<logLive, oomLog, oomJob>>
printed == <<stdout, stderr, blame>>
vars == <<options, disk, pc, pass, i, source, output, diag, failed, log,
          oomState, printed, written, faults, edits>>

Job(phase, name) == [phase |-> phase, name |-> name]
Phases == {"read", "rewrap", "write", "write rewritten"}
NoJob == Job("", Stdin)

Diagnostics == {"failed to read", "would rewrap", "failed to write"}
Entry == [pass : {"probe", "run"}, at : 1..MaxInputs, what : Diagnostics]

Running == {"reserve_log", "reserve_block", "next", "read", "rewrap", "emit",
            "diagnose", "report", "clear", "release"}
Ended == {"ok", "failure", "oom", "killed"}

Init ==
  /\ mode \in {"print", "check", "in_place"}
  /\ \/ \E n \in 1..MaxInputs : inputs \in [1..n -> Path]
     \/ mode # "in_place" /\ inputs = <<Stdin>>
  /\ stderrOpen \in BOOLEAN
  /\ disk \in [Source -> Content \cup {Unreadable}]
  /\ disk0 = disk
  /\ pc = "reserve_log"
  /\ pass = (IF mode = "in_place" THEN "probe" ELSE "run")
  /\ i = 0
  /\ source = Unreadable /\ output = Unreadable
  /\ diag = "failed to read"
  /\ failed = FALSE
  /\ log = <<>>
  /\ logLive = FALSE /\ oomLog = FALSE /\ oomJob = NoJob
  /\ stdout = <<>> /\ stderr = <<>> /\ blame = NoJob
  /\ written = <<>>
  /\ faults = 0 /\ edits = 0

-----------------------------------------------------------------------------
(* cmd_wrap_run: the reservations *)

\* The log gets its own reservation, because it keeps its size under an
\* address-space limit.
ReserveLog ==
  /\ pc = "reserve_log"
  /\ pc' = "reserve_block"
  /\ logLive' = TRUE
  /\ UNCHANGED <<options, disk, pass, i, source, output, diag, failed, log,
                 oomLog, oomJob, printed, written, faults, edits>>

\* The input and the scratch arena, and only then the log for the
\* out-of-memory report.
ReserveBlock ==
  /\ pc = "reserve_block"
  /\ pc' = "next"
  /\ oomLog' = TRUE
  /\ UNCHANGED <<options, disk, pass, i, source, output, diag, failed, log,
                 logLive, oomJob, printed, written, faults, edits>>

(* The two loops over the inputs *)

\* wrap_input_read_file names the job before it reads.
NextInput ==
  /\ pc = "next" /\ i < Len(inputs)
  /\ pc' = "read"
  /\ i' = i + 1
  /\ oomJob' = Job("read", inputs[i + 1])
  /\ UNCHANGED <<options, disk, pass, source, output, diag, failed, log,
                 logLive, oomLog, printed, written, faults, edits>>

AtEnd_OffByOne == i = Len(inputs) + 1
AtEnd == i = Len(inputs)

ProbeIsClean_Skipped == TRUE
ProbeIsClean == log = <<>>

\* In in-place mode the inputs run only when the probe logged no error.
EndProbe ==
  /\ pc = "next" /\ AtEnd /\ pass = "probe"
  /\ IF ProbeIsClean
       THEN pass' = "run" /\ i' = 0 /\ UNCHANGED <<pc, failed>>
       ELSE pc' = "report" /\ failed' = TRUE /\ UNCHANGED <<pass, i>>
  /\ UNCHANGED <<options, disk, source, output, diag, log, oomState, printed,
                 written, faults, edits>>

EndRun ==
  /\ pc = "next" /\ AtEnd /\ pass = "run"
  /\ pc' = IF failed THEN "report" ELSE "clear"
  /\ UNCHANGED <<options, disk, pass, i, source, output, diag, failed, log,
                 oomState, printed, written, faults, edits>>

(* wrap_input_read_file and the start of process_source *)

\* The probe drops the bytes. The run starts to rewrap them.
ReadInput ==
  /\ pc = "read" /\ disk[inputs[i]] # Unreadable
  /\ IF pass = "probe"
       THEN pc' = "next" /\ UNCHANGED <<source, oomJob>>
       ELSE /\ pc' = "rewrap"
            /\ source' = disk[inputs[i]]
            /\ oomJob' = Job("rewrap", inputs[i])
  /\ UNCHANGED <<options, disk, pass, i, output, diag, failed, log, logLive,
                 oomLog, printed, written, faults, edits>>

Fault == faults < MaxFaults /\ faults' = faults + 1

ReadFails ==
  /\ pc = "read"
  /\ \/ disk[inputs[i]] = Unreadable /\ UNCHANGED faults
     \/ Fault
  /\ pc' = "diagnose" /\ diag' = "failed to read"
  /\ UNCHANGED <<options, disk, pass, i, source, output, failed, log, oomState,
                 printed, written, edits>>

WritePhase == IF mode = "in_place" THEN "write" ELSE "write rewritten"

EmitJob_StillRewrap == oomJob
EmitJob == IF mode = "check" THEN oomJob ELSE Job(WritePhase, inputs[i])

\* Check mode only compares, so it keeps the "rewrap" phase.
Rewrap ==
  /\ pc = "rewrap"
  /\ pc' = "emit"
  /\ output' = Wrap[source]
  /\ oomJob' = EmitJob
  /\ UNCHANGED <<options, disk, pass, i, source, diag, failed, log, logLive,
                 oomLog, printed, written, faults, edits>>

(* process_source_emit *)

IsChanged_Always == TRUE
IsChanged == output # source

EmitUnchanged ==
  /\ pc = "emit" /\ mode \in {"check", "in_place"} /\ ~IsChanged
  /\ pc' = "next"
  /\ UNCHANGED <<options, disk, pass, i, source, output, diag, failed, log,
                 oomState, printed, written, faults, edits>>

EmitCheck ==
  /\ pc = "emit" /\ mode = "check" /\ IsChanged
  /\ pc' = "diagnose" /\ diag' = "would rewrap"
  /\ UNCHANGED <<options, disk, pass, i, source, output, failed, log, oomState,
                 printed, written, faults, edits>>

\* os_write replaces whatever the path holds by now.
EmitWrite ==
  /\ pc = "emit" /\ mode = "in_place" /\ IsChanged
  /\ pc' = "next"
  /\ disk' = [disk EXCEPT ![inputs[i]] = output]
  /\ written' = Append(written, [path |-> inputs[i], from |-> source, to |-> output])
  /\ UNCHANGED <<options, pass, i, source, output, diag, failed, log, oomState,
                 printed, faults, edits>>

EmitPrint ==
  /\ pc = "emit" /\ mode = "print"
  /\ pc' = "next"
  /\ stdout' = Append(stdout, [text |-> output, whole |-> TRUE])
  /\ UNCHANGED <<options, disk, pass, i, source, output, diag, failed, log,
                 oomState, stderr, blame, written, faults, edits>>

\* A failed write leaves the file, a failed print what it printed so far.
EmitFails ==
  /\ pc = "emit" /\ Fault
  /\ \/ mode = "in_place" /\ IsChanged /\ UNCHANGED stdout
     \/ mode = "print" /\ stdout' = Append(stdout, [text |-> output, whole |-> FALSE])
  /\ pc' = "diagnose" /\ diag' = "failed to write"
  /\ UNCHANGED <<options, disk, pass, i, source, output, failed, log, oomState,
                 stderr, blame, written, edits>>

(* log_error, and what the loops do with the result *)

GoesOn_Always == TRUE
GoesOn_InProbe == pass = "probe"
GoesOn == pass = "probe" \/ mode = "check"

FailsTheRun_NotOnChange == pass = "run" /\ diag # "would rewrap"
FailsTheRun == pass = "run"

LogPosition == i

LogError ==
  /\ pc = "diagnose"
  /\ log' = Append(log, [pass |-> pass, at |-> LogPosition, what |-> diag])
  /\ failed' = (failed \/ FailsTheRun)
  /\ pc' = IF GoesOn THEN "next" ELSE "report"
  /\ UNCHANGED <<options, disk, pass, i, source, output, diag, oomState,
                 printed, written, faults, edits>>

(* The end of cmd_wrap_run *)

ToStderr(entries) == IF stderrOpen THEN stderr \o entries ELSE stderr

PrintLog ==
  /\ pc = "report"
  /\ pc' = "clear"
  /\ stderr' = ToStderr(log)
  /\ UNCHANGED <<options, disk, pass, i, source, output, diag, failed, log,
                 oomState, stdout, blame, written, faults, edits>>

ClearOom ==
  /\ pc = "clear"
  /\ pc' = "release"
  /\ oomLog' = FALSE /\ oomJob' = NoJob
  /\ UNCHANGED <<options, disk, pass, i, source, output, diag, failed, log,
                 logLive, printed, written, faults, edits>>

ExitCode == IF failed THEN "failure" ELSE "ok"

Release ==
  /\ pc = "release"
  /\ pc' = ExitCode
  /\ logLive' = FALSE
  /\ UNCHANGED <<options, disk, pass, i, source, output, diag, failed, log,
                 oomLog, oomJob, printed, written, faults, edits>>

(* os_oom: print the log, name the job, exit with a failure *)

Allocates == {"reserve_log", "reserve_block", "read", "rewrap", "diagnose"}

Oom ==
  /\ pc \in Allocates
  /\ pc' = "oom"
  /\ stderr' = IF oomLog THEN ToStderr(log) ELSE stderr
  /\ blame' = IF stderrOpen THEN oomJob ELSE blame
  /\ UNCHANGED <<options, disk, pass, i, source, output, diag, failed, log,
                 oomState, stdout, written, faults, edits>>

(* The environment *)

\* A signal, such as the SIGPIPE of a closed standard output.
Kill ==
  /\ pc \in Running
  /\ pc' = "killed"
  /\ UNCHANGED <<options, disk, pass, i, source, output, diag, failed, log,
                 oomState, printed, written, faults, edits>>

\* Another process changes, removes or creates a file.
Edit(p, c) ==
  /\ pc \in Running /\ edits < MaxEdits
  /\ c # disk[p]
  /\ disk' = [disk EXCEPT ![p] = c]
  /\ edits' = edits + 1
  /\ UNCHANGED <<options, pc, pass, i, source, output, diag, failed, log,
                 oomState, printed, written, faults>>

Step ==
  \/ ReserveLog \/ ReserveBlock
  \/ NextInput \/ EndProbe \/ EndRun
  \/ ReadInput \/ ReadFails \/ Rewrap
  \/ EmitUnchanged \/ EmitCheck \/ EmitWrite \/ EmitPrint \/ EmitFails
  \/ LogError \/ PrintLog \/ ClearOom \/ Release

Next ==
  \/ Step
  \/ Oom
  \/ Kill
  \/ \E p \in Path, c \in Content \cup {Unreadable} : Edit(p, c)

\* The program is one thread that runs until it ends. Its reads of regular
\* files return, and standard input reaches its end.
Spec == Init /\ [][Next]_vars /\ WF_vars(Step)

-----------------------------------------------------------------------------
(* Properties *)

OptionsOK ==
  /\ mode \in {"print", "check", "in_place"}
  /\ inputs \in Seq(Source) /\ Len(inputs) \in 1..MaxInputs
  /\ mode = "in_place" => \A k \in 1..Len(inputs) : inputs[k] \in Path
  /\ stderrOpen \in BOOLEAN
  /\ disk0 \in [Source -> Content \cup {Unreadable}]

ControlOK ==
  /\ pc \in Running \cup Ended
  /\ pass \in {"probe", "run"}
  /\ i \in 0..Len(inputs)
  /\ pc \in {"read", "rewrap", "emit", "diagnose"} => i > 0
  /\ diag \in Diagnostics
  /\ failed \in BOOLEAN
  /\ logLive \in BOOLEAN /\ oomLog \in BOOLEAN
  /\ faults \in 0..MaxFaults
  /\ edits \in 0..MaxEdits

DataOK ==
  /\ disk \in [Source -> Content \cup {Unreadable}]
  /\ source \in Content \cup {Unreadable}
  /\ output \in Content \cup {Unreadable}
  /\ pc = "rewrap" => source \in Content
  /\ pc = "emit" => source \in Content /\ output \in Content

JobOK ==
  /\ oomJob \in [phase : Phases \cup {""}, name : Source]
  /\ blame \in [phase : Phases \cup {""}, name : Source]

LogOK == log \in Seq(Entry) /\ stderr \in Seq(Entry)

HistoryOK ==
  /\ stdout \in Seq([text : Content, whole : BOOLEAN])
  /\ written \in Seq([path : Path, from : Content, to : Content])

TypeOK == OptionsOK /\ ControlOK /\ DataOK /\ JobOK /\ LogOK /\ HistoryOK

\* In in-place mode no file is written once the pass without writes found a bad
\* input, whatever its place among the inputs and wherever the run ends: not
\* when it could not read one, nor when one was bad from the start.
BadInputWritesNothing ==
  \/ \E k \in 1..Len(log) : log[k].pass = "probe"
  \/ edits = 0 /\ \E k \in 1..Len(inputs) : disk0[inputs[k]] = Unreadable
  => written = <<>>

\* A run changes a file only to the rewrap of bytes it read there, and prints
\* and writes only in the mode that asks for it. A check changes nothing.
OnlyWrapsLeaveTheRun ==
  /\ \A k \in 1..Len(written) :
       /\ written[k].to = Wrap[written[k].from]
       /\ written[k].to # written[k].from
  /\ written # <<>> => mode = "in_place"
  /\ stdout # <<>> => mode = "print"
  /\ mode # "in_place" /\ edits = 0 => disk = disk0

FixedAfterOne(c) == c \in Content /\ Wrap[Wrap[c]] = Wrap[c]

\* Wherever an in-place run stops, killed or out of memory, each file that is a
\* fixed point once rewrapped is as it was or rewrapped, and was written at most
\* once even when it was given twice.
OldOrWrappedOnce ==
  edits = 0 =>
    \A p \in Path : FixedAfterOne(disk0[p]) =>
      LET writes == {k \in 1..Len(written) : written[k].path = p}
      IN  \/ disk[p] = disk0[p] /\ writes = {}
          \/ disk[p] = Wrap[disk0[p]] /\ \E k \in writes : writes = {k}

\* The default mode prints a prefix of the inputs, in order and whole but for
\* the last, and a run that fails prints every input before the one it blames.
OutputIsPrefix ==
  mode = "print" =>
    /\ Len(stdout) <= Len(inputs)
    /\ \A k \in 1..Len(stdout) :
         /\ k < Len(stdout) => stdout[k].whole
         /\ edits = 0 => stdout[k].text = Wrap[disk0[inputs[k]]]
    /\ log # <<>> =>
         /\ Len(log) = 1 /\ Len(stdout) \in {log[1].at - 1, log[1].at}
         /\ \A k \in 1..Len(stdout) : stdout[k].whole <=> k < log[1].at

\* The log has at most one diagnostic per input, in the order of the inputs, and
\* the probe's diagnostics never mix with the run's.
LogInPathOrder ==
  \A j, k \in 1..Len(log) : j < k =>
    /\ log[j].at < log[k].at
    /\ log[j].pass = log[k].pass

IsBad(k) == disk0[inputs[k]] = Unreadable
WouldChange(k) == ~IsBad(k) /\ Wrap[disk0[inputs[k]]] # disk0[inputs[k]]

\* A check that ends names every bad input and every input that would change,
\* and no other. An in-place probe names every bad input.
ReportsEveryInput ==
  edits = 0 /\ faults = 0 /\ pc \in {"ok", "failure"} =>
    LET named(what) == {log[k].at : k \in {l \in 1..Len(log) : log[l].what = what}}
        all == 1..Len(inputs)
    IN  /\ mode \in {"check", "in_place"} =>
             named("failed to read") = {k \in all : IsBad(k)}
        /\ mode = "check" =>
             named("would rewrap") = {k \in all : WouldChange(k)}

\* The exit code is OK exactly when nothing was logged, a failure prints the
\* whole log once, and OK means that the mode's work was done on every input.
ExitTellsTheTruth ==
  /\ pc = "ok" => log = <<>> /\ stderr = <<>>
  /\ pc = "failure" => log # <<>> /\ (stderrOpen => stderr = log)
  /\ pc = "ok" /\ edits = 0 =>
       \A k \in 1..Len(inputs) :
         CASE mode = "print" ->
                k <= Len(stdout) /\ stdout[k].whole
           [] mode = "check" ->
                Wrap[disk0[inputs[k]]] = disk0[inputs[k]]
           [] mode = "in_place" ->
                FixedAfterOne(disk0[inputs[k]]) =>
                  disk[inputs[k]] = Wrap[disk0[inputs[k]]]

DiagnosedPhase ==
  CASE diag = "failed to read" -> "read"
    [] diag = "would rewrap" -> "rewrap"
    [] diag = "failed to write" -> WritePhase

PhaseAt ==
  CASE pc \in {"reserve_log", "reserve_block"} -> ""
    [] pc = "diagnose" -> DiagnosedPhase
    [] OTHER -> pc

\* The out-of-memory report knows no log whose arena is gone, and names the input
\* and the phase the run was in, after every diagnostic logged before.
OomReportIsTrue ==
  [][/\ oomLog' => logLive'
     /\ pc' = "oom" /\ stderrOpen =>
          /\ stderr' = log
          /\ blame' = IF PhaseAt = "" THEN NoJob ELSE Job(PhaseAt, inputs[i])]_vars

\* A run always ends.
RunEnds == <>(pc \in Ended)
=============================================================================
