------------------------------- MODULE MCHost -------------------------------
(***************************************************************************)
(* The three calls of the host that move bytes, os_read, os_read_stdin and *)
(* os_write, for model checking. A behaviour is one call of one of them;   *)
(* they share nothing, and the two that are not made never start.          *)
(***************************************************************************)
EXTENDS OsRead, OsReadStdin, OsWrite

VARIABLE made   \* The call that is made

hostVars == <<made, vars, stdinVars, writeVars>>

\* What a call that is not made is asked.
ReadIdle == regular /\ file = <<>>
StdinIdle == inputLen = 0
WriteIdle == path = "dest" /\ ~slash /\ prev = None /\ mode["new"] = TempMode

HostInit ==
  /\ made \in {"read", "stdin", "write"}
  /\ Init /\ (made # "read" => ReadIdle)
  /\ StdinInit /\ (made # "stdin" => StdinIdle)
  /\ WriteInit /\ (made # "write" => WriteIdle)

HostNext ==
  /\ UNCHANGED made
  /\ \/ made = "read" /\ Next /\ UNCHANGED <<stdinVars, writeVars>>
     \/ made = "stdin" /\ StdinNext /\ UNCHANGED <<vars, writeVars>>
     \/ made = "write" /\ WriteNext /\ UNCHANGED <<vars, stdinVars>>

\* Of the call that is made, the fairness of its own specification.
HostSpec ==
  /\ HostInit /\ [][HostNext]_hostVars
  /\ WF_stdinVars(made = "stdin" /\ Grow)
  /\ SF_stdinVars(made = "stdin" /\ (ReadEnd \/ ReadSome))
  /\ WF_writeVars(made = "write" /\ WriteStep)

-----------------------------------------------------------------------------

\* A read of standard input that is made always ends, however little each system
\* read returns.
StdinReadEnds == made = "stdin" => ReadEnds

\* A write that is made returns unless the process or the machine stops.
WriteCallEnds == made = "write" => WriteEnds
=============================================================================
