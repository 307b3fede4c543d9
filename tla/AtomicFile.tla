----------------------------- MODULE AtomicFile -----------------------------
(***************************************************************************)
(* What os_write promises of the file it replaces, as os.h states it: a    *)
(* reader sees the previous complete file or the new complete one, a       *)
(* failed or interrupted call leaves the previous one, and a power loss    *)
(* may undo a replacement but never leaves a part of it.                   *)
(***************************************************************************)
CONSTANTS
  Value,   \* What the destination can be seen to hold, nothing included
  New      \* The complete data of the call

VARIABLES
  file,    \* What a reader of the destination sees
  before,  \* What the call replaced
  call     \* How far the call is

vars == <<file, before, call>>

Init ==
  /\ file \in Value
  /\ before = file
  /\ call = "pending"

Commit ==
  /\ call = "pending"
  /\ call' = "committed" /\ file' = New /\ before' = file

Succeed ==
  /\ call = "committed"
  /\ call' = "ok" /\ UNCHANGED <<file, before>>

Fail ==
  /\ call = "pending"
  /\ call' = "failed" /\ UNCHANGED <<file, before>>

\* A signal ends the process.
Die ==
  /\ call \in {"pending", "committed"}
  /\ call' = "died" /\ UNCHANGED <<file, before>>

\* The directory is not synced, so the replacement may be undone.
PowerLoss ==
  /\ call # "off"
  /\ call' = "off"
  /\ file' \in {file, before}
  /\ UNCHANGED before

\* Another process replaces or removes the file, for good.
Other(v) ==
  /\ call # "off"
  /\ file' = v /\ before' = v /\ UNCHANGED call

Next == Commit \/ Succeed \/ Fail \/ Die \/ PowerLoss \/ \E v \in Value : Other(v)

Spec == Init /\ [][Next]_vars
=============================================================================
