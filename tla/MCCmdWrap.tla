------------------------------ MODULE MCCmdWrap ------------------------------
(* Small instances of CmdWrap for TLC. *)
EXTENDS CmdWrap, Functions

\* "done" is wrapped, "raw" is one rewrap away from it, and "odd" needs two.
MCContent == {"done", "raw", "odd"}
MCWrap == [c \in MCContent |-> IF c = "odd" THEN "raw" ELSE "done"]

\* A file that no path names cannot matter, so it has one value.
MCInit == Init /\ \A s \in Source \ Range(inputs) : disk[s] = Unreadable

\* Two inputs are enough for an edit to come before, between and after them.
MCNext == Next /\ (Len(inputs) > 2 => edits' = 0)

MCSpec == MCInit /\ [][MCNext]_vars /\ WF_vars(Step)
=============================================================================
