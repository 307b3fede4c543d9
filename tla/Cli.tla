-------------------------------- MODULE Cli --------------------------------
(***************************************************************************)
(* The command line: cli_parse and cli_dispatch over copt's option loop.   *)
(*                                                                         *)
(* The strings behind argv are fixed and argv is an array of pointers to   *)
(* them, which copt permutes while it reads. An element is a sequence of   *)
(* characters, and the name of a long option is one character. argv[0] is  *)
(* left out, so the indices are those of the code, and argc is at least 1. *)
(*                                                                         *)
(* A definition X_Fault is X with a fault in it, which no formula uses.    *)
(***************************************************************************)
EXTENDS Naturals, SequencesExt

CONSTANTS
  Char,
  CommandLine,   \* The command lines: sequences of elements
  Digit,         \* [character -> 0..9]
  ColumnDefault, ColumnMax,    \* WRAP_COLUMN_DEFAULT, WRAP_COLUMN_MAX
  PtrdiffMax, SizeMax          \* PTRDIFF_MAX, SIZE_MAX

ASSUME CliAssumption ==
  /\ CommandLine \subseteq Seq(Seq(Char))
  /\ Digit \in [DOMAIN Digit -> 0..9] /\ DOMAIN Digit \subseteq Char
  /\ ColumnMax \in Nat /\ ColumnDefault \in 1..ColumnMax
  /\ PtrdiffMax \in Nat /\ ColumnMax < PtrdiffMax /\ SizeMax \in Nat /\ 9 <= SizeMax

VARIABLES
  args,      \* The strings
  copt,      \* argv, idx, subidx and argidx of struct copt
  flags,     \* has_version, has_help, is_in_place, is_check
  width,
  error,     \* The first diagnostic, or "none"
  paths,     \* What options->paths points to
  isStdin,
  action,    \* enum CliAction
  exit,      \* The exit code, or "none" before it
  pc

vars == <<args, copt, flags, width, error, paths, isStdin, action, exit, pc>>

Dash == <<"-">>
DashDash == <<"-", "-">>

IsOption(e) == Len(e) > 1 /\ e[1] = "-"

\* The string that argv[k] points to.
Arg(o, k) == args[o.argv[k]]
Argc(o) == Len(o.argv)

-----------------------------------------------------------------------------
(* copt *)

RotateRight_Swapped(s, a, b) == [s EXCEPT ![a] = s[b], ![b] = s[a]]
\* copt_rotate_right: the element at b comes before the one at a.
RotateRight(s, a, b) ==
  [k \in 1..Len(s) |-> IF k = a THEN s[b] ELSE IF k \in (a + 1)..b THEN s[k - 1] ELSE s[k]]

OptionsFrom(o, k) == {n \in k..Argc(o) : IsOption(Arg(o, n))}
Least(S) == CHOOSE x \in S : \A y \in S : x <= y

\* copt_reorder_opt: the next option comes before the operands passed over, and argidx
\* is the element that was behind it, past the end when that is an option or nothing.
Reordered(o, k) ==
  LET at == Least(OptionsFrom(o, k))
      hasOperand == at < Argc(o) /\ ~IsOption(Arg(o, at + 1))
  IN  IF OptionsFrom(o, k) = {} THEN [o EXCEPT !.argidx = 0]
      ELSE [o EXCEPT !.argv = RotateRight(@, k, at),
                     !.argidx = IF hasOperand THEN at + 1 ELSE Argc(o) + 1]

InCluster(o) == o.subidx > 0 /\ o.subidx + 2 <= Len(Arg(o, o.idx))

\* copt_next, up to its verdict. The position in a group is that of its letter.
NextElement(o) ==
  LET k == o.idx + 1
      n == [o EXCEPT !.idx = k, !.subidx = 0]
  IN  IF k > Argc(o) THEN n ELSE Reordered(n, k)

IsShort(o) == Arg(o, o.idx)[2] # "-"

IsAtOption(o) == o.idx <= Argc(o) /\ IsOption(Arg(o, o.idx)) /\ Arg(o, o.idx) # DashDash

NextOption_Again(o) ==
  IF InCluster(o) THEN o
  ELSE IF IsAtOption(NextElement(o)) THEN [NextElement(o) EXCEPT !.subidx = 1]
  ELSE NextElement(o)
NextOption(o) ==
  LET n == NextElement(o)
  IN  IF InCluster(o) THEN [o EXCEPT !.subidx = @ + 1]
      ELSE IF IsAtOption(n) /\ IsShort(n) THEN [n EXCEPT !.subidx = 1]
      ELSE n

\* The option this turn of the loop reads, and its name.
Opt == NextOption(copt)
Element == Arg(Opt, Opt.idx)
Name == Element[IF Opt.subidx > 0 THEN Opt.subidx + 1 ELSE 3]

Equals == {k \in 1..Len(Element) : Element[k] = "="}

\* copt_arg_impl, in the element: what is behind the letter or the equals sign.
HasInline == IF Opt.subidx > 0 THEN Opt.subidx + 2 <= Len(Element) ELSE Equals # {}
Inline ==
  LET from == IF Opt.subidx = 0 THEN Least(Equals) + 1
              ELSE IF Element[Opt.subidx + 2] = "=" THEN Opt.subidx + 3
              ELSE Opt.subidx + 2
  IN  SubSeq(Element, from, Len(Element))

\* copt_arg_impl, in the next element: the operand behind the option follows it again.
ArgBroughtBack(o) ==
  IF o.argidx > o.idx THEN [o EXCEPT !.argv = RotateRight(@, o.idx + 1, o.argidx)] ELSE o

Leave(o) == [o EXCEPT !.subidx = 0, !.argidx = 0]

HasNext == Opt.argidx <= Argc(Opt) /\ Opt.idx < Argc(Opt)
           /\ ~IsOption(Arg(ArgBroughtBack(Opt), Opt.idx + 1))

-----------------------------------------------------------------------------
(* parse_size *)

Overflows_Late(value, digit) == value > SizeMax \div 10
\* The quotient keeps the check itself from overflowing.
Overflows(value, digit) == value > (SizeMax - digit) \div 10

NoSize == [ok |-> FALSE, value |-> 0]
ParseSize(text) ==
  LET AddDigit(r, c) ==
        IF ~r.ok \/ c \notin DOMAIN Digit THEN NoSize
        ELSE IF Overflows(r.value, Digit[c]) THEN NoSize
        ELSE [r EXCEPT !.value = @ * 10 + Digit[c]]
      size == FoldLeft(AddDigit, [ok |-> text # <<>>, value |-> 0], text)
  IN  IF size.value > PtrdiffMax THEN [size EXCEPT !.value = PtrdiffMax] ELSE size

-----------------------------------------------------------------------------
(* cli_parse *)

Spelling == [version |-> {"V", "version"}, help |-> {"h", "help"},
             in_place |-> {"i", "in-place"}, check |-> {"c", "check"}]
WidthSpelling == {"w", "width"}
Known == (UNION {Spelling[f] : f \in DOMAIN Spelling}) \cup WidthSpelling

Init ==
  /\ args \in CommandLine
  /\ copt = [argv |-> [k \in 1..Len(args) |-> k], idx |-> 0, subidx |-> 0, argidx |-> 0]
  /\ flags = {} /\ width = ColumnDefault /\ error = "none"
  /\ paths = <<>> /\ isStdin = FALSE
  /\ action = "run" /\ exit = "none" /\ pc = "options"

\* record_error keeps the first.
FirstError(e) == IF error = "none" THEN e ELSE error

Attached_AnyLetter == Equals # {}
\* cli_parse_require_no_attached_value: in a group the value belongs to the letter
\* before the equals sign.
Attached == Equals # {} /\ (Opt.subidx > 0 => Element[Least(Equals) - 1] = Name)

Turn == pc = "options" /\ IsAtOption(Opt)

\* A rejected spelling requests nothing, and the rest of its element is skipped.
ReadFlag(f) ==
  /\ Turn /\ Name \in Spelling[f]
  /\ IF Attached
       THEN copt' = Leave(Opt) /\ error' = FirstError("attached") /\ UNCHANGED flags
       ELSE copt' = Opt /\ flags' = flags \cup {f} /\ UNCHANGED error
  /\ UNCHANGED <<args, width, paths, isStdin, action, exit, pc>>

\* cli_parse_width_option, with the argument's text.
TakeWidth(text) ==
  LET size == ParseSize(text)
      fault == CASE ~size.ok \/ size.value = 0 -> "invalid"
                 [] size.ok /\ size.value > ColumnMax -> "too_wide"
                 [] OTHER -> "none"
  IN  IF fault = "none" THEN width' = size.value /\ UNCHANGED error
      ELSE error' = FirstError(fault) /\ UNCHANGED width

ReadWidth ==
  /\ Turn /\ Name \in WidthSpelling
  /\ \/ /\ HasInline
        /\ copt' = Leave(Opt) /\ TakeWidth(Inline)
     \/ /\ ~HasInline /\ HasNext
        /\ copt' = [Leave(ArgBroughtBack(Opt)) EXCEPT !.idx = @ + 1]
        /\ TakeWidth(Arg(copt', copt'.idx))
     \/ /\ ~HasInline /\ ~HasNext
        /\ copt' = Leave(IF Opt.argidx > Argc(Opt) THEN Opt ELSE ArgBroughtBack(Opt))
        /\ error' = FirstError("missing") /\ UNCHANGED width
  /\ UNCHANGED <<args, flags, paths, isStdin, action, exit, pc>>

ReadUnknown ==
  /\ Turn /\ Name \notin Known
  /\ error' = FirstError("unknown")
  /\ copt' = IF Attached THEN Leave(Opt) ELSE Opt
  /\ UNCHANGED <<args, flags, width, paths, isStdin, action, exit, pc>>

\* The first operand ends the loop, and so does "--", which is no operand.
EndOptions ==
  /\ pc = "options" /\ ~IsAtOption(Opt)
  /\ copt' = IF Opt.idx <= Argc(Opt) /\ Element = DashDash THEN [Opt EXCEPT !.idx = @ + 1]
             ELSE Opt
  /\ pc' = "paths"
  /\ UNCHANGED <<args, flags, width, error, paths, isStdin, action, exit>>

\* cli_parse_paths.
TakePaths ==
  /\ pc = "paths" /\ pc' = "resolve"
  /\ LET rest == SubSeq(copt.argv, copt.idx, Argc(copt))
         dashes == Cardinality({k \in 1..Len(rest) : args[rest[k]] = Dash})
         isDash == Len(rest) = 1 /\ dashes = 1
     IN  /\ isStdin' = (rest = <<>> \/ isDash)
         /\ paths' = IF isDash THEN <<>> ELSE rest
         /\ error' = IF dashes > 1 THEN FirstError("stdin_twice")
                     ELSE IF dashes = 1 /\ ~isDash THEN FirstError("stdin_and_files")
                     ELSE error
  /\ UNCHANGED <<args, copt, flags, width, action, exit>>

Conflict_ChecksOnly == IF {"check", "in_place"} \subseteq flags THEN "modes" ELSE "none"
\* The conflicts that count once no informational flag and no error does.
Conflict ==
  IF {"check", "in_place"} \subseteq flags THEN "modes"
  ELSE IF isStdin /\ "in_place" \in flags THEN "stdin_in_place" ELSE "none"

\* The precedence: the version, the help, the first error, a conflict.
Resolve ==
  /\ pc = "resolve" /\ pc' = "dispatch"
  /\ IF flags \cap {"version", "help"} # {}
       THEN /\ action' = IF "version" \in flags THEN "version" ELSE "help"
            /\ error' = "none"
       ELSE /\ error' = FirstError(Conflict)
            /\ action' = IF error' = "none" THEN "run" ELSE "error"
  /\ UNCHANGED <<args, copt, flags, width, paths, isStdin, exit>>

\* cli_dispatch: the wrap command, or a print that may fail.
Dispatch ==
  /\ pc = "dispatch"
  /\ \/ action = "run" /\ pc' = "wrap" /\ UNCHANGED exit
     \/ action \in {"version", "help"} /\ pc' = "end" /\ exit' \in {"ok", "failure"}
     \/ action = "error" /\ pc' = "end" /\ exit' = "usage"
  /\ UNCHANGED <<args, copt, flags, width, error, paths, isStdin, action>>

Next ==
  \/ \E f \in DOMAIN Spelling : ReadFlag(f)
  \/ ReadWidth \/ ReadUnknown \/ EndOptions \/ TakePaths \/ Resolve \/ Dispatch

Spec == Init /\ [][Next]_vars

-----------------------------------------------------------------------------
(* Properties *)

\* What copt asserts at each call: the index stays within argv, and the position in a
\* group of letters within an element that is such a group.
CoptAssertsHold ==
  /\ copt.idx <= Argc(copt) + 1
  /\ copt.subidx > 0 =>
       /\ 1 <= copt.idx /\ copt.idx <= Argc(copt)
       /\ IsOption(Arg(copt, copt.idx)) /\ copt.subidx + 1 <= Len(Arg(copt, copt.idx))

\* The rotations lose and double no element, and what is behind the element being read
\* is always in the order of the command line, however options and operands mix: the
\* files are wrapped in the order they were given.
PathsInOrder ==
  /\ Argc(copt) = Len(args)
  /\ \A k \in 1..Argc(copt) : copt.argv[k] \in 1..Len(args)
  /\ \A j, k \in 1..Argc(copt) : copt.argv[j] = copt.argv[k] => j = k
  /\ \A j, k \in 1..Argc(copt) :
       copt.idx < j /\ j < k => copt.argv[j] < copt.argv[k]

\* Every turn of the loop reads a later element than the turn before, or a later letter
\* of the group that one was in, whatever was skipped or brought back: the loop cannot
\* turn for ever.
ReadingAdvances ==
  pc = "options" =>
    \/ Opt.idx > copt.idx
    \/ Opt.idx = copt.idx /\ copt.subidx > 0 /\ Opt.subidx > copt.subidx

\* What runs is a command the wrap command takes, as CmdWrap starts: paths, none of them
\* standard input, or standard input alone and not in place; one mode; and a width that
\* rewrite_source accepts.
RunsWhatWrapTakes ==
  pc = "wrap" =>
    /\ ~{"check", "in_place"} \subseteq flags
    /\ IF isStdin THEN paths = <<>> /\ "in_place" \notin flags
       ELSE paths # <<>> /\ \A k \in 1..Len(paths) : args[paths[k]] # Dash
    /\ width \in 1..ColumnMax
=============================================================================
