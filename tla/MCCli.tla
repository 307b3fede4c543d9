------------------------------- MODULE MCCli -------------------------------
(***************************************************************************)
(* Cli over many short command lines.                                      *)
(***************************************************************************)
EXTENDS CliReading

\* Numbers of four bits, so that 11 is too wide, 13 saturates and 16 overflows.
MCDigits == {"0", "1", "3", "5", "6"}
MCDigit == [c \in MCDigits |-> CASE c = "0" -> 0 [] c = "1" -> 1 [] c = "3" -> 3
                                 [] c = "5" -> 5 [] c = "6" -> 6]

Names == {"V", "version", "h", "help", "w", "width", "i", "in-place", "c", "check", "x"}
MCChar == MCDigits \cup Names \cup {"-", "=", "f", "g"}

Short(s) == <<"-">> \o s
Long(s) == DashDash \o s

Operands == {<<"f">>, <<"5">>, Dash}
Groups ==
  {Short(s) : s \in {<<"V">>, <<"h">>, <<"w">>, <<"i">>, <<"c">>, <<"x">>, <<"c", "w">>,
     <<"i", "c">>, <<"w", "c">>, <<"x", "V">>, <<"c", "=", "f">>, <<"c", "V", "=", "f">>, <<"V", "c", "=", "f">>,
     <<"c", "V", "c", "=", "f">>,
     <<"c", "w", "=", "5">>, <<"x", "=", "V">>, <<"=", "V">>, <<"w", "=">>,
     <<"=", "w", "=", "5">>}}
Widths == {Short(<<"w">> \o s) : s \in {<<"0">>, <<"1", "0">>, <<"1", "1">>, <<"1", "3">>,
             <<"1", "6">>, <<"0", "1", "0">>, <<"1", "0", "0">>, <<"1", "f">>}}
Longs == {Long(s) : s \in {<<>>, <<"version">>, <<"help", "=", "f">>, <<"width">>,
            <<"width", "=", "5">>, <<"in-place">>, <<"check">>, <<"check", "=", "0">>, <<"x">>}}

CONSTANTS MaxAll, MaxFew   \* Bounds: elements on a command line

MCCommandLine ==
  SeqOf(Operands \cup Groups \cup Widths \cup Longs, MaxAll)
  \cup SeqOf({<<"f">>, <<"g">>, Short(<<"w">>), Short(<<"c">>), <<"5">>, DashDash}, MaxFew)
=============================================================================
