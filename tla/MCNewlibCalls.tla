---------------------------- MODULE MCNewlibCalls ----------------------------
(* Instances of NewlibCalls for TLC: a console and a file, of which the      *)
(* program writes different letters to each.                                 *)
EXTENDS NewlibCalls

NL == "\n"
Both == {"one", "two"}
Text == [f \in Both |-> IF f = "one" THEN {<<"a">>, <<NL>>, <<"a", "A">>}
                                     ELSE {<<"b">>, <<>>}]
Data == [f \in Both |-> IF f = "one" THEN {<<>>, <<"a", "A", "a">>} ELSE {<<"b", "b", "b">>}]
AllHabits == {"lone", "mixed", "seek", "short", "error", "leave", "macros"}
NoneOrAll == {{}, AllHabits}
\* Flags the target has where the host has others, and one that only the host has,
\* at a bit the target uses.
OnHost == [n \in {"O_RDWR", "O_CREAT", "O_EXCL", "O_NDELAY"} |->
            CASE n = "O_RDWR" -> {1} [] n = "O_CREAT" -> {6} [] n = "O_EXCL" -> {7}
              [] n = "O_NDELAY" -> {11}]
OnTarget == [n \in {"O_RDWR", "O_CREAT", "O_EXCL"} |->
            CASE n = "O_RDWR" -> {1} [] n = "O_CREAT" -> {7} [] n = "O_EXCL" -> {11}]
Opened == [f \in Both |-> IF f = "one" THEN {"O_RDWR", "O_EXCL"} ELSE {"O_CREAT"}]
LoneByte == {{"lone"}}
=============================================================================
