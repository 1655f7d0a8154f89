---------------------------- MODULE MCMi2Commands ----------------------------
(* Instances of Mi2Commands for TLC. *)
EXTENDS Mi2Commands

Every == {f.name : f \in Functions}

\* Functions whose line may lack a newline or a blank.
Misworded == {"var_set_format", "var_set_frozen", "trace_frame_collected"}

\* Functions that wait for a class gdb does not answer with, or whose command it
\* answers with results the function does not take.
Misawaited == {"exec_interrupt", "enable_frame_filters", "var_delete",
               "var_set_format", "trace_stop", "trace_find(none)"}

Sound == Every \ (Misworded \union Misawaited)
=============================================================================
