-------------------------- MODULE MCMi2Interpreter --------------------------
(* Instances of Mi2Interpreter for TLC. *)
EXTENDS Mi2Interpreter

FreeOps == {"header", "wait", "set", "resume", "query"}

\* A line with "(gdb)" in it, which breaks the order of the batches, is for the
\* run whose property does not rest on it.
Inner == {"inner"}

\* A stream or an async record is skipped as a text is; the banner and "*running"
\* bring one of each.
RunNoise == {"text", "tokenAsync"}
=============================================================================
