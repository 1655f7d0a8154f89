\* Callers that swallow every error and call anything at any time, and lines that
\* hold "(gdb)" inside.
CONSTANTS
    MaxCalls = 3
    TokenMod = 4
    Ops <- FreeOps
    Noise <- Inner
    Disciplined = FALSE
SPECIFICATION Spec
INVARIANTS OwnReply
CHECK_DEADLOCK FALSE
