--------------------------- MODULE MCTargetFrame ---------------------------
\* An identifier of two functions, one that is not found, and one of a single
\* function; the memory has a gap at 4.
EXTENDS TargetFrame, TLC

CONSTANTS f, missing, g

MCBreakPoints == <<f, missing, g>>
MCLocations == (f :> <<16, 20>>) @@ (missing :> <<>>) @@ (g :> <<24>>)
MCParams == (16 :> <<"n", "s">>) @@ (20 :> <<>>) @@ (24 :> <<"s", "r">>)
MCCells == {0, 1, 2, 3, 5}
MCStrings == {<<1>>, <<1, 2, 1>>}
=============================================================================
