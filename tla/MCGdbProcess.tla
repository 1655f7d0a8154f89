---------------------------- MODULE MCGdbProcess ----------------------------
(* Instances of GdbProcess for TLC. *)
EXTENDS GdbProcess, TLC

CONSTANTS b1, b2, here, there

TwoPlaces == b1 :> here @@ b2 :> there
OnePlace  == b1 :> here @@ b2 :> here

Setting(options, breaks, scripts) ==
    [options |-> options, breaks |-> breaks, scripts |-> scripts]
AllOptions == {"file_exec_and_symbols", "exec_arguments", "target_select_remote"}

AllSettings ==
    {Setting({}, <<b1, b2>>, <<>>),
     Setting(AllOptions, <<b1, b2>>, <<>>),
     Setting({"target_select_remote"}, <<b1>>, <<"script", "scriptRun">>),
     Setting({}, <<b1, b2>>, <<"scriptBreak", "scriptRun">>),
     Setting({}, <<b2>>, <<"script">>)}
Plain == {Setting({}, <<b1, b2>>, <<>>)}
=============================================================================
