----------------------------- MODULE MCLiveRun -------------------------------
(* Two ticks with requests: three of two agents at once, then one more of  *)
(* an agent whose budget is nearly gone.                                   *)
EXTENDS LiveRun

MCTickOf == <<1, 1, 1, 2, 2>>
MCAgentOf == <<"a", "a", "b", "a", "c">>

(* A run whose ticks ask nothing, for the keys alone. *)
MCNoRequests == <<>>
=============================================================================
