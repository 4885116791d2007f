----------------------------- MODULE MCRunDriver ----------------------------
(* Two days of two ticks; a quiet first tick, a two-event second, a quiet   *)
(* third, and a last tick that reflects the day and completes the run.      *)
EXTENDS RunDriver, TLC

MCUpto == (0 :> 1) @@ (1 :> 1) @@ (2 :> 3) @@ (3 :> 3) @@ (4 :> 5)

Tick(t) == [type |-> "tick", minute |-> t]

MCStream == << [type |-> "run.started", minute |-> 0],
               Tick(1), Tick(1), Tick(3),
               [type |-> "run.completed", minute |-> 3] >>

MCEvent == {MCStream[i] : i \in 1..5} \cup {Failed(t) : t \in 0..Duration}

MCTorn == [type |-> "torn", minute |-> 0]

(* Drivers are interchangeable; used by the runs that check only invariants. *)
DriverSymmetry == Permutations(Drivers)
=============================================================================
