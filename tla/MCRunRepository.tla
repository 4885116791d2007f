--------------------------- MODULE MCRunRepository ---------------------------
(* One id that a version 10 save and an earlier one both want while its     *)
(* story is asked for; then one save at a time and two requests whose       *)
(* caches meet.                                                             *)
EXTENDS RunRepository, TLC

CONSTANTS a, s1, s2, q1, q2

MCRunOf == s1 :> a @@ s2 :> a

Scenario(k1, k2, saves) == [kind |-> q1 :> k1 @@ q2 :> k2, saves |-> saves]

MCScenarios ==
  {Scenario("story", "none", {s1, s2}),
   Scenario("verify", "list", {s1}),
   Scenario("story", "story", {s1})}
=============================================================================
