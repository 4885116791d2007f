---------------------------- MODULE MCJobManager -----------------------------
(* One job of each route, two records of history, and one other operation.  *)
EXTENDS JobManager

CONSTANTS bounded, explained, plain, other

MCJobs == {bounded, explained, plain}

MCOwner == MCJobs \cup {other}

MCRoute ==
  [j \in MCJobs |-> CASE j = bounded -> "bounded"
                      [] j = explained -> "explained"
                      [] OTHER -> "plain"]

MCFunded == [j \in MCJobs |-> IF j = bounded THEN 2 ELSE 0]
=============================================================================
