------------------------------ MODULE JobLedger ------------------------------
(***************************************************************************)
(* What the workbench promises whoever submits jobs.  One job at a time is *)
(* unfinished.  A cancellation is accepted only before the run is public,  *)
(* and once accepted it is the answer: the job ends cancelled and its run  *)
(* is never published.  A job that ends completed is public; an outcome    *)
(* never changes; and only the latest MaxTerminal outcomes are kept.       *)
(***************************************************************************)
EXTENDS Naturals, FiniteSets

CONSTANTS Jobs, MaxTerminal

VARIABLES standing,   \* where each job stands, as a client sees it
          public      \* jobs whose run the store holds

ledger == <<standing, public>>

Outcomes == {"completed", "failed", "cancelled"}

With(s) == {j \in Jobs : standing[j] \in s}

Init ==
  /\ standing = [j \in Jobs |-> "new"]
  /\ public = {}

Becomes(j, s) ==
  /\ standing' = [standing EXCEPT ![j] = s]
  /\ UNCHANGED public

Accept(j) ==
  /\ standing[j] = "new"
  /\ With({"pending", "cancelling"}) = {}
  /\ Becomes(j, "pending")

Refuse(j) == standing[j] = "new" /\ Becomes(j, "gone")

Ask(j) == standing[j] = "pending" /\ j \notin public /\ Becomes(j, "cancelling")

Publish(j) ==
  /\ standing[j] = "pending"
  /\ public' = public \cup {j}
  /\ UNCHANGED standing

(* The outcome, and the older outcomes it pushes out of the history. *)
Settle(j) ==
  \E o \in Outcomes, old \in SUBSET With(Outcomes) :
    /\ standing[j] = "pending" => o # "cancelled"
    /\ standing[j] = "cancelling" => o = "cancelled"
    /\ standing[j] \in {"pending", "cancelling"}
    /\ Cardinality(With(Outcomes) \ old) < MaxTerminal
    /\ standing' = [i \in Jobs |-> IF i \in old THEN "gone"
                                   ELSE IF i = j THEN o ELSE standing[i]]
    /\ o = "completed" => j \in public
    /\ \/ UNCHANGED public
       \/ o = "failed" /\ public' = public \cup {j}

Next ==
  \E j \in Jobs : Accept(j) \/ Refuse(j) \/ Ask(j) \/ Publish(j) \/ Settle(j)

Spec == Init /\ [][Next]_ledger

(* Every unfinished job is settled. *)
FairSpec ==
  Spec /\ \A j \in Jobs : WF_ledger(Settle(j))
=============================================================================
