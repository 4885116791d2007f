------------------------------ MODULE Workbench ------------------------------
(***************************************************************************)
(* The workbench server: the job manager and the provider service on one   *)
(* arbiter.  Submitting a job runs its provider preflight under the shared *)
(* lock: a bounded job needs a successful check of its exact revision, and *)
(* every provider job takes its own copy of the key the revision resolves  *)
(* to.  Shutdown closes the manager, then forgets the session keys.        *)
(***************************************************************************)
EXTENDS JobManager, ProviderControl

CONSTANT RevisionOf    \* the provider revision each keyed job names

ASSUME WorkbenchAssumption ==
  /\ Others = Checks \cup Writes
  /\ RevisionOf \in [Keyed -> Revisions]
  /\ "bounded" \in Scopes

VARIABLE jobKey        \* history: the key each job's operation took

workbenchVars == <<jobVars, providerVars, jobKey>>

WorkbenchInit ==
  /\ JobInit
  /\ ProviderInit
  /\ jobKey = [j \in Keyed |-> NoKey]

(* A slip: a bounded job needs a key and no check. *)
PreflightPasses_Unchecked(j) ==
  j \in Keyed => RevisionOf[j] \in known /\ Resolve(RevisionOf[j]) # NoKey

(* preflight_cognition and preflight_cognition_v2 *)
PreflightPasses(j) ==
  j \in Keyed =>
    /\ RevisionOf[j] \in known
    /\ Route[j] = "bounded" => records[RevisionOf[j]]["bounded"].status = "compatible"
    /\ Resolve(RevisionOf[j]) # NoKey

SubmitPreflighted(j) ==
  /\ PreflightPasses(j)
  /\ Submit(j)
  /\ jobKey' = IF j \in Keyed THEN [jobKey EXCEPT ![j] = Resolve(RevisionOf[j])] ELSE jobKey
  /\ UNCHANGED providerVars

JobSteps ==
  /\ \/ \E j \in Jobs :
          \/ PreflightPasses(j) /\ SubmitFails(j)
          \/ SubmitRefused(j) \/ Cancel(j) \/ Signal(j)
     \/ Worker \/ Progress \/ CloseBegins \/ Closer
  /\ UNCHANGED <<providerVars, jobKey>>

OperatorSteps ==
  /\ ProviderSteps
  /\ UNCHANGED <<book, executor, control, published, jobKey>>

Forget ==
  /\ closer = "closed"
  /\ ForgetSession
  /\ UNCHANGED <<book, executor, control, published, jobKey>>

(* The arbiter's clock. *)
Passes ==
  /\ Tick
  /\ UNCHANGED <<book, executor, control, published, jobKey, providerVars>>

WorkbenchNext ==
  \/ \E j \in Jobs : SubmitPreflighted(j)
  \/ JobSteps
  \/ OperatorSteps
  \/ Forget
  \/ Passes

OperatorProgress ==
  /\ \/ \E c \in Checks : CheckStep(c)
     \/ \E w \in Writes : WriteStep(w)
  /\ UNCHANGED <<book, executor, control, published, jobKey>>

(* The fairness of the two parts. *)
WorkbenchSpec ==
  /\ WorkbenchInit
  /\ [][WorkbenchNext]_workbenchVars
  /\ WF_workbenchVars(Worker /\ UNCHANGED <<providerVars, jobKey>>)
  /\ WF_workbenchVars(OperatorProgress)

-----------------------------------------------------------------------------
(* From admission to outcome a provider job runs on the key its revision   *)
(* resolves to, and a bounded one on the very key its check vouched for:   *)
(* no credential write, later check or new revision comes between them.    *)
JobRunsOnCheckedKey ==
  \A j \in Active \cap Keyed :
    LET r == RevisionOf[j]
    IN  /\ jobKey[j] = Resolve(r)
        /\ Route[j] = "bounded" =>
             records[r]["bounded"] = [status |-> "compatible", key |-> jobKey[j]]

(* Whatever holds the arbiter gives it back, so no operation can lock the  *)
(* others out for ever.                                                    *)
ArbiterComesBack == (active # NoLease) ~> (active = NoLease)
=============================================================================
