----------------------------- MODULE JobManager ------------------------------
(***************************************************************************)
(* CityJobManager: one worker thread evaluates, publishes and verifies one *)
(* workbench run at a time, while request threads submit and cancel and    *)
(* the shutdown hook closes.  Every block the code runs under the shared   *)
(* lock is one action; the repository call between two such blocks is the  *)
(* time the worker spends `calling`, and any other action may come first.  *)
(*                                                                         *)
(* A job id is random and never reused, so each element of Jobs is         *)
(* submitted at most once; `issued` holds those already drawn.             *)
(***************************************************************************)
EXTENDS OperationArbiter, FiniteSets

CONSTANTS Jobs,         \* job ids
          NoJob,        \* no job
          Others,       \* the other operations that may hold the lease
          Route,        \* Route[j]: the schema's path, "plain", "explained" or "bounded"
          Keyed,        \* jobs whose operation holds a provider credential
          Funded,       \* Funded[j]: provider requests planning froze
          MaxTerminal   \* terminal records kept

ASSUME JobAssumption ==
  /\ Jobs \subseteq Owner
  /\ Others \subseteq Owner \ Jobs
  /\ NoJob \notin Jobs
  /\ Route \in [Jobs -> {"plain", "explained", "bounded"}]
  /\ Keyed \subseteq {j \in Jobs : Route[j] # "plain"}
  /\ Funded \in [Jobs -> Nat]
  /\ \A j \in Jobs : j \notin Keyed => Funded[j] = 0
  /\ MaxTerminal \in Nat \ {0}

VARIABLES phase,         \* records[j].phase, "none" while j has no record
          requested,     \* jobs whose record carries a cancellation request
          planned,       \* jobs whose record has a progress counter
          counted,       \* the resolved requests each counter shows
          terminals,     \* the deque of terminal ids
          activeJob,     \* _active_job_id
          leases,        \* keys of _operation_leases
          operations,    \* keys of _cognition_operations
          cancellations, \* keys of _cancellations
          secrets,       \* jobs whose resolved credential is not cleared
          signals,       \* tokens cancel() took and has yet to trip
          jobsClosed,    \* the manager's own closed flag
          closer,        \* where close() stands
          closeToken,    \* the token close() took and has yet to trip
          threaded,      \* the executor has started its worker thread
          queue,         \* work items the executor holds
          work,          \* the job the worker runs
          at,            \* where the worker stands
          published      \* jobs whose run the store holds

book == <<phase, requested, planned, counted, terminals, activeJob, leases, operations,
          cancellations, secrets>>
executor == <<threaded, queue, work, at>>
control == <<signals, jobsClosed, closer, closeToken>>
jobVars == <<arbiter, book, executor, control, published>>

Path ==
  [plain     |-> <<"queued", "evaluating", "persisting", "verifying", "completed">>,
   explained |-> <<"queued", "simulating", "selecting-explanations",
                   "requesting-explanations", "persisting", "verifying", "completed">>,
   bounded   |-> <<"queued", "planning-cognition", "requesting-cognition",
                   "applying-cognition", "persisting", "verifying", "completed">>]

Requesting == {"requesting-explanations", "requesting-cognition"}

(* A slip: a run may be cancelled while it is being published. *)
Cancellable_Persisting ==
  {"queued", "evaluating", "simulating", "selecting-explanations", "planning-cognition",
   "applying-cognition", "persisting"} \cup Requesting

Cancellable ==
  {"queued", "evaluating", "simulating", "selecting-explanations", "planning-cognition",
   "applying-cognition"} \cup Requesting

Terminal == {"completed", "failed", "cancelled"}

JobPhases == Cancellable \cup Terminal \cup {"persisting", "verifying"}

(* The phase after p on the route of j. *)
After(j, p) ==
  LET path == Path[Route[j]]
  IN  path[1 + CHOOSE i \in 1..(Len(path) - 1) : path[i] = p]

JobInit ==
  /\ ArbiterInit
  /\ phase = [j \in Jobs |-> "none"]
  /\ requested = {}
  /\ planned = {}
  /\ counted = [j \in Jobs |-> 0]
  /\ terminals = <<>>
  /\ activeJob = NoJob
  /\ leases = {}
  /\ operations = {}
  /\ cancellations = {}
  /\ secrets = {}
  /\ signals = {}
  /\ jobsClosed = FALSE
  /\ closer = "open"
  /\ closeToken = NoJob
  /\ threaded = FALSE
  /\ queue = <<>>
  /\ work = NoJob
  /\ at = "idle"
  /\ published = {}

-----------------------------------------------------------------------------
(* submit: one locked section from the admission checks to the executor.   *)

SubmitAdmitted(j) ==
  /\ ~ jobsClosed
  /\ activeJob = NoJob
  /\ BeginAdmitted(j)

(* The record, its lease and its private material enter the books. *)
Register(j) ==
  /\ phase' = [phase EXCEPT ![j] = "queued"]
  /\ leases' = leases \cup {j}
  /\ activeJob' = j
  /\ IF Route[j] = "plain"
     THEN UNCHANGED <<operations, cancellations>>
     ELSE /\ operations' = operations \cup {j}
          /\ cancellations' = cancellations \cup {j}
  /\ secrets' = secrets \cup ({j} \cap Keyed)
  /\ UNCHANGED <<requested, planned, counted, terminals>>

Submit(j) ==
  /\ SubmitAdmitted(j)
  /\ BeginPlain("job", j)
  /\ Register(j)
  /\ queue' = Append(queue, j)
  /\ threaded' = TRUE
  /\ UNCHANGED <<control, work, at, published>>

(* A slip: the rolled back submission keeps its lease. *)
RolledBack_KeepsLease(j) ==
  /\ issued' = issued \cup {j}
  /\ active' = Lease("job", j)
  /\ UNCHANGED <<opsClosed, tripped, rate, book>>

(* Everything the refused submission registered is taken out again, under  *)
(* the same lock: only the id has been drawn.                              *)
RolledBack(j) ==
  /\ issued' = issued \cup {j}
  /\ UNCHANGED <<active, opsClosed, tripped, rate, book>>

(* The executor queues the item and then cannot start its thread: submit   *)
(* raises, the rollback runs, and the item stays in the queue.             *)
SubmitFails(j) ==
  /\ SubmitAdmitted(j)
  /\ ~ threaded
  /\ RolledBack(j)
  /\ queue' = Append(queue, j)
  /\ UNCHANGED <<control, threaded, work, at, published>>

(* Preflight, destination, id allocation or executor refuse outright. *)
SubmitRefused(j) ==
  /\ SubmitAdmitted(j)
  /\ RolledBack(j)
  /\ UNCHANGED <<control, executor, published>>

-----------------------------------------------------------------------------
(* Slips: a history that is never cut; a credential its job outlives. *)
Excess_None(history) == 0
Cleared_Never(j) == secrets

(* How many of the oldest records leave the history. *)
Excess(history) ==
  IF Len(history) > MaxTerminal THEN Len(history) - MaxTerminal ELSE 0

(* operation.clear(), for the operation still in the map. *)
Cleared(j) == secrets \ (operations \cap {j})

(* _terminal_locked: the outcome, the books, the lease, and the bounded    *)
(* history, whose oldest records are dropped altogether.                   *)
Conclude(j, outcome) ==
  LET history == Append(terminals, j)
      expired == {history[i] : i \in 1..Excess(history)}
  IN  /\ phase' = [i \in Jobs |-> IF i \in expired THEN "none"
                                  ELSE IF i = j THEN outcome ELSE phase[i]]
      /\ terminals' = SubSeq(history, Excess(history) + 1, Len(history))
      /\ requested' = requested \ expired
      /\ planned' = planned \ expired
      /\ counted' = [i \in Jobs |-> IF i \in expired THEN 0 ELSE counted[i]]
      /\ activeJob' = IF activeJob = j THEN NoJob ELSE activeJob
      /\ operations' = operations \ {j}
      /\ secrets' = Cleared(j)
      /\ cancellations' = cancellations \ {j}
      /\ leases' = leases \ {j}
      /\ active' = IF j \in leases THEN Released(j) ELSE active

Ends(j, outcome) ==
  /\ Conclude(j, outcome)
  /\ work' = NoJob
  /\ at' = "idle"
  /\ UNCHANGED <<opsClosed, issued, tripped, rate, control, threaded, queue, published>>

Take ==
  /\ threaded
  /\ at = "idle"
  /\ queue # <<>>
  /\ work' = Head(queue)
  /\ queue' = Tail(queue)
  /\ at' = "returned"
  /\ UNCHANGED <<arbiter, book, control, threaded, published>>

(* A slip: the item without a record is queued again. *)
TakeGhost_Requeues ==
  /\ at = "returned"
  /\ work # NoJob
  /\ phase[work] = "none"
  /\ queue' = Append(queue, work)
  /\ work' = NoJob
  /\ at' = "idle"
  /\ UNCHANGED <<arbiter, book, control, threaded, published>>

(* The item of a rolled back submission finds no record: the KeyError ends *)
(* the worker's item and touches nothing.                                  *)
TakeGhost ==
  /\ at = "returned"
  /\ work # NoJob
  /\ phase[work] = "none"
  /\ work' = NoJob
  /\ at' = "idle"
  /\ UNCHANGED <<arbiter, book, control, threaded, queue, published>>

(* The locked section after a call: a requested cancellation wins over the *)
(* next phase up to and including the move to publication.                 *)
CancelWins ==
  /\ at = "returned"
  /\ work # NoJob
  /\ phase[work] \in Cancellable
  /\ work \in requested
  /\ Ends(work, "cancelled")

(* Up to publication the section moves on only if nothing was requested;   *)
(* from publication on it does not look.                                   *)
Advance ==
  /\ at = "returned"
  /\ work # NoJob
  /\ phase[work] \notin {"none", "verifying"}
  /\ phase[work] \in Cancellable => work \notin requested
  /\ phase' = [phase EXCEPT ![work] = After(work, phase[work])]
  /\ planned' = planned \cup (IF phase[work] = "planning-cognition" THEN {work} ELSE {})
  /\ at' = "calling"
  /\ UNCHANGED <<arbiter, requested, counted, terminals, activeJob, leases, operations,
                 cancellations, secrets, control, threaded, queue, work, published>>

Complete ==
  /\ at = "returned"
  /\ work # NoJob
  /\ phase[work] = "verifying"
  /\ Ends(work, "completed")

CountsOn(j) == counted[j] < Funded[j]

(* One more funded request has its terminal outcome. *)
Progress ==
  /\ at = "calling"
  /\ phase[work] = "requesting-cognition"
  /\ CountsOn(work)
  /\ counted' = [counted EXCEPT ![work] = @ + 1]
  /\ UNCHANGED <<arbiter, phase, requested, planned, terminals, activeJob, leases,
                 operations, cancellations, secrets, executor, control, published>>

(* A repository call returns.  A cognition call returns only if its token  *)
(* was not tripped when it last looked; the credential is cleared as it    *)
(* returns, an explained job also leaves both maps, and a bounded one      *)
(* makes its count final.                                                  *)
CallReturns ==
  /\ at = "calling"
  /\ at' = "returned"
  /\ IF phase[work] \in Requesting
     THEN /\ work \notin tripped
          /\ secrets' = secrets \ {work}
     ELSE UNCHANGED secrets
  /\ IF phase[work] = "requesting-explanations"
     THEN /\ operations' = operations \ {work}
          /\ cancellations' = cancellations \ {work}
     ELSE UNCHANGED <<operations, cancellations>>
  /\ counted' = [counted EXCEPT ![work] =
                   IF phase[work] = "requesting-cognition" THEN Funded[work] ELSE @]
  /\ published' = published \cup (IF phase[work] = "persisting" THEN {work} ELSE {})
  /\ UNCHANGED <<arbiter, phase, requested, planned, terminals, activeJob, leases, control,
                 threaded, queue, work>>

(* A slip: a fault is a failure whatever was requested. *)
Verdict_IgnoresRequest(j) == "failed"

(* A fault after an accepted cancellation is still a cancellation. *)
Verdict(j) ==
  IF phase[j] \in Cancellable /\ j \in requested THEN "cancelled" ELSE "failed"

(* The call raises: an Exception, the CancelledError of a tripped token or *)
(* a hard interruption all come to one verdict.  A publication that raised *)
(* may have published.                                                     *)
CallRaises ==
  /\ at = "calling"
  /\ Conclude(work, Verdict(work))
  /\ work' = NoJob
  /\ at' = "idle"
  /\ \/ UNCHANGED published
     \/ /\ phase[work] = "persisting"
        /\ published' = published \cup {work}
  /\ UNCHANGED <<opsClosed, issued, tripped, rate, control, threaded, queue>>

-----------------------------------------------------------------------------
(* cancel: the flag under the lock; the token, if the job has one, after   *)
(* the lock is released.                                                   *)
Cancel(j) ==
  /\ phase[j] \in Cancellable
  /\ requested' = requested \cup {j}
  /\ signals' = signals \cup (cancellations \cap {j})
  /\ UNCHANGED <<arbiter, phase, planned, counted, terminals, activeJob, leases, operations,
                 cancellations, secrets, executor, jobsClosed, closer, closeToken, published>>

Signal(j) ==
  /\ j \in signals
  /\ signals' = signals \ {j}
  /\ tripped' = tripped \cup {j}
  /\ UNCHANGED <<active, opsClosed, issued, rate, book, executor, jobsClosed, closer,
                 closeToken, published>>

(* close: the shared arbiter first, *)
CloseBegins ==
  /\ closer = "open"
  /\ closer' = "flagging"
  /\ CloseOperations
  /\ UNCHANGED <<book, executor, signals, jobsClosed, closeToken, published>>

(* then, in a second locked section, the manager: an active job that still *)
(* has a token is cancelled if its phase allows, and its token is taken    *)
(* whatever its phase,                                                     *)
CloseFlags ==
  /\ closer = "flagging"
  /\ closer' = "signalling"
  /\ jobsClosed' = TRUE
  /\ LET held == cancellations \cap {activeJob}
     IN  /\ requested' = requested \cup {j \in held : phase[j] \in Cancellable}
         /\ closeToken' = IF held = {} THEN NoJob ELSE activeJob
  /\ UNCHANGED <<arbiter, phase, planned, counted, terminals, activeJob, leases, operations,
                 cancellations, secrets, executor, signals, published>>

(* then the token is tripped, *)
CloseSignals ==
  /\ closer = "signalling"
  /\ closer' = "draining"
  /\ tripped' = tripped \cup ({closeToken} \ {NoJob})
  /\ closeToken' = NoJob
  /\ UNCHANGED <<active, opsClosed, issued, rate, book, executor, signals, jobsClosed,
                 published>>

(* A slip: close returns without joining the worker. *)
CloseReturns_NoWait ==
  /\ closer = "draining"
  /\ closer' = "closed"
  /\ UNCHANGED <<arbiter, book, executor, signals, jobsClosed, closeToken, published>>

(* and the executor is drained; with no thread there is none to join. *)
CloseReturns ==
  /\ closer = "draining"
  /\ threaded => at = "idle" /\ queue = <<>>
  /\ closer' = "closed"
  /\ UNCHANGED <<arbiter, book, executor, signals, jobsClosed, closeToken, published>>

Worker ==
  Take \/ TakeGhost \/ CancelWins \/ Advance \/ Complete \/ CallReturns \/ CallRaises

Closer == CloseFlags \/ CloseSignals \/ CloseReturns

(* Another operation of the workbench takes and releases the arbiter. *)
OthersStep ==
  \E o \in Others :
    /\ BeginPlain("credential", o) \/ Finish(o)
    /\ UNCHANGED <<book, executor, control, published>>

JobNext ==
  \/ \E j \in Jobs :
       Submit(j) \/ SubmitFails(j) \/ SubmitRefused(j) \/ Cancel(j) \/ Signal(j)
  \/ Worker \/ Progress
  \/ CloseBegins \/ Closer
  \/ OthersStep

(* The worker thread and a running close are scheduled, a thread that took *)
(* a token trips it, and every repository call ends: evaluation is bounded *)
(* and cognition has an aggregate deadline.                                *)
JobFairness ==
  /\ WF_jobVars(Worker)
  /\ WF_jobVars(Closer)
  /\ \A j \in Jobs : WF_jobVars(Signal(j))

JobSpec == JobInit /\ [][JobNext]_jobVars

FairJobSpec == JobSpec /\ JobFairness

-----------------------------------------------------------------------------
Active == {j \in Jobs : phase[j] \in JobPhases \ Terminal}

Concluded == {j \in Jobs : phase[j] \in Terminal}

(* The unfinished record, the active id, the lease map and the shared      *)
(* arbiter always name the same job: no failed submission, cancellation or *)
(* worker fault leaves the arbiter held by nobody or a job without it.     *)
LeaseFollowsJob ==
  /\ Active = {activeJob} \ {NoJob}
  /\ leases = Active
  /\ (active.kind = "job") <=> (Active # {})
  /\ Active # {} => active.owner = activeJob

(* Every record can be shown: _view builds a validated model, and a record *)
(* its validators refuse would make get, cancel and the job list raise.    *)
ViewIsLegal(j) ==
  /\ phase[j] \in {"persisting", "verifying", "completed", "failed"} => j \notin requested
  /\ phase[j] = "cancelled" => j \in requested
  /\ IF Route[j] # "bounded"
     THEN j \notin planned
     ELSE LET p == phase[j]
          IN  /\ p \in {"queued", "planning-cognition"} => j \notin planned
              /\ p = "requesting-cognition" => j \in planned
              /\ p \in {"applying-cognition", "persisting", "verifying", "completed"}
                   => j \in planned /\ counted[j] = Funded[j]

ViewsAreLegal == \A j \in Active \cup Concluded : ViewIsLegal(j)

(* The records are the active job and the latest MaxTerminal outcomes,     *)
(* each once: nothing is kept that the history has let go of.              *)
HistoryIsTheRecords ==
  /\ Len(terminals) <= MaxTerminal
  /\ {terminals[i] : i \in 1..Len(terminals)} = Concluded
  /\ Cardinality(Concluded) = Len(terminals)
  /\ operations \cup cancellations \subseteq Active

(* A credential lives only in the unfinished job it was resolved for, and  *)
(* no longer than its cognition call: evaluation results are applied,      *)
(* published and verified without it.                                      *)
SecretsDieWithTheirJob ==
  /\ secrets \subseteq Active \cap Keyed
  /\ \A j \in secrets : phase[j] \notin {"applying-cognition", "persisting", "verifying"}

(* When close has returned nothing runs, nothing will, and no secret and   *)
(* no lease is left behind.                                                *)
ClosedIsQuiet ==
  closer = "closed" =>
    /\ activeJob = NoJob /\ secrets = {} /\ at = "idle"
    /\ active.kind # "job" /\ opsClosed

(* A close that began returns: the worker it drains cannot hold it up.     *)
CloseDrains == (closer = "flagging") ~> (closer = "closed")

(* What the job ledger shows a client. *)
Standing(j) ==
  IF phase[j] = "none" THEN (IF j \in issued THEN "gone" ELSE "new")
  ELSE IF phase[j] \in Terminal THEN phase[j]
  ELSE IF j \in requested THEN "cancelling" ELSE "pending"

Ledger == INSTANCE JobLedger WITH standing <- [j \in Jobs |-> Standing(j)],
                                  public <- published

LedgerSpec == Ledger!FairSpec
=============================================================================
