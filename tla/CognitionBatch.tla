--------------------------- MODULE CognitionBatch ----------------------------
(***************************************************************************)
(* CityCognitionServiceV2.resolve_many: the questions of one bounded run   *)
(* are answered by a provider under a concurrency limit, retry budgets, an *)
(* aggregate deadline and a cancellation token another thread may trip at  *)
(* any time.  One event loop runs everything, so an action is what happens *)
(* between two awaits; each question's worker is a task of its own.        *)
(*                                                                         *)
(* Which waiting worker gets the semaphore next is left open, so what is   *)
(* shown holds for every order of starts and answers.                      *)
(***************************************************************************)
EXTENDS Integers, FiniteSets

CONSTANTS Count,       \* how many questions the run selected
          Funded,      \* those planning funded
          Limit,       \* provider calls in flight
          Transient,   \* transient_retries
          Repairs      \* repair_attempts

Question == 1..Count

ASSUME BatchAssumption ==
  /\ Count \in Nat
  /\ Funded \subseteq Question
  /\ Limit \in Nat \ {0}
  /\ Transient \in Nat
  /\ Repairs \in Nat

VARIABLES stage,      \* where resolve_many stands
          online,     \* the run has a provider
          cancelled,  \* the token is tripped
          task,       \* each worker task
          attempts,   \* _AttemptState.count
          retriesLeft, repairsLeft,
          resolved,   \* the outcome collected for each question
          reported,   \* calls of progress
          ending,     \* how resolve_many will end
          cache       \* questions whose answer the cache holds

worker == <<task, attempts, retriesLeft, repairsLeft>>
batch == <<stage, online, cancelled, resolved, reported, ending, cache>>
vars == <<worker, batch>>

Alive == {q \in Question : task[q] \in {"ready", "calling", "backoff"}}

(* Workers that have ended and whose outcome nobody has looked at. *)
Ended == {q \in Question : /\ task[q] \in {"answered", "gaveup", "defect", "gone"}
                           /\ resolved[q] = "open"}

Init ==
  /\ stage = "start"
  /\ online \in BOOLEAN
  /\ cancelled = FALSE
  /\ task = [q \in Question |-> "none"]
  /\ attempts = [q \in Question |-> 0]
  /\ retriesLeft = [q \in Question |-> Transient]
  /\ repairsLeft = [q \in Question |-> Repairs]
  /\ resolved = [q \in Question |-> "open"]
  /\ reported = 0
  /\ ending = "none"
  /\ cache \in SUBSET Funded

-----------------------------------------------------------------------------
(* Raising before any worker exists: the owned provider is still closed. *)
Refused ==
  /\ stage = "start"
  /\ stage' = "closing"
  /\ ending' \in (IF cancelled THEN {"cancelled"} ELSE {"defect"})
  /\ UNCHANGED <<online, cancelled, worker, resolved, reported, cache>>

ResolveOffline ==
  /\ stage = "start"
  /\ ~ online
  /\ ~ cancelled
  /\ stage' = "closing"
  /\ ending' = "ok"
  /\ resolved' = [q \in Question |-> "rules"]
  /\ UNCHANGED <<online, cancelled, worker, reported, cache>>

(* One pass in canonical order: the unfunded are skipped, a cached answer  *)
(* is taken and reported, and every other question gets a worker.          *)
Scan ==
  /\ stage = "start"
  /\ online
  /\ ~ cancelled
  /\ LET hits == cache \cap Funded
         pending == Funded \ hits
     IN  /\ resolved' = [q \in Question |-> CASE q \notin Funded -> "skipped"
                                              [] q \in hits -> "cache"
                                              [] OTHER -> "open"]
         /\ reported' = Cardinality(hits)
         /\ task' = [q \in Question |-> IF q \in pending THEN "ready" ELSE "none"]
         /\ IF pending = {}
            THEN stage' = "closing" /\ ending' = "ok"
            ELSE stage' = "running" /\ UNCHANGED ending
  /\ UNCHANGED <<online, cancelled, attempts, retriesLeft, repairsLeft, cache>>

-----------------------------------------------------------------------------
(* _resolve_one and _invoke_provider, one worker. *)

Becomes(q, t) == task' = [task EXCEPT ![q] = t]

(* A slip: at the deadline the workers are awaited but not cancelled. *)
CutShort_ErrorsOnly == {"cancelling"}

(* Where _cancel_tasks has cancelled every worker and awaits them. *)
CutShort == {"cancelling", "expired"}

(* A slip: a worker calls without asking for the semaphore. *)
SlotFree_Always == TRUE

SlotFree == Cardinality({q \in Question : task[q] = "calling"}) < Limit

Call(q) ==
  /\ task[q] = "ready"
  /\ ~ cancelled
  /\ SlotFree
  /\ Becomes(q, "calling")
  /\ attempts' = [attempts EXCEPT ![q] = @ + 1]
  /\ UNCHANGED <<batch, retriesLeft, repairsLeft>>

(* raise_if_cancelled before a call, after an answer, after a backoff. *)
SeesCancellation(q) ==
  /\ q \in Alive
  /\ cancelled
  /\ Becomes(q, "gone")
  /\ UNCHANGED <<batch, attempts, retriesLeft, repairsLeft>>

(* A valid answer, or one whose token usage overflows. *)
Answer(q) ==
  /\ task[q] = "calling"
  /\ ~ cancelled
  /\ \/ Becomes(q, "answered")
     \/ Becomes(q, "gaveup")
  /\ UNCHANGED <<batch, attempts, retriesLeft, repairsLeft>>

RepairAllowed(q) == repairsLeft[q] > 0

(* An invalid answer: repaired while the budget lasts and its reason is    *)
(* repairable.                                                             *)
AnswerInvalid(q) ==
  /\ task[q] = "calling"
  /\ ~ cancelled
  /\ \/ /\ RepairAllowed(q)
        /\ Becomes(q, "ready")
        /\ repairsLeft' = [repairsLeft EXCEPT ![q] = @ - 1]
     \/ Becomes(q, "gaveup") /\ UNCHANGED repairsLeft
  /\ UNCHANGED <<batch, attempts, retriesLeft>>

(* A slip: errors are retried without a look at the budget. *)
RetryAllowed_Always(q) == TRUE

RetryAllowed(q) == retriesLeft[q] > 0

(* A provider error or the attempt's timeout is looked at before the       *)
(* token: it is retried after a wait the deadline leaves room for, or it   *)
(* is the fallback's reason.                                               *)
CallFails(q) ==
  /\ task[q] = "calling"
  /\ \/ /\ RetryAllowed(q)
        /\ Becomes(q, "backoff")
        /\ retriesLeft' = [retriesLeft EXCEPT ![q] = @ - 1]
     \/ Becomes(q, "gaveup") /\ UNCHANGED retriesLeft
  /\ UNCHANGED <<batch, attempts, repairsLeft>>

BackoffEnds(q) ==
  /\ task[q] = "backoff"
  /\ ~ cancelled
  /\ Becomes(q, "ready")
  /\ UNCHANGED <<batch, attempts, retriesLeft, repairsLeft>>

(* Anything that is not a provider error is a defect and no answer. *)
Defect(q) ==
  /\ task[q] = "calling"
  /\ Becomes(q, "defect")
  /\ UNCHANGED <<batch, attempts, retriesLeft, repairsLeft>>

(* Cancelled by _cancel_tasks, a worker unwinds; a call that swallows the  *)
(* cancellation may still answer, late, or fail in its cleanup.            *)
Unwinds(q) ==
  /\ stage \in CutShort
  /\ q \in Alive
  /\ \/ Becomes(q, "gone")
     \/ task[q] = "calling" /\ (Becomes(q, "late") \/ Becomes(q, "defect"))
  /\ UNCHANGED <<batch, attempts, retriesLeft, repairsLeft>>

-----------------------------------------------------------------------------
(* _run_provider_batch, the loop that waits for the workers. *)

Outcome(q) == IF task[q] = "answered" THEN "provider" ELSE "fallback"

(* Up to the first bad one in canonical order, the ended workers' outcomes *)
(* are collected.                                                          *)
Good ==
  {q \in Ended : \A p \in Ended : p <= q => task[p] \in {"answered", "gaveup"}}

Taken(some) ==
  resolved' = [q \in Question |-> IF q \in some THEN Outcome(q) ELSE resolved[q]]

Open == {q \in Question : resolved[q] = "open"}

FirstBad == CHOOSE q \in Ended \ Good : \A p \in Ended \ Good : q <= p

(* One wake-up of asyncio.wait with no sign of cancellation: progress is   *)
(* reported for each outcome, and a worker that raised ends the batch.     *)
Collect ==
  /\ stage = "running"
  /\ Ended # {}
  /\ Taken(Good)
  /\ reported' = reported + Cardinality(Good)
  /\ IF Good # Ended
     THEN /\ stage' = "cancelling"
          /\ ending' = IF task[FirstBad] = "gone"
                          /\ \A q \in Ended \ Good : task[q] # "defect"
                       THEN "cancelled" ELSE "defect"
     ELSE IF Open = Good
          THEN stage' = "closing" /\ ending' = "ok"
          ELSE UNCHANGED <<stage, ending>>
  /\ UNCHANGED <<online, cancelled, worker, cache>>

(* The cancellation waiter wakes the loop first. *)
CancelBatch ==
  /\ stage = "running"
  /\ cancelled
  /\ stage' = "cancelling"
  /\ ending' = "cancelled"
  /\ UNCHANGED <<online, cancelled, worker, resolved, reported, cache>>

(* A slip: the deadline goes straight to closing the provider. *)
DeadlineStage_NoCancel == "closing"

(* Where the deadline leaves the batch once its ended workers are read. *)
DeadlineStage == "expired"

(* The aggregate deadline: of the workers done by now the outcomes count,  *)
(* unless one of them had already raised CancelledError, which is raised   *)
(* past the cancelling of the others.                                      *)
Deadline ==
  /\ stage = "running"
  /\ IF \E q \in Ended : task[q] = "gone"
     THEN stage' = "closing" /\ ending' = "cancelled" /\ UNCHANGED resolved
     ELSE /\ Taken({q \in Ended : task[q] # "defect"})
          /\ stage' = DeadlineStage
          /\ ending' = "ok"
  /\ UNCHANGED <<online, cancelled, worker, reported, cache>>

(* A slip: an answer that comes while the workers unwind is taken. *)
Fill_Late(q) == IF task[q] = "late" THEN "provider" ELSE "fallback"

(* What a question is given that has no outcome at the deadline. *)
Fill(q) == "fallback"

(* A slip: the outcomes the deadline itself collected are not reported. *)
Unreported_OpenOnly == Cardinality(Open)

(* Every worker has an outcome now; the loop reported some of them. *)
Unreported ==
  Cardinality({q \in Question : task[q] # "none"})
    - (reported - Cardinality({q \in Question : resolved[q] = "cache"}))

(* After the deadline every worker has unwound: what is still open falls   *)
(* back as timed out, and progress is reported for all of it, unless a     *)
(* worker had a defect.                                                    *)
ExpiryEnds ==
  /\ stage = "expired"
  /\ Alive = {}
  /\ stage' = "closing"
  /\ IF \E q \in Question : task[q] = "defect"
     THEN ending' = "defect" /\ UNCHANGED <<resolved, reported>>
     ELSE /\ resolved' = [q \in Question |-> IF q \in Open THEN Fill(q) ELSE resolved[q]]
          /\ reported' = reported + Unreported
          /\ UNCHANGED ending
  /\ UNCHANGED <<online, cancelled, worker, cache>>

(* After an error: a defect found on the way outranks the cancellation. *)
CancellingEnds ==
  /\ stage = "cancelling"
  /\ Alive = {}
  /\ stage' = "closing"
  /\ ending' = IF \E q \in Question : task[q] = "defect" THEN "defect" ELSE ending
  /\ UNCHANGED <<online, cancelled, worker, resolved, reported, cache>>

-----------------------------------------------------------------------------
(* The provider is closed, the evaluation validated, and the token looked  *)
(* at before anything is published.                                        *)
Close ==
  /\ stage = "closing"
  /\ \E broken \in BOOLEAN :
       LET end == IF broken THEN "defect"
                  ELSE IF ending = "ok" /\ cancelled THEN "cancelled" ELSE ending
       IN  /\ ending' = end
           /\ stage' = IF end = "ok" THEN "publishing" ELSE "raised"
  /\ UNCHANGED <<online, cancelled, worker, resolved, reported, cache>>

(* The provider's answers that the cache has yet to hold. *)
Fresh == {q \in Question : resolved[q] = "provider"} \ cache

(* _run_if_active: the put happens under the token's lock. *)
PublishAllowed == ~ cancelled

(* A put raises: the record may be there or not. *)
Publish ==
  /\ stage = "publishing"
  /\ Fresh # {}
  /\ PublishAllowed
  /\ LET q == CHOOSE p \in Fresh : \A r \in Fresh : p <= r
     IN  \/ cache' = cache \cup {q} /\ UNCHANGED <<stage, ending>>
         \/ /\ stage' = "raised"
            /\ ending' = "defect"
            /\ cache' \in {cache, cache \cup {q}}
  /\ UNCHANGED <<online, cancelled, worker, resolved, reported>>

PublishCancelled ==
  /\ stage = "publishing"
  /\ cancelled
  /\ stage' = "raised"
  /\ ending' = "cancelled"
  /\ UNCHANGED <<online, cancelled, worker, resolved, reported, cache>>

Return ==
  /\ stage = "publishing"
  /\ Fresh = {}
  /\ ~ cancelled
  /\ stage' = "returned"
  /\ UNCHANGED <<online, cancelled, worker, resolved, reported, ending, cache>>

(* asyncio.run cancels whatever outlived its coroutine. *)
Teardown(q) ==
  /\ stage = "raised"
  /\ q \in Alive
  /\ Becomes(q, "gone")
  /\ UNCHANGED <<batch, attempts, retriesLeft, repairsLeft>>

(* CityCognitionCancellation.cancel, from a request thread. *)
Cancel ==
  /\ ~ cancelled
  /\ cancelled' = TRUE
  /\ UNCHANGED <<stage, online, worker, resolved, reported, ending, cache>>

Work(q) ==
  /\ stage \notin CutShort
  /\ \/ Call(q) \/ SeesCancellation(q) \/ Answer(q) \/ AnswerInvalid(q) \/ CallFails(q)
     \/ BackoffEnds(q) \/ Defect(q)

Loop ==
  \/ Refused \/ ResolveOffline \/ Scan
  \/ Collect \/ CancelBatch \/ ExpiryEnds \/ CancellingEnds
  \/ Close \/ Publish \/ PublishCancelled \/ Return

Next ==
  \/ \E q \in Question : Work(q) \/ Unwinds(q) \/ Teardown(q)
  \/ Loop \/ Deadline \/ Cancel

Spec == Init /\ [][Next]_vars

(* The loop is scheduled, the deadline's timer fires, and a cancelled      *)
(* worker unwinds; nothing makes a provider answer.                        *)
FairSpec ==
  /\ Spec
  /\ WF_vars(Loop)
  /\ WF_vars(Deadline)
  /\ \A q \in Question : WF_vars(Unwinds(q)) /\ WF_vars(Teardown(q))

-----------------------------------------------------------------------------
(* However errors and invalid answers alternate, a question never exceeds  *)
(* 1 + transient + repair calls, neither budget is overdrawn on the        *)
(* other's account, and the provider never sees more than Limit calls at a *)
(* time, not even while the batch is being cut short.                      *)
CallsAreBounded ==
  /\ \A q \in Question :
       /\ attempts[q] <= 1 + (Transient - retriesLeft[q]) + (Repairs - repairsLeft[q])
       /\ retriesLeft[q] >= 0 /\ repairsLeft[q] >= 0
  /\ Cardinality({q \in Question : task[q] = "calling"}) <= Limit

(* The count a job shows is the number of funded questions with an         *)
(* outcome, whichever of cache, answers, errors and deadline decided them, *)
(* and a batch that ends well has reported each of them once.              *)
ProgressIsExact ==
  /\ stage = "running" =>
       reported = Cardinality({q \in Funded : resolved[q] # "open"})
  /\ online /\ stage \in {"publishing", "returned"} =>
       reported = Cardinality(Funded) /\ Open = {}
  /\ ~ online => reported = 0

(* No answer that arrives after the deadline, or after the batch was cut   *)
(* short, is taken for a provider outcome; and only a provider's own       *)
(* answers ever reach the cache.                                           *)
OnlyTimelyAnswersCount ==
  \A q \in Question :
    /\ resolved[q] = "provider" => task[q] = "answered"
    /\ resolved[q] = "fallback" => q \in Funded /\ q \notin cache

(* A worker outlives the batch only if the run was cancelled: a deadline,  *)
(* a defect or an error alone leaves none behind, and an evaluation is     *)
(* never returned beside one.                                              *)
NoWorkerOutlivesItsBatch ==
  stage \in {"closing", "publishing", "returned", "raised"} /\ Alive # {} =>
    cancelled /\ stage # "returned" /\ ending # "ok"

(* However silent the provider, resolve_many comes to an end. *)
Resolves == (stage = "start") ~> (stage \in {"returned", "raised"} /\ Alive = {})
=============================================================================
