------------------------------ MODULE LiveRun --------------------------------
(***************************************************************************)
(* A campaign run under the dashboard: LiveRunController drives the        *)
(* runner's loop in one task, the keys pause it, step it and stop it, and  *)
(* the loop awaits CognitionService for the requests of each tick.         *)
(*                                                                         *)
(* Keys and the task share one event loop, so a key is handled only while  *)
(* the task is suspended; an action of the task is a stretch between two   *)
(* awaits or a part of one.  The pace between ticks is a pause of unknown  *)
(* length, which is all set_speed changes.  The store is one step per      *)
(* tick: RunDriver models what it does inside.                             *)
(***************************************************************************)
EXTENDS CampaignCognition, Integers

CONSTANT Keys         \* bound on the keys pressed

VARIABLES pc,         \* where the run's task stands
          durable,    \* for every recorded tick, what answered its requests
          outcome,    \* the run's status in the store; "none" before it exists
          paused, resume, requests,  \* _paused, _resume, _step_requests
          woken,      \* the observer's wait has been granted
          cancel,     \* the task is cancelled and has not noticed yet
          stopping,   \* stop() was called
          keys,       \* keys pressed
          since       \* ticks since a step taken on a standing run, or -1

driver == <<pc, durable, outcome>>
control == <<paused, resume, requests, woken, cancel, stopping, keys>>
vars == <<service, driver, control, since>>

Init ==
  /\ ServiceInit
  /\ pc = "idle" /\ durable = <<>> /\ outcome = "none"
  /\ paused = FALSE /\ resume = TRUE /\ requests = 0
  /\ woken = FALSE /\ cancel = FALSE /\ stopping = FALSE
  /\ keys = 0 /\ since = -1

Tick == Len(durable) + 1

Ends(how) == pc' = "ended" /\ outcome' = how /\ UNCHANGED durable

-----------------------------------------------------------------------------
(* The run's task.                                                         *)

Start == /\ pc = "idle" /\ ~ stopping
         /\ pc' = "created"
         /\ UNCHANGED <<service, durable, outcome, control, since>>

(* _drive and run up to the loop; the store may refuse the run. *)
Begin ==
  /\ pc = "created" /\ ~ cancel
  /\ \/ pc' = "plan" /\ outcome' = "running" /\ UNCHANGED durable
     \/ Ends("none")
  /\ UNCHANGED <<service, control, since>>

(* A batch with nothing to dispatch is resolved without an await. *)
Plan ==
  /\ pc = "plan" /\ Tick <= Ticks
  /\ OpenBatch(Tick)
  /\ pc' = IF \E r \in Request : stage'[r] = "queued" THEN "batch" ELSE "commit"
  /\ UNCHANGED <<durable, outcome, control, since>>

Call(r) == CallStep(r) /\ UNCHANGED <<driver, control, since>>

Abort == /\ pc = "batch" /\ (cancel \/ Broken)
         /\ AbortBatch
         /\ UNCHANGED <<driver, control, since>>

(* A defect of a call outranks the cancellation of the group. *)
BatchEnds ==
  /\ pc = "batch" /\ GroupLeft
  /\ IF Broken THEN Ends("failed")
     ELSE IF cancel THEN Ends("interrupted")
     ELSE pc' = "commit" /\ UNCHANGED <<durable, outcome>>
  /\ UNCHANGED <<service, control, since>>

(* evaluate_many's commit, commit_tick, append_events, the clock. *)
Commit ==
  /\ pc = "commit"
  /\ CommitBatch
  /\ durable' = Append(durable, [r \in Batch(Tick) |-> Source(r)])
  /\ pc' = "observe"
  /\ UNCHANGED <<outcome, control, since>>

CommitFails ==
  /\ pc = "commit"
  /\ \/ \E r \in Request : CommitStopsAt(r)
     \/ CommitBatch
  /\ Ends("failed")
  /\ UNCHANGED <<control, since>>

(* A stepped tick takes its request with it and closes the gate behind the *)
(* last one; a wait on an open gate does not suspend.                      *)
Leftover == IF requests > 0 THEN requests - 1 ELSE 0
GateCloses == requests > 0 /\ paused /\ Leftover = 0

Observe ==
  /\ pc = "observe"
  /\ requests' = Leftover
  /\ resume' = (resume /\ ~ GateCloses)
  /\ pc' = IF ~ paused THEN "pacing" ELSE IF resume' THEN "plan" ELSE "parked"
  /\ woken' = FALSE
  /\ since' = IF since \in {0, 1} THEN since + 1 ELSE since
  /\ UNCHANGED <<service, durable, outcome, paused, cancel, stopping, keys>>

Resume ==
  /\ pc = "pacing" \/ (pc = "parked" /\ woken)
  /\ ~ cancel
  /\ pc' = "plan"
  /\ UNCHANGED <<service, durable, outcome, control, since>>

Complete == /\ pc = "plan" /\ Tick > Ticks
            /\ Ends("completed")
            /\ UNCHANGED <<service, control, since>>

(* A task cancelled before its first step never runs; one that waits for   *)
(* the gate or for its pace records the interrupted run.                   *)
Interrupted ==
  /\ cancel /\ pc \in {"created", "parked", "pacing"}
  /\ Ends(IF pc = "created" THEN "none" ELSE "interrupted")
  /\ UNCHANGED <<service, control, since>>

-----------------------------------------------------------------------------
(* The keys.                                                               *)

Suspended == pc \in {"idle", "created", "batch", "parked", "pacing", "ended"}

Key == /\ Suspended /\ ~ stopping
       /\ keys < Keys /\ keys' = keys + 1

(* Event.set grants the wait even if the event is cleared right after. *)
OpenGate == resume' = TRUE /\ woken' = (woken \/ pc = "parked")

TogglePause ==
  /\ Key
  /\ paused' = ~ paused
  /\ IF paused THEN OpenGate ELSE resume' = FALSE /\ UNCHANGED woken
  /\ since' = -1
  /\ UNCHANGED <<service, driver, requests, cancel, stopping>>

Step ==
  /\ Key /\ paused
  /\ requests' = requests + 1
  /\ OpenGate
  /\ since' = IF pc = "parked" /\ ~ woken THEN 0 ELSE -1
  /\ UNCHANGED <<service, driver, paused, cancel, stopping>>

(* A stop that only opens the gate. *)
StopCancels_Never == FALSE

(* cancel() on a task that exists and has not ended. *)
StopCancels == pc \notin {"idle", "ended"}

Stop ==
  /\ Key
  /\ stopping' = TRUE
  /\ cancel' = StopCancels
  /\ IF pc = "idle" THEN UNCHANGED <<resume, woken>> ELSE OpenGate
  /\ since' = -1
  /\ UNCHANGED <<service, driver, paused, requests>>

Drive == \/ Begin \/ Plan \/ Abort \/ BatchEnds \/ Commit \/ CommitFails
         \/ Observe \/ Resume \/ Complete \/ Interrupted

Next == \/ Start \/ Drive
        \/ \E r \in Request : Call(r)
        \/ TogglePause \/ Step \/ Stop

(* The loop runs whatever is ready, and every provider call and every      *)
(* retry delay has a timeout; nobody has to press a key.                   *)
Spec == /\ Init /\ [][Next]_vars
        /\ WF_vars(Drive)
        /\ \A r \in Request : WF_vars(Call(r))

-----------------------------------------------------------------------------
(* Concurrency, retries, pauses, steps and stops cannot be seen in what    *)
(* the run records: it implements the ledger that has none of them         *)
(* (service.py, "Concurrency must not be observable in a run's output";    *)
(* controller.py, a quit leaves the artifact of the headless path).        *)
Ledger == INSTANCE CampaignLedger WITH recorded <- cache
LedgerSpec == Ledger!Spec

(* When the run's task has ended, however it was stopped, no provider call *)
(* of the run is still in flight, and there never are more calls than      *)
(* slots: what a stop leaves behind can be read at once.                   *)
CallsEndWithTheRun ==
  /\ pc = "ended" => Live = {}
  /\ Cardinality(Holding) <= Slots

(* stop() returns: a run that was started and is told to stop ends, parked *)
(* or not, whatever its calls are doing.                                   *)
StopReturns == (stopping /\ pc # "idle") ~> (pc = "ended")

(* LiveRunController.step: "Advance exactly one tick, parking again if the *)
(* run is paused."  A step on a run that stands still, with no key after   *)
(* it, lets at most one tick through.                                      *)
StepAdvancesOneTick == since <= 1
=============================================================================
