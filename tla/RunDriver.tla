----------------------------- MODULE RunDriver ------------------------------
(***************************************************************************)
(* SimulationRunner driving one campaign run against SQLiteRunStore and    *)
(* its sinks.  A driver is one invocation of `run` or `resume` in a        *)
(* process of its own: it may be killed between any two durable steps, and *)
(* its memory (the model's clock and next event sequence, the batch being  *)
(* published) dies with it.                                                *)
(*                                                                         *)
(* The engine is deterministic: the frozen scenario and seed fix the event *)
(* stream.  Stream is that stream and Upto[t] the number of its events     *)
(* minted before tick t, so committing tick t mints the slice between      *)
(* Upto[t] and Upto[t+1], which is empty when nothing happened.            *)
(***************************************************************************)
EXTENDS RunStore, FiniteSets

CONSTANTS Drivers,    \* the invocations of run/resume that may happen
          MaxLive,    \* how many of them may be alive at the same time
          Duration,   \* ticks in the run
          DayLen,     \* ticks in a simulated day
          Stream,     \* the events of the whole deterministic run
          Upto        \* Upto[t]: events minted before tick t

Failed(t) == [type |-> "run.failed", minute |-> t]

ASSUME DriverAssumption ==
  /\ MaxLive \in Nat
  /\ Duration \in Nat \ {0}
  /\ DayLen \in Nat \ {0}
  /\ Upto \in [0..Duration -> Nat]
  /\ Upto[0] = 1
  /\ \A s, t \in 0..Duration : s <= t => Upto[s] <= Upto[t]
  /\ Stream \in Seq(Event)
  /\ Len(Stream) = Upto[Duration]
  /\ \A i \in 1..Len(Stream) : Stream[i].type # "run.failed"
  /\ \A t \in 0..Duration : Failed(t) \in Event

VARIABLES pc,       \* where each driver stands
          clock,    \* model.clock, in ticks
          next,     \* model._next_event_sequence
          batch,    \* the events being appended or published
          verdict,  \* the outcome a stopping driver will record
          shown     \* every event a sink was offered, with its sequence

memory == <<pc, clock, next, batch, verdict>>
vars == <<store, memory, shown>>

Phases == {"idle", "append", "export", "sinks", "checkpoint", "head", "usage",
           "stop", "stopExport", "close", "closeCommit", "dead"}

Live(d) == pc[d] \notin {"idle", "dead"}

Init ==
  /\ StoreInit
  /\ pc = [d \in Drivers |-> "idle"]
  /\ clock = [d \in Drivers |-> 0]
  /\ next = [d \in Drivers |-> 0]
  /\ batch = [d \in Drivers |-> <<>>]
  /\ verdict = [d \in Drivers |-> "none"]
  /\ shown = {}

-----------------------------------------------------------------------------
TickBatch(t) == SubSeq(Stream, Upto[t] + 1, Upto[t + 1])

StartBatch == SubSeq(Stream, 1, 1)

(* The events of b as a sink is offered them, b[1] having sequence first. *)
Offered(b, first) == {[seq |-> first + i - 1, event |-> b[i]] : i \in 1..Len(b)}

Goto(d, p) == pc' = [pc EXCEPT ![d] = p]

(* The call returns or raises, or the process is killed: memory is gone. *)
Die(d) ==
  /\ pc' = [pc EXCEPT ![d] = "dead"]
  /\ clock' = [clock EXCEPT ![d] = 0]
  /\ next' = [next EXCEPT ![d] = 0]
  /\ batch' = [batch EXCEPT ![d] = <<>>]
  /\ verdict' = [verdict EXCEPT ![d] = "none"]

(* _record_stop begins: an exception is a failure, a KeyboardInterrupt or  *)
(* a cancellation an interruption.                                         *)
StopWith(d, v) ==
  /\ pc' = [pc EXCEPT ![d] = "stop"]
  /\ verdict' = [verdict EXCEPT ![d] = v]
  /\ batch' = [batch EXCEPT ![d] = <<>>]
  /\ UNCHANGED <<clock, next>>

Stops == {"failed", "interrupted"}

MayStart(d) ==
  /\ pc[d] = "idle"
  /\ Cardinality({e \in Drivers : Live(e)}) < MaxLive

-----------------------------------------------------------------------------
(* run: create_run, then start_events mints sequence zero. *)
Run(d) ==
  /\ MayStart(d)
  /\ status = "absent"
  /\ CreateRun
  /\ Goto(d, "append")
  /\ next' = [next EXCEPT ![d] = 1]
  /\ batch' = [batch EXCEPT ![d] = StartBatch]
  /\ UNCHANGED <<clock, verdict, shown>>

(* A slip: resuming from a checkpoint whatever was recorded after it. *)
Resumable_AnyTail(c) ==
  /\ Readable
  /\ status = "running"

(* resume refuses a tail of events past the latest checkpoint. *)
Resumable(c) ==
  /\ Readable
  /\ status = "running"
  /\ c.next = Len(rows)

(* resume: load, check, and restore the model where the checkpoint left it. *)
Resume(d) ==
  /\ MayStart(d)
  /\ \E c \in RestorePoints :
       /\ Resumable(c)
       /\ next' = [next EXCEPT ![d] = c.next]
       /\ clock' = [clock EXCEPT ![d] = c.minute]
  /\ Goto(d, "head")
  /\ UNCHANGED <<batch, verdict, shown, store>>

(* A duplicate run id, an unreadable, closed or unresumable artifact. *)
StartRefused(d) ==
  /\ MayStart(d)
  /\ status # "absent"
  /\ ~ \E c \in RestorePoints : Resumable(c)
  /\ Die(d)
  /\ UNCHANGED <<store, shown>>

-----------------------------------------------------------------------------
(* A slip: the sinks are offered the tick before the store has it. *)
CommitTick_PublishFirst(d) ==
  /\ pc[d] = "head"
  /\ clock[d] < Duration
  /\ Goto(d, "append")
  /\ batch' = [batch EXCEPT ![d] = TickBatch(clock[d])]
  /\ next' = [next EXCEPT ![d] = Upto[clock[d] + 1] - Upto[clock[d]] + @]
  /\ shown' = shown \cup Offered(TickBatch(clock[d]), next[d])
  /\ UNCHANGED <<clock, verdict, store>>

(* One pass of the drive loop: plan, await the cognition port, commit the  *)
(* tick in memory.  Only memory moves; the append is the next step.        *)
CommitTick(d) ==
  /\ pc[d] = "head"
  /\ clock[d] < Duration
  /\ Goto(d, "append")
  /\ batch' = [batch EXCEPT ![d] = TickBatch(clock[d])]
  /\ next' = [next EXCEPT ![d] = Upto[clock[d] + 1] - Upto[clock[d]] + @]
  /\ UNCHANGED <<clock, verdict, shown, store>>

(* The port refuses, the commit refuses, or the awaiting task is cancelled *)
(* there or in the tick observer of the tick before.                       *)
HeadStops(d) ==
  /\ pc[d] = "head"
  /\ \E v \in Stops : StopWith(d, v)
  /\ UNCHANGED <<store, shown>>

LoopEnds(d) ==
  /\ pc[d] = "head"
  /\ clock[d] = Duration
  /\ Goto(d, "usage")
  /\ UNCHANGED <<clock, next, batch, verdict, shown, store>>

FirstOf(d) == next[d] - Len(batch[d])

(* append_events returns at once on an empty batch. *)
AppendNothing(d) ==
  /\ pc[d] = "append"
  /\ batch[d] = <<>>
  /\ Goto(d, "sinks")
  /\ UNCHANGED <<clock, next, batch, verdict, shown, store>>

AppendCommits(d) ==
  /\ pc[d] = "append"
  /\ batch[d] # <<>>
  /\ AppendAdmitted(FirstOf(d))
  /\ CommitRows(batch[d])
  /\ Goto(d, "export")
  /\ UNCHANGED <<clock, next, batch, verdict, shown>>

(* Refused by the checks, or by the device before the commit. *)
AppendStops(d) ==
  /\ pc[d] = "append"
  /\ batch[d] # <<>>
  /\ \E v \in Stops : StopWith(d, v)
  /\ UNCHANGED <<store, shown>>

ExportExtends(d) ==
  /\ pc[d] = "export"
  /\ ExtendExport(batch[d])
  /\ Goto(d, "sinks")
  /\ UNCHANGED <<clock, next, batch, verdict, shown>>

(* ExportNotExtended: the tick is recorded, the export is short. *)
ExportStops(d) ==
  /\ pc[d] = "export"
  /\ CutExport(batch[d])
  /\ \E v \in Stops : StopWith(d, v)
  /\ UNCHANGED shown

(* Slips: a day that ends a tick late, a checkpoint named for the tick     *)
(* before it.                                                              *)
EndsDay_Late(t) == t % DayLen = 0
CheckpointOf_Early(d) == [minute |-> clock[d] - 1, next |-> next[d]]

EndsDay(t) == (t + 1) % DayLen = 0

(* Every sink takes the batch; then the clock advances, except after the   *)
(* start events, which belong to no tick.                                  *)
Publish(d) ==
  /\ pc[d] = "sinks"
  /\ shown' = shown \cup Offered(batch[d], FirstOf(d))
  /\ IF next[d] = 1 /\ batch[d] # <<>>
     THEN Goto(d, "head") /\ UNCHANGED clock
     ELSE /\ clock' = [clock EXCEPT ![d] = @ + 1]
          /\ Goto(d, IF EndsDay(clock[d]) THEN "checkpoint" ELSE "head")
  /\ batch' = [batch EXCEPT ![d] = <<>>]
  /\ UNCHANGED <<next, verdict, store>>

(* A sink raises, having shown the batch or not. *)
PublishStops(d) ==
  /\ pc[d] = "sinks"
  /\ \/ shown' = shown \cup Offered(batch[d], FirstOf(d))
     \/ UNCHANGED shown
  /\ \E v \in Stops : StopWith(d, v)
  /\ UNCHANGED store

CheckpointOf(d) == [minute |-> clock[d], next |-> next[d]]

SaveCheckpoint(d) ==
  /\ pc[d] = "checkpoint"
  /\ CheckpointAdmitted(CheckpointOf(d))
  /\ StoreCheckpoint(CheckpointOf(d))
  /\ Goto(d, "head")
  /\ UNCHANGED <<clock, next, batch, verdict, shown>>

CheckpointStops(d) ==
  /\ pc[d] = "checkpoint"
  /\ \E v \in Stops : StopWith(d, v)
  /\ UNCHANGED <<store, shown>>

-----------------------------------------------------------------------------
(* _append_run_failed: a failed stop mints run.failed at the model's own   *)
(* next sequence; an interrupted one records nothing more.                 *)
StopSilently(d) ==
  /\ pc[d] = "stop"
  /\ verdict[d] = "interrupted"
  /\ Goto(d, "close")
  /\ UNCHANGED <<clock, next, batch, verdict, shown, store>>

StopRecorded(d) ==
  /\ pc[d] = "stop"
  /\ verdict[d] = "failed"
  /\ AppendAdmitted(next[d])
  /\ CommitRows(<<Failed(clock[d])>>)
  /\ batch' = [batch EXCEPT ![d] = <<Failed(clock[d])>>]
  /\ Goto(d, "stopExport")
  /\ UNCHANGED <<clock, next, verdict, shown>>

(* The append of run.failed raises and is swallowed. *)
StopUnrecorded(d) ==
  /\ pc[d] = "stop"
  /\ verdict[d] = "failed"
  /\ Goto(d, "close")
  /\ UNCHANGED <<clock, next, batch, verdict, shown, store>>

StopExported(d) ==
  /\ pc[d] = "stopExport"
  /\ ExtendExport(batch[d])
  /\ next' = [next EXCEPT ![d] = @ + 1]
  /\ \/ shown' = shown \cup Offered(batch[d], next[d])
     \/ UNCHANGED shown
  /\ batch' = [batch EXCEPT ![d] = <<>>]
  /\ Goto(d, "close")
  /\ UNCHANGED <<clock, verdict>>

(* The row is there, the line is not, and the counter never moves. *)
StopExportFails(d) ==
  /\ pc[d] = "stopExport"
  /\ CutExport(batch[d])
  /\ batch' = [batch EXCEPT ![d] = <<>>]
  /\ Goto(d, "close")
  /\ UNCHANGED <<clock, next, verdict, shown>>

ResultOf(d) == [status |-> verdict[d], count |-> next[d], minute |-> clock[d]]

(* complete_run, up to and including the metrics document. *)
CloseChecked(d) ==
  /\ pc[d] = "close"
  /\ CloseAdmitted(ResultOf(d))
  /\ WriteMetrics(ResultOf(d))
  /\ Goto(d, "closeCommit")
  /\ UNCHANGED <<clock, next, batch, verdict, shown>>

(* complete_run's transaction, and the call that ends by it. *)
CloseCommits(d) ==
  /\ pc[d] = "closeCommit"
  /\ CommitOutcome(ResultOf(d))
  /\ Die(d)
  /\ UNCHANGED shown

(* After the loop, outside its try: complete() and the usage document. *)
SaveUsage(d) ==
  /\ pc[d] = "usage"
  /\ status = "running"
  /\ verdict' = [verdict EXCEPT ![d] = "completed"]
  /\ Goto(d, "close")
  /\ UNCHANGED <<clock, next, batch, shown, store>>

-----------------------------------------------------------------------------
(* The process is killed, or a call the runner does not guard raises:      *)
(* complete_run and save_provider_usage end the driver with no record.     *)
Killed(d) ==
  /\ Live(d)
  /\ IF pc[d] \in {"export", "stopExport"}
     THEN CutExport(batch[d])
     ELSE UNCHANGED store
  /\ Die(d)
  /\ UNCHANGED shown

(* Repair is asked for, and asked for while no driver is writing. *)
Repair ==
  /\ \A d \in Drivers : ~ Live(d)
  /\ export # rows
  /\ RebuildExport
  /\ UNCHANGED <<memory, shown>>

Step(d) ==
  \/ Run(d) \/ Resume(d) \/ StartRefused(d)
  \/ CommitTick(d) \/ HeadStops(d) \/ LoopEnds(d)
  \/ AppendNothing(d) \/ AppendCommits(d) \/ AppendStops(d)
  \/ ExportExtends(d) \/ ExportStops(d)
  \/ Publish(d) \/ PublishStops(d)
  \/ SaveCheckpoint(d) \/ CheckpointStops(d)
  \/ StopSilently(d) \/ StopRecorded(d) \/ StopUnrecorded(d)
  \/ StopExported(d) \/ StopExportFails(d)
  \/ CloseChecked(d) \/ CloseCommits(d) \/ SaveUsage(d)
  \/ Killed(d)

Next == Repair \/ \E d \in Drivers : Step(d)

Spec == Init /\ [][Next]_vars

-----------------------------------------------------------------------------
(* What the drivers, the store and the sinks promise together.             *)

(* The shape of every variable. *)
TypeOK ==
  /\ status \in {"absent", "running"} \cup Outcomes
  /\ rows \in Seq(Event)
  /\ export \in Seq(Event \cup {Torn})
  /\ checkpoints \subseteq [minute : 0..Duration, next : Nat]
  /\ metrics \in [status : Outcomes \cup {"none"}, count : Nat, minute : Nat]
  /\ result \in [status : Outcomes \cup {"none"}, count : Nat, minute : Nat]
  /\ pc \in [Drivers -> Phases]
  /\ clock \in [Drivers -> 0..Duration]
  /\ next \in [Drivers -> Nat]
  /\ batch \in [Drivers -> Seq(Event)]
  /\ verdict \in [Drivers -> Outcomes \cup {"none"}]
  /\ shown \subseteq [seq : Nat, event : Event]

(* The first n stored events are the first n of the deterministic run. *)
Recorded(n) ==
  /\ n <= Len(rows)
  /\ \A i \in 1..n : i <= Len(Stream) /\ rows[i] = Stream[i]

(* However many drivers crash, resume or collide, the stored stream is a   *)
(* prefix of the run's one deterministic stream; only run.failed events    *)
(* may follow it, and nothing is ever recorded after them.                 *)
StreamIsCanonical ==
  \E n \in 0..Len(rows) :
    /\ Recorded(n)
    /\ \A i \in (n + 1)..Len(rows) : rows[i].type = "run.failed"

(* Persist before publish: whatever a sink was offered, under whatever     *)
(* sequence number, is what the store holds at that sequence.              *)
PersistBeforePublish ==
  \A s \in shown : s.seq < Len(rows) /\ rows[s.seq + 1] = s.event

(* A line no row backs never reaches the export: its whole lines are the   *)
(* leading rows, and a torn line can only be the last.                     *)
ExportNeverLeads ==
  /\ Len(export) <= Len(rows)
  /\ \A i \in 1..Len(export) :
       export[i] = rows[i] \/ (export[i] = Torn /\ i = Len(export))

(* A checkpoint names exactly the events that precede its day boundary,    *)
(* all of them stored, so restoring it can neither skip nor repeat one.    *)
CheckpointsAreExact ==
  \A c \in checkpoints :
    /\ c.minute \in 1..Duration
    /\ c.minute % DayLen = 0
    /\ c.next = Upto[c.minute]
    /\ Recorded(c.next)

(* A closed run accounts for its own stream: the recorded outcome and the  *)
(* metrics document are one result, it counts the stored events, and a     *)
(* run recorded completed holds the whole deterministic stream and nothing *)
(* else.  Only the export may still need rebuilding.                       *)
ClosedRunAccountsForItsStream ==
  status \in Outcomes =>
    /\ result.status = status
    /\ metrics = result
    /\ result.count = Len(rows)
    /\ status = "completed" => rows = Stream /\ result.minute = Duration

(* A resumed driver starts where the store stands: its clock is the        *)
(* boundary after the last stored event, whatever was lost in a crash.     *)
ResumeIsExact ==
  [][\A d \in Drivers :
       pc[d] = "idle" /\ pc'[d] = "head" =>
         /\ rows = SubSeq(Stream, 1, Upto[clock'[d]])
         /\ next'[d] = Len(rows)]_vars

(* Once a run is closed, no driver changes its outcome or its stream. *)
ClosedIsFinal ==
  [][(status \in Outcomes) => UNCHANGED <<status, result, rows, checkpoints>>]_vars

(* The stop record's promise (runner.py:539-541): a reader never meets a   *)
(* finished run whose stream simply stops.                                 *)
FinishedStreamHasItsEnding ==
  status \in {"completed", "failed"} =>
    /\ rows # <<>>
    /\ rows[Len(rows)].type \in {"run.completed", "run.failed"}

(* The run as its readers see it. *)
Reader == INSTANCE DurableRun
            WITH log <- rows, outcome <- status, seen <- shown,
                 Failures <- {Failed(t) : t \in 0..Duration}

ReaderSpec == Reader!Spec
=============================================================================
