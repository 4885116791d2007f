# AdLife Lab: a TLA+ model of its durable and concurrent core

AdLife Lab (`src/src/adlife`) simulates how people in a small synthetic population
meet and react to advertising. Most of it is pure, single-threaded computation pinned
by golden tests. What tests reach poorly is the machinery around that computation: a
run that must survive a kill at any instant, a local web workbench whose threads, event
loop and one worker share a lock, and a batch of network calls under a deadline. That
machinery is what these modules model, check with TLC and, for its safety, prove with TLAPS.

Paths below are relative to `src/src/adlife/` unless they begin with `src/`.

## 1. Inventory

### 1.1 Campaign simulation

| Component | State | Operations | Interacts with |
|---|---|---|---|
| `SQLiteRunStore` (`adapters/storage/sqlite_store.py`) | per run: status, event rows with contiguous sequences, checkpoints, recorded outcome (SQLite); `events.jsonl` export; `metrics.json` | create_run, append_events (rows in one transaction, then the export), rebuild_export, save_checkpoint, save_provider_usage, complete_run (document first, row second), load_run | the runner; readers (CLI replay and reports) |
| `SimulationRunner` (`core/simulation/runner.py`) | the model in memory; nothing of its own on disk | run, resume, the drive loop, the stop record | engine, cognition port, store, sinks, tick observer |
| `AdLifeModel`, `SimClock` (`core/simulation/engine.py`, `clock.py`) | clock, next event sequence, agents' state, the day's traversed edges and carried messages | plan_tick, commit_tick, checkpoint, complete, restore | runner; the rules below |
| `CognitionService` and cache (`adapters/cognition/service.py`, `cache.py`) | dispatches per agent over the run, cache files, the tasks of one batch | evaluate_many: look up, reserve in request order, call under a semaphore with retries and one repair, commit in request order or fall back | runner's cognition port, providers |
| `LiveRunController`, `TuiEventBus` (`tui/`) | the run's task, `_paused`, `_resume`, `_step_requests`, projections | start, pause, step, speed, stop; observer per tick | runner through its tick observer; keys and the run's task share one event loop |
| exposure, movement, social rules (`core/simulation/`) | none (functions of a snapshot and of the engine's accumulators) | allocate under the frequency caps, decide attention, plan shares within the day's bounds | engine |

*Hard here:* a kill between any two durable steps; a device that fails after a commit;
a stop record that may itself fail; the model in memory running ahead of the store; two
invocations on one run; calls that overlap, fail and are cancelled; keys pressed while a
tick is in flight; sinks that must never see what is later lost; a checkpoint that leaves
out the engine's accumulators; several deliveries or purchases judged in one tick.

*Correct means:* the stored stream is the run's one deterministic stream, cut anywhere,
never forked, skipped or repeated; nothing is shown before it is stored; a checkpoint
names exactly its prefix; a closed run accounts for its stream; the export never leads; what
answers a request does not depend on concurrency or on the keys pressed; a stop returns
and leaves no call in flight; caps and daily bounds hold over the run, and a restored engine
goes on exactly as the one that was checkpointed.

### 1.2 City simulation and workbench

| Component | State | Operations | Interacts with |
|---|---|---|---|
| `WorkbenchOperationState` (`city/workbench_providers.py`) | the one lease, closed flag, deque of recent check starts | begin_job, begin_check, begin_credential, finish, cancel_check, close | everything below, under the lock it owns |
| `CityJobManager` (`city/workbench_jobs.py`) | records, history, active id, leases, operations with keys, cancellation tokens, executor | submit, cancel, get, close; one worker thread | arbiter, run repository, cognition token |
| `WorkbenchProviderService`, compatibility registry, credentials | check records per revision and scope, last-check list, session keys, keyring | create, store_credential, check, approve_origin | arbiter, provider transport |
| `CityCognitionServiceV2` (`adapters/cognition/city_service_v2.py`) | worker tasks, semaphore, attempt states, deadline, cache | resolve_many | provider, token tripped by another thread, progress callback into the job manager |
| `CityRunStore` (`city/run_store.py`) | run directories: sidecars, then the manifest linked last | save, load, with every file held open for version 10 runs | repository |
| `WorkbenchRunRepository` (`city/workbench_runs.py`), the guide's story cache (`city/guide_web.py`) | memo of verified runs with its generation; memo of stories | preflight, evaluate, publish, verify, list, story | run store, job manager, requests in other threads |
| immutable registries, cache storage (`city/workbench_*_registry.py`, `adapters/cognition/city_cache_storage.py`) | files published by link, never overwritten; the registry lock; group directories | discover, create or register, publish | repository, provider control, cognition cache |
| workbench web application (`city/workbench_web.py`) | none beyond the above | routes; shutdown closes jobs, then forgets session keys | all of the above |
| city evaluation, metrics, reports, CLI, i18n, browser script | none that is shared | pure computation, rendering, polling | |

*Hard here:* blocks under one lock with long calls between them; a cancel that is
accepted under the lock and delivered after it; a submission that fails half-way; a
close that drains; awaits at which a client may disconnect; a key replaced while a
verdict about the old one is being recorded; a deadline, a cancellation and an answer
arriving together.

*Correct means:* one operation at a time and the lease always comes back; an accepted
cancellation is the answer; outcomes never change; no key outlives its job; a recorded
verdict is about the key in force; a batch ends, within its call budgets, and only
timely answers count; a saved run is whole and a loaded one was read whole; no cache
answers for bytes it did not verify; an immutable record is never partial, never replaced,
and its publisher is told the truth about it.

`PROJECT.json` lists every component with its status, and under `hazards` each place
where this code can go wrong in a way a test would hardly reach, with the properties
aimed at it.

## 2. Modules

| Module | Models | Composes or extends |
|---|---|---|
| `RunStore` | the durable side of a campaign run | |
| `RunDriver` | any number of `run`/`resume` invocations on it | EXTENDS `RunStore` |
| `DurableRun` | abstract: what readers of a run are promised | implemented by `RunDriver` (`ReaderSpec`) |
| `OperationArbiter` | the lease and the rate window, with the clock | |
| `JobManager` | the job manager with its worker, signalling threads and close | EXTENDS `OperationArbiter` |
| `JobLedger` | abstract: what a client that submits jobs is promised | implemented by `JobManager` (`LedgerSpec`) |
| `ProviderControl` | checks and key writes; checked only composed, in `Workbench` | EXTENDS `OperationArbiter` |
| `Workbench` | jobs, checks and key writes on one arbiter and key store | EXTENDS `JobManager`, `ProviderControl` |
| `CognitionBatch` | one `resolve_many` with its worker tasks | |
| `CampaignCognition` | one `evaluate_many` of the campaign's cognition service per tick | |
| `LiveRun` | the run's task under the dashboard, with its keys and its calls | EXTENDS `CampaignCognition` |
| `CampaignLedger` | abstract: what a run with cognition records | implemented by `LiveRun` (`LedgerSpec`) |
| `CampaignEngine` | what a tick plans and commits, and engines restored from checkpoints | |
| `RunPublication` | save and load of run directories, and what happens to the files from outside | |
| `RunRepository` | verification, listing and guide requests with their two memos | EXTENDS `RunPublication` |
| `RunArchive` | abstract: an id is claimed once and published by its claimant | implemented by `RunRepository` (`ArchiveSpec`) |
| `RecordPublication` | publication of immutable records in the three stores that do it | |
| `RunDriverProofs` | theorems about `RunDriver` | EXTENDS `RunDriver` |
| `JobManagerProofs` | theorems about `OperationArbiter` and `JobManager` | EXTENDS `JobManager` |
| `WorkbenchProofs` | theorems about `ProviderControl` and the composition | EXTENDS `Workbench`, `JobManagerProofs` |
| `CognitionBatchProofs` | theorems about `CognitionBatch` | EXTENDS `CognitionBatch` |
| `LiveRunProofs` | theorems about `CampaignCognition` and `LiveRun` | EXTENDS `LiveRun` |
| `CampaignEngineProofs` | theorems about `CampaignEngine` | EXTENDS `CampaignEngine` |
| `RunRepositoryProofs` | theorems about `RunPublication` and `RunRepository` | EXTENDS `RunRepository` |
| `RecordPublicationProofs` | theorems about `RecordPublication` | EXTENDS `RecordPublication` |

`MC*` modules give the constants values for TLC. A definition whose name ends in
`_Something` after the name of another (`Outside`, `Outside_Early`) is a plausible slip in
that definition, kept beside it to show which property would notice; no specification
uses one.

### 2.1 `RunStore` and `RunDriver`

`rows` is the events table, `export` the JSONL file (its last line may be `Torn`),
`checkpoints` the checkpoint table, `status` and `result` the run's row, `metrics` the
document. A transaction is one action. `append_events` is two, because the rows commit
before the export is extended: `AppendCommits` then `ExportExtends`, or `ExportStops`
(`ExportNotExtended`: some whole lines and perhaps a torn one were written). So is
`complete_run`: `CloseChecked` (status and count read, document written) and
`CloseCommits` (the UPDATE, which does not look at the status again).

A driver is one process. Its memory is `clock`, `next` (the model's next sequence),
`batch` and `verdict`; `pc` says before which durable step it stands. One pass of the
loop of `_drive` is `CommitTick`, append, `Publish` (sinks, then the clock advances),
`SaveCheckpoint` at a day's end, and the head again, where the tick observer and the
cognition port are awaited. Every step has a variant that stops, as a failure or as an
interruption; the stop record is `StopSilently`, `StopRecorded` or `StopUnrecorded`,
with its own export step, and then the close. `Killed` takes a live driver at any
point. `Resume` loads, applies `resume`'s refusals and restores.

What a tick decides is a constant: `Stream` is the run's whole event stream and `Upto[t]`
the number of its events before tick `t`. That is the engine's contract (scenario, seed
and parameters are frozen and compared by `resume`), and every property here is about
whether the machinery preserves that one stream. `Repair` (`rebuild_export`) is offline:
no code under `src/src` calls it, so the model takes it when no driver lives.

### 2.2 `OperationArbiter`, `JobManager`, `JobLedger`

A block the code runs under the shared lock is one action. The repository calls
(evaluate, publish, verify) run outside it: `Advance` enters a phase and the worker is
`calling` until `CallReturns` or `CallRaises`; anything may happen in between. `Path`
gives the phases of the three routes. `Cancel` marks the record and takes the token
under the lock; `Signal` trips it later. `close` is four steps: the arbiter
(`CloseBegins`), the manager's flag and the request (`CloseFlags`), the token
(`CloseSignals`), and the executor drained (`CloseReturns`). `SubmitFails` is the
executor that refuses: in one of its forms the work item is already queued when the
thread fails to start, and `TakeGhost` is the worker meeting it later. `CallRaises`
covers ordinary failures, a cancelled evaluation and a hard worker interruption, with
`Verdict` choosing the outcome as `_fail` does.

`JobLedger` says what a client may rely on without any of that: one unfinished job, an
accepted cancellation is final and unpublished, a completed job is public, outcomes
never change, only the latest `MaxTerminal` are kept, and every job settles.

### 2.3 `ProviderControl` and `Workbench`

`check` is cut at its awaits and at its locked blocks: `CheckBegins` (lease and rate, then
the revision is loaded: one that is not listed ends the check, with its start already
counted), `CheckRefused` (the window is full: the deque is pruned and nothing else happens),
`CheckBinds` (profile and key), `CheckAnswers` or `CheckAbandoned`, `CheckCleansUp` (the
provider's close, itself cancellable), `CheckSettles` (record and release).
`store_credential` touches three stores in an order the properties are about: the list
of last checks (`WriteLists`), the registry (`WriteInvalidates`), the key (`WriteStores`,
which may fail), then the release (`WriteEnds`). `Resolve` is the precedence session key,
keyring, environment. Keyring and environment are not changed by anyone else, and all
revisions are of one remote origin, the case in which they share a key.

`Workbench` puts a job, checks and writes on one arbiter. `SubmitPreflighted` runs the
preflight inside `submit`'s lock; `Forget` is the application's shutdown after `close`.

### 2.4 `CognitionBatch`

One `resolve_many`: the cache scan, one worker task per pending question, the semaphore,
retries and repairs, the collecting loop, the aggregate deadline, cancellation from a
request thread, the close of the provider, and one publication step per cache record.
The provider may answer validly or not, fail transiently or permanently, raise an
unexpected exception, or never answer. A worker that is cancelled unwinds: it raises,
or returns late, or fails in its own cleanup; the transport re-raises `CancelledError`
(`adapters/cognition/city_provider_transport.py:457-468`, `657-667`), so none goes on
calling. Which waiting worker the semaphore admits is left open. `Teardown` is
`asyncio.run` cancelling what the coroutine left behind.

### 2.5 `CampaignCognition`, `LiveRun`, `CampaignLedger`

A request is its position in the run's request order. `OpenBatch` is `evaluate_many` up to
its task group: cache hits, then `_reserve`, which charges the budget for everyone in
request order before any task runs. `TakeSlot`, `Reply`, `Retry` and `Unwind` are the
tasks; `AfterReply` is the retry and repair policy as a function of what the provider has
said so far. A reply of `"defect"` is any exception that is no `CognitionError`: it leaves
the task group, which cancels the others and waits for them (`GroupLeft`). `Source` is what
`_commit` answers with and `Stored` what it writes to the cache; `CommitStopsAt` is a commit
that breaks off in the middle.

`LiveRun` puts these on the drive loop. An action of the run's task is a stretch between two
awaits, or part of one; a key is handled only while the task is `Suspended`. `resume` is
the event, `woken` says that the parked observer's wait has been granted (a cleared event does
not take that back). `since` is history, for the one property about `step`. The store is one step
per tick here; what it does inside is `RunDriver`'s subject.

`CampaignLedger` has no tasks, retries, keys or pauses: a tick is recorded whole, the set of
funded requests is the one that request order and budget determine, and a run ends in one
of three ways.

### 2.6 `RunPublication`, `RunRepository`, `RunArchive`

A run directory is `disk[id]`: file 0 is the manifest, 1 to `Docs` are the sidecars in the
order of writing. A file's content is the run it was made from, its stamp stands for
identity, size and times. `save` is `Ensure`, `Reserve` (mkdir), `WriteDoc` and `ReadBack` per
sidecar, `Evidence` (all sidecars compared once more), `Link`, `CheckManifest` and `Release`
(held sidecars compared when closed); `load` is `ReadManifest`, `Pin`, `ReadDoc` per sidecar,
`Close`. `Pinned` savers write version 10 runs, which hold their files open; earlier
versions do not, and get the weaker promises. `Replace`, `Damage` and `Remove` are other
users of the filesystem, between any two reads.

`RunRepository` adds requests: `verify` (the worker, after publishing), `list` and `story`.
Each observes the run file by file, recalls or loads, observes again and only then
remembers. `memo[id].born` is the generation that keeps a listing from evicting an entry
newer than its scan.

### 2.7 `RecordPublication`

The provider registry, the city registry and the byte storage of the cognition caches, one
at a time (`store`). `Begin` takes the registry lock, `Discover` reads the registry and
refuses, `MakeGroup` makes a group directory, then the stage is opened and filled, linked,
verified, the stage is released, and the record confirmed. `LinkFails` is a link that raises
whether or not it happened; what a store may then conclude is `RegistryEvidence`,
`CityEvidence` or `CacheEvidence`, which differ in the code as they do here.

`LinkExists` is the `FileExistsError`. The registry and the caches take it for another's
file without a look. The city registry compares identities (`Relation`): its own file
carries the publication on, another's is a conflict, one it cannot tell leaves it in doubt.
A file system may report so a link that it made, as a retransmitted request can; `misled`
remembers the publishers that met it. `ReleaseStage` closes the stage; the city registry empties
it first when its link has not returned, which the path of its own file reaches. What that
does is said under *Observed* in section 3.

`Undo` empties a stage that cannot be a record and takes back a
group directory. `Fault` is an I/O error or an interrupt anywhere, `Kill` the end of the
process, `Intrude` a foreign file. On Linux a record and its stage are one file, which is
why emptying a stage can destroy a record.

### 2.8 `CampaignEngine`

`live` is the engine of a run: its clock, its next event sequence, the agents' `states`
(where they are, whether a need is active, budget, exposure counts) and the two day-scoped
accumulators, the `edges` a campaign has crossed and the `messages` its senders have sent.
`twins` are the engines restored from its checkpoints. `talk` (the day's messages, each with
its minute and its cause, so that an exact repeat is one message more) and `paid` are history.
`Tick` is `plan_tick`, the commit in its stable order and the clock's advance: `Opportunities` are the deliveries (`Delivered` walks an agent's placements
in sampling order, counting what this tick already delivers), `Accepted` the shares,
`Bought` and `Spent` the purchase proxy, and at a day's end the accumulators are cleared.
`Restore` is `checkpoint` and `restore` at a day boundary: the accumulators are not in a
checkpoint.

A draw of the seeded oracle depends only on the seed and on what it is keyed with, so it is
a choice (`Decisions`) that the live engine and its twins get alike. `Candidates` has one share
for each placement an agent heeded: those of one campaign have the draw and the contact in
common and differ in their cause. `Accepted` is the greedy loop over them in closed form: an
agent sends a campaign to one contact per tick, so what conflicts is a share of the same
sender for a later cause, or of two agents that pick each other, and the first in order
speaks. `Bought`
judges every campaign on the state before the first purchase and `Spent` keeps the last
result, as the loop of stage 8 does. Events are counted, not named; scores, sentiments,
memories and the weighting of contacts are left out.

## 3. Runs

| Run | Bounds | What it shows |
|---|---|---|
| `recovery` | 3 drivers, 1 alive at a time; 4 ticks, 2-tick days; ticks of 0, 1 and 2 events | a run crashed, failed or interrupted anywhere and resumed twice keeps one canonical stream, shows nothing it has not stored, has exact checkpoints and exact resumes, an export that never leads, and a close that accounts for the stream; it implements `DurableRun` |
| `unended` | as `recovery` | counterexample: a failed run whose stream simply stops (finding 1) |
| `overlap_close` | 2 drivers, both alive | counterexample: a closed run closed again (finding 2) |
| `live` | 2 ticks, 5 requests of 3 agents, budgets of 2 per agent and 3 in all, 2 slots, 2 attempts, 3 keys | what is recorded is what `CampaignLedger` allows; no call outlives its run; stop returns |
| `stepping` | 5 ticks without requests, 6 keys | counterexample: a step that advances two ticks (finding 3) |
| `engine` | 3 agents, 2 campaigns, 3 placements with caps of 3, 2 days of 3 ticks, 2 kinds of tie | caps hold though a tick delivers several placements; a campaign's message leaves a sender once a day and crosses an edge once a day; a restored engine is the same engine |
| `purchases` | 1 agent in need, 2 campaigns on its phone | counterexample: two purchases, one payment (finding 4) |
| `jobs` | one job of each route, one other lease holder, history of 2 | lease, history, secrets, tokens and views agree in every interleaving; close drains; `JobLedger` is implemented, with its liveness |
| `workbench` | 1 job, 2 checks, 1 write, 2 revisions, 2 keys, 2 scopes; 1 check start per 2 seconds, clock to 2 | the job's key is the checked one; no record is about a key that is no longer in force, none comes from a cancelled check; the rate limit is exact on both sides; the lease comes back |
| `batch` | 4 questions (3 funded), 2 slots, 1 retry, 1 repair | call, retry and repair budgets, progress, the deadline rule, orphans, cache discipline; the batch ends |
| `runs` | 1 run id, two saves (version 10 and earlier) or one save and two requests, 2 sidecars, 2 edits from outside | saved runs and loaded version 10 runs are whole, a cache answers only for bytes it verified, a listing forgets only what is stale; it implements `RunArchive` |
| `records` | 3 publishers, two of one name, a group limit and a record limit, 2 foreign files, each store | records are never replaced and whole, except for a publisher misled by a late report of its link; an outcome is the truth, with the same exception outside the city registry; the lock comes back |

Why the bounds suffice. Three drivers are a run and two resumes, enough for a resume of
a resumed run. Overlapping drivers are run only in `overlap_close`, the instance in which
they go wrong; that they keep the stream is proved for any number of them. Four ticks hold a
quiet tick, a tick of two events (so the export can be cut inside a batch), a mid-run and
a final day boundary. Three jobs overflow a history of two, one per route. Two checks and
a write let each kind race the other, and two checks race one another. Four questions on
two slots leave a worker waiting, one question is unfunded, and any may already be cached.
In `live` the first tick has more requests than slots and one agent at its limit, the second
meets both limits; any request may already be recorded. In `runs` a second edit can put
back what the first took away, which is what a comparison by content alone misses. In
`records` two publishers race for one name, a third shares the limits. In `workbench` two checks meet a limit of one start per window, and the clock
reaches the instant at which the window has just passed, where both sides of the limit could
be wrong; in `jobs` the only check that starts is admitted and `Horizon = 0`. In `engine` two
placements of one campaign open in one tick with one delivery left under their cap, a
second day begins with counts and without accumulators, and a pair may pick each other.

No run uses symmetry. Deadlock checking is off in every run because every
one of these systems may stop: runs close, the server shuts down, a batch returns.

The findings in `PROJECT.json` are the four `violation` runs.

1. `_record_stop`'s docstring promises that a failed run's stream ends in `run.failed`.
   When the stop was caused by an export that could not be extended, the store refuses
   the append of `run.failed` for the very same reason, the refusal is swallowed, and
   the run is closed as failed with a stream that simply stops.
2. A closed run "accepts no further writes", but `complete_run` checks the status
   outside its transaction: of two overlapping drivers both may close. The command line
   never calls `resume`, so today this needs a caller of the library.
3. `LiveRunController.step` says "Advance exactly one tick, parking again if the run is
   paused" (`tui/controller.py:112`). Step requests are counted, and lifting the pause does not
   clear them: two steps on a parked run, the pause lifted before the second tick and set
   again, leave a request in the count, and the next step on the standing run lets two
   ticks through before the gate closes.
4. An agent in need that noticed two campaigns in one tick buys both: each purchase is
   judged and applied on the state it had before the first (`core/simulation/engine.py:753`),
   so two purchases are recorded, the budget pays for the last alone, one need is satisfied
   twice, and the memory of the first purchase is lost although its event is recorded.

*Observed.* Two exceptions in the properties of `records` are behaviour of the code, on a file
system that reports a link it made as existing already. Without either exception TLC finds a
counterexample.

- "Ambiguous completion must only release the handle", says the city registry
  (`city/workbench_city_registry.py:1628`), and its undoing keeps to it. After such a report,
  though, `_publish` recognises its own file (1917), goes on, and its ordinary release of the
  stage (1952, 1856-1862) takes the link for one that did not return: the record is emptied, and
  the caller is told that it may have been published. The repository's late signal is injected
  after the link has returned, where the release empties nothing.
- "Once a hard-link may have committed, truncation is forbidden"
  (`city/workbench_immutable_registry.py:743`), but both users of that rule take every
  `FileExistsError` for another's file (1041; `adapters/cognition/city_cache_storage.py:292`), so
  the provider registry or a cache empties its own record and reports a conflict.

## 4. Fairness

`RunDriver` has none: all its properties are safety, a driver may be killed anywhere.

`JobManager` assumes weak fairness of the worker thread, of a `close` that has begun, and
of a thread that took a token and must trip it: all are threads the operating system
schedules. That includes that a repository call ends: evaluation is a bounded
computation, and cognition has an aggregate deadline that the planner fixes (180 seconds
for explanations, 1800 for bounded cognition). Nothing makes a client submit, cancel or close.

`ProviderControl` and `Workbench` assume weak fairness of a check and of a write under
way: a check runs under a deadline of 60 or 120 seconds, a write calls the keyring. Nothing
makes a client start one, or disconnect.

`LiveRun` assumes the event loop runs whatever is ready (`Drive`), and that a provider call
and a retry delay end: both have timeouts. Nothing makes anyone press a key.

`RecordPublication` assumes a publisher under way goes on, unless it is killed; it is what
`LockComesBack` needs. `RunPublication`, `RunRepository` and `CampaignEngine` assume
nothing: their properties are safety.

`CognitionBatch` assumes the event loop is scheduled, the deadline's timer fires and a
cancelled task unwinds. Nothing makes a provider answer.

## 5. Proofs

The theorems hold for every value of the constants that satisfies the named assumptions:
`TornAssumption` and `DriverAssumption` (the stream and its ticks), `ArbiterAssumption`,
`JobAssumption`, `ProviderAssumption`, `WorkbenchAssumption`, `BatchAssumption`,
`CampaignAssumption` (the requests are a finite sequence ordered by tick), `SizesAreNat`,
`PlacementsAreTyped` and `TiesArePairs`, `PublicationAssumption` (a save is none of the values
that stand for a missing or a damaged file) and `RecordAssumption`. So for any number of
drivers, jobs, checks, writes, questions, requests, saves, readers and publishers, any
budgets, limits and windows. Two theorems assume more, and say so.

Every safety property that a passing run checks is a theorem, the four refinements
included. An invariant a run checks is hardly ever inductive; each module states the one that
is as a conjunction of named parts, proves that the initial states satisfy it and every
action preserves it, and reads the properties off it.

**`RunDriverProofs`.** Four layers, each using the ones before it. `Placed` is `TypeOK`
with, for each driver, where its batch lies: at `append`, `export` and `sinks` the batch ends at
`next` (so the sequence offered to a sink is a natural number), the clock is below `Duration`
while a tick is being handled, and so on. `Kept` adds what a live driver may rely on in the
store (`Holds`): at `append`, that the rows begin with the stream up to its batch's first
sequence; after a successful append, with the stream up to its own `next`; at `stopExport`,
that its `run.failed` is the row it minted. These prefixes stay true whatever other drivers do
because rows are only ever appended. The crux is the append: the store compares the batch's
first sequence with the number of rows, so a driver that was overtaken is refused and one that
is not extends the stream exactly. `StreamStaysCanonical`, `ShownIsStored`,
`CheckpointsStayExact` and `ResumeStaysExact` follow. `Exported` is about the JSONL file: the
store measures the export before it admits an append, so of all the overlapping drivers at most
one stands between the rows' commit and the export append, and while it does the export is
short of the rows by exactly its batch; otherwise the export is equal to the rows or behind
them until the next driver rebuilds it. `ExportStaysBehind` follows. `Accounted` follows the one
live driver through the close of a run, and `ClosedRunsAccount` is proved from it under
`MaxLive = 1` and finitely many drivers. `ReadersSeeTheDurableRun`, the refinement of
`DurableRun`, needs in addition `Unended`: a driver on its way through the ticks finds the stream
and nothing else in the rows, so the first end that is written is the only one. It has the same
two hypotheses. The first is needed: `overlap_close` is the run in which two drivers close one
run. The second counts the live drivers.

**`JobManagerProofs`.** For the arbiter, `Windowed` relates the pruned deque `starts` to the
history `began` of all admissions: the deque is a suffix of the history, what was pruned is out
of the window for good because the clock only advances, and the deque never holds more than
`MaxStarts`. Both sides of the limit follow, `RateAlwaysHolds` and `RefusedAlwaysForCause`. For
the job manager, `JobsInOrder` says where everything the code keeps in separate maps is at any
moment. Its heart is `DeskInOrder`: the executor holds every queued item once, the unfinished job
is one of them or the item at work, and an item of a rolled back submission can be there too,
which is why a ghost that the worker meets later cannot end anyone else's job. The rest is the
lease, the records on their routes, the history, the secrets, the close and what is public.
The five invariants of the run follow, with a counting lemma for the history: a sequence
without repetitions has as many elements as its range. `JobsKeepTheLedger` is the safety part of
`LedgerSpec` (its liveness is not: see below); the hard step is the end of a job, where the
worker's outcome and the eviction of the oldest record are one step of the ledger.

**`WorkbenchProofs`.** The argument is who holds the lease. A check or a write that is under way
holds it (`UnderWayHolds`), so no job is unfinished and no other check or write is under way;
what it resolved when it began is therefore still so when it ends (`ChecksAreCurrent`), and what
a write is about to change has no verdict left when it does (`WritesCover`). With
`RegistryInOrder` this gives `RecordsAlwaysCurrent`. A job is admitted with its verdict checked
inside the same lock, and keeps the lease until it ends: `JobsAlwaysOnCheckedKey`. The steps of
jobs are those of `JobManagerProofs`, used as lemmas; the rate theorems show that neither jobs
nor writes disturb `Windowed`.

**`CognitionBatchProofs`.** `BatchInOrder`: a worker that is about to call has paid for every call
it made, one that is calling may owe its first (`AccountsInOrder`); a worker exists for a funded
question alone and an outcome is read only from one that has ended (`WorkersInOrder`); between
the scan and the close each funded question has a worker or a cached answer (`Scanned`); and the
reported count is the number of outcomes until the batch ends (`StagesInOrder`).

**`LiveRunProofs`.** `CallsInOrder` gives `CallsAlwaysEndWithTheRun`. `RunKeepsTheLedger` needs that
`_spent`, which is charged before any call is made and only ever added to, is at each moment
the number of requests that the ledger counts as charged or that the open batch has funded
(`SpendingInOrder`), although the code compares totals over all agents and the ledger counts
sets: `TotalIsCounted` shows that the two agree. The code walks the requests in order and
reserves for whoever it can; `ReservedIsFunded` shows that what this walk returns is the one set the ledger
describes. After an answer the policy must never leave a request without one
(`AnswersInOrder`), unless the batch was broken off.

**`CampaignEngineProofs`.** What a restored engine does next depends on its accumulators, which a
checkpoint does not carry, so agreement on clock, sequence and states is not inductive.
`TwinsAreLive` adds that a twin equals the live engine whole, and that at a day boundary the
live accumulators are empty: that is why it holds at a restore, and a tick preserves it
because a tick is a function of the engine and the draws. `TalkIsSound` relates the history of
a day's messages to the accumulators, which within the day hold the keys of every message
sent: what is said now has fresh keys, so no message said before has its sender, receiver and
campaign, or its edge. Two accepted in one tick with the same ones would have causes in
order (`DeliveredRange`: a cause is a placement, so two causes compare), and the later is dropped. `CapsAlwaysHold` rests on `DeliveredStaysWithin`:
the batch of one tick is grown placement by placement, and a count that was under a bound on
the caps of its campaign and channel is still under it with the batch added (`Within`).

**`RunRepositoryProofs`.** Everything rests on one fact about a file: whoever comes back to a stamp
he has seen finds what he found then, because every change moves the stamp forward. `Since` says
it of one observation and the file as it is now. So a saver that compares all its held sidecars
once more after writing them knows that they were in place together (`SaverInOrder`), a pinned
load knows the same of what it read (`LoadInOrder`), and a request that observed, loaded and
observed again knows that what it remembers is a verdict on exactly those bytes
(`VisitInOrder`, `CachesInOrder`). `ListingInOrder` is about the generation: an entry no younger
than the scan that did not find its run describes files that have changed since.

**`RecordPublicationProofs`.** A publisher knows less than the file system: a link that raised may
have happened. `CallsInOrder` says what it may conclude from where it stands: its record cannot
be there before its stage was whole, and once it may be, no step lets the publisher report
failure, or empty the stage, without evidence that the record is not its own. Where the name
was found to exist the evidence is that report. It holds for a publisher that was not misled,
and in the city registry, which looks (`Knows`); a publisher that was not misled reaches the
release of its stage only with a link that returned, so nothing is emptied there (`ReleaseKeeps`).

Two recursions over data are proved about without an induction theorem, which the provers here
cannot instantiate. `EveryNatural` takes the counterexamples as a set instead of the property as
an operator and derives a contradiction from the least of them; `Delivered`, the reservation
walk and the total spent are recursive functions or folds, and each is first shown to be the
last of a sequence of partial results.

Writing the proofs changed the model in four places. `AfterReply` was a CASE with two arms that
could both hold, for an answer that is a defect after a repair: TLC took the first, TLA+ leaves
it open; it is now the code's chain of conditions. `CheckBegins` and `WriteBegins` required a
listed revision, which the code looks up only after the lease and the start are taken. A check
refused for its rate was missing from `ProviderControl`. And four assumptions that every
instance satisfied had not been stated: that a save is no file content, that placements are
typed, that the requests are a sequence, that one scope is the explanations'.

Only model-checked, and why. Liveness under fairness is out of the prover's reach:
`CloseDrains`, the liveness part of the jobs' `LedgerSpec`, `ArbiterComesBack`, `Resolves`,
`StopReturns` and `LockComesBack`. The four violation runs are counterexamples, and no theorem is
wanted for what they refute. The arbiter's own next-state relation is not run by itself: TLC
meets its actions in `jobs` and `workbench`.

## 6. Plan

Order: what a user cannot get back first, then what is concurrent, then what is pure.

1. Run recovery: `RunStore`, `RunDriver`, `DurableRun`. *Done*, safety and refinement proved.
2. The workbench: `OperationArbiter`, `JobManager`, `JobLedger`, `ProviderControl`,
   `Workbench`. *Done*, safety and the safe part of the refinement proved.
3. `CognitionBatch`. *Done*, safety proved.
4. `RunPublication`, `RunRepository`, `RunArchive`. *Done*, safety and refinement proved.
5. `RecordPublication`, for the registries and the cache storage. *Done*, safety proved.
6. `CampaignCognition` with `CampaignLedger`, and 7. `LiveRun` on top of it. *Done*, safety
   and refinement proved.
8. `CampaignEngine`. *Done*, safety proved.
9. To prove next: what overlapping drivers still keep of `DurableRun` (all but the single
   close), and that the reservation of `CampaignCognition` never lets an agent or the run
   pass its budget, as a corollary of the ledger.
10. Pure operators of the city side: the planner's funding order and the origin registry's
   limit, each against a reference definition over bounded inputs. Not begun.

No module that is proved about declares a RECURSIVE operator; proofs live in `*Proofs`
modules.

## 7. Not modelled

Most of this repository is pure: evaluation, validation, reconstruction of documents,
statistics, rendering. These modules cover the part that keeps state or meets the
outside, which is a small share of the lines. Left out, with the reason:

- privacy screening and document validation and reconstruction: they refuse before
  anything is written, or compare two documents, which is one value here;
- SQLite's own atomicity and fsync, taken as given, and the interpreter's memory model
  (state shared between threads is under locks);
- the Windows and macOS primitives that clone, link and hold files; the model is of Linux;
- the LRU limit of the two memos, and a directory scan cut short at its candidate limit:
  such a scan may evict memo entries of runs that still exist, which costs a verification;
- `set_speed` beyond the length of the pause between ticks, the event bus's projections and
  the widgets;
- `rebuild_export` beside a live driver: no code calls it;
- routines and the response formulas, memories, the similarity that weights a choice among
  contacts, the travel network of the city, spatial evaluation and metrics: numeric and
  single-threaded, pinned by golden tests; where agents go is a choice in `CampaignEngine`;
- the refusals of a plan or an answer that does not fit its tick: a defect in the program,
  which stops the run before anything is committed;
- the planning of city cognition and the origin registry;
- HTTP parsing, views, the CLI, i18n, the browser script, release scripts.

A group directory that a killed or doubtful publication leaves behind counts against
`max_groups` in the model as in the code. Components not modelled are marked so in `PROJECT.json`.
