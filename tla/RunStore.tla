------------------------------ MODULE RunStore ------------------------------
(***************************************************************************)
(* The durable artifact of one campaign run, as SQLiteRunStore keeps it:   *)
(* the `runs` row, the `events` and `checkpoints` tables, the derived      *)
(* events.jsonl export and the metrics.json document, with one operator    *)
(* per store call.  The operators are the building blocks of the actions   *)
(* in RunDriver; each names only the store's own variables.                *)
(*                                                                         *)
(* An event is an element of Event; the store never looks inside it beyond *)
(* its sequence number, which is its position in `rows` minus one.  The    *)
(* contiguity re-check of _read_open_run is the fact that `rows` is a      *)
(* sequence.  Torn is the unterminated last line a failed write leaves.    *)
(***************************************************************************)
EXTENDS Naturals, Sequences

CONSTANTS Event,      \* the events a run can record
          Torn        \* a partial export line, never equal to an event

ASSUME TornAssumption == Torn \notin Event

VARIABLES status,       \* runs.status, "absent" before create_run
          rows,         \* the events table, in sequence order
          export,       \* events.jsonl, line by line
          checkpoints,  \* the checkpoints table
          metrics,      \* the result metrics.json holds
          result        \* runs.result_json

store == <<status, rows, export, checkpoints, metrics, result>>

Outcomes == {"completed", "failed", "interrupted"}

NoResult == [status |-> "none", count |-> 0, minute |-> 0]

StoreInit ==
  /\ status = "absent"
  /\ rows = <<>>
  /\ export = <<>>
  /\ checkpoints = {}
  /\ metrics = NoResult
  /\ result = NoResult

(* create_run publishes the finished directory in one rename. *)
CreateRun ==
  /\ status' = "running"
  /\ UNCHANGED <<rows, export, checkpoints, metrics, result>>

-----------------------------------------------------------------------------
(* append_events: everything that can refuse the batch, then one           *)
(* transaction, then the export append outside it.                         *)

(* A slip: an export nobody measures. *)
ExportAgrees_Unmeasured == TRUE

(* The byte length of the file against MAX(export_offset) of the rows. *)
ExportAgrees ==
  /\ Len(export) = Len(rows)
  /\ \A i \in 1..Len(export) : export[i] # Torn

(* A slip: a batch nobody checks for contiguity. *)
AppendAdmitted_AnySequence(first) == status = "running" /\ ExportAgrees

AppendAdmitted(first) ==
  /\ status = "running"
  /\ ExportAgrees
  /\ first = Len(rows)

CommitRows(batch) ==
  /\ rows' = rows \o batch
  /\ UNCHANGED <<status, export, checkpoints, metrics, result>>

ExtendExport(batch) ==
  /\ export' = export \o batch
  /\ UNCHANGED <<status, rows, checkpoints, metrics, result>>

(* A kill or a full device part way through the export write: some leading *)
(* lines land, perhaps followed by a fragment of the next one.             *)
CutExport(batch) ==
  /\ \E k \in 0..Len(batch) :
       \/ export' = export \o SubSeq(batch, 1, k)
       \/ /\ k < Len(batch)
          /\ export' = export \o Append(SubSeq(batch, 1, k), Torn)
  /\ UNCHANGED <<status, rows, checkpoints, metrics, result>>

(* rebuild_export: the rows, streamed to a sibling and moved over the file. *)
RebuildExport ==
  /\ status # "absent"
  /\ export' = rows
  /\ UNCHANGED <<status, rows, checkpoints, metrics, result>>

-----------------------------------------------------------------------------
CheckpointAdmitted(c) ==
  /\ status = "running"
  /\ c.next = Len(rows)
  /\ \A e \in checkpoints : e.minute # c.minute

StoreCheckpoint(c) ==
  /\ checkpoints' = checkpoints \cup {c}
  /\ UNCHANGED <<status, rows, export, metrics, result>>

(* A slip: a result whose event count nobody compares with the rows. *)
CloseAdmitted_AnyCount(r) == status = "running"

(* complete_run reads the open run in autocommit, writes the document, and *)
(* updates the row in a later transaction that does not look again.        *)
CloseAdmitted(r) ==
  /\ status = "running"
  /\ r.count = Len(rows)

WriteMetrics(r) ==
  /\ metrics' = r
  /\ UNCHANGED <<status, rows, export, checkpoints, result>>

CommitOutcome(r) ==
  /\ status' = r.status
  /\ result' = r
  /\ UNCHANGED <<rows, export, checkpoints, metrics>>

-----------------------------------------------------------------------------
(* load_run verifies every artifact against every other one. *)
Readable ==
  /\ status # "absent"
  /\ export = rows
  /\ \A c \in checkpoints : c.next <= Len(rows)
  /\ status # "running" => /\ result.status = status
                           /\ result.count = Len(rows)
                           /\ metrics = result

(* Where a stored run may be restored: its latest checkpoint, or the state *)
(* the scenario starts from while it has none.                             *)
RestorePoints ==
  IF checkpoints = {}
  THEN {[minute |-> 0, next |-> 1]}
  ELSE {c \in checkpoints : \A e \in checkpoints : e.minute <= c.minute}
=============================================================================
