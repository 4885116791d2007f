----------------------------- MODULE DurableRun -----------------------------
(***************************************************************************)
(* What a campaign run promises whoever reads it, with no drivers, tables  *)
(* or files: one event log that grows along the run's deterministic        *)
(* stream, may end in a single failure event, is never shown before it is  *)
(* in the log, and stops for good when the run is closed.                  *)
(***************************************************************************)
EXTENDS Naturals, Sequences

CONSTANTS Stream,     \* the events of the whole deterministic run
          Failures    \* the events that record a failure

VARIABLES log,        \* the recorded events
          outcome,    \* "absent", "running" or how the run was closed
          seen        \* the events shown, each with its sequence number

Init == log = <<>> /\ outcome = "absent" /\ seen = {}

Open == /\ outcome = "absent"
        /\ outcome' = "running"
        /\ UNCHANGED <<log, seen>>

Ended == log # <<>> /\ log[Len(log)] \in Failures

Extend ==
  /\ outcome = "running"
  /\ ~ Ended
  /\ \/ \E n \in (Len(log) + 1)..Len(Stream) : log' = SubSeq(Stream, 1, n)
     \/ \E f \in Failures : log' = Append(log, f)
  /\ SubSeq(log', 1, Len(log)) = log
  /\ UNCHANGED <<outcome, seen>>

InLog(s) == s.seq < Len(log) /\ log[s.seq + 1] = s.event

Show == /\ seen \subseteq seen'
        /\ \A s \in seen' : InLog(s)
        /\ UNCHANGED <<log, outcome>>

Close ==
  /\ outcome = "running"
  /\ \/ outcome' \in {"failed", "interrupted"}
     \/ outcome' = "completed" /\ log = Stream
  /\ UNCHANGED <<log, seen>>

Next == Open \/ Extend \/ Show \/ Close

Spec == Init /\ [][Next]_<<log, outcome, seen>>
=============================================================================
