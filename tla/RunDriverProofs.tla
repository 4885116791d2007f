--------------------------- MODULE RunDriverProofs --------------------------
(***************************************************************************)
(* For every run length and every deterministic stream, and however many   *)
(* drivers overlap, fail and are killed: the shape of the state, what is   *)
(* stored, shown and checkpointed, and what the export holds.  What a      *)
(* closed run accounts for, and that readers see one durable run, is       *)
(* proved for drivers that do not overlap: two that do may both close it.  *)
(***************************************************************************)
EXTENDS RunDriver, FiniteSetTheorems, SequenceTheorems, TLAPS

(* The bounds of tick t lie in order inside the stream. *)
LEMMA UptoBounds ==
  ASSUME NEW t \in 0..(Duration - 1)
  PROVE  /\ t \in 0..Duration /\ t + 1 \in 0..Duration
         /\ Upto[t] \in Nat /\ Upto[t + 1] \in Nat /\ Len(Stream) \in Nat
         /\ 1 <= Upto[t] /\ Upto[t] <= Upto[t + 1] /\ Upto[t + 1] <= Len(Stream)
<1>1. /\ t \in 0..Duration /\ t + 1 \in 0..Duration
      /\ 0 \in 0..Duration /\ Duration \in 0..Duration
      /\ 0 <= t /\ t <= t + 1 /\ t + 1 <= Duration
  BY DriverAssumption
<1>2. \A s \in 0..Duration : Upto[s] \in Nat
  BY DriverAssumption
<1> QED
  BY <1>1, <1>2, DriverAssumption

(* A tick's batch is the slice of the stream between its two bounds. *)
LEMMA TickBatchSlice ==
  ASSUME NEW t \in 0..(Duration - 1)
  PROVE  /\ TickBatch(t) \in Seq(Event)
         /\ Len(TickBatch(t)) = Upto[t + 1] - Upto[t]
         /\ \A i \in 1..Len(TickBatch(t)) : TickBatch(t)[i] = Stream[Upto[t] + i]
<1> DEFINE m == Upto[t] + 1
           n == Upto[t + 1]
<1>1. /\ m \in Int /\ n \in Int /\ 1 <= m /\ n <= Len(Stream) /\ m <= n + 1
      /\ Upto[t] \in Nat /\ Len(Stream) \in Nat
  BY UptoBounds
<1>2. \A i \in m..n : Stream[i] \in Event
  <2>1. Stream \in Seq(Event)
    BY DriverAssumption
  <2> QED
    BY <1>1, <2>1, ElementOfSeq
<1>3. /\ SubSeq(Stream, m, n) \in Seq(Event)
      /\ Len(SubSeq(Stream, m, n)) = IF m <= n THEN n - m + 1 ELSE 0
      /\ \A i \in 1..(n - m + 1) : SubSeq(Stream, m, n)[i] = Stream[m + i - 1]
  <2> HIDE DEF m, n
  <2> QED
    BY <1>1, <1>2, SubSeqProperties
<1>4. Len(TickBatch(t)) = n - m + 1
  BY <1>1, <1>3 DEF TickBatch
<1>5. ASSUME NEW i \in 1..Len(TickBatch(t))
      PROVE  TickBatch(t)[i] = Stream[Upto[t] + i]
  <2>1. i \in 1..(n - m + 1) /\ i \in Nat
    BY <1>1, <1>4, <1>5
  <2>2. TickBatch(t)[i] = Stream[m + i - 1]
    BY <1>3, <2>1 DEF TickBatch
  <2> QED
    BY <1>1, <2>1, <2>2
<1>6. TickBatch(t) \in Seq(Event)
  BY <1>3 DEF TickBatch
<1>7. Len(TickBatch(t)) = Upto[t + 1] - Upto[t]
  BY <1>1, <1>4
<1> QED
  BY <1>5, <1>6, <1>7

(* The start batch is the first event of the stream. *)
LEMMA StartBatchSlice ==
  /\ StartBatch \in Seq(Event)
  /\ Len(StartBatch) = 1
  /\ StartBatch[1] = Stream[1]
<1>1. Stream \in Seq(Event) /\ 1 <= Len(Stream) /\ Len(Stream) \in Nat
  <2>1. 0 \in 0..(Duration - 1)
    BY DriverAssumption
  <2> QED
    BY <2>1, UptoBounds, DriverAssumption
<1>2. \A i \in 1..1 : Stream[i] \in Event
  BY <1>1, ElementOfSeq
<1>3. /\ SubSeq(Stream, 1, 1) \in Seq(Event)
      /\ Len(SubSeq(Stream, 1, 1)) = 1
      /\ \A i \in 1..1 : SubSeq(Stream, 1, 1)[i] = Stream[1 + i - 1]
  BY <1>2, SubSeqProperties
<1> QED
  BY <1>3 DEF StartBatch

(* What a cut export may hold is still a sequence of lines. *)
LEMMA CutExportType ==
  ASSUME NEW b \in Seq(Event), export \in Seq(Event \cup {Torn}), CutExport(b)
  PROVE  export' \in Seq(Event \cup {Torn})
<1>1. PICK k \in 0..Len(b) :
        \/ export' = export \o SubSeq(b, 1, k)
        \/ export' = export \o Append(SubSeq(b, 1, k), Torn)
  BY DEF CutExport
<1>2. Len(b) \in Nat /\ k \in Int
  BY LenProperties
<1>3. SubSeq(b, 1, k) \in Seq(Event \cup {Torn})
  <2>1. \A i \in 1..k : b[i] \in Event \cup {Torn}
    BY <1>2, ElementOfSeq
  <2> QED
    BY <1>2, <2>1, SubSeqProperties
<1>4. Append(SubSeq(b, 1, k), Torn) \in Seq(Event \cup {Torn})
  BY <1>3, AppendProperties
<1> QED
  BY <1>1, <1>3, <1>4, ConcatProperties

-----------------------------------------------------------------------------
(* The inductive invariant.  A driver's clock and next sequence belong to  *)
(* its phase, and a checkpoint restores a driver to a head position.       *)

Starting(d) ==
  next[d] = 1 /\ clock[d] = 0 /\ batch[d] = StartBatch

Ticking(d) ==
  /\ clock[d] \in 0..(Duration - 1)
  /\ batch[d] = TickBatch(clock[d])
  /\ next[d] = Upto[clock[d] + 1]

Position(d) ==
  /\ clock[d] \in 0..Duration
  /\ pc[d] = "idle" => clock[d] = 0
  /\ pc[d] = "closeCommit" => verdict[d] \in Outcomes
  /\ pc[d] \in {"stop", "stopExport", "close"} => verdict[d] \in Outcomes
  /\ pc[d] \in {"head", "checkpoint", "usage"} => next[d] = Upto[clock[d]]
  /\ pc[d] = "checkpoint" => clock[d] # 0 /\ clock[d] % DayLen = 0
  /\ pc[d] \in {"append", "export", "sinks"} => Starting(d) \/ Ticking(d)

Boundary(c) ==
  /\ c.minute \in 1..Duration
  /\ c.minute % DayLen = 0
  /\ c.next = Upto[c.minute]

Placed ==
  /\ TypeOK
  /\ \A d \in Drivers : Position(d)
  /\ \A c \in checkpoints : Boundary(c)

(* Every restore point is a head position. *)
LEMMA RestorePointPlaced ==
  ASSUME Placed, NEW c \in RestorePoints
  PROVE  c.minute \in 0..Duration /\ c.next = Upto[c.minute] /\ c.next \in Nat
<1>1. CASE checkpoints = {}
  BY <1>1, DriverAssumption DEF RestorePoints
<1>2. CASE checkpoints # {}
  BY <1>2, DriverAssumption DEF RestorePoints, Placed, Boundary
<1> QED
  BY <1>1, <1>2

(* What a sink is offered is numbered and typed. *)
LEMMA OfferedType ==
  ASSUME NEW b \in Seq(Event), NEW n \in Nat
  PROVE  Offered(b, n) \subseteq [seq : Nat, event : Event]
<1> SUFFICES ASSUME NEW i \in 1..Len(b)
             PROVE  [seq |-> n + i - 1, event |-> b[i]] \in [seq : Nat, event : Event]
  BY DEF Offered
<1>1. Len(b) \in Nat /\ b[i] \in Event
  BY LenProperties, ElementOfSeq
<1> QED
  BY <1>1

(* A driver about to publish is starting or ticking, and its batch ends at *)
(* its next sequence.                                                      *)
LEMMA StartOrTick ==
  ASSUME Placed, NEW d \in Drivers, pc[d] \in {"append", "export", "sinks"}
  PROVE  /\ FirstOf(d) \in Nat
         /\ next[d] = 1 /\ batch[d] # <<>> => Starting(d)
         /\ ~ (next[d] = 1 /\ batch[d] # <<>>) => Ticking(d)
<1>1. CASE Starting(d)
  <2>1. next[d] = 1 /\ batch[d] = StartBatch /\ Len(batch[d]) = 1
    BY <1>1, StartBatchSlice DEF Starting
  <2>2. batch[d] # <<>>
    BY <2>1, EmptySeq
  <2>3. FirstOf(d) = 0
    BY <2>1 DEF FirstOf
  <2> QED
    BY <1>1, <2>1, <2>2, <2>3
<1>2. CASE Ticking(d)
  <2>1. /\ Len(batch[d]) = Upto[clock[d] + 1] - Upto[clock[d]]
        /\ Upto[clock[d]] \in Nat /\ Upto[clock[d]] >= 1 /\ Upto[clock[d] + 1] \in Nat
    BY <1>2, TickBatchSlice, UptoBounds DEF Ticking
  <2>2. FirstOf(d) = Upto[clock[d]]
    BY <1>2, <2>1 DEF Ticking, FirstOf
  <2>3. next[d] = 1 => Len(batch[d]) = 0 
    BY <1>2, <2>1, UptoBounds DEF Ticking
  <2>4. next[d] = 1 => batch[d] = <<>>
    BY <2>3, EmptySeq DEF Placed, TypeOK
  <2> QED
    BY <1>2, <2>1, <2>2, <2>4
<1> QED
  BY <1>1, <1>2 DEF Placed, Position

(* What the sinks have been offered after a publication stays typed. *)
LEMMA PublishedType ==
  ASSUME Placed, NEW d \in Drivers, pc[d] = "sinks",
         \/ shown' = shown \cup Offered(batch[d], FirstOf(d))
         \/ UNCHANGED shown
  PROVE  shown' \subseteq [seq : Nat, event : Event]
<1>1. Offered(batch[d], FirstOf(d)) \subseteq [seq : Nat, event : Event]
  BY StartOrTick, OfferedType DEF Placed, TypeOK
<1> QED
  BY <1>1 DEF Placed, TypeOK

(* The export takes whole batches of events. *)
LEMMA ExtendExportType ==
  ASSUME NEW b \in Seq(Event), export \in Seq(Event \cup {Torn}), ExtendExport(b)
  PROVE  export' \in Seq(Event \cup {Torn})
<1>1. b \in Seq(Event \cup {Torn})
  BY SeqMonotonic
<1> QED
  BY <1>1, ConcatProperties DEF ExtendExport

(* A driver that dies holds nothing any more; the store is judged by itself. *)
LEMMA DeathPlaced ==
  ASSUME Placed, NEW d \in Drivers, Die(d), UNCHANGED <<rows, checkpoints>>,
         status' \in {"absent", "running"} \cup Outcomes,
         export' \in Seq(Event \cup {Torn}),
         metrics' \in [status : Outcomes \cup {"none"}, count : Nat, minute : Nat],
         result' \in [status : Outcomes \cup {"none"}, count : Nat, minute : Nat],
         shown' \subseteq [seq : Nat, event : Event]
  PROVE  Placed'
<1>1. 0 \in 0..Duration /\ <<>> \in Seq(Event)
  BY DriverAssumption
<1>2. TypeOK'
  BY <1>1 DEF Die, Placed, TypeOK, Phases, Outcomes
<1>3. \A e \in Drivers : Position(e)'
  BY <1>1 DEF Die, Placed, TypeOK, Position, Starting, Ticking
<1> QED
  BY <1>2, <1>3 DEF Placed, Boundary

(* The type and position invariant, one disjunct of Next at a time. *)
LEMMA PlacedPreserved == Placed /\ [Next]_vars => Placed'
<1> SUFFICES ASSUME Placed, [Next]_vars PROVE Placed'
  OBVIOUS
<1>1. ASSUME NEW d \in Drivers, Run(d) PROVE Placed'
  <2>1. StartBatch \in Seq(Event)
    BY StartBatchSlice
  <2>2. /\ pc[d] = "idle" /\ status' = "running"
        /\ pc' = [pc EXCEPT ![d] = "append"]
        /\ next' = [next EXCEPT ![d] = 1]
        /\ batch' = [batch EXCEPT ![d] = StartBatch]
        /\ UNCHANGED <<clock, verdict, shown, rows, export, checkpoints, metrics, result>>
    BY <1>1 DEF Run, MayStart, CreateRun, Goto
  <2>3. clock[d] = 0
    BY <2>2 DEF Placed, Position
  <2> HIDE DEF StartBatch
  <2>4. TypeOK'
    BY <2>1, <2>2 DEF Placed, TypeOK, Phases
  <2>5. \A e \in Drivers : Position(e)'
    BY <2>1, <2>2, <2>3 DEF Placed, TypeOK, Position, Starting, Ticking
  <2> QED
    BY <2>2, <2>4, <2>5 DEF Placed, Boundary
<1>2. ASSUME NEW d \in Drivers, Resume(d) PROVE Placed'
  <2>1. PICK c \in RestorePoints :
          /\ next' = [next EXCEPT ![d] = c.next]
          /\ clock' = [clock EXCEPT ![d] = c.minute]
    BY <1>2 DEF Resume
  <2>2. c.minute \in 0..Duration /\ c.next = Upto[c.minute] /\ c.next \in Nat
    BY RestorePointPlaced
  <2>3. pc' = [pc EXCEPT ![d] = "head"] /\ UNCHANGED <<batch, verdict, shown, store>>
    BY <1>2 DEF Resume, Goto
  <2>4. TypeOK'
    BY <2>1, <2>2, <2>3 DEF Placed, TypeOK, store, Phases
  <2>5. \A e \in Drivers : Position(e)'
    BY <2>1, <2>2, <2>3 DEF Placed, TypeOK, Position, Starting, Ticking
  <2> QED
    BY <2>3, <2>4, <2>5 DEF Placed, Boundary, store
<1>3. ASSUME NEW d \in Drivers, StartRefused(d) PROVE Placed'
  BY <1>3, DeathPlaced DEF StartRefused, Placed, TypeOK, store
<1>4. ASSUME NEW d \in Drivers, CommitTick(d) PROVE Placed'
  <2>1. clock[d] \in 0..(Duration - 1)
    BY <1>4, DriverAssumption DEF CommitTick, Placed, TypeOK
  <2>2. /\ TickBatch(clock[d]) \in Seq(Event)
        /\ Upto[clock[d]] \in Nat /\ Upto[clock[d] + 1] \in Nat
        /\ Upto[clock[d]] <= Upto[clock[d] + 1]
    BY <2>1, UptoBounds, TickBatchSlice
  <2>3. next[d] = Upto[clock[d]]
    BY <1>4 DEF CommitTick, Placed, Position
  <2>4. Upto[clock[d] + 1] - Upto[clock[d]] + next[d] = Upto[clock[d] + 1]
    BY <2>2, <2>3
  <2>5. /\ pc' = [pc EXCEPT ![d] = "append"]
        /\ batch' = [batch EXCEPT ![d] = TickBatch(clock[d])]
        /\ next' = [next EXCEPT ![d] = Upto[clock[d] + 1]]
        /\ UNCHANGED <<clock, verdict, shown, store>>
    BY <1>4, <2>4 DEF CommitTick, Goto
  <2> QED
    BY <2>1, <2>2, <2>5 DEF Placed, TypeOK, Position, Boundary, Starting, Ticking, store, Phases
<1>5. ASSUME NEW d \in Drivers, HeadStops(d) PROVE Placed'
  BY <1>5, EmptySeq DEF HeadStops, StopWith, Stops, Placed, TypeOK, Position, Boundary,
     Starting, Ticking, store, Phases, Outcomes
<1>6. ASSUME NEW d \in Drivers, LoopEnds(d) PROVE Placed'
  BY <1>6 DEF LoopEnds, Goto, Placed, TypeOK, Position, Boundary,
     Starting, Ticking, store, Phases, Outcomes
<1>7. ASSUME NEW d \in Drivers, AppendNothing(d) PROVE Placed'
  BY <1>7 DEF AppendNothing, Goto, Placed, TypeOK, Position, Boundary,
     Starting, Ticking, store, Phases, Outcomes
<1>8. ASSUME NEW d \in Drivers, AppendCommits(d) PROVE Placed'
  BY <1>8, ConcatProperties DEF AppendCommits, CommitRows, Goto, Placed, TypeOK, Position, Boundary,
     Starting, Ticking, store, Phases, Outcomes
<1>9. ASSUME NEW d \in Drivers, AppendStops(d) PROVE Placed'
  BY <1>9, EmptySeq DEF AppendStops, StopWith, Stops, Placed, TypeOK, Position, Boundary,
     Starting, Ticking, store, Phases, Outcomes
<1>10. ASSUME NEW d \in Drivers, ExportExtends(d) PROVE Placed'
  <2>1. export' \in Seq(Event \cup {Torn})
    BY <1>10, ExtendExportType DEF ExportExtends, Placed, TypeOK
  <2> QED
    BY <1>10, <2>1 DEF ExportExtends, ExtendExport, Goto, Placed, TypeOK, Position, Boundary,
                     Starting, Ticking, Phases
<1>11. ASSUME NEW d \in Drivers, ExportStops(d) PROVE Placed'
  <2>1. export' \in Seq(Event \cup {Torn})
    BY <1>11, CutExportType DEF ExportStops, Placed, TypeOK
  <2>2. UNCHANGED <<status, rows, checkpoints, metrics, result>>
    BY <1>11 DEF ExportStops, CutExport
  <2> QED
    BY <1>11, <2>1, <2>2, EmptySeq DEF ExportStops, StopWith, Stops, Placed, TypeOK, Position,
       Boundary, Starting, Ticking, Phases, Outcomes
<1>12. ASSUME NEW d \in Drivers, Publish(d) PROVE Placed'
  <2>1. shown' \subseteq [seq : Nat, event : Event]
    BY <1>12, PublishedType DEF Publish
  <2>2. CASE next[d] = 1 /\ batch[d] # <<>>
    <3>1. pc' = [pc EXCEPT ![d] = "head"] /\ UNCHANGED clock
      BY <1>12, <2>2 DEF Publish, Goto
    <3>2. next[d] = Upto[clock[d]]
      <4>1. Starting(d)
        BY <1>12, <2>2, StartOrTick DEF Publish
      <4> QED
        BY <4>1, DriverAssumption DEF Starting
    <3>3. /\ batch' = [batch EXCEPT ![d] = <<>>]
          /\ UNCHANGED <<next, verdict, store>>
      BY <1>12 DEF Publish
    <3>4. TypeOK'
      BY <2>1, <3>1, <3>3, EmptySeq DEF Placed, TypeOK, store, Phases
    <3>5. \A e \in Drivers : Position(e)'
      BY <3>1, <3>2, <3>3 DEF Placed, TypeOK, Position, Starting, Ticking
    <3> QED
      BY <3>3, <3>4, <3>5 DEF Placed, Boundary, store
  <2>3. CASE ~ (next[d] = 1 /\ batch[d] # <<>>)
    <3>1. /\ clock[d] \in 0..(Duration - 1)
          /\ next[d] = Upto[clock[d] + 1]
      <4>1. pc[d] = "sinks"
        BY <1>12 DEF Publish
      <4>2. Ticking(d)
        BY <2>3, <4>1, StartOrTick
      <4> QED
        BY <4>2 DEF Ticking
    <3>2. clock[d] + 1 \in 0..Duration /\ clock[d] + 1 # 0
      BY <3>1, DriverAssumption
    <3>3. /\ clock' = [clock EXCEPT ![d] = clock[d] + 1]
          /\ pc' = [pc EXCEPT ![d] = IF (clock[d] + 1) % DayLen = 0
                                    THEN "checkpoint" ELSE "head"]
      BY <1>12, <2>3 DEF Publish, Goto, EndsDay
    <3> QED
      BY <1>12, <2>1, <3>1, <3>2, <3>3, EmptySeq DEF Publish, Placed, TypeOK, Position, Boundary,
         Starting, Ticking, store, Phases
  <2> QED
    BY <2>2, <2>3
<1>13. ASSUME NEW d \in Drivers, PublishStops(d) PROVE Placed'
  <2>1. shown' \subseteq [seq : Nat, event : Event]
    BY <1>13, PublishedType DEF PublishStops, Placed, TypeOK
  <2> QED
    BY <1>13, <2>1, EmptySeq DEF PublishStops, StopWith, Stops, Placed, TypeOK, Position, Boundary,
       Starting, Ticking, store, Phases, Outcomes
<1>14. ASSUME NEW d \in Drivers, SaveCheckpoint(d) PROVE Placed'
  BY <1>14 DEF SaveCheckpoint, StoreCheckpoint, CheckpointOf, Goto, Placed, TypeOK,
     Position, Boundary,
     Starting, Ticking, store, Phases, Outcomes
<1>15. ASSUME NEW d \in Drivers, CheckpointStops(d) PROVE Placed'
  BY <1>15, EmptySeq DEF CheckpointStops, StopWith, Stops, Placed, TypeOK, Position, Boundary,
     Starting, Ticking, store, Phases, Outcomes
<1>16. ASSUME NEW d \in Drivers, StopSilently(d) PROVE Placed'
  BY <1>16 DEF StopSilently, Goto, Placed, TypeOK, Position, Boundary,
     Starting, Ticking, store, Phases, Outcomes
<1>17. ASSUME NEW d \in Drivers, StopRecorded(d) PROVE Placed'
  <2>1. Failed(clock[d]) \in Event
    BY DriverAssumption DEF Placed, Position
  <2>2. <<Failed(clock[d])>> \in Seq(Event)
    BY <2>1
  <2>3. rows' \in Seq(Event)
    BY <1>17, <2>2, ConcatProperties DEF StopRecorded, CommitRows, Placed, TypeOK
  <2> QED
    BY <1>17, <2>2, <2>3 DEF StopRecorded, CommitRows, Goto, Placed, TypeOK, Position, Boundary,
       Starting, Ticking, Phases
<1>18. ASSUME NEW d \in Drivers, StopUnrecorded(d) PROVE Placed'
  BY <1>18 DEF StopUnrecorded, Goto, Placed, TypeOK, Position, Boundary,
     Starting, Ticking, store, Phases, Outcomes
<1>19. ASSUME NEW d \in Drivers, StopExported(d) PROVE Placed'
  <2>1. export' \in Seq(Event \cup {Torn})
    BY <1>19, ExtendExportType DEF StopExported, Placed, TypeOK
  <2>2. Offered(batch[d], next[d]) \subseteq [seq : Nat, event : Event]
    BY OfferedType DEF Placed, TypeOK
  <2>3. shown' \subseteq [seq : Nat, event : Event]
    BY <1>19, <2>2 DEF StopExported, Placed, TypeOK
  <2> QED
    BY <1>19, <2>1, <2>3, EmptySeq DEF StopExported, ExtendExport, Goto, Placed, TypeOK, Position,
       Boundary, Starting, Ticking, Phases
<1>20. ASSUME NEW d \in Drivers, StopExportFails(d) PROVE Placed'
  <2>1. export' \in Seq(Event \cup {Torn})
    BY <1>20, CutExportType DEF StopExportFails, Placed, TypeOK
  <2>2. UNCHANGED <<status, rows, checkpoints, metrics, result>>
    BY <1>20 DEF StopExportFails, CutExport
  <2> QED
    BY <1>20, <2>1, <2>2, EmptySeq DEF StopExportFails, Goto, Placed, TypeOK, Position, Boundary,
       Starting, Ticking, Phases
<1>21. ASSUME NEW d \in Drivers, CloseChecked(d) PROVE Placed'
  BY <1>21 DEF CloseChecked, WriteMetrics, ResultOf, Goto, Placed, TypeOK, Position, Boundary,
     Starting, Ticking, store, Phases, Outcomes
<1>22. ASSUME NEW d \in Drivers, CloseCommits(d) PROVE Placed'
  <2>1. verdict[d] \in Outcomes
    BY <1>22 DEF CloseCommits, Placed, Position
  <2>2. /\ status' = verdict[d]
        /\ result' = [status |-> verdict[d], count |-> next[d], minute |-> clock[d]]
        /\ UNCHANGED <<rows, export, checkpoints, metrics, shown>>
    BY <1>22 DEF CloseCommits, CommitOutcome, ResultOf
  <2>3. Die(d)
    BY <1>22 DEF CloseCommits
  <2>4. /\ status' \in {"absent", "running"} \cup Outcomes
        /\ export' \in Seq(Event \cup {Torn})
        /\ metrics' \in [status : Outcomes \cup {"none"}, count : Nat, minute : Nat]
        /\ result' \in [status : Outcomes \cup {"none"}, count : Nat, minute : Nat]
        /\ shown' \subseteq [seq : Nat, event : Event]
    BY <2>1, <2>2 DEF Placed, TypeOK
  <2> QED
    BY <2>2, <2>3, <2>4, DeathPlaced
<1>23. ASSUME NEW d \in Drivers, SaveUsage(d) PROVE Placed'
  BY <1>23 DEF SaveUsage, Goto, Placed, TypeOK, Position, Boundary,
     Starting, Ticking, store, Phases, Outcomes
<1>24. ASSUME NEW d \in Drivers, Killed(d) PROVE Placed'
  <2>1. export' \in Seq(Event \cup {Torn})
    BY <1>24, CutExportType DEF Killed, Placed, TypeOK, store
  <2>2. UNCHANGED <<status, rows, checkpoints, metrics, result>>
    BY <1>24 DEF Killed, CutExport, store
  <2>3. Die(d) /\ UNCHANGED shown
    BY <1>24 DEF Killed
  <2> QED
    BY <2>1, <2>2, <2>3, DeathPlaced DEF Placed, TypeOK
<1>25. CASE Repair
  BY <1>25, SeqMonotonic DEF Repair, RebuildExport, Placed, TypeOK, Position, Boundary, Starting,
     Ticking, memory
<1>26. CASE UNCHANGED vars
  BY <1>26 DEF vars, store, memory, Placed, TypeOK, Position, Boundary, Starting, Ticking
<1> QED
  BY <1>1, <1>2, <1>3, <1>4, <1>5, <1>6, <1>7, <1>8, <1>9, <1>10, <1>11, <1>12, <1>13,
     <1>14, <1>15, <1>16, <1>17, <1>18, <1>19, <1>20, <1>21, <1>22, <1>23, <1>24, <1>25,
     <1>26 DEF Next, Step

(* Before a run exists nothing is placed anywhere else. *)
LEMMA InitPlaced == Init => Placed
<1> SUFFICES ASSUME Init PROVE Placed
  OBVIOUS
<1>1. 0 \in 0..Duration /\ <<>> \in Seq(Event) /\ <<>> \in Seq(Event \cup {Torn})
  BY DriverAssumption
<1>2. TypeOK
  BY <1>1 DEF Init, StoreInit, NoResult, TypeOK, Phases
<1>3. \A d \in Drivers : Position(d)
  BY <1>1 DEF Init, Position, Starting, Ticking
<1>4. \A c \in checkpoints : Boundary(c)
  BY DEF Init, StoreInit
<1> QED
  BY <1>2, <1>3, <1>4 DEF Placed

(* Every reachable state is placed, however many drivers overlap. *)
THEOREM AlwaysPlaced == Spec => []Placed
BY InitPlaced, PlacedPreserved, PTL DEF Spec

(* Every variable of the run, its store and its drivers keeps its shape:   *)
(* in particular no clock leaves the run and no sequence goes negative.    *)
THEOREM TypeCorrect == Spec => []TypeOK
<1>1. Placed => TypeOK
  BY DEF Placed
<1> QED
  BY <1>1, AlwaysPlaced, PTL

-----------------------------------------------------------------------------
(***************************************************************************)
(* What the store of a run holds, for every number of overlapping drivers, *)
(* every run length and every deterministic stream: the stored events are  *)
(* the stream's, what a sink was shown is stored, and a checkpoint names   *)
(* exactly the events before its day boundary.                             *)
(***************************************************************************)

(* The first n elements of r are the first n events of the stream. *)
Follows(r, n) ==
  /\ n <= Len(r)
  /\ \A i \in 1..n : i <= Len(Stream) /\ r[i] = Stream[i]

(* What a live driver may rely on in the store, by the phase it stands in. *)
(* Only a driver about to append, or past its append, relies on the rows;  *)
(* one that is stopping may be ahead of them.                              *)
Holds(d) ==
  /\ pc[d] = "append" => Follows(rows, FirstOf(d))
  /\ pc[d] \in {"export", "sinks", "head", "checkpoint", "usage"} => Follows(rows, next[d])
  /\ pc[d] = "stop" => 1 <= next[d]
  /\ pc[d] = "stopExport" => /\ batch[d] = <<Failed(clock[d])>>
                             /\ next[d] < Len(rows)
                             /\ rows[next[d] + 1] = Failed(clock[d])

CheckpointsFollow == \A c \in checkpoints : Follows(rows, c.next)

Kept ==
  /\ \A d \in Drivers : Holds(d)
  /\ rows # <<>> => Follows(rows, 1)
  /\ CheckpointsFollow
  /\ StreamIsCanonical
  /\ PersistBeforePublish

-----------------------------------------------------------------------------
(* A stored prefix stays one however many events follow it. *)
LEMMA FollowsGrows ==
  ASSUME NEW r \in Seq(Event), NEW b \in Seq(Event), NEW n \in Nat, Follows(r, n)
  PROVE  Follows(r \o b, n)
<1>1. /\ Len(r \o b) = Len(r) + Len(b)
      /\ \A i \in 1..Len(r) : (r \o b)[i] = r[i]
      /\ Len(r) \in Nat /\ Len(b) \in Nat
  BY ConcatProperties, LenProperties
<1>2. n <= Len(r) /\ \A i \in 1..n : i <= Len(Stream) /\ r[i] = Stream[i]
  BY DEF Follows
<1>3. n <= Len(r \o b)
  BY <1>1, <1>2
<1>4. ASSUME NEW i \in 1..n PROVE i <= Len(Stream) /\ (r \o b)[i] = Stream[i]
  BY <1>1, <1>2
<1> QED
  BY <1>3, <1>4 DEF Follows

(* A batch that continues the stream where the store ends extends it. *)
LEMMA FollowsBatch ==
  ASSUME NEW r \in Seq(Event), NEW b \in Seq(Event), Follows(r, Len(r)),
         \A i \in 1..Len(b) : Len(r) + i <= Len(Stream) /\ b[i] = Stream[Len(r) + i]
  PROVE  Follows(r \o b, Len(r) + Len(b))
<1>1. /\ Len(r \o b) = Len(r) + Len(b)
      /\ \A i \in 1..(Len(r) + Len(b)) :
           (r \o b)[i] = IF i <= Len(r) THEN r[i] ELSE b[i - Len(r)]
      /\ Len(r) \in Nat /\ Len(b) \in Nat
  BY ConcatProperties, LenProperties
<1>2. ASSUME NEW i \in 1..(Len(r) + Len(b))
      PROVE  i <= Len(Stream) /\ (r \o b)[i] = Stream[i]
  <2>1. CASE i <= Len(r)
    BY <1>1, <2>1 DEF Follows
  <2>2. CASE ~ (i <= Len(r))
    <3>1. i - Len(r) \in 1..Len(b) /\ i = Len(r) + (i - Len(r))
      BY <1>1, <2>2
    <3> QED
      BY <1>1, <2>2, <3>1
  <2> QED
    BY <2>1, <2>2
<1> QED
  BY <1>1, <1>2 DEF Follows

(* A driver that has drawn a batch carries the stream from its first       *)
(* sequence to its next one.                                               *)
LEMMA BatchIsSlice ==
  ASSUME Placed, NEW d \in Drivers, pc[d] \in {"append", "export", "sinks"}
  PROVE  /\ batch[d] \in Seq(Event) /\ FirstOf(d) \in Nat /\ next[d] \in Nat
         /\ 1 <= next[d]
         /\ next[d] = FirstOf(d) + Len(batch[d])
         /\ FirstOf(d) # 0 \/ batch[d] = StartBatch
         /\ \A i \in 1..Len(batch[d]) : /\ FirstOf(d) + i <= Len(Stream)
                                        /\ batch[d][i] = Stream[FirstOf(d) + i]
<1>1. batch[d] \in Seq(Event) /\ next[d] \in Nat /\ Len(batch[d]) \in Nat
  BY LenProperties DEF Placed, TypeOK
<1>2. CASE Starting(d)
  <2>1. next[d] = 1 /\ batch[d] = StartBatch /\ Len(batch[d]) = 1
        /\ batch[d][1] = Stream[1]
    BY <1>2, StartBatchSlice DEF Starting
  <2>2. FirstOf(d) = 0 /\ 1 <= Len(Stream)
    <3>1. 0 \in 0..(Duration - 1)
      BY DriverAssumption
    <3> QED
      BY <2>1, <3>1, UptoBounds, DriverAssumption DEF FirstOf
  <2> QED
    BY <1>1, <2>1, <2>2
<1>3. CASE Ticking(d)
  <2> DEFINE t == clock[d]
  <2>1. t \in 0..(Duration - 1) /\ batch[d] = TickBatch(t) /\ next[d] = Upto[t + 1]
    BY <1>3 DEF Ticking
  <2>2. /\ Upto[t] \in Nat /\ Upto[t + 1] \in Nat /\ Len(Stream) \in Nat
        /\ 1 <= Upto[t] /\ Upto[t] <= Upto[t + 1] /\ Upto[t + 1] <= Len(Stream)
    BY <2>1, UptoBounds
  <2>3. /\ Len(batch[d]) = Upto[t + 1] - Upto[t]
        /\ \A i \in 1..Len(batch[d]) : batch[d][i] = Stream[Upto[t] + i]
    BY <2>1, TickBatchSlice
  <2>4. FirstOf(d) = Upto[t]
    BY <2>1, <2>2, <2>3 DEF FirstOf
  <2> HIDE DEF t
  <2> QED
    BY <1>1, <2>1, <2>2, <2>3, <2>4
<1> QED
  BY <1>2, <1>3 DEF Placed, Position

(* A driver that is still driving has minted run.started at least. *)
LEMMA NextPositive ==
  ASSUME Placed, NEW d \in Drivers,
         pc[d] \in {"append", "export", "sinks", "head", "checkpoint", "usage"}
  PROVE  next[d] \in Nat /\ 1 <= next[d]
<1>1. CASE pc[d] \in {"append", "export", "sinks"}
  BY <1>1, BatchIsSlice
<1>2. CASE pc[d] \in {"head", "checkpoint", "usage"}
  <2>1. next[d] = Upto[clock[d]] /\ clock[d] \in 0..Duration
    BY <1>2 DEF Placed, Position
  <2>2. 0 \in 0..Duration /\ 0 <= clock[d]
    BY <2>1, DriverAssumption
  <2>3. Upto[0] <= Upto[clock[d]]
    BY <2>1, <2>2, DriverAssumption
  <2> QED
    BY <2>1, <2>3, DriverAssumption DEF Placed, TypeOK
<1> QED
  BY <1>1, <1>2

-----------------------------------------------------------------------------
(* A step of one driver moves no other driver's memory. *)
Only(d) ==
  \A e \in Drivers \ {d} :
    pc'[e] = pc[e] /\ clock'[e] = clock[e] /\ next'[e] = next[e] /\ batch'[e] = batch[e]

LEMMA StepMovesOne ==
  ASSUME Placed, NEW d \in Drivers, Step(d)
  PROVE  Only(d)
<1> USE DEF Placed, TypeOK, Only
<1>1. CASE Run(d) \/ Resume(d) \/ StartRefused(d)
  BY <1>1 DEF Run, Resume, StartRefused, Goto, Die
<1>2. CASE CommitTick(d) \/ HeadStops(d) \/ LoopEnds(d)
  BY <1>2 DEF CommitTick, HeadStops, LoopEnds, Goto, StopWith
<1>3. CASE AppendNothing(d) \/ AppendCommits(d) \/ AppendStops(d)
  BY <1>3 DEF AppendNothing, AppendCommits, AppendStops, Goto, StopWith
<1>4. CASE ExportExtends(d) \/ ExportStops(d)
  BY <1>4 DEF ExportExtends, ExportStops, Goto, StopWith
<1>5. CASE Publish(d)
  BY <1>5 DEF Publish, Goto
<1>6. CASE PublishStops(d)
  BY <1>6 DEF PublishStops, StopWith
<1>7. CASE SaveCheckpoint(d) \/ CheckpointStops(d)
  BY <1>7 DEF SaveCheckpoint, CheckpointStops, Goto, StopWith
<1>8. CASE StopSilently(d) \/ StopRecorded(d) \/ StopUnrecorded(d)
  BY <1>8 DEF StopSilently, StopRecorded, StopUnrecorded, Goto
<1>9. CASE StopExported(d) \/ StopExportFails(d)
  BY <1>9 DEF StopExported, StopExportFails, Goto
<1>10. CASE CloseChecked(d) \/ CloseCommits(d) \/ SaveUsage(d) \/ Killed(d)
  BY <1>10 DEF CloseChecked, CloseCommits, SaveUsage, Killed, Goto, Die
<1> QED
  BY <1>1, <1>2, <1>3, <1>4, <1>5, <1>6, <1>7, <1>8, <1>9, <1>10 DEF Step

(* While the rows only grow, what another driver relies on stays true. *)
LEMMA OthersHold ==
  ASSUME Placed, Kept, NEW d \in Drivers, NEW e \in Drivers \ {d}, Only(d),
         NEW b \in Seq(Event), rows' = rows \o b
  PROVE  Holds(e)'
<1>1. /\ pc'[e] = pc[e] /\ clock'[e] = clock[e] /\ next'[e] = next[e] /\ batch'[e] = batch[e]
      /\ rows \in Seq(Event) /\ next[e] \in Nat /\ e \in Drivers
  BY DEF Only, Placed, TypeOK
<1>2. Holds(e)
  BY DEF Kept
<1>3. CASE pc[e] = "append"
  <2>1. FirstOf(e) \in Nat /\ FirstOf(e)' = FirstOf(e)
    BY <1>1, <1>3, BatchIsSlice DEF FirstOf
  <2>2. Follows(rows', FirstOf(e))
    BY <1>1, <1>2, <1>3, <2>1, FollowsGrows DEF Holds
  <2> QED
    BY <1>1, <1>3, <2>1, <2>2 DEF Holds
<1>4. CASE pc[e] \in {"export", "sinks", "head", "checkpoint", "usage"}
  <2>1. Follows(rows', next[e])
    BY <1>1, <1>2, <1>4, FollowsGrows DEF Holds
  <2> QED
    BY <1>1, <1>4, <2>1 DEF Holds
<1>5. CASE pc[e] = "stop"
  BY <1>1, <1>2, <1>5 DEF Holds
<1>6. CASE pc[e] = "stopExport"
  <2>1. /\ batch[e] = <<Failed(clock[e])>> /\ next[e] < Len(rows)
        /\ rows[next[e] + 1] = Failed(clock[e])
    BY <1>2, <1>6 DEF Holds
  <2>2. next[e] + 1 \in 1..Len(rows) /\ Len(rows) \in Nat /\ Len(b) \in Nat
    BY <1>1, <2>1, LenProperties
  <2>3. Len(rows') = Len(rows) + Len(b) /\ rows'[next[e] + 1] = rows[next[e] + 1]
    BY <1>1, <2>2, ConcatProperties
  <2>4. next[e] < Len(rows')
    BY <1>1, <2>1, <2>2, <2>3
  <2> QED
    BY <1>1, <1>6, <2>1, <2>3, <2>4 DEF Holds
<1>7. CASE pc[e] \notin {"append", "export", "sinks", "head", "checkpoint", "usage",
                         "stop", "stopExport"}
  BY <1>1, <1>7 DEF Holds
<1> QED
  BY <1>3, <1>4, <1>5, <1>6, <1>7

-----------------------------------------------------------------------------
(* Appending events leaves every stored checkpoint and everything shown    *)
(* where it was.                                                           *)
LEMMA GrowthKeepsStored ==
  ASSUME Placed, Kept, NEW b \in Seq(Event), rows' = rows \o b
  PROVE  /\ \A c \in checkpoints : Follows(rows', c.next)
         /\ \A s \in shown : s.seq < Len(rows') /\ rows'[s.seq + 1] = s.event
         /\ rows # <<>> => Follows(rows', 1)
<1>1. /\ rows \in Seq(Event) /\ Len(rows) \in Nat /\ Len(b) \in Nat
      /\ \A c \in checkpoints : c.next \in Nat
      /\ \A s \in shown : s.seq \in Nat
  BY LenProperties DEF Placed, TypeOK
<1>2. ASSUME NEW c \in checkpoints PROVE Follows(rows', c.next)
  BY <1>1, FollowsGrows DEF Kept, CheckpointsFollow
<1>3. ASSUME NEW s \in shown PROVE s.seq < Len(rows') /\ rows'[s.seq + 1] = s.event
  <2>1. s.seq < Len(rows) /\ rows[s.seq + 1] = s.event
    BY Zenon DEF Kept, PersistBeforePublish
  <2>2. s.seq + 1 \in 1..Len(rows)
    BY <1>1, <2>1
  <2>3. Len(rows') = Len(rows) + Len(b) /\ rows'[s.seq + 1] = rows[s.seq + 1]
    BY <1>1, <2>2, ConcatProperties
  <2> QED
    BY <1>1, <2>1, <2>3
<1>4. rows # <<>> => Follows(rows', 1)
  BY <1>1, FollowsGrows DEF Kept
<1> QED
  BY <1>2, <1>3, <1>4

(* A step that leaves the rows, the checkpoints and the sinks alone keeps  *)
(* the invariant if its own driver still may rely on what it relies on.    *)
LEMMA QuietStep ==
  ASSUME Placed, Kept, NEW d \in Drivers, Step(d), Holds(d)',
         UNCHANGED <<rows, checkpoints, shown>>
  PROVE  Kept'
<1>1. rows \in Seq(Event) /\ <<>> \in Seq(Event) /\ rows' = rows \o <<>>
  BY ConcatEmptySeq DEF Placed, TypeOK
<1>2. \A e \in Drivers : Holds(e)'
  <2>1. ASSUME NEW e \in Drivers \ {d} PROVE Holds(e)'
    BY <1>1, StepMovesOne, OthersHold
  <2> QED
    BY <2>1
<1>3. StreamIsCanonical' /\ PersistBeforePublish'
  BY DEF Kept, StreamIsCanonical, PersistBeforePublish, Recorded
<1> QED
  BY <1>2, <1>3 DEF Kept, CheckpointsFollow

(* Stopping needs only that the driver had minted something. *)
LEMMA StoppingHolds ==
  ASSUME Placed, NEW d \in Drivers, NEW v \in Stops, StopWith(d, v),
         pc[d] \in {"append", "export", "sinks", "head", "checkpoint", "usage"}
  PROVE  Holds(d)'
<1>1. 1 <= next[d] /\ pc'[d] = "stop" /\ next'[d] = next[d]
  BY NextPositive DEF StopWith, Placed, TypeOK
<1> QED
  BY <1>1 DEF Holds

(* A dead driver relies on nothing. *)
LEMMA DeadHolds ==
  ASSUME Placed, NEW d \in Drivers, Die(d)
  PROVE  Holds(d)'
<1>1. pc'[d] = "dead"
  BY DEF Die, Placed, TypeOK
<1> QED
  BY <1>1 DEF Holds

(* Restoring a model puts it where the stored stream stands. *)
LEMMA RestorePointFollows ==
  ASSUME Placed, Kept, NEW c \in RestorePoints, Resumable(c)
  PROVE  Follows(rows, c.next) /\ c.next = Len(rows)
<1>1. c.next = Len(rows) /\ rows \in Seq(Event)
  BY DEF Resumable, Placed, TypeOK
<1>2. CASE checkpoints = {}
  <2>1. c.next = 1
    BY <1>2 DEF RestorePoints
  <2>2. rows # <<>>
    <3>1. Len(<<>>) = 0
      BY EmptySeq
    <3>2. Len(rows) # 0
      BY <1>1, <2>1
    <3> QED
      BY <3>1, <3>2, Zenon
  <2> QED
    BY <1>1, <2>1, <2>2 DEF Kept
<1>3. CASE checkpoints # {}
  BY <1>1, <1>3 DEF RestorePoints, Kept, CheckpointsFollow
<1> QED
  BY <1>2, <1>3

(* The steps that only move one driver and the export. *)
LEMMA QuietSteps ==
  ASSUME Placed, Kept, NEW d \in Drivers,
         \/ Run(d) \/ Resume(d) \/ StartRefused(d)
         \/ CommitTick(d) \/ HeadStops(d) \/ LoopEnds(d)
         \/ AppendNothing(d) \/ AppendStops(d)
         \/ ExportExtends(d) \/ ExportStops(d) \/ CheckpointStops(d)
         \/ StopSilently(d) \/ StopUnrecorded(d) \/ StopExportFails(d)
         \/ CloseChecked(d) \/ CloseCommits(d) \/ SaveUsage(d) \/ Killed(d)
  PROVE  Kept'
<1>1. /\ pc \in [Drivers -> Phases] /\ next \in [Drivers -> Nat] /\ rows \in Seq(Event)
      /\ clock \in [Drivers -> 0..Duration] /\ batch \in [Drivers -> Seq(Event)]
      /\ Holds(d)
  BY DEF Placed, TypeOK, Kept
<1>2. UNCHANGED <<rows, checkpoints, shown>>
  <2>1. CASE Run(d) \/ Resume(d) \/ StartRefused(d) \/ CommitTick(d) \/ HeadStops(d)
             \/ LoopEnds(d) \/ AppendNothing(d) \/ AppendStops(d)
    BY <2>1 DEF Run, CreateRun, Resume, StartRefused, CommitTick, HeadStops, LoopEnds,
                AppendNothing, AppendStops, store
  <2>2. CASE ExportExtends(d) \/ ExportStops(d) \/ CheckpointStops(d) \/ StopSilently(d)
             \/ StopUnrecorded(d) \/ StopExportFails(d)
    BY <2>2 DEF ExportExtends, ExtendExport, ExportStops, CutExport, CheckpointStops,
                StopSilently, StopUnrecorded, StopExportFails, store
  <2>3. CASE CloseChecked(d) \/ CloseCommits(d) \/ SaveUsage(d)
    BY <2>3 DEF CloseChecked, WriteMetrics, CloseCommits, CommitOutcome, SaveUsage, store
  <2>4. CASE Killed(d)
    BY <2>4 DEF Killed, CutExport, store
  <2> QED
    BY <2>1, <2>2, <2>3, <2>4
<1>3. CASE Run(d)
  <2>1. pc'[d] = "append" /\ next'[d] = 1 /\ batch'[d] = StartBatch
    BY <1>1, <1>3 DEF Run, Goto
  <2>2. FirstOf(d)' = 0
    BY <2>1, StartBatchSlice DEF FirstOf
  <2>3. Follows(rows', 0)
    BY <1>1, <1>2, LenProperties DEF Follows
  <2>4. Holds(d)'
    BY <2>1, <2>2, <2>3 DEF Holds
  <2> QED
    BY <1>2, <1>3, <2>4, QuietStep DEF Step
<1>4. CASE Resume(d)
  <2>1. PICK c \in RestorePoints : Resumable(c) /\ next' = [next EXCEPT ![d] = c.next]
    BY <1>4 DEF Resume
  <2>2. pc'[d] = "head" /\ next'[d] = c.next
    BY <1>1, <1>4, <2>1 DEF Resume, Goto
  <2>3. Follows(rows', next'[d])
    BY <1>2, <2>1, <2>2, RestorePointFollows
  <2>4. Holds(d)'
    BY <2>2, <2>3 DEF Holds
  <2> QED
    BY <1>2, <1>4, <2>4, QuietStep DEF Step
<1>5. CASE StartRefused(d) \/ CloseCommits(d) \/ Killed(d)
  <2>1. Holds(d)'
    BY <1>5, DeadHolds DEF StartRefused, CloseCommits, Killed
  <2> QED
    BY <1>2, <1>5, <2>1, QuietStep DEF Step
<1>6. CASE CommitTick(d)
  <2>1. /\ clock[d] \in 0..(Duration - 1) /\ next[d] = Upto[clock[d]]
        /\ pc'[d] = "append" /\ batch'[d] = TickBatch(clock[d])
        /\ next'[d] = Upto[clock[d] + 1] - Upto[clock[d]] + next[d]
    BY <1>1, <1>6, DriverAssumption DEF CommitTick, Goto, Placed, Position
  <2>2. FirstOf(d)' = next[d]
    BY <1>1, <2>1, UptoBounds, TickBatchSlice DEF FirstOf
  <2>3. Holds(d)'
    BY <1>1, <1>2, <1>6, <2>1, <2>2 DEF Holds, CommitTick
  <2> QED
    BY <1>2, <1>6, <2>3, QuietStep DEF Step
<1>7. CASE HeadStops(d) \/ AppendStops(d) \/ ExportStops(d) \/ CheckpointStops(d)
  <2>1. Holds(d)'
    BY <1>7, StoppingHolds DEF HeadStops, AppendStops, ExportStops, CheckpointStops
  <2> QED
    BY <1>2, <1>7, <2>1, QuietStep DEF Step
<1>8. CASE LoopEnds(d) \/ ExportExtends(d)
  <2>1. Holds(d)'
    BY <1>1, <1>2, <1>8 DEF LoopEnds, ExportExtends, Goto, Holds
  <2> QED
    BY <1>2, <1>8, <2>1, QuietStep DEF Step
<1>9. CASE AppendNothing(d)
  <2>1. FirstOf(d) = next[d]
    BY <1>1, <1>9, EmptySeq DEF AppendNothing, FirstOf
  <2>2. Holds(d)'
    BY <1>1, <1>2, <1>9, <2>1 DEF AppendNothing, Goto, Holds
  <2> QED
    BY <1>2, <1>9, <2>2, QuietStep DEF Step
<1>10. CASE StopSilently(d) \/ StopUnrecorded(d) \/ StopExportFails(d) \/ CloseChecked(d)
            \/ SaveUsage(d)
  <2>1. pc'[d] \in {"close", "closeCommit"}
    BY <1>1, <1>10 DEF StopSilently, StopUnrecorded, StopExportFails, CloseChecked, SaveUsage, Goto
  <2>2. Holds(d)'
    BY <2>1 DEF Holds
  <2> QED
    BY <1>2, <1>10, <2>2, QuietStep DEF Step
<1> QED
  BY <1>3, <1>4, <1>5, <1>6, <1>7, <1>8, <1>9, <1>10

-----------------------------------------------------------------------------
(* AppendCommits: the store admits the batch only where its rows end, and  *)
(* what the driver relies on there says those rows are all the stream's.   *)
LEMMA AppendKeeps ==
  ASSUME Placed, Kept, NEW d \in Drivers, AppendCommits(d)
  PROVE  Kept'
<1>1. /\ pc[d] = "append" /\ batch[d] # <<>> /\ FirstOf(d) = Len(rows)
      /\ rows' = rows \o batch[d]
      /\ pc' = [pc EXCEPT ![d] = "export"]
      /\ UNCHANGED <<checkpoints, next, batch, shown>>
  BY DEF AppendCommits, AppendAdmitted, CommitRows, Goto
<1>2. /\ rows \in Seq(Event) /\ pc \in [Drivers -> Phases] /\ batch[d] \in Seq(Event)
      /\ Len(rows) \in Nat /\ Len(batch[d]) \in Nat /\ next[d] \in Nat
      /\ next[d] = Len(rows) + Len(batch[d]) /\ 1 <= next[d]
  <2>1. /\ batch[d] \in Seq(Event) /\ next[d] \in Nat /\ 1 <= next[d]
        /\ next[d] = FirstOf(d) + Len(batch[d])
    BY <1>1, BatchIsSlice
  <2>2. rows \in Seq(Event) /\ pc \in [Drivers -> Phases]
    BY DEF Placed, TypeOK
  <2> QED
    BY <1>1, <2>1, <2>2, LenProperties
<1>3. \A i \in 1..Len(batch[d]) : /\ Len(rows) + i <= Len(Stream)
                                  /\ batch[d][i] = Stream[Len(rows) + i]
  <2>1. \A i \in 1..Len(batch[d]) : /\ FirstOf(d) + i <= Len(Stream)
                                   /\ batch[d][i] = Stream[FirstOf(d) + i]
    BY <1>1, BatchIsSlice
  <2> QED
    BY <1>1, <2>1
<1>4. Follows(rows, Len(rows))
  BY <1>1 DEF Kept, Holds
<1>5. Follows(rows', next[d])
  BY <1>1, <1>2, <1>3, <1>4, FollowsBatch
<1>6. Len(rows') = next[d] /\ rows' \in Seq(Event)
  BY <1>1, <1>2, ConcatProperties
<1>7. ASSUME NEW e \in Drivers PROVE Holds(e)'
  <2>1. CASE e = d
    <3>1. pc'[d] = "export" /\ next'[d] = next[d]
      BY <1>1, <1>2
    <3> QED
      BY <1>5, <2>1, <3>1 DEF Holds
  <2>2. CASE e # d
    <3>1. Step(d)
      BY DEF Step
    <3> QED
      BY <1>1, <1>2, <2>2, <3>1, StepMovesOne, OthersHold
  <2> QED
    BY <2>1, <2>2
<1>8. Follows(rows', 1)
  BY <1>2, <1>5, <1>6 DEF Follows
<1>9. StreamIsCanonical'
  <2>1. Recorded(next[d])'
    BY <1>1, <1>5 DEF Recorded, Follows
  <2>2. next[d] \in 0..Len(rows') /\ (next[d] + 1)..Len(rows') = {}
    BY <1>2, <1>6
  <2> QED
    BY <1>1, <2>1, <2>2 DEF StreamIsCanonical
<1>10. CheckpointsFollow' /\ PersistBeforePublish'
  BY <1>1, <1>2, GrowthKeepsStored DEF CheckpointsFollow, PersistBeforePublish
<1> QED
  BY <1>7, <1>8, <1>9, <1>10 DEF Kept

(* StopRecorded: a failure event follows whatever is stored and becomes    *)
(* the row its driver will export.                                         *)
LEMMA StopRecordedKeeps ==
  ASSUME Placed, Kept, NEW d \in Drivers, StopRecorded(d)
  PROVE  Kept'
<1> DEFINE f == Failed(clock[d])
<1>1. /\ pc[d] = "stop" /\ next[d] = Len(rows)
      /\ rows' = rows \o <<f>>
      /\ pc' = [pc EXCEPT ![d] = "stopExport"]
      /\ batch' = [batch EXCEPT ![d] = <<f>>]
      /\ UNCHANGED <<checkpoints, next, clock, shown>>
  BY DEF StopRecorded, AppendAdmitted, CommitRows, Goto
<1>2. /\ rows \in Seq(Event) /\ pc \in [Drivers -> Phases] /\ batch \in [Drivers -> Seq(Event)]
      /\ Len(rows) \in Nat /\ f \in Event /\ <<f>> \in Seq(Event) /\ Len(<<f>>) = 1
      /\ 1 <= next[d] /\ f.type = "run.failed"
  <2>1. clock[d] \in 0..Duration
    BY DEF Placed, TypeOK
  <2>2. f \in Event /\ f.type = "run.failed"
    BY <2>1, DriverAssumption DEF Failed
  <2>3. 1 <= next[d]
    BY <1>1 DEF Kept, Holds
  <2> HIDE DEF f
  <2> QED
    BY <2>2, <2>3, LenProperties DEF Placed, TypeOK
<1> HIDE DEF f
<1>3. /\ Len(rows') = Len(rows) + 1 /\ rows' \in Seq(Event)
      /\ rows'[Len(rows) + 1] = f
      /\ \A i \in 1..Len(rows) : rows'[i] = rows[i]
  <2>1. /\ Len(rows') = Len(rows) + 1
        /\ \A i \in 1..(Len(rows) + 1) :
             rows'[i] = IF i <= Len(rows) THEN rows[i] ELSE <<f>>[i - Len(rows)]
    BY <1>1, <1>2, ConcatProperties
  <2>2. rows' \in Seq(Event)
    BY <1>1, <1>2, ConcatProperties
  <2> QED
    BY <1>2, <2>1, <2>2
<1>4. ASSUME NEW e \in Drivers PROVE Holds(e)'
  <2>1. CASE e = d
    <3>1. pc'[d] = "stopExport" /\ batch'[d] = <<f>> /\ next'[d] = Len(rows) /\ clock'[d] = clock[d]
      BY <1>1, <1>2
    <3>2. next'[d] < Len(rows') /\ rows'[next'[d] + 1] = f
      BY <1>2, <1>3, <3>1
    <3> QED
      BY <2>1, <3>1, <3>2 DEF Holds, f
  <2>2. CASE e # d
    <3>1. Step(d)
      BY DEF Step
    <3> QED
      BY <1>1, <1>2, <2>2, <3>1, StepMovesOne, OthersHold
  <2> QED
    BY <2>1, <2>2
<1>5. Follows(rows', 1)
  <2>1. rows # <<>>
    <3>1. Len(<<>>) = 0
      BY EmptySeq
    <3> QED
      BY <1>1, <1>2, <3>1
  <2> QED
    BY <1>1, <1>2, <2>1, GrowthKeepsStored
<1>6. StreamIsCanonical'
  <2>1. PICK n \in 0..Len(rows) :
          /\ Recorded(n)
          /\ \A i \in (n + 1)..Len(rows) : rows[i].type = "run.failed"
    BY DEF Kept, StreamIsCanonical
  <2>2. Follows(rows', n)
    BY <1>1, <1>2, <2>1, FollowsGrows DEF Recorded, Follows
  <2>3. Recorded(n)'
    BY <2>2 DEF Recorded, Follows
  <2>4. ASSUME NEW i \in (n + 1)..Len(rows') PROVE rows'[i].type = "run.failed"
    <3>1. CASE i = Len(rows) + 1
      BY <1>2, <1>3, <3>1
    <3>2. CASE i # Len(rows) + 1
      <4>1. i \in (n + 1)..Len(rows) /\ i \in 1..Len(rows)
        BY <1>2, <1>3, <2>1, <3>2
      <4> QED
        BY <1>3, <2>1, <4>1
    <3> QED
      BY <3>1, <3>2
  <2>5. n \in 0..Len(rows')
    BY <1>2, <1>3, <2>1
  <2> QED
    BY <2>3, <2>4, <2>5 DEF StreamIsCanonical
<1>7. CheckpointsFollow' /\ PersistBeforePublish'
  BY <1>1, <1>2, GrowthKeepsStored DEF CheckpointsFollow, PersistBeforePublish
<1> QED
  BY <1>4, <1>5, <1>6, <1>7 DEF Kept

(* What a driver offers the sinks after its append is what is stored. *)
LEMMA OfferedIsStored ==
  ASSUME Placed, Kept, NEW d \in Drivers, pc[d] = "sinks",
         NEW s \in Offered(batch[d], FirstOf(d))
  PROVE  s.seq < Len(rows) /\ rows[s.seq + 1] = s.event
<1>1. PICK i \in 1..Len(batch[d]) : s = [seq |-> FirstOf(d) + i - 1, event |-> batch[d][i]]
  BY DEF Offered
<1>2. /\ FirstOf(d) \in Nat /\ next[d] = FirstOf(d) + Len(batch[d])
      /\ Len(batch[d]) \in Nat /\ batch[d][i] = Stream[FirstOf(d) + i]
  BY BatchIsSlice, LenProperties
<1>3. Follows(rows, next[d]) /\ Len(rows) \in Nat
  BY LenProperties DEF Kept, Holds, Placed, TypeOK
<1>4. FirstOf(d) + i \in 1..next[d] /\ next[d] <= Len(rows)
  BY <1>2, <1>3 DEF Follows
<1>5. rows[FirstOf(d) + i] = Stream[FirstOf(d) + i]
  BY <1>3, <1>4 DEF Follows
<1>6. s.seq + 1 = FirstOf(d) + i /\ s.seq < Len(rows)
  BY <1>1, <1>2, <1>3, <1>4
<1> QED
  BY <1>1, <1>2, <1>5, <1>6

(* A step that shows only stored events and moves one driver. *)
LEMMA ShowingStep ==
  ASSUME Placed, Kept, NEW d \in Drivers, Step(d), Holds(d)',
         UNCHANGED <<rows, checkpoints>>,
         \A s \in shown' \ shown : s.seq < Len(rows) /\ rows[s.seq + 1] = s.event
  PROVE  Kept'
<1>1. rows \in Seq(Event) /\ <<>> \in Seq(Event) /\ rows' = rows \o <<>>
  BY ConcatEmptySeq DEF Placed, TypeOK
<1>2. \A e \in Drivers : Holds(e)'
  <2>1. ASSUME NEW e \in Drivers \ {d} PROVE Holds(e)'
    BY <1>1, StepMovesOne, OthersHold
  <2> QED
    BY <2>1
<1>3. StreamIsCanonical'
  BY DEF Kept, StreamIsCanonical, Recorded
<1>4. PersistBeforePublish'
  <2>1. PersistBeforePublish
    BY DEF Kept
  <2> QED
    BY <2>1 DEF PersistBeforePublish
<1> QED
  BY <1>2, <1>3, <1>4 DEF Kept, CheckpointsFollow

(* The two publications and the publication of a stop. *)
LEMMA ShowingSteps ==
  ASSUME Placed, Kept, NEW d \in Drivers, Publish(d) \/ PublishStops(d) \/ StopExported(d)
  PROVE  Kept'
<1>1. /\ pc \in [Drivers -> Phases] /\ next \in [Drivers -> Nat] /\ rows \in Seq(Event)
      /\ Holds(d)
  BY DEF Placed, TypeOK, Kept
<1>2. CASE Publish(d)
  <2>1. pc[d] = "sinks" /\ shown' = shown \cup Offered(batch[d], FirstOf(d))
        /\ UNCHANGED <<next, rows, checkpoints>>
    BY <1>2 DEF Publish, store
  <2>2. pc'[d] \in {"head", "checkpoint"}
    BY <1>1, <1>2 DEF Publish, Goto
  <2>3. Holds(d)'
    BY <1>1, <2>1, <2>2 DEF Holds
  <2>4. \A s \in shown' \ shown : s.seq < Len(rows) /\ rows[s.seq + 1] = s.event
    BY <2>1, OfferedIsStored
  <2> QED
    BY <1>2, <2>1, <2>3, <2>4, ShowingStep DEF Step
<1>3. CASE PublishStops(d)
  <2>1. /\ pc[d] = "sinks" /\ UNCHANGED <<rows, checkpoints>>
        /\ shown' \subseteq shown \cup Offered(batch[d], FirstOf(d))
    BY <1>3 DEF PublishStops, store
  <2>2. Holds(d)'
    BY <1>3, <2>1, StoppingHolds DEF PublishStops
  <2>3. \A s \in shown' \ shown : s.seq < Len(rows) /\ rows[s.seq + 1] = s.event
    BY <2>1, OfferedIsStored
  <2> QED
    BY <1>3, <2>1, <2>2, <2>3, ShowingStep DEF Step
<1>4. CASE StopExported(d)
  <2>1. /\ pc[d] = "stopExport" /\ UNCHANGED <<rows, checkpoints>>
        /\ shown' \subseteq shown \cup Offered(batch[d], next[d])
        /\ pc'[d] = "close"
    BY <1>1, <1>4 DEF StopExported, ExtendExport, Goto
  <2>2. Holds(d)'
    BY <2>1 DEF Holds
  <2>3. batch[d] = <<Failed(clock[d])>> /\ next[d] < Len(rows)
        /\ rows[next[d] + 1] = Failed(clock[d])
    BY <1>1, <2>1 DEF Holds
  <2>4. Offered(batch[d], next[d]) = {[seq |-> next[d], event |-> Failed(clock[d])]}
    BY <1>1, <2>3 DEF Offered
  <2>5. \A s \in shown' \ shown : s.seq < Len(rows) /\ rows[s.seq + 1] = s.event
    BY <2>1, <2>3, <2>4
  <2> QED
    BY <1>4, <2>1, <2>2, <2>5, ShowingStep DEF Step
<1> QED
  BY <1>2, <1>3, <1>4

(* A checkpoint is taken after its tick's events are stored. *)
LEMMA CheckpointKeeps ==
  ASSUME Placed, Kept, NEW d \in Drivers, SaveCheckpoint(d)
  PROVE  Kept'
<1>1. /\ pc[d] = "checkpoint" /\ pc' = [pc EXCEPT ![d] = "head"]
      /\ checkpoints' = checkpoints \cup {CheckpointOf(d)}
      /\ UNCHANGED <<next, rows, shown>>
  BY DEF SaveCheckpoint, StoreCheckpoint, Goto
<1>2. Follows(rows, next[d]) /\ pc'[d] = "head" /\ rows \in Seq(Event)
  BY <1>1 DEF Kept, Holds, Placed, TypeOK
<1>3. \A e \in Drivers : Holds(e)'
  <2>1. <<>> \in Seq(Event) /\ rows' = rows \o <<>>
    BY <1>1, <1>2, ConcatEmptySeq
  <2>2. ASSUME NEW e \in Drivers \ {d} PROVE Holds(e)'
    <3>1. Step(d)
      BY DEF Step
    <3> QED
      BY <2>1, <3>1, StepMovesOne, OthersHold
  <2>3. Holds(d)'
    BY <1>1, <1>2 DEF Holds
  <2> QED
    BY <2>2, <2>3
<1>4. CheckpointsFollow'
  BY <1>1, <1>2 DEF CheckpointOf, Kept, CheckpointsFollow
<1>5. StreamIsCanonical' /\ PersistBeforePublish'
  BY <1>1 DEF Kept, StreamIsCanonical, PersistBeforePublish, Recorded
<1> QED
  BY <1>1, <1>3, <1>4, <1>5 DEF Kept

-----------------------------------------------------------------------------
LEMMA InitKept == Init => Kept
<1> SUFFICES ASSUME Init PROVE Kept
  OBVIOUS
<1>1. \A d \in Drivers : Holds(d)
  BY DEF Init, Holds
<1>2. rows = <<>> /\ checkpoints = {} /\ shown = {}
  BY DEF Init, StoreInit
<1>3. StreamIsCanonical
  <2>1. Len(rows) = 0
    BY <1>2, EmptySeq
  <2>2. Recorded(0)
    BY <2>1 DEF Recorded
  <2> QED
    BY <2>1, <2>2 DEF StreamIsCanonical
<1> QED
  BY <1>1, <1>2, <1>3 DEF Kept, CheckpointsFollow, PersistBeforePublish

LEMMA KeptPreserved == Placed /\ Kept /\ [Next]_vars => Kept'
<1> SUFFICES ASSUME Placed, Kept, [Next]_vars PROVE Kept'
  OBVIOUS
<1>1. ASSUME NEW d \in Drivers, Step(d) PROVE Kept'
  <2>1. CASE AppendCommits(d) \/ StopRecorded(d)
    BY <2>1, AppendKeeps, StopRecordedKeeps
  <2>2. CASE Publish(d) \/ PublishStops(d) \/ StopExported(d)
    BY <2>2, ShowingSteps
  <2>3. CASE SaveCheckpoint(d)
    BY <2>3, CheckpointKeeps
  <2>4. CASE \/ Run(d) \/ Resume(d) \/ StartRefused(d)
             \/ CommitTick(d) \/ HeadStops(d) \/ LoopEnds(d)
             \/ AppendNothing(d) \/ AppendStops(d)
             \/ ExportExtends(d) \/ ExportStops(d) \/ CheckpointStops(d)
             \/ StopSilently(d) \/ StopUnrecorded(d) \/ StopExportFails(d)
             \/ CloseChecked(d) \/ CloseCommits(d) \/ SaveUsage(d) \/ Killed(d)
    BY <2>4, QuietSteps
  <2> QED
    BY <1>1, <2>1, <2>2, <2>3, <2>4 DEF Step
<1>2. CASE Repair
  <2>1. UNCHANGED <<pc, clock, next, batch, shown, rows, checkpoints>>
    BY <1>2 DEF Repair, RebuildExport, memory
  <2> QED
    BY <2>1 DEF Kept, Holds, FirstOf, CheckpointsFollow, StreamIsCanonical, Recorded,
                PersistBeforePublish
<1>3. CASE UNCHANGED vars
  BY <1>3 DEF vars, store, memory, Kept, Holds, FirstOf, CheckpointsFollow, StreamIsCanonical,
              Recorded, PersistBeforePublish
<1> QED
  BY <1>1, <1>2, <1>3 DEF Next

THEOREM AlwaysKept == Spec => []Kept
BY AlwaysPlaced, InitKept, KeptPreserved, PTL DEF Spec

(* However many drivers run, crash, resume and overlap, the stored stream  *)
(* is the deterministic one, with at most failure events after it.         *)
THEOREM StreamStaysCanonical == Spec => []StreamIsCanonical
<1>1. Kept => StreamIsCanonical
  BY DEF Kept
<1> QED
  BY <1>1, AlwaysKept, PTL

(* No sink is ever offered an event the store does not hold at that very   *)
(* sequence, even when two drivers race for it.                            *)
THEOREM ShownIsStored == Spec => []PersistBeforePublish
<1>1. Kept => PersistBeforePublish
  BY DEF Kept
<1> QED
  BY <1>1, AlwaysKept, PTL

(* Every checkpoint stands on a day boundary and names exactly the stored  *)
(* events that precede it.                                                 *)
THEOREM CheckpointsStayExact == Spec => []CheckpointsAreExact
<1>1. Placed /\ Kept => CheckpointsAreExact
  BY DEF Placed, Boundary, Kept, CheckpointsFollow, Follows, Recorded, CheckpointsAreExact
<1> QED
  BY <1>1, AlwaysPlaced, AlwaysKept, PTL

(* Whatever a crash left behind, a resumed driver's clock stands at the    *)
(* boundary after the last stored event, and the store holds exactly the   *)
(* stream up to there.                                                     *)
THEOREM ResumeStaysExact == Spec => ResumeIsExact
<1> DEFINE Exact(d) == pc[d] = "idle" /\ pc'[d] = "head" =>
                         /\ rows = SubSeq(Stream, 1, Upto[clock'[d]])
                         /\ next'[d] = Len(rows)
<1>1. ASSUME Placed, Kept, NEW d \in Drivers, Resume(d), pc[d] = "idle"
      PROVE  Exact(d)
  <2>1. PICK c \in RestorePoints :
          /\ Resumable(c)
          /\ next' = [next EXCEPT ![d] = c.next]
          /\ clock' = [clock EXCEPT ![d] = c.minute]
    BY <1>1 DEF Resume
  <2>2. c.next = Upto[c.minute] /\ c.next = Len(rows) /\ Follows(rows, Len(rows))
    BY <1>1, <2>1, RestorePointPlaced, RestorePointFollows
  <2>3. next'[d] = Len(rows) /\ clock'[d] = c.minute
    BY <1>1, <2>1, <2>2 DEF Placed, TypeOK
  <2>4. /\ rows \in Seq(Event) /\ Stream \in Seq(Event)
        /\ Len(rows) \in Nat
    BY <1>1, LenProperties, DriverAssumption DEF Placed, TypeOK
  <2>5. ASSUME NEW i \in 1..Len(rows)
        PROVE  i <= Len(Stream) /\ Stream[i] = rows[i] /\ rows[i] \in Event
    BY <2>2, <2>4, ElementOfSeq DEF Follows
  <2> DEFINE n == Len(rows)
             cut == SubSeq(Stream, 1, n)
  <2>6. \A i \in 1..n : Stream[i] \in Event
    BY <2>5
  <2>7. /\ cut \in Seq(Event) /\ Len(cut) = n
        /\ \A i \in 1..n : cut[i] = Stream[i]
    <3>1. n \in Int /\ 1 \in Int
      BY <2>4
    <3>2. /\ cut \in Seq(Event)
          /\ Len(cut) = IF 1 <= n THEN n - 1 + 1 ELSE 0
          /\ \A i \in 1..(n - 1 + 1) : cut[i] = Stream[1 + i - 1]
      <4> HIDE DEF n
      <4> QED
        BY <2>6, <3>1, SubSeqProperties
    <3> HIDE DEF cut
    <3> QED
      BY <2>4, <3>1, <3>2
  <2>8. rows = cut
    <3> HIDE DEF cut
    <3> QED
      BY <2>4, <2>5, <2>7, SeqEqual
  <2> QED
    BY <2>2, <2>3, <2>8
<1>2. ASSUME Placed, Kept, NEW d \in Drivers, Step(d)
      PROVE  Exact(d)
  <2>1. CASE pc[d] = "idle"
    <3>1. Run(d) \/ Resume(d) \/ StartRefused(d)
      BY <1>2, <2>1 DEF Step, CommitTick, HeadStops, LoopEnds, AppendNothing, AppendCommits,
           AppendStops, ExportExtends, ExportStops, Publish, PublishStops, SaveCheckpoint,
           CheckpointStops, StopSilently, StopRecorded, StopUnrecorded, StopExported,
           StopExportFails, CloseChecked, CloseCommits, SaveUsage, Killed, Live
    <3>2. CASE Run(d) \/ StartRefused(d)
      BY <1>2, <3>2 DEF Run, StartRefused, Goto, Die, Placed, TypeOK
    <3> QED
      BY <1>1, <1>2, <2>1, <3>1, <3>2
  <2> QED
    BY <2>1
<1>3. ASSUME Placed, Kept, Next
      PROVE  \A d \in Drivers : Exact(d)
  <2>1. CASE Repair
    BY <2>1 DEF Repair, memory
  <2>2. ASSUME NEW e \in Drivers, Step(e)
        PROVE  \A d \in Drivers : Exact(d)
    <3>1. ASSUME NEW d \in Drivers \ {e} PROVE Exact(d)
      <4>1. pc'[d] = pc[d]
        BY <1>3, <2>2, StepMovesOne DEF Only
      <4> QED
        BY <4>1
    <3>2. Exact(e)
      BY <1>2, <1>3, <2>2
    <3> HIDE DEF Exact
    <3> QED
      BY <3>1, <3>2
  <2> HIDE DEF Exact
  <2> QED
    BY <1>3, <2>1, <2>2 DEF Next
<1>4. Placed /\ Kept /\ [Next]_vars => [\A d \in Drivers : Exact(d)]_vars
  <2> HIDE DEF Exact
  <2> QED
    BY <1>3
<1>5. Spec => [][\A d \in Drivers : Exact(d)]_vars
  <2> HIDE DEF Exact
  <2> QED
    BY <1>4, AlwaysPlaced, AlwaysKept, PTL DEF Spec
<1> QED
  BY <1>5 DEF ResumeIsExact

-----------------------------------------------------------------------------
(***************************************************************************)
(* The artifacts beside the rows.  The export never leads them, for every  *)
(* number of overlapping drivers, kills and torn writes: a driver between  *)
(* its rows and its export is the only one there, since the store measures *)
(* the export before it admits a batch, and while that driver stands there *)
(* the export is short by exactly its batch.  And while drivers do not     *)
(* overlap, the outcome and the metrics document of a closed run account   *)
(* for its stream.                                                         *)
(***************************************************************************)

(* x holds the leading elements of r, but for a torn last line. *)
Trails(x, r) ==
  /\ Len(x) <= Len(r)
  /\ \A i \in 1..Len(x) : x[i] = r[i] \/ (x[i] = Torn /\ i = Len(x))

(* r is x followed by b, line for line. *)
Continues(r, x, b) ==
  /\ Len(r) = Len(x) + Len(b)
  /\ \A i \in 1..Len(x) : x[i] = r[i]
  /\ \A i \in 1..Len(b) : b[i] = r[Len(x) + i]

Between(d) == pc[d] \in {"export", "stopExport"}

Exporting(d) ==
  /\ batch[d] # <<>>
  /\ Continues(rows, export, batch[d])
  /\ \A e \in Drivers : Between(e) => e = d

Exported ==
  /\ Trails(export, rows)
  /\ \A d \in Drivers : Between(d) => Exporting(d)

-----------------------------------------------------------------------------
(* The facts about sequences of lines: a full agreement, a commit, a whole *)
(* write and a cut one.                                                    *)

Line == Event \cup {Torn}

LEMMA AgreeThenContinue ==
  ASSUME NEW r \in Seq(Event), NEW x \in Seq(Line), NEW b \in Seq(Event),
         Trails(x, r), Len(x) = Len(r), \A i \in 1..Len(x) : x[i] # Torn
  PROVE  Continues(r \o b, x, b) /\ Trails(x, r \o b)
<1>1. /\ Len(r) \in Nat /\ Len(b) \in Nat
      /\ Len(r \o b) = Len(r) + Len(b)
      /\ \A i \in 1..(Len(r) + Len(b)) :
           (r \o b)[i] = IF i <= Len(r) THEN r[i] ELSE b[i - Len(r)]
  BY ConcatProperties, LenProperties
<1>2. ASSUME NEW i \in 1..Len(x) PROVE x[i] = (r \o b)[i]
  <2>1. x[i] = r[i]
    BY DEF Trails
  <2>2. i \in 1..(Len(r) + Len(b)) /\ i <= Len(r)
    BY <1>1
  <2> QED
    BY <1>1, <2>1, <2>2
<1>3. ASSUME NEW i \in 1..Len(b) PROVE b[i] = (r \o b)[Len(x) + i]
  <2>1. /\ Len(x) + i \in 1..(Len(r) + Len(b))
        /\ ~ (Len(x) + i <= Len(r))
        /\ (Len(x) + i) - Len(r) = i
    BY <1>1
  <2> QED
    BY <1>1, <2>1
<1>4. Len(r \o b) = Len(x) + Len(b) /\ Len(x) <= Len(r \o b)
  BY <1>1
<1> QED
  BY <1>2, <1>3, <1>4 DEF Continues, Trails

LEMMA ContinuedTrails ==
  ASSUME NEW r \in Seq(Event), NEW x \in Seq(Line), NEW b \in Seq(Event),
         Continues(r, x, b)
  PROVE  Trails(x \o b, r)
<1>1. b \in Seq(Line)
  BY SeqMonotonic DEF Line
<1>2. /\ Len(x) \in Nat /\ Len(b) \in Nat
      /\ Len(x \o b) = Len(x) + Len(b)
      /\ \A i \in 1..(Len(x) + Len(b)) :
           (x \o b)[i] = IF i <= Len(x) THEN x[i] ELSE b[i - Len(x)]
  BY <1>1, ConcatProperties, LenProperties
<1>3. ASSUME NEW i \in 1..Len(x \o b) PROVE (x \o b)[i] = r[i]
  <2>1. CASE i <= Len(x)
    <3>1. i \in 1..Len(x) /\ i \in 1..(Len(x) + Len(b))
      BY <1>2, <2>1
    <3>2. x[i] = r[i]
      BY <3>1 DEF Continues
    <3> QED
      BY <1>2, <2>1, <3>1, <3>2
  <2>2. CASE ~ (i <= Len(x))
    <3>1. i - Len(x) \in 1..Len(b) /\ Len(x) + (i - Len(x)) = i /\ i \in 1..(Len(x) + Len(b))
      BY <1>2, <2>2
    <3>2. b[i - Len(x)] = r[Len(x) + (i - Len(x))]
      BY <3>1 DEF Continues
    <3> QED
      BY <1>2, <2>2, <3>1, <3>2
  <2> QED
    BY <2>1, <2>2
<1>4. Len(x \o b) <= Len(r)
  BY <1>2 DEF Continues
<1> QED
  BY <1>3, <1>4 DEF Trails

(* The leading lines of a batch continue the export too. *)
LEMMA CutContinues ==
  ASSUME NEW r \in Seq(Event), NEW x \in Seq(Line), NEW b \in Seq(Event),
         Continues(r, x, b), NEW k \in 0..Len(b)
  PROVE  /\ Trails(x \o SubSeq(b, 1, k), r)
         /\ k < Len(b) => Trails(x \o Append(SubSeq(b, 1, k), Torn), r)
<1> DEFINE c == SubSeq(b, 1, k)
           t == Append(c, Torn)
<1>1. Len(x) \in Nat /\ Len(b) \in Nat /\ k \in Nat /\ k <= Len(b) /\ Torn \in Line
  BY LenProperties DEF Line
<1>2. \A i \in 1..k : b[i] \in Event
  BY <1>1, ElementOfSeq
<1>3. c \in Seq(Line) /\ Len(c) = k /\ \A i \in 1..k : c[i] = b[i]
  <2>1. /\ c \in Seq(Event) /\ Len(c) = (IF 1 <= k THEN k - 1 + 1 ELSE 0)
        /\ \A i \in 1..(k - 1 + 1) : c[i] = b[1 + i - 1]
    BY <1>1, <1>2, SubSeqProperties
  <2>2. c \in Seq(Line)
    BY <2>1, SeqMonotonic DEF Line
  <2> HIDE DEF c
  <2>3. Len(c) = k
    BY <1>1, <2>1
  <2>4. ASSUME NEW i \in 1..k PROVE c[i] = b[i]
    <3>1. i \in 1..(k - 1 + 1) /\ 1 + i - 1 = i
      BY <1>1
    <3> QED
      BY <2>1, <3>1
  <2> QED
    BY <2>2, <2>3, <2>4
<1> HIDE DEF c
<1>4. /\ Len(x \o c) = Len(x) + k
      /\ \A i \in 1..(Len(x) + k) : (x \o c)[i] = IF i <= Len(x) THEN x[i] ELSE c[i - Len(x)]
  BY <1>1, <1>3, ConcatProperties
<1>5. ASSUME NEW i \in 1..(Len(x) + k) PROVE (x \o c)[i] = r[i]
  <2>1. CASE i <= Len(x)
    <3>1. i \in 1..Len(x)
      BY <1>1, <2>1
    <3>2. x[i] = r[i]
      BY <3>1 DEF Continues
    <3> QED
      BY <1>4, <2>1, <3>2
  <2>2. CASE ~ (i <= Len(x))
    <3>1. i - Len(x) \in 1..k /\ i - Len(x) \in 1..Len(b) /\ Len(x) + (i - Len(x)) = i
      BY <1>1, <2>2
    <3>2. c[i - Len(x)] = b[i - Len(x)] /\ b[i - Len(x)] = r[Len(x) + (i - Len(x))]
      BY <1>3, <3>1 DEF Continues
    <3> QED
      BY <1>4, <2>2, <3>1, <3>2
  <2> QED
    BY <2>1, <2>2
<1>6. Len(r) = Len(x) + Len(b)
  BY DEF Continues
<1>7. Trails(x \o c, r)
  BY <1>1, <1>4, <1>5, <1>6 DEF Trails
<1>8. ASSUME k < Len(b) PROVE Trails(x \o t, r)
  <2>1. /\ t \in Seq(Line) /\ Len(t) = k + 1 /\ t[k + 1] = Torn
        /\ \A i \in 1..k : t[i] = c[i]
    BY <1>1, <1>3, AppendProperties
  <2> HIDE DEF t
  <2>2. /\ Len(x \o t) = Len(x) + (k + 1)
        /\ \A i \in 1..(Len(x) + (k + 1)) :
             (x \o t)[i] = IF i <= Len(x) THEN x[i] ELSE t[i - Len(x)]
    <3>1. /\ Len(x \o t) = Len(x) + Len(t)
          /\ \A i \in 1..(Len(x) + Len(t)) :
               (x \o t)[i] = IF i <= Len(x) THEN x[i] ELSE t[i - Len(x)]
      BY <2>1, ConcatProperties
    <3>2. Len(t) = k + 1
      BY <2>1
    <3> QED
      BY <3>1, <3>2
  <2>3. Len(x \o t) <= Len(r)
    BY <1>1, <1>6, <1>8, <2>2
  <2>4. ASSUME NEW i \in 1..Len(x \o t)
        PROVE  (x \o t)[i] = r[i] \/ ((x \o t)[i] = Torn /\ i = Len(x \o t))
    <3>1. CASE i = Len(x) + (k + 1)
      <4>1. i - Len(x) = k + 1 /\ ~ (i <= Len(x)) /\ i \in 1..(Len(x) + (k + 1))
        BY <1>1, <3>1
      <4> QED
        BY <2>1, <2>2, <3>1, <4>1
    <3>2. CASE i # Len(x) + (k + 1)
      <4>1. i \in 1..(Len(x) + k) /\ i \in 1..(Len(x) + (k + 1))
        BY <1>1, <2>2, <3>2
      <4>2. (x \o t)[i] = (x \o c)[i]
        <5>1. CASE i <= Len(x)
          BY <1>4, <2>2, <4>1, <5>1
        <5>2. CASE ~ (i <= Len(x))
          <6>1. i - Len(x) \in 1..k
            BY <1>1, <4>1, <5>2
          <6>2. t[i - Len(x)] = c[i - Len(x)]
            BY <2>1, <6>1
          <6> QED
            BY <1>4, <2>2, <4>1, <5>2, <6>2
        <5> QED
          BY <5>1, <5>2
      <4> QED
        BY <1>5, <4>1, <4>2
    <3> QED
      BY <3>1, <3>2
  <2> QED
    BY <2>3, <2>4 DEF Trails
<1> QED
  BY <1>7, <1>8 DEF c
-----------------------------------------------------------------------------
(* What a commit does to the export's standing: the store measured it.     *)
LEMMA CommitExports ==
  ASSUME Placed, Exported, NEW d \in Drivers, NEW b \in Seq(Event), b # <<>>,
         AppendAdmitted(Len(rows)), CommitRows(b), Only(d),
         batch'[d] = b
  PROVE  Exported'
<1>1. /\ rows \in Seq(Event) /\ export \in Seq(Line) /\ Len(rows) \in Nat /\ Len(b) \in Nat
      /\ Len(export) = Len(rows) /\ \A i \in 1..Len(export) : export[i] # Torn
      /\ rows' = rows \o b /\ export' = export
  BY LenProperties DEF Placed, TypeOK, Line, AppendAdmitted, ExportAgrees, CommitRows
<1>2. Continues(rows', export', b) /\ Trails(export', rows')
  BY <1>1, AgreeThenContinue DEF Exported
<1>3. ASSUME NEW e \in Drivers, Between(e) PROVE FALSE
  <2>1. batch[e] # <<>> /\ Len(rows) = Len(export) + Len(batch[e])
    BY <1>3 DEF Exported, Exporting, Continues
  <2>2. batch[e] \in Seq(Event)
    BY DEF Placed, TypeOK
  <2>3. Len(batch[e]) \in Nat /\ Len(batch[e]) # 0
    BY <2>1, <2>2, LenProperties, EmptySeq
  <2> QED
    BY <1>1, <2>1, <2>3
<1>4. ASSUME NEW e \in Drivers, Between(e)' PROVE e = d
  BY <1>3, <1>4 DEF Only, Between
<1>5. ASSUME NEW e \in Drivers, Between(e)' PROVE Exporting(e)'
  <2>1. e = d
    BY <1>4, <1>5
  <2>2. batch'[e] # <<>> /\ Continues(rows', export', batch'[e])
    BY <1>2, <2>1
  <2>3. \A f \in Drivers : Between(f)' => f = e
    BY <1>4, <2>1
  <2> QED
    BY <2>2, <2>3 DEF Exporting
<1> QED
  BY <1>2, <1>5 DEF Exported

(* A driver that leaves the export leaves nobody there: it was alone.      *)
LEMMA LeavesExport ==
  ASSUME Placed, Exported, NEW d \in Drivers, Between(d), ~ Between(d)', Only(d),
         Trails(export', rows')
  PROVE  Exported'
<1>1. \A e \in Drivers : Between(e) => e = d
  BY DEF Exported, Exporting
<1>2. ASSUME NEW e \in Drivers PROVE ~ Between(e)'
  BY <1>1 DEF Only, Between
<1> QED
  BY <1>2 DEF Exported

(* A step that leaves rows and export alone, of a driver that does not     *)
(* come to stand between them.                                             *)
LEMMA ElsewhereExports ==
  ASSUME Placed, Exported, NEW d \in Drivers, Only(d), ~ Between(d)',
         UNCHANGED <<rows, export>>
  PROVE  Exported'
<1>1. ASSUME NEW e \in Drivers, Between(e)' PROVE Between(e) /\ batch'[e] = batch[e]
  BY <1>1 DEF Only, Between
<1>2. ASSUME NEW e \in Drivers, Between(e)' PROVE Exporting(e)'
  <2>1. Exporting(e) /\ batch'[e] = batch[e]
    BY <1>1, <1>2 DEF Exported
  <2>2. batch'[e] # <<>> /\ Continues(rows', export', batch'[e])
    BY <2>1 DEF Exporting
  <2>3. \A f \in Drivers : Between(f)' => f = e
    BY <1>1, <2>1 DEF Exporting
  <2> QED
    BY <2>2, <2>3 DEF Exporting
<1>3. Trails(export', rows')
  BY DEF Exported
<1> QED
  BY <1>2, <1>3 DEF Exported

(* The export takes the batch, whole or in part.                           *)
LEMMA WriteTrails ==
  ASSUME Placed, Exported, NEW d \in Drivers, Between(d),
         ExtendExport(batch[d]) \/ CutExport(batch[d])
  PROVE  Trails(export', rows')
<1>1. /\ rows \in Seq(Event) /\ export \in Seq(Line) /\ batch[d] \in Seq(Event)
      /\ Continues(rows, export, batch[d])
  BY DEF Placed, TypeOK, Line, Exported, Exporting
<1>2. CASE ExtendExport(batch[d])
  <2>1. export' = export \o batch[d] /\ rows' = rows
    BY <1>2 DEF ExtendExport
  <2> QED
    BY <1>1, <2>1, ContinuedTrails
<1>3. CASE CutExport(batch[d])
  <2>1. PICK k \in 0..Len(batch[d]) :
          \/ export' = export \o SubSeq(batch[d], 1, k)
          \/ /\ k < Len(batch[d])
             /\ export' = export \o Append(SubSeq(batch[d], 1, k), Torn)
    BY <1>3 DEF CutExport
  <2>2. rows' = rows
    BY <1>3 DEF CutExport
  <2> QED
    BY <1>1, <2>1, <2>2, CutContinues
<1> QED
  BY <1>2, <1>3

-----------------------------------------------------------------------------
(* The two commits. *)
LEMMA CommitSteps ==
  ASSUME Placed, Exported, NEW d \in Drivers, AppendCommits(d) \/ StopRecorded(d)
  PROVE  Exported'
<1>1. Only(d)
  BY StepMovesOne DEF Step
<1>2. CASE AppendCommits(d)
  <2>1. /\ batch[d] # <<>> /\ AppendAdmitted(Len(rows)) /\ CommitRows(batch[d])
        /\ batch'[d] = batch[d] /\ batch[d] \in Seq(Event)
    BY <1>2 DEF AppendCommits, AppendAdmitted, Placed, TypeOK
  <2> QED
    BY <1>1, <2>1, CommitExports
<1>3. CASE StopRecorded(d)
  <2> DEFINE b == <<Failed(clock[d])>>
  <2>1. /\ AppendAdmitted(Len(rows)) /\ CommitRows(b) /\ batch' = [batch EXCEPT ![d] = b]
    BY <1>3 DEF StopRecorded, AppendAdmitted
  <2>2. b \in Seq(Event) /\ Len(b) = 1
    BY DriverAssumption DEF Placed, TypeOK
  <2>3. b # <<>>
    <3>1. Len(<<>>) = 0
      BY EmptySeq
    <3> QED
      BY <2>2, <3>1
  <2> HIDE DEF b
  <2>4. batch'[d] = b
    BY <2>1 DEF Placed, TypeOK
  <2> QED
    BY <1>1, <2>1, <2>2, <2>3, <2>4, CommitExports
<1> QED
  BY <1>2, <1>3

(* Every way out of the export. *)
LEMMA ExportSteps ==
  ASSUME Placed, Exported, NEW d \in Drivers, Between(d),
         ExportExtends(d) \/ ExportStops(d) \/ StopExported(d) \/ StopExportFails(d) \/ Killed(d)
  PROVE  Exported'
<1>1. Only(d) /\ pc \in [Drivers -> Phases]
  BY StepMovesOne DEF Step, Placed, TypeOK
<1>2. ExtendExport(batch[d]) \/ CutExport(batch[d])
  BY DEF ExportExtends, ExportStops, StopExported, StopExportFails, Killed, Between
<1>3. pc'[d] \in {"sinks", "stop", "close", "dead"}
  BY <1>1 DEF ExportExtends, ExportStops, StopExported, StopExportFails, Killed, Goto, StopWith, Die
<1>4. ~ Between(d)'
  BY <1>3 DEF Between
<1> QED
  BY <1>1, <1>2, <1>4, WriteTrails, LeavesExport

(* The steps away from the export. *)
LEMMA ElsewhereSteps ==
  ASSUME Placed, Exported, NEW d \in Drivers, ~ Between(d), Step(d),
         ~ AppendCommits(d), ~ StopRecorded(d)
  PROVE  Exported'
<1>1. Only(d) /\ pc \in [Drivers -> Phases]
  BY StepMovesOne DEF Placed, TypeOK
<1>2. CASE Run(d) \/ Resume(d) \/ StartRefused(d)
  <2>1. UNCHANGED <<rows, export>> /\ pc'[d] \in {"append", "head", "dead"}
    BY <1>1, <1>2 DEF Run, Resume, StartRefused, CreateRun, Goto, Die, store
  <2> QED
    BY <1>1, <2>1, ElsewhereExports DEF Between
<1>3. CASE \/ CommitTick(d) \/ HeadStops(d) \/ LoopEnds(d) \/ AppendNothing(d)
           \/ AppendStops(d)
  <2>1. UNCHANGED <<rows, export>> /\ pc'[d] \in {"append", "stop", "usage", "sinks"}
    BY <1>1, <1>3 DEF CommitTick, HeadStops, LoopEnds, AppendNothing, AppendStops, Goto,
         StopWith, store
  <2> QED
    BY <1>1, <2>1, ElsewhereExports DEF Between
<1>4. CASE Publish(d) \/ PublishStops(d) \/ SaveCheckpoint(d) \/ CheckpointStops(d)
  <2>1. UNCHANGED <<rows, export>> /\ pc'[d] \in {"head", "checkpoint", "stop"}
    BY <1>1, <1>4 DEF Publish, PublishStops, SaveCheckpoint, CheckpointStops, StoreCheckpoint,
         Goto, StopWith, store
  <2> QED
    BY <1>1, <2>1, ElsewhereExports DEF Between
<1>5. CASE StopSilently(d) \/ StopUnrecorded(d) \/ SaveUsage(d)
  <2>1. UNCHANGED <<rows, export>> /\ pc'[d] = "close"
    BY <1>1, <1>5 DEF StopSilently, StopUnrecorded, SaveUsage, Goto, store
  <2> QED
    BY <1>1, <2>1, ElsewhereExports DEF Between
<1>6. CASE CloseChecked(d) \/ CloseCommits(d) \/ Killed(d)
  <2>1. UNCHANGED <<rows, export>> /\ pc'[d] \in {"closeCommit", "dead"}
    BY <1>1, <1>6 DEF CloseChecked, CloseCommits, Killed, WriteMetrics, CommitOutcome, Goto,
         Die, Between, store
  <2> QED
    BY <1>1, <2>1, ElsewhereExports DEF Between
<1>7. ~ (ExportExtends(d) \/ ExportStops(d) \/ StopExported(d) \/ StopExportFails(d))
  BY DEF ExportExtends, ExportStops, StopExported, StopExportFails, Between
<1> QED
  BY <1>2, <1>3, <1>4, <1>5, <1>6, <1>7 DEF Step

LEMMA InitExported == Init => Exported
<1> SUFFICES ASSUME Init PROVE Exported
  OBVIOUS
<1>1. rows = <<>> /\ export = <<>> /\ \A d \in Drivers : pc[d] = "idle"
  BY DEF Init, StoreInit
<1>2. Len(rows) = 0 /\ Len(export) = 0
  BY <1>1, EmptySeq
<1> QED
  BY <1>1, <1>2 DEF Exported, Trails, Between

LEMMA ExportedPreserved == Placed /\ Exported /\ [Next]_vars => Exported'
<1> SUFFICES ASSUME Placed, Exported, [Next]_vars PROVE Exported'
  OBVIOUS
<1>1. ASSUME NEW d \in Drivers, Step(d) PROVE Exported'
  <2>1. CASE AppendCommits(d) \/ StopRecorded(d)
    BY <2>1, CommitSteps
  <2>2. CASE Between(d) /\ ~ (AppendCommits(d) \/ StopRecorded(d))
    <3>1. pc[d] \in {"export", "stopExport"}
      BY <2>2 DEF Between
    <3>2. ExportExtends(d) \/ ExportStops(d) \/ StopExported(d) \/ StopExportFails(d) \/ Killed(d)
      BY <1>1, <3>1 DEF Step, Run, Resume, StartRefused, MayStart, CommitTick, HeadStops,
           LoopEnds, AppendNothing, AppendCommits, AppendStops, Publish, PublishStops,
           SaveCheckpoint, CheckpointStops, StopSilently, StopRecorded, StopUnrecorded,
           CloseChecked, CloseCommits, SaveUsage
    <3> QED
      BY <2>2, <3>2, ExportSteps
  <2>3. CASE ~ Between(d) /\ ~ (AppendCommits(d) \/ StopRecorded(d))
    BY <1>1, <2>3, ElsewhereSteps
  <2> QED
    BY <2>1, <2>2, <2>3
<1>2. CASE Repair
  <2>1. ASSUME NEW d \in Drivers PROVE ~ Between(d)'
    BY <1>2 DEF Repair, Live, Between, memory
  <2>2. export' = rows /\ rows' = rows /\ Len(rows) \in Nat
    BY <1>2, LenProperties DEF Repair, RebuildExport, Placed, TypeOK
  <2>3. Trails(export', rows')
    BY <2>2 DEF Trails
  <2> QED
    BY <2>1, <2>3 DEF Exported
<1>3. CASE UNCHANGED vars
  BY <1>3 DEF vars, store, memory, Exported, Exporting, Between
<1> QED
  BY <1>1, <1>2, <1>3 DEF Next

THEOREM AlwaysExported == Spec => []Exported
BY AlwaysPlaced, InitExported, ExportedPreserved, PTL DEF Spec

(* The export never holds a line no row backs, and only its last line may  *)
(* be torn, however many drivers are cut off while writing it.             *)
THEOREM ExportStaysBehind == Spec => []ExportNeverLeads
<1>1. Exported => ExportNeverLeads
  BY DEF Exported, Trails, ExportNeverLeads
<1> QED
  BY <1>1, AlwaysExported, PTL

-----------------------------------------------------------------------------
(* A run whose drivers do not overlap.  A live driver has the run to       *)
(* itself and the run is open; one about to record an outcome stands on    *)
(* exactly the stream its result counts.                                   *)
Closing(d) ==
  /\ Live(d) => status = "running"
  /\ pc[d] \in {"stop", "stopExport"} => verdict[d] \in Stops
  /\ pc[d] = "usage" => clock[d] = Duration
  /\ pc[d] = "close" /\ verdict[d] = "completed" =>
       clock[d] = Duration /\ next[d] = Len(Stream) /\ Follows(rows, Len(Stream))
  /\ pc[d] = "closeCommit" =>
       /\ metrics = ResultOf(d)
       /\ next[d] = Len(rows)
       /\ verdict[d] = "completed" => rows = Stream /\ clock[d] = Duration

OneLive == \A d, e \in Drivers : Live(d) /\ Live(e) => d = e

Accounted ==
  /\ OneLive
  /\ \A d \in Drivers : Closing(d)
  /\ ClosedRunAccountsForItsStream

(* Nobody else lives when a driver has moved.                              *)
LEMMA OthersRest ==
  ASSUME MaxLive = 1, IsFiniteSet(Drivers), Placed, OneLive,
         NEW d \in Drivers, Step(d), NEW e \in Drivers \ {d}
  PROVE  ~ Live(e)'
<1>1. pc'[e] = pc[e]
  BY StepMovesOne DEF Only
<1>2. CASE Live(d)
  BY <1>1, <1>2 DEF OneLive, Live
<1>3. CASE ~ Live(d)
  <2> DEFINE L == {f \in Drivers : Live(f)}
  <2>1. Run(d) \/ Resume(d) \/ StartRefused(d)
    BY <1>3 DEF Live, Step, CommitTick, HeadStops, LoopEnds, AppendNothing, AppendCommits,
         AppendStops, ExportExtends, ExportStops, Publish, PublishStops, SaveCheckpoint,
         CheckpointStops, StopSilently, StopRecorded, StopUnrecorded, StopExported,
         StopExportFails, CloseChecked, CloseCommits, SaveUsage, Killed
  <2>2. Cardinality(L) < 1
    BY <2>1 DEF Run, Resume, StartRefused, MayStart
  <2>3. IsFiniteSet(L) /\ Cardinality(L) \in Nat
    BY FS_Subset, FS_CardinalityType
  <2>4. L = {}
    <3> HIDE DEF L
    <3> QED
      BY <2>2, <2>3, FS_EmptySet
  <2>5. ~ Live(e)
    BY <2>4
  <2> QED
    BY <1>1, <2>5 DEF Live
<1> QED
  BY <1>2, <1>3

(* With the others at rest, a step is judged by its own driver.            *)
LEMMA OwnAccount ==
  ASSUME MaxLive = 1, IsFiniteSet(Drivers), Placed, Accounted, NEW d \in Drivers, Step(d),
         Closing(d)', ClosedRunAccountsForItsStream'
  PROVE  Accounted'
<1>1. \A e \in Drivers \ {d} : ~ Live(e)'
  BY OthersRest DEF Accounted
<1>2. ASSUME NEW e \in Drivers \ {d} PROVE Closing(e)'
  <2>1. pc'[e] \in {"idle", "dead"}
    BY <1>1 DEF Live
  <2> QED
    BY <1>1, <2>1 DEF Closing
<1>3. OneLive'
  BY <1>1 DEF OneLive
<1> QED
  BY <1>2, <1>3 DEF Accounted

(* Starting, or being refused. *)
LEMMA StartsAccounted ==
  ASSUME Placed, Accounted, NEW d \in Drivers, Run(d) \/ Resume(d) \/ StartRefused(d)
  PROVE  Closing(d)' /\ ClosedRunAccountsForItsStream'
<1>1. pc \in [Drivers -> Phases]
  BY DEF Placed, TypeOK
<1>2. CASE Run(d)
  <2>1. pc'[d] = "append" /\ status' = "running"
    BY <1>1, <1>2 DEF Run, CreateRun, Goto
  <2> QED
    BY <2>1 DEF Closing, Live, ClosedRunAccountsForItsStream, Outcomes
<1>3. CASE Resume(d)
  <2>1. pc'[d] = "head" /\ status' = "running" /\ status = "running"
    BY <1>1, <1>3 DEF Resume, Resumable, Goto, store
  <2> QED
    BY <2>1 DEF Closing, Live, ClosedRunAccountsForItsStream, Outcomes
<1>4. CASE StartRefused(d)
  <2>1. pc'[d] = "dead" /\ UNCHANGED <<status, rows, metrics, result>>
    BY <1>1, <1>4 DEF StartRefused, Die, store
  <2> QED
    BY <2>1 DEF Closing, Live, Accounted, ClosedRunAccountsForItsStream
<1> QED
  BY <1>2, <1>3, <1>4

(* Driving, and stopping.  A closed run has no live driver, so none of     *)
(* these touches a closed one.                                             *)
LEMMA DrivesAccounted ==
  ASSUME Placed, Accounted, NEW d \in Drivers, Live(d), status' = status,
         \/ pc'[d] \in {"append", "export", "sinks", "head", "checkpoint", "dead"}
         \/ pc'[d] = "usage" /\ clock'[d] = Duration
         \/ pc'[d] \in {"stop", "stopExport", "close"} /\ verdict'[d] \in Stops
  PROVE  Closing(d)' /\ ClosedRunAccountsForItsStream'
<1>1. status = "running"
  BY DEF Accounted, Closing
<1> QED
  BY <1>1 DEF Closing, ClosedRunAccountsForItsStream, Outcomes, Stops

LEMMA DrivingSteps ==
  ASSUME Placed, Accounted, NEW d \in Drivers, Step(d),
         ~ (Run(d) \/ Resume(d) \/ StartRefused(d)),
         ~ (SaveUsage(d) \/ CloseChecked(d) \/ CloseCommits(d))
  PROVE  Closing(d)' /\ ClosedRunAccountsForItsStream'
<1>1. /\ pc \in [Drivers -> Phases] /\ verdict \in [Drivers -> Outcomes \cup {"none"}]
      /\ Closing(d)
  BY DEF Placed, TypeOK, Accounted
<1>2. CASE CommitTick(d) \/ AppendNothing(d) \/ AppendCommits(d) \/ ExportExtends(d)
           \/ Publish(d) \/ SaveCheckpoint(d)
  <2>1. /\ Live(d) /\ status' = status
        /\ pc'[d] \in {"append", "export", "sinks", "head", "checkpoint"}
    BY <1>1, <1>2 DEF CommitTick, AppendNothing, AppendCommits, CommitRows, ExportExtends,
         ExtendExport, Publish, SaveCheckpoint, StoreCheckpoint, Goto, Live, store
  <2> QED
    BY <2>1, DrivesAccounted
<1>3. CASE LoopEnds(d)
  <2>1. Live(d) /\ status' = status /\ pc'[d] = "usage" /\ clock'[d] = Duration
    BY <1>1, <1>3 DEF LoopEnds, Goto, Live, store
  <2> QED
    BY <2>1, DrivesAccounted
<1>4. CASE HeadStops(d) \/ AppendStops(d) \/ ExportStops(d) \/ PublishStops(d)
           \/ CheckpointStops(d)
  <2>1. /\ Live(d) /\ status' = status
        /\ \E v \in Stops : StopWith(d, v)
    BY <1>1, <1>4 DEF HeadStops, AppendStops, ExportStops, CutExport, PublishStops,
         CheckpointStops, Live, store
  <2>2. pc'[d] = "stop" /\ verdict'[d] \in Stops
    BY <1>1, <2>1 DEF StopWith
  <2> QED
    BY <2>1, <2>2, DrivesAccounted
<1>5. CASE StopSilently(d) \/ StopRecorded(d) \/ StopUnrecorded(d) \/ StopExported(d)
           \/ StopExportFails(d)
  <2>1. pc[d] \in {"stop", "stopExport"} /\ verdict' = verdict
    BY <1>5 DEF StopSilently, StopRecorded, StopUnrecorded, StopExported, StopExportFails
  <2>2. status' = status /\ pc'[d] \in {"stopExport", "close"}
    BY <1>1, <1>5 DEF StopSilently, StopRecorded, CommitRows, StopUnrecorded, StopExported,
         ExtendExport, StopExportFails, CutExport, Goto, store
  <2>3. Live(d) /\ verdict'[d] \in Stops
    BY <1>1, <2>1 DEF Closing, Live
  <2> QED
    BY <2>2, <2>3, DrivesAccounted
<1>6. CASE Killed(d)
  <2>1. Live(d) /\ status' = status /\ pc'[d] = "dead"
    BY <1>1, <1>6 DEF Killed, CutExport, Die, store
  <2> QED
    BY <2>1, DrivesAccounted
<1> QED
  BY <1>2, <1>3, <1>4, <1>5, <1>6 DEF Step

(* Completing: the loop has ended at the last tick, and the result counts  *)
(* the events the store holds.                                             *)
LEMMA ClosingSteps ==
  ASSUME Placed, Kept, Accounted, NEW d \in Drivers,
         SaveUsage(d) \/ CloseChecked(d) \/ CloseCommits(d)
  PROVE  Closing(d)' /\ ClosedRunAccountsForItsStream'
<1>1. /\ pc \in [Drivers -> Phases] /\ verdict \in [Drivers -> Outcomes \cup {"none"}]
      /\ rows \in Seq(Event) /\ Stream \in Seq(Event) /\ Len(Stream) = Upto[Duration]
      /\ Closing(d) /\ Holds(d) /\ Position(d)
  BY DriverAssumption DEF Placed, TypeOK, Accounted, Kept
<1>2. status = "running"
  BY <1>1 DEF SaveUsage, CloseChecked, CloseCommits, Closing, Live
<1>3. CASE SaveUsage(d)
  <2>1. /\ pc[d] = "usage" /\ pc'[d] = "close" /\ status' = status
        /\ UNCHANGED <<clock, next, rows>>
    BY <1>1, <1>3 DEF SaveUsage, Goto, store
  <2>2. clock[d] = Duration /\ next[d] = Len(Stream) /\ Follows(rows, next[d])
    BY <1>1, <2>1 DEF Closing, Position, Holds
  <2>3. Follows(rows', Len(Stream))
    BY <2>1, <2>2
  <2> QED
    BY <1>2, <2>1, <2>2, <2>3 DEF Closing, ClosedRunAccountsForItsStream, Outcomes
<1>4. CASE CloseChecked(d)
  <2>1. /\ pc[d] = "close" /\ pc'[d] = "closeCommit" /\ status' = status
        /\ metrics' = ResultOf(d) /\ ResultOf(d).count = Len(rows)
        /\ UNCHANGED <<clock, next, verdict, rows>>
    BY <1>1, <1>4 DEF CloseChecked, CloseAdmitted, WriteMetrics, Goto
  <2>2. next[d] = Len(rows)
    BY <2>1 DEF ResultOf
  <2>3. ASSUME verdict[d] = "completed" PROVE rows = Stream /\ clock[d] = Duration
    <3>1. clock[d] = Duration /\ next[d] = Len(Stream) /\ Follows(rows, Len(Stream))
      BY <1>1, <2>1, <2>3 DEF Closing
    <3>2. Len(rows) = Len(Stream) /\ \A i \in 1..Len(rows) : rows[i] = Stream[i]
      BY <2>2, <3>1 DEF Follows
    <3> QED
      BY <1>1, <3>1, <3>2, SeqEqual
  <2>4. ResultOf(d)' = ResultOf(d)
    BY <2>1 DEF ResultOf
  <2> QED
    BY <1>2, <2>1, <2>2, <2>3, <2>4 DEF Closing, ClosedRunAccountsForItsStream, Outcomes
<1>5. CASE CloseCommits(d)
  <2>1. /\ pc[d] = "closeCommit" /\ pc'[d] = "dead"
        /\ status' = verdict[d] /\ result' = ResultOf(d)
        /\ UNCHANGED <<rows, metrics>>
    BY <1>1, <1>5 DEF CloseCommits, CommitOutcome, ResultOf, Die
  <2>2. /\ metrics = ResultOf(d) /\ next[d] = Len(rows)
        /\ verdict[d] = "completed" => rows = Stream /\ clock[d] = Duration
    BY <1>1, <2>1 DEF Closing
  <2>3. /\ ResultOf(d).status = verdict[d] /\ ResultOf(d).count = next[d]
        /\ ResultOf(d).minute = clock[d]
    BY DEF ResultOf
  <2>4. ClosedRunAccountsForItsStream'
    BY <2>1, <2>2, <2>3 DEF ClosedRunAccountsForItsStream
  <2> QED
    BY <2>1, <2>4 DEF Closing, Live
<1> QED
  BY <1>3, <1>4, <1>5

LEMMA InitAccounted == Init => Accounted
<1> SUFFICES ASSUME Init PROVE Accounted
  OBVIOUS
<1>1. status = "absent" /\ \A d \in Drivers : pc[d] = "idle"
  BY DEF Init, StoreInit
<1> QED
  BY <1>1 DEF Accounted, OneLive, Closing, Live, ClosedRunAccountsForItsStream, Outcomes

LEMMA AccountedPreserved ==
  ASSUME MaxLive = 1, IsFiniteSet(Drivers)
  PROVE  Placed /\ Kept /\ Accounted /\ [Next]_vars => Accounted'
<1> SUFFICES ASSUME Placed, Kept, Accounted, [Next]_vars PROVE Accounted'
  OBVIOUS
<1>1. ASSUME NEW d \in Drivers, Step(d) PROVE Accounted'
  <2>1. Closing(d)' /\ ClosedRunAccountsForItsStream'
    BY <1>1, StartsAccounted, DrivingSteps, ClosingSteps
  <2> QED
    BY <1>1, <2>1, OwnAccount
<1>2. CASE Repair
  <2>1. UNCHANGED <<status, rows, metrics, result, pc, clock, next, batch, verdict>>
    BY <1>2 DEF Repair, RebuildExport, memory
  <2> QED
    BY <2>1 DEF Accounted, OneLive, Closing, Live, ResultOf, ClosedRunAccountsForItsStream
<1>3. CASE UNCHANGED vars
  BY <1>3 DEF vars, store, memory, Accounted, OneLive, Closing, Live, ResultOf,
              ClosedRunAccountsForItsStream
<1> QED
  BY <1>1, <1>2, <1>3 DEF Next

(* While the drivers of a run do not overlap, a closed run accounts for    *)
(* its stream: outcome, count and metrics document agree with the rows,    *)
(* and one recorded completed holds the whole stream.  Overlapping drivers *)
(* can close a run twice, so the assumption is needed.                     *)
THEOREM ClosedRunsAccount ==
  ASSUME MaxLive = 1, IsFiniteSet(Drivers)
  PROVE  Spec => []ClosedRunAccountsForItsStream
<1>1. Accounted => ClosedRunAccountsForItsStream
  BY DEF Accounted
<1>2. Placed /\ Kept /\ Accounted /\ [Next]_vars => Accounted'
  BY AccountedPreserved
<1> QED
  BY <1>1, <1>2, AlwaysPlaced, AlwaysKept, InitAccounted, PTL DEF Spec

-----------------------------------------------------------------------------
(***************************************************************************)
(* The run as its readers see it.  While drivers do not overlap, one that  *)
(* is driving or about to record a failure finds nothing but the stream in *)
(* the store; so the run only ever extends the stream, ends it with one    *)
(* failure event, shows what is stored, and closes for good.               *)
(***************************************************************************)

Driving(d) ==
  pc[d] \in {"append", "export", "sinks", "head", "checkpoint", "usage", "stop"}

Unended ==
  /\ status = "absent" => rows = <<>>
  /\ \A d \in Drivers : Driving(d) => Follows(rows, Len(rows))

(* A stored piece of the stream ends with no failure.                      *)
LEMMA FollowingIsUnended ==
  ASSUME rows \in Seq(Event), Follows(rows, Len(rows))
  PROVE  ~ Reader!Ended
<1> SUFFICES ASSUME rows # <<>>, NEW t \in 0..Duration, rows[Len(rows)] = Failed(t)
             PROVE  FALSE
  BY DEF Reader!Ended
<1>1. Len(rows) \in Nat /\ Len(rows) # 0
  BY EmptySeq, LenProperties
<1>2. Len(rows) \in 1..Len(rows)
  BY <1>1
<1>3. rows[Len(rows)] = Stream[Len(rows)] /\ Len(rows) <= Len(Stream)
  BY <1>2 DEF Follows
<1>4. Len(rows) \in 1..Len(Stream)
  BY <1>1, <1>3, DriverAssumption, LenProperties
<1>5. Stream[Len(rows)].type # "run.failed"
  BY <1>4, DriverAssumption
<1> QED
  BY <1>3, <1>5 DEF Failed

(* What an admitted append makes of the rows.                              *)
LEMMA AppendedFollows ==
  ASSUME Placed, Kept, NEW d \in Drivers, AppendCommits(d)
  PROVE  /\ Follows(rows', Len(rows')) /\ rows' \in Seq(Event)
         /\ rows' = rows \o batch[d] /\ Len(rows') > Len(rows)
<1>1. /\ pc[d] = "append" /\ batch[d] # <<>> /\ FirstOf(d) = Len(rows)
      /\ rows' = rows \o batch[d]
  BY DEF AppendCommits, AppendAdmitted, CommitRows
<1>2. /\ rows \in Seq(Event) /\ batch[d] \in Seq(Event)
      /\ Len(rows) \in Nat /\ Len(batch[d]) \in Nat /\ Len(batch[d]) # 0
  BY <1>1, EmptySeq, LenProperties DEF Placed, TypeOK
<1>3. \A i \in 1..Len(batch[d]) : /\ Len(rows) + i <= Len(Stream)
                                  /\ batch[d][i] = Stream[Len(rows) + i]
  <2>1. \A i \in 1..Len(batch[d]) : /\ FirstOf(d) + i <= Len(Stream)
                                    /\ batch[d][i] = Stream[FirstOf(d) + i]
    BY <1>1, BatchIsSlice
  <2> QED
    BY <1>1, <2>1
<1>4. Follows(rows, Len(rows))
  BY <1>1 DEF Kept, Holds
<1>5. Follows(rows \o batch[d], Len(rows) + Len(batch[d]))
  BY <1>2, <1>3, <1>4, FollowsBatch
<1>6. Len(rows \o batch[d]) = Len(rows) + Len(batch[d]) /\ rows \o batch[d] \in Seq(Event)
  BY <1>2, ConcatProperties
<1> QED
  BY <1>1, <1>2, <1>5, <1>6

(* Which steps change the rows, and which the outcome.                     *)
LEMMA RowsStay ==
  ASSUME NEW d \in Drivers, Step(d), ~ AppendCommits(d), ~ StopRecorded(d)
  PROVE  UNCHANGED rows
<1>1. CASE Run(d) \/ Resume(d) \/ StartRefused(d) \/ CommitTick(d) \/ HeadStops(d)
           \/ LoopEnds(d) \/ AppendNothing(d) \/ AppendStops(d)
  BY <1>1 DEF Run, CreateRun, Resume, StartRefused, CommitTick, HeadStops, LoopEnds,
              AppendNothing, AppendStops, store
<1>2. CASE ExportExtends(d) \/ ExportStops(d) \/ Publish(d) \/ PublishStops(d)
           \/ SaveCheckpoint(d) \/ CheckpointStops(d)
  BY <1>2 DEF ExportExtends, ExtendExport, ExportStops, CutExport, Publish, PublishStops,
              SaveCheckpoint, StoreCheckpoint, CheckpointStops, store
<1>3. CASE StopSilently(d) \/ StopUnrecorded(d) \/ StopExported(d) \/ StopExportFails(d)
  BY <1>3 DEF StopSilently, StopUnrecorded, StopExported, ExtendExport, StopExportFails,
              CutExport, store
<1>4. CASE CloseChecked(d) \/ CloseCommits(d) \/ SaveUsage(d) \/ Killed(d)
  BY <1>4 DEF CloseChecked, WriteMetrics, CloseCommits, CommitOutcome, SaveUsage, Killed,
              CutExport, store
<1> QED
  BY <1>1, <1>2, <1>3, <1>4 DEF Step

LEMMA StatusStays ==
  ASSUME NEW d \in Drivers, Step(d), ~ Run(d), ~ CloseCommits(d)
  PROVE  UNCHANGED status
<1>1. CASE Resume(d) \/ StartRefused(d) \/ CommitTick(d) \/ HeadStops(d)
           \/ LoopEnds(d) \/ AppendNothing(d) \/ AppendStops(d) \/ AppendCommits(d)
  BY <1>1 DEF Resume, StartRefused, CommitTick, HeadStops, LoopEnds,
              AppendNothing, AppendStops, AppendCommits, CommitRows, store
<1>2. CASE ExportExtends(d) \/ ExportStops(d) \/ Publish(d) \/ PublishStops(d)
           \/ SaveCheckpoint(d) \/ CheckpointStops(d)
  BY <1>2 DEF ExportExtends, ExtendExport, ExportStops, CutExport, Publish, PublishStops,
              SaveCheckpoint, StoreCheckpoint, CheckpointStops, store
<1>3. CASE StopSilently(d) \/ StopRecorded(d) \/ StopUnrecorded(d) \/ StopExported(d)
           \/ StopExportFails(d)
  BY <1>3 DEF StopSilently, StopRecorded, CommitRows, StopUnrecorded, StopExported,
              ExtendExport, StopExportFails, CutExport, store
<1>4. CASE CloseChecked(d) \/ SaveUsage(d) \/ Killed(d)
  BY <1>4 DEF CloseChecked, WriteMetrics, SaveUsage, Killed, CutExport, store
<1> QED
  BY <1>1, <1>2, <1>3, <1>4 DEF Step

LEMMA ShownStays ==
  ASSUME NEW d \in Drivers, Step(d), ~ Publish(d), ~ PublishStops(d), ~ StopExported(d)
  PROVE  UNCHANGED shown
BY DEF Step, Run, Resume, StartRefused, CommitTick, HeadStops, LoopEnds, AppendNothing,
       AppendCommits, AppendStops, ExportExtends, ExportStops, SaveCheckpoint,
       CheckpointStops, StopSilently, StopRecorded, StopUnrecorded, StopExportFails,
       CloseChecked, CloseCommits, SaveUsage, Killed

LEMMA InitUnended == Init => Unended
BY DEF Init, StoreInit, Unended, Driving

LEMMA UnendedPreserved ==
  ASSUME MaxLive = 1, IsFiniteSet(Drivers)
  PROVE  Placed /\ Kept /\ Accounted /\ Unended /\ [Next]_vars => Unended'
<1> SUFFICES ASSUME Placed, Kept, Accounted, Unended, [Next]_vars PROVE Unended'
  OBVIOUS
<1>1. ASSUME NEW d \in Drivers, Step(d) PROVE Unended'
  <2>1. \A e \in Drivers \ {d} : ~ Driving(e)'
    <3>1. \A e \in Drivers \ {d} : ~ Live(e)'
      BY <1>1, OthersRest DEF Accounted
    <3> QED
      BY <3>1 DEF Driving, Live
  <2>2. rows \in Seq(Event) /\ pc \in [Drivers -> Phases]
    BY DEF Placed, TypeOK
  <2>3. CASE AppendCommits(d)
    <3>1. status' = "running"
      BY <2>3 DEF AppendCommits, AppendAdmitted, CommitRows
    <3>2. Follows(rows', Len(rows'))
      BY <2>3, AppendedFollows
    <3> QED
      BY <3>1, <3>2 DEF Unended
  <2>4. CASE StopRecorded(d)
    <3>1. status' = "running" /\ pc'[d] = "stopExport"
      BY <2>2, <2>4 DEF StopRecorded, AppendAdmitted, CommitRows, Goto
    <3> QED
      BY <2>1, <3>1 DEF Unended, Driving
  <2>5. CASE ~ AppendCommits(d) /\ ~ StopRecorded(d)
    <3>1. UNCHANGED rows
      BY <1>1, <2>5, RowsStay
    <3>2. status' = "absent" => status = "absent"
      <4>1. CASE Run(d)
        BY <4>1 DEF Run, CreateRun
      <4>2. CASE CloseCommits(d)
        <5>1. status' = verdict[d] /\ verdict[d] \in Outcomes
          BY <4>2 DEF CloseCommits, CommitOutcome, ResultOf, Placed, Position
        <5> QED
          BY <5>1 DEF Outcomes
      <4> QED
        BY <1>1, <4>1, <4>2, StatusStays
    <3>3. Driving(d)' => Follows(rows, Len(rows))
      <4>1. CASE Run(d)
        <5>1. rows = <<>>
          BY <4>1 DEF Run, Unended
        <5>2. Len(rows) = 0
          BY <5>1, EmptySeq
        <5> QED
          BY <5>2 DEF Follows
      <4>2. CASE Resume(d)
        <5>1. PICK c \in RestorePoints : Resumable(c)
          BY <4>2 DEF Resume
        <5> QED
          BY <5>1, RestorePointFollows
      <4>3. CASE Driving(d)
        BY <4>3 DEF Unended
      <4>4. CASE ~ Run(d) /\ ~ Resume(d) /\ ~ Driving(d)
        <5>1. pc'[d] \in {"dead", "close", "closeCommit"}
          BY <1>1, <2>2, <2>5, <4>4 DEF Step, StartRefused, CommitTick, HeadStops, LoopEnds,
             AppendNothing, AppendStops, ExportExtends, ExportStops, Publish, PublishStops,
             SaveCheckpoint, CheckpointStops, StopSilently, StopUnrecorded, StopExported,
             StopExportFails, CloseChecked, CloseCommits, SaveUsage, Killed, Die, Goto, Driving
        <5> QED
          BY <5>1 DEF Driving
      <4> QED
        BY <4>1, <4>2, <4>3, <4>4
    <3> QED
      BY <2>1, <3>1, <3>2, <3>3 DEF Unended
  <2> QED
    BY <2>3, <2>4, <2>5
<1>2. CASE Repair
  BY <1>2 DEF Repair, RebuildExport, memory, Unended, Driving
<1>3. CASE UNCHANGED vars
  BY <1>3 DEF vars, store, memory, Unended, Driving
<1> QED
  BY <1>1, <1>2, <1>3 DEF Next

-----------------------------------------------------------------------------
(* A recorded batch and a recorded failure extend the log.                 *)
LEMMA LogGrows ==
  ASSUME NEW r \in Seq(Event), NEW b \in Seq(Event)
  PROVE  SubSeq(r \o b, 1, Len(r)) = r
<1> DEFINE cut == SubSeq(r \o b, 1, Len(r))
<1>1. /\ Len(r) \in Nat /\ r \o b \in Seq(Event)
      /\ Len(r \o b) = Len(r) + Len(b) /\ Len(b) \in Nat
      /\ \A i \in 1..Len(r) : (r \o b)[i] = r[i]
  BY ConcatProperties, LenProperties
<1>2. \A i \in 1..Len(r) : (r \o b)[i] \in Event
  BY <1>1, ElementOfSeq
<1> DEFINE n == Len(r)
<1>3. /\ cut \in Seq(Event) /\ Len(cut) = n
      /\ \A i \in 1..n : cut[i] = r[i]
  <2>1. n \in Int /\ 1 \in Int
    BY <1>1
  <2>2. /\ cut \in Seq(Event)
        /\ Len(cut) = IF 1 <= n THEN n - 1 + 1 ELSE 0
        /\ \A i \in 1..(n - 1 + 1) : cut[i] = (r \o b)[1 + i - 1]
    <3> HIDE DEF n
    <3> QED
      BY <1>2, <2>1, SubSeqProperties DEF n
  <2> HIDE DEF cut
  <2> QED
    BY <1>1, <2>2
<1> QED
  BY <1>3, SeqEqual

LEMMA PrefixOfStream ==
  ASSUME NEW r \in Seq(Event), Follows(r, Len(r))
  PROVE  r = SubSeq(Stream, 1, Len(r)) /\ Len(r) <= Len(Stream)
<1> DEFINE n == Len(r)
           cut == SubSeq(Stream, 1, n)
<1>1. n \in Nat /\ Stream \in Seq(Event) /\ Len(Stream) \in Nat
  BY LenProperties, DriverAssumption
<1>2. ASSUME NEW i \in 1..n PROVE i <= Len(Stream) /\ Stream[i] = r[i] /\ r[i] \in Event
  BY <1>1, ElementOfSeq DEF Follows
<1>3. /\ cut \in Seq(Event) /\ Len(cut) = n
      /\ \A i \in 1..n : cut[i] = r[i]
  <2>1. n \in Int /\ 1 \in Int /\ \A i \in 1..n : Stream[i] \in Event
    BY <1>1, <1>2
  <2>2. /\ cut \in Seq(Event)
        /\ Len(cut) = IF 1 <= n THEN n - 1 + 1 ELSE 0
        /\ \A i \in 1..(n - 1 + 1) : cut[i] = Stream[1 + i - 1]
    <3> HIDE DEF n
    <3> QED
      BY <2>1, SubSeqProperties
  <2> HIDE DEF cut
  <2> QED
    BY <1>1, <1>2, <2>2
<1>4. n <= Len(Stream)
  <2>1. CASE n = 0
    BY <1>1, <2>1
  <2>2. CASE n # 0
    <3>1. n \in 1..n
      BY <1>1, <2>2
    <3> QED
      BY <1>2, <3>1
  <2> QED
    BY <2>1, <2>2
<1>5. r = cut
  BY <1>3, SeqEqual
<1> QED
  BY <1>4, <1>5

LEMMA ReaderStart == Init => Reader!Init
BY DEF Init, StoreInit, Reader!Init

LEMMA ReaderStep ==
  Placed /\ Kept /\ Accounted /\ Unended /\ Kept' /\ [Next]_vars
    => [Reader!Next]_<<rows, status, shown>>
<1> SUFFICES ASSUME Placed, Kept, Accounted, Unended, Kept', [Next]_vars
             PROVE  Reader!Next \/ UNCHANGED <<rows, status, shown>>
  OBVIOUS
<1>1. rows \in Seq(Event)
  BY DEF Placed, TypeOK
<1>2. ASSUME NEW d \in Drivers, Step(d)
      PROVE  Reader!Next \/ UNCHANGED <<rows, status, shown>>
  <2>1. CASE Run(d)
    <3>1. status = "absent" /\ status' = "running" /\ UNCHANGED <<rows, shown>>
      BY <2>1 DEF Run, CreateRun
    <3> QED
      BY <3>1 DEF Reader!Next, Reader!Open
  <2>2. CASE AppendCommits(d)
    <3>1. status = "running" /\ UNCHANGED <<status, shown>> /\ pc[d] = "append"
      BY <2>2 DEF AppendCommits, AppendAdmitted, CommitRows
    <3>2. /\ Follows(rows', Len(rows')) /\ rows' \in Seq(Event) /\ batch[d] \in Seq(Event)
          /\ rows' = rows \o batch[d] /\ Len(rows') > Len(rows)
      BY <2>2, AppendedFollows DEF Placed, TypeOK
    <3>3. rows' = SubSeq(Stream, 1, Len(rows')) /\ Len(rows') <= Len(Stream)
      BY <3>2, PrefixOfStream
    <3>4. SubSeq(rows', 1, Len(rows)) = rows
      BY <1>1, <3>2, LogGrows
    <3>5. ~ Reader!Ended
      BY <1>1, <3>1, FollowingIsUnended DEF Unended, Driving
    <3>6. Len(rows') \in (Len(rows) + 1)..Len(Stream)
      BY <1>1, <3>2, <3>3, LenProperties, DriverAssumption
    <3> QED
      BY <3>1, <3>3, <3>4, <3>5, <3>6 DEF Reader!Next, Reader!Extend
  <2>3. CASE StopRecorded(d)
    <3> DEFINE f == Failed(clock[d])
    <3>1. status = "running" /\ UNCHANGED <<status, shown>> /\ pc[d] = "stop"
          /\ rows' = rows \o <<f>>
      BY <2>3 DEF StopRecorded, AppendAdmitted, CommitRows
    <3>2. clock[d] \in 0..Duration /\ f \in Event
      BY DriverAssumption DEF Placed, TypeOK
    <3>3. f \in {Failed(t) : t \in 0..Duration}
      BY <3>2
    <3> HIDE DEF f
    <3>4. rows' = Append(rows, f) /\ <<f>> \in Seq(Event)
      BY <1>1, <3>1, <3>2, AppendIsConcat
    <3>5. SubSeq(rows', 1, Len(rows)) = rows
      BY <1>1, <3>1, <3>4, LogGrows
    <3>6. ~ Reader!Ended
      BY <1>1, <3>1, FollowingIsUnended DEF Unended, Driving
    <3> QED
      BY <3>1, <3>3, <3>4, <3>5, <3>6 DEF Reader!Next, Reader!Extend
  <2>4. CASE Publish(d) \/ PublishStops(d) \/ StopExported(d)
    <3>1. UNCHANGED <<rows, status>> /\ shown \subseteq shown'
      BY <2>4 DEF Publish, PublishStops, StopExported, ExtendExport, store
    <3>2. \A s \in shown' : Reader!InLog(s)
      BY <3>1 DEF Kept, PersistBeforePublish, Reader!InLog
    <3> QED
      BY <3>1, <3>2 DEF Reader!Next, Reader!Show
  <2>5. CASE CloseCommits(d)
    <3>1. /\ pc[d] = "closeCommit" /\ status' = verdict[d] /\ UNCHANGED <<rows, shown>>
      BY <2>5 DEF CloseCommits, CommitOutcome, ResultOf
    <3>2. /\ status = "running" /\ verdict[d] \in Outcomes
          /\ verdict[d] = "completed" => rows = Stream
      BY <3>1 DEF Accounted, Closing, Live, Placed, Position
    <3> QED
      BY <3>1, <3>2 DEF Reader!Next, Reader!Close, Outcomes
  <2> QED
    BY <1>2, <2>1, <2>2, <2>3, <2>4, <2>5, RowsStay, StatusStays, ShownStays
<1>3. CASE Repair
  BY <1>3 DEF Repair, RebuildExport
<1>4. CASE UNCHANGED vars
  BY <1>4 DEF vars, store
<1> QED
  BY <1>2, <1>3, <1>4 DEF Next

(* While the drivers of a run do not overlap, what its readers see is the  *)
(* durable run: one log along the deterministic stream, ended by at most   *)
(* one failure event, shown only when stored, and closed for good.  The    *)
(* assumption is needed for the same reason as above.                      *)
THEOREM ReadersSeeTheDurableRun ==
  ASSUME MaxLive = 1, IsFiniteSet(Drivers)
  PROVE  Spec => ReaderSpec
<1>1. Placed /\ Kept /\ Accounted /\ [Next]_vars => Accounted'
  BY AccountedPreserved
<1>2. Placed /\ Kept /\ Accounted /\ Unended /\ [Next]_vars => Unended'
  BY UnendedPreserved
<1>3. Placed /\ Kept /\ Accounted /\ Unended /\ Kept' /\ [Next]_vars
        => [Reader!Next]_<<rows, status, shown>>
  BY ReaderStep
<1> QED
  BY <1>1, <1>2, <1>3, AlwaysPlaced, AlwaysKept, InitAccounted, InitUnended, ReaderStart,
     PTL DEF Spec, ReaderSpec, Reader!Spec
=============================================================================
