--------------------------- MODULE WorkbenchProofs ---------------------------
(***************************************************************************)
(* Jobs, compatibility checks and credential writes on one arbiter, for    *)
(* any number of each, any revisions, keys and scopes: a recorded verdict  *)
(* speaks of the key in use, and a job runs on the key that was vouched    *)
(* for.  The argument is who holds the lease: a check or a write that is   *)
(* under way holds it, so no job is unfinished and no other check or write *)
(* is under way, and what it found when it began is still so when it ends. *)
(***************************************************************************)
EXTENDS Workbench, JobManagerProofs

CheckUnderWay ==
  [step : {"bind", "call", "cleanup", "settle"}, rev : Revisions, scope : Scopes,
   result : [status : Statuses \cup {"none"}, key : Key \cup {NoKey}], defect : BOOLEAN]

WriteUnderWay ==
  [step : {"list", "invalidate", "store", "end"}, rev : Revisions, remember : BOOLEAN,
   stale : SUBSET Revisions]

ProviderTyped ==
  /\ known \subseteq Revisions
  /\ session \in Key \cup {NoKey}
  /\ ring \in [Revisions -> Key \cup {NoKey}]
  /\ records \in [Revisions -> [Scopes -> {NoRecord} \cup Record]]
  /\ shownCheck \in [Revisions -> {NoRecord} \cup Record]
  /\ check \in [Checks -> {Idle, Done} \cup CheckUnderWay]
  /\ write \in [Writes -> {Idle, Done} \cup WriteUnderWay]

(* A check or a write that is under way on a revision it found listed. *)
CheckBound(c) ==
  \/ check[c].step \in {"bind", "call", "cleanup"}
  \/ check[c].step = "settle" /\ check[c].result.status \in Statuses

WriteBound(w) == write[w].step \in {"list", "invalidate", "store"}

(* Whatever is under way holds the lease. *)
UnderWayHolds ==
  /\ \A c \in Checks :
       /\ check[c].step \notin {"idle", "done"} => active = Lease("check", c)
       /\ CheckBound(c) => check[c].rev \in known
  /\ \A w \in Writes :
       /\ write[w].step \notin {"idle", "done"} => active = Lease("credential", w)
       /\ WriteBound(w) => write[w].rev \in known

Blank(r) == \A s \in Scopes : records[r][s] = NoRecord

(* The registry: nothing of an unlisted revision, and the list shows it.   *)
RegistryInOrder ==
  /\ \A r \in Revisions \ known : Blank(r)
  /\ \A r \in Revisions : shownCheck[r] = records[r]["explanation"]
  /\ \A r \in Revisions, s \in Scopes :
       ~ opsClosed /\ records[r][s] # NoRecord => records[r][s].key = Resolve(r)

(* What a check resolved is still what its revision resolves to. *)
ChecksAreCurrent ==
  \A c \in Checks :
    ~ opsClosed /\ CheckBound(c) /\ check[c].step # "bind" =>
      check[c].result.key = Resolve(check[c].rev)

(* What a write is about to change has no verdict left when it does. *)
WritesCover ==
  \A w \in Writes :
    /\ write[w].step \in {"invalidate", "store"} =>
         IF write[w].remember THEN write[w].stale = {write[w].rev}
         ELSE \A r \in Revisions \ write[w].stale : Blank(r)
    /\ write[w].step = "store" => \A r \in write[w].stale : Blank(r)

ProviderInOrder ==
  /\ opsClosed \in BOOLEAN
  /\ ProviderTyped /\ UnderWayHolds /\ RegistryInOrder /\ ChecksAreCurrent /\ WritesCover

-----------------------------------------------------------------------------
LEMMA ProviderStarts == ArbiterInit /\ ProviderInit => ProviderInOrder
<1> SUFFICES ASSUME ArbiterInit, ProviderInit
             PROVE  ProviderInOrder
  OBVIOUS
<1> USE ProviderAssumption DEF ArbiterInit, ProviderInit
<1>1. ProviderTyped
  BY DEF ProviderTyped
<1>2. UnderWayHolds /\ ChecksAreCurrent /\ WritesCover
  BY DEF UnderWayHolds, CheckBound, WriteBound, ChecksAreCurrent, WritesCover, Idle
<1>3. RegistryInOrder
  BY DEF RegistryInOrder, Blank
<1> QED
  BY <1>1, <1>2, <1>3 DEF ProviderInOrder

(* A step of a job: it may only take a free lease or release its own.      *)
LEMMA ProviderRests ==
  ASSUME ProviderInOrder, UNCHANGED providerVars,
         opsClosed' \in BOOLEAN, opsClosed => opsClosed',
         active' = active \/ active.kind \in {"none", "job"}
  PROVE  ProviderInOrder'
<1> USE DEF providerVars, credentials, results, ProviderInOrder
<1>1. ProviderTyped'
  BY DEF ProviderTyped
<1>2. UnderWayHolds'
  BY DEF UnderWayHolds, CheckBound, WriteBound, Lease
<1>3. RegistryInOrder'
  BY DEF RegistryInOrder, Blank, Resolve
<1>4. ChecksAreCurrent'
  BY DEF ChecksAreCurrent, CheckBound, Resolve
<1>5. WritesCover'
  BY DEF WritesCover, Blank
<1> QED
  BY <1>1, <1>2, <1>3, <1>4, <1>5

(* At most one check or write is under way. *)
LEMMA OneUnderWay ==
  ASSUME ProviderInOrder
  PROVE  /\ \A c \in Checks : check[c].step \notin {"idle", "done"} =>
              /\ \A d \in Checks \ {c} : check[d].step \in {"idle", "done"}
              /\ \A w \in Writes : write[w].step \in {"idle", "done"}
         /\ \A w \in Writes : write[w].step \notin {"idle", "done"} =>
              /\ \A c \in Checks : check[c].step \in {"idle", "done"}
              /\ \A v \in Writes \ {w} : write[v].step \in {"idle", "done"}
BY DEF ProviderInOrder, UnderWayHolds, CheckBound, WriteBound, Lease

LEMMA CreateKeeps ==
  ASSUME ProviderInOrder, NEW r \in Revisions, Create(r)
  PROVE  ProviderInOrder'
<1> USE DEF Create, arbiter, credentials, results, ProviderInOrder
<1>1. ProviderTyped'
  BY DEF ProviderTyped
<1>2. UnderWayHolds'
  BY DEF UnderWayHolds, CheckBound, WriteBound
<1>3. RegistryInOrder'
  BY DEF RegistryInOrder, Blank, Resolve
<1>4. ChecksAreCurrent' /\ WritesCover'
  BY DEF ChecksAreCurrent, CheckBound, Resolve, WritesCover, Blank
<1> QED
  BY <1>1, <1>2, <1>3, <1>4

LEMMA CheckBeginsKeeps ==
  ASSUME ProviderInOrder, NEW c \in Checks, NEW r \in Revisions, NEW s \in Scopes,
         CheckBegins(c, r, s)
  PROVE  ProviderInOrder'
<1> USE DEF CheckBegins, CheckAt, BeginCheck, BeginAdmitted, TakeLease, credentials, results,
            ProviderInOrder
<1> DEFINE first == IF r \in known THEN "bind" ELSE "settle"
           begun == [step |-> first, rev |-> r, scope |-> s, result |-> NoRecord,
                     defect |-> FALSE]
<1>1. /\ begun \in CheckUnderWay /\ begun.step \in {"bind", "settle"} /\ begun.rev = r
      /\ begun.step = "bind" => r \in known
      /\ begun.step = "settle" => begun.result.status \notin Statuses
  BY DEF CheckUnderWay, NoRecord, Statuses
<1>2. \A d \in Checks : check'[d] = IF d = c THEN begun ELSE check[d]
  BY DEF ProviderTyped
<1> HIDE DEF begun
<1>3. /\ \A d \in Checks : check[d].step \in {"idle", "done"}
      /\ \A w \in Writes : write[w].step \in {"idle", "done"}
  BY DEF UnderWayHolds, CheckBound, WriteBound, NoLease, Lease
<1>4. ProviderTyped'
  BY <1>1 DEF ProviderTyped, begun
<1>5. UnderWayHolds'
  BY <1>1, <1>2, <1>3 DEF UnderWayHolds, CheckBound, WriteBound
<1>6. RegistryInOrder'
  BY DEF RegistryInOrder, Blank, Resolve
<1>7. ChecksAreCurrent' /\ WritesCover'
  BY <1>1, <1>2, <1>3 DEF ChecksAreCurrent, CheckBound, WritesCover
<1> QED
  BY <1>4, <1>5, <1>6, <1>7

(* A check that goes on keeps its target and holds what it resolved. *)
LEMMA CheckGoesOn ==
  ASSUME ProviderInOrder, NEW c \in Checks, check[c].step \in {"bind", "call", "cleanup"},
         UNCHANGED <<active, opsClosed, known, credentials, results, write>>,
         NEW on \in CheckUnderWay, check' = [check EXCEPT ![c] = on],
         on.rev = check[c].rev,
         on.step # "bind" /\ ~ opsClosed => on.result.key = Resolve(on.rev)
  PROVE  ProviderInOrder'
<1> USE DEF credentials, results, ProviderInOrder
<1>1. \A d \in Checks : check'[d] = IF d = c THEN on ELSE check[d]
  BY DEF ProviderTyped
<1>2. ProviderTyped'
  BY DEF ProviderTyped
<1>3. UnderWayHolds'
  BY <1>1 DEF UnderWayHolds, CheckBound, WriteBound
<1>4. RegistryInOrder'
  BY DEF RegistryInOrder, Blank, Resolve
<1>5. ChecksAreCurrent' /\ WritesCover'
  BY <1>1 DEF ChecksAreCurrent, CheckBound, Resolve, WritesCover, Blank
<1> QED
  BY <1>2, <1>3, <1>4, <1>5

LEMMA UnderWayTyped ==
  ASSUME ProviderInOrder, NEW c \in Checks, check[c].step \notin {"idle", "done"}
  PROVE  check[c] \in CheckUnderWay
BY DEF ProviderInOrder, ProviderTyped, Idle, Done

LEMMA CheckBindsKeeps ==
  ASSUME ProviderInOrder, NEW c \in Checks, CheckBinds(c)
  PROVE  ProviderInOrder'
<1>1. check[c] \in CheckUnderWay /\ check[c].step = "bind"
  BY UnderWayTyped DEF CheckBinds, CheckAt
<1>2. Resolve(check[c].rev) \in Key \cup {NoKey}
  BY <1>1, ProviderAssumption
     DEF Resolve, ProviderInOrder, ProviderTyped, CheckUnderWay
<1>3. PICK step \in {"settle", "call"}, status \in {"unavailable", "none"} :
        check' = [check EXCEPT ![c].step = step,
                    ![c].result = [status |-> status, key |-> Resolve(check[c].rev)]]
  BY DEF CheckBinds
<1> DEFINE on == [check[c] EXCEPT !.step = step,
                    !.result = [status |-> status, key |-> Resolve(check[c].rev)]]
<1>4. check' = [check EXCEPT ![c] = on]
  BY <1>3 DEF ProviderInOrder, ProviderTyped
<1>5. on \in CheckUnderWay /\ on.rev = check[c].rev /\ on.result.key = Resolve(on.rev)
  BY <1>1, <1>2 DEF CheckUnderWay, Statuses
<1>6. UNCHANGED <<active, opsClosed, known, credentials, results, write>>
  BY DEF CheckBinds, arbiter
<1> HIDE DEF on
<1> QED
  BY <1>1, <1>4, <1>5, <1>6, CheckGoesOn

(* An answer, a defect, an abandonment and the clean-up change the step,   *)
(* the status and the defect, not the key.                                 *)
LEMMA CheckRunsKeeps ==
  ASSUME ProviderInOrder, NEW c \in Checks,
         CheckAnswers(c) \/ CheckAbandoned(c) \/ CheckCleansUp(c)
  PROVE  ProviderInOrder'
<1>1. check[c] \in CheckUnderWay /\ check[c].step \in {"call", "cleanup"}
  BY UnderWayTyped DEF CheckAnswers, CheckAbandoned, CheckCleansUp, CheckAt
<1>2. PICK on \in CheckUnderWay :
        /\ check' = [check EXCEPT ![c] = on]
        /\ on.rev = check[c].rev /\ on.result.key = check[c].result.key
  <2> DEFINE on(step, status, defect) ==
        [step |-> step, rev |-> check[c].rev, scope |-> check[c].scope,
         result |-> [status |-> status, key |-> check[c].result.key], defect |-> defect]
      was == check[c].result.status
  <2>1. was \in Statuses \cup {"none"} /\ check[c].defect \in BOOLEAN
    BY <1>1 DEF CheckUnderWay
  <2>2. \A step \in {"cleanup", "settle"}, status \in Statuses \cup {"none"},
           defect \in BOOLEAN :
          /\ on(step, status, defect) \in CheckUnderWay
          /\ on(step, status, defect).rev = check[c].rev
          /\ on(step, status, defect).result.key = check[c].result.key
    BY <1>1 DEF CheckUnderWay
  <2>3. check \in [Checks -> {Idle, Done} \cup CheckUnderWay]
    BY DEF ProviderInOrder, ProviderTyped
  <2>4. check[c] = on(check[c].step, was, check[c].defect)
    BY <1>1 DEF CheckUnderWay
  <2>5. \E step \in {"cleanup", "settle"}, status \in Statuses \cup {"none"},
           defect \in BOOLEAN :
          check' = [check EXCEPT ![c] = on(step, status, defect)]
    <3>1. CASE CheckAnswers(c)
      <4>1. \/ \E s \in {"compatible", "incompatible"} :
                 check' = [check EXCEPT ![c] = on("cleanup", s, check[c].defect)]
            \/ check' = [check EXCEPT ![c] = on("cleanup", was, TRUE)]
            \/ check' = [check EXCEPT ![c] = on("cleanup", was, check[c].defect)]
        BY <2>3, <2>4, <3>1 DEF CheckAnswers
      <4> QED
        BY <2>1, <4>1 DEF Statuses
    <3>2. CASE CheckAbandoned(c)
      <4>1. \/ check' = [check EXCEPT ![c] = on("cleanup", was, check[c].defect)]
            \/ check' = [check EXCEPT ![c] = on("settle", was, check[c].defect)]
        <5>1. CASE check[c].step = "call"
          <6>1. check' = [check EXCEPT ![c] = [check[c] EXCEPT !.step = "cleanup"]]
            BY <3>2, <5>1 DEF CheckAbandoned
          <6>2. [check[c] EXCEPT !.step = "cleanup"] = on("cleanup", was, check[c].defect)
            BY <1>1 DEF CheckUnderWay
          <6> QED
            BY <6>1, <6>2
        <5>2. CASE check[c].step = "cleanup"
          <6>1. check' = [check EXCEPT ![c] = [check[c] EXCEPT !.step = "settle"]]
            BY <3>2, <5>2 DEF CheckAbandoned
          <6>2. [check[c] EXCEPT !.step = "settle"] = on("settle", was, check[c].defect)
            BY <1>1 DEF CheckUnderWay
          <6> QED
            BY <6>1, <6>2
        <5> QED
          BY <1>1, <5>1, <5>2
      <4> QED
        BY <2>1, <4>1
    <3>3. CASE CheckCleansUp(c)
      <4>1. PICK spoilt \in BOOLEAN :
              check' = [check EXCEPT ![c].step = "settle", ![c].defect = @ \/ spoilt]
        BY <3>3 DEF CheckCleansUp
      <4>2. PICK defect \in BOOLEAN : defect = (check[c].defect \/ spoilt)
        BY <2>1
      <4>3. check' = [check EXCEPT ![c] = [check[c] EXCEPT !.step = "settle", !.defect = defect]]
        BY <4>1, <4>2
      <4>4. [check[c] EXCEPT !.step = "settle", !.defect = defect] = on("settle", was, defect)
        <5>1. [check[c] EXCEPT !.step = "settle"] = on("settle", was, check[c].defect)
          BY <1>1 DEF CheckUnderWay
        <5>2. [on("settle", was, check[c].defect) EXCEPT !.defect = defect]
                = on("settle", was, defect)
          OBVIOUS
        <5>3. [check[c] EXCEPT !.step = "settle", !.defect = defect]
                = [[check[c] EXCEPT !.step = "settle"] EXCEPT !.defect = defect]
          OBVIOUS
        <5> HIDE DEF on
        <5> QED
          BY <5>1, <5>2, <5>3, Zenon
      <4>5. check' = [check EXCEPT ![c] = on("settle", was, defect)]
        BY <4>3, <4>4
      <4> QED
        BY <2>1, <4>5
    <3> QED
      BY <3>1, <3>2, <3>3
  <2> HIDE DEF on
  <2> QED
    BY <2>2, <2>5
<1>3. UNCHANGED <<active, opsClosed, known, credentials, results, write>>
  BY DEF CheckAnswers, CheckAbandoned, CheckCleansUp, arbiter
<1>4. ~ opsClosed => on.result.key = Resolve(on.rev)
  BY <1>1, <1>2 DEF ProviderInOrder, ChecksAreCurrent, CheckBound
<1> QED
  BY <1>1, <1>2, <1>3, <1>4, CheckGoesOn

LEMMA CheckSettlesKeeps ==
  ASSUME ProviderInOrder, NEW c \in Checks, CheckSettles(c)
  PROVE  ProviderInOrder'
<1>1. check[c] \in CheckUnderWay /\ check[c].step = "settle"
  BY UnderWayTyped DEF CheckSettles, CheckAt
<1> DEFINE r == check[c].rev
           s == check[c].scope
           result == check[c].result
<1>2. /\ r \in Revisions /\ s \in Scopes /\ result.key \in Key \cup {NoKey}
      /\ Counts(c) => r \in known /\ (~ opsClosed => result.key = Resolve(r))
  <2>1. r \in Revisions /\ s \in Scopes /\ result.key \in Key \cup {NoKey}
    BY <1>1 DEF CheckUnderWay
  <2>2. Counts(c) => CheckBound(c) /\ check[c].step # "bind"
    BY <1>1 DEF Counts, CheckBound
  <2> QED
    BY <2>1, <2>2 DEF ProviderInOrder, UnderWayHolds, ChecksAreCurrent
<1>3. Counts(c) => result \in Record
  BY <1>1 DEF Counts, CheckUnderWay, Record
<1>4. IF Counts(c)
      THEN /\ records' = [records EXCEPT ![r][s] = result]
           /\ shownCheck' = IF s = "explanation" THEN [shownCheck EXCEPT ![r] = result]
                            ELSE shownCheck
      ELSE UNCHANGED results
  BY DEF CheckSettles
<1>5. /\ check' = [check EXCEPT ![c] = Done]
      /\ UNCHANGED <<known, session, ring, write, opsClosed>>
  BY DEF CheckSettles, CheckReleases, Finish, credentials
<1>6. \A d \in Checks \ {c} : check[d].step \in {"idle", "done"}
  BY <1>1, OneUnderWay
<1>7. \A w \in Writes : write[w].step \in {"idle", "done"}
  BY <1>1, OneUnderWay
<1> HIDE DEF r, s, result
<1> USE DEF ProviderInOrder
<1>8. \A q \in Revisions, t \in Scopes :
        records'[q][t] = IF Counts(c) /\ q = r /\ t = s THEN result ELSE records[q][t]
  BY <1>4 DEF ProviderTyped, results
<1>9. \A q \in Revisions :
        shownCheck'[q] = IF Counts(c) /\ q = r /\ s = "explanation" THEN result
                         ELSE shownCheck[q]
  BY <1>4 DEF ProviderTyped, results
<1>10. \A d \in Checks : check'[d].step \in {"idle", "done"}
  BY <1>5, <1>6 DEF ProviderTyped, Done
<1>11. ProviderTyped'
  <2>1. /\ records' \in [Revisions -> [Scopes -> {NoRecord} \cup Record]]
        /\ shownCheck' \in [Revisions -> {NoRecord} \cup Record]
    <3>1. CASE ~ Counts(c)
      BY <1>4, <3>1 DEF ProviderTyped, results
    <3>2. CASE Counts(c)
      <4>1. [records[r] EXCEPT ![s] = result] \in [Scopes -> {NoRecord} \cup Record]
        BY <1>2, <1>3, <3>2 DEF ProviderTyped
      <4>2. records' = [records EXCEPT ![r] = [records[r] EXCEPT ![s] = result]]
        BY <1>4, <3>2
      <4> QED
        BY <1>2, <1>3, <1>4, <3>2, <4>1, <4>2 DEF ProviderTyped
    <3> QED
      BY <3>1, <3>2
  <2> QED
    BY <1>5, <2>1 DEF ProviderTyped
<1>12. UnderWayHolds' /\ ChecksAreCurrent' /\ WritesCover'
  BY <1>5, <1>7, <1>10 DEF UnderWayHolds, CheckBound, WriteBound, ChecksAreCurrent, WritesCover
<1>13. RegistryInOrder'
  <2>1. \A q \in Revisions \ known' : Blank(q)'
    BY <1>2, <1>5, <1>8 DEF RegistryInOrder, Blank
  <2>2. \A q \in Revisions : shownCheck'[q] = records'[q]["explanation"]
    BY <1>8, <1>9, ProviderAssumption DEF RegistryInOrder
  <2>3. \A q \in Revisions : Resolve(q)' = Resolve(q)
    BY <1>5 DEF Resolve
  <2>4. \A q \in Revisions, t \in Scopes :
          ~ opsClosed /\ records'[q][t] # NoRecord => records'[q][t].key = Resolve(q)
    BY <1>2, <1>8 DEF RegistryInOrder
  <2> QED
    BY <1>5, <2>1, <2>2, <2>3, <2>4 DEF RegistryInOrder
<1> QED
  BY <1>5, <1>11, <1>12, <1>13

LEMMA WriteTyped ==
  ASSUME ProviderInOrder, NEW w \in Writes, write[w].step \notin {"idle", "done"}
  PROVE  write[w] \in WriteUnderWay
BY DEF ProviderInOrder, ProviderTyped, Idle, Done

(* A write that takes the lease, goes on or gives the lease back, while    *)
(* the keys and the registry stay as they are.                             *)
LEMMA WriteMoves ==
  ASSUME ProviderInOrder, NEW w \in Writes,
         NEW on \in {Done} \cup WriteUnderWay, write' = [write EXCEPT ![w] = on],
         UNCHANGED <<opsClosed, known, credentials, results, check>>,
         on.step \notin {"idle", "done"} => active' = Lease("credential", w),
         on.step \in {"list", "invalidate"} => on.rev \in known,
         \A c \in Checks : check[c].step \in {"idle", "done"},
         \A v \in Writes \ {w} : write[v].step \in {"idle", "done"},
         on.step = "invalidate" =>
           IF on.remember THEN on.stale = {on.rev}
           ELSE \A r \in Revisions \ on.stale : Blank(r),
         on.step # "store"
  PROVE  ProviderInOrder'
<1> USE DEF credentials, results, ProviderInOrder
<1>1. \A v \in Writes : write'[v] = IF v = w THEN on ELSE write[v]
  BY DEF ProviderTyped
<1>2. ProviderTyped'
  BY DEF ProviderTyped
<1>3. UnderWayHolds'
  BY <1>1 DEF UnderWayHolds, CheckBound, WriteBound
<1>4. RegistryInOrder'
  BY DEF RegistryInOrder, Blank, Resolve
<1>5. ChecksAreCurrent'
  BY DEF ChecksAreCurrent, CheckBound
<1>6. WritesCover'
  BY <1>1 DEF WritesCover, Blank
<1> QED
  BY <1>2, <1>3, <1>4, <1>5, <1>6

LEMMA WriteBeginsKeeps ==
  ASSUME ProviderInOrder, NEW w \in Writes, NEW r \in Revisions, NEW remember \in BOOLEAN,
         WriteBegins(w, r, remember)
  PROVE  ProviderInOrder'
<1> DEFINE first == IF r \in known THEN "list" ELSE "end"
           on == [step |-> first, rev |-> r, remember |-> remember, stale |-> {}]
<1>1. /\ on \in WriteUnderWay /\ on.rev = r
      /\ (on.step = "list" /\ r \in known) \/ on.step = "end"
  BY DEF WriteUnderWay
<1>2. /\ write' = [write EXCEPT ![w] = on]
      /\ active = NoLease /\ active' = Lease("credential", w)
      /\ UNCHANGED <<opsClosed, known, credentials, results, check>>
  BY DEF WriteBegins, BeginPlain, BeginAdmitted, TakeLease
<1>3. /\ \A c \in Checks : check[c].step \in {"idle", "done"}
      /\ \A v \in Writes : write[v].step \in {"idle", "done"}
  BY <1>2 DEF ProviderInOrder, UnderWayHolds, CheckBound, WriteBound, NoLease, Lease
<1> HIDE DEF on
<1> QED
  BY <1>1, <1>2, <1>3, WriteMoves

LEMMA WriteListsKeeps ==
  ASSUME ProviderInOrder, NEW w \in Writes, WriteLists(w)
  PROVE  ProviderInOrder'
<1>1. write[w] \in WriteUnderWay /\ write[w].step = "list"
  BY WriteTyped DEF WriteLists, WriteAt
<1>2. /\ active = Lease("credential", w) /\ write[w].rev \in known /\ known \subseteq Revisions
      /\ \A r \in Revisions \ known : Blank(r)
  BY <1>1 DEF ProviderInOrder, UnderWayHolds, CheckBound, WriteBound, RegistryInOrder, ProviderTyped
<1>3. PICK on \in WriteUnderWay :
        /\ write' = [write EXCEPT ![w] = on]
        /\ on.rev = write[w].rev
        /\ \/ on.step = "end"
           \/ /\ on.step = "invalidate" /\ on.stale = Stale(w)
              /\ on.remember = write[w].remember
  <2> DEFINE listed == [write[w] EXCEPT !.step = "invalidate", !.stale = Stale(w)]
             ended == [write[w] EXCEPT !.step = "end"]
  <2>1. Stale(w) \subseteq Revisions
    BY <1>1, <1>2 DEF Stale
  <2>2. write' = [write EXCEPT ![w] = listed] \/ write' = [write EXCEPT ![w] = ended]
    BY DEF WriteLists
  <2>3. /\ listed \in WriteUnderWay /\ listed.rev = write[w].rev
        /\ listed.step = "invalidate" /\ listed.stale = Stale(w)
        /\ listed.remember = write[w].remember
    BY <1>1, <2>1 DEF WriteUnderWay
  <2>4. ended \in WriteUnderWay /\ ended.rev = write[w].rev /\ ended.step = "end"
    BY <1>1 DEF WriteUnderWay
  <2> HIDE DEF listed, ended
  <2> QED
    BY <2>2, <2>3, <2>4
<1>4. UNCHANGED <<active, opsClosed, known, credentials, results, check>>
  BY DEF WriteLists, arbiter
<1>5. on.step = "invalidate" =>
        IF on.remember THEN on.stale = {on.rev}
        ELSE \A r \in Revisions \ on.stale : Blank(r)
  BY <1>2, <1>3 DEF Stale
<1>6. /\ \A c \in Checks : check[c].step \in {"idle", "done"}
      /\ \A v \in Writes \ {w} : write[v].step \in {"idle", "done"}
  BY <1>1, OneUnderWay
<1> QED
  BY <1>2, <1>3, <1>4, <1>5, <1>6, WriteMoves

LEMMA WriteEndsKeeps ==
  ASSUME ProviderInOrder, NEW w \in Writes, WriteEnds(w)
  PROVE  ProviderInOrder'
<1>1. /\ \A c \in Checks : check[c].step \in {"idle", "done"}
      /\ \A v \in Writes \ {w} : write[v].step \in {"idle", "done"}
  BY OneUnderWay DEF WriteEnds, WriteAt
<1>2. /\ write' = [write EXCEPT ![w] = Done]
      /\ UNCHANGED <<opsClosed, known, credentials, results, check>>
  BY DEF WriteEnds, Finish
<1>3. Done.step = "done"
  BY DEF Done
<1> QED
  BY <1>1, <1>2, <1>3, WriteMoves

(* The verdicts a write found stale are forgotten before the key changes. *)
LEMMA WriteInvalidatesKeeps ==
  ASSUME ProviderInOrder, NEW w \in Writes, WriteInvalidates(w)
  PROVE  ProviderInOrder'
<1>1. write[w] \in WriteUnderWay /\ write[w].step = "invalidate"
  BY WriteTyped DEF WriteInvalidates, WriteAt
<1> DEFINE on == [write[w] EXCEPT !.step = "store"]
<1>2. /\ on \in WriteUnderWay /\ on.step = "store" /\ on.rev = write[w].rev
      /\ on.remember = write[w].remember /\ on.stale = write[w].stale
  BY <1>1 DEF WriteUnderWay
<1>3. /\ write' = [write EXCEPT ![w] = on]
      /\ records' = Forgotten(w)
      /\ shownCheck' = [r \in Revisions |-> IF r \in write[w].stale THEN NoRecord
                                            ELSE shownCheck[r]]
      /\ UNCHANGED <<active, opsClosed, known, session, ring, check>>
  BY DEF WriteInvalidates, arbiter, credentials
<1> HIDE DEF on
<1> USE DEF ProviderInOrder
<1>4. \A v \in Writes : write'[v] = IF v = w THEN on ELSE write[v]
  BY <1>3 DEF ProviderTyped
<1>5. \A r \in Revisions :
        /\ r \in write[w].stale => Blank(r)' /\ shownCheck'[r] = NoRecord
        /\ r \notin write[w].stale =>
             records'[r] = records[r] /\ shownCheck'[r] = shownCheck[r]
  BY <1>3 DEF Forgotten, Blank
<1>6. \A r \in Revisions : Blank(r) => Blank(r)'
  BY <1>5 DEF Blank
<1>7. ProviderTyped'
  BY <1>2, <1>3 DEF ProviderTyped, Forgotten
<1>8. UnderWayHolds'
  BY <1>1, <1>2, <1>3, <1>4 DEF UnderWayHolds, CheckBound, WriteBound
<1>9. RegistryInOrder'
  BY <1>3, <1>5, <1>6, ProviderAssumption DEF RegistryInOrder, Blank, Resolve
<1>10. ChecksAreCurrent'
  BY <1>3 DEF ChecksAreCurrent, CheckBound, Resolve
<1>11. WritesCover'
  <2>1. \A v \in Writes \ {w} : write[v].step \in {"idle", "done"}
    BY <1>1, OneUnderWay
  <2>2. \A r \in on.stale : Blank(r)'
    BY <1>2, <1>5 DEF WriteUnderWay
  <2> QED
    BY <1>1, <1>2, <1>4, <1>6, <2>1, <2>2 DEF WritesCover
<1> QED
  BY <1>3, <1>7, <1>8, <1>9, <1>10, <1>11

(* The key changes, or may have, only where no verdict is left. *)
LEMMA WriteStoresKeeps ==
  ASSUME ProviderInOrder, NEW w \in Writes, WriteStores(w)
  PROVE  ProviderInOrder'
<1>1. write[w] \in WriteUnderWay /\ write[w].step = "store"
  BY WriteTyped DEF WriteStores, WriteAt
<1> DEFINE on == [write[w] EXCEPT !.step = "end"]
<1>2. on \in WriteUnderWay /\ on.step = "end" /\ on.rev = write[w].rev
  BY <1>1 DEF WriteUnderWay
<1>3. /\ write' = [write EXCEPT ![w] = on]
      /\ UNCHANGED <<active, opsClosed, known, records, shownCheck, check>>
  BY DEF WriteStores, arbiter, results
<1> HIDE DEF on
<1> USE DEF ProviderInOrder
<1>4. \A v \in Writes : write'[v] = IF v = w THEN on ELSE write[v]
  BY <1>3 DEF ProviderTyped
<1>5. /\ session' \in Key \cup {NoKey}
      /\ ring' \in [Revisions -> Key \cup {NoKey}]
  BY <1>1 DEF WriteStores, credentials, ProviderTyped, WriteUnderWay
<1>6. \A r \in Revisions : Blank(r) \/ Resolve(r)' = Resolve(r)
  <2>1. CASE write[w].remember
    <3>1. Blank(write[w].rev)
      BY <1>1, <2>1 DEF WritesCover
    <3>2. \A r \in Revisions \ {write[w].rev} : ring'[r] = ring[r] /\ session' = session
      BY <2>1 DEF WriteStores, credentials, ProviderTyped
    <3> QED
      BY <3>1, <3>2 DEF Resolve
  <2>2. CASE ~ write[w].remember
    BY <1>1, <2>2 DEF WritesCover
  <2> QED
    BY <2>1, <2>2
<1>7. ProviderTyped'
  BY <1>2, <1>3, <1>5 DEF ProviderTyped
<1>8. UnderWayHolds'
  BY <1>1, <1>2, <1>3, <1>4 DEF UnderWayHolds, CheckBound, WriteBound
<1>9. RegistryInOrder'
  BY <1>3, <1>6 DEF RegistryInOrder, Blank
<1>10. ChecksAreCurrent' /\ WritesCover'
  BY <1>1, <1>2, <1>3, <1>4, OneUnderWay DEF ChecksAreCurrent, CheckBound, WritesCover
<1> QED
  BY <1>3, <1>7, <1>8, <1>9, <1>10

(* The keys in memory are forgotten when nothing is admitted any more. *)
LEMMA ForgetKeeps ==
  ASSUME ProviderInOrder, ForgetSession
  PROVE  ProviderInOrder'
<1> USE DEF ForgetSession, arbiter, results, ProviderInOrder
<1>1. ProviderTyped'
  BY DEF ProviderTyped
<1>2. UnderWayHolds' /\ RegistryInOrder'
  BY DEF UnderWayHolds, CheckBound, WriteBound, RegistryInOrder, Blank
<1>3. ChecksAreCurrent' /\ WritesCover'
  BY DEF ChecksAreCurrent, CheckBound, WritesCover, Blank
<1> QED
  BY <1>1, <1>2, <1>3

LEMMA CheckRefusedKeeps ==
  ASSUME ProviderInOrder, CheckRefused
  PROVE  ProviderInOrder'
<1>1. UNCHANGED providerVars /\ UNCHANGED <<active, opsClosed>>
  BY DEF CheckRefused, CheckRateLimited
<1>2. opsClosed \in BOOLEAN
  BY DEF ProviderInOrder
<1> QED
  BY <1>1, <1>2, ProviderRests

LEMMA ProviderStepsKeep == ProviderInOrder /\ ProviderSteps => ProviderInOrder'
BY CreateKeeps, CheckBeginsKeeps, CheckRefusedKeeps, CheckBindsKeeps, CheckRunsKeeps,
   CheckSettlesKeeps,
   WriteBeginsKeeps, WriteListsKeeps, WriteInvalidatesKeeps, WriteStoresKeeps, WriteEndsKeeps
   DEF ProviderSteps, CheckStep, WriteStep

-----------------------------------------------------------------------------
(* The composition.  Once admitted, a provider job keeps the arbiter, so   *)
(* neither its key nor its verdict can change before it ends.              *)
WorkbenchInOrder == JobsInOrder /\ ProviderInOrder /\ JobRunsOnCheckedKey
                    /\ jobKey \in [Keyed -> Key \cup {NoKey}]

(* No step but an admitted submission makes a job unfinished. *)
LEMMA JobStepHolds ==
  ASSUME JobsInOrder, JobsInOrder', JobSteps
  PROVE  Active' \subseteq Active
<1>1. activeJob' \in {activeJob, NoJob}
  BY DEF JobSteps, SubmitFails, SubmitRefused, RolledBack, Cancel, Signal, Worker, Take,
         TakeGhost, CancelWins, Advance, Complete, CallReturns, CallRaises, Ends, Conclude,
         Progress, CloseBegins, Closer, CloseFlags, CloseSignals, CloseReturns, book
<1> QED
  BY <1>1 DEF JobsInOrder, LeaseInOrder

(* What a step of the jobs does to the arbiter. *)
LEMMA JobStepLease ==
  ASSUME JobsInOrder, JobSteps \/ \E j \in Jobs : Submit(j)
  PROVE  /\ opsClosed' \in BOOLEAN /\ (opsClosed => opsClosed')
         /\ active' = active \/ active.kind \in {"none", "job"}
<1>1. opsClosed' = opsClosed \/ opsClosed' = TRUE
  BY DEF JobSteps, Submit, BeginPlain, TakeLease, SubmitFails, SubmitRefused, RolledBack, Cancel,
         Signal, Worker, Take, TakeGhost, CancelWins, Advance, Complete, CallReturns, CallRaises,
         Ends, Progress, CloseBegins, CloseOperations, Closer, CloseFlags, CloseSignals,
         CloseReturns, arbiter
<1>2. active' = active \/ active.kind \in {"none", "job"}
  <2>1. ASSUME NEW j, NEW outcome, Conclude(j, outcome)
        PROVE  active' = active \/ active.kind = "job"
    BY <2>1 DEF Conclude, JobsInOrder, LeaseInOrder
  <2>2. CASE \E j \in Jobs : Submit(j)
    BY <2>2 DEF Submit, SubmitAdmitted, BeginAdmitted, NoLease
  <2>3. CASE CancelWins \/ Complete \/ CallRaises
    BY <2>1, <2>3 DEF CancelWins, Complete, CallRaises, Ends
  <2>4. CASE JobSteps /\ ~ (CancelWins \/ Complete \/ CallRaises)
    BY <2>4 DEF JobSteps, SubmitFails, SubmitRefused, RolledBack, Cancel, Signal, Worker, Take,
                TakeGhost, Advance, CallReturns, Progress, CloseBegins, CloseOperations, Closer,
                CloseFlags, CloseSignals, CloseReturns, arbiter
  <2> QED
    BY <2>2, <2>3, <2>4
<1> QED
  BY <1>1, <1>2 DEF JobsInOrder, DeskTyped

LEMMA JobStepsKeep ==
  ASSUME WorkbenchInOrder, JobSteps
  PROVE  WorkbenchInOrder'
<1> USE DEF WorkbenchInOrder
<1>1. JobsInOrder'
  BY JobsStep DEF JobSteps, JobNext
<1>2. ProviderInOrder'
  BY JobStepLease, ProviderRests DEF JobSteps
<1>3. UNCHANGED <<providerVars, jobKey>> /\ Active' \subseteq Active
  BY <1>1, JobStepHolds DEF JobSteps
<1>4. JobRunsOnCheckedKey'
  BY <1>3 DEF JobRunsOnCheckedKey, Resolve, providerVars, credentials, results
<1> QED
  BY <1>1, <1>2, <1>3, <1>4

(* The preflight of a submission finds the key and, for a bounded job, the *)
(* verdict on it.                                                          *)
LEMMA PreflightKeeps ==
  ASSUME WorkbenchInOrder, NEW j \in Jobs, SubmitPreflighted(j)
  PROVE  WorkbenchInOrder'
<1> USE WorkbenchAssumption DEF WorkbenchInOrder
<1>1. JobsInOrder' /\ ProviderInOrder'
  <2>1. JobsInOrder'
    BY SubmitKeeps DEF SubmitPreflighted
  <2> QED
    BY <2>1, JobStepLease, ProviderRests DEF SubmitPreflighted
<1>2. activeJob' = j /\ ~ opsClosed
  BY DEF SubmitPreflighted, Submit, SubmitAdmitted, BeginAdmitted, Register
<1>3. Active' \subseteq {j}
  BY <1>1, <1>2 DEF JobsInOrder, LeaseInOrder
<1>4. UNCHANGED <<known, session, ring, records, opsClosed>>
  BY DEF SubmitPreflighted, Submit, BeginPlain, TakeLease, providerVars, credentials, results
<1>5. j \in Keyed => RevisionOf[j] \in Revisions /\ Resolve(RevisionOf[j]) \in Key \cup {NoKey}
  BY ProviderAssumption DEF Resolve, ProviderInOrder, ProviderTyped
<1>6. jobKey' \in [Keyed -> Key \cup {NoKey}]
      /\ (j \in Keyed => jobKey'[j] = Resolve(RevisionOf[j]))
  BY <1>5 DEF SubmitPreflighted
<1>7. ASSUME j \in Keyed, Route[j] = "bounded"
      PROVE  records[RevisionOf[j]]["bounded"]
               = [status |-> "compatible", key |-> Resolve(RevisionOf[j])]
  <2>1. /\ records[RevisionOf[j]]["bounded"].status = "compatible"
        /\ records[RevisionOf[j]]["bounded"] \in {NoRecord} \cup Record
    BY <1>5, <1>7 DEF SubmitPreflighted, PreflightPasses, ProviderInOrder, ProviderTyped
  <2>2. records[RevisionOf[j]]["bounded"] # NoRecord
    BY <2>1 DEF NoRecord
  <2>3. records[RevisionOf[j]]["bounded"].key = Resolve(RevisionOf[j])
    BY <1>2, <1>5, <1>7, <2>2 DEF ProviderInOrder, RegistryInOrder
  <2> QED
    BY <2>1, <2>2, <2>3 DEF Record
<1>8. JobRunsOnCheckedKey'
  BY <1>3, <1>4, <1>6, <1>7 DEF JobRunsOnCheckedKey, Resolve
<1> QED
  BY <1>1, <1>6, <1>8

(* A check or a write takes the lease when it is free and gives back its own. *)
LEMMA OperatorLease ==
  ASSUME ProviderInOrder, ProviderSteps
  PROVE  /\ issued \subseteq issued' /\ opsClosed' = opsClosed
         /\ active' = active \/ (active.kind # "job" /\ active'.kind # "job")
<1>1. ASSUME (\E r \in Revisions : Create(r)) \/ CheckRefused
      PROVE  UNCHANGED <<active, issued, opsClosed>>
  BY <1>1 DEF Create, CheckRefused, CheckRateLimited, arbiter
<1>2. ASSUME NEW c \in Checks, CheckBinds(c) \/ CheckAnswers(c) \/ CheckCleansUp(c)
                               \/ CheckAbandoned(c)
      PROVE  UNCHANGED <<active, issued, opsClosed>>
  BY <1>2 DEF CheckBinds, CheckAnswers, CheckCleansUp, CheckAbandoned, arbiter
<1>3. ASSUME NEW w \in Writes, WriteLists(w) \/ WriteInvalidates(w) \/ WriteStores(w)
      PROVE  UNCHANGED <<active, issued, opsClosed>>
  BY <1>3 DEF WriteLists, WriteInvalidates, WriteStores, arbiter
<1>4. ASSUME NEW c \in Checks, NEW r \in Revisions, NEW s \in Scopes, CheckBegins(c, r, s)
      PROVE  /\ issued \subseteq issued' /\ opsClosed' = opsClosed
             /\ active.kind # "job" /\ active'.kind # "job"
  BY <1>4 DEF CheckBegins, BeginCheck, BeginAdmitted, TakeLease, Lease, NoLease
<1>5. ASSUME NEW w \in Writes, NEW r \in Revisions, NEW b \in BOOLEAN, WriteBegins(w, r, b)
      PROVE  /\ issued \subseteq issued' /\ opsClosed' = opsClosed
             /\ active.kind # "job" /\ active'.kind # "job"
  BY <1>5 DEF WriteBegins, BeginPlain, BeginAdmitted, TakeLease, Lease, NoLease
<1>6. ASSUME NEW c \in Checks, CheckSettles(c)
      PROVE  /\ issued' = issued /\ opsClosed' = opsClosed
             /\ active.kind # "job" /\ active'.kind # "job"
  BY <1>6 DEF CheckSettles, CheckAt, CheckReleases, Finish, Released, ProviderInOrder,
              UnderWayHolds, CheckBound, WriteBound, Lease, NoLease
<1>7. ASSUME NEW w \in Writes, WriteEnds(w)
      PROVE  /\ issued' = issued /\ opsClosed' = opsClosed
             /\ active.kind # "job" /\ active'.kind # "job"
  BY <1>7 DEF WriteEnds, WriteAt, Finish, Released, ProviderInOrder, UnderWayHolds,
     CheckBound, WriteBound, Lease, NoLease
<1> QED
  BY <1>1, <1>2, <1>3, <1>4, <1>5, <1>6, <1>7 DEF ProviderSteps, CheckStep, WriteStep

(* While a job is unfinished nothing touches the keys or the registry. *)
LEMMA OperatorSpares ==
  ASSUME ProviderInOrder, ProviderSteps, active.kind = "job"
  PROVE  UNCHANGED <<credentials, results>>
<1>1. /\ \A c \in Checks : check[c].step \in {"idle", "done"}
      /\ \A w \in Writes : write[w].step \in {"idle", "done"}
  BY DEF ProviderInOrder, UnderWayHolds, CheckBound, WriteBound, Lease
<1> QED
  BY <1>1 DEF ProviderSteps, Create, CheckBegins, CheckRefused, providerVars, CheckStep,
     CheckBinds, CheckAnswers,
              CheckCleansUp, CheckSettles, CheckAbandoned, CheckAt, WriteBegins, WriteStep,
              WriteLists, WriteInvalidates, WriteStores, WriteEnds, WriteAt

LEMMA OperatorStepsKeep ==
  ASSUME WorkbenchInOrder, OperatorSteps
  PROVE  WorkbenchInOrder'
<1> USE DEF WorkbenchInOrder
<1>1. ProviderInOrder'
  BY ProviderStepsKeep DEF OperatorSteps
<1>2. JobsInOrder'
  <2>1. opsClosed \in BOOLEAN
    BY DEF ProviderInOrder
  <2> QED
    BY <2>1, OperatorLease, ForeignStep DEF OperatorSteps
<1>3. Active' = Active /\ jobKey' = jobKey
  BY DEF OperatorSteps, book, Active
<1>4. JobRunsOnCheckedKey'
  <2>1. CASE active.kind = "job"
    <3>1. UNCHANGED <<session, ring, records>>
      BY <2>1, OperatorSpares DEF OperatorSteps, credentials, results
    <3> QED
      BY <1>3, <3>1 DEF JobRunsOnCheckedKey, Resolve
  <2>2. CASE active.kind # "job"
    <3>1. Active = {}
      BY <2>2 DEF JobsInOrder, LeaseInOrder
    <3> QED
      BY <1>3, <3>1 DEF JobRunsOnCheckedKey
  <2> QED
    BY <2>1, <2>2
<1> QED
  BY <1>1, <1>2, <1>3, <1>4

LEMMA ForgetStepKeeps ==
  ASSUME WorkbenchInOrder, Forget
  PROVE  WorkbenchInOrder'
<1> USE DEF WorkbenchInOrder
<1>1. ProviderInOrder'
  BY ForgetKeeps DEF Forget
<1>2. JobsInOrder'
  <2>1. opsClosed \in BOOLEAN /\ UNCHANGED <<active, issued, opsClosed>>
    BY DEF ProviderInOrder, Forget, ForgetSession, arbiter
  <2> QED
    BY <2>1, ForeignStep DEF Forget
<1>3. Active = {} /\ Active' = Active /\ jobKey' = jobKey
  BY DEF Forget, book, Active, JobsInOrder, CloseInOrder, LeaseInOrder
<1> QED
  BY <1>1, <1>2, <1>3 DEF JobRunsOnCheckedKey

LEMMA QuietStepKeeps ==
  ASSUME WorkbenchInOrder, UNCHANGED <<active, issued, opsClosed>>,
         UNCHANGED <<book, executor, control, published, jobKey, providerVars>>
  PROVE  WorkbenchInOrder'
<1> USE DEF WorkbenchInOrder
<1>1. opsClosed \in BOOLEAN
  BY DEF ProviderInOrder
<1>2. ProviderInOrder' /\ JobsInOrder'
  BY <1>1, ProviderRests, ForeignStep
<1>3. JobRunsOnCheckedKey'
  BY DEF JobRunsOnCheckedKey, Resolve, Active, book, providerVars, credentials, results
<1> QED
  BY <1>2, <1>3

LEMMA WorkbenchStep == WorkbenchInOrder /\ [WorkbenchNext]_workbenchVars => WorkbenchInOrder'
<1> SUFFICES ASSUME WorkbenchInOrder, [WorkbenchNext]_workbenchVars
             PROVE  WorkbenchInOrder'
  OBVIOUS
<1>1. CASE Passes
  BY <1>1, QuietStepKeeps DEF Passes, Tick
<1>2. CASE UNCHANGED workbenchVars
  BY <1>2, QuietStepKeeps DEF workbenchVars, jobVars, arbiter
<1> QED
  BY <1>1, <1>2, JobStepsKeep, PreflightKeeps, OperatorStepsKeep, ForgetStepKeeps
     DEF WorkbenchNext

LEMMA WorkbenchStarts == WorkbenchInit => WorkbenchInOrder
<1> SUFFICES ASSUME WorkbenchInit PROVE WorkbenchInOrder
  OBVIOUS
<1>1. JobsInOrder /\ ProviderInOrder
  BY JobInitInOrder, ProviderStarts DEF WorkbenchInit, JobInit
<1>2. Active = {} /\ jobKey \in [Keyed -> Key \cup {NoKey}]
  BY DEF WorkbenchInit, JobInit, Active, JobPhases, Cancellable, Requesting, Terminal
<1> QED
  BY <1>1, <1>2 DEF WorkbenchInOrder, JobRunsOnCheckedKey

LEMMA WorkbenchAlwaysInOrder == WorkbenchSpec => []WorkbenchInOrder
BY WorkbenchStarts, WorkbenchStep, PTL DEF WorkbenchSpec

(* Whoever checks, writes, creates revisions or cancels, a verdict the     *)
(* server may act on is a verdict on the key now in use.                   *)
THEOREM RecordsAlwaysCurrent == WorkbenchSpec => []RecordsAreCurrent
<1>1. WorkbenchInOrder => RecordsAreCurrent
  BY DEF WorkbenchInOrder, ProviderInOrder, RegistryInOrder, RecordsAreCurrent
<1> QED
  BY <1>1, WorkbenchAlwaysInOrder, PTL

(* From admission to outcome a job runs on the key that was vouched for.   *)
THEOREM JobsAlwaysOnCheckedKey == WorkbenchSpec => []JobRunsOnCheckedKey
<1>1. WorkbenchInOrder => JobRunsOnCheckedKey
  BY DEF WorkbenchInOrder
<1> QED
  BY <1>1, WorkbenchAlwaysInOrder, PTL

(* The arbiter stays with the unfinished job when checks and writes share  *)
(* it and the server closes around them.                                   *)
THEOREM WorkbenchLeaseFollowsJob == WorkbenchSpec => []LeaseFollowsJob
<1>1. WorkbenchInOrder => LeaseFollowsJob
  BY DEF WorkbenchInOrder, JobsInOrder, LeaseInOrder, LeaseFollowsJob, BooksTyped, Lease
<1> QED
  BY <1>1, WorkbenchAlwaysInOrder, PTL

(* No step but the settling of a check that holds the lease and was not    *)
(* cancelled writes a verdict.                                             *)
Vouched ==
  \A r \in Revisions, s \in Scopes :
    records'[r][s] \notin {records[r][s], NoRecord} =>
      active.kind = "check" /\ active.owner \notin tripped

LEMMA VouchedStep == WorkbenchInOrder /\ [WorkbenchNext]_workbenchVars => Vouched
<1> SUFFICES ASSUME WorkbenchInOrder, [WorkbenchNext]_workbenchVars PROVE Vouched
  OBVIOUS
<1> USE DEF Vouched
<1>1. CASE UNCHANGED records
  BY <1>1
<1>2. ASSUME NEW c \in Checks, CheckSettles(c) PROVE Vouched
  <2>1. active = Lease("check", c)
    BY <1>2 DEF CheckSettles, CheckAt, WorkbenchInOrder, ProviderInOrder, UnderWayHolds,
       CheckBound, WriteBound
  <2>2. CASE Counts(c)
    BY <2>1, <2>2 DEF Counts, Lease
  <2>3. CASE ~ Counts(c)
    BY <1>2, <2>3 DEF CheckSettles, results
  <2> QED
    BY <2>2, <2>3
<1>3. ASSUME NEW w \in Writes, WriteInvalidates(w) PROVE Vouched
  BY <1>3 DEF WriteInvalidates, Forgotten
<1>4. ASSUME ProviderSteps, ~ \E c \in Checks : CheckSettles(c),
             ~ \E w \in Writes : WriteInvalidates(w)
      PROVE  UNCHANGED records
  BY <1>4 DEF ProviderSteps, Create, CheckBegins, CheckRefused, providerVars, CheckStep,
     CheckBinds, CheckAnswers,
              CheckCleansUp, CheckAbandoned, WriteBegins, WriteStep, WriteLists, WriteStores,
              WriteEnds, results
<1>5. CASE ~ OperatorSteps
  <2>1. UNCHANGED records
    BY <1>5 DEF WorkbenchNext, SubmitPreflighted, JobSteps, Forget, ForgetSession, Passes,
                workbenchVars, providerVars, results
  <2> QED
    BY <2>1
<1>6. CASE OperatorSteps
  BY <1>1, <1>2, <1>3, <1>4, <1>6 DEF OperatorSteps
<1> QED
  BY <1>5, <1>6

(* A cancelled check records nothing, at whatever point it was cancelled.  *)
THEOREM CancelledChecksNeverCount == WorkbenchSpec => CancelledChecksRecordNothing
<1>1. [WorkbenchNext]_workbenchVars /\ WorkbenchInOrder => [Vouched]_<<arbiter, providerVars>>
  BY VouchedStep
<1> QED
  BY <1>1, WorkbenchAlwaysInOrder, PTL DEF WorkbenchSpec, CancelledChecksRecordNothing, Vouched
-----------------------------------------------------------------------------
(* The rate of checks is the arbiter's own, and holds in the composition:  *)
(* no step of a job or a write touches the deque, and the tokens that are  *)
(* tripped are those of jobs and checks.                                   *)
TokensTyped == signals \subseteq Jobs /\ closeToken \in Jobs \cup {NoJob}

SharedInOrder == WorkbenchInOrder /\ TokensTyped /\ Windowed

LEMMA JobStepSpares ==
  ASSUME JobsInOrder, ArbiterTypeOK, TokensTyped, JobSteps \/ \E j \in Jobs : Submit(j)
  PROVE  UNCHANGED rate /\ ArbiterTypeOK' /\ TokensTyped'
<1>1. ASSUME NEW j, NEW outcome, Conclude(j, outcome)
      PROVE  active' \in {active, NoLease}
  BY <1>1 DEF Conclude, Released
<1>2. CASE \E j \in Jobs : Submit(j)
  BY <1>2, JobAssumption DEF Submit, BeginPlain, TakeLease, Lease, Kinds, rate, control,
     ArbiterTypeOK, TokensTyped
<1>3. CASE CancelWins \/ Complete \/ CallRaises
  BY <1>1, <1>3 DEF CancelWins, Complete, CallRaises, Ends, rate, control, ArbiterTypeOK,
     TokensTyped
<1>4. ASSUME NEW j \in Jobs, SubmitFails(j) \/ SubmitRefused(j)
      PROVE  UNCHANGED rate /\ ArbiterTypeOK' /\ TokensTyped'
  BY <1>4, JobAssumption DEF SubmitFails, SubmitRefused, RolledBack, rate, control,
     ArbiterTypeOK, TokensTyped
<1>5. ASSUME NEW j \in Jobs, Cancel(j) \/ Signal(j)
      PROVE  UNCHANGED rate /\ ArbiterTypeOK' /\ TokensTyped'
  BY <1>5, JobAssumption DEF Cancel, Signal, arbiter, rate, ArbiterTypeOK, TokensTyped,
     JobsInOrder, BooksTyped
<1>6. CASE Take \/ TakeGhost \/ Advance \/ CallReturns \/ Progress
  BY <1>6 DEF Take, TakeGhost, Advance, CallReturns, Progress, arbiter, control, rate,
     ArbiterTypeOK, TokensTyped
<1>7. CASE CloseBegins
  <2>1. CheckHeld \subseteq Owner
    BY DEF ArbiterTypeOK, CheckHeld, NoLease
  <2> QED
    BY <1>7, <2>1 DEF CloseBegins, CloseOperations, rate, ArbiterTypeOK, TokensTyped
<1>8. CASE Closer
  BY <1>8, JobAssumption DEF Closer, CloseFlags, CloseSignals, CloseReturns, arbiter, rate,
     ArbiterTypeOK, TokensTyped, JobsInOrder, BooksTyped
<1> QED
  BY <1>2, <1>3, <1>4, <1>5, <1>6, <1>7, <1>8 DEF JobSteps, Worker

LEMMA OperatorStepSpares ==
  ASSUME Windowed, ProviderSteps
  PROVE  Windowed'
<1>1. ArbiterTypeOK
  BY DEF Windowed
<1>2. ASSUME NEW c \in Checks, NEW r \in Revisions, NEW s \in Scopes, CheckBegins(c, r, s)
      PROVE  Windowed'
  BY <1>2, AdmissionKeepsRate, ProviderAssumption DEF CheckBegins
<1>3. CASE CheckRefused
  BY <1>3, RefusalKeepsRate DEF CheckRefused
<1>4. ASSUME ArbiterTypeOK', UNCHANGED rate
      PROVE  Windowed'
  BY <1>1, <1>4, OthersKeepRate DEF ArbiterTypeOK, rate
<1>5. CASE UNCHANGED arbiter
  BY <1>1, <1>4, <1>5 DEF ArbiterTypeOK, arbiter, rate
<1>6. ASSUME NEW c \in Checks, CheckAbandoned(c) PROVE Windowed'
  BY <1>1, <1>4, <1>6, ProviderAssumption DEF CheckAbandoned, ArbiterTypeOK, rate
<1>7. ASSUME NEW w \in Writes, NEW r \in Revisions, NEW b \in BOOLEAN, WriteBegins(w, r, b)
      PROVE  Windowed'
  <2>1. ArbiterTypeOK' /\ UNCHANGED rate
    BY <1>1, <1>7, ProviderAssumption
       DEF WriteBegins, BeginPlain, TakeLease, Lease, Kinds, ArbiterTypeOK, rate
  <2> QED
    BY <1>4, <2>1
<1>8. ASSUME NEW o, Finish(o) PROVE Windowed'
  <2>1. ArbiterTypeOK' /\ UNCHANGED rate
    BY <1>1, <1>8 DEF Finish, Released, ArbiterTypeOK, rate
  <2> QED
    BY <1>4, <2>1
<1>9. ASSUME NEW c \in Checks, CheckStep(c) PROVE Windowed'
  BY <1>5, <1>8, <1>9 DEF CheckStep, CheckBinds, CheckAnswers, CheckCleansUp, CheckSettles,
     CheckReleases
<1>10. ASSUME NEW w \in Writes, WriteStep(w) PROVE Windowed'
  BY <1>5, <1>8, <1>10 DEF WriteStep, WriteLists, WriteInvalidates, WriteStores, WriteEnds
<1>11. ASSUME NEW r \in Revisions, Create(r) PROVE Windowed'
  BY <1>5, <1>11 DEF Create
<1> QED
  BY <1>2, <1>3, <1>6, <1>7, <1>9, <1>10, <1>11 DEF ProviderSteps

LEMMA SharedStep == SharedInOrder /\ [WorkbenchNext]_workbenchVars => SharedInOrder'
<1> SUFFICES ASSUME SharedInOrder, [WorkbenchNext]_workbenchVars
             PROVE  SharedInOrder'
  OBVIOUS
<1>1. /\ WorkbenchInOrder /\ JobsInOrder /\ TokensTyped /\ Windowed
      /\ WorkbenchInOrder' /\ ArbiterTypeOK
  BY WorkbenchStep DEF SharedInOrder, WorkbenchInOrder, Windowed
<1>2. ASSUME ArbiterTypeOK', UNCHANGED <<starts, began>>, now' \in Nat, now <= now'
      PROVE  Windowed'
  BY <1>1, <1>2, OthersKeepRate
<1>3. CASE (\E j \in Jobs : SubmitPreflighted(j)) \/ JobSteps
  <2>1. UNCHANGED rate /\ ArbiterTypeOK' /\ TokensTyped'
    BY <1>1, <1>3, JobStepSpares DEF SubmitPreflighted
  <2> QED
    BY <1>1, <1>2, <2>1 DEF rate, ArbiterTypeOK, SharedInOrder
<1>4. CASE OperatorSteps
  BY <1>1, <1>4, OperatorStepSpares DEF OperatorSteps, control, TokensTyped, SharedInOrder
<1>5. CASE Forget \/ UNCHANGED workbenchVars
  <2>1. UNCHANGED arbiter /\ UNCHANGED control
    BY <1>5 DEF Forget, ForgetSession, workbenchVars, jobVars
  <2> QED
    BY <1>1, <1>2, <2>1 DEF arbiter, ArbiterTypeOK, control, TokensTyped, SharedInOrder
<1>6. CASE Passes
  <2>1. ArbiterTypeOK' /\ UNCHANGED <<starts, began>> /\ now' \in Nat /\ now <= now'
    BY <1>1, <1>6 DEF Passes, Tick, ArbiterTypeOK
  <2> QED
    BY <1>1, <1>2, <1>6, <2>1 DEF Passes, control, TokensTyped, SharedInOrder
<1> QED
  BY <1>3, <1>4, <1>5, <1>6 DEF WorkbenchNext

LEMMA SharedAlwaysInOrder == WorkbenchSpec => []SharedInOrder
<1>1. WorkbenchInit => SharedInOrder
  BY WorkbenchStarts, InitWindowed DEF WorkbenchInit, JobInit, SharedInOrder, TokensTyped
<1> QED
  BY <1>1, SharedStep, PTL DEF WorkbenchSpec

(* On the server too no window of the clock sees more than MaxStarts       *)
(* checks, whatever jobs, writes, refusals and the close do in between.    *)
THEOREM WorkbenchRateHolds == WorkbenchSpec => []RateHolds
<1>1. SharedInOrder => RateHolds
  BY DEF SharedInOrder, Windowed
<1> QED
  BY <1>1, SharedAlwaysInOrder, PTL

(* and no check is refused for a rate that was not used up.                *)
THEOREM WorkbenchRefusedForCause == WorkbenchSpec => []RefusedForCause
<1>1. SharedInOrder => RefusedForCause
  BY WindowedRefuses DEF SharedInOrder
<1> QED
  BY <1>1, SharedAlwaysInOrder, PTL
=============================================================================
