----------------------- MODULE RecordPublicationProofs -----------------------
(***************************************************************************)
(* What readers of a workspace and callers of its registries may rely on,  *)
(* for every number of concurrent publications, names and foreign files.   *)
(* A publisher knows less than the file system: the argument is that the   *)
(* record is its own only after its stage was whole, and that from then on *)
(* it never believes it has failed.  It may be misled once: by a link that *)
(* was made and is reported as existing already.  A publisher that was not *)
(* misled keeps its record whole; one that knows where it stands was not,  *)
(* or is the city registry's, which compares identities.                   *)
(***************************************************************************)
EXTENDS RecordPublication, TLAPS

Ats == {"idle", "locked", "grouping", "staging", "filling", "staged", "doubt", "linked",
        "verified", "released", "undoing", "published", "maybe", "failed", "conflict",
        "unavailable", "killed"}

Call == [at : Ats, maybe : BOOLEAN, completed : BOOLEAN, made : BOOLEAN,
         misled : BOOLEAN, cause : {"none", "error", "interrupt", "taken"},
         before : [Keys -> Publishers \cup {Foreign, None}]]

RecordsTyped ==
  /\ store \in Stores
  /\ record \in [Keys -> Publishers \cup {Foreign, None}]
  /\ stage \in [Publishers -> {"none", "partial", "whole", "empty"}]
  /\ call \in [Publishers -> Call]

(* A record is a publisher's only under its own name, and whole. *)
RecordsInOrder ==
  \A p \in Publishers, k \in Keys :
    record[k] = p => k = KeyOf[p] /\ (~ call[p].misled => stage[p] = "whole")

Has(p) == record[KeyOf[p]] = p

Knows(c) == c.misled => store = "cities"

(* What each publisher may conclude from where it stands. *)
CallsInOrder ==
  \A p \in Publishers :
    /\ call[p].at \in {"idle", "locked", "grouping", "staging", "filling", "staged",
                       "unavailable"} => ~ Has(p)
    /\ Knows(call[p]) /\ call[p].at \in {"failed", "conflict"} => ~ Has(p)
    /\ call[p].at \in {"idle", "locked", "grouping", "staging", "filling", "staged"} =>
         ~ call[p].maybe /\ ~ call[p].completed
    /\ call[p].at = "staged" => stage[p] = "whole"
    /\ call[p].at \in {"linked", "verified", "released"} => Has(p) /\ call[p].maybe
    /\ call[p].at \in {"linked", "verified"} /\ ~ call[p].misled => call[p].completed
    /\ call[p].at = "published" => Has(p)
    /\ call[p].at = "doubt" => call[p].maybe /\ call[p].cause # "taken"
    /\ Knows(call[p]) /\ call[p].at = "undoing" /\ Has(p) =>
         call[p].maybe /\ call[p].cause # "taken"

PublicationInOrder == RecordsTyped /\ RecordsInOrder /\ CallsInOrder

-----------------------------------------------------------------------------
LEMMA PublicationStarts == RecordInit => PublicationInOrder
<1> SUFFICES ASSUME RecordInit PROVE PublicationInOrder
  OBVIOUS
<1> USE RecordAssumption DEF RecordInit, Unstarted
<1>1. RecordsTyped
  <2>1. Unstarted \in Call
    BY DEF Call, Ats
  <2> QED
    BY <2>1 DEF RecordsTyped
<1>2. RecordsInOrder /\ CallsInOrder
  BY DEF RecordsInOrder, CallsInOrder, Has
<1> QED
  BY <1>1, <1>2 DEF PublicationInOrder

(* A step of one publisher: the others' calls, stages and records stay. *)
LEMMA PublisherMoves ==
  ASSUME PublicationInOrder, NEW p \in Publishers, NEW on \in Call,
         store' = store, call' = [call EXCEPT ![p] = on],
         NEW file \in {"none", "partial", "whole", "empty"},
         stage' = [stage EXCEPT ![p] = file],
         \/ record' = record
         \/ record[KeyOf[p]] = None /\ record' = [record EXCEPT ![KeyOf[p]] = p],
         Has(p)' /\ ~ on.misled => file = "whole",
         on.at \in {"idle", "locked", "grouping", "staging", "filling", "staged",
                    "unavailable"} => ~ Has(p)',
         Knows(on) /\ on.at \in {"failed", "conflict"} => ~ Has(p)',
         on.at \in {"idle", "locked", "grouping", "staging", "filling", "staged"} =>
           ~ on.maybe /\ ~ on.completed,
         on.at = "staged" => file = "whole",
         on.at \in {"linked", "verified", "released"} => Has(p)' /\ on.maybe,
         on.at \in {"linked", "verified"} /\ ~ on.misled => on.completed,
         on.at = "published" => Has(p)',
         on.at = "doubt" => on.maybe /\ on.cause # "taken",
         Knows(on) /\ on.at = "undoing" /\ Has(p)' => on.maybe /\ on.cause # "taken"
  PROVE  PublicationInOrder'
<1> USE RecordAssumption DEF PublicationInOrder
<1>1. RecordsTyped'
  BY DEF RecordsTyped
<1>2. /\ \A q \in Publishers : call'[q] = IF q = p THEN on ELSE call[q]
      /\ \A q \in Publishers : stage'[q] = IF q = p THEN file ELSE stage[q]
  BY DEF RecordsTyped
<1>3. \A q \in Publishers, k \in Keys : record'[k] = q =>
        record[k] = q \/ (q = p /\ k = KeyOf[p])
  BY DEF RecordsTyped
<1>4. ASSUME NEW q \in Publishers \ {p} PROVE Has(q)' <=> Has(q)
  <2>1. KeyOf[q] \in Keys /\ KeyOf[p] \in Keys /\ None # q
    OBVIOUS
  <2>2. CASE record' = record
    BY <2>2 DEF Has
  <2>3. CASE record[KeyOf[p]] = None /\ record' = [record EXCEPT ![KeyOf[p]] = p]
    BY <2>1, <2>3 DEF Has, RecordsTyped
  <2> QED
    BY <2>2, <2>3
<1>5. RecordsInOrder'
  BY <1>2, <1>3 DEF RecordsInOrder, Has
<1>6. CallsInOrder'
  BY <1>2, <1>4 DEF CallsInOrder, Knows
<1> QED
  BY <1>1, <1>5, <1>6

(* The same with the files left alone. *)
LEMMA CallMoves ==
  ASSUME PublicationInOrder, NEW p \in Publishers, NEW on \in Call,
         UNCHANGED <<store, record, stage>>, call' = [call EXCEPT ![p] = on],
         on.misled = call[p].misled,
         on.at \in {"idle", "locked", "grouping", "staging", "filling", "staged",
                    "unavailable"} => ~ Has(p),
         Knows(on) /\ on.at \in {"failed", "conflict"} => ~ Has(p),
         on.at \in {"idle", "locked", "grouping", "staging", "filling", "staged"} =>
           ~ on.maybe /\ ~ on.completed,
         on.at = "staged" => stage[p] = "whole",
         on.at \in {"linked", "verified", "released"} => Has(p) /\ on.maybe,
         on.at \in {"linked", "verified"} /\ ~ on.misled => on.completed,
         on.at = "published" => Has(p),
         on.at = "doubt" => on.maybe /\ on.cause # "taken",
         Knows(on) /\ on.at = "undoing" /\ Has(p) => on.maybe /\ on.cause # "taken"
  PROVE  PublicationInOrder'
<1>1. /\ stage' = [stage EXCEPT ![p] = stage[p]]
      /\ stage[p] \in {"none", "partial", "whole", "empty"}
  BY DEF PublicationInOrder, RecordsTyped
<1>2. Has(p)' = Has(p)
  BY DEF Has
<1>3. Has(p) /\ ~ on.misled => stage[p] = "whole"
  BY RecordAssumption DEF Has, PublicationInOrder, RecordsInOrder
<1> QED
  BY <1>1, <1>2, <1>3, PublisherMoves

(* A call that leaves. *)
LEMMA LeavesKeeps ==
  ASSUME PublicationInOrder, NEW p \in Publishers,
         NEW outcome \in {"published", "maybe", "failed", "conflict", "unavailable", "killed"},
         Leaves(p, outcome), UNCHANGED <<store, record, stage>>,
         outcome = "unavailable" => ~ Has(p),
         Knows(call[p]) /\ outcome \in {"failed", "conflict"} => ~ Has(p),
         outcome = "published" => Has(p)
  PROVE  PublicationInOrder'
<1> DEFINE on == [Unstarted EXCEPT !.at = outcome, !.misled = call[p].misled]
<1>1. on \in Call /\ on.at = outcome /\ on.misled = call[p].misled
  BY RecordAssumption DEF PublicationInOrder, RecordsTyped, Call, Ats, Unstarted
<1>2. call' = [call EXCEPT ![p] = on]
  BY DEF Leaves
<1> HIDE DEF on
<1> QED
  BY <1>1, <1>2, CallMoves DEF Knows

LEMMA FailsKeeps ==
  ASSUME PublicationInOrder, NEW p \in Publishers, Fails(p, "error"),
         UNCHANGED <<store, record, stage>>, Has(p) => call[p].maybe
  PROVE  PublicationInOrder'
<1> DEFINE to == IF store = "cache" /\ call[p].maybe THEN "doubt" ELSE "undoing"
           on == [call[p] EXCEPT !.at = to, !.cause = "error"]
<1>1. call[p] \in Call /\ call \in [Publishers -> Call]
  BY DEF PublicationInOrder, RecordsTyped
<1>2. /\ on \in Call /\ on.at = to /\ on.cause = "error" /\ on.maybe = call[p].maybe
      /\ on.misled = call[p].misled
      /\ to = "undoing" \/ (to = "doubt" /\ call[p].maybe)
  BY <1>1 DEF Call, Ats
<1>3. call' = [call EXCEPT ![p] = on]
  BY <1>1 DEF Fails
<1> HIDE DEF on, to
<1> QED
  BY <1>2, <1>3, CallMoves

LEMMA BeginKeeps ==
  ASSUME PublicationInOrder, NEW p \in Publishers, Begin(p)
  PROVE  PublicationInOrder'
<1> DEFINE to == IF Locked THEN "locked" ELSE "staging"
           on == [call[p] EXCEPT !.at = to]
<1>1. call[p] \in Call /\ call \in [Publishers -> Call] /\ call[p].at = "idle"
  BY DEF PublicationInOrder, RecordsTyped, Begin
<1>2. /\ on \in Call /\ on.at \in {"locked", "staging"} /\ on.maybe = call[p].maybe
      /\ on.completed = call[p].completed /\ on.misled = call[p].misled
  BY <1>1 DEF Call, Ats
<1>3. call' = [call EXCEPT ![p] = on] /\ UNCHANGED <<store, record, stage>>
  BY <1>1 DEF Begin, At
<1>4. ~ Has(p) /\ ~ call[p].maybe /\ ~ call[p].completed
  BY <1>1 DEF PublicationInOrder, CallsInOrder
<1> HIDE DEF on, to
<1> QED
  BY <1>2, <1>3, <1>4, CallMoves

(* Under the lock, before any stage. *)
LEMMA EntersKeeps ==
  ASSUME PublicationInOrder, NEW p \in Publishers, Discover(p) \/ MakeGroup(p)
  PROVE  PublicationInOrder'
<1>1. /\ call[p] \in Call /\ call \in [Publishers -> Call]
      /\ call[p].at \in {"locked", "grouping"}
      /\ record \in [Keys -> Publishers \cup {Foreign, None}]
  BY DEF PublicationInOrder, RecordsTyped, Discover, MakeGroup
<1>2. ~ Has(p) /\ ~ call[p].maybe /\ ~ call[p].completed
  BY <1>1 DEF PublicationInOrder, CallsInOrder
<1>3. UNCHANGED <<store, record, stage>>
  BY DEF Discover, MakeGroup
<1>4. CASE Leaves(p, "unavailable") \/ Leaves(p, "conflict")
  BY <1>2, <1>3, <1>4, LeavesKeeps
<1>5. ASSUME NEW on \in Call, call' = [call EXCEPT ![p] = on],
             on.at \in {"grouping", "staging"}, on.maybe = call[p].maybe,
             on.completed = call[p].completed, on.misled = call[p].misled
      PROVE  PublicationInOrder'
  BY <1>2, <1>3, <1>5, CallMoves
<1>6. CASE /\ Discover(p)
           /\ ~ (Leaves(p, "unavailable") \/ Leaves(p, "conflict"))
  <2> DEFINE to == IF store = "registry" THEN "grouping" ELSE "staging"
             on == [call[p] EXCEPT !.before = record, !.at = to]
  <2>1. call' = [call EXCEPT ![p] = on]
    BY <1>1, <1>6 DEF Discover
  <2>2. /\ on \in Call /\ on.at \in {"grouping", "staging"} /\ on.maybe = call[p].maybe
        /\ on.completed = call[p].completed /\ on.misled = call[p].misled
    BY <1>1 DEF Call, Ats
  <2> HIDE DEF on, to
  <2> QED
    BY <1>5, <2>1, <2>2
<1>7. CASE MakeGroup(p) /\ ~ Leaves(p, "conflict")
  <2> DEFINE made == GroupOf[KeyOf[p]] \notin groups
             on == [call[p] EXCEPT !.made = made, !.at = "staging"]
  <2>1. call' = [call EXCEPT ![p] = on]
    BY <1>1, <1>7 DEF MakeGroup
  <2>2. made \in BOOLEAN
    OBVIOUS
  <2> HIDE DEF made
  <2>3. /\ on \in Call /\ on.at \in {"grouping", "staging"} /\ on.maybe = call[p].maybe
        /\ on.completed = call[p].completed /\ on.misled = call[p].misled
    BY <1>1, <2>2 DEF Call, Ats
  <2> HIDE DEF on
  <2> QED
    BY <1>5, <2>1, <2>3
<1> QED
  BY <1>4, <1>6, <1>7

LEMMA StagesKeeps ==
  ASSUME PublicationInOrder, NEW p \in Publishers, OpenStage(p) \/ FillStage(p)
  PROVE  PublicationInOrder'
<1> DEFINE to == IF OpenStage(p) THEN "filling" ELSE "staged"
           file == IF OpenStage(p) THEN "partial" ELSE "whole"
           on == [call[p] EXCEPT !.at = to]
<1>1. /\ call[p] \in Call /\ call \in [Publishers -> Call]
      /\ call[p].at \in {"staging", "filling"}
  BY DEF PublicationInOrder, RecordsTyped, OpenStage, FillStage
<1>2. /\ on \in Call /\ on.at = to /\ on.maybe = call[p].maybe /\ on.completed = call[p].completed
  BY <1>1 DEF Call, Ats
<1>3. /\ call' = [call EXCEPT ![p] = on] /\ stage' = [stage EXCEPT ![p] = file]
      /\ UNCHANGED <<store, record>>
      /\ (to = "filling" /\ file = "partial") \/ (to = "staged" /\ file = "whole")
  BY <1>1 DEF OpenStage, FillStage, At
<1>4. ~ Has(p) /\ ~ call[p].maybe /\ ~ call[p].completed
  BY <1>1 DEF PublicationInOrder, CallsInOrder
<1>5. Has(p)' = Has(p)
  BY <1>3 DEF Has
<1> HIDE DEF on, to, file
<1> QED
  BY <1>2, <1>3, <1>4, <1>5, PublisherMoves

(* The link: only where no name is, and with a whole stage. *)
LEMMA LinksKeeps ==
  ASSUME PublicationInOrder, NEW p \in Publishers, Link(p) \/ LinkExists(p) \/ LinkFails(p)
  PROVE  PublicationInOrder'
<1>1. /\ call[p] \in Call /\ call \in [Publishers -> Call] /\ call[p].at = "staged"
      /\ stage \in [Publishers -> {"none", "partial", "whole", "empty"}]
      /\ record \in [Keys -> Publishers \cup {Foreign, None}]
  BY DEF PublicationInOrder, RecordsTyped, Link, LinkExists, LinkFails
<1>2. ~ Has(p) /\ stage[p] = "whole"
  BY <1>1 DEF PublicationInOrder, CallsInOrder
<1>3. stage' = [stage EXCEPT ![p] = stage[p]] /\ store' = store
  BY <1>1 DEF Link, LinkExists, LinkFails
<1>4. CASE LinkExists(p)
  <2> DEFINE k == KeyOf[p]
             c == [call[p] EXCEPT !.misled = record[k] = None]
  <2>1. /\ k \in Keys /\ None # p
        /\ record' = [record EXCEPT ![k] = IF record[k] = None THEN p ELSE record[k]]
    BY <1>1, <1>4, RecordAssumption DEF LinkExists
  <2>2. /\ \/ record' = record
           \/ record[k] = None /\ record' = [record EXCEPT ![k] = p]
        /\ Has(p)' <=> record[k] = None
        /\ c \in Call /\ c.misled = Has(p)'
    BY <1>1, <1>2, <2>1 DEF Has, Call
  <2>3. PICK relation \in Relation(p, record'[k]) :
          call' = [call EXCEPT ![p] =
            IF store # "cities" \/ relation = "different"
            THEN [c EXCEPT !.at = "undoing", !.cause = "taken"]
            ELSE IF relation = "same"
            THEN [c EXCEPT !.at = "linked", !.maybe = TRUE]
            ELSE [c EXCEPT !.at = "undoing", !.maybe = TRUE, !.cause = "error"]]
    BY <1>4 DEF LinkExists
  <2>4. relation = "same" => Has(p)'
    BY <2>3 DEF Relation, Has
  <2>5. relation = "different" => ~ Has(p)'
    BY <2>3 DEF Relation, Has
  <2> HIDE DEF c
  <2>6. ASSUME NEW on \in Call, call' = [call EXCEPT ![p] = on], on.misled = c.misled,
               \/ on.at = "linked" /\ on.maybe /\ Has(p)'
               \/ on.at = "undoing" /\ (Knows(on) /\ Has(p)' => on.maybe /\ on.cause # "taken")
        PROVE  PublicationInOrder'
    BY <1>1, <1>2, <1>3, <2>2, <2>6, PublisherMoves
  <2>7. CASE store # "cities" \/ relation = "different"
    <3> DEFINE on == [c EXCEPT !.at = "undoing", !.cause = "taken"]
    <3>1. on \in Call /\ on.at = "undoing" /\ on.misled = c.misled
      BY <2>2 DEF Call, Ats
    <3>2. call' = [call EXCEPT ![p] = on]
      BY <2>3, <2>7
    <3>3. Knows(on) => ~ Has(p)'
      BY <2>2, <2>5, <2>7, <3>1 DEF Knows
    <3> HIDE DEF on
    <3> QED
      BY <2>6, <3>1, <3>2, <3>3
  <2>8. CASE store = "cities" /\ relation = "same"
    <3> DEFINE on == [c EXCEPT !.at = "linked", !.maybe = TRUE]
    <3>1. on \in Call /\ on.at = "linked" /\ on.maybe /\ on.misled = c.misled
      BY <2>2 DEF Call, Ats
    <3>2. call' = [call EXCEPT ![p] = on]
      BY <2>3, <2>8
    <3> HIDE DEF on
    <3> QED
      BY <2>4, <2>6, <2>8, <3>1, <3>2
  <2>9. CASE store = "cities" /\ relation \notin {"same", "different"}
    <3> DEFINE on == [c EXCEPT !.at = "undoing", !.maybe = TRUE, !.cause = "error"]
    <3>1. /\ on \in Call /\ on.at = "undoing" /\ on.maybe /\ on.cause # "taken"
          /\ on.misled = c.misled
      BY <2>2 DEF Call, Ats
    <3>2. call' = [call EXCEPT ![p] = on]
      BY <2>3, <2>9
    <3> HIDE DEF on
    <3> QED
      BY <2>6, <3>1, <3>2
  <2> QED
    BY <2>7, <2>8, <2>9
<1>5. CASE Link(p)
  <2> DEFINE on == [call[p] EXCEPT !.at = "linked", !.maybe = TRUE, !.completed = TRUE]
  <2>1. on \in Call /\ on.at = "linked" /\ on.maybe /\ on.completed
    BY <1>1 DEF Call, Ats
  <2>2. /\ call' = [call EXCEPT ![p] = on] /\ record[KeyOf[p]] = None
        /\ record' = [record EXCEPT ![KeyOf[p]] = p]
    BY <1>1, <1>5 DEF Link
  <2>3. Has(p)'
    BY <1>1, <2>2, RecordAssumption DEF Has
  <2> HIDE DEF on
  <2> QED
    BY <1>2, <1>3, <2>1, <2>2, <2>3, PublisherMoves
<1>6. CASE LinkFails(p)
  <2>1. PICK cause \in {"error", "interrupt"} :
          call' = [call EXCEPT ![p].at = "doubt", ![p].maybe = TRUE, ![p].cause = cause]
    BY <1>6 DEF LinkFails
  <2> DEFINE on == [call[p] EXCEPT !.at = "doubt", !.maybe = TRUE, !.cause = cause]
  <2>2. on \in Call /\ on.at = "doubt" /\ on.maybe /\ on.cause # "taken"
    BY <1>1 DEF Call, Ats
  <2>3. call' = [call EXCEPT ![p] = on]
    BY <1>1, <2>1
  <2>4. \/ record' = record
        \/ record[KeyOf[p]] = None /\ record' = [record EXCEPT ![KeyOf[p]] = p]
    BY <1>6 DEF LinkFails
  <2> HIDE DEF on
  <2> QED
    BY <1>1, <1>2, <1>3, <2>2, <2>3, <2>4, PublisherMoves
<1> QED
  BY <1>4, <1>5, <1>6

(* No evidence speaks against a record that is the publisher's own. *)
LEMMA JudgeKeeps ==
  ASSUME PublicationInOrder, NEW p \in Publishers, Judge(p)
  PROVE  PublicationInOrder'
<1>1. /\ call[p] \in Call /\ call \in [Publishers -> Call] /\ call[p].at = "doubt"
      /\ UNCHANGED <<store, record, stage>>
  BY DEF PublicationInOrder, RecordsTyped, Judge
<1>2. PICK legible \in BOOLEAN :
        call' = [call EXCEPT ![p].at = "undoing",
                             ![p].maybe = CASE store = "registry" -> RegistryEvidence(p, legible)
                                            [] store = "cities" -> CityEvidence(p, legible)
                                            [] OTHER -> CacheEvidence(p, legible)]
  BY DEF Judge
<1> DEFINE maybe == CASE store = "registry" -> RegistryEvidence(p, legible)
                      [] store = "cities" -> CityEvidence(p, legible)
                      [] OTHER -> CacheEvidence(p, legible)
           on == [call[p] EXCEPT !.at = "undoing", !.maybe = maybe]
<1>3. call' = [call EXCEPT ![p] = on]
  BY <1>1, <1>2
<1>4. maybe \in BOOLEAN
  BY DEF RegistryEvidence, CityEvidence, CacheEvidence
<1>5. Has(p) => maybe
  BY RecordAssumption DEF Has, RegistryEvidence, CityEvidence, CacheEvidence
<1> HIDE DEF maybe
<1>6. /\ on \in Call /\ on.at = "undoing" /\ on.maybe = maybe /\ on.cause = call[p].cause
      /\ on.misled = call[p].misled
  BY <1>1, <1>4 DEF Call, Ats
<1>7. call[p].cause # "taken"
  BY <1>1 DEF PublicationInOrder, CallsInOrder
<1> HIDE DEF on
<1> QED
  BY <1>1, <1>3, <1>5, <1>6, <1>7, CallMoves

(* Emptied is only a stage whose link did not return. *)
LEMMA ReleaseKeeps ==
  ASSUME PublicationInOrder, NEW p \in Publishers, ReleaseStage(p)
  PROVE  PublicationInOrder'
<1> DEFINE file == IF store = "cities" /\ ~ call[p].completed THEN "empty" ELSE stage[p]
           on == [call[p] EXCEPT !.at = "released"]
<1>1. /\ call[p] \in Call /\ call \in [Publishers -> Call] /\ call[p].at = "verified"
      /\ stage \in [Publishers -> {"none", "partial", "whole", "empty"}]
      /\ UNCHANGED <<store, record>>
  BY DEF PublicationInOrder, RecordsTyped, ReleaseStage
<1>2. Has(p) /\ call[p].maybe /\ (~ call[p].misled => call[p].completed /\ stage[p] = "whole")
  BY <1>1, RecordAssumption DEF PublicationInOrder, CallsInOrder, RecordsInOrder, Has
<1>3. /\ on \in Call /\ on.at = "released" /\ on.maybe = call[p].maybe
      /\ on.misled = call[p].misled
  BY <1>1 DEF Call, Ats
<1>4. stage' = [stage EXCEPT ![p] = file] /\ call' = [call EXCEPT ![p] = on]
  BY <1>1 DEF ReleaseStage, At
<1>5. /\ file \in {"none", "partial", "whole", "empty"}
      /\ ~ call[p].misled => file = "whole"
  BY <1>1, <1>2
<1>6. Has(p)' = Has(p)
  BY <1>1 DEF Has
<1> HIDE DEF file, on
<1> QED
  BY <1>1, <1>2, <1>3, <1>4, <1>5, <1>6, PublisherMoves

LEMMA ConfirmsKeeps ==
  ASSUME PublicationInOrder, NEW p \in Publishers, Verify(p) \/ Confirm(p)
  PROVE  PublicationInOrder'
<1>1. /\ call[p] \in Call /\ call \in [Publishers -> Call]
      /\ call[p].at \in {"linked", "released"} /\ UNCHANGED <<store, record, stage>>
  BY DEF PublicationInOrder, RecordsTyped, Verify, Confirm
<1>2. /\ Has(p) /\ call[p].maybe
      /\ call[p].at = "linked" /\ ~ call[p].misled => call[p].completed
  BY <1>1 DEF PublicationInOrder, CallsInOrder
<1>3. CASE Verify(p) /\ At(p, "verified")
  <2> DEFINE on == [call[p] EXCEPT !.at = "verified"]
  <2>1. /\ on \in Call /\ on.at = "verified" /\ on.maybe = call[p].maybe
        /\ on.completed = call[p].completed /\ on.misled = call[p].misled
    BY <1>1 DEF Call, Ats
  <2>2. call' = [call EXCEPT ![p] = on] /\ call[p].at = "linked"
    BY <1>1, <1>3 DEF At, Verify
  <2> HIDE DEF on
  <2> QED
    BY <1>1, <1>2, <2>1, <2>2, CallMoves
<1>4. CASE Fails(p, "error")
  BY <1>1, <1>2, <1>4, FailsKeeps
<1>5. CASE Confirm(p)
  BY <1>1, <1>2, <1>5, LeavesKeeps DEF Confirm
<1> QED
  BY <1>3, <1>4, <1>5 DEF Verify

(* What is emptied on the way out is no record. *)
LEMMA UndoKeeps ==
  ASSUME PublicationInOrder, NEW p \in Publishers, Undo(p)
  PROVE  PublicationInOrder'
<1>1. /\ call[p] \in Call /\ call \in [Publishers -> Call] /\ call[p].at = "undoing"
      /\ UNCHANGED <<store, record>>
      /\ stage \in [Publishers -> {"none", "partial", "whole", "empty"}]
  BY DEF PublicationInOrder, RecordsTyped, Undo
<1>2. /\ Knows(call[p]) /\ Has(p) => call[p].maybe /\ call[p].cause # "taken"
      /\ ~ call[p].misled => Knows(call[p]) /\ (Has(p) => stage[p] = "whole")
  BY <1>1, RecordAssumption DEF PublicationInOrder, CallsInOrder, RecordsInOrder, Has, Knows
<1> DEFINE file == IF call[p].maybe \/ call[p].completed \/ stage[p] = "none" THEN stage[p]
                   ELSE "empty"
           outcome == IF call[p].cause = "taken" THEN "conflict"
                      ELSE IF call[p].maybe THEN "maybe" ELSE "failed"
           on == [Unstarted EXCEPT !.at = outcome, !.misled = call[p].misled]
<1>3. /\ stage' = [stage EXCEPT ![p] = file] /\ call' = [call EXCEPT ![p] = on]
  BY <1>1 DEF Undo, Leaves
<1>4. on \in Call /\ on.at = outcome /\ on.misled = call[p].misled
  BY <1>1, RecordAssumption DEF Call, Ats, Unstarted
<1>5. /\ file \in {"none", "partial", "whole", "empty"}
      /\ Has(p) /\ ~ call[p].misled => file = "whole"
      /\ Knows(call[p]) /\ Has(p) => outcome = "maybe"
      /\ outcome \in {"conflict", "maybe", "failed"}
  BY <1>1, <1>2
<1>6. Has(p)' = Has(p)
  BY <1>1 DEF Has
<1> HIDE DEF file, outcome, on
<1> QED
  BY <1>1, <1>3, <1>4, <1>5, <1>6, PublisherMoves DEF Knows

LEMMA PublicationStep == PublicationInOrder /\ [RecordNext]_recordVars => PublicationInOrder'
<1> SUFFICES ASSUME PublicationInOrder, [RecordNext]_recordVars PROVE PublicationInOrder'
  OBVIOUS
<1>1. ASSUME NEW p \in Publishers, RecordStep(p) \/ LinkFails(p) PROVE PublicationInOrder'
  BY <1>1, BeginKeeps, EntersKeeps, StagesKeeps, LinksKeeps, JudgeKeeps, ReleaseKeeps,
     ConfirmsKeeps, UndoKeeps DEF RecordStep
<1>2. ASSUME NEW p \in Publishers, Fault(p) PROVE PublicationInOrder'
  <2>1. Has(p) => call[p].maybe
    BY <1>2 DEF Fault, PublicationInOrder, CallsInOrder
  <2> QED
    BY <1>2, <2>1, FailsKeeps DEF Fault
<1>3. ASSUME NEW p \in Publishers, Kill(p) PROVE PublicationInOrder'
  BY <1>3, LeavesKeeps DEF Kill
<1>4. ASSUME NEW k \in Keys, Intrude(k) PROVE PublicationInOrder'
  <2>1. /\ record' = [record EXCEPT ![k] = Foreign] /\ record[k] = None
        /\ UNCHANGED <<store, stage, call>>
    BY <1>4 DEF Intrude
  <2>2. RecordsTyped'
    BY <2>1 DEF PublicationInOrder, RecordsTyped
  <2>3. \A p \in Publishers, l \in Keys : record'[l] = p <=> record[l] = p
    BY <2>1, RecordAssumption DEF PublicationInOrder, RecordsTyped
  <2>4. \A p \in Publishers : Has(p)' <=> Has(p)
    BY <2>3, RecordAssumption DEF Has
  <2> QED
    BY <2>1, <2>2, <2>3, <2>4 DEF PublicationInOrder, RecordsInOrder, CallsInOrder, Knows
<1>5. CASE UNCHANGED recordVars
  BY <1>5 DEF recordVars, PublicationInOrder, RecordsTyped, RecordsInOrder, CallsInOrder, Has, Knows
<1> QED
  BY <1>1, <1>2, <1>3, <1>4, <1>5 DEF RecordNext

LEMMA PublicationAlwaysInOrder == RecordSpec => []PublicationInOrder
BY PublicationStarts, PublicationStep, PTL DEF RecordSpec

-----------------------------------------------------------------------------
(* Whatever name a reader finds leads to a complete document, under every  *)
(* interleaving of publications, faults, interrupts and kills, but for the *)
(* record of a publisher whose link was made and reported as existing:     *)
(* _remove_owned_stage, or _release_stage_descriptor after                 *)
(* FileExistsError, may then empty it, and nothing else ever does.         *)
THEOREM RecordsAlwaysWhole == RecordSpec => []RecordsAreWhole
<1>1. PublicationInOrder => RecordsAreWhole
  BY RecordAssumption
     DEF PublicationInOrder, RecordsTyped, RecordsInOrder, RecordsAreWhole, Present, Readable
<1> QED
  BY <1>1, PublicationAlwaysInOrder, PTL

(* A publication reported done is there, and one reported failed, refused  *)
(* or unavailable is not, whatever the file system hid from the publisher, *)
(* and in the city registry even if it reports a link that was made as     *)
(* existing already (_publish compares identities; the others do not).     *)
THEOREM OutcomeAlwaysHonest == RecordSpec => []OutcomeIsHonest
<1>1. PublicationInOrder => OutcomeIsHonest
  BY DEF PublicationInOrder, CallsInOrder, Has, Knows, OutcomeIsHonest
<1> QED
  BY <1>1, PublicationAlwaysInOrder, PTL

(* No step replaces or removes a record. *)
THEOREM RecordsStayForever == RecordSpec => RecordsAreForever
<1>1. PublicationInOrder /\ [RecordNext]_recordVars =>
        [\A k \in Present : record'[k] = record[k]]_recordVars
  <2> SUFFICES ASSUME PublicationInOrder, RecordNext, NEW k \in Present
               PROVE  record'[k] = record[k]
    BY DEF recordVars
  <2>1. ASSUME NEW p \in Publishers, RecordStep(p) \/ Fault(p) \/ Kill(p) \/ LinkFails(p)
        PROVE  record'[k] = record[k]
    <3>1. ASSUME \/ record' = record
                 \/ record[KeyOf[p]] = None /\ record' = [record EXCEPT ![KeyOf[p]] = p]
          PROVE  record'[k] = record[k]
      BY <3>1 DEF Present, PublicationInOrder, RecordsTyped
    <3>2. CASE LinkExists(p)
      <4>1. record' = [record EXCEPT ![KeyOf[p]] = IF record[KeyOf[p]] = None THEN p
                                                  ELSE record[KeyOf[p]]]
        BY <3>2 DEF LinkExists
      <4> QED
        BY <4>1 DEF Present, PublicationInOrder, RecordsTyped
    <3>3. CASE ~ LinkExists(p)
      BY <2>1, <3>1, <3>3 DEF RecordStep, Begin, Discover, MakeGroup, OpenStage, FillStage, Link,
                              Judge, Verify, ReleaseStage, Confirm, Undo, Fault, Kill, LinkFails
    <3> QED
      BY <3>2, <3>3
  <2>2. ASSUME NEW l \in Keys, Intrude(l) PROVE record'[k] = record[k]
    BY <2>2 DEF Intrude, Present, PublicationInOrder, RecordsTyped
  <2> QED
    BY <2>1, <2>2 DEF RecordNext
<1> QED
  BY <1>1, PublicationAlwaysInOrder, PTL DEF RecordSpec, RecordsAreForever
=============================================================================
