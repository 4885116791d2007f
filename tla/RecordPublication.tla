-------------------------- MODULE RecordPublication --------------------------
(***************************************************************************)
(* Immutable records of a workspace: the provider registry (over the       *)
(* two-level immutable registry), the city registry, and the byte storage  *)
(* of the cognition caches.  All three write a document to a stage file of *)
(* their own, verify it, and link it to its name without ever replacing    *)
(* one.  The registries do so under a lock of the process and of the       *)
(* operating system; the caches take no lock.                              *)
(*                                                                         *)
(* The files are those of Linux, where the record name and the stage are   *)
(* one file: emptying the stage empties the record.  A publisher's stage   *)
(* is named by the publisher.  Foreign is a file put under a record's name *)
(* by something else.                                                      *)
(***************************************************************************)
EXTENDS Naturals, FiniteSets

CONSTANTS Stores,      \* which of the three to explore
          Publishers,  \* calls of create, register or publish
          Keys,        \* record names
          KeyOf,       \* the record each call publishes
          GroupOf,     \* the group directory each record lies in
          MaxGroups,   \* max_groups
          MaxRecords,  \* MAX_WORKSPACE_CITY_PACKS, or max_records_per_group
          Foreign,     \* somebody else's file
          MaxForeign,  \* bound on those
          None         \* no file, or no holder

ASSUME RecordAssumption ==
  /\ Stores \subseteq {"registry", "cities", "cache"}
  /\ KeyOf \in [Publishers -> Keys]
  /\ {Foreign, None} \cap Publishers = {} /\ Foreign # None
  /\ MaxForeign \in Nat /\ MaxGroups \in Nat /\ MaxRecords \in Nat

VARIABLES store,   \* the one at hand
          record,  \* the file each record name leads to
          stage,   \* what each publisher's stage file holds
          groups,  \* the group directories, of the provider registry only
          lock,    \* who is inside the registry
          call     \* where each publication stands; misled is history: its link
                   \* was made and reported as existing already

recordVars == <<store, record, stage, groups, lock, call>>

Locked == store # "cache"

Unstarted == [at |-> "idle", maybe |-> FALSE, completed |-> FALSE, made |-> FALSE,
              misled |-> FALSE, cause |-> "none", before |-> [k \in Keys |-> None]]

RecordInit ==
  /\ store \in Stores
  /\ record = [k \in Keys |-> None]
  /\ stage = [p \in Publishers |-> "none"]
  /\ groups = {}
  /\ lock = None
  /\ call = [p \in Publishers |-> Unstarted]

At(p, at) == call' = [call EXCEPT ![p].at = at]

Present == {k \in Keys : record[k] # None}

InGroup(k) == {l \in Present : GroupOf[l] = GroupOf[k]}

(* A record that holds less than its document fails every reader. *)
Readable(k) == record[k] = Foreign \/ (record[k] # None /\ stage[record[k]] = "whole")

Fails(p, cause) ==
  call' = [call EXCEPT ![p].at = IF store = "cache" /\ call[p].maybe THEN "doubt" ELSE "undoing",
                       ![p].cause = cause]

-----------------------------------------------------------------------------
Begin(p) ==
  /\ call[p].at = "idle"
  /\ Locked => lock = None
  /\ lock' = IF Locked THEN p ELSE None
  /\ At(p, IF Locked THEN "locked" ELSE "staging")
  /\ UNCHANGED <<store, record, stage, groups>>

Leaves(p, outcome) ==
  /\ lock' = IF lock = p THEN None ELSE lock
  /\ call' = [call EXCEPT ![p] = [Unstarted EXCEPT !.at = outcome, !.misled = call[p].misled]]

(* The whole registry is read; a name taken or a registry full refuses. *)
Discover(p) ==
  LET k == KeyOf[p]
      full == IF store = "cities" THEN Cardinality(Present) >= MaxRecords
              ELSE Cardinality(InGroup(k)) >= MaxRecords
  IN /\ call[p].at = "locked"
     /\ IF \E l \in Present : ~ Readable(l) THEN Leaves(p, "unavailable")
        ELSE IF k \in Present \/ full THEN Leaves(p, "conflict")
        ELSE /\ call' = [call EXCEPT ![p].before = record,
                                     ![p].at = IF store = "registry" THEN "grouping"
                                               ELSE "staging"]
             /\ UNCHANGED lock
     /\ UNCHANGED <<store, record, stage, groups>>

(* The group directory is made unless there are max_groups of them. *)
MakeGroup(p) ==
  LET g == GroupOf[KeyOf[p]]
  IN /\ call[p].at = "grouping"
     /\ IF g \notin groups /\ Cardinality(groups) >= MaxGroups
        THEN Leaves(p, "conflict") /\ UNCHANGED groups
        ELSE /\ groups' = groups \cup {g}
             /\ call' = [call EXCEPT ![p].made = g \notin groups, ![p].at = "staging"]
             /\ UNCHANGED lock
     /\ UNCHANGED <<store, record, stage>>

OpenStage(p) ==
  /\ call[p].at = "staging"
  /\ stage' = [stage EXCEPT ![p] = "partial"]
  /\ At(p, "filling")
  /\ UNCHANGED <<store, record, groups, lock>>

(* Written, synced and read back through the same descriptor. *)
FillStage(p) ==
  /\ call[p].at = "filling"
  /\ stage' = [stage EXCEPT ![p] = "whole"]
  /\ At(p, "staged")
  /\ UNCHANGED <<store, record, groups, lock>>

(* A slip: the stage is renamed over whatever has the name. *)
Link_Clobbers(p) ==
  /\ call[p].at = "staged"
  /\ record' = [record EXCEPT ![KeyOf[p]] = p]
  /\ call' = [call EXCEPT ![p].at = "linked", ![p].maybe = TRUE, ![p].completed = TRUE]
  /\ UNCHANGED <<store, stage, groups, lock>>

(* The publication is in doubt from before the system call. *)
Link(p) ==
  /\ call[p].at = "staged"
  /\ record[KeyOf[p]] = None
  /\ record' = [record EXCEPT ![KeyOf[p]] = p]
  /\ call' = [call EXCEPT ![p].at = "linked", ![p].maybe = TRUE, ![p].completed = TRUE]
  /\ UNCHANGED <<store, stage, groups, lock>>

(* What the city registry sees of the destination's identity. *)
Relation(p, file) == {IF file = p THEN "same" ELSE "different", "indeterminate"}

(* A slip: a name that exists is another's. *)
LinkExists_Conflicts(p) ==
  /\ call[p].at = "staged"
  /\ record' = [record EXCEPT ![KeyOf[p]] = IF @ = None THEN p ELSE @]
  /\ call' = [call EXCEPT ![p].at = "undoing", ![p].cause = "taken",
                          ![p].misled = record[KeyOf[p]] = None]
  /\ UNCHANGED <<store, stage, groups, lock>>

(* The name exists already, or the link that made it says so, late.  The   *)
(* registry and the caches take it for another's file.  The city registry  *)
(* looks: its own file carries the publication on, a file it cannot tell   *)
(* leaves it in doubt.  The same signal after link has returned is Fault's. *)
LinkExists(p) ==
  LET k == KeyOf[p]
      c == [call[p] EXCEPT !.misled = record[k] = None]
  IN /\ call[p].at = "staged"
     /\ record' = [record EXCEPT ![k] = IF @ = None THEN p ELSE @]
     /\ \E relation \in Relation(p, record'[k]) :
          call' = [call EXCEPT ![p] =
            IF store # "cities" \/ relation = "different"
            THEN [c EXCEPT !.at = "undoing", !.cause = "taken"]
            ELSE IF relation = "same"
            THEN [c EXCEPT !.at = "linked", !.maybe = TRUE]
            ELSE [c EXCEPT !.at = "undoing", !.maybe = TRUE, !.cause = "error"]]
     /\ UNCHANGED <<store, stage, groups, lock>>

(* The call fails, or an interrupt lands at its edge, whether or not the   *)
(* operating system has linked the name.                                   *)
LinkFails(p) ==
  /\ call[p].at = "staged"
  /\ \/ UNCHANGED record
     \/ record[KeyOf[p]] = None /\ record' = [record EXCEPT ![KeyOf[p]] = p]
  /\ \E cause \in {"error", "interrupt"} :
       call' = [call EXCEPT ![p].at = "doubt", ![p].maybe = TRUE, ![p].cause = cause]
  /\ UNCHANGED <<store, stage, groups, lock>>

(* A slip: a call that failed has linked nothing. *)
RegistryEvidence_Trusting(p, legible) == FALSE

(* The exact bytes prove a commit, an absent name the opposite. *)
RegistryEvidence(p, legible) == legible => record[KeyOf[p]] = p

(* An interrupt stays in doubt; after an error only an absent name does not. *)
CityEvidence(p, legible) ==
  (call[p].cause = "error" /\ legible) => record[KeyOf[p]] # None

CacheEvidence(p, legible) == legible => record[KeyOf[p]] # None

Judge(p) ==
  /\ call[p].at = "doubt"
  /\ \E legible \in BOOLEAN :
       call' = [call EXCEPT ![p].at = "undoing",
                            ![p].maybe = CASE store = "registry" -> RegistryEvidence(p, legible)
                                           [] store = "cities" -> CityEvidence(p, legible)
                                           [] OTHER -> CacheEvidence(p, legible)]
  /\ UNCHANGED <<store, record, stage, groups, lock>>

Own(p) == record[KeyOf[p]] = p /\ stage[p] = "whole"

Verify(p) ==
  /\ call[p].at = "linked"
  /\ IF Own(p) THEN At(p, "verified") ELSE Fails(p, "error")
  /\ UNCHANGED <<store, record, stage, groups, lock>>

(* The stage is closed; the city registry empties it first unless the link *)
(* returned.                                                               *)
ReleaseStage(p) ==
  /\ call[p].at = "verified"
  /\ stage' = [stage EXCEPT ![p] = IF store = "cities" /\ ~ call[p].completed
                                   THEN "empty" ELSE @]
  /\ At(p, "released")
  /\ UNCHANGED <<store, record, groups, lock>>

(* What can be read is compared once more: the record itself, and in a     *)
(* registry the snapshot it was added to.                                  *)
Confirm(p) ==
  LET k == KeyOf[p]
      added == record = [call[p].before EXCEPT ![k] = p]
  IN /\ call[p].at = "released"
     /\ IF Own(p) /\ (Locked => added)
        THEN Leaves(p, "published")
        ELSE Leaves(p, "maybe")
     /\ UNCHANGED <<store, record, stage, groups>>

(* A slip: the stage of every failed publication is emptied. *)
Undo_Truncates(p) ==
  LET c == call[p]
      g == GroupOf[KeyOf[p]]
  IN /\ c.at = "undoing"
     /\ stage' = [stage EXCEPT ![p] = IF @ = "none" THEN @ ELSE "empty"]
     /\ groups' = IF c.made /\ ~ c.maybe /\ InGroup(KeyOf[p]) = {} THEN groups \ {g} ELSE groups
     /\ Leaves(p, IF c.cause = "taken" THEN "conflict" ELSE IF c.maybe THEN "maybe" ELSE "failed")
     /\ UNCHANGED <<store, record>>

(* A slip: the lock is not given back on the way out. *)
Undo_KeepsLock(p) ==
  LET c == call[p]
  IN /\ c.at = "undoing"
     /\ call' = [call EXCEPT ![p].at = IF c.maybe THEN "maybe" ELSE "failed"]
     /\ UNCHANGED <<store, record, stage, groups, lock>>

(* A publication that failed empties a stage that cannot be a record, and  *)
(* takes back the group it made.                                           *)
Undo(p) ==
  LET c == call[p]
      g == GroupOf[KeyOf[p]]
  IN /\ c.at = "undoing"
     /\ stage' = [stage EXCEPT ![p] = IF c.maybe \/ c.completed \/ @ = "none" THEN @ ELSE "empty"]
     /\ groups' = IF c.made /\ ~ c.maybe /\ InGroup(KeyOf[p]) = {} THEN groups \ {g} ELSE groups
     /\ Leaves(p, IF c.cause = "taken" THEN "conflict" ELSE IF c.maybe THEN "maybe" ELSE "failed")
     /\ UNCHANGED <<store, record>>

RecordStep(p) ==
  \/ Begin(p) \/ Discover(p) \/ MakeGroup(p) \/ OpenStage(p) \/ FillStage(p)
  \/ Link(p) \/ LinkExists(p) \/ Judge(p) \/ Verify(p) \/ ReleaseStage(p) \/ Confirm(p)
  \/ Undo(p)

-----------------------------------------------------------------------------
(* An I/O error or an interrupt before the link, or after it. *)
Fault(p) ==
  /\ call[p].at \in {"grouping", "staging", "filling", "staged", "linked", "verified",
                     "released"}
  /\ Fails(p, "error")
  /\ UNCHANGED <<store, record, stage, groups, lock>>

Underway(p) ==
  call[p].at \in {"locked", "grouping", "staging", "filling", "staged", "doubt", "linked",
                  "verified", "released", "undoing"}

(* The end of the process; the operating system releases its lock. *)
Kill(p) ==
  /\ Underway(p)
  /\ Leaves(p, "killed")
  /\ UNCHANGED <<store, record, stage, groups>>

Intrude(k) ==
  /\ record[k] = None
  /\ Cardinality({l \in Keys : record[l] = Foreign}) < MaxForeign
  /\ store = "registry" => GroupOf[k] \in groups
  /\ record' = [record EXCEPT ![k] = Foreign]
  /\ UNCHANGED <<store, stage, groups, lock, call>>

RecordNext ==
  \/ \E p \in Publishers : RecordStep(p) \/ LinkFails(p) \/ Fault(p) \/ Kill(p)
  \/ \E k \in Keys : Intrude(k)

RecordSpec ==
  /\ RecordInit
  /\ [][RecordNext]_recordVars
  /\ WF_recordVars(\E p \in Publishers : RecordStep(p))

-----------------------------------------------------------------------------
(* Whatever a record name leads to is a complete document: no name is      *)
(* linked to an unfinished stage, and no clean-up empties a stage that has *)
(* become a record, though it cannot always know that it has.  The one way *)
(* to lose a record is a link that was made and reported as existing: the  *)
(* city registry's release, and the others' undoing, then empty it.        *)
RecordsAreWhole ==
  \A k \in Present : Readable(k) \/ (record[k] # Foreign /\ call[record[k]].misled)

(* What the caller is told is true: a published record is there, and after *)
(* a conflict or a failure "before commit" it is not, so that a retry may  *)
(* neither skip nor repeat it.  Only doubt may be reported in doubt.  The  *)
(* city registry keeps to it even if its link is reported as existing; the *)
(* others do not look at the file that exists.                             *)
OutcomeIsHonest ==
  \A p \in Publishers :
    /\ call[p].at = "published" => record[KeyOf[p]] = p
    /\ call[p].at \in {"failed", "conflict", "unavailable"} =>
         record[KeyOf[p]] # p \/ (call[p].misled /\ store # "cities")

(* A record is never replaced by another writer's. *)
RecordsAreForever ==
  [][\A k \in Present : record'[k] = record[k]]_recordVars

(* The registry's lock comes back from success, refusal, fault and kill.   *)
LockComesBack == (lock # None) ~> (lock = None)
=============================================================================
