---------------------------- MODULE RunRepository ----------------------------
(***************************************************************************)
(* WorkbenchRunRepository over the run store, with the two caches of what  *)
(* has been verified in this process: the summaries a listing reuses, and  *)
(* the stories of the guide.  Both are keyed by the run directory as it    *)
(* was observed, file by file, before a verification and again after it;   *)
(* nothing is remembered of a run that moved in between.                   *)
(*                                                                         *)
(* A request verifies the run a worker has just published ("verify"),      *)
(* lists the runs ("list"), or tells the story of a run ("story").         *)
(***************************************************************************)
EXTENDS RunPublication

CONSTANT Scenarios    \* the combinations of saves and requests to explore

ASSUME RepositoryAssumption ==
  \A c \in Scenarios :
    /\ c.kind \in [Readers -> {"verify", "list", "story", "none"}]
    /\ c.saves \subseteq Savers

VARIABLES scenario,   \* the one at hand
          visit,      \* where each request stands
          memo,       \* _verified_runs
          generation, \* _verified_generation
          stories     \* the story cache

requests == <<scenario, visit>>
caches == <<memo, generation, stories>>
repositoryVars == <<publicationVars, requests, caches>>

Kind(r) == scenario.kind[r]

NoEntry == [files |-> NoFiles, summary |-> Nobody, born |-> 0]

Resting == [at |-> "idle", todo |-> {}, id |-> Nobody, next |-> 0, seen |-> NoFiles,
            observed |-> FALSE, since |-> 0, found |-> Nobody, served |-> Nobody]

RepositoryInit ==
  /\ PublicationInit
  /\ scenario \in Scenarios
  /\ visit = [r \in Readers |-> Resting]
  /\ memo = [id \in Runs |-> NoEntry]
  /\ generation = 0
  /\ stories = [id \in Runs |-> NoEntry]

Goes(r, at) == visit' = [visit EXCEPT ![r].at = at]

(* The candidate is settled; `summary` is what a cache answered, if it did. *)
Settles(r, summary) ==
  visit' = [visit EXCEPT ![r] =
              [@ EXCEPT !.at = IF Kind(r) = "list" THEN "choosing" ELSE "done", !.next = 0,
                        !.observed = FALSE, !.found = Nobody, !.served = summary,
                        !.seen = IF summary = Nobody THEN NoFiles ELSE visit[r].seen]]

SameBytes(seen, entry) == \A f \in Files : seen[f].is = entry.files[f].is

-----------------------------------------------------------------------------
(* A verification or a story begins with its observation of the run. *)
RequestOne(r) ==
  /\ visit[r].at = "idle"
  /\ Kind(r) \in {"verify", "story"}
  /\ \E id \in Runs :
       /\ Kind(r) = "verify" => \E s \in Savers : RunOf[s] = id /\ saver[s].at = "saved"
       /\ visit' = [visit EXCEPT ![r].at = "observing", ![r].id = id, ![r].next = 0]
  /\ UNCHANGED <<publicationVars, scenario, caches>>

RequestList(r) ==
  /\ visit[r].at = "idle"
  /\ Kind(r) = "list"
  /\ visit' = [visit EXCEPT ![r].at = "scanning", ![r].since = generation]
  /\ UNCHANGED <<publicationVars, scenario, caches>>

Scan(r) ==
  /\ visit[r].at = "scanning"
  /\ visit' = [visit EXCEPT ![r].at = "forgetting", ![r].todo = {id \in Runs : Made(id)}]
  /\ UNCHANGED <<publicationVars, scenario, caches>>

(* A slip: whatever the scan did not see is evicted, however new. *)
Forget_AnyAge(r) ==
  /\ visit[r].at = "forgetting"
  /\ memo' = [id \in Runs |-> IF id \notin visit[r].todo THEN NoEntry ELSE memo[id]]
  /\ Goes(r, "choosing")
  /\ UNCHANGED <<publicationVars, scenario, generation, stories>>

(* _forget_unlisted *)
Forget(r) ==
  /\ visit[r].at = "forgetting"
  /\ memo' = [id \in Runs |-> IF id \notin visit[r].todo /\ memo[id].born <= visit[r].since
                              THEN NoEntry ELSE memo[id]]
  /\ Goes(r, "choosing")
  /\ UNCHANGED <<publicationVars, scenario, generation, stories>>

NextCandidate(r) ==
  /\ visit[r].at = "choosing"
  /\ IF visit[r].todo = {}
     THEN visit' = [visit EXCEPT ![r] = [Resting EXCEPT !.at = "done"]]
     ELSE \E id \in visit[r].todo :
            visit' = [visit EXCEPT ![r].at = "observing", ![r].todo = @ \ {id},
                                   ![r].id = id, ![r].next = 0, ![r].served = Nobody]
  /\ UNCHANGED <<publicationVars, scenario, caches>>

(* One file of the observation; a directory that is gone cannot be observed. *)
Observe(r) ==
  LET v == visit[r]
      on == IF Kind(r) = "verify" THEN "loading" ELSE "recalling"
  IN /\ v.at = "observing"
     /\ IF ~ Made(v.id)
        THEN visit' = [visit EXCEPT ![r].at = on, ![r].observed = FALSE]
        ELSE visit' = [visit EXCEPT ![r].seen[v.next] = disk[v.id][v.next],
                                    ![r].next = v.next + 1, ![r].observed = TRUE,
                                    ![r].at = IF v.next < Docs THEN "observing" ELSE on]
     /\ UNCHANGED <<publicationVars, scenario, caches>>

(* _recall: a listing reuses a summary while the bytes are the same. *)
Recall(r) ==
  LET v == visit[r]
      entry == memo[v.id]
      hit == entry.summary # Nobody /\ v.observed /\ SameBytes(v.seen, entry)
  IN /\ v.at = "recalling"
     /\ Kind(r) = "list"
     /\ IF hit
        THEN Settles(r, entry.summary) /\ UNCHANGED memo
        ELSE Goes(r, "loading") /\ memo' = [memo EXCEPT ![v.id] = NoEntry]
     /\ UNCHANGED <<publicationVars, scenario, generation, stories>>

(* _StoryCache.get: a story is reused while bytes and identities are the same. *)
RecallStory(r) ==
  LET v == visit[r]
      entry == stories[v.id]
      hit == entry.summary # Nobody /\ v.observed /\ v.seen = entry.files
  IN /\ v.at = "recalling"
     /\ Kind(r) = "story"
     /\ IF hit
        THEN Settles(r, entry.summary) /\ UNCHANGED stories
        ELSE Goes(r, "loading") /\ stories' = [stories EXCEPT ![v.id] = NoEntry]
     /\ UNCHANGED <<publicationVars, scenario, memo, generation>>

(* A miss runs the whole verification. *)
Load(r) ==
  /\ visit[r].at = "loading"
  /\ LoadBegins(r, visit[r].id)
  /\ Goes(r, "loaded")
  /\ UNCHANGED <<files, edits, saver, intact, settled, scenario, caches>>

Loading(r) == visit[r].at = "loaded" /\ LoadStep(r) /\ UNCHANGED <<requests, caches>>

Loaded(r) ==
  /\ visit[r].at = "loaded"
  /\ load[r].at \in {"loaded", "refused"}
  /\ IF load[r].at = "loaded" /\ visit[r].observed
     THEN visit' = [visit EXCEPT ![r].next = 0, ![r].at = "again", ![r].found = load[r].author]
     ELSE Settles(r, Nobody)
  /\ load' = [load EXCEPT ![r] = Unread]
  /\ settled' = settled \ {r}
  /\ UNCHANGED <<files, edits, saver, intact, scenario, caches>>

Compared(r, same) ==
  /\ visit[r].at = "again"
  /\ IF same
     THEN visit' = [visit EXCEPT ![r].next = @ + 1,
                                 ![r].at = IF visit[r].next < Docs THEN "again" ELSE "remembering"]
     ELSE Settles(r, Nobody)
  /\ UNCHANGED <<publicationVars, scenario, caches>>

(* A slip: only the bytes are compared, not the identities and times. *)
ObserveAgain_BytesOnly(r) ==
  LET v == visit[r]
  IN Compared(r, v.at = "again" => Made(v.id) /\ disk[v.id][v.next].is = v.seen[v.next].is)

(* The observation after the load must equal the one before it. *)
ObserveAgain(r) ==
  LET v == visit[r]
  IN Compared(r, v.at = "again" => Made(v.id) /\ disk[v.id][v.next] = v.seen[v.next])

(* _remember, or the story cache's insertion *)
Remember(r) ==
  LET v == visit[r]
      entry == [files |-> v.seen, summary |-> v.found, born |-> generation + 1]
  IN /\ v.at = "remembering"
     /\ IF Kind(r) = "story"
        THEN /\ stories' = [stories EXCEPT ![v.id] = [entry EXCEPT !.born = 0]]
             /\ UNCHANGED <<memo, generation>>
        ELSE /\ memo' = [memo EXCEPT ![v.id] = entry]
             /\ generation' = generation + 1
             /\ UNCHANGED stories
     /\ Settles(r, Nobody)
     /\ UNCHANGED <<publicationVars, scenario>>

Request(r) ==
  \/ RequestOne(r) \/ RequestList(r) \/ Scan(r) \/ Forget(r) \/ NextCandidate(r)
  \/ Observe(r) \/ Recall(r) \/ RecallStory(r) \/ Load(r) \/ Loading(r) \/ Loaded(r)
  \/ ObserveAgain(r) \/ Remember(r)

RepositoryNext ==
  \/ (\E s \in scenario.saves : SaveStep(s) \/ Fails(s)) /\ UNCHANGED <<requests, caches>>
  \/ \E r \in Readers : Request(r)
  \/ Outside /\ UNCHANGED <<requests, caches>>

RepositorySpec == RepositoryInit /\ [][RepositoryNext]_repositoryVars

-----------------------------------------------------------------------------
(* The run directory keeps the archive's promise: between removals an id   *)
(* belongs to the saver that created its directory, whoever else found it  *)
(* free, and a save that died leaves an id that nobody else can use.       *)
Archive == INSTANCE RunArchive

ArchiveSpec == Archive!Spec

(* A version 10 run reported saved had every sidecar in place when its     *)
(* manifest was linked, though each had been written and read back at a    *)
(* moment of its own before.                                               *)
SavedRunIsWhole ==
  \A s \in Pinned : saver[s].at = "saved" => s \in intact

(* A load that accepts a version 10 run read it all from one set of files: *)
(* nothing it had read was changed before it had read the rest.            *)
LoadedRunIsWhole ==
  \A r \in Readers :
    load[r].at = "loaded" /\ load[r].author \in Pinned => r \in settled

(* What a listing or the guide takes from its cache is the verdict on the  *)
(* very bytes the request has just observed, though the verification was   *)
(* another request's and the files have been replaced since or during it.  *)
ServedAsObserved ==
  \A r \in Readers :
    visit[r].served # Nobody => \A f \in Files : visit[r].seen[f].is = visit[r].served

(* A listing evicts only what no longer describes the files: the entry of  *)
(* a run published and verified after the listing read the directory stays.*)
OnlyStaleIsForgotten ==
  [][\A r \in Readers, id \in Runs :
       /\ visit[r].at = "forgetting" /\ visit'[r].at # "forgetting"
       /\ memo[id].summary # Nobody /\ memo'[id] = NoEntry
       => memo[id].files # disk[id]]_repositoryVars
=============================================================================
