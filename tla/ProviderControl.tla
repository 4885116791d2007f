--------------------------- MODULE ProviderControl ---------------------------
(***************************************************************************)
(* WorkbenchProviderService: compatibility checks and credential writes    *)
(* for the revisions of one remote provider origin, each holding the       *)
(* shared arbiter's lease for as long as it runs, and the registry of      *)
(* check results that a bounded job later relies on.                       *)
(*                                                                         *)
(* The credential store resolves a revision to the key held in memory for  *)
(* the origin, else to the keyring entry of the exact revision, else to    *)
(* the environment's key.  A record remembers, as history, the key the     *)
(* check resolved.                                                         *)
(***************************************************************************)
EXTENDS OperationArbiter, FiniteSets

CONSTANTS Checks,      \* owners that are compatibility checks
          Writes,      \* owners that are credential writes
          Revisions,   \* profile revisions of the origin
          Key,         \* provider keys
          NoKey,       \* no key is available
          EnvKey,      \* what the environment variable holds, NoKey if unset
          Scopes       \* effect scopes (with their contract) a check may vouch for

ASSUME ProviderAssumption ==
  /\ Checks \subseteq Owner
  /\ Writes \subseteq Owner \ Checks
  /\ NoKey \notin Key
  /\ EnvKey \in Key \cup {NoKey}
  /\ "explanation" \in Scopes

VARIABLES known,      \* revisions the profile registry lists
          session,    \* the key held in memory for the origin
          ring,       \* the keyring entry of each revision
          records,    \* the compatibility registry
          shownCheck, \* _last_checks: what the provider list shows
          check,      \* each check: step, target, key, result
          write       \* each write: step, target, revisions it found stale

credentials == <<session, ring>>
results == <<records, shownCheck>>
providerVars == <<known, credentials, results, check, write>>

NoRecord == [status |-> "none", key |-> NoKey]

Statuses == {"compatible", "incompatible", "unavailable"}

Record == [status : Statuses, key : Key \cup {NoKey}]

Idle == [step |-> "idle"]
Done == [step |-> "done"]

Resolve(r) ==
  IF session # NoKey THEN session
  ELSE IF ring[r] # NoKey THEN ring[r]
  ELSE EnvKey

ProviderInit ==
  /\ known = {}
  /\ session = NoKey
  /\ ring = [r \in Revisions |-> NoKey]
  /\ records = [r \in Revisions |-> [s \in Scopes |-> NoRecord]]
  /\ shownCheck = [r \in Revisions |-> NoRecord]
  /\ check = [c \in Checks |-> Idle]
  /\ write = [w \in Writes |-> Idle]

CheckAt(c, step) == check[c].step = step

WriteAt(w, step) == write[w].step = step

-----------------------------------------------------------------------------
(* create: a new immutable revision, under no lease at all. *)
Create(r) ==
  /\ r \notin known
  /\ known' = known \cup {r}
  /\ UNCHANGED <<arbiter, credentials, results, check, write>>

(* check takes the lease and, with it, a start of the rate window; only    *)
(* then is the revision loaded, and an unlisted one ends the check.        *)
CheckBegins(c, r, s) ==
  /\ CheckAt(c, "idle")
  /\ BeginCheck(c)
  /\ check' = [check EXCEPT ![c] = [step |-> IF r \in known THEN "bind" ELSE "settle",
                                    rev |-> r, scope |-> s, result |-> NoRecord,
                                    defect |-> FALSE]]
  /\ UNCHANGED <<known, credentials, results, write>>

(* Too many starts in the window: the check is refused before it has one. *)
CheckRefused ==
  /\ CheckRateLimited
  /\ UNCHANGED providerVars

(* The endpoint and the key are bound; without either the check is over    *)
(* with a result of its own.                                               *)
CheckBinds(c) ==
  /\ CheckAt(c, "bind")
  /\ LET key == Resolve(check[c].rev)
     IN  \/ /\ check' = [check EXCEPT ![c].step = "settle",
                            ![c].result = [status |-> "unavailable", key |-> key]]
         \/ /\ key # NoKey
            /\ check' = [check EXCEPT ![c].step = "call",
                            ![c].result = [status |-> "none", key |-> key]]
  /\ UNCHANGED <<arbiter, known, credentials, results, write>>

(* The bounded call: an answer, a provider error or the deadline, or a     *)
(* defect; a tripped token leaves no result.                               *)
CheckAnswers(c) ==
  /\ CheckAt(c, "call")
  /\ \/ /\ c \notin tripped
        /\ \E s \in {"compatible", "incompatible"} :
             check' = [check EXCEPT ![c].step = "cleanup", ![c].result.status = s]
     \/ check' = [check EXCEPT ![c].step = "cleanup", ![c].defect = TRUE]
     \/ /\ c \in tripped
        /\ check' = [check EXCEPT ![c].step = "cleanup"]
  /\ UNCHANGED <<arbiter, known, credentials, results, write>>

(* The request is abandoned while the check awaits: its own token trips.   *)
CheckAbandoned(c) ==
  /\ check[c].step \in {"call", "cleanup"}
  /\ check' = [check EXCEPT ![c].step = IF @ = "call" THEN "cleanup" ELSE "settle"]
  /\ tripped' = tripped \cup {c}
  /\ UNCHANGED <<active, opsClosed, issued, rate, known, credentials, results, write>>

(* The provider is closed; a failure to close it spoils the result. *)
CheckCleansUp(c) ==
  /\ CheckAt(c, "cleanup")
  /\ \E spoilt \in BOOLEAN :
       check' = [check EXCEPT ![c].step = "settle", ![c].defect = @ \/ spoilt]
  /\ UNCHANGED <<arbiter, known, credentials, results, write>>

(* A slip: a result is recorded although the check was cancelled.          *)
Counts_Cancelled(c) ==
  check[c].result.status \in Statuses /\ ~ check[c].defect

(* What may be recorded, decided under the lock that also ends the lease. *)
Counts(c) ==
  /\ check[c].result.status \in Statuses
  /\ ~ check[c].defect
  /\ c \notin tripped

CheckReleases(c) == Finish(c)

CheckSettles(c) ==
  /\ CheckAt(c, "settle")
  /\ LET r == check[c].rev
         s == check[c].scope
     IN  IF Counts(c)
         THEN /\ records' = [records EXCEPT ![r][s] = check[c].result]
              /\ shownCheck' = IF s = "explanation"
                               THEN [shownCheck EXCEPT ![r] = check[c].result]
                               ELSE shownCheck
         ELSE UNCHANGED results
  /\ CheckReleases(c)
  /\ check' = [check EXCEPT ![c] = Done]
  /\ UNCHANGED <<known, credentials, write>>

-----------------------------------------------------------------------------
(* store_credential takes the lease and loads the revision, *)
WriteBegins(w, r, remember) ==
  /\ WriteAt(w, "idle")
  /\ BeginPlain("credential", w)
  /\ write' = [write EXCEPT ![w] = [step |-> IF r \in known THEN "list" ELSE "end",
                                    rev |-> r, remember |-> remember, stale |-> {}]]
  /\ UNCHANGED <<known, credentials, results, check>>

(* A slip: a key held for the origin makes one revision's check stale. *)
Stale_OwnRevision(w) == {write[w].rev}

(* A held key serves every revision of the origin, a keyring entry one. *)
Stale(w) == IF write[w].remember THEN {write[w].rev} ELSE known

(* finds what it makes stale, unless the endpoint is refused, *)
WriteLists(w) ==
  /\ WriteAt(w, "list")
  /\ \/ write' = [write EXCEPT ![w].step = "invalidate", ![w].stale = Stale(w)]
     \/ write' = [write EXCEPT ![w].step = "end"]
  /\ UNCHANGED <<arbiter, known, credentials, results, check>>

Forgotten(w) ==
  [r \in Revisions |-> IF r \in write[w].stale THEN [s \in Scopes |-> NoRecord]
                       ELSE records[r]]

(* forgets those results under the lock, *)
WriteInvalidates(w) ==
  /\ WriteAt(w, "invalidate")
  /\ records' = Forgotten(w)
  /\ shownCheck' = [r \in Revisions |-> IF r \in write[w].stale THEN NoRecord
                                         ELSE shownCheck[r]]
  /\ write' = [write EXCEPT ![w].step = "store"]
  /\ UNCHANGED <<arbiter, known, credentials, check>>

(* and only then changes the key: the keyring may refuse, having written   *)
(* or not.                                                                 *)
WriteStores(w) ==
  /\ WriteAt(w, "store")
  /\ \/ \E k \in Key :
          IF write[w].remember
          THEN ring' = [ring EXCEPT ![write[w].rev] = k] /\ UNCHANGED session
          ELSE session' = k /\ UNCHANGED ring
     \/ UNCHANGED credentials
  /\ write' = [write EXCEPT ![w].step = "end"]
  /\ UNCHANGED <<arbiter, known, results, check>>

WriteEnds(w) ==
  /\ WriteAt(w, "end")
  /\ Finish(w)
  /\ write' = [write EXCEPT ![w] = Done]
  /\ UNCHANGED <<known, credentials, results, check>>

-----------------------------------------------------------------------------
(* When the server closes the keys held in memory are forgotten. *)
ForgetSession ==
  /\ opsClosed
  /\ session # NoKey
  /\ session' = NoKey
  /\ UNCHANGED <<arbiter, known, ring, results, check, write>>

CheckStep(c) == CheckBinds(c) \/ CheckAnswers(c) \/ CheckCleansUp(c) \/ CheckSettles(c)

WriteStep(w) == WriteLists(w) \/ WriteInvalidates(w) \/ WriteStores(w) \/ WriteEnds(w)

ProviderSteps ==
  \/ \E r \in Revisions : Create(r)
  \/ \E c \in Checks, r \in Revisions, s \in Scopes : CheckBegins(c, r, s)
  \/ CheckRefused
  \/ \E c \in Checks : CheckStep(c) \/ CheckAbandoned(c)
  \/ \E w \in Writes, r \in Revisions, b \in BOOLEAN : WriteBegins(w, r, b)
  \/ \E w \in Writes : WriteStep(w)

-----------------------------------------------------------------------------
(* While the server admits work, every recorded result speaks of the key   *)
(* its revision resolves to now: no write, failed write, new revision or   *)
(* late answer leaves a verdict on a key that is no longer the one used,   *)
(* and the provider list shows exactly what the registry holds.            *)
RecordsAreCurrent ==
  ~ opsClosed =>
    \A r \in Revisions :
      /\ \A s \in Scopes : records[r][s] # NoRecord => records[r][s].key = Resolve(r)
      /\ shownCheck[r] = records[r]["explanation"]

(* A result enters the registry only by a check that nobody cancelled,     *)
(* while it still holds the lease.                                         *)
CancelledChecksRecordNothing ==
  [][ \A r \in Revisions, s \in Scopes :
        records'[r][s] \notin {records[r][s], NoRecord} =>
          active.kind = "check" /\ active.owner \notin tripped ]_<<arbiter, providerVars>>

=============================================================================
