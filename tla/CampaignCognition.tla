------------------------- MODULE CampaignCognition ---------------------------
(***************************************************************************)
(* CognitionService over one campaign run: the requests of a tick are      *)
(* served from the cache, charged to the budget in request order, asked of *)
(* the provider under a semaphore with retries and one repair, and only    *)
(* then committed, in request order, with a fallback for what failed.      *)
(*                                                                         *)
(* A request is its position in request order; event identifiers are       *)
(* zero-padded, so that is the order of their strings.  What an answer     *)
(* says is left out: only where it came from is kept.                      *)
(***************************************************************************)
EXTENDS Naturals, Sequences, FiniteSets, SequencesExt

CONSTANTS Ticks,      \* ticks of the run
          TickOf,     \* the tick that causes each request
          AgentOf,    \* the agent of each request
          PerAgent, Total,   \* CognitionBudget
          Slots,      \* MAX_CONCURRENT_PROVIDER_CALLS
          Attempts    \* retries + 1

Request == DOMAIN TickOf
Agents == {AgentOf[r] : r \in Request}

ASSUME CampaignAssumption ==
  /\ {Ticks, PerAgent, Total} \subseteq Nat
  /\ Slots \in Nat \ {0} /\ Attempts \in Nat \ {0}
  /\ TickOf \in Seq(1..Ticks)
  /\ \A q, r \in Request : q < r => TickOf[q] <= TickOf[r]

VARIABLES cache,      \* requests with a record that can be trusted
          spent,      \* _spent: dispatches per agent over the whole run
          stage,      \* where each request of the open batch stands
          said        \* the provider's replies to it, oldest first

service == <<cache, spent, stage, said>>

ServiceInit ==
  /\ cache \in SUBSET Request
  /\ spent = [a \in Agents |-> 0]
  /\ stage = [r \in Request |-> "none"]
  /\ said = [r \in Request |-> <<>>]

Batch(t) == {r \in Request : TickOf[r] = t}

(* _cache_hit: a corrupt record, or one of another request, is a miss. *)
Hit(r) == r \in cache

SpentTotal == FoldFunction(+, 0, spent)

(* The requests in the order they came to hand, not sorted. *)
Reserved_Unsorted(asking) ==
  {n \in asking : /\ SpentTotal + Cardinality({q \in asking : q > n}) < Total
                  /\ spent[AgentOf[n]]
                       + Cardinality({q \in asking : q > n /\ AgentOf[q] = AgentOf[n]}) < PerAgent}

(* _reserve, for everyone in the batch before any task starts: the         *)
(* requests funded, walking the batch in request order.                    *)
Reserved(asking) ==
  LET Room(r, S) == /\ SpentTotal + Cardinality(S) < Total
                    /\ spent[AgentOf[r]] + Cardinality({q \in S : AgentOf[q] = AgentOf[r]}) < PerAgent
      upTo[n \in 0..Len(TickOf)] ==
        IF n = 0 THEN {}
        ELSE IF n \in asking /\ Room(n, upTo[n - 1]) THEN upTo[n - 1] \cup {n}
        ELSE upTo[n - 1]
  IN upTo[Len(TickOf)]

(* evaluate_many up to its task group, one uninterrupted stretch. *)
OpenBatch(t) ==
  LET funded == Reserved({r \in Batch(t) : ~ Hit(r)}) IN
  /\ stage' = [r \in Request |-> IF r \notin Batch(t) THEN "none"
                                 ELSE IF Hit(r) THEN "hit"
                                 ELSE IF r \in funded THEN "queued" ELSE "unfunded"]
  /\ spent' = [a \in Agents |-> spent[a] + Cardinality({r \in funded : AgentOf[r] = a})]
  /\ UNCHANGED <<cache, said>>

Holding == {r \in Request : stage[r] \in {"calling", "backoff", "unwinding"}}
Live == {r \in Request : stage[r] = "queued"} \cup Holding
Broken == \E r \in Request : stage[r] = "defect"

(* A call ends well, is retried after a delay, is repaired once if the     *)
(* answer was invalid, or is given up; anything that is no CognitionError  *)
(* escapes.  Retry delays are slept inside the semaphore.                  *)
Replies == {"ok", "transient", "refused", "invalid", "defect"}

Repaired(h) == \E i \in 1..(Len(h) - 1) : h[i] = "invalid"

AfterReply(h) ==
  IF Last(h) = "defect" THEN "defect"
  ELSE IF Last(h) = "ok" \/ Repaired(h) THEN "done"
  ELSE IF Last(h) = "invalid" THEN "calling"
  ELSE IF Last(h) = "transient" /\ Len(h) < Attempts THEN "backoff"
  ELSE "done"

TakeSlot(r) ==
  /\ stage[r] = "queued" /\ Cardinality(Holding) < Slots
  /\ stage' = [stage EXCEPT ![r] = "calling"]
  /\ UNCHANGED <<cache, spent, said>>

Reply(r) ==
  /\ stage[r] = "calling"
  /\ \E x \in Replies : LET h == Append(said[r], x) IN
       /\ said' = [said EXCEPT ![r] = h]
       /\ stage' = [stage EXCEPT ![r] = AfterReply(h)]
  /\ UNCHANGED <<cache, spent>>

Retry(r) ==
  /\ stage[r] = "backoff"
  /\ stage' = [stage EXCEPT ![r] = "calling"]
  /\ UNCHANGED <<cache, spent, said>>

(* TaskGroup: cancelling the parent or a defect in a child cancels every   *)
(* other child; one that is inside a call takes its time to unwind.        *)
AbortBatch ==
  /\ \E r \in Request : stage[r] \in {"queued", "calling", "backoff"}
  /\ stage' = [r \in Request |-> CASE stage[r] = "queued" -> "gone"
                                   [] stage[r] \in {"calling", "backoff"} -> "unwinding"
                                   [] OTHER -> stage[r]]
  /\ UNCHANGED <<cache, spent, said>>

Unwind(r) ==
  /\ stage[r] = "unwinding"
  /\ stage' = [stage EXCEPT ![r] = "gone"]
  /\ UNCHANGED <<cache, spent, said>>

(* A batch that cancels its tasks and does not wait for them. *)
GroupLeft_Unawaited == \A r \in Request : stage[r] \notin {"queued", "calling", "backoff"}

(* The task group leaves only when every child has ended. *)
GroupLeft == Live = {}

CallStep(r) == TakeSlot(r) \/ Reply(r) \/ Retry(r) \/ Unwind(r)

(* _commit: what answers r.  A fallback names the last failure. *)
Source(r) ==
  CASE stage[r] = "hit" -> "recorded"
    [] stage[r] = "unfunded" -> "exhausted"
    [] OTHER -> IF Last(said[r]) = "ok" THEN "provider" ELSE Last(said[r])

(* _store: only a fresh answer is recorded. *)
Storable(r) == stage[r] = "done" /\ Source(r) = "provider"

Stored(R) == cache \cup {r \in R : Storable(r)}

ClearBatch == /\ stage' = [r \in Request |-> "none"]
              /\ said' = [r \in Request |-> <<>>]
              /\ UNCHANGED spent

CommitBatch == cache' = Stored(Request) /\ ClearBatch

(* The commit stops at r, because its record cannot be written or because  *)
(* the rule formula cannot answer it; the answers before it are recorded.  *)
CommitStopsAt(r) ==
  /\ stage[r] \notin {"none", "hit"}
  /\ cache' = Stored({q \in Request : q < r})
  /\ ClearBatch
=============================================================================
