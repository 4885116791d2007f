--------------------------- MODULE CampaignLedger ----------------------------
(***************************************************************************)
(* What a campaign run with cognition promises, with no tasks, retries,    *)
(* pauses or keys: ticks are recorded whole and in order, and what answers *)
(* a request depends on the records, on the budget, on its place in the    *)
(* order of requests and on what the provider says of it, never on when    *)
(* anything happened.                                                      *)
(***************************************************************************)
EXTENDS Naturals, Sequences, FiniteSets

CONSTANTS Ticks,      \* how many ticks the run has
          TickOf,     \* the tick that causes each request, in request order
          AgentOf,    \* the agent each request is about
          PerAgent, Total

VARIABLES durable,    \* for every recorded tick, what answered its requests
          outcome,    \* "none", "running" or how the run was closed
          recorded    \* requests the cache answers

Request == DOMAIN TickOf

Batch(t) == {r \in Request : TickOf[r] = t}

Refusals == {"transient", "refused", "invalid"}

(* A request is charged when it is neither a record nor turned away. *)
Charged == {r \in Request : /\ TickOf[r] <= Len(durable)
                            /\ durable[TickOf[r]][r] \notin {"recorded", "exhausted"}}

OfAgent(S, r) == {q \in S : AgentOf[q] = AgentOf[r]}

(* The one set of requests the budget pays for: whoever comes earlier in   *)
(* the order of requests is served first.                                  *)
IsFunded(S, asking) ==
  /\ S \subseteq asking
  /\ \A r \in asking :
       LET before == Charged \cup {q \in S : q < r} IN
       r \in S <=> Cardinality(before) < Total /\ Cardinality(OfAgent(before, r)) < PerAgent

Asking(t) == Batch(t) \ recorded

Init == durable = <<>> /\ outcome = "none" /\ recorded \subseteq Request

Open == outcome = "none" /\ outcome' = "running" /\ UNCHANGED <<durable, recorded>>

(* What may answer the requests of tick t when the budget funds S. *)
Answered(a, S, t) ==
  /\ DOMAIN a = Batch(t)
  /\ \A r \in Batch(t) : CASE r \in recorded -> a[r] = "recorded"
                           [] r \in S -> a[r] \in {"provider"} \cup Refusals
                           [] OTHER -> a[r] = "exhausted"

Tick ==
  LET t == Len(durable) + 1 IN
  /\ outcome = "running" /\ t <= Ticks
  /\ Len(durable') = t /\ SubSeq(durable', 1, t - 1) = durable
  /\ \E S \in SUBSET Asking(t) : IsFunded(S, Asking(t)) /\ Answered(durable'[t], S, t)
  /\ recorded' = recorded \cup {r \in Batch(t) : durable'[t][r] = "provider"}
  /\ UNCHANGED outcome

(* An interrupted run leaves the cache as its last tick did; a run that    *)
(* fails while a tick commits may have recorded answers of that tick.      *)
Close ==
  /\ outcome = "running"
  /\ \/ outcome' = "completed" /\ Len(durable) = Ticks /\ recorded' = recorded
     \/ outcome' = "interrupted" /\ recorded' = recorded
     \/ /\ outcome' = "failed"
        /\ \E S \in SUBSET Asking(Len(durable) + 1) :
             /\ IsFunded(S, Asking(Len(durable) + 1))
             /\ recorded \subseteq recorded' /\ recorded' \subseteq recorded \cup S
  /\ UNCHANGED durable

Next == Open \/ Tick \/ Close

Spec == Init /\ [][Next]_<<durable, outcome, recorded>>
=============================================================================
