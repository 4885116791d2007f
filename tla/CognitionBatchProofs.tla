------------------------ MODULE CognitionBatchProofs -------------------------
(***************************************************************************)
(* What a cognition batch keeps, for every number of questions, limit and  *)
(* retry budget, in whatever order workers start, answer, fail and are cut *)
(* short.                                                                  *)
(***************************************************************************)
EXTENDS CognitionBatch, FiniteSetTheorems, TLAPS

Tasks == {"none", "ready", "calling", "backoff", "answered", "gaveup", "defect", "gone", "late"}

Stages == {"start", "running", "cancelling", "expired", "closing", "publishing", "returned",
           "raised"}

BatchTyped ==
  /\ stage \in Stages
  /\ online \in BOOLEAN /\ cancelled \in BOOLEAN
  /\ task \in [Question -> Tasks]
  /\ attempts \in [Question -> Nat]
  /\ retriesLeft \in [Question -> 0..Transient]
  /\ repairsLeft \in [Question -> 0..Repairs]
  /\ resolved \in [Question -> {"open", "rules", "skipped", "cache", "provider", "fallback"}]
  /\ reported \in Int
  /\ ending \in {"none", "ok", "cancelled", "defect"}
  /\ cache \subseteq Funded

Calling == {q \in Question : task[q] = "calling"}

(* A worker about to call has paid for every call it made; one that is     *)
(* calling, or was, may still owe its first.                               *)
Spent(q) == (Transient - retriesLeft[q]) + (Repairs - repairsLeft[q])

AccountsInOrder ==
  /\ \A q \in Question :
       IF task[q] \in {"none", "ready", "backoff"} THEN attempts[q] <= Spent(q)
       ELSE attempts[q] <= 1 + Spent(q)
  /\ Cardinality(Calling) <= Limit

(* A worker exists for a funded question alone, an outcome is read from a  *)
(* worker that has ended, and what the cache holds of a question that has  *)
(* a worker is that worker's answer.                                       *)
WorkersInOrder ==
  \A q \in Question :
    /\ task[q] # "none" => q \in Funded /\ online /\ stage # "start"
    /\ task[q] \in {"ready", "calling", "backoff"} => resolved[q] = "open"
    /\ resolved[q] = "provider" => task[q] = "answered"
    /\ resolved[q] = "fallback" => task[q] # "none"
    /\ q \in cache /\ task[q] # "none" => resolved[q] = "provider"

(* Between the scan and the close every funded question has either a       *)
(* worker or a cached answer, and no other has either.                     *)
Scanned ==
  \A q \in Question :
    /\ q \notin Funded <=> resolved[q] = "skipped"
    /\ q \in Funded => (task[q] = "none" <=> resolved[q] = "cache")
    /\ resolved[q] # "rules"

StagesInOrder ==
  /\ stage = "start" =>
       /\ reported = 0 /\ ending = "none"
       /\ \A q \in Question : resolved[q] = "open"
  /\ ~ online => reported = 0
  /\ stage \in {"running", "cancelling", "expired"} => online /\ Scanned
  /\ stage = "running" =>
       /\ reported = Cardinality({q \in Funded : resolved[q] # "open"})
       /\ \A q \in Question : task[q] = "gone" => cancelled
       /\ \A q \in Question : task[q] # "late"
  /\ stage = "cancelling" => ending \in {"cancelled", "defect"}
  /\ stage = "expired" => ending = "ok"
  /\ stage \in {"closing", "publishing", "returned", "raised"} =>
       /\ ending # "none"
       /\ Alive # {} => cancelled /\ ending # "ok"
       /\ ending = "ok" /\ online => reported = Cardinality(Funded) /\ Open = {}
  /\ stage \in {"publishing", "returned"} => ending = "ok"

BatchInOrder == BatchTyped /\ AccountsInOrder /\ WorkersInOrder /\ StagesInOrder

-----------------------------------------------------------------------------
LEMMA QuestionsFinite ==
  /\ IsFiniteSet(Question)
  /\ \A S \in SUBSET Question : IsFiniteSet(S) /\ Cardinality(S) \in Nat
<1>1. IsFiniteSet(Question)
  BY FS_Interval, BatchAssumption DEF Question
<1> QED
  BY <1>1, FS_Subset, FS_CardinalityType

(* Two sets with nothing in common, as the counts of progress need them. *)
LEMMA CountsAdd ==
  ASSUME NEW S \in SUBSET Question, NEW T \in SUBSET Question, S \cap T = {}
  PROVE  Cardinality(S \cup T) = Cardinality(S) + Cardinality(T)
<1>1. Cardinality(S \cap T) = 0
  BY FS_EmptySet
<1>2. Cardinality(S \cup T) = Cardinality(S) + Cardinality(T) - Cardinality(S \cap T)
  BY QuestionsFinite, FS_Union
<1> QED
  BY <1>1, <1>2, QuestionsFinite

(* Publish takes the first question in canonical order: there is one. *)
LEMMA LeastQuestion ==
  ASSUME NEW S \in SUBSET Question, S # {}
  PROVE  \E q \in S : \A r \in S : q <= r
<1> DEFINE less == OpToRel(<, Nat)
<1>1. \A i, j \in Nat : <<j, i>> \in less <=> j < i
  BY DEF OpToRel
<1>2. IsWellFoundedOn(less, Nat)
  BY NatLessThanWellFounded
<1> HIDE DEF less
<1>3. S \subseteq Nat
  BY DEF Question
<1>4. PICK q \in S : \A r \in S : ~ (<<r, q>> \in less)
  BY <1>2, <1>3, WFMin
<1>5. \A r \in S : ~ (r < q) /\ r \in Nat /\ q \in Nat
  BY <1>1, <1>3, <1>4
<1>6. \A r \in S : q <= r
  BY <1>5
<1> QED
  BY <1>6

LEMMA BatchStarts == Init => BatchInOrder
<1> SUFFICES ASSUME Init PROVE BatchInOrder
  OBVIOUS
<1> USE BatchAssumption DEF Init
<1>1. BatchTyped
  <2>1. retriesLeft \in [Question -> 0..Transient] /\ repairsLeft \in [Question -> 0..Repairs]
    OBVIOUS
  <2>2. /\ task \in [Question -> Tasks] /\ stage \in Stages
        /\ attempts \in [Question -> Nat]
    BY DEF Stages, Tasks
  <2>3. /\ resolved \in [Question -> {"open", "rules", "skipped", "cache", "provider", "fallback"}]
        /\ reported \in Int
    OBVIOUS
  <2>4. cache \subseteq Funded /\ online \in BOOLEAN /\ cancelled \in BOOLEAN
    BY Zenon
  <2>5. ending \in {"none", "ok", "cancelled", "defect"}
    OBVIOUS
  <2> QED
    BY <2>1, <2>2, <2>3, <2>4, <2>5, Zenon DEF BatchTyped
<1>2. AccountsInOrder
  <2>1. Calling = {}
    BY DEF Calling
  <2>2. Cardinality(Calling) <= Limit
    BY <2>1, FS_EmptySet
  <2> QED
    BY <2>2 DEF AccountsInOrder, Spent
<1>3. WorkersInOrder
  BY DEF WorkersInOrder
<1>4. StagesInOrder
  BY DEF StagesInOrder
<1> QED
  BY <1>1, <1>2, <1>3, <1>4 DEF BatchInOrder

(* A step of one worker that is under way. *)
LEMMA WorkerMoves ==
  ASSUME BatchInOrder, NEW q \in Alive, NEW t \in Tasks \ {"none"}, Becomes(q, t),
         UNCHANGED batch,
         attempts' \in [Question -> Nat],
         retriesLeft' \in [Question -> 0..Transient],
         repairsLeft' \in [Question -> 0..Repairs],
         \A p \in Question \ {q} : /\ attempts'[p] = attempts[p]
                                   /\ retriesLeft'[p] = retriesLeft[p]
                                   /\ repairsLeft'[p] = repairsLeft[p],
         t \in {"ready", "backoff"} => attempts'[q] <= Spent(q)',
         attempts'[q] <= 1 + Spent(q)',
         t = "calling" => SlotFree,
         t = "gone" /\ stage = "running" => cancelled,
         t = "late" => stage # "running"
  PROVE  BatchInOrder'
<1> USE DEF BatchInOrder, Becomes, batch
<1>1. q \in Question /\ task[q] \in {"ready", "calling", "backoff"}
  BY DEF Alive
<1>2. \A p \in Question : task'[p] = IF p = q THEN t ELSE task[p]
  BY <1>1 DEF BatchTyped
<1>3. BatchTyped'
  BY <1>1 DEF BatchTyped
<1>4. AccountsInOrder'
  <2>1. ASSUME NEW p \in Question
        PROVE  IF task'[p] \in {"none", "ready", "backoff"} THEN attempts'[p] <= Spent(p)'
               ELSE attempts'[p] <= 1 + Spent(p)'
    BY <1>2 DEF AccountsInOrder, Spent
  <2>2. Cardinality(Calling') <= Limit
    <3>1. Calling \in SUBSET Question /\ Calling' \in SUBSET Question /\ Limit \in Nat
      BY BatchAssumption DEF Calling
    <3>2. CASE t = "calling"
      <4>1. Calling' = Calling \cup {q}
        BY <1>1, <1>2, <3>2 DEF Calling
      <4>2. Cardinality(Calling) < Limit
        BY <3>2 DEF SlotFree, Calling
      <4>3. Cardinality(Calling \cup {q}) <= Cardinality(Calling) + 1
        BY <3>1, QuestionsFinite, FS_AddElement
      <4> QED
        BY <3>1, <4>1, <4>2, <4>3, QuestionsFinite
    <3>3. CASE t # "calling"
      <4>1. Calling' \subseteq Calling
        BY <1>2, <3>3 DEF Calling
      <4>2. Cardinality(Calling') <= Cardinality(Calling)
        BY <3>1, <4>1, QuestionsFinite, FS_Subset
      <4> QED
        BY <3>1, <4>2, QuestionsFinite DEF AccountsInOrder
    <3> QED
      BY <3>2, <3>3
  <2> QED
    BY <2>1, <2>2 DEF AccountsInOrder
<1>5. WorkersInOrder'
  BY <1>1, <1>2 DEF WorkersInOrder
<1>6. StagesInOrder'
  <2>1. Open' = Open
    BY DEF Open
  <2>2. Scanned => Scanned'
    BY <1>1, <1>2 DEF Scanned
  <2>3. stage # "start"
    BY <1>1 DEF WorkersInOrder
  <2>4. Alive # {}
    OBVIOUS
  <2> QED
    BY <1>2, <2>1, <2>2, <2>3, <2>4 DEF StagesInOrder
<1> QED
  BY <1>3, <1>4, <1>5, <1>6

LEMMA WorkKeeps ==
  ASSUME BatchInOrder, NEW q \in Question, Work(q) \/ Unwinds(q) \/ Teardown(q)
  PROVE  BatchInOrder'
<1> USE BatchAssumption
<1>1. /\ attempts \in [Question -> Nat]
      /\ retriesLeft \in [Question -> 0..Transient]
      /\ repairsLeft \in [Question -> 0..Repairs]
  BY DEF BatchInOrder, BatchTyped
<1>2. /\ task[q] \in {"ready", "backoff"} => attempts[q] <= Spent(q)
      /\ attempts[q] <= 1 + Spent(q) /\ Spent(q) \in Nat
  BY <1>1 DEF BatchInOrder, AccountsInOrder, Spent
<1>3. CASE Call(q)
  <2>1. /\ q \in Alive /\ Becomes(q, "calling") /\ UNCHANGED batch /\ SlotFree
        /\ attempts' = [attempts EXCEPT ![q] = @ + 1]
        /\ UNCHANGED <<retriesLeft, repairsLeft>> /\ attempts[q] <= Spent(q)
    BY <1>2, <1>3 DEF Call, Alive
  <2>2. attempts'[q] <= 1 + Spent(q)'
    BY <1>1, <1>2, <2>1 DEF Spent
  <2> QED
    BY <1>1, <2>1, <2>2, WorkerMoves DEF Tasks
<1>4. ASSUME NEW t \in {"answered", "gaveup", "defect", "gone", "late"}, q \in Alive,
             Becomes(q, t), UNCHANGED <<batch, attempts, retriesLeft, repairsLeft>>,
             t = "gone" /\ stage = "running" => cancelled,
             t = "late" => stage # "running"
      PROVE  BatchInOrder'
  <2>1. attempts'[q] <= 1 + Spent(q)'
    BY <1>2, <1>4 DEF Spent
  <2> QED
    BY <1>1, <1>4, <2>1, WorkerMoves DEF Tasks
<1>5. CASE SeesCancellation(q)
  BY <1>4, <1>5 DEF SeesCancellation
<1>6. CASE Answer(q) \/ Defect(q)
  BY <1>4, <1>6 DEF Answer, Defect, Alive
<1>7. CASE AnswerInvalid(q)
  <2>1. q \in Alive /\ UNCHANGED <<batch, attempts, retriesLeft>>
    BY <1>7 DEF AnswerInvalid, Alive
  <2>2. CASE Becomes(q, "ready") /\ RepairAllowed(q)
             /\ repairsLeft' = [repairsLeft EXCEPT ![q] = @ - 1]
    <3>1. repairsLeft'[q] = repairsLeft[q] - 1 /\ repairsLeft[q] \in 1..Repairs
      BY <1>1, <2>2 DEF RepairAllowed
    <3>2. repairsLeft' \in [Question -> 0..Repairs]
      BY <1>1, <2>2, <3>1
    <3>3. attempts'[q] <= Spent(q)' /\ attempts'[q] <= 1 + Spent(q)'
      BY <1>1, <1>2, <2>1, <3>1 DEF Spent
    <3> QED
      BY <1>1, <2>1, <2>2, <3>2, <3>3, WorkerMoves DEF Tasks
  <2>3. CASE Becomes(q, "gaveup") /\ UNCHANGED repairsLeft
    BY <1>4, <2>1, <2>3
  <2> QED
    BY <1>7, <2>2, <2>3 DEF AnswerInvalid
<1>8. CASE CallFails(q)
  <2>1. q \in Alive /\ UNCHANGED <<batch, attempts, repairsLeft>>
    BY <1>8 DEF CallFails, Alive
  <2>2. CASE Becomes(q, "backoff") /\ RetryAllowed(q)
             /\ retriesLeft' = [retriesLeft EXCEPT ![q] = @ - 1]
    <3>1. retriesLeft'[q] = retriesLeft[q] - 1 /\ retriesLeft[q] \in 1..Transient
      BY <1>1, <2>2 DEF RetryAllowed
    <3>2. retriesLeft' \in [Question -> 0..Transient]
      BY <1>1, <2>2, <3>1
    <3>3. attempts'[q] <= Spent(q)' /\ attempts'[q] <= 1 + Spent(q)'
      BY <1>1, <1>2, <2>1, <3>1 DEF Spent
    <3> QED
      BY <1>1, <2>1, <2>2, <3>2, <3>3, WorkerMoves DEF Tasks
  <2>3. CASE Becomes(q, "gaveup") /\ UNCHANGED retriesLeft
    BY <1>4, <2>1, <2>3
  <2> QED
    BY <1>8, <2>2, <2>3 DEF CallFails
<1>9. CASE BackoffEnds(q)
  <2>1. /\ q \in Alive /\ Becomes(q, "ready") /\ task[q] = "backoff"
        /\ UNCHANGED <<batch, attempts, retriesLeft, repairsLeft>>
    BY <1>9 DEF BackoffEnds, Alive
  <2>2. attempts'[q] <= Spent(q)' /\ attempts'[q] <= 1 + Spent(q)'
    BY <1>1, <1>2, <2>1 DEF Spent
  <2> QED
    BY <1>1, <2>1, <2>2, WorkerMoves DEF Tasks
<1>10. CASE Unwinds(q)
  BY <1>4, <1>10 DEF Unwinds, CutShort
<1>11. CASE Teardown(q)
  BY <1>4, <1>11 DEF Teardown
<1> QED
  BY <1>3, <1>5, <1>6, <1>7, <1>8, <1>9, <1>10, <1>11 DEF Work

-----------------------------------------------------------------------------
(* The steps of resolve_many itself leave the workers and their accounts   *)
(* as they are, or hand each pending question its worker.                  *)
LEMMA AccountsRest ==
  ASSUME AccountsInOrder, UNCHANGED worker
  PROVE  AccountsInOrder'
BY DEF AccountsInOrder, worker, Spent, Calling

LEMMA ScanKeeps ==
  ASSUME BatchInOrder, Scan
  PROVE  BatchInOrder'
<1> DEFINE hits == cache \cap Funded
           pending == Funded \ hits
<1> USE DEF BatchInOrder
<1>1. /\ stage = "start" /\ online /\ ~ cancelled
      /\ resolved' = [q \in Question |-> CASE q \notin Funded -> "skipped"
                                           [] q \in hits -> "cache"
                                           [] OTHER -> "open"]
      /\ reported' = Cardinality(hits)
      /\ task' = [q \in Question |-> IF q \in pending THEN "ready" ELSE "none"]
      /\ \/ pending = {} /\ stage' = "closing" /\ ending' = "ok"
         \/ pending # {} /\ stage' = "running" /\ ending' = ending
      /\ UNCHANGED <<online, cancelled, attempts, retriesLeft, repairsLeft, cache>>
  BY DEF Scan
<1>2. hits \in SUBSET Question /\ Funded \in SUBSET Question
  BY BatchAssumption
<1>3. Cardinality(hits) \in Nat
  BY <1>2, QuestionsFinite
<1>4. \A q \in Question :
        /\ q \notin Funded => resolved'[q] = "skipped" /\ task'[q] = "none"
        /\ q \in hits => resolved'[q] = "cache" /\ task'[q] = "none"
        /\ q \in pending => resolved'[q] = "open" /\ task'[q] = "ready"
  BY <1>1
<1>5. \A q \in Question : q \notin Funded \/ q \in hits \/ q \in pending
  OBVIOUS
<1>6. BatchTyped'
  <2>1. task' \in [Question -> Tasks]
    BY <1>1 DEF Tasks
  <2>2. resolved' \in [Question -> {"open", "rules", "skipped", "cache", "provider", "fallback"}]
    BY <1>1
  <2> QED
    BY <1>1, <1>3, <2>1, <2>2 DEF BatchTyped, Stages
<1>7. AccountsInOrder'
  <2>1. Calling' = {}
    BY <1>4, <1>5 DEF Calling
  <2>2. Cardinality(Calling') <= Limit
    BY <2>1, FS_EmptySet, BatchAssumption
  <2>3. \A q \in Question : task[q] = "none"
    BY <1>1 DEF WorkersInOrder
  <2>4. ASSUME NEW q \in Question
        PROVE  task'[q] \in {"none", "ready"} /\ attempts'[q] <= Spent(q)'
    BY <1>1, <1>4, <1>5, <2>3 DEF AccountsInOrder, Spent
  <2> QED
    BY <2>2, <2>4 DEF AccountsInOrder
<1>8. WorkersInOrder'
  BY <1>1, <1>4, <1>5 DEF WorkersInOrder
<1>9. Scanned'
  BY <1>1, <1>4, <1>5 DEF Scanned
<1>10. {q \in Funded : resolved'[q] # "open"} = hits
  BY <1>2, <1>4
<1>11. ASSUME pending # {} PROVE StagesInOrder'
  <2>1. /\ stage' = "running" /\ ending' = ending /\ online'
        /\ reported' = Cardinality({q \in Funded : resolved'[q] # "open"})
    BY <1>1, <1>10, <1>11
  <2>2. \A q \in Question : task'[q] \in {"ready", "none"}
    BY <1>4, <1>5
  <2> HIDE DEF hits, pending
  <2> QED
    BY <1>9, <2>1, <2>2 DEF StagesInOrder
<1>12. ASSUME pending = {} PROVE StagesInOrder'
  <2>1. hits = Funded
    BY <1>12
  <2>2. Open' = {}
    BY <1>12, <1>4, <1>5 DEF Open
  <2>3. Alive' = {}
    BY <1>12, <1>4, <1>5 DEF Alive
  <2>4. online' /\ stage' = "closing" /\ ending' = "ok" /\ reported' = Cardinality(Funded)
    BY <1>1, <1>12, <2>1
  <2> HIDE DEF hits, pending
  <2> QED
    BY <2>2, <2>3, <2>4 DEF StagesInOrder
<1>13. StagesInOrder'
  BY <1>11, <1>12
<1> QED
  BY <1>6, <1>7, <1>8, <1>13

(* Outcomes read from workers that have ended. *)
LEMMA TakenKeeps ==
  ASSUME BatchInOrder, Scanned, NEW some \in SUBSET Ended,
         \A q \in some : task[q] \in {"answered", "gaveup", "gone"},
         Taken(some), UNCHANGED <<worker, cache, online, cancelled>>, stage # "start"
  PROVE  /\ resolved' \in [Question -> {"open", "rules", "skipped", "cache", "provider",
                                        "fallback"}]
         /\ AccountsInOrder' /\ Scanned' /\ Open' = Open \ some /\ Alive' = Alive
         /\ stage' # "start" => WorkersInOrder'
<1> USE DEF BatchInOrder
<1>1. /\ \A q \in some : q \in Question /\ resolved[q] = "open"
      /\ \A q \in Question : resolved'[q] = IF q \in some THEN Outcome(q) ELSE resolved[q]
      /\ \A q \in Question : Outcome(q) \in {"provider", "fallback"}
      /\ task' = task
  BY DEF Ended, Taken, Outcome, worker
<1>2. resolved' \in [Question -> {"open", "rules", "skipped", "cache", "provider", "fallback"}]
  BY <1>1 DEF Taken, BatchTyped
<1>3. AccountsInOrder'
  BY AccountsRest
<1>4. Scanned'
  BY <1>1 DEF Scanned
<1>5. Open' = Open \ some /\ Alive' = Alive
  BY <1>1 DEF Open, Alive
<1>6. stage' # "start" => WorkersInOrder'
  BY <1>1 DEF WorkersInOrder, Outcome
<1> QED
  BY <1>2, <1>3, <1>4, <1>5, <1>6

LEMMA CollectKeeps ==
  ASSUME BatchInOrder, Collect
  PROVE  BatchInOrder'
<1> USE DEF BatchInOrder
<1>1. /\ stage = "running" /\ Taken(Good) /\ reported' = reported + Cardinality(Good)
      /\ UNCHANGED <<online, cancelled, worker, cache>>
      /\ \/ stage' = "cancelling" /\ ending' \in {"cancelled", "defect"}
         \/ Open = Good /\ stage' = "closing" /\ ending' = "ok"
         \/ stage' = "running" /\ ending' = ending
  BY DEF Collect
<1>2. online /\ Scanned
  BY <1>1 DEF StagesInOrder
<1>3. Good \in SUBSET Ended /\ \A q \in Good : task[q] \in {"answered", "gaveup"}
  <2>1. ASSUME NEW q \in Good PROVE task[q] \in {"answered", "gaveup"}
    BY <2>1, BatchAssumption DEF Good, Ended, Question
  <2> QED
    BY <2>1 DEF Good
<1>4. /\ resolved' \in [Question -> {"open", "rules", "skipped", "cache", "provider", "fallback"}]
      /\ AccountsInOrder' /\ Scanned' /\ Open' = Open \ Good /\ Alive' = Alive
      /\ WorkersInOrder'
  BY <1>1, <1>2, <1>3, TakenKeeps
<1>5. Good \in SUBSET Question /\ Funded \in SUBSET Question /\ Good \subseteq Funded
  BY <1>2, <1>3, BatchAssumption DEF Ended, Scanned
<1>6. BatchTyped'
  BY <1>1, <1>4, <1>5, QuestionsFinite DEF BatchTyped, worker, Stages
<1>7. reported' = Cardinality({q \in Funded : resolved'[q] # "open"})
  <2> DEFINE was == {q \in Funded : resolved[q] # "open"}
  <2>1. was \in SUBSET Question /\ was \cap Good = {}
    BY <1>3, <1>5 DEF Ended
  <2>2. {q \in Funded : resolved'[q] # "open"} = was \cup Good
    BY <1>1, <1>3, <1>5 DEF Taken, Outcome
  <2>3. reported = Cardinality(was)
    BY <1>1 DEF StagesInOrder
  <2> HIDE DEF was
  <2> QED
    BY <1>1, <1>5, <2>1, <2>2, <2>3, CountsAdd
<1>8. StagesInOrder'
  <2>1. CASE stage' = "closing" /\ Open = Good
    <3>1. Open' = {}
      BY <1>4, <2>1
    <3>2. {q \in Funded : resolved'[q] # "open"} = Funded
      BY <1>5, <3>1, BatchAssumption DEF Open
    <3>3. Alive = {}
      BY <1>3, <2>1 DEF Alive, Open, WorkersInOrder
    <3> QED
      BY <1>1, <1>4, <1>7, <2>1, <3>1, <3>2, <3>3 DEF StagesInOrder
  <2>2. CASE stage' # "closing"
    BY <1>1, <1>2, <1>4, <1>7, <2>2 DEF StagesInOrder, worker
  <2> QED
    BY <1>1, <2>1, <2>2
<1> QED
  BY <1>4, <1>6, <1>8

LEMMA DeadlineKeeps ==
  ASSUME BatchInOrder, Deadline
  PROVE  BatchInOrder'
<1> USE DEF BatchInOrder
<1>1. /\ stage = "running" /\ UNCHANGED <<online, cancelled, worker, reported, cache>>
  BY DEF Deadline
<1>2. online /\ Scanned
  BY <1>1 DEF StagesInOrder
<1>3. CASE /\ \E q \in Ended : task[q] = "gone"
           /\ stage' = "closing" /\ ending' = "cancelled" /\ UNCHANGED resolved
  <2>1. cancelled
    BY <1>1, <1>3 DEF StagesInOrder, Ended
  <2>2. BatchTyped' /\ AccountsInOrder' /\ WorkersInOrder'
    BY <1>1, <1>3, AccountsRest DEF BatchTyped, Stages, WorkersInOrder, worker
  <2>3. StagesInOrder'
    BY <1>1, <1>2, <1>3, <2>1 DEF StagesInOrder
  <2> QED
    BY <2>2, <2>3
<1>4. CASE /\ ~ \E q \in Ended : task[q] = "gone"
           /\ Taken({q \in Ended : task[q] # "defect"})
           /\ stage' = "expired" /\ ending' = "ok"
  <2> DEFINE some == {q \in Ended : task[q] # "defect"}
  <2>1. some \in SUBSET Ended /\ \A q \in some : task[q] \in {"answered", "gaveup", "gone"}
    BY DEF Ended
  <2>2. /\ resolved' \in [Question -> {"open", "rules", "skipped", "cache", "provider",
                                       "fallback"}]
        /\ AccountsInOrder' /\ Scanned' /\ WorkersInOrder'
    BY <1>1, <1>2, <1>4, <2>1, TakenKeeps
  <2>3. BatchTyped'
    BY <1>1, <1>4, <2>2 DEF BatchTyped, worker, Stages
  <2>4. StagesInOrder'
    BY <1>1, <1>2, <1>4, <2>2 DEF StagesInOrder
  <2> QED
    BY <2>2, <2>3, <2>4
<1> QED
  BY <1>3, <1>4 DEF Deadline, DeadlineStage

(* At the end of the deadline every question with a worker gets an outcome *)
(* and the reports come to the funded ones, whatever was reported before.  *)
LEMMA ExpiryEndsKeeps ==
  ASSUME BatchInOrder, ExpiryEnds
  PROVE  BatchInOrder'
<1> USE DEF BatchInOrder
<1>1. /\ stage = "expired" /\ stage' = "closing" /\ Alive = {}
      /\ UNCHANGED <<online, cancelled, worker, cache>>
      /\ task' = task /\ Alive' = {}
  BY DEF ExpiryEnds, worker, Alive
<1>2. online /\ Scanned /\ ending = "ok"
  BY <1>1 DEF StagesInOrder
<1>3. AccountsInOrder'
  BY <1>1, AccountsRest
<1>4. CASE ending' = "defect" /\ UNCHANGED <<resolved, reported>>
  <2>1. BatchTyped' /\ WorkersInOrder'
    BY <1>1, <1>4 DEF BatchTyped, Stages, WorkersInOrder, worker
  <2>2. StagesInOrder'
    BY <1>1, <1>2, <1>4 DEF StagesInOrder
  <2> QED
    BY <1>3, <2>1, <2>2
<1>5. CASE /\ resolved' = [q \in Question |-> IF q \in Open THEN Fill(q) ELSE resolved[q]]
           /\ reported' = reported + Unreported
           /\ UNCHANGED ending
  <2> DEFINE manned == {q \in Question : task[q] # "none"}
             cached == {q \in Question : resolved[q] = "cache"}
  <2>1. \A q \in Question : resolved'[q] = IF resolved[q] = "open" THEN "fallback"
                                           ELSE resolved[q]
    BY <1>5 DEF Open, Fill
  <2>2. /\ manned \in SUBSET Question /\ cached \in SUBSET Question
        /\ manned \cap cached = {} /\ manned \cup cached = Funded
    <3>1. \A q \in Question : q \in Funded <=> (task[q] # "none" \/ resolved[q] = "cache")
      BY <1>2 DEF Scanned, WorkersInOrder
    <3>2. \A q \in Question : ~ (task[q] # "none" /\ resolved[q] = "cache")
      BY <1>2 DEF Scanned, WorkersInOrder
    <3> QED
      BY <3>1, <3>2, BatchAssumption
  <2>3. reported' = Cardinality(Funded)
    <3>1. Cardinality(Funded) = Cardinality(manned) + Cardinality(cached)
      BY <2>2, CountsAdd
    <3>2. /\ Cardinality(manned) \in Nat /\ Cardinality(cached) \in Nat /\ reported \in Int
      BY <2>2, QuestionsFinite DEF BatchTyped
    <3>3. reported' = reported + (Cardinality(manned) - (reported - Cardinality(cached)))
      BY <1>5 DEF Unreported
    <3> HIDE DEF manned, cached
    <3> QED
      BY <3>1, <3>2, <3>3
  <2>4. Cardinality(Funded) \in Int
    BY QuestionsFinite, BatchAssumption
  <2>5. resolved' \in [Question -> {"open", "rules", "skipped", "cache", "provider", "fallback"}]
    BY <1>5 DEF Fill, BatchTyped
  <2>6. BatchTyped'
    BY <1>1, <1>5, <2>3, <2>4, <2>5 DEF BatchTyped, Stages, worker
  <2>7. WorkersInOrder'
    <3>1. \A q \in Question : resolved[q] = "open" => task[q] # "none"
      BY <1>2 DEF Scanned
    <3> QED
      BY <1>1, <2>1, <3>1 DEF WorkersInOrder, Alive
  <2>8. Open' = {}
    BY <2>1 DEF Open
  <2>9. StagesInOrder'
    BY <1>1, <1>2, <1>5, <2>3, <2>8 DEF StagesInOrder
  <2> QED
    BY <1>3, <2>6, <2>7, <2>9
<1> QED
  BY <1>4, <1>5 DEF ExpiryEnds

(* The other steps change neither a worker nor an outcome. *)
LEMMA LoopKeeps ==
  ASSUME BatchInOrder, Loop \/ Cancel
  PROVE  BatchInOrder'
<1> USE DEF BatchInOrder
<1>1. CASE ResolveOffline
  <2>1. /\ stage = "start" /\ ~ online /\ stage' = "closing" /\ ending' = "ok"
        /\ \A q \in Question : resolved'[q] = "rules" /\ task[q] = "none"
        /\ resolved' \in [Question -> {"open", "rules", "skipped", "cache", "provider",
                                       "fallback"}]
        /\ UNCHANGED <<online, cancelled, worker, reported, cache>>
    BY <1>1 DEF ResolveOffline, WorkersInOrder
  <2>2. BatchTyped' /\ AccountsInOrder' /\ WorkersInOrder'
    BY <2>1, AccountsRest DEF BatchTyped, Stages, WorkersInOrder, worker
  <2>3. Alive' = {}
    BY <2>1 DEF Alive, worker
  <2> QED
    BY <2>1, <2>2, <2>3 DEF StagesInOrder
<1>2. ASSUME UNCHANGED <<online, worker, resolved, reported>>, stage' = "start" => stage = "start",
             stage' \in Stages, ending' \in {"none", "ok", "cancelled", "defect"},
             cancelled' \in {cancelled, TRUE},
             cache' = cache \/ \E q \in Fresh : cache' = cache \cup {q}
      PROVE  /\ BatchTyped' /\ AccountsInOrder' /\ WorkersInOrder'
             /\ Open' = Open /\ Alive' = Alive /\ (Scanned => Scanned')
  <2>1. \A q \in Fresh : q \in Funded /\ resolved[q] = "provider"
    BY DEF Fresh, WorkersInOrder
  <2>2. BatchTyped'
    BY <1>2, <2>1 DEF BatchTyped, worker
  <2>3. WorkersInOrder'
    BY <1>2, <2>1 DEF WorkersInOrder, worker
  <2> QED
    BY <1>2, <2>2, <2>3, AccountsRest DEF Open, Alive, Scanned, worker
<1>3. CASE Cancel
  <2>1. /\ UNCHANGED <<stage, online, worker, resolved, reported, ending, cache>> /\ cancelled'
        /\ stage' \in Stages /\ ending' \in {"none", "ok", "cancelled", "defect"}
    BY <1>3 DEF Cancel, BatchTyped
  <2>2. BatchTyped' /\ AccountsInOrder' /\ WorkersInOrder' /\ Open' = Open /\ Alive' = Alive
        /\ (Scanned => Scanned')
    BY <1>2, <1>3, <2>1 DEF Cancel
  <2> QED
    BY <2>1, <2>2 DEF StagesInOrder, worker
<1>4. CASE \/ CancelBatch \/ CancellingEnds \/ Close \/ PublishCancelled
           \/ Return \/ Publish \/ Refused
  <2>1. /\ UNCHANGED <<online, worker, resolved, reported, cancelled>>
        /\ stage' \in Stages \ {"start", "running", "expired"}
        /\ ending' \in {"ok", "cancelled", "defect"}
        /\ \/ stage = "start" /\ stage' = "closing" /\ ending' # "ok"
           \/ stage = "running" /\ stage' = "cancelling" /\ ending' # "ok"
           \/ stage = "cancelling" /\ stage' = "closing" /\ Alive = {} /\ ending' # "ok"
           \/ stage = "closing" /\ stage' = "publishing" /\ ending = "ok" /\ ending' = "ok"
           \/ stage \in {"closing", "publishing"} /\ stage' = "raised" /\ ending' # "ok"
           \/ stage = "publishing" /\ stage' \in {"publishing", "returned"} /\ ending' = ending
    BY <1>4 DEF CancelBatch, CancellingEnds, Close, PublishCancelled, Return, Publish, Refused,
                BatchTyped, Stages, StagesInOrder
  <2>2. cache' = cache \/ \E q \in Fresh : cache' = cache \cup {q}
    <3>1. CASE Publish
      <4>1. PICK q \in Fresh : cache' = cache \cup {q} \/ cache' = cache
        <5> DEFINE q == CHOOSE p \in Fresh : \A r \in Fresh : p <= r
        <5>1. cache' = cache \cup {q} \/ cache' = cache
          BY <3>1 DEF Publish
        <5>2. \E p \in Fresh : \A r \in Fresh : p <= r
          BY <3>1, LeastQuestion DEF Publish, Fresh
        <5>3. q \in Fresh
          BY <5>2
        <5> HIDE DEF q
        <5> QED
          BY <5>1, <5>3
      <4> QED
        BY <4>1
    <3> QED
      BY <1>4, <3>1 DEF CancelBatch, CancellingEnds, Close, PublishCancelled, Return, Refused
  <2>3. /\ BatchTyped' /\ AccountsInOrder' /\ WorkersInOrder'
        /\ Open' = Open /\ Alive' = Alive /\ (Scanned => Scanned')
    BY <1>2, <2>1, <2>2
  <2>4. StagesInOrder'
    <3>1. /\ ~ online' => reported' = 0
          /\ stage' = "cancelling" => online' /\ Scanned' /\ ending' \in {"cancelled", "defect"}
      BY <2>1, <2>3 DEF StagesInOrder
    <3>2. stage' \in {"closing", "raised"} /\ ending' # "ok" =>
            (Alive' # {} => cancelled')
      <4>1. stage = "start" => Alive = {}
        BY DEF WorkersInOrder, Alive
      <4>2. stage \in {"closing", "publishing"} /\ Alive # {} => cancelled
        BY DEF StagesInOrder
      <4> QED
        BY <2>1, <2>3, <4>1, <4>2
    <3>3. ending' = "ok" => ending = "ok" /\ stage \in {"closing", "publishing"}
      BY <2>1 DEF StagesInOrder
    <3> QED
      BY <2>1, <2>3, <3>1, <3>2, <3>3 DEF StagesInOrder
  <2> QED
    BY <2>3, <2>4
<1> QED
  BY <1>1, <1>3, <1>4, ScanKeeps, CollectKeeps, ExpiryEndsKeeps DEF Loop

LEMMA BatchAlwaysInOrder == Spec => []BatchInOrder
<1>1. BatchInOrder /\ [Next]_vars => BatchInOrder'
  <2> SUFFICES ASSUME BatchInOrder, [Next]_vars PROVE BatchInOrder'
    OBVIOUS
  <2>1. CASE UNCHANGED vars
    BY <2>1 DEF vars, worker, batch, BatchInOrder, BatchTyped, AccountsInOrder, WorkersInOrder,
                StagesInOrder, Spent, Calling, Scanned, Open, Alive
  <2> QED
    BY <2>1, WorkKeeps, LoopKeeps, DeadlineKeeps DEF Next
<1> QED
  BY <1>1, BatchStarts, PTL DEF Spec

-----------------------------------------------------------------------------
(* No question is ever asked more often than its retries and repairs pay   *)
(* for, and no more than Limit calls are in flight, in whatever order the  *)
(* workers start, fail, wait and are cut short (_AttemptState, the         *)
(* semaphore of _invoke_provider).                                         *)
THEOREM CallsAlwaysBounded == Spec => []CallsAreBounded
<1>1. BatchInOrder => CallsAreBounded
  <2> SUFFICES ASSUME BatchInOrder PROVE CallsAreBounded
    OBVIOUS
  <2>1. ASSUME NEW q \in Question
        PROVE  /\ attempts[q] <= 1 + (Transient - retriesLeft[q]) + (Repairs - repairsLeft[q])
               /\ retriesLeft[q] >= 0 /\ repairsLeft[q] >= 0
    <3>1. attempts[q] \in Nat /\ retriesLeft[q] \in 0..Transient /\ repairsLeft[q] \in 0..Repairs
      BY DEF BatchInOrder, BatchTyped
    <3>2. attempts[q] <= 1 + Spent(q)
      BY <3>1, BatchAssumption DEF BatchInOrder, AccountsInOrder, Spent
    <3> QED
      BY <3>1, <3>2, BatchAssumption DEF Spent
  <2> QED
    BY <2>1 DEF CallsAreBounded, BatchInOrder, AccountsInOrder, Calling
<1> QED
  BY <1>1, BatchAlwaysInOrder, PTL

(* The progress a job shows is the number of funded questions with an      *)
(* outcome, and comes to all of them, each once, however the deadline      *)
(* divides them (_run_provider_batch).                                     *)
THEOREM ProgressAlwaysExact == Spec => []ProgressIsExact
<1>1. BatchInOrder => ProgressIsExact
  BY DEF BatchInOrder, StagesInOrder, ProgressIsExact
<1> QED
  BY <1>1, BatchAlwaysInOrder, PTL

(* An answer that comes while the workers unwind is no provider outcome,   *)
(* and no fallback is ever cached.                                         *)
THEOREM OnlyTimelyAnswersEverCount == Spec => []OnlyTimelyAnswersCount
<1>1. BatchInOrder => OnlyTimelyAnswersCount
  BY DEF BatchInOrder, WorkersInOrder, OnlyTimelyAnswersCount
<1> QED
  BY <1>1, BatchAlwaysInOrder, PTL

(* Only a cancelled run can leave a worker behind, and then it returns no  *)
(* evaluation.                                                             *)
THEOREM NoWorkerEverOutlivesItsBatch == Spec => []NoWorkerOutlivesItsBatch
<1>1. BatchInOrder => NoWorkerOutlivesItsBatch
  BY DEF BatchInOrder, StagesInOrder, NoWorkerOutlivesItsBatch
<1> QED
  BY <1>1, BatchAlwaysInOrder, PTL
=============================================================================
