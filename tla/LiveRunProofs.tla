---------------------------- MODULE LiveRunProofs ----------------------------
(***************************************************************************)
(* What the dashboard's run keeps in order for every list of requests,     *)
(* every budget and number of slots, and whatever the keys do: no call     *)
(* outlives the run, the calls never outnumber the slots, and the run      *)
(* records what the ledger without tasks, retries and keys would.          *)
(***************************************************************************)
EXTENDS LiveRun, FiniteSetTheorems, WellFoundedInduction, SequenceTheorems, TLAPS

Stages == {"none", "hit", "unfunded", "queued", "calling", "backoff",
           "unwinding", "defect", "done", "gone"}

InCall == {"calling", "backoff", "unwinding"}

StagesTyped == stage \in [Request -> Stages]

(* Calls are made by an open batch only, and each of them has a slot.      *)
CallsInOrder ==
  /\ StagesTyped
  /\ pc # "batch" => Live = {}
  /\ Cardinality(Holding) <= Slots

-----------------------------------------------------------------------------

LEMMA RequestsAreFinite ==
  /\ Request = 1 .. Len(TickOf) /\ Len(TickOf) \in Nat
  /\ \A r \in Request : r \in Nat /\ TickOf[r] \in 1 .. Ticks
  /\ IsFiniteSet(Request)
  /\ \A S \in SUBSET Request : IsFiniteSet(S) /\ Cardinality(S) \in Nat
<1>1. /\ Request = 1 .. Len(TickOf) /\ Len(TickOf) \in Nat
      /\ \A r \in Request : r \in Nat /\ TickOf[r] \in 1 .. Ticks
  BY CampaignAssumption DEF Request
<1>2. IsFiniteSet(Request)
  BY <1>1, FS_Interval
<1>3. \A S \in SUBSET Request : IsFiniteSet(S) /\ Cardinality(S) \in Nat
  BY <1>2, FS_Subset, FS_CardinalityType
<1> QED
  BY <1>1, <1>2, <1>3

LEMMA ReplyEnds ==
  \A h : /\ AfterReply(h) \in {"defect", "done", "calling", "backoff"}
         /\ Last(h) = "defect" => AfterReply(h) = "defect"
<1>1. \A h : AfterReply(h) \in {"defect", "done", "calling", "backoff"}
  BY DEF AfterReply
<1>2. \A h : Last(h) = "defect" => AfterReply(h) = "defect"
  BY DEF AfterReply
<1> QED
  BY <1>1, <1>2

(* A reply, a retry and an unwinding need no new slot.                     *)
LEMMA CallKeepsSlots ==
  ASSUME CallsInOrder, NEW r \in Request, CallStep(r), UNCHANGED pc
  PROVE  CallsInOrder'
<1>1. pc = "batch" /\ pc' = "batch"
  BY DEF CallStep, TakeSlot, Reply, Retry, Unwind, CallsInOrder, Live, Holding
<1>2. PICK x \in Stages : /\ stage' = [stage EXCEPT ![r] = x]
                          /\ \/ x \notin InCall
                             \/ stage[r] \in InCall
                             \/ Cardinality(Holding) < Slots
  BY ReplyEnds DEF CallStep, TakeSlot, Reply, Retry, Unwind, Stages, InCall
<1>3. StagesTyped'
  BY <1>2 DEF CallsInOrder, StagesTyped
<1>4. /\ \A q \in Request : q # r => stage'[q] = stage[q]
      /\ stage'[r] = x
  BY <1>2 DEF CallsInOrder, StagesTyped
<1>5. Holding \in SUBSET Request /\ Holding' \in SUBSET Request
  BY DEF Holding
<1>6. Slots \in Nat /\ Cardinality(Holding) \in Nat /\ Cardinality(Holding') \in Nat
  BY <1>5, RequestsAreFinite, CampaignAssumption
<1>7. Cardinality(Holding') <= Slots
  <2>1. CASE x \in InCall /\ stage[r] \notin InCall
    <3>1. Holding' = Holding \cup {r} /\ r \notin Holding
      BY <1>4, <2>1 DEF Holding, InCall
    <3>2. Cardinality(Holding') = Cardinality(Holding) + 1
      BY <1>5, <3>1, RequestsAreFinite, FS_AddElement
    <3> QED
      BY <1>2, <1>6, <2>1, <3>2
  <2>2. CASE x \notin InCall \/ stage[r] \in InCall
    <3>1. Holding' \in SUBSET Holding
      BY <1>4, <2>2 DEF Holding, InCall
    <3>2. Cardinality(Holding') <= Cardinality(Holding)
      BY <1>5, <3>1, RequestsAreFinite, FS_Subset
    <3> QED
      BY <1>6, <3>2 DEF CallsInOrder
  <2> QED
    BY <2>1, <2>2
<1> QED
  BY <1>1, <1>3, <1>7 DEF CallsInOrder

(* A batch that is opened, aborted or cleared takes no slot.               *)
LEMMA FewerHolding ==
  ASSUME CallsInOrder, StagesTyped', Holding' \in SUBSET Holding,
         pc' # "batch" => Live' = {}
  PROVE  CallsInOrder'
<1>1. Holding \in SUBSET Request
  BY DEF Holding
<1>2. Cardinality(Holding') <= Cardinality(Holding)
  BY <1>1, RequestsAreFinite, FS_Subset
<1>3. /\ Slots \in Nat
      /\ Cardinality(Holding) \in Nat /\ Cardinality(Holding') \in Nat
  BY <1>1, RequestsAreFinite, CampaignAssumption
<1> QED
  BY <1>2, <1>3 DEF CallsInOrder

LEMMA CallsStart == Init => CallsInOrder
<1> SUFFICES ASSUME Init PROVE CallsInOrder
  OBVIOUS
<1>1. Holding = {} /\ Live = {}
  BY DEF Init, ServiceInit, Holding, Live
<1>2. StagesTyped
  BY DEF Init, ServiceInit, StagesTyped, Stages
<1> QED
  BY <1>1, <1>2, FS_EmptySet, CampaignAssumption DEF CallsInOrder

(* A step of the task that leaves the requests where they are.             *)
LEMMA CallsUntouched ==
  ASSUME CallsInOrder, UNCHANGED stage, pc' = "batch" => pc = "batch",
         pc = "batch" => pc' = "batch" \/ Live = {}
  PROVE  CallsInOrder'
BY DEF CallsInOrder, StagesTyped, Live, Holding

LEMMA CallsStep == CallsInOrder /\ [Next]_vars => CallsInOrder'
<1> SUFFICES ASSUME CallsInOrder, [Next]_vars PROVE CallsInOrder'
  OBVIOUS
<1>1. CASE Plan
  <2>1. /\ stage' = [r \in Request |-> stage'[r]]
        /\ \A r \in Request : stage'[r] \in {"none", "hit", "queued", "unfunded"}
    BY <1>1 DEF Plan, OpenBatch
  <2>2. StagesTyped' /\ Holding' = {}
    BY <2>1 DEF StagesTyped, Stages, Holding
  <2>3. pc' # "batch" => Live' = {}
    BY <1>1, <2>2 DEF Plan, Live
  <2> QED
    BY <2>2, <2>3, FewerHolding
<1>2. CASE \E r \in Request : Call(r)
  BY <1>2, CallKeepsSlots DEF Call, driver
<1>3. CASE Abort
  <2>1. /\ stage' = [r \in Request |-> stage'[r]]
        /\ \A r \in Request : \/ stage'[r] = stage[r]
                              \/ stage'[r] = "gone"
                              \/ stage'[r] = "unwinding" /\ stage[r] \in InCall
    BY <1>3 DEF Abort, AbortBatch, InCall
  <2>2. StagesTyped' /\ Holding' \in SUBSET Holding
    BY <2>1 DEF CallsInOrder, StagesTyped, Stages, Holding, InCall
  <2>3. pc' = "batch"
    BY <1>3 DEF Abort, driver
  <2> QED
    BY <2>2, <2>3, FewerHolding
<1>4. CASE Commit \/ CommitFails
  <2>1. stage' = [r \in Request |-> "none"] /\ pc' # "batch"
    BY <1>4 DEF Commit, CommitFails, CommitBatch, CommitStopsAt, ClearBatch, Ends
  <2>2. StagesTyped' /\ Holding' = {} /\ Live' = {}
    BY <2>1 DEF StagesTyped, Stages, Holding, Live
  <2> QED
    BY <2>2, FewerHolding
<1>5. CASE BatchEnds
  <2>1. UNCHANGED stage /\ Live = {} /\ pc = "batch" /\ pc' # "batch"
    BY <1>5 DEF BatchEnds, GroupLeft, Ends, service
  <2> QED
    BY <2>1, CallsUntouched
<1>6. CASE Start \/ Begin \/ Observe \/ Resume \/ Complete \/ Interrupted
  <2>1. UNCHANGED stage /\ pc # "batch" /\ pc' # "batch"
    BY <1>6 DEF Start, Begin, Observe, Resume, Complete, Interrupted, Ends, service
  <2> QED
    BY <2>1, CallsUntouched
<1>7. CASE TogglePause \/ Step \/ Stop \/ UNCHANGED vars
  <2>1. UNCHANGED stage /\ pc' = pc
    BY <1>7 DEF TogglePause, Step, Stop, vars, service, driver
  <2> QED
    BY <2>1, CallsUntouched
<1> QED
  BY <1>1, <1>2, <1>3, <1>4, <1>5, <1>6, <1>7 DEF Next, Drive

(* However the run is stopped, and whatever its calls were doing, no call  *)
(* of it is in flight once its task has ended; and retries, delays and     *)
(* repairs never put more calls in flight than there are slots.            *)
THEOREM CallsAlwaysEndWithTheRun == Spec => []CallsEndWithTheRun
<1>1. CallsInOrder => CallsEndWithTheRun
  BY DEF CallsInOrder, CallsEndWithTheRun
<1> QED
  BY <1>1, CallsStart, CallsStep, PTL DEF Spec

-----------------------------------------------------------------------------
(* The run and the ledger.  The batch that is open is funded as the ledger *)
(* would fund it, and what the service has spent is what the records and   *)
(* the open batch have charged.                                            *)

Sources == {"recorded", "exhausted", "provider", "transient", "refused", "invalid"}

Rows == UNION {[Batch(t) -> Sources] : t \in 1 .. Ticks}

Funded == {r \in Request : stage[r] \notin {"none", "hit", "unfunded"}}

Paid == Ledger!Charged \cup Funded

OfOne(S, a) == {r \in S : AgentOf[r] = a}

Standing == {"plan", "observe", "parked", "pacing"}

RunTyped ==
  /\ StagesTyped
  /\ cache \subseteq Request
  /\ said \in [Request -> Seq(Replies)]
  /\ durable \in Seq(Rows) /\ Len(durable) <= Ticks
  /\ pc \in {"idle", "created", "batch", "commit", "ended"} \cup Standing

OutcomeInOrder ==
  /\ pc \in {"idle", "created"} => outcome = "none"
  /\ pc \in {"batch", "commit"} \cup Standing => outcome = "running"
  /\ pc \in {"batch", "commit"} => Tick <= Ticks

BatchInOrder ==
  /\ pc \in {"idle", "created"} \cup Standing => \A r \in Request : stage[r] = "none"
  /\ pc \in {"batch", "commit"} =>
       /\ \A r \in Request : /\ stage[r] = "none" <=> r \notin Batch(Tick)
                             /\ stage[r] = "hit" <=> r \in Batch(Tick) \cap cache
       /\ Ledger!IsFunded(Funded, Ledger!Asking(Tick))

(* A request leaves no call without an answer unless the batch is aborted. *)
AnswersInOrder ==
  /\ cancel => stopping
  /\ \A r \in Request : /\ stage[r] \in {"gone", "unwinding"} => cancel \/ Broken
                        /\ stage[r] = "done" => /\ said[r] # <<>>
                                                /\ Last(said[r]) # "defect"
  /\ pc = "commit" => \A r \in Request : stage[r] \in {"none", "hit", "unfunded", "done"}

SpendingInOrder ==
  pc # "ended" => spent = [a \in Agents |-> Cardinality(OfOne(Paid, a))]

RunInOrder ==
  /\ RunTyped /\ OutcomeInOrder /\ BatchInOrder /\ AnswersInOrder /\ SpendingInOrder

-----------------------------------------------------------------------------

(* Induction over the naturals, on a set of them.                          *)
LEMMA EveryNatural ==
  ASSUME NEW S \in SUBSET Nat, 0 \in S, \A n \in S : n + 1 \in S
  PROVE  S = Nat
<1> DEFINE less == OpToRel(<, Nat)
           rest == Nat \ S
<1>1. \A i, j \in Nat : <<j, i>> \in less <=> j < i
  BY DEF OpToRel
<1>2. IsWellFoundedOn(less, Nat)
  BY NatLessThanWellFounded
<1> HIDE DEF less
<1>3. ASSUME rest # {} PROVE FALSE
  <2>1. PICK n \in rest : \A m \in rest : ~ (<<m, n>> \in less)
    BY <1>2, <1>3, WFMin
  <2>2. n \in Nat /\ n # 0 /\ n - 1 \in Nat /\ n - 1 < n
    BY <2>1
  <2>3. n - 1 \in S
    BY <1>1, <2>1, <2>2
  <2> QED
    BY <2>1, <2>2, <2>3
<1> QED
  BY <1>3

LEMMA AgentsAreFinite == IsFiniteSet(Agents)
<1> DEFINE f == [r \in Request |-> AgentOf[r]]
<1>1. f \in [Request -> Agents] /\ \A a \in Agents : \E r \in Request : f[r] = a
  BY DEF Agents
<1>2. f \in Surjection(Request, Agents)
  BY <1>1 DEF Surjection
<1> QED
  BY <1>2, RequestsAreFinite, FS_Surjection

LEMMA DisjointSum ==
  ASSUME NEW S \in SUBSET Request, NEW T \in SUBSET Request, S \cap T = {}
  PROVE  Cardinality(S \cup T) = Cardinality(S) + Cardinality(T)
<1>1. /\ IsFiniteSet(S) /\ IsFiniteSet(T)
      /\ Cardinality(S) \in Nat /\ Cardinality(T) \in Nat
  BY RequestsAreFinite
<1>2. Cardinality(S \cup T) = Cardinality(S) + Cardinality(T) - Cardinality(S \cap T)
  BY <1>1, FS_Union
<1>3. Cardinality(S \cap T) = 0
  BY FS_EmptySet
<1> QED
  BY <1>1, <1>2, <1>3

(* The total of what is spent per agent is the number of the requests that *)
(* are paid for, in whatever order the agents are summed up.               *)
LEMMA TotalIsCounted ==
  ASSUME NEW P \in SUBSET Request,
         spent = [a \in Agents |-> Cardinality(OfOne(P, a))]
  PROVE  SpentTotal = Cardinality(P)
<1> DEFINE count == [s \in SUBSET Agents |-> Cardinality({r \in P : AgentOf[r] \in s})]
           chosen(s) == CHOOSE x \in s : TRUE
           sums(f) == f = [s \in SUBSET Agents |->
                        IF s = {} THEN 0 ELSE spent[chosen(s)] + f[s \ {chosen(s)}]]
           sum == CHOOSE f : sums(f)
<1>1. ASSUME NEW s \in SUBSET Agents, s # {}
      PROVE  /\ chosen(s) \in s /\ s \ {chosen(s)} \in SUBSET Agents
             /\ count[s] = spent[chosen(s)] + count[s \ {chosen(s)}]
  <2> DEFINE a == chosen(s)
             rest == {r \in P : AgentOf[r] \in s \ {a}}
  <2>1. a \in s
    BY <1>1
  <2> HIDE DEF a
  <2>2. OfOne(P, a) \in SUBSET Request /\ rest \in SUBSET Request
    BY DEF OfOne
  <2>3. {r \in P : AgentOf[r] \in s} = OfOne(P, a) \cup rest /\ OfOne(P, a) \cap rest = {}
    BY <2>1 DEF OfOne
  <2> HIDE DEF rest
  <2>4. Cardinality(OfOne(P, a) \cup rest) = Cardinality(OfOne(P, a)) + Cardinality(rest)
    BY <2>2, <2>3, DisjointSum
  <2>5. s \ {a} \in SUBSET Agents /\ a \in Agents
    BY <2>1
  <2>6. count[s] = spent[a] + count[s \ {a}]
    BY <2>3, <2>4, <2>5 DEF rest
  <2> QED
    BY <2>1, <2>5, <2>6 DEF a
<1>2. count[{}] = 0
  BY FS_EmptySet
<1> HIDE DEF chosen
<1>3. sums(count)
  <2>1. \A s \in SUBSET Agents :
          count[s] = IF s = {} THEN 0 ELSE spent[chosen(s)] + count[s \ {chosen(s)}]
    BY <1>1, <1>2
  <2>2. count = [s \in SUBSET Agents |-> count[s]]
    OBVIOUS
  <2> HIDE DEF count
  <2> QED
    BY <2>1, <2>2
<1>4. sums(sum)
  BY <1>3
<1> HIDE DEF sum
<1>5. \A s \in SUBSET Agents :
        sum[s] = IF s = {} THEN 0 ELSE spent[chosen(s)] + sum[s \ {chosen(s)}]
  BY <1>4
<1> DEFINE good == {n \in Nat : \A s \in SUBSET Agents : Cardinality(s) = n => sum[s] = count[s]}
<1>6. \A s \in SUBSET Agents : IsFiniteSet(s) /\ Cardinality(s) \in Nat
  BY AgentsAreFinite, FS_Subset, FS_CardinalityType
<1> HIDE DEF count
<1>7. 0 \in good
  BY <1>2, <1>5, <1>6, FS_EmptySet
<1>8. ASSUME NEW n \in good PROVE n + 1 \in good
  <2> SUFFICES ASSUME NEW s \in SUBSET Agents, Cardinality(s) = n + 1
               PROVE  sum[s] = count[s]
    OBVIOUS
  <2>1. s # {}
    BY FS_EmptySet
  <2>2. chosen(s) \in s /\ s \ {chosen(s)} \in SUBSET Agents
    BY <1>1, <2>1
  <2>3. Cardinality(s \ {chosen(s)}) = n
    BY <1>6, <2>2, FS_RemoveElement
  <2>4. sum[s \ {chosen(s)}] = count[s \ {chosen(s)}]
    BY <2>2, <2>3
  <2> QED
    BY <1>1, <1>5, <2>1, <2>4
<1>9. good = Nat
  <2>1. good \in SUBSET Nat
    OBVIOUS
  <2> HIDE DEF good
  <2> QED
    BY <1>7, <1>8, <2>1, EveryNatural
<1>10. sum[Agents] = count[Agents]
  BY <1>6, <1>9
<1>11. {r \in P : AgentOf[r] \in Agents} = P
  BY DEF Agents
<1>12. DOMAIN spent = Agents
  OBVIOUS
<1>13. SpentTotal = sum[Agents]
  BY <1>12 DEF SpentTotal, FoldFunction, FoldFunctionOnSet, MapThenFoldSet, sum, chosen
<1> QED
  BY <1>10, <1>11, <1>13 DEF count

-----------------------------------------------------------------------------
(* _reserve walks a batch in request order: it funds the set the ledger    *)
(* describes.                                                              *)

Affordable(r, S) ==
  /\ SpentTotal + Cardinality(S) < Total
  /\ spent[AgentOf[r]] + Cardinality({q \in S : AgentOf[q] = AgentOf[r]}) < PerAgent

Walked(asking, n, S) == IF n \in asking /\ Affordable(n, S) THEN S \cup {n} ELSE S

Walks(asking, upTo) ==
  /\ upTo[0] = {}
  /\ \A n \in 1 .. Len(TickOf) : upTo[n] = Walked(asking, n, upTo[n - 1])
  /\ Reserved(asking) = upTo[Len(TickOf)]

LEMMA ReservedWalks ==
  ASSUME NEW asking
  PROVE  \E upTo : Walks(asking, upTo)
<1> DEFINE last == Len(TickOf)
           after(f, n) == IF n = 0 THEN {} ELSE Walked(asking, n, f[n - 1])
           fits(f, k) == f = [n \in 0 .. k |-> after(f, n)]
           known == {k \in Nat : \E f : fits(f, k)}
<1>1. 0 \in known
  <2> DEFINE f == [n \in 0 .. 0 |-> {}]
  <2>1. \A n \in 0 .. 0 : n = 0
    OBVIOUS
  <2>2. fits(f, 0)
    BY <2>1
  <2> QED
    BY <2>2
<1>2. ASSUME NEW k \in known PROVE k + 1 \in known
  <2>1. PICK f : fits(f, k)
    BY <1>2
  <2> DEFINE top == Walked(asking, k + 1, f[k])
             g == [n \in 0 .. k + 1 |-> IF n = k + 1 THEN top ELSE f[n]]
  <2>2. k \in Nat /\ \A n \in 0 .. k + 1 : n = k + 1 \/ n \in 0 .. k
    OBVIOUS
  <2>3. \A n \in 0 .. k : f[n] = after(f, n)
    BY <2>1
  <2>4. \A n \in 0 .. k : g[n] = f[n]
    BY <2>2
  <2>5. \A n \in 0 .. k + 1 : g[n] = after(g, n)
    <3> TAKE n \in 0 .. k + 1
    <3>1. CASE n = 0
      BY <2>2, <2>3, <3>1
    <3>2. CASE n \in 0 .. k /\ n # 0
      <4>1. n - 1 \in 0 .. k
        BY <2>2, <3>2
      <4> QED
        BY <2>3, <2>4, <3>2, <4>1
    <3>3. CASE n = k + 1
      <4>1. n # 0 /\ n - 1 = k /\ k \in 0 .. k
        BY <2>2, <3>3
      <4> QED
        BY <2>4, <3>3, <4>1
    <3> QED
      BY <2>2, <3>1, <3>2, <3>3
  <2> HIDE DEF top
  <2>6. g = [n \in 0 .. k + 1 |-> after(g, n)]
    BY <2>5
  <2>7. fits(g, k + 1)
    BY <2>6
  <2> HIDE DEF g, fits
  <2> QED
    BY <2>2, <2>7
<1>3. \E f : fits(f, last)
  <2>1. known = Nat
    <3> HIDE DEF known
    <3>1. known \in SUBSET Nat
      BY DEF known
    <3> QED
      BY <1>1, <1>2, <3>1, EveryNatural
  <2> QED
    BY <2>1, RequestsAreFinite
<1> DEFINE upTo == CHOOSE f : fits(f, last)
<1>4. fits(upTo, last)
  BY <1>3
<1>5. Reserved(asking) = upTo[last]
  BY DEF Reserved, Walked, Affordable
<1> HIDE DEF upTo
<1>6. upTo[0] = {} /\ \A n \in 1 .. last : upTo[n] = Walked(asking, n, upTo[n - 1])
  <2>1. \A n \in 0 .. last : upTo[n] = after(upTo, n)
    BY <1>4
  <2> QED
    BY <2>1, RequestsAreFinite
<1> QED
  BY <1>5, <1>6 DEF Walks

(* What is funded of a batch: a request is, if those before it left room.  *)
LEMMA ReservedInOrder ==
  ASSUME NEW asking \in SUBSET Request
  PROVE  LET S == Reserved(asking)
         IN /\ S \subseteq asking
            /\ \A r \in asking : r \in S <=> Affordable(r, {q \in S : q < r})
<1> DEFINE last == Len(TickOf)
           S == Reserved(asking)
<1>1. last \in Nat /\ asking \in SUBSET (1 .. last)
  BY RequestsAreFinite
<1>2. PICK upTo : Walks(asking, upTo)
  BY ReservedWalks
<1>3. /\ upTo[0] = {} /\ S = upTo[last]
      /\ \A n \in 1 .. last : upTo[n] = Walked(asking, n, upTo[n - 1])
  BY <1>2 DEF Walks
<1> HIDE DEF S
<1> DEFINE good == {n \in Nat : n <= last =>
                     /\ upTo[n] \subseteq asking \cap (1 .. n)
                     /\ \A m \in 0 .. n : {q \in upTo[n] : q <= m} = upTo[m]}
<1>4. 0 \in good
  <2>1. \A m \in 0 .. 0 : m = 0
    OBVIOUS
  <2> QED
    BY <1>3, <2>1
<1>5. ASSUME NEW n \in good PROVE n + 1 \in good
  <2> SUFFICES ASSUME n + 1 <= last
               PROVE  /\ upTo[n + 1] \subseteq asking \cap (1 .. n + 1)
                      /\ \A m \in 0 .. n + 1 : {q \in upTo[n + 1] : q <= m} = upTo[m]
    OBVIOUS
  <2>1. n \in Nat /\ n <= last /\ n + 1 \in 1 .. last /\ (n + 1) - 1 = n
    BY <1>1
  <2>2. /\ upTo[n] \subseteq asking \cap (1 .. n)
        /\ \A m \in 0 .. n : {q \in upTo[n] : q <= m} = upTo[m]
    BY <2>1
  <2>3. \/ upTo[n + 1] = upTo[n]
        \/ upTo[n + 1] = upTo[n] \cup {n + 1} /\ n + 1 \in asking
    BY <1>3, <2>1 DEF Walked
  <2>4. upTo[n + 1] \subseteq asking \cap (1 .. n + 1)
    BY <2>1, <2>2, <2>3
  <2>5. ASSUME NEW m \in 0 .. n + 1 PROVE {q \in upTo[n + 1] : q <= m} = upTo[m]
    <3>1. CASE m = n + 1
      BY <2>1, <2>4, <3>1
    <3>2. CASE m \in 0 .. n
      <4>1. {q \in upTo[n + 1] : q <= m} = {q \in upTo[n] : q <= m}
        BY <2>1, <2>3, <3>2
      <4> QED
        BY <2>2, <3>2, <4>1
    <3> QED
      BY <2>1, <3>1, <3>2
  <2> QED
    BY <2>4, <2>5
<1>6. good = Nat
  <2>1. good \in SUBSET Nat
    OBVIOUS
  <2> HIDE DEF good
  <2> QED
    BY <1>4, <1>5, <2>1, EveryNatural
<1>7. /\ S \subseteq asking
      /\ \A m \in 0 .. last : /\ upTo[m] \subseteq 1 .. m
                              /\ {q \in S : q <= m} = upTo[m]
  BY <1>1, <1>3, <1>6
<1>8. ASSUME NEW r \in asking PROVE r \in S <=> Affordable(r, {q \in S : q < r})
  <2>1. r \in 1 .. last /\ r \in 0 .. last /\ r - 1 \in 0 .. last
    BY <1>1
  <2>2. \A q \in S : q \in Nat /\ (q < r <=> q <= r - 1)
    BY <1>1, <1>7, <2>1
  <2>3. {q \in S : q < r} = upTo[r - 1]
    BY <1>7, <2>1, <2>2
  <2>4. r \in S <=> r \in upTo[r]
    BY <1>7, <2>1
  <2>5. r \notin upTo[r - 1]
    BY <1>7, <2>1
  <2>6. upTo[r] = Walked(asking, r, upTo[r - 1])
    BY <1>3, <2>1
  <2> QED
    BY <2>3, <2>4, <2>5, <2>6 DEF Walked
<1> QED
  BY <1>7, <1>8 DEF S

(* The ledger counts with the same cardinality.                            *)
LEMMA SameCardinality == \A S : Ledger!Cardinality(S) = Cardinality(S)
BY DEF Ledger!Cardinality, Cardinality

LEMMA ReservedIsFunded ==
  ASSUME NEW asking \in SUBSET Request, Ledger!Charged \in SUBSET Request,
         asking \cap Ledger!Charged = {},
         spent = [a \in Agents |-> Cardinality(OfOne(Ledger!Charged, a))]
  PROVE  Ledger!IsFunded(Reserved(asking), asking)
<1> DEFINE S == Reserved(asking)
<1>1. /\ S \subseteq asking
      /\ \A r \in asking : r \in S <=> Affordable(r, {q \in S : q < r})
  BY ReservedInOrder
<1> HIDE DEF S
<1>2. ASSUME NEW r \in asking
      PROVE  LET before == Ledger!Charged \cup {q \in S : q < r} IN
             r \in S <=> Cardinality(before) < Total
                         /\ Cardinality(Ledger!OfAgent(before, r)) < PerAgent
  <2> DEFINE part == {q \in S : q < r}
             a == AgentOf[r]
  <2>1. part \in SUBSET Request /\ Ledger!Charged \cap part = {}
    BY <1>1
  <2>2. a \in Agents
    BY DEF Agents
  <2> HIDE DEF part, a
  <2>3. Cardinality(Ledger!Charged \cup part) = SpentTotal + Cardinality(part)
    BY <2>1, DisjointSum, TotalIsCounted
  <2>4. OfOne(Ledger!Charged \cup part, a) = OfOne(Ledger!Charged, a) \cup OfOne(part, a)
    BY DEF OfOne
  <2>5. /\ OfOne(Ledger!Charged, a) \in SUBSET Request /\ OfOne(part, a) \in SUBSET Request
        /\ OfOne(Ledger!Charged, a) \cap OfOne(part, a) = {}
    BY <2>1 DEF OfOne
  <2>6. Cardinality(OfOne(Ledger!Charged \cup part, a)) = spent[a] + Cardinality(OfOne(part, a))
    BY <2>2, <2>4, <2>5, DisjointSum
  <2>7. /\ OfOne(Ledger!Charged \cup part, a) = Ledger!OfAgent(Ledger!Charged \cup part, r)
        /\ OfOne(part, a) = {q \in part : AgentOf[q] = AgentOf[r]}
    BY DEF OfOne, Ledger!OfAgent, a
  <2>8. r \in S <=> Affordable(r, part)
    BY <1>1 DEF part
  <2>9. r \in S <=> Cardinality(Ledger!Charged \cup part) < Total
                    /\ Cardinality(Ledger!OfAgent(Ledger!Charged \cup part, r)) < PerAgent
    BY <2>3, <2>6, <2>7, <2>8 DEF Affordable, a
  <2> QED
    BY <2>9 DEF part
<1>3. Ledger!IsFunded(S, asking)
  BY <1>1, <1>2, SameCardinality DEF Ledger!IsFunded
<1> QED
  BY <1>3 DEF S

-----------------------------------------------------------------------------
(* The invariant of the run.                                               *)

LEMMA RunStart == Init => RunInOrder
<1> SUFFICES ASSUME Init PROVE RunInOrder
  OBVIOUS
<1>1. /\ pc = "idle" /\ durable = <<>> /\ outcome = "none"
      /\ cache \subseteq Request
      /\ \A r \in Request : stage[r] = "none"
      /\ ~ cancel
      /\ stage \in [Request -> Stages]
      /\ said \in [Request -> Seq(Replies)]
      /\ spent = [a \in Agents |-> 0]
  BY DEF Init, ServiceInit, Stages
<1>2. RunTyped
  BY <1>1, CampaignAssumption DEF RunTyped, StagesTyped
<1>3. Paid = {}
  BY <1>1, RequestsAreFinite DEF Paid, Funded, Ledger!Charged, Ledger!Request
<1>4. SpendingInOrder
  <2>1. \A a \in Agents : OfOne(Paid, a) = {}
    BY <1>3 DEF OfOne
  <2> QED
    BY <1>1, <2>1, FS_EmptySet DEF SpendingInOrder
<1>5. AnswersInOrder
  BY <1>1 DEF AnswersInOrder
<1>6. OutcomeInOrder /\ BatchInOrder
  BY <1>1 DEF OutcomeInOrder, BatchInOrder, Standing
<1> QED
  BY <1>2, <1>4, <1>5, <1>6 DEF RunInOrder

(* A step of the task or of the keys that touches neither the requests nor *)
(* the records.                                                            *)
LEMMA BetweenBatches ==
  ASSUME RunInOrder, UNCHANGED <<service, durable>>,
         cancel => cancel', cancel' => stopping',
         \/ pc' = pc /\ outcome' = outcome
         \/ pc' = "ended"
         \/ pc' \in {"idle", "created"} /\ pc \in {"idle", "created"} /\ outcome' = outcome
         \/ /\ pc' \in Standing /\ outcome' = "running"
            /\ pc \in {"idle", "created"} \cup Standing
  PROVE  RunInOrder'
<1>1. RunTyped'
  BY DEF RunInOrder, RunTyped, StagesTyped, service, Standing
<1>2. OutcomeInOrder'
  BY DEF RunInOrder, OutcomeInOrder, Standing, Tick
<1>3. Ledger!Charged' = Ledger!Charged /\ Funded' = Funded
  BY DEF service, Ledger!Charged, Funded
<1>4. BatchInOrder'
  <2>1. pc' \in {"batch", "commit"} => pc' = pc
    BY DEF Standing
  <2>2. pc' \in {"idle", "created"} \cup Standing => pc \in {"idle", "created"} \cup Standing
    BY DEF Standing
  <2> QED
    BY <1>3, <2>1, <2>2 DEF RunInOrder, BatchInOrder, service, Tick, Ledger!IsFunded,
       Ledger!Asking, Ledger!Charged, Ledger!OfAgent
<1>5. AnswersInOrder'
  BY DEF RunInOrder, AnswersInOrder, service, Broken, Standing
<1>6. SpendingInOrder'
  BY <1>3 DEF RunInOrder, RunTyped, SpendingInOrder, service, Paid, Standing
<1> QED
  BY <1>1, <1>2, <1>4, <1>5, <1>6 DEF RunInOrder

LEMMA RunOpensBatch == RunInOrder /\ Plan => RunInOrder'
<1> SUFFICES ASSUME RunInOrder, Plan PROVE RunInOrder'
  OBVIOUS
<1> DEFINE asking == {r \in Batch(Tick) : ~ Hit(r)}
           funded == Reserved(asking)
<1>1. /\ pc = "plan" /\ Tick <= Ticks /\ pc' \in {"batch", "commit"}
      /\ stage' = [r \in Request |-> IF r \notin Batch(Tick) THEN "none"
                                     ELSE IF Hit(r) THEN "hit"
                                     ELSE IF r \in funded THEN "queued" ELSE "unfunded"]
      /\ spent' = [a \in Agents |-> spent[a] + Cardinality({r \in funded : AgentOf[r] = a})]
      /\ UNCHANGED <<cache, said, durable, outcome, cancel, stopping>>
      /\ pc' = "commit" => \A r \in Request : stage'[r] # "queued"
  BY DEF Plan, OpenBatch, control
<1>2. /\ asking \in SUBSET Request /\ asking \subseteq Batch(Tick)
      /\ asking = Ledger!Asking(Tick)
  BY DEF Batch, Hit, Request, Ledger!Asking, Ledger!Batch, Ledger!Request
<1>3. /\ Ledger!Charged \in SUBSET Request /\ Funded = {}
      /\ Batch(Tick) \cap Ledger!Charged = {}
  <2>1. \A r \in Ledger!Charged : r \in Request /\ TickOf[r] <= Len(durable)
    BY DEF Request, Ledger!Charged, Ledger!Request
  <2>2. \A r \in Batch(Tick) : TickOf[r] = Len(durable) + 1
    BY DEF Batch, Tick
  <2>3. Len(durable) \in Nat
    BY DEF RunInOrder, RunTyped
  <2>4. Funded = {}
    BY <1>1 DEF Funded, RunInOrder, BatchInOrder, Standing
  <2> QED
    BY <2>1, <2>2, <2>3, <2>4
<1>4. spent = [a \in Agents |-> Cardinality(OfOne(Ledger!Charged, a))]
  BY <1>1, <1>3 DEF RunInOrder, SpendingInOrder, Paid
<1>5. Ledger!IsFunded(funded, asking)
  BY <1>2, <1>3, <1>4, ReservedIsFunded
<1>6. funded \subseteq asking
  BY <1>2, ReservedInOrder
<1> HIDE DEF asking, funded
<1>7. Ledger!Charged' = Ledger!Charged /\ Funded' = funded
  <2>1. Ledger!Charged' = Ledger!Charged
    BY <1>1 DEF Ledger!Charged
  <2>2. funded \subseteq Batch(Tick) /\ \A r \in funded : r \in Request /\ ~ Hit(r)
    BY <1>2, <1>6 DEF asking
  <2>3. Funded' = {r \in Request : r \in funded}
    BY <1>1, <2>2 DEF Funded
  <2> QED
    BY <2>1, <2>2, <2>3
<1>8. RunTyped'
  BY <1>1 DEF RunInOrder, RunTyped, StagesTyped, Stages
<1>9. OutcomeInOrder'
  BY <1>1 DEF RunInOrder, OutcomeInOrder, Standing, Tick
<1>10. BatchInOrder'
  <2>1. \A r \in Request : /\ stage'[r] = "none" <=> r \notin Batch(Tick)
                           /\ stage'[r] = "hit" <=> r \in Batch(Tick) \cap cache
    BY <1>1 DEF Hit
  <2>2. Tick' = Tick /\ Ledger!Asking(Tick)' = Ledger!Asking(Tick)
    BY <1>1 DEF Tick, Ledger!Asking
  <2>3. Ledger!IsFunded(Funded, Ledger!Asking(Tick))'
    BY <1>2, <1>5, <1>7, <2>2 DEF Ledger!IsFunded, Ledger!OfAgent
  <2> QED
    BY <1>1, <2>1, <2>2, <2>3 DEF BatchInOrder, Standing
<1>11. AnswersInOrder'
  BY <1>1 DEF RunInOrder, AnswersInOrder
<1>12. SpendingInOrder'
  <2>1. ASSUME NEW a \in Agents
        PROVE  spent[a] + Cardinality({r \in funded : AgentOf[r] = a})
                 = Cardinality(OfOne(Paid', a))
    <3>1. OfOne(Paid', a) = OfOne(Ledger!Charged, a) \cup OfOne(funded, a)
      BY <1>7 DEF Paid, OfOne
    <3>2. /\ OfOne(Ledger!Charged, a) \in SUBSET Request /\ OfOne(funded, a) \in SUBSET Request
          /\ OfOne(Ledger!Charged, a) \cap OfOne(funded, a) = {}
      BY <1>2, <1>3, <1>6 DEF OfOne
    <3>3. OfOne(funded, a) = {r \in funded : AgentOf[r] = a}
      BY DEF OfOne
    <3> QED
      BY <1>4, <3>1, <3>2, <3>3, DisjointSum
  <2> QED
    BY <1>1, <2>1 DEF SpendingInOrder, OfOne
<1> QED
  BY <1>8, <1>9, <1>10, <1>11, <1>12 DEF RunInOrder

(* The calls of a batch change neither whom it funds nor what is charged.  *)
LEMMA WithinBatch ==
  ASSUME RunInOrder, pc = "batch", UNCHANGED <<cache, spent, driver, cancel, stopping>>,
         StagesTyped', said' \in [Request -> Seq(Replies)],
         \A r \in Request :
           \/ stage'[r] = stage[r]
           \/ stage[r] \in {"queued"} \cup InCall
              /\ stage'[r] \notin {"none", "hit", "unfunded", "queued"},
         AnswersInOrder'
  PROVE  RunInOrder'
<1>1. \A r \in Request : \A s \in {"none", "hit", "unfunded"} : stage'[r] = s <=> stage[r] = s
  BY DEF InCall
<1>2. Ledger!Charged' = Ledger!Charged /\ Funded' = Funded
  BY <1>1 DEF driver, Ledger!Charged, Funded
<1>3. RunTyped'
  BY DEF RunInOrder, RunTyped, driver
<1>4. OutcomeInOrder'
  BY DEF RunInOrder, OutcomeInOrder, driver, Tick
<1>5. BatchInOrder'
  <2>1. Tick' = Tick /\ Ledger!Asking(Tick)' = Ledger!Asking(Tick)
    BY DEF driver, Tick, Ledger!Asking
  <2>2. Ledger!IsFunded(Funded, Ledger!Asking(Tick))'
    BY <1>2, <2>1 DEF RunInOrder, BatchInOrder, Ledger!IsFunded, Ledger!OfAgent
  <2> QED
    BY <1>1, <2>1, <2>2 DEF RunInOrder, BatchInOrder, driver, Standing
<1>6. SpendingInOrder'
  BY <1>2 DEF RunInOrder, SpendingInOrder, Paid, OfOne, driver
<1> QED
  BY <1>3, <1>4, <1>5, <1>6 DEF RunInOrder

LEMMA RunCalls ==
  ASSUME RunInOrder, CallsInOrder, NEW r \in Request, Call(r)
  PROVE  RunInOrder'
<1>1. /\ pc = "batch" /\ UNCHANGED <<cache, spent, driver, cancel, stopping>>
      /\ stage[r] \in {"queued"} \cup InCall
  BY DEF Call, CallStep, TakeSlot, Reply, Retry, Unwind, CallsInOrder, Live, Holding,
     control, InCall
<1>2. stage \in [Request -> Stages] /\ said \in [Request -> Seq(Replies)]
  BY DEF RunInOrder, RunTyped, StagesTyped
<1>3. CASE TakeSlot(r) \/ Retry(r) \/ Unwind(r)
  <2>1. PICK x \in {"calling", "gone"} :
          /\ stage' = [stage EXCEPT ![r] = x] /\ UNCHANGED said
          /\ x = "gone" => stage[r] = "unwinding"
    BY <1>3 DEF TakeSlot, Retry, Unwind
  <2>2. StagesTyped'
    BY <1>2, <2>1 DEF StagesTyped, Stages
  <2>3. \A q \in Request : stage'[q] = IF q = r THEN x ELSE stage[q]
    BY <1>2, <2>1
  <2>4. Broken => Broken'
    BY <1>1, <2>3 DEF Broken, InCall
  <2>5. AnswersInOrder'
    BY <1>1, <2>1, <2>3, <2>4 DEF RunInOrder, AnswersInOrder, driver
  <2> QED
    BY <1>1, <1>2, <2>1, <2>2, <2>3, <2>5, WithinBatch
<1>4. CASE Reply(r)
  <2>1. PICK x \in Replies : /\ said' = [said EXCEPT ![r] = Append(said[r], x)]
                             /\ stage' = [stage EXCEPT ![r] = AfterReply(Append(said[r], x))]
    BY <1>4 DEF Reply
  <2> DEFINE h == Append(said[r], x)
             s == AfterReply(h)
  <2>2. h \in Seq(Replies) /\ h # <<>> /\ Last(h) = x
    <3>1. said[r] \in Seq(Replies)
      BY <1>2
    <3>2. h \in Seq(Replies) /\ Len(h) = Len(said[r]) + 1 /\ h[Len(said[r]) + 1] = x
      BY <3>1, AppendProperties
    <3> QED
      BY <3>1, <3>2 DEF Last
  <2>3. s \in {"defect", "done", "calling", "backoff"}
    BY ReplyEnds
  <2>4. s = "done" => x # "defect"
    BY <2>2, ReplyEnds
  <2> HIDE DEF h, s
  <2>5. /\ \A q \in Request : stage'[q] = IF q = r THEN s ELSE stage[q]
        /\ \A q \in Request : said'[q] = IF q = r THEN h ELSE said[q]
    BY <1>2, <2>1 DEF h, s
  <2>6. StagesTyped' /\ said' \in [Request -> Seq(Replies)]
    BY <1>2, <2>1, <2>2, <2>3 DEF StagesTyped, Stages, h, s
  <2>7. Broken => Broken'
    BY <1>1, <2>5 DEF Broken, InCall
  <2>8. AnswersInOrder'
    BY <1>1, <2>2, <2>3, <2>4, <2>5, <2>7 DEF RunInOrder, AnswersInOrder, driver
  <2> QED
    BY <1>1, <2>3, <2>5, <2>6, <2>8, WithinBatch
<1> QED
  BY <1>3, <1>4 DEF Call, CallStep

LEMMA RunAborts == RunInOrder /\ Abort => RunInOrder'
<1> SUFFICES ASSUME RunInOrder, Abort PROVE RunInOrder'
  OBVIOUS
<1>1. /\ pc = "batch" /\ (cancel \/ Broken)
      /\ UNCHANGED <<cache, spent, said, driver, cancel, stopping>>
      /\ stage' = [r \in Request |-> stage'[r]]
      /\ \A r \in Request : \/ stage'[r] = stage[r]
                            \/ stage[r] \in {"queued"} \cup InCall
                               /\ stage'[r] \in {"gone", "unwinding"}
  BY DEF Abort, AbortBatch, InCall, control
<1>2. StagesTyped'
  BY <1>1 DEF RunInOrder, RunTyped, StagesTyped, Stages
<1>3. Broken => Broken'
  BY <1>1 DEF Broken, InCall
<1>4. AnswersInOrder'
  BY <1>1, <1>3 DEF RunInOrder, AnswersInOrder, driver
<1> QED
  BY <1>1, <1>2, <1>4, WithinBatch DEF RunInOrder, RunTyped

LEMMA RunEndsBatch == RunInOrder /\ BatchEnds => RunInOrder'
<1> SUFFICES ASSUME RunInOrder, BatchEnds PROVE RunInOrder'
  OBVIOUS
<1>1. /\ pc = "batch" /\ Live = {}
      /\ UNCHANGED <<service, durable, cancel, stopping>>
      /\ \/ pc' = "ended"
         \/ pc' = "commit" /\ outcome' = outcome /\ ~ Broken /\ ~ cancel
  BY DEF BatchEnds, GroupLeft, Ends, control
<1>2. CASE pc' = "ended"
  <2>1. cancel' => stopping'
    BY <1>1 DEF RunInOrder, AnswersInOrder
  <2> QED
    BY <1>1, <1>2, <2>1, BetweenBatches
<1>3. CASE pc' # "ended"
  <2>1. pc' = "commit" /\ outcome' = outcome /\ ~ Broken /\ ~ cancel
    BY <1>1, <1>3
  <2>2. \A r \in Request : stage[r] \in {"none", "hit", "unfunded", "done"}
    BY <1>1, <2>1 DEF RunInOrder, RunTyped, StagesTyped, Stages, AnswersInOrder, Live,
       Holding, Broken
  <2>3. Ledger!Charged' = Ledger!Charged /\ Funded' = Funded
    BY <1>1 DEF service, Ledger!Charged, Funded
  <2>4. RunTyped'
    BY <1>1, <2>1 DEF RunInOrder, RunTyped, StagesTyped, service
  <2>5. OutcomeInOrder'
    BY <1>1, <2>1 DEF RunInOrder, OutcomeInOrder, Standing, Tick
  <2>6. BatchInOrder'
    <3>1. Tick' = Tick /\ Ledger!Asking(Tick)' = Ledger!Asking(Tick)
      BY <1>1 DEF service, Tick, Ledger!Asking
    <3>2. Ledger!IsFunded(Funded, Ledger!Asking(Tick))'
      BY <1>1, <2>3, <3>1 DEF RunInOrder, BatchInOrder, Ledger!IsFunded, Ledger!OfAgent
    <3> QED
      BY <1>1, <2>1, <3>1, <3>2 DEF RunInOrder, BatchInOrder, service, Standing
  <2>7. AnswersInOrder'
    BY <1>1, <2>2 DEF RunInOrder, AnswersInOrder, service, Broken
  <2>8. SpendingInOrder'
    BY <1>1, <2>1, <2>3 DEF RunInOrder, SpendingInOrder, Paid, service
  <2> QED
    BY <2>4, <2>5, <2>6, <2>7, <2>8 DEF RunInOrder
<1> QED
  BY <1>2, <1>3

(* What answers a request of a batch that is committed.                    *)
LEMMA SourceOf ==
  ASSUME RunInOrder, pc = "commit", NEW r \in Request, r \in Batch(Tick)
  PROVE  /\ Source(r) \in Sources
         /\ r \in cache <=> Source(r) = "recorded"
         /\ r \notin cache =>
              /\ r \in Funded => Source(r) \in {"provider", "transient", "refused", "invalid"}
              /\ r \notin Funded => Source(r) = "exhausted"
         /\ Storable(r) <=> Source(r) = "provider"
<1>1. stage[r] \in {"hit", "unfunded", "done"} /\ (stage[r] = "hit" <=> r \in cache)
  BY DEF RunInOrder, BatchInOrder, AnswersInOrder
<1>2. CASE stage[r] = "done"
  <2>1. said[r] \in Seq(Replies) /\ said[r] # <<>> /\ Last(said[r]) # "defect"
    BY <1>2 DEF RunInOrder, RunTyped, AnswersInOrder
  <2>2. Last(said[r]) \in Replies
    BY <2>1 DEF Last
  <2>3. Source(r) = IF Last(said[r]) = "ok" THEN "provider" ELSE Last(said[r])
    BY <1>2 DEF Source
  <2> QED
    BY <1>1, <1>2, <2>1, <2>2, <2>3 DEF Sources, Replies, Funded, Storable
<1>3. CASE stage[r] = "hit"
  BY <1>1, <1>3 DEF Source, Sources, Funded, Storable
<1>4. CASE stage[r] = "unfunded"
  BY <1>1, <1>4 DEF Source, Sources, Funded, Storable
<1> QED
  BY <1>1, <1>2, <1>3, <1>4

(* A tick that is recorded charges what its batch funded.                  *)
LEMMA RecordedTick ==
  ASSUME RunInOrder, Commit
  PROVE  /\ durable' \in Seq(Rows) /\ Len(durable') = Tick
         /\ \A t \in 1 .. Len(durable) : durable'[t] = durable[t]
         /\ durable'[Tick] = [r \in Batch(Tick) |-> Source(r)]
         /\ Ledger!Charged' = Ledger!Charged \cup Funded
<1> DEFINE row == [r \in Batch(Tick) |-> Source(r)]
<1>1. pc = "commit" /\ durable' = Append(durable, row) /\ durable \in Seq(Rows)
  BY DEF Commit, RunInOrder, RunTyped
<1>2. Tick \in 1 .. Ticks /\ Len(durable) \in Nat /\ Tick = Len(durable) + 1
  BY <1>1, CampaignAssumption DEF Tick, RunInOrder, OutcomeInOrder
<1>3. row \in Rows
  <2>1. \A r \in Batch(Tick) : Source(r) \in Sources
    BY <1>1, SourceOf DEF Batch
  <2>2. row \in [Batch(Tick) -> Sources]
    BY <2>1
  <2> QED
    BY <1>2, <2>2 DEF Rows
<1> HIDE DEF row
<1>4. /\ durable' \in Seq(Rows) /\ Len(durable') = Tick
      /\ \A t \in 1 .. Len(durable) : durable'[t] = durable[t]
      /\ durable'[Tick] = row
  BY <1>1, <1>2, <1>3, AppendProperties
<1>5. ASSUME NEW r \in Request
      PROVE  r \in Ledger!Charged' <=> r \in Ledger!Charged \cup Funded
  <2>1. TickOf[r] \in Nat \ {0} /\ TickOf[r] \in 1 .. Ticks
    BY RequestsAreFinite
  <2>2. CASE TickOf[r] <= Len(durable)
    <3>1. durable'[TickOf[r]] = durable[TickOf[r]] /\ TickOf[r] <= Len(durable')
      BY <1>2, <1>4, <2>1, <2>2
    <3>2. r \notin Funded
      <4>1. r \notin Batch(Tick)
        BY <1>2, <2>1, <2>2 DEF Batch
      <4> QED
        BY <1>1, <4>1 DEF RunInOrder, BatchInOrder, Funded
    <3> QED
      BY <2>2, <3>1, <3>2 DEF Request, Ledger!Charged, Ledger!Request
  <2>3. CASE TickOf[r] = Tick
    <3>1. r \in Batch(Tick) /\ r \notin Ledger!Charged
      BY <1>2, <2>3 DEF Batch, Ledger!Charged
    <3>2. r \in Ledger!Charged' <=> Source(r) \notin {"recorded", "exhausted"}
      <4>1. durable'[TickOf[r]][r] = Source(r) /\ TickOf[r] <= Len(durable')
        BY <1>2, <1>4, <2>3, <3>1 DEF row
      <4> QED
        BY <4>1 DEF Request, Ledger!Charged, Ledger!Request
    <3>3. r \in Funded => r \notin cache
      BY <1>1, <3>1 DEF RunInOrder, BatchInOrder, Funded
    <3>4. Source(r) \notin {"recorded", "exhausted"} <=> r \in Funded
      BY <1>1, <3>1, <3>3, SourceOf
    <3> QED
      BY <3>1, <3>2, <3>4
  <2>4. CASE TickOf[r] > Tick
    <3>1. r \notin Batch(Tick) /\ r \notin Ledger!Charged /\ r \notin Ledger!Charged'
      BY <1>2, <1>4, <2>1, <2>4 DEF Batch, Ledger!Charged
    <3>2. r \notin Funded
      BY <1>1, <3>1 DEF RunInOrder, BatchInOrder, Funded
    <3> QED
      BY <3>1, <3>2
  <2> QED
    BY <1>2, <2>1, <2>2, <2>3, <2>4
<1>6. Ledger!Charged' \subseteq Request /\ Ledger!Charged \cup Funded \subseteq Request
  BY DEF Request, Ledger!Charged, Ledger!Request, Funded
<1> QED
  BY <1>4, <1>5, <1>6 DEF row

LEMMA RunCommits == RunInOrder /\ Commit => RunInOrder'
<1> SUFFICES ASSUME RunInOrder, Commit PROVE RunInOrder'
  OBVIOUS
<1>1. /\ pc = "commit" /\ pc' = "observe" /\ UNCHANGED <<outcome, cancel, stopping, spent>>
      /\ cache' = Stored(Request)
      /\ stage' = [r \in Request |-> "none"] /\ said' = [r \in Request |-> <<>>]
  BY DEF Commit, CommitBatch, ClearBatch, control
<1>2. /\ durable' \in Seq(Rows) /\ Len(durable') = Tick /\ Tick <= Ticks
      /\ Ledger!Charged' = Ledger!Charged \cup Funded
  BY <1>1, RecordedTick DEF RunInOrder, OutcomeInOrder
<1>3. RunTyped'
  BY <1>1, <1>2 DEF RunInOrder, RunTyped, StagesTyped, Stages, Stored, Standing
<1>4. OutcomeInOrder'
  BY <1>1 DEF RunInOrder, OutcomeInOrder, Standing
<1>5. BatchInOrder' /\ AnswersInOrder'
  BY <1>1 DEF RunInOrder, BatchInOrder, AnswersInOrder, Standing
<1>6. SpendingInOrder'
  <2>1. Funded' = {}
    BY <1>1 DEF Funded
  <2>2. Paid' = Paid
    BY <1>2, <2>1 DEF Paid
  <2> QED
    BY <1>1, <2>2 DEF RunInOrder, SpendingInOrder, OfOne
<1> QED
  BY <1>3, <1>4, <1>5, <1>6 DEF RunInOrder

LEMMA RunFailsToCommit == RunInOrder /\ CommitFails => RunInOrder'
<1> SUFFICES ASSUME RunInOrder, CommitFails PROVE RunInOrder'
  OBVIOUS
<1>1. /\ pc' = "ended" /\ UNCHANGED <<durable, cancel, stopping>>
      /\ cache' \subseteq cache \cup Request
      /\ stage' = [r \in Request |-> "none"] /\ said' = [r \in Request |-> <<>>]
  BY DEF CommitFails, Ends, CommitStopsAt, CommitBatch, ClearBatch, Stored, control
<1>2. RunTyped'
  BY <1>1 DEF RunInOrder, RunTyped, StagesTyped, Stages
<1> QED
  BY <1>1, <1>2 DEF RunInOrder, OutcomeInOrder, BatchInOrder, AnswersInOrder,
     SpendingInOrder, Standing

LEMMA RunStep == RunInOrder /\ CallsInOrder /\ [Next]_vars => RunInOrder'
<1> SUFFICES ASSUME RunInOrder, CallsInOrder, [Next]_vars PROVE RunInOrder'
  OBVIOUS
<1>1. cancel => stopping
  BY DEF RunInOrder, AnswersInOrder
<1>2. CASE Start
  BY <1>1, <1>2, BetweenBatches DEF Start, control
<1>3. CASE Begin
  BY <1>1, <1>3, BetweenBatches DEF Begin, Ends, control, Standing
<1>4. CASE Plan
  BY <1>4, RunOpensBatch
<1>5. CASE \E r \in Request : Call(r)
  BY <1>5, RunCalls
<1>6. CASE Abort
  BY <1>6, RunAborts
<1>7. CASE BatchEnds
  BY <1>7, RunEndsBatch
<1>8. CASE Commit
  BY <1>8, RunCommits
<1>9. CASE CommitFails
  BY <1>9, RunFailsToCommit
<1>10. CASE Observe \/ Resume
  <2>1. /\ UNCHANGED <<service, durable, outcome, cancel, stopping>>
        /\ pc \in Standing /\ pc' \in Standing
    BY <1>10 DEF Observe, Resume, control, Standing
  <2>2. outcome' = "running"
    BY <2>1 DEF RunInOrder, OutcomeInOrder
  <2> QED
    BY <1>1, <2>1, <2>2, BetweenBatches
<1>11. CASE Complete \/ Interrupted
  BY <1>1, <1>11, BetweenBatches DEF Complete, Interrupted, Ends, control
<1>12. CASE TogglePause \/ Step \/ Stop
  <2>1. /\ UNCHANGED <<service, pc, durable, outcome>>
        /\ (cancel => cancel') /\ (cancel' => stopping')
    BY <1>1, <1>12 DEF TogglePause, Step, Stop, Key, StopCancels, driver
  <2> QED
    BY <2>1, BetweenBatches
<1>13. CASE UNCHANGED vars
  BY <1>1, <1>13, BetweenBatches DEF vars, driver, control
<1> QED
  BY <1>2, <1>3, <1>4, <1>5, <1>6, <1>7, <1>8, <1>9, <1>10, <1>11, <1>12, <1>13 DEF Next, Drive

-----------------------------------------------------------------------------
(* Every step of the run is a step of the ledger or none at all.           *)

LEMMA LedgerStart == Init => Ledger!Init
BY RequestsAreFinite DEF Init, ServiceInit, Request, Ledger!Init, Ledger!Request

LEMMA CommitIsTick == RunInOrder /\ Commit => Ledger!Tick
<1> SUFFICES ASSUME RunInOrder, Commit PROVE Ledger!Tick
  OBVIOUS
<1>1. /\ pc = "commit" /\ UNCHANGED outcome
      /\ cache' = Stored(Request)
      /\ outcome = "running" /\ Tick <= Ticks
  BY DEF Commit, CommitBatch, RunInOrder, OutcomeInOrder
<1>2. /\ durable \in Seq(Rows) /\ Len(durable) \in Nat /\ Tick = Len(durable) + 1
      /\ durable' \in Seq(Rows) /\ Len(durable') = Tick
      /\ \A t \in 1 .. Len(durable) : durable'[t] = durable[t]
      /\ durable'[Tick] = [r \in Batch(Tick) |-> Source(r)]
  BY RecordedTick DEF RunInOrder, RunTyped, Tick
<1>3. SubSeq(durable', 1, Len(durable)) = durable
  BY <1>2
<1>4. /\ Ledger!Batch(Tick) = Batch(Tick)
      /\ Ledger!Refusals = {"transient", "refused", "invalid"}
  BY DEF Batch, Request, Ledger!Batch, Ledger!Request, Ledger!Refusals
<1>5. Funded \subseteq Ledger!Asking(Tick) /\ Ledger!Asking(Tick) = Batch(Tick) \ cache
  BY <1>1, <1>4 DEF RunInOrder, BatchInOrder, Funded, Ledger!Asking
<1>6. Ledger!IsFunded(Funded, Ledger!Asking(Tick))
  BY <1>1 DEF RunInOrder, BatchInOrder
<1>7. ASSUME NEW r \in Batch(Tick)
      PROVE  /\ durable'[Tick][r] = Source(r)
             /\ r \in cache => Source(r) = "recorded"
             /\ r \notin cache /\ r \in Funded =>
                  Source(r) \in {"provider", "transient", "refused", "invalid"}
             /\ r \notin cache /\ r \notin Funded => Source(r) = "exhausted"
             /\ Storable(r) <=> Source(r) = "provider"
  BY <1>1, <1>2, SourceOf DEF Batch
<1>8. Ledger!Answered(durable'[Tick], Funded, Tick)
  <2>1. DOMAIN durable'[Tick] = Ledger!Batch(Tick)
    BY <1>2, <1>4
  <2>2. \A r \in Funded : r \notin cache
    BY <1>5
  <2> QED
    BY <1>4, <1>7, <2>1, <2>2 DEF Ledger!Answered
<1>9. cache' = cache \cup {r \in Ledger!Batch(Tick) : durable'[Tick][r] = "provider"}
  <2>1. \A r \in Request : Storable(r) => r \in Batch(Tick)
    BY <1>1 DEF Storable, RunInOrder, BatchInOrder
  <2>2. Batch(Tick) \subseteq Request
    BY DEF Batch
  <2>3. {r \in Request : Storable(r)} = {r \in Batch(Tick) : durable'[Tick][r] = "provider"}
    BY <1>7, <2>1, <2>2
  <2> QED
    BY <1>1, <1>4, <2>3 DEF Stored
<1>10. \E S \in SUBSET Ledger!Asking(Tick) :
         Ledger!IsFunded(S, Ledger!Asking(Tick)) /\ Ledger!Answered(durable'[Tick], S, Tick)
  BY <1>5, <1>6, <1>8
<1> HIDE DEF Tick
<1>11. Ledger!Tick <=>
         LET t == Tick IN
         /\ outcome = "running" /\ t <= Ticks
         /\ Len(durable') = t /\ SubSeq(durable', 1, t - 1) = durable
         /\ \E S \in SUBSET Ledger!Asking(t) :
              Ledger!IsFunded(S, Ledger!Asking(t)) /\ Ledger!Answered(durable'[t], S, t)
         /\ cache' = cache \cup {r \in Ledger!Batch(t) : durable'[t][r] = "provider"}
         /\ UNCHANGED outcome
  BY <1>2 DEF Ledger!Tick
<1>12. SubSeq(durable', 1, Tick - 1) = durable
  BY <1>2, <1>3
<1> QED
  BY <1>1, <1>2, <1>9, <1>10, <1>11, <1>12

(* A run that fails while a batch is open leaves of it at most answers it  *)
(* had funded.                                                             *)
LEMMA FailedIsClosed ==
  ASSUME RunInOrder, pc \in {"batch", "commit"}, UNCHANGED durable, outcome' = "failed",
         cache \subseteq cache', cache' \subseteq Stored(Request)
  PROVE  Ledger!Close
<1> DEFINE asking == Ledger!Asking(Len(durable) + 1)
<1>1. outcome = "running" /\ Ledger!IsFunded(Funded, asking)
  BY DEF RunInOrder, OutcomeInOrder, BatchInOrder, Tick
<1>2. Funded \in SUBSET asking
  BY DEF RunInOrder, BatchInOrder, Funded, Tick, Batch, Request, Ledger!Asking,
     Ledger!Batch, Ledger!Request
<1>3. Stored(Request) \subseteq cache \cup Funded
  BY DEF Stored, Storable, Funded
<1> QED
  BY <1>1, <1>2, <1>3 DEF Ledger!Close

LEMMA LedgerStep ==
  RunInOrder /\ [Next]_vars => [Ledger!Next]_<<durable, outcome, cache>>
<1> SUFFICES ASSUME RunInOrder, [Next]_vars
             PROVE  Ledger!Next \/ UNCHANGED <<durable, outcome, cache>>
  OBVIOUS
<1>1. CASE Begin
  <2>1. outcome = "none" /\ UNCHANGED <<durable, cache>> /\ outcome' \in {"running", "none"}
    BY <1>1 DEF Begin, Ends, service, RunInOrder, OutcomeInOrder
  <2> QED
    BY <2>1 DEF Ledger!Next, Ledger!Open
<1>2. CASE Start \/ Plan \/ Abort \/ Observe \/ Resume \/ TogglePause \/ Step \/ Stop
           \/ UNCHANGED vars
  BY <1>2 DEF Start, Plan, OpenBatch, Abort, AbortBatch, Observe, Resume, TogglePause,
     Step, Stop, vars, service, driver
<1>3. CASE \E r \in Request : Call(r)
  BY <1>3 DEF Call, CallStep, TakeSlot, Reply, Retry, Unwind, driver
<1>4. CASE BatchEnds
  <2>1. /\ pc = "batch" /\ UNCHANGED <<durable, cache>> /\ outcome = "running"
        /\ \/ outcome' \in {"failed", "interrupted"}
           \/ UNCHANGED outcome
    BY <1>4 DEF BatchEnds, Ends, service, RunInOrder, OutcomeInOrder
  <2>2. CASE outcome' = "failed"
    BY <2>1, <2>2, FailedIsClosed DEF Stored, Ledger!Next
  <2> QED
    BY <2>1, <2>2 DEF Ledger!Next, Ledger!Close
<1>5. CASE Commit
  BY <1>5, CommitIsTick DEF Ledger!Next
<1>6. CASE CommitFails
  <2>1. /\ pc = "commit" /\ UNCHANGED durable /\ outcome' = "failed"
        /\ cache \subseteq cache' /\ cache' \subseteq Stored(Request)
    BY <1>6 DEF CommitFails, Ends, CommitStopsAt, CommitBatch, Stored
  <2> QED
    BY <2>1, FailedIsClosed DEF Ledger!Next
<1>7. CASE Complete
  <2>1. /\ outcome = "running" /\ outcome' = "completed" /\ UNCHANGED <<durable, cache>>
        /\ Len(durable) + 1 > Ticks
    BY <1>7 DEF Complete, Ends, Tick, service, RunInOrder, OutcomeInOrder, Standing
  <2>2. Len(durable) = Ticks
    BY <2>1, CampaignAssumption DEF RunInOrder, RunTyped
  <2> QED
    BY <2>1, <2>2 DEF Ledger!Next, Ledger!Close
<1>8. CASE Interrupted
  <2>1. /\ UNCHANGED <<durable, cache>>
        /\ \/ outcome = "none" /\ outcome' = "none"
           \/ outcome = "running" /\ outcome' = "interrupted"
    BY <1>8 DEF Interrupted, Ends, service, RunInOrder, OutcomeInOrder, Standing
  <2> QED
    BY <2>1 DEF Ledger!Next, Ledger!Close
<1> QED
  BY <1>1, <1>2, <1>3, <1>4, <1>5, <1>6, <1>7, <1>8 DEF Next, Drive

(* The run under the dashboard implements the ledger: whatever its calls,  *)
(* retries, pauses, steps and stops, ticks are recorded whole and in       *)
(* order, and what answers a request depends on the records, the budget,   *)
(* its place among the requests and what the provider says of it.          *)
THEOREM RunKeepsTheLedger == Spec => LedgerSpec
<1>1. Init => CallsInOrder /\ RunInOrder /\ Ledger!Init
  BY CallsStart, RunStart, LedgerStart
<1>2. CallsInOrder /\ RunInOrder /\ [Next]_vars => CallsInOrder' /\ RunInOrder'
  BY CallsStep, RunStep
<1>3. RunInOrder /\ [Next]_vars => [Ledger!Next]_<<durable, outcome, cache>>
  BY LedgerStep
<1> QED
  BY <1>1, <1>2, <1>3, PTL DEF Spec, LedgerSpec, Ledger!Spec
=============================================================================
