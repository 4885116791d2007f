------------------------- MODULE JobManagerProofs --------------------------
(***************************************************************************)
(* What the job manager and the arbiter it admits operations with keep in  *)
(* order for every set of jobs, routes, limits and windows, and every      *)
(* interleaving of requests, worker and close.                             *)
(*                                                                         *)
(* The arbiter comes first.  Its deque is always the tail of the history   *)
(* of admissions, at most MaxStarts long, and every admission it has let   *)
(* go of is at least a window old; so the admission MaxStarts before a new *)
(* one is always among those let go.                                       *)
(***************************************************************************)
EXTENDS JobManager, FiniteSetTheorems, WellFoundedInduction, SequenceTheorems, TLAPS

(* The deque s is what the history b ends with, and everything before it   *)
(* is at least a window older than t.                                      *)
EndsWith(s, b, t) ==
  /\ Len(s) <= Len(b)
  /\ \A i \in 1..Len(s) : s[i] = b[Len(b) - Len(s) + i]
  /\ \A i \in 1..(Len(b) - Len(s)) : b[i] + Window <= t

Windowed ==
  /\ ArbiterTypeOK
  /\ Len(starts) <= MaxStarts
  /\ EndsWith(starts, began, now)
  /\ RateHolds

(* Pruning keeps a suffix that starts inside the window, and lets go only   *)
(* of what is out of it.                                                   *)
LEMMA RecentIsASuffix ==
  ASSUME starts \in Seq(Nat), now \in Nat
  PROVE  \E k \in 0..Len(starts) :
           /\ Recent = SubSeq(starts, k + 1, Len(starts))
           /\ \A i \in 1..k : Outside(starts[i])
           /\ k < Len(starts) => ~ Outside(starts[k + 1])
<1> DEFINE inside == {i \in 1..Len(starts) : ~ Outside(starts[i])}
<1>1. Len(starts) \in Nat
  BY LenProperties
<1>2. CASE inside = {}
  <2>1. Recent = <<>>
    BY <1>2 DEF Recent
  <2>2. SubSeq(starts, Len(starts) + 1, Len(starts)) = <<>>
    BY <1>1, SubSeqProperties, EmptySeq
  <2>3. \A i \in 1..Len(starts) : Outside(starts[i])
    BY <1>2
  <2> QED
    BY <1>1, <2>1, <2>2, <2>3
<1>3. CASE inside # {}
  <2> DEFINE m == CHOOSE i \in inside : \A j \in inside : i <= j
  <2>1. \E i \in inside : \A j \in inside : i <= j
    <3> DEFINE less == OpToRel(<, Nat)
    <3>1. \A i, j \in Nat : <<j, i>> \in less <=> j < i
      BY DEF OpToRel
    <3>2. IsWellFoundedOn(less, Nat)
      BY NatLessThanWellFounded
    <3> HIDE DEF less
    <3>3. inside \subseteq Nat
      BY <1>1
    <3> HIDE DEF inside
    <3>4. \E i \in inside : \A j \in inside : ~ (<<j, i>> \in less)
      BY <1>3, <3>2, <3>3, WFMin
    <3>5. PICK i \in inside : \A j \in inside : ~ (<<j, i>> \in less)
      BY <3>4
    <3>6. ASSUME NEW j \in inside PROVE i <= j
      <4>1. ~ (<<j, i>> \in less) /\ i \in Nat /\ j \in Nat
        BY <3>3, <3>5
      <4>2. ~ (j < i)
        BY <3>1, <4>1
      <4> QED
        BY <4>1, <4>2
    <3> QED
      BY <3>6
  <2>2. m \in inside /\ \A j \in inside : m <= j
    BY <2>1
  <2>3. Recent = SubSeq(starts, m, Len(starts))
    BY <1>3 DEF Recent
  <2>4. m \in 1..Len(starts)
    BY <2>2
  <2> HIDE DEF m
  <2>5. ASSUME NEW i \in 1..(m - 1) PROVE Outside(starts[i])
    BY <1>1, <2>2, <2>4
  <2>6. (m - 1) + 1 = m /\ m - 1 \in 0..Len(starts)
    BY <1>1, <2>4
  <2>7. ~ Outside(starts[(m - 1) + 1])
    BY <2>2, <2>6
  <2> QED
    BY <2>3, <2>5, <2>6, <2>7
<1> QED
  BY <1>2, <1>3

(* Dropping what is out of the window leaves an end of the history. *)
LEMMA PruningEndsWith ==
  ASSUME NEW s \in Seq(Nat), NEW b \in Seq(Nat), NEW t \in Nat, EndsWith(s, b, t),
         NEW k \in 0..Len(s), \A i \in 1..k : s[i] + Window <= t
  PROVE  /\ EndsWith(SubSeq(s, k + 1, Len(s)), b, t)
         /\ SubSeq(s, k + 1, Len(s)) \in Seq(Nat)
         /\ Len(SubSeq(s, k + 1, Len(s))) = Len(s) - k
<1> DEFINE p == SubSeq(s, k + 1, Len(s))
<1>1. Len(s) \in Nat /\ Len(b) \in Nat
  BY LenProperties
<1>2. /\ p \in Seq(Nat)
      /\ Len(p) = Len(s) - k
      /\ \A i \in 1..(Len(s) - k) : p[i] = s[k + i]
  BY <1>1, SubSeqProperties
<1> HIDE DEF p
<1>3. ASSUME NEW i \in 1..Len(p) PROVE p[i] = b[Len(b) - Len(p) + i]
  BY <1>1, <1>2 DEF EndsWith
<1>4. ASSUME NEW i \in 1..(Len(b) - Len(p)) PROVE b[i] + Window <= t
  <2>1. CASE i <= Len(b) - Len(s)
    BY <1>1, <2>1 DEF EndsWith
  <2>2. CASE i > Len(b) - Len(s)
    <3>1. i - (Len(b) - Len(s)) \in 1..k
      BY <1>1, <1>2, <2>2
    <3>2. s[i - (Len(b) - Len(s))] = b[i]
      BY <1>1, <2>2, <3>1 DEF EndsWith
    <3> QED
      BY <3>1, <3>2
  <2> QED
    BY <1>1, <1>2, <2>1, <2>2
<1>5. Len(p) <= Len(b)
  BY <1>1, <1>2 DEF EndsWith
<1>6. EndsWith(p, b, t)
  BY <1>3, <1>4, <1>5 DEF EndsWith
<1> QED
  BY <1>2, <1>6 DEF p

(* A new admission extends the deque and the history alike. *)
LEMMA AppendingEndsWith ==
  ASSUME NEW s \in Seq(Nat), NEW b \in Seq(Nat), NEW t \in Nat, EndsWith(s, b, t)
  PROVE  EndsWith(Append(s, t), Append(b, t), t)
<1> DEFINE p == Append(s, t)
           q == Append(b, t)
<1>1. Len(s) \in Nat /\ Len(b) \in Nat
  BY LenProperties
<1>2. /\ Len(p) = Len(s) + 1
      /\ \A i \in 1..Len(s) : p[i] = s[i]
      /\ p[Len(s) + 1] = t
  BY AppendProperties
<1>3. /\ Len(q) = Len(b) + 1
      /\ \A i \in 1..Len(b) : q[i] = b[i]
      /\ q[Len(b) + 1] = t
  BY AppendProperties
<1> HIDE DEF p, q
<1>4. ASSUME NEW i \in 1..Len(p) PROVE p[i] = q[Len(q) - Len(p) + i]
  <2>1. CASE i = Len(s) + 1
    BY <1>1, <1>2, <1>3, <2>1
  <2>2. CASE i \in 1..Len(s)
    <3>1. Len(q) - Len(p) + i = Len(b) - Len(s) + i /\ Len(b) - Len(s) + i \in 1..Len(b)
      BY <1>1, <1>2, <1>3, <2>2 DEF EndsWith
    <3> QED
      BY <1>2, <1>3, <2>2, <3>1 DEF EndsWith
  <2> QED
    BY <1>1, <1>2, <2>1, <2>2
<1>5. ASSUME NEW i \in 1..(Len(q) - Len(p)) PROVE q[i] + Window <= t
  <2>1. i \in 1..(Len(b) - Len(s)) /\ i \in 1..Len(b)
    BY <1>1, <1>2, <1>3 DEF EndsWith
  <2> QED
    BY <1>3, <2>1 DEF EndsWith
<1>6. Len(p) <= Len(q)
  BY <1>1, <1>2, <1>3 DEF EndsWith
<1>7. EndsWith(p, q, t)
  BY <1>4, <1>5, <1>6 DEF EndsWith
<1> QED
  BY <1>7 DEF p, q

LEMMA InitWindowed == ArbiterInit => Windowed
<1> SUFFICES ASSUME ArbiterInit PROVE Windowed
  OBVIOUS
<1>1. Len(<<>>) = 0 /\ <<>> \in Seq(Nat)
  BY EmptySeq
<1>2. ArbiterTypeOK
  BY <1>1 DEF ArbiterInit, ArbiterTypeOK
<1>3. Len(starts) = 0 /\ Len(began) = 0
  BY <1>1 DEF ArbiterInit
<1> QED
  BY <1>2, <1>3, ArbiterAssumption DEF Windowed, RateHolds, EndsWith

(* What a refused or admitted check's pruning of the deque keeps true. *)
LEMMA PrunedDeque ==
  ASSUME Windowed
  PROVE  /\ Recent \in Seq(Nat)
         /\ Len(Recent) <= Len(starts)
         /\ EndsWith(Recent, began, now)
<1>1. starts \in Seq(Nat) /\ began \in Seq(Nat) /\ now \in Nat /\ EndsWith(starts, began, now)
  BY DEF Windowed, ArbiterTypeOK
<1>2. PICK k \in 0..Len(starts) :
        /\ Recent = SubSeq(starts, k + 1, Len(starts))
        /\ \A i \in 1..k : Outside(starts[i])
  BY <1>1, RecentIsASuffix
<1>3. \A i \in 1..k : starts[i] + Window <= now
  BY <1>2 DEF Outside
<1>4. /\ EndsWith(Recent, began, now)
      /\ Recent \in Seq(Nat)
      /\ Len(Recent) = Len(starts) - k
  BY <1>1, <1>2, <1>3, PruningEndsWith
<1>5. Len(starts) \in Nat
  BY <1>1, LenProperties
<1> QED
  BY <1>4, <1>5

(* The admission of a check keeps the rate. *)
LEMMA AdmissionKeepsRate ==
  ASSUME Windowed, NEW o \in Owner, BeginCheck(o)
  PROVE  Windowed'
<1>1. /\ starts \in Seq(Nat) /\ began \in Seq(Nat) /\ now \in Nat /\ now' = now
      /\ starts' = Append(Recent, now) /\ began' = Append(began, now)
      /\ Len(Recent) < MaxStarts
  BY DEF Windowed, ArbiterTypeOK, BeginCheck, TakeLease
<1>2. /\ Recent \in Seq(Nat)
      /\ EndsWith(Recent, began, now)
      /\ Len(Recent) \in Nat /\ Len(began) \in Nat /\ MaxStarts \in Nat
  BY PrunedDeque, <1>1, LenProperties, ArbiterAssumption
<1>3. EndsWith(starts', began', now')
  BY <1>1, <1>2, AppendingEndsWith
<1>4. /\ starts' \in Seq(Nat) /\ began' \in Seq(Nat)
      /\ Len(starts') = Len(Recent) + 1 /\ Len(began') = Len(began) + 1
      /\ \A i \in 1..Len(began) : began'[i] = began[i]
      /\ began'[Len(began) + 1] = now
  BY <1>1, <1>2, AppendProperties
<1>5. ArbiterTypeOK'
  <2>1. /\ active' \in {NoLease} \cup [kind : Kinds, owner : Owner]
        /\ opsClosed' \in BOOLEAN
        /\ issued' \subseteq Owner
        /\ tripped' \subseteq Owner
    BY DEF Windowed, ArbiterTypeOK, BeginCheck, TakeLease, Lease, Kinds
  <2> QED
    BY <1>1, <1>4, <2>1 DEF ArbiterTypeOK
<1>6. RateHolds'
  <2> SUFFICES ASSUME NEW i \in 1..Len(began'), i + MaxStarts <= Len(began')
               PROVE  began'[i] + Window <= began'[i + MaxStarts]
    BY DEF RateHolds
  <2>1. MaxStarts >= 1 /\ i \in 1..(Len(began) + 1) /\ i + MaxStarts <= Len(began) + 1
    BY <1>4, ArbiterAssumption
  <2>2. CASE i + MaxStarts <= Len(began)
    <3>1. i \in 1..Len(began) /\ i + MaxStarts \in 1..Len(began)
      BY <1>2, <2>1, <2>2
    <3>2. began'[i] = began[i] /\ began'[i + MaxStarts] = began[i + MaxStarts]
      BY <1>4, <3>1
    <3> QED
      BY <2>2, <3>1, <3>2 DEF Windowed, RateHolds
  <2>3. CASE i + MaxStarts = Len(began) + 1
    <3>1. i \in 1..(Len(began) - Len(Recent)) /\ i \in 1..Len(began)
      BY <1>1, <1>2, <2>1, <2>3
    <3>2. began[i] + Window <= now
      BY <1>2, <3>1 DEF EndsWith
    <3> QED
      BY <1>4, <2>3, <3>1, <3>2
  <2> QED
    BY <1>2, <2>1, <2>2, <2>3
<1>7. Len(starts') <= MaxStarts
  BY <1>1, <1>2, <1>4
<1> QED
  BY <1>3, <1>5, <1>6, <1>7 DEF Windowed

(* Nothing but an admission or a refusal for the rate touches the deque,   *)
(* and the clock only makes what was let go of older.                      *)
LEMMA OthersKeepRate ==
  ASSUME Windowed, starts' = starts, began' = began, now' \in Nat, now <= now',
         ArbiterTypeOK'
  PROVE  Windowed'
<1>1. ASSUME NEW i \in 1..(Len(began) - Len(starts)) PROVE began[i] + Window <= now'
  <2>1. began[i] + Window <= now
    BY DEF Windowed, EndsWith
  <2>2. began[i] \in Nat
    <3>1. Len(began) \in Nat /\ Len(starts) \in Nat /\ began \in Seq(Nat)
      BY LenProperties DEF Windowed, ArbiterTypeOK
    <3>2. i \in 1..Len(began)
      BY <3>1
    <3> QED
      BY <3>1, <3>2, ElementOfSeq
  <2> QED
    BY <2>1, <2>2, ArbiterAssumption DEF Windowed, ArbiterTypeOK
<1>2. EndsWith(starts', began', now')
  BY <1>1 DEF Windowed, EndsWith
<1> QED
  BY <1>2 DEF Windowed, RateHolds

LEMMA RefusalKeepsRate ==
  ASSUME Windowed, CheckRateLimited
  PROVE  Windowed'
<1>1. /\ Recent \in Seq(Nat) /\ Len(Recent) <= Len(starts)
      /\ EndsWith(Recent, began, now)
  BY PrunedDeque
<1>2. /\ starts' = Recent /\ began' = began /\ now' = now
      /\ UNCHANGED <<active, opsClosed, issued, tripped>>
  BY DEF CheckRateLimited
<1>3. ArbiterTypeOK'
  BY <1>1, <1>2 DEF Windowed, ArbiterTypeOK
<1>4. Len(starts') <= MaxStarts
  <2>1. Len(Recent) \in Nat /\ Len(starts) \in Nat
    BY <1>1, LenProperties DEF Windowed, ArbiterTypeOK
  <2> QED
    BY <1>1, <1>2, <2>1, ArbiterAssumption DEF Windowed
<1>5. EndsWith(starts', began', now')
  BY <1>1, <1>2
<1>6. RateHolds'
  BY <1>2 DEF Windowed, RateHolds
<1> QED
  BY <1>3, <1>4, <1>5, <1>6 DEF Windowed

LEMMA WindowedStep == Windowed /\ [ArbiterNext]_arbiter => Windowed'
<1> SUFFICES ASSUME Windowed, [ArbiterNext]_arbiter PROVE Windowed'
  OBVIOUS
<1>1. ArbiterTypeOK
  BY DEF Windowed
<1>2. ASSUME NEW o \in Owner, NEW k \in {"job", "credential"}, BeginPlain(k, o)
      PROVE  Windowed'
  <2>1. ArbiterTypeOK'
    BY <1>1, <1>2 DEF ArbiterTypeOK, BeginPlain, TakeLease, Lease, Kinds
  <2>2. UNCHANGED <<starts, began, now>>
    BY <1>2 DEF BeginPlain, TakeLease
  <2> QED
    BY <1>1, <2>1, <2>2, OthersKeepRate DEF ArbiterTypeOK
<1>3. ASSUME NEW o \in Owner, BeginCheck(o) PROVE Windowed'
  BY <1>3, AdmissionKeepsRate
<1>4. ASSUME NEW o \in Owner, Finish(o) PROVE Windowed'
  <2>1. ArbiterTypeOK'
    BY <1>1, <1>4 DEF ArbiterTypeOK, Finish, Released, rate
  <2>2. UNCHANGED <<starts, began, now>>
    BY <1>4 DEF Finish, rate
  <2> QED
    BY <1>1, <2>1, <2>2, OthersKeepRate DEF ArbiterTypeOK
<1>5. CASE CheckRateLimited
  BY <1>5, RefusalKeepsRate
<1>6. CASE CancelCheck \/ CloseOperations
  <2>1. CheckHeld \subseteq Owner
    BY <1>1 DEF ArbiterTypeOK, CheckHeld, NoLease
  <2>2. ArbiterTypeOK'
    BY <1>1, <1>6, <2>1 DEF ArbiterTypeOK, CancelCheck, CloseOperations, rate
  <2>3. UNCHANGED <<starts, began, now>>
    BY <1>6 DEF CancelCheck, CloseOperations, rate
  <2> QED
    BY <1>1, <2>2, <2>3, OthersKeepRate DEF ArbiterTypeOK
<1>7. CASE Tick
  <2>1. ArbiterTypeOK' /\ now' \in Nat /\ now <= now'
    BY <1>1, <1>7 DEF ArbiterTypeOK, Tick
  <2>2. UNCHANGED <<starts, began>>
    BY <1>7 DEF Tick
  <2> QED
    BY <2>1, <2>2, OthersKeepRate
<1>8. CASE UNCHANGED arbiter
  <2>1. ArbiterTypeOK' /\ UNCHANGED <<starts, began, now>>
    BY <1>1, <1>8 DEF ArbiterTypeOK, arbiter
  <2> QED
    BY <1>1, <2>1, OthersKeepRate DEF ArbiterTypeOK
<1> QED
  BY <1>2, <1>3, <1>4, <1>5, <1>6, <1>7, <1>8 DEF ArbiterNext

(* Under the invariant a refusal has its MaxStarts recent admissions. *)
LEMMA WindowedRefuses == Windowed => RefusedForCause
<1> SUFFICES ASSUME Windowed, Len(Recent) >= MaxStarts
             PROVE  /\ Len(began) >= MaxStarts
                    /\ began[Len(began) - MaxStarts + 1] + Window > now
  BY DEF RefusedForCause
<1>1. /\ starts \in Seq(Nat) /\ began \in Seq(Nat) /\ now \in Nat
      /\ Len(starts) \in Nat /\ Len(began) \in Nat
      /\ EndsWith(starts, began, now) /\ Len(starts) <= MaxStarts
  BY LenProperties DEF Windowed, ArbiterTypeOK
<1>2. PICK k \in 0..Len(starts) :
        /\ Recent = SubSeq(starts, k + 1, Len(starts))
        /\ \A i \in 1..k : Outside(starts[i])
        /\ k < Len(starts) => ~ Outside(starts[k + 1])
  BY <1>1, RecentIsASuffix
<1>3. Len(Recent) = Len(starts) - k
  BY <1>1, <1>2, PruningEndsWith DEF Outside
<1>4. k = 0 /\ Len(starts) = MaxStarts /\ MaxStarts >= 1
  BY <1>1, <1>3, ArbiterAssumption
<1>5. ~ (starts[1] + Window <= now)
  BY <1>2, <1>4 DEF Outside
<1>6. starts[1] = began[Len(began) - Len(starts) + 1] /\ Len(starts) <= Len(began)
  BY <1>1, <1>4 DEF EndsWith
<1>7. starts[1] \in Nat
  BY <1>1, <1>4, ElementOfSeq
<1> QED
  BY <1>1, <1>4, <1>5, <1>6, <1>7, ArbiterAssumption

-----------------------------------------------------------------------------
(* For every set of operations, limit, window and horizon the arbiter's    *)
(* variables keep their shape (WorkbenchOperationState).                   *)
THEOREM ArbiterTypeCorrect == ArbiterSpec => []ArbiterTypeOK
<1>1. Windowed => ArbiterTypeOK
  BY DEF Windowed
<1> QED
  BY InitWindowed, WindowedStep, <1>1, PTL DEF ArbiterSpec

(* For every limit and window, no window of the monotonic clock sees more  *)
(* than MaxStarts checks admitted (WorkbenchOperationState._begin).        *)
THEOREM RateAlwaysHolds == ArbiterSpec => []RateHolds
<1>1. Windowed => RateHolds
  BY DEF Windowed
<1> QED
  BY InitWindowed, WindowedStep, <1>1, PTL DEF ArbiterSpec

(* For every limit and window, a check is refused for its rate only when   *)
(* MaxStarts admissions younger than the window stand behind it.           *)
THEOREM RefusedAlwaysForCause == ArbiterSpec => []RefusedForCause
BY InitWindowed, WindowedStep, WindowedRefuses, PTL DEF ArbiterSpec

-----------------------------------------------------------------------------
InPath(j) == {Path[Route[j]][i] : i \in 1..Len(Path[Route[j]])}

BooksTyped ==
  /\ phase \in [Jobs -> JobPhases \cup {"none"}]
  /\ requested \subseteq Jobs /\ planned \subseteq Jobs
  /\ counted \in [Jobs -> Nat]
  /\ terminals \in Seq(Jobs)
  /\ activeJob \in Jobs \cup {NoJob}
  /\ operations \subseteq Jobs /\ cancellations \subseteq Jobs
  /\ secrets \subseteq Jobs /\ leases \subseteq Jobs

DeskTyped ==
  /\ jobsClosed \in BOOLEAN /\ threaded \in BOOLEAN
  /\ opsClosed \in BOOLEAN
  /\ closer \in {"open", "flagging", "signalling", "draining", "closed"}
  /\ queue \in Seq(Jobs)
  /\ work \in Jobs \cup {NoJob}
  /\ at \in {"idle", "returned", "calling"}

(* What the executor holds: every queued item once, none of them begun, an *)
(* unfinished job exactly one of them or the item at work; and the item at *)
(* work is the unfinished job or what is left of a rolled back submission. *)
DeskInOrder ==
  /\ at = "idle" <=> work = NoJob
  /\ ~ threaded => work = NoJob /\ activeJob = NoJob
  /\ \A i, k \in 1..Len(queue) : queue[i] = queue[k] => i = k
  /\ \A i \in 1..Len(queue) :
       /\ queue[i] \in issued /\ queue[i] # work
       /\ phase[queue[i]] \in {"none", "queued"}
  /\ work # NoJob =>
       /\ work \in issued
       /\ (phase[work] = "none" /\ at = "returned") \/ work = activeJob
  /\ at = "calling" => phase[work] \notin {"none", "queued"}
  /\ activeJob # NoJob =>
       work = activeJob \/ \E i \in 1..Len(queue) : queue[i] = activeJob

(* The unfinished job, under every name it has.                            *)
LeaseInOrder ==
  /\ Active = {activeJob} \ {NoJob}
  /\ leases = Active
  /\ active.kind = "job" <=> activeJob # NoJob
  /\ activeJob # NoJob => active = Lease("job", activeJob)

(* Every record is on its route; one that was dropped or never made holds  *)
(* nothing, and a draw precedes it.                                        *)
RecordsInOrder ==
  /\ \A j \in Jobs : phase[j] # "none" => j \in issued
  /\ \A j \in Jobs : phase[j] = "none" => j \notin requested \cup planned
  /\ \A j \in Active : phase[j] \in InPath(j)
  /\ \A j \in Concluded \cup Active : ViewIsLegal(j)
  /\ at = "returned" /\ work # NoJob /\ phase[work] = "requesting-cognition" =>
       counted[work] = Funded[work]

HistoryInOrder ==
  /\ Len(terminals) <= MaxTerminal
  /\ \A j \in Jobs : j \in Concluded <=> \E i \in 1..Len(terminals) : terminals[i] = j
  /\ \A i, k \in 1..Len(terminals) : terminals[i] = terminals[k] => i = k

(* A secret is in the operations map, and only until its call returns.     *)
SecretsInOrder ==
  /\ operations \cup cancellations \subseteq Active
  /\ secrets \subseteq operations \cap Keyed
  /\ \A j \in secrets :
       \/ phase[j] \in {"queued", "simulating", "selecting-explanations",
                        "planning-cognition"}
       \/ phase[j] \in Requesting /\ work = j /\ at = "calling"

(* What close has shut stays shut. *)
CloseInOrder ==
  /\ closer # "open" => opsClosed
  /\ closer \in {"signalling", "draining", "closed"} => jobsClosed
  /\ closer = "closed" => activeJob = NoJob /\ at = "idle" /\ (threaded => queue = <<>>)

(* What is public: no run before its publication, every one after it.      *)
PublicInOrder ==
  /\ published \subseteq Jobs
  /\ \A j \in Jobs :
       /\ phase[j] \in Cancellable => j \notin published
       /\ phase[j] \in {"verifying", "completed"} => j \in published
       /\ phase[j] = "persisting" /\ work = j /\ at = "returned" => j \in published
       /\ phase[j] = "cancelled" => j \notin published
       /\ j \in published => j \in issued

JobsInOrder ==
  /\ BooksTyped /\ DeskTyped
  /\ DeskInOrder /\ LeaseInOrder /\ RecordsInOrder /\ HistoryInOrder
  /\ SecretsInOrder /\ CloseInOrder /\ PublicInOrder

-----------------------------------------------------------------------------
(* The next phase on each of the three routes. *)
Successor(j, p, q) ==
  \/ Route[j] = "plain" /\ <<p, q>> \in
       {<<"queued", "evaluating">>, <<"evaluating", "persisting">>,
        <<"persisting", "verifying">>, <<"verifying", "completed">>}
  \/ Route[j] = "explained" /\ <<p, q>> \in
       {<<"queued", "simulating">>, <<"simulating", "selecting-explanations">>,
        <<"selecting-explanations", "requesting-explanations">>,
        <<"requesting-explanations", "persisting">>, <<"persisting", "verifying">>,
        <<"verifying", "completed">>}
  \/ Route[j] = "bounded" /\ <<p, q>> \in
       {<<"queued", "planning-cognition">>, <<"planning-cognition", "requesting-cognition">>,
        <<"requesting-cognition", "applying-cognition">>,
        <<"applying-cognition", "persisting">>, <<"persisting", "verifying">>,
        <<"verifying", "completed">>}

LEMMA AfterIsSuccessor ==
  ASSUME NEW j \in Jobs, NEW p \in InPath(j), p # "completed"
  PROVE  Successor(j, p, After(j, p)) /\ After(j, p) \in InPath(j)
<1>1. ASSUME NEW path, NEW n \in Nat, path = Path[Route[j]], Len(path) = n + 1,
             path[n + 1] = "completed",
             \A i, k \in 1..(n + 1) : path[i] = path[k] => i = k
      PROVE  \E i \in 1..n : p = path[i] /\ After(j, p) = path[i + 1]
  <2>1. PICK i \in 1..n : p = path[i]
    BY <1>1 DEF InPath
  <2>2. (CHOOSE k \in 1..(Len(path) - 1) : path[k] = p) = i
    <3>1. i \in 1..(Len(path) - 1) /\ path[i] = p
      BY <1>1, <2>1
    <3>2. \A k \in 1..(Len(path) - 1) : path[k] = p => k = i
      BY <1>1, <2>1
    <3> QED
      BY <3>1, <3>2
  <2>3. After(j, p) = path[1 + i]
    BY <1>1, <2>2 DEF After
  <2>4. 1 + i = i + 1
    BY <2>1
  <2> QED
    BY <2>1, <2>3, <2>4
<1>2. CASE Route[j] = "plain"
  <2> DEFINE path == <<"queued", "evaluating", "persisting", "verifying", "completed">>
  <2>1. Path[Route[j]] = path
    BY <1>2 DEF Path
  <2>2. /\ Len(path) = 4 + 1 /\ path[4 + 1] = "completed"
        /\ \A i, k \in 1..(4 + 1) : path[i] = path[k] => i = k
    OBVIOUS
  <2> HIDE DEF path
  <2>3. PICK i \in 1..4 : p = path[i] /\ After(j, p) = path[i + 1]
    BY <1>1, <2>1, <2>2
  <2> USE DEF path
  <2> QED
    BY <1>2, <2>1, <2>3 DEF Successor, InPath
<1>3. CASE Route[j] = "explained"
  <2> DEFINE path == <<"queued", "simulating", "selecting-explanations",
                       "requesting-explanations", "persisting", "verifying", "completed">>
  <2>1. Path[Route[j]] = path
    BY <1>3 DEF Path
  <2>2. /\ Len(path) = 6 + 1 /\ path[6 + 1] = "completed"
        /\ \A i, k \in 1..(6 + 1) : path[i] = path[k] => i = k
    OBVIOUS
  <2> HIDE DEF path
  <2>3. PICK i \in 1..6 : p = path[i] /\ After(j, p) = path[i + 1]
    BY <1>1, <2>1, <2>2
  <2> USE DEF path
  <2> QED
    BY <1>3, <2>1, <2>3 DEF Successor, InPath
<1>4. CASE Route[j] = "bounded"
  <2> DEFINE path == <<"queued", "planning-cognition", "requesting-cognition",
                       "applying-cognition", "persisting", "verifying", "completed">>
  <2>1. Path[Route[j]] = path
    BY <1>4 DEF Path
  <2>2. /\ Len(path) = 6 + 1 /\ path[6 + 1] = "completed"
        /\ \A i, k \in 1..(6 + 1) : path[i] = path[k] => i = k
    OBVIOUS
  <2> HIDE DEF path
  <2>3. PICK i \in 1..6 : p = path[i] /\ After(j, p) = path[i + 1]
    BY <1>1, <2>1, <2>2
  <2> USE DEF path
  <2> QED
    BY <1>4, <2>1, <2>3 DEF Successor, InPath
<1> QED
  BY <1>2, <1>3, <1>4, JobAssumption

USE JobAssumption, ArbiterAssumption DEF JobPhases, Terminal, Cancellable, Requesting

(* Every route begins at "queued". *)
LEMMA QueuedInPath ==
  ASSUME NEW j \in Jobs
  PROVE  "queued" \in InPath(j)
<1>1. \E i \in 1..Len(Path[Route[j]]) : Path[Route[j]][i] = "queued"
  <2>1. 1 \in 1..Len(Path[Route[j]]) /\ Path[Route[j]][1] = "queued"
    BY DEF Path
  <2> QED
    BY <2>1
<1> QED
  BY <1>1 DEF InPath

-----------------------------------------------------------------------------
(* An idle manager is in order. *)
LEMMA JobInitInOrder ==
  ASSUME JobInit
  PROVE  JobsInOrder
<1> USE DEF JobsInOrder, JobInit, ArbiterInit
<1>1. BooksTyped
  BY DEF BooksTyped
<1>2. DeskTyped
  <2>1. queue \in Seq(Jobs)
    BY EmptySeq
  <2> QED
    BY <2>1 DEF DeskTyped
<1>3. DeskInOrder
  BY DEF DeskInOrder
<1>4. LeaseInOrder
  BY DEF LeaseInOrder, Active, NoLease
<1>5. RecordsInOrder
  BY DEF RecordsInOrder, Active, Concluded
<1>6. HistoryInOrder
  BY DEF HistoryInOrder, Concluded
<1>7. SecretsInOrder
  BY DEF SecretsInOrder
<1>8. CloseInOrder
  BY DEF CloseInOrder
<1>9. PublicInOrder
  BY DEF PublicInOrder
<1> QED
  BY <1>1, <1>2, <1>3, <1>4, <1>5, <1>6, <1>7, <1>8, <1>9

(* A step that leaves the books alone, and the lease of the unfinished job. *)
LEMMA BooksRest ==
  ASSUME JobsInOrder, UNCHANGED book,
         active' = active \/ (active.kind # "job" /\ active'.kind # "job")
  PROVE  BooksTyped' /\ LeaseInOrder' /\ HistoryInOrder'
<1> USE DEF JobsInOrder, book
<1>1. BooksTyped'
  BY DEF BooksTyped
<1>2. LeaseInOrder'
  BY DEF LeaseInOrder, Active
<1>3. HistoryInOrder'
  BY DEF HistoryInOrder, Concluded
<1> QED
  BY <1>1, <1>2, <1>3

(* A job begins: queued, unfinished and holding the lease. *)
LEMMA SubmitKeeps ==
  ASSUME JobsInOrder, NEW j \in Jobs, Submit(j)
  PROVE  JobsInOrder'
<1> USE DEF JobsInOrder, Submit, SubmitAdmitted, Register, BeginPlain, BeginAdmitted,
          TakeLease, control
<1>1. /\ Len(queue) \in Nat /\ Len(queue') = Len(queue) + 1
      /\ \A i \in 1..Len(queue) : queue'[i] = queue[i]
      /\ queue'[Len(queue) + 1] = j
  BY AppendProperties DEF DeskTyped
<1>2. phase[j] = "none" /\ j \notin issued /\ activeJob = NoJob
  BY DEF BooksTyped, RecordsInOrder
<1>3. BooksTyped'
  BY DEF BooksTyped
<1>4. DeskTyped'
  BY DEF BooksTyped, DeskTyped
<1>5. DeskInOrder'
  <2>1. \A i \in 1..Len(queue') : i \in 1..Len(queue) \/ i = Len(queue) + 1
    BY <1>1
  <2>2. \A i \in 1..Len(queue) : queue[i] # j
    BY <1>2 DEF DeskInOrder
  <2>3. \A i, k \in 1..Len(queue') : queue'[i] = queue'[k] => i = k
    BY <1>1, <2>1, <2>2 DEF DeskInOrder
  <2>4. \A i \in 1..Len(queue') :
          /\ queue'[i] \in issued' /\ queue'[i] # work'
          /\ phase'[queue'[i]] \in {"none", "queued"}
    BY <1>1, <1>2, <2>1, <2>2 DEF DeskInOrder
  <2>5. \E i \in 1..Len(queue') : queue'[i] = j
    BY <1>1, <1>2 DEF DeskInOrder
  <2>6. work # NoJob => work # j /\ work # activeJob
    BY <1>2 DEF DeskInOrder
  <2> QED
    BY <1>2, <2>3, <2>4, <2>5, <2>6 DEF DeskInOrder
<1>6. LeaseInOrder'
  BY <1>2 DEF BooksTyped, LeaseInOrder, Active, Lease
<1>7. RecordsInOrder'
  BY <1>2, QueuedInPath DEF RecordsInOrder, Active, Concluded, ViewIsLegal
<1>8. HistoryInOrder'
  BY <1>2 DEF HistoryInOrder, Concluded
<1>9. SecretsInOrder'
  BY <1>2 DEF BooksTyped, SecretsInOrder, Active
<1>10. CloseInOrder'
  BY DEF CloseInOrder
<1>11. PublicInOrder'
  BY <1>2 DEF PublicInOrder
<1> QED
  BY <1>3, <1>4, <1>5, <1>6, <1>7, <1>8, <1>9, <1>10, <1>11

(* A rolled back submission leaves its item in the queue and no record. *)
LEMMA SubmitFailsKeeps ==
  ASSUME JobsInOrder, NEW j \in Jobs, SubmitFails(j)
  PROVE  JobsInOrder'
<1>1. BooksTyped' /\ LeaseInOrder' /\ HistoryInOrder'
  BY BooksRest DEF SubmitFails, RolledBack
<1> USE DEF JobsInOrder, SubmitFails, SubmitAdmitted, RolledBack, BeginAdmitted, book, control, rate
<1>2. /\ Len(queue) \in Nat /\ Len(queue') = Len(queue) + 1
      /\ \A i \in 1..Len(queue) : queue'[i] = queue[i]
      /\ queue'[Len(queue) + 1] = j
  BY AppendProperties DEF DeskTyped
<1>3. phase[j] = "none" /\ j \notin issued /\ activeJob = NoJob
  BY DEF BooksTyped, RecordsInOrder
<1>4. DeskTyped'
  BY DEF BooksTyped, DeskTyped
<1>5. DeskInOrder'
  <2>1. \A i \in 1..Len(queue') : i \in 1..Len(queue) \/ i = Len(queue) + 1
    BY <1>2
  <2>2. \A i \in 1..Len(queue) : queue[i] # j
    BY <1>3 DEF DeskInOrder
  <2>3. \A i, k \in 1..Len(queue') : queue'[i] = queue'[k] => i = k
    BY <1>2, <2>1, <2>2 DEF DeskInOrder
  <2>4. \A i \in 1..Len(queue') :
          /\ queue'[i] \in issued' /\ queue'[i] # work'
          /\ phase'[queue'[i]] \in {"none", "queued"}
    BY <1>2, <1>3, <2>1, <2>2 DEF DeskInOrder
  <2>5. ~ threaded /\ activeJob = NoJob
    BY <1>2, <1>3 DEF DeskInOrder
  <2>6. work # NoJob => work # j /\ work # activeJob
    BY <1>3 DEF DeskInOrder
  <2> QED
    BY <1>3, <2>3, <2>4, <2>5, <2>6 DEF DeskInOrder
<1>6. RecordsInOrder'
  BY DEF RecordsInOrder, Active, Concluded, ViewIsLegal
<1>7. SecretsInOrder'
  BY DEF SecretsInOrder, Active
<1>8. CloseInOrder'
  BY DEF CloseInOrder
<1>9. PublicInOrder'
  BY DEF PublicInOrder
<1> QED
  BY <1>1, <1>4, <1>5, <1>6, <1>7, <1>8, <1>9

(* A refused submission has drawn an id. *)
LEMMA SubmitRefusedKeeps ==
  ASSUME JobsInOrder, NEW j \in Jobs, SubmitRefused(j)
  PROVE  JobsInOrder'
<1>1. BooksTyped' /\ LeaseInOrder' /\ HistoryInOrder'
  BY BooksRest DEF SubmitRefused, RolledBack
<1> USE DEF JobsInOrder, SubmitRefused, SubmitAdmitted, RolledBack, BeginAdmitted, book,
          executor, control, rate
<1>2. DeskTyped'
  BY DEF BooksTyped, DeskTyped
<1>3. DeskInOrder'
  BY DEF DeskInOrder
<1>4. RecordsInOrder'
  BY DEF RecordsInOrder, Active, Concluded, ViewIsLegal
<1>5. SecretsInOrder'
  BY DEF SecretsInOrder, Active
<1>6. CloseInOrder'
  BY DEF CloseInOrder
<1>7. PublicInOrder'
  BY DEF PublicInOrder
<1> QED
  BY <1>1, <1>2, <1>3, <1>4, <1>5, <1>6, <1>7

(* The item at work is the head of the queue. *)
LEMMA TakeKeeps ==
  ASSUME JobsInOrder, Take
  PROVE  JobsInOrder'
<1>1. BooksTyped' /\ LeaseInOrder' /\ HistoryInOrder'
  BY BooksRest DEF Take, arbiter
<1> USE DEF JobsInOrder, Take, arbiter, book, control
<1>2. /\ work' \in Jobs /\ work' = queue[1] /\ Len(queue) \in Nat \ {0}
      /\ Len(queue') = Len(queue) - 1 /\ queue' \in Seq(Jobs)
      /\ \A i \in 1..Len(queue') : queue'[i] = queue[i + 1]
  BY HeadTailProperties, EmptySeq DEF DeskTyped
<1>3. work = NoJob /\ work' \in issued /\ phase[work'] \in {"none", "queued"}
  BY <1>2 DEF DeskInOrder
<1>4. DeskTyped'
  BY <1>2 DEF BooksTyped, DeskTyped
<1>5. DeskInOrder'
  <2>1. \A i \in 1..Len(queue') : i + 1 \in 1..Len(queue) /\ i + 1 # 1
    BY <1>2
  <2>2. \A i, k \in 1..Len(queue') : queue'[i] = queue'[k] => i = k
    <3>1. ASSUME NEW i \in 1..Len(queue'), NEW k \in 1..Len(queue'), queue'[i] = queue'[k]
          PROVE  i = k
      <4>1. i + 1 = k + 1
        BY <1>2, <2>1, <3>1 DEF DeskInOrder
      <4> QED
        BY <4>1
    <3> QED
      BY <3>1
  <2>3. \A i \in 1..Len(queue') :
          /\ queue'[i] \in issued' /\ queue'[i] # work'
          /\ phase'[queue'[i]] \in {"none", "queued"}
    BY <1>2, <2>1 DEF DeskInOrder
  <2>4. phase[work'] = "none" \/ work' = activeJob
    BY <1>2, <1>3 DEF LeaseInOrder, Active
  <2>5. ASSUME activeJob # NoJob
        PROVE  work' = activeJob \/ \E i \in 1..Len(queue') : queue'[i] = activeJob
    <3>1. PICK i \in 1..Len(queue) : queue[i] = activeJob
      BY <1>3, <2>5 DEF DeskInOrder
    <3>2. i = 1 \/ (i - 1 \in 1..Len(queue') /\ queue'[i - 1] = queue[i])
      BY <1>2
    <3> QED
      BY <1>2, <3>1, <3>2
  <2> QED
    BY <1>2, <1>3, <2>2, <2>3, <2>4, <2>5 DEF DeskInOrder
<1>6. RecordsInOrder'
  BY <1>2, <1>3 DEF RecordsInOrder, Active, Concluded, ViewIsLegal
<1>7. SecretsInOrder'
  BY <1>3 DEF SecretsInOrder, Active
<1>8. CloseInOrder'
  BY <1>2 DEF CloseInOrder
<1>9. PublicInOrder'
  BY <1>2, <1>3 DEF PublicInOrder
<1> QED
  BY <1>1, <1>4, <1>5, <1>6, <1>7, <1>8, <1>9

(* An item without a record is dropped. *)
LEMMA TakeGhostKeeps ==
  ASSUME JobsInOrder, TakeGhost
  PROVE  JobsInOrder'
<1>1. BooksTyped' /\ LeaseInOrder' /\ HistoryInOrder'
  BY BooksRest DEF TakeGhost, arbiter
<1> USE DEF JobsInOrder, TakeGhost, arbiter, book, control
<1>2. work # activeJob
  BY DEF LeaseInOrder, Active
<1>3. DeskTyped'
  BY DEF BooksTyped, DeskTyped
<1>4. DeskInOrder'
  BY <1>2 DEF DeskTyped, DeskInOrder
<1>5. RecordsInOrder'
  BY DEF RecordsInOrder, Active, Concluded, ViewIsLegal
<1>6. SecretsInOrder'
  BY DEF SecretsInOrder, Active
<1>7. CloseInOrder'
  BY DEF CloseInOrder
<1>8. PublicInOrder'
  BY DEF PublicInOrder
<1> QED
  BY <1>1, <1>3, <1>4, <1>5, <1>6, <1>7, <1>8

(* The worker moves its job to the next phase of its route. *)
LEMMA AdvanceKeeps ==
  ASSUME JobsInOrder, Advance
  PROVE  JobsInOrder'
<1> USE DEF JobsInOrder, Advance, arbiter, control
<1>1. work \in Jobs /\ work = activeJob /\ work \in Active
  BY DEF BooksTyped, DeskInOrder, LeaseInOrder
<1>2. phase[work] \in InPath(work) /\ phase[work] # "completed"
  BY <1>1 DEF RecordsInOrder, Active
<1>3. Successor(work, phase[work], After(work, phase[work]))
      /\ After(work, phase[work]) \in InPath(work)
  BY <1>1, <1>2, AfterIsSuccessor
<1> DEFINE next == After(work, phase[work])
<1>4. /\ phase' = [phase EXCEPT ![work] = next]
      /\ next \in InPath(work) /\ next \in JobPhases \ (Terminal \cup {"queued"})
      /\ phase[work] = "persisting" => next = "verifying"
      /\ Route[work] # "bounded" =>
           /\ phase[work] # "planning-cognition"
           /\ phase[work] = "requesting-explanations" => next = "persisting"
      /\ Route[work] = "bounded" =>
           \/ phase[work] = "queued" /\ next = "planning-cognition"
           \/ phase[work] = "planning-cognition" /\ next = "requesting-cognition"
           \/ phase[work] = "requesting-cognition" /\ next = "applying-cognition"
           \/ phase[work] = "applying-cognition" /\ next = "persisting"
           \/ phase[work] = "persisting" /\ next = "verifying"
      /\ next = "verifying" => phase[work] = "persisting"
      /\ next \notin Cancellable => phase[work] = "persisting" \/ next = "persisting"
      /\ next = "persisting" => phase[work] \in Cancellable
      /\ next \in {"queued", "simulating", "selecting-explanations", "planning-cognition"}
           \/ next \in Requesting \/ phase[work] \in Requesting \/ work \notin secrets
  BY <1>1, <1>2, <1>3 DEF Successor, SecretsInOrder
<1> HIDE DEF next
<1>5. BooksTyped'
  BY <1>1, <1>2, <1>4 DEF BooksTyped
<1>6. DeskTyped'
  BY <1>1, <1>2, <1>4 DEF BooksTyped, DeskTyped
<1>7. DeskInOrder'
  BY <1>1, <1>2, <1>4 DEF BooksTyped, DeskInOrder
<1>8. LeaseInOrder'
  BY <1>1, <1>2, <1>4 DEF LeaseInOrder, Active
<1>9. RecordsInOrder'
  BY <1>1, <1>2, <1>4 DEF BooksTyped, RecordsInOrder, Active, Concluded, ViewIsLegal
<1>10. HistoryInOrder'
  <2>1. Concluded' = Concluded
    BY <1>1, <1>4 DEF Concluded, Active
  <2> QED
    BY <2>1 DEF HistoryInOrder
<1>11. SecretsInOrder'
  BY <1>1, <1>2, <1>4 DEF SecretsInOrder, Active
<1>12. CloseInOrder'
  BY <1>1, <1>2, <1>4 DEF CloseInOrder
<1>13. PublicInOrder'
  BY <1>1, <1>2, <1>4 DEF PublicInOrder, Active
<1> QED
  BY <1>5, <1>6, <1>7, <1>8, <1>9, <1>10, <1>11, <1>12, <1>13

(* One more funded request is counted. *)
LEMMA ProgressKeeps ==
  ASSUME JobsInOrder, Progress
  PROVE  JobsInOrder'
<1> USE DEF JobsInOrder, Progress, CountsOn, arbiter, executor, control
<1>1. work \in Jobs /\ counted[work] \in Nat
  BY DEF DeskInOrder, BooksTyped
<1>2. BooksTyped'
  BY <1>1 DEF BooksTyped
<1>3. DeskTyped'
  BY DEF BooksTyped, DeskTyped
<1>4. DeskInOrder'
  BY DEF DeskInOrder
<1>5. LeaseInOrder'
  BY DEF LeaseInOrder, Active
<1>6. RecordsInOrder'
  BY <1>1 DEF RecordsInOrder, Active, Concluded, ViewIsLegal
<1>7. HistoryInOrder'
  BY DEF HistoryInOrder, Concluded
<1>8. SecretsInOrder'
  BY DEF SecretsInOrder, Active
<1>9. CloseInOrder'
  BY DEF CloseInOrder
<1>10. PublicInOrder'
  BY DEF PublicInOrder
<1> QED
  BY <1>2, <1>3, <1>4, <1>5, <1>6, <1>7, <1>8, <1>9, <1>10

(* A repository call returns. *)
LEMMA CallReturnsKeeps ==
  ASSUME JobsInOrder, CallReturns
  PROVE  JobsInOrder'
<1> USE DEF JobsInOrder, CallReturns, arbiter, control
<1>1. work \in Jobs /\ work = activeJob /\ work \in Active
  BY DEF DeskInOrder, LeaseInOrder, BooksTyped
<1>2. BooksTyped'
  BY <1>1 DEF BooksTyped
<1>3. DeskTyped'
  BY DEF BooksTyped, DeskTyped
<1>4. DeskInOrder'
  BY DEF DeskInOrder
<1>5. LeaseInOrder'
  BY DEF LeaseInOrder, Active
<1>6. RecordsInOrder'
  BY <1>1 DEF BooksTyped, RecordsInOrder, Active, Concluded, ViewIsLegal
<1>7. HistoryInOrder'
  BY DEF HistoryInOrder, Concluded
<1>8. SecretsInOrder'
  BY <1>1 DEF SecretsInOrder, Active
<1>9. CloseInOrder'
  BY DEF CloseInOrder
<1>10. PublicInOrder'
  BY <1>1 DEF RecordsInOrder, PublicInOrder
<1> QED
  BY <1>2, <1>3, <1>4, <1>5, <1>6, <1>7, <1>8, <1>9, <1>10

(* A cancellation is recorded while the phase allows it. *)
LEMMA CancelKeeps ==
  ASSUME JobsInOrder, NEW j \in Jobs, Cancel(j)
  PROVE  JobsInOrder'
<1> USE DEF JobsInOrder, Cancel, arbiter, executor
<1>1. BooksTyped'
  BY DEF BooksTyped
<1>2. DeskTyped'
  BY DEF BooksTyped, DeskTyped
<1>3. DeskInOrder'
  BY DEF DeskInOrder
<1>4. LeaseInOrder'
  BY DEF LeaseInOrder, Active
<1>5. RecordsInOrder'
  BY DEF RecordsInOrder, Active, Concluded, ViewIsLegal
<1>6. HistoryInOrder'
  BY DEF HistoryInOrder, Concluded
<1>7. SecretsInOrder'
  BY DEF SecretsInOrder, Active
<1>8. CloseInOrder'
  BY DEF CloseInOrder
<1>9. PublicInOrder'
  BY DEF PublicInOrder
<1> QED
  BY <1>1, <1>2, <1>3, <1>4, <1>5, <1>6, <1>7, <1>8, <1>9

(* A token is tripped. *)
LEMMA SignalKeeps ==
  ASSUME JobsInOrder, NEW j \in Jobs, Signal(j)
  PROVE  JobsInOrder'
<1>1. BooksTyped' /\ LeaseInOrder' /\ HistoryInOrder'
  BY BooksRest DEF Signal
<1> USE DEF JobsInOrder, Signal, book, executor, rate
<1>2. DeskTyped'
  BY DEF BooksTyped, DeskTyped
<1>3. DeskInOrder'
  BY DEF DeskInOrder
<1>4. RecordsInOrder'
  BY DEF RecordsInOrder, Active, Concluded, ViewIsLegal
<1>5. SecretsInOrder'
  BY DEF SecretsInOrder, Active
<1>6. CloseInOrder'
  BY DEF CloseInOrder
<1>7. PublicInOrder'
  BY DEF PublicInOrder
<1> QED
  BY <1>1, <1>2, <1>3, <1>4, <1>5, <1>6, <1>7

(* The arbiter is closed first. *)
LEMMA CloseBeginsKeeps ==
  ASSUME JobsInOrder, CloseBegins
  PROVE  JobsInOrder'
<1>1. BooksTyped' /\ LeaseInOrder' /\ HistoryInOrder'
  BY BooksRest DEF CloseBegins, CloseOperations
<1> USE DEF JobsInOrder, CloseBegins, CloseOperations, book, executor, rate
<1>2. DeskTyped'
  BY DEF BooksTyped, DeskTyped
<1>3. DeskInOrder'
  BY DEF DeskInOrder
<1>4. RecordsInOrder'
  BY DEF RecordsInOrder, Active, Concluded, ViewIsLegal
<1>5. SecretsInOrder'
  BY DEF SecretsInOrder, Active
<1>6. CloseInOrder'
  BY DEF CloseInOrder
<1>7. PublicInOrder'
  BY DEF PublicInOrder
<1> QED
  BY <1>1, <1>2, <1>3, <1>4, <1>5, <1>6, <1>7

(* The manager is closed, and asks its job to stop if the phase allows. *)
LEMMA CloseFlagsKeeps ==
  ASSUME JobsInOrder, CloseFlags
  PROVE  JobsInOrder'
<1> USE DEF JobsInOrder, CloseFlags, arbiter, executor
<1>1. BooksTyped'
  BY DEF BooksTyped
<1>2. DeskTyped'
  BY DEF BooksTyped, DeskTyped
<1>3. DeskInOrder'
  BY DEF DeskInOrder
<1>4. LeaseInOrder'
  BY DEF LeaseInOrder, Active
<1>5. RecordsInOrder'
  BY DEF RecordsInOrder, Active, Concluded, ViewIsLegal
<1>6. HistoryInOrder'
  BY DEF HistoryInOrder, Concluded
<1>7. SecretsInOrder'
  BY DEF SecretsInOrder, Active
<1>8. CloseInOrder'
  BY DEF CloseInOrder
<1>9. PublicInOrder'
  BY DEF PublicInOrder
<1> QED
  BY <1>1, <1>2, <1>3, <1>4, <1>5, <1>6, <1>7, <1>8, <1>9

(* The token close took is tripped. *)
LEMMA CloseSignalsKeeps ==
  ASSUME JobsInOrder, CloseSignals
  PROVE  JobsInOrder'
<1>1. BooksTyped' /\ LeaseInOrder' /\ HistoryInOrder'
  BY BooksRest DEF CloseSignals
<1> USE DEF JobsInOrder, CloseSignals, book, executor, rate
<1>2. DeskTyped'
  BY DEF BooksTyped, DeskTyped
<1>3. DeskInOrder'
  BY DEF DeskInOrder
<1>4. RecordsInOrder'
  BY DEF RecordsInOrder, Active, Concluded, ViewIsLegal
<1>5. SecretsInOrder'
  BY DEF SecretsInOrder, Active
<1>6. CloseInOrder'
  BY DEF CloseInOrder
<1>7. PublicInOrder'
  BY DEF PublicInOrder
<1> QED
  BY <1>1, <1>2, <1>3, <1>4, <1>5, <1>6, <1>7

(* The executor is drained. *)
LEMMA CloseReturnsKeeps ==
  ASSUME JobsInOrder, CloseReturns
  PROVE  JobsInOrder'
<1>1. BooksTyped' /\ LeaseInOrder' /\ HistoryInOrder'
  BY BooksRest DEF CloseReturns, arbiter
<1> USE DEF JobsInOrder, CloseReturns, arbiter, book, executor
<1>2. DeskTyped'
  BY DEF BooksTyped, DeskTyped
<1>3. DeskInOrder'
  BY DEF DeskInOrder
<1>4. RecordsInOrder'
  BY DEF RecordsInOrder, Active, Concluded, ViewIsLegal
<1>5. SecretsInOrder'
  BY DEF SecretsInOrder, Active
<1>6. CloseInOrder'
  BY DEF DeskInOrder, CloseInOrder
<1>7. PublicInOrder'
  BY DEF PublicInOrder
<1> QED
  BY <1>1, <1>2, <1>3, <1>4, <1>5, <1>6, <1>7

-----------------------------------------------------------------------------
(* How the books change when the worker's job ends and the e oldest        *)
(* records, those of `expired`, leave the history.                         *)
Cut(outcome, e, expired) ==
  /\ e = 0 => expired = {}
  /\ e = 1 => expired = {terminals[1]} /\ Len(terminals) = MaxTerminal
  /\ phase' = [i \in Jobs |-> IF i \in expired THEN "none"
                              ELSE IF i = work THEN outcome ELSE phase[i]]
  /\ requested' = requested \ expired
  /\ planned' = planned \ expired
  /\ counted' = [i \in Jobs |-> IF i \in expired THEN 0 ELSE counted[i]]
  /\ terminals' \in Seq(Jobs)
  /\ Len(terminals') = Len(terminals) + 1 - e
  /\ Len(terminals') <= MaxTerminal
  /\ \A i \in 1..(Len(terminals') - 1) : terminals'[i] = terminals[i + e]
  /\ terminals'[Len(terminals')] = work

(* The end of a job: what the bounded history lets go of is at most its    *)
(* oldest record, which is never the one that ends.                        *)
LEMMA ConcludeCuts ==
  ASSUME JobsInOrder, work \in Active, NEW outcome \in Terminal, Conclude(work, outcome)
  PROVE  \E e \in {0, 1}, expired \in SUBSET Concluded : Cut(outcome, e, expired)
<1> DEFINE history == Append(terminals, work)
           e == Excess(history)
           expired == {history[i] : i \in 1..e}
<1>1. work \in Jobs /\ terminals \in Seq(Jobs) /\ Len(terminals) \in Nat
      /\ Len(terminals) <= MaxTerminal
  BY DEF Active, JobsInOrder, BooksTyped, HistoryInOrder
<1>2. /\ history \in Seq(Jobs) /\ Len(history) = Len(terminals) + 1
      /\ \A i \in 1..Len(terminals) : history[i] = terminals[i]
      /\ history[Len(terminals) + 1] = work
  BY <1>1, AppendProperties
<1>3. /\ phase' = [i \in Jobs |-> IF i \in expired THEN "none"
                                  ELSE IF i = work THEN outcome ELSE phase[i]]
      /\ terminals' = SubSeq(history, e + 1, Len(history))
      /\ requested' = requested \ expired
      /\ planned' = planned \ expired
      /\ counted' = [i \in Jobs |-> IF i \in expired THEN 0 ELSE counted[i]]
  BY DEF Conclude
<1>4. e = IF Len(history) > MaxTerminal THEN Len(history) - MaxTerminal ELSE 0
  BY DEF Excess
<1> HIDE DEF history, e
<1>5. /\ e \in {0, 1}
      /\ e = 1 => Len(terminals) = MaxTerminal /\ 1 \in 1..Len(terminals)
      /\ Len(terminals) + 1 - e <= MaxTerminal
  BY <1>1, <1>2, <1>4
<1>6. /\ terminals' \in Seq(Jobs)
      /\ Len(terminals') = Len(terminals) + 1 - e
      /\ \A i \in 1..(Len(terminals) + 1 - e) : terminals'[i] = history[e + i]
  <2>1. \A i \in (e + 1)..Len(history) : history[i] \in Jobs
    BY <1>2, <1>5, ElementOfSeq
  <2>2. /\ terminals' \in Seq(Jobs)
        /\ Len(terminals') = IF e + 1 <= Len(history) THEN Len(history) - (e + 1) + 1 ELSE 0
        /\ \A i \in 1..(Len(history) - (e + 1) + 1) : terminals'[i] = history[(e + 1) + i - 1]
    BY <1>1, <1>2, <1>3, <1>5, <2>1, SubSeqProperties
  <2>3. \A i \in Nat : (e + 1) + i - 1 = e + i
    BY <1>5
  <2>4. Len(history) - (e + 1) + 1 = Len(terminals) + 1 - e /\ e + 1 <= Len(history)
    BY <1>1, <1>2, <1>5
  <2> QED
    BY <1>1, <1>5, <2>2, <2>3, <2>4
<1>7. e = 0 => expired = {}
  BY <1>5
<1>8. e = 1 => expired = {terminals[1]}
  <2>1. 1..1 = {1}
    OBVIOUS
  <2> QED
    BY <1>2, <1>5, <2>1
<1>9. expired \subseteq Concluded
  <2>1. e = 1 => terminals[1] \in Concluded
    BY <1>1, <1>5, ElementOfSeq DEF JobsInOrder, HistoryInOrder
  <2> QED
    BY <1>5, <1>7, <1>8, <2>1
<1>10. \A i \in 1..(Len(terminals') - 1) : terminals'[i] = terminals[i + e]
  <2>1. ASSUME NEW i \in 1..(Len(terminals') - 1) PROVE terminals'[i] = terminals[i + e]
    <3>1. e \in Nat /\ Len(terminals') - 1 = Len(terminals) - e
      BY <1>1, <1>5, <1>6
    <3>2. i \in Nat \ {0} /\ i <= Len(terminals) - e /\ i + e = e + i
      BY <1>1, <3>1
    <3>3. i \in 1..(Len(terminals) + 1 - e) /\ e + i \in 1..Len(terminals)
      BY <1>1, <3>1, <3>2
    <3> QED
      BY <1>2, <1>6, <3>2, <3>3
  <2> QED
    BY <2>1
<1>11. terminals'[Len(terminals')] = work
  <2>1. Len(terminals') \in 1..(Len(terminals) + 1 - e) /\ e + Len(terminals') = Len(terminals) + 1
    BY <1>1, <1>5, <1>6
  <2> QED
    BY <1>2, <1>6, <2>1
<1> QED
  <2> HIDE DEF expired
  <2>1. Len(terminals') <= MaxTerminal
    BY <1>5, <1>6
  <2> QED
    BY <1>3, <1>5, <1>6, <1>7, <1>8, <1>9, <1>10, <1>11, <2>1 DEF Cut

(* The worker's job ends, with an outcome its record can show. *)
LEMMA ConcludeKeeps ==
  ASSUME JobsInOrder, NEW outcome \in Terminal, work \in Active,
         Conclude(work, outcome), work' = NoJob, at' = "idle",
         outcome = "completed" => phase[work] = "verifying" /\ at = "returned",
         outcome = "cancelled" => phase[work] \in Cancellable /\ work \in requested,
         outcome = "failed" => phase[work] \notin Cancellable \/ work \notin requested,
         \/ UNCHANGED published
         \/ phase[work] = "persisting" /\ published' = published \cup {work},
         UNCHANGED <<opsClosed, issued, control, threaded, queue>>
  PROVE  JobsInOrder'
<1>1. PICK e \in {0, 1}, expired \in SUBSET Concluded : Cut(outcome, e, expired)
  BY ConcludeCuts
<1> USE DEF Cut, JobsInOrder, control
<1>2. work \in Jobs /\ work = activeJob /\ work \notin Concluded /\ work \notin expired
  BY DEF Active, Concluded, LeaseInOrder
<1>3. /\ activeJob' = NoJob
      /\ operations' = operations \ {work} /\ cancellations' = cancellations \ {work}
      /\ secrets' = secrets \ (operations \cap {work})
      /\ leases' = leases \ {work}
      /\ active' = IF work \in leases THEN Released(work) ELSE active
  BY <1>2 DEF Conclude, Cleared
<1>4. \A i \in Jobs : phase'[i] = IF i \in expired THEN "none"
                                  ELSE IF i = work THEN outcome ELSE phase[i]
  BY <1>1
<1>5. BooksTyped'
  BY <1>1, <1>2, <1>3 DEF BooksTyped
<1>6. DeskTyped'
  BY DEF DeskTyped
<1>7. Active' = {} /\ Concluded' = (Concluded \ expired) \cup {work}
  BY <1>1, <1>2, <1>4 DEF LeaseInOrder, Active, Concluded
<1>8. LeaseInOrder'
  BY <1>2, <1>3, <1>7 DEF LeaseInOrder, Released, Lease, NoLease
<1>9. DeskInOrder'
  <2>1. ASSUME NEW i \in 1..Len(queue) PROVE queue[i] \in Jobs
    BY ElementOfSeq DEF DeskTyped
  <2>2. ASSUME NEW i \in 1..Len(queue) PROVE phase'[queue[i]] = phase[queue[i]]
    <3>1. queue[i] # work /\ phase[queue[i]] \in {"none", "queued"}
      BY DEF DeskInOrder
    <3> QED
      BY <1>4, <2>1, <3>1 DEF Concluded
  <2> QED
    BY <1>3, <2>2 DEF DeskTyped, DeskInOrder
<1>10. RecordsInOrder'
  <2>1. ASSUME NEW i \in Concluded' PROVE ViewIsLegal(i)'
    <3>1. i \in Jobs /\ i \notin expired /\ (i = work \/ i \in Concluded)
      BY <1>2, <1>7 DEF Concluded
    <3>2. /\ phase'[i] = IF i = work THEN outcome ELSE phase[i]
          /\ counted'[i] = counted[i]
          /\ i \in requested' <=> i \in requested
          /\ i \in planned' <=> i \in planned
      BY <1>1, <1>4, <3>1
    <3>3. CASE i # work
      <4>1. ViewIsLegal(i)
        BY <3>1, <3>3 DEF RecordsInOrder
      <4> QED
        BY <3>2, <3>3, <4>1 DEF ViewIsLegal
    <3>4. CASE i = work
      <4>1. ViewIsLegal(work) /\ phase[work] \in JobPhases \ Terminal
        BY <1>2 DEF RecordsInOrder, Active
      <4> QED
        BY <3>2, <3>4, <4>1 DEF ViewIsLegal
    <3> QED
      BY <3>3, <3>4
  <2>2. \A i \in Jobs : phase'[i] = "none" => i \notin requested' \cup planned'
    BY <1>1, <1>4 DEF RecordsInOrder
  <2>3. \A i \in Jobs : phase'[i] # "none" => i \in issued
    BY <1>2, <1>4 DEF RecordsInOrder, Active
  <2> QED
    BY <1>7, <2>1, <2>2, <2>3 DEF RecordsInOrder
<1>11. HistoryInOrder'
  <2>1. terminals'[Len(terminals')] = work
    BY <1>1
  <2>2. Len(terminals) \in Nat /\ Len(terminals') \in Nat \ {0} /\ terminals \in Seq(Jobs)
    BY <1>1 DEF BooksTyped
  <2>3. \A i \in 1..(Len(terminals') - 1) :
          i + e \in 1..Len(terminals) /\ terminals'[i] = terminals[i + e]
    BY <1>1, <2>2
  <2>4. \A i \in 1..Len(terminals') : i \in 1..(Len(terminals') - 1) \/ i = Len(terminals')
    BY <2>2
  <2>5. \A i \in 1..Len(terminals) : terminals[i] \in Concluded /\ terminals[i] # work
    BY <1>2, <2>2, ElementOfSeq DEF HistoryInOrder, Concluded
  <2>6. \A i, k \in 1..Len(terminals') : terminals'[i] = terminals'[k] => i = k
    <3>1. ASSUME NEW i \in 1..Len(terminals'), NEW k \in 1..Len(terminals'),
                 terminals'[i] = terminals'[k]
          PROVE  i = k
      <4>1. CASE i \in 1..(Len(terminals') - 1) /\ k \in 1..(Len(terminals') - 1)
        <5>1. i + e = k + e
          BY <2>3, <3>1, <4>1 DEF HistoryInOrder
        <5> QED
          BY <2>2, <5>1
      <4>2. \A l \in 1..(Len(terminals') - 1) : terminals'[l] # terminals'[Len(terminals')]
        BY <2>1, <2>3, <2>5
      <4> QED
        BY <2>4, <3>1, <4>1, <4>2
    <3> QED
      BY <3>1
  <2>7. ASSUME NEW j \in Jobs, j \in Concluded'
        PROVE  \E i \in 1..Len(terminals') : terminals'[i] = j
    <3>1. CASE j = work
      BY <1>1, <2>2, <3>1
    <3>2. CASE j # work
      <4>1. j \in Concluded /\ j \notin expired
        BY <1>7, <2>7, <3>2
      <4>2. PICK i \in 1..Len(terminals) : terminals[i] = j
        BY <4>1 DEF HistoryInOrder
      <4>3. \E l \in 1..(Len(terminals') - 1) : l + e = i
        <5>1. i - e \in 1..(Len(terminals') - 1) /\ (i - e) + e = i
          BY <1>1, <2>2, <4>1, <4>2
        <5> QED
          BY <5>1
      <4>4. PICK l \in 1..(Len(terminals') - 1) : l + e = i
        BY <4>3
      <4>5. l \in 1..Len(terminals')
        BY <2>2, <4>4
      <4>6. terminals'[l] = terminals[l + e]
        BY <2>3
      <4> QED
        BY <4>2, <4>4, <4>5, <4>6
    <3> QED
      BY <3>1, <3>2
  <2>8. ASSUME NEW j \in Jobs, NEW i \in 1..Len(terminals'), terminals'[i] = j
        PROVE  j \in Concluded'
    <3>1. CASE i = Len(terminals')
      BY <1>1, <1>7, <2>8, <3>1
    <3>2. CASE i \in 1..(Len(terminals') - 1)
      <4>1. j \in Concluded /\ j = terminals[i + e] /\ i + e \in 1..Len(terminals)
        BY <2>3, <2>5, <2>8, <3>2
      <4>2. j \notin expired
        <5>1. CASE e = 0
          BY <1>1, <5>1
        <5>2. CASE e = 1
          <6>1. i + e # 1 /\ 1 \in 1..Len(terminals)
            BY <2>2, <3>2, <4>1, <5>2
          <6> QED
            BY <1>1, <4>1, <5>2, <6>1 DEF HistoryInOrder
        <5> QED
          BY <5>1, <5>2
      <4> QED
        BY <1>7, <4>1, <4>2
    <3> QED
      BY <2>4, <3>1, <3>2
  <2> QED
    BY <1>1, <2>6, <2>7, <2>8 DEF HistoryInOrder
<1>12. SecretsInOrder'
  <2>1. operations \cup cancellations \subseteq {work} /\ secrets \subseteq operations
    BY <1>2 DEF SecretsInOrder, LeaseInOrder
  <2> QED
    BY <1>3, <1>7, <2>1 DEF SecretsInOrder
<1>13. CloseInOrder'
  BY <1>3 DEF CloseInOrder
<1>14. PublicInOrder'
  BY <1>1, <1>2, <1>4 DEF PublicInOrder, DeskInOrder
<1> QED
  BY <1>5, <1>6, <1>8, <1>9, <1>10, <1>11, <1>12, <1>13, <1>14

(* What the worker holds at a section that is not a rolled back item's. *)
LEMMA WorkIsActive ==
  ASSUME JobsInOrder, work # NoJob, phase[work] # "none"
  PROVE  work \in Active /\ work = activeJob
BY DEF JobsInOrder, DeskInOrder, LeaseInOrder

LEMMA CancelWinsKeeps ==
  ASSUME JobsInOrder, CancelWins
  PROVE  JobsInOrder'
<1>1. work \in Active
  BY WorkIsActive DEF CancelWins
<1> QED
  BY <1>1, ConcludeKeeps DEF CancelWins, Ends

LEMMA CompleteKeeps ==
  ASSUME JobsInOrder, Complete
  PROVE  JobsInOrder'
<1>1. work \in Active
  BY WorkIsActive DEF Complete
<1> QED
  BY <1>1, ConcludeKeeps DEF Complete, Ends

LEMMA CallRaisesKeeps ==
  ASSUME JobsInOrder, CallRaises
  PROVE  JobsInOrder'
<1>1. work # NoJob /\ phase[work] # "none"
  BY DEF JobsInOrder, DeskInOrder, CallRaises
<1>2. work \in Active
  BY <1>1, WorkIsActive
<1>3. Verdict(work) \in {"cancelled", "failed"}
  BY DEF Verdict
<1> QED
  BY <1>2, <1>3, ConcludeKeeps DEF CallRaises, Verdict

(* A step of another operation moves the lease only between its holders.   *)
LEMMA ForeignStep ==
  ASSUME JobsInOrder, UNCHANGED <<book, executor, control, published>>,
         issued \subseteq issued', opsClosed' \in BOOLEAN, opsClosed => opsClosed',
         active' = active \/ (active.kind # "job" /\ active'.kind # "job")
  PROVE  JobsInOrder'
<1>1. BooksTyped' /\ LeaseInOrder' /\ HistoryInOrder'
  BY BooksRest
<1> USE DEF JobsInOrder, book, executor, control
<1>2. DeskTyped'
  BY DEF DeskTyped
<1>3. DeskInOrder'
  BY DEF DeskInOrder
<1>4. RecordsInOrder'
  BY DEF RecordsInOrder, ViewIsLegal, Active, Concluded
<1>5. SecretsInOrder'
  BY DEF SecretsInOrder, Active
<1>6. CloseInOrder'
  BY DEF CloseInOrder, DeskTyped
<1>7. PublicInOrder'
  BY DEF PublicInOrder
<1> QED
  BY <1>1, <1>2, <1>3, <1>4, <1>5, <1>6, <1>7

LEMMA OthersStepKeeps ==
  ASSUME JobsInOrder, OthersStep
  PROVE  JobsInOrder'
<1>1. PICK o \in Others : /\ BeginPlain("credential", o) \/ Finish(o)
                          /\ UNCHANGED <<book, executor, control, published>>
  BY DEF OthersStep
<1>2. issued \subseteq issued' /\ opsClosed' = opsClosed
  BY <1>1 DEF BeginPlain, TakeLease, Finish
<1>3. active' = active \/ (active.kind # "job" /\ active'.kind # "job")
  <2>1. CASE BeginPlain("credential", o)
    BY <2>1 DEF BeginPlain, BeginAdmitted, TakeLease, Lease, NoLease
  <2>2. CASE Finish(o)
    <3>1. active.kind = "job" => active.owner # o
      BY DEF JobsInOrder, LeaseInOrder, BooksTyped, Lease
    <3> QED
      BY <2>2, <3>1 DEF Finish, Released, NoLease
  <2> QED
    BY <1>1, <2>1, <2>2
<1> QED
  BY <1>1, <1>2, <1>3, ForeignStep DEF JobsInOrder, DeskTyped

-----------------------------------------------------------------------------
LEMMA JobsStep == JobsInOrder /\ [JobNext]_jobVars => JobsInOrder'
<1> SUFFICES ASSUME JobsInOrder, [JobNext]_jobVars
             PROVE  JobsInOrder'
  OBVIOUS
<1>1. ASSUME NEW j \in Jobs,
             Submit(j) \/ SubmitFails(j) \/ SubmitRefused(j) \/ Cancel(j) \/ Signal(j)
      PROVE  JobsInOrder'
  BY <1>1, SubmitKeeps, SubmitFailsKeeps, SubmitRefusedKeeps, CancelKeeps, SignalKeeps
<1>2. CASE Worker
  BY <1>2, TakeKeeps, TakeGhostKeeps, CancelWinsKeeps, AdvanceKeeps, CompleteKeeps,
     CallReturnsKeeps, CallRaisesKeeps DEF Worker
<1>3. CASE Progress
  BY <1>3, ProgressKeeps
<1>4. CASE CloseBegins \/ Closer
  BY <1>4, CloseBeginsKeeps, CloseFlagsKeeps, CloseSignalsKeeps, CloseReturnsKeeps DEF Closer
<1>5. CASE OthersStep
  BY <1>5, OthersStepKeeps
<1>6. CASE UNCHANGED jobVars
  <2>1. /\ UNCHANGED <<book, executor, control, published>>
        /\ active' = active /\ issued' = issued /\ opsClosed' = opsClosed
    BY <1>6 DEF jobVars, arbiter
  <2> QED
    BY <2>1, ForeignStep DEF JobsInOrder, DeskTyped
<1> QED
  BY <1>1, <1>2, <1>3, <1>4, <1>5, <1>6 DEF JobNext

LEMMA JobsAlwaysInOrder == JobSpec => []JobsInOrder
<1>1. JobInit => JobsInOrder
  BY JobInitInOrder
<1> QED
  BY <1>1, JobsStep, PTL DEF JobSpec

(* No interleaving of submissions, cancellations, faults, a worker and a   *)
(* close leaves the shared arbiter held by nobody, or a job without it.    *)
THEOREM LeaseAlwaysFollowsJob == JobSpec => []LeaseFollowsJob
<1>1. JobsInOrder => LeaseFollowsJob
  BY DEF JobsInOrder, LeaseInOrder, LeaseFollowsJob, Lease
<1> QED
  BY <1>1, JobsAlwaysInOrder, PTL

(* Every record a client can ask for passes the validators of its view.    *)
THEOREM ViewsAlwaysLegal == JobSpec => []ViewsAreLegal
<1>1. JobsInOrder => ViewsAreLegal
  BY DEF JobsInOrder, RecordsInOrder, ViewsAreLegal
<1> QED
  BY <1>1, JobsAlwaysInOrder, PTL

(* The history holds each terminal record once, and no other. *)
LEMMA HistoryCounts ==
  ASSUME JobsInOrder
  PROVE  /\ {terminals[i] : i \in 1..Len(terminals)} = Concluded
         /\ Cardinality(Concluded) = Len(terminals)
         /\ IsFiniteSet(Concluded)
         /\ Len(terminals) \in Nat
<1> USE DEF JobsInOrder
<1>1. Len(terminals) \in Nat /\ terminals \in [1..Len(terminals) -> Jobs]
  BY DEF BooksTyped
<1>2. {terminals[i] : i \in 1..Len(terminals)} = Concluded
  <2>1. \A j \in Concluded : j \in Jobs
    BY DEF Concluded
  <2> QED
    BY <1>1, <2>1 DEF HistoryInOrder
<1>3. terminals \in Bijection(1..Len(terminals), Concluded)
  <2>1. terminals \in [1..Len(terminals) -> Concluded]
    BY <1>1, <1>2
  <2>2. terminals \in Injection(1..Len(terminals), Concluded)
    BY <2>1 DEF Injection, IsInjective, HistoryInOrder
  <2>3. terminals \in Surjection(1..Len(terminals), Concluded)
    BY <1>2, <2>1 DEF Surjection
  <2> QED
    BY <2>2, <2>3 DEF Bijection
<1>4. ExistsBijection(1..Len(terminals), Concluded)
  BY <1>3 DEF ExistsBijection
<1>5. IsFiniteSet(Concluded)
  BY <1>1, <1>4, FS_NatBijection
<1> QED
  BY <1>1, <1>2, <1>4, <1>5, FS_CountingElements

(* The terminal records are exactly the bounded history.                   *)
THEOREM HistoryAlwaysTheRecords == JobSpec => []HistoryIsTheRecords
<1>1. ASSUME JobsInOrder PROVE HistoryIsTheRecords
  BY <1>1, HistoryCounts DEF JobsInOrder, HistoryIsTheRecords, HistoryInOrder, SecretsInOrder
<1> QED
  BY <1>1, JobsAlwaysInOrder, PTL

(* No credential outlives the cognition call of its own unfinished job.    *)
THEOREM SecretsAlwaysDie == JobSpec => []SecretsDieWithTheirJob
<1>1. JobsInOrder => SecretsDieWithTheirJob
  BY DEF JobsInOrder, SecretsInOrder, SecretsDieWithTheirJob
<1> QED
  BY <1>1, JobsAlwaysInOrder, PTL

(* After close nothing runs, and neither a secret nor a lease is left.     *)
THEOREM ClosedAlwaysQuiet == JobSpec => []ClosedIsQuiet
<1>1. JobsInOrder => ClosedIsQuiet
  BY DEF JobsInOrder, CloseInOrder, LeaseInOrder, SecretsInOrder, ClosedIsQuiet
<1> QED
  BY <1>1, JobsAlwaysInOrder, PTL

-----------------------------------------------------------------------------
(* The refinement of the job ledger.  A record stands as its phase and its *)
(* cancellation request say; each locked section is one step of the ledger *)
(* or none.                                                                *)
standings == [j \in Jobs |-> Standing(j)]

LEMMA LedgerStarts == JobInit => Ledger!Init
BY DEF JobInit, ArbiterInit, Ledger!Init, Standing

(* What moves no record, request, draw of a job id or publication. *)
LEMMA LedgerRests ==
  ASSUME UNCHANGED <<phase, requested, published>>,
         \A j \in Jobs : j \in issued' <=> j \in issued
  PROVE  UNCHANGED Ledger!ledger
<1>1. \A j \in Jobs : Standing(j)' = Standing(j)
  BY DEF Standing
<1>2. UNCHANGED standings
  BY <1>1 DEF standings
<1> QED
  BY <1>2 DEF standings, Ledger!ledger

(* What moves the standing of one job and publishes nothing. *)
LEMMA LedgerBecomes ==
  ASSUME NEW j \in Jobs, NEW s, Standing(j)' = s,
         \A i \in Jobs \ {j} : Standing(i)' = Standing(i), UNCHANGED published
  PROVE  Ledger!Becomes(j, s)
<1>1. standings' = [standings EXCEPT ![j] = s]
  BY DEF standings
<1> QED
  BY <1>1 DEF standings, Ledger!Becomes

LEMMA LedgerAccepts ==
  ASSUME JobsInOrder, NEW j \in Jobs, Submit(j)
  PROVE  Ledger!Accept(j)
<1> USE DEF Submit, SubmitAdmitted, Register, BeginPlain, BeginAdmitted, TakeLease, JobsInOrder
<1>1. phase[j] = "none" /\ j \notin issued /\ j \notin requested
  BY DEF RecordsInOrder
<1>2. \A i \in Jobs : phase'[i] = IF i = j THEN "queued" ELSE phase[i]
  BY DEF BooksTyped
<1>3. Ledger!Becomes(j, "pending")
  <2>1. Standing(j)' = "pending"
    BY <1>1, <1>2 DEF Standing
  <2>2. \A i \in Jobs \ {j} : Standing(i)' = Standing(i)
    BY <1>2 DEF Standing
  <2> QED
    BY <2>1, <2>2, LedgerBecomes
<1>4. Ledger!With({"pending", "cancelling"}) = {}
  <2>1. Active = {}
    BY DEF LeaseInOrder
  <2> QED
    BY <2>1 DEF Ledger!With, Standing, Active, BooksTyped
<1> QED
  BY <1>1, <1>3, <1>4 DEF Ledger!Accept, Standing

LEMMA LedgerRefuses ==
  ASSUME JobsInOrder, NEW j \in Jobs, SubmitAdmitted(j), RolledBack(j), UNCHANGED published
  PROVE  Ledger!Refuse(j)
<1> USE DEF SubmitAdmitted, RolledBack, BeginAdmitted, book
<1>1. phase[j] = "none" /\ j \notin issued
  BY DEF JobsInOrder, RecordsInOrder
<1>2. Ledger!Becomes(j, "gone")
  <2>1. Standing(j)' = "gone"
    BY <1>1 DEF Standing
  <2>2. \A i \in Jobs \ {j} : Standing(i)' = Standing(i)
    BY DEF Standing
  <2> QED
    BY <2>1, <2>2, LedgerBecomes
<1> QED
  BY <1>1, <1>2 DEF Ledger!Refuse, Standing

(* A request noted for an unfinished job in a cancellable phase. *)
LEMMA LedgerAsks ==
  ASSUME JobsInOrder, NEW j \in Jobs, phase[j] \in Cancellable,
         requested' = requested \cup {j}, UNCHANGED <<phase, published, issued>>
  PROVE  Ledger!Ask(j) \/ UNCHANGED Ledger!ledger
<1>1. CASE j \in requested
  BY <1>1, LedgerRests
<1>2. CASE j \notin requested
  <2>1. Standing(j) = "pending" /\ j \notin published
    BY <1>2 DEF Standing, JobsInOrder, PublicInOrder
  <2>2. Standing(j)' = "cancelling"
    BY DEF Standing
  <2>3. \A i \in Jobs \ {j} : Standing(i)' = Standing(i)
    BY DEF Standing
  <2>4. Ledger!Becomes(j, "cancelling")
    BY <2>2, <2>3, LedgerBecomes
  <2> QED
    BY <2>1, <2>4 DEF Ledger!Ask
<1> QED
  BY <1>1, <1>2

LEMMA LedgerAdvances ==
  ASSUME JobsInOrder, Advance
  PROVE  UNCHANGED Ledger!ledger
<1>1. work \in Jobs /\ work \in Active
  BY WorkIsActive DEF Advance, JobsInOrder, DeskTyped
<1>2. After(work, phase[work]) \in JobPhases \ Terminal
  <2>1. phase[work] \in InPath(work) /\ phase[work] # "completed"
    BY <1>1 DEF JobsInOrder, RecordsInOrder, Active
  <2>2. Successor(work, phase[work], After(work, phase[work]))
    BY <1>1, <2>1, AfterIsSuccessor
  <2> QED
    BY <2>2 DEF Successor, Advance
<1>3. \A i \in Jobs : Standing(i)' = Standing(i)
  BY <1>1, <1>2 DEF Advance, Standing, Active, arbiter
<1>4. UNCHANGED standings
  BY <1>3 DEF standings
<1> QED
  BY <1>4 DEF Advance, standings, Ledger!ledger

LEMMA LedgerPublishes ==
  ASSUME JobsInOrder, CallReturns
  PROVE  \E j \in Jobs : Ledger!Publish(j) \/ UNCHANGED Ledger!ledger
<1>1. work \in Active /\ work \in Jobs
  BY WorkIsActive DEF CallReturns, JobsInOrder, DeskInOrder, DeskTyped
<1>2. \A j \in Jobs : Standing(j)' = Standing(j)
  BY DEF CallReturns, Standing, arbiter
<1>3. UNCHANGED standings
  BY <1>2 DEF standings
<1>4. CASE phase[work] # "persisting"
  BY <1>1, <1>3, <1>4 DEF CallReturns, standings, Ledger!ledger
<1>5. CASE phase[work] = "persisting"
  <2>1. Standing(work) = "pending"
    BY <1>1, <1>5 DEF Standing, JobsInOrder, RecordsInOrder, ViewIsLegal
  <2> QED
    BY <1>1, <1>3, <1>5, <2>1 DEF CallReturns, standings, Ledger!Publish
<1> QED
  BY <1>4, <1>5

LEMMA LedgerSettles ==
  ASSUME JobsInOrder, NEW outcome \in Terminal, work \in Active,
         Conclude(work, outcome),
         outcome = "completed" => phase[work] = "verifying",
         outcome = "cancelled" => work \in requested,
         outcome = "failed" => phase[work] \notin Cancellable \/ work \notin requested,
         \/ UNCHANGED published
         \/ outcome = "failed" /\ published' = published \cup {work},
         UNCHANGED issued
  PROVE  \E j \in Jobs : Ledger!Settle(j)
<1>1. PICK e \in {0, 1}, expired \in SUBSET Concluded : Cut(outcome, e, expired)
  BY ConcludeCuts
<1> USE DEF Cut
<1>2. work \in Jobs /\ work \notin Concluded
  BY DEF Active, Concluded
<1>3. Ledger!With(Ledger!Outcomes) = Concluded
  BY DEF Ledger!With, Ledger!Outcomes, Standing, Concluded
<1>4. Cardinality(Concluded \ expired) < MaxTerminal
  <2>1. Cardinality(Concluded) = Len(terminals) /\ IsFiniteSet(Concluded)
        /\ Len(terminals) \in Nat
    BY HistoryCounts
  <2>2. CASE e = 0
    <3>1. Concluded \ expired = Concluded
      BY <1>1, <2>2
    <3>2. Cardinality(Concluded \ expired) = Len(terminals)
      BY <2>1, <3>1, Zenon
    <3> QED
      BY <1>1, <2>1, <2>2, <3>2
  <2>3. CASE e = 1
    <3>1. 1 \in 1..Len(terminals) /\ terminals[1] \in Concluded
      BY <1>1, <2>3, ElementOfSeq DEF Concluded
    <3>2. Cardinality(Concluded \ {terminals[1]}) = Cardinality(Concluded) - 1
      <4> DEFINE first == terminals[1]
      <4>1. first \in Concluded
        BY <3>1
      <4> HIDE DEF first
      <4>2. Cardinality(Concluded \ {first}) = Cardinality(Concluded) - 1
        BY <2>1, <4>1, FS_RemoveElement
      <4> QED
        BY <4>2 DEF first
    <3>3. Concluded \ expired = Concluded \ {terminals[1]}
      BY <1>1, <2>3
    <3>4. Cardinality(Concluded \ expired) = Len(terminals) - 1
      BY <2>1, <3>2, <3>3, Zenon
    <3> QED
      BY <1>1, <2>1, <2>3, <3>4
  <2> QED
    BY <2>2, <2>3
<1>5. \A i \in Jobs : Standing(i)' = IF i \in expired THEN "gone"
                                     ELSE IF i = work THEN outcome ELSE Standing(i)
  <2>1. \A i \in expired : i \in Jobs /\ i \in issued
    BY DEF Concluded, JobsInOrder, RecordsInOrder
  <2> QED
    BY <1>1, <1>2, <2>1 DEF Standing, Concluded
<1>6. standings' = [i \in Jobs |-> IF i \in expired THEN "gone"
                                   ELSE IF i = work THEN outcome ELSE standings[i]]
  BY <1>5 DEF standings
<1>7. /\ Standing(work) \in {"pending", "cancelling"}
      /\ Standing(work) = "pending" => outcome # "cancelled"
      /\ Standing(work) = "cancelling" => outcome = "cancelled"
      /\ outcome = "completed" => work \in published
  BY <1>2 DEF Standing, Active, JobsInOrder, RecordsInOrder, ViewIsLegal, PublicInOrder
<1>8. standings[work] = Standing(work)
  BY <1>2 DEF standings
<1>9. outcome \in Ledger!Outcomes /\ expired \in SUBSET Ledger!With(Ledger!Outcomes)
  BY <1>3 DEF Ledger!Outcomes
<1>10. Ledger!Settle(work)
  <2>1. /\ standings[work] = "pending" => outcome # "cancelled"
        /\ standings[work] = "cancelling" => outcome = "cancelled"
        /\ standings[work] \in {"pending", "cancelling"}
        /\ Ledger!Cardinality(Ledger!With(Ledger!Outcomes) \ expired) < MaxTerminal
        /\ outcome = "completed" => work \in published
        /\ \/ UNCHANGED published
           \/ outcome = "failed" /\ published' = published \cup {work}
    BY <1>3, <1>4, <1>7, <1>8 DEF Cardinality, Ledger!Cardinality
  <2> QED
    BY <1>6, <1>9, <2>1, Zenon DEF standings, Ledger!Settle
<1> QED
  BY <1>2, <1>10

LEMMA LedgerStep == JobsInOrder /\ [JobNext]_jobVars => [Ledger!Next]_Ledger!ledger
<1> SUFFICES ASSUME JobsInOrder, [JobNext]_jobVars
             PROVE  Ledger!Next \/ UNCHANGED Ledger!ledger
  OBVIOUS
<1>1. ASSUME NEW j \in Jobs, Submit(j) PROVE Ledger!Next
  BY <1>1, LedgerAccepts DEF Ledger!Next
<1>2. ASSUME NEW j \in Jobs, SubmitFails(j) \/ SubmitRefused(j) PROVE Ledger!Next
  BY <1>2, LedgerRefuses DEF Ledger!Next, SubmitFails, SubmitRefused
<1>3. ASSUME NEW j \in Jobs, Cancel(j) PROVE Ledger!Next \/ UNCHANGED Ledger!ledger
  BY <1>3, LedgerAsks DEF Ledger!Next, Cancel, arbiter
<1>4. ASSUME CloseFlags PROVE Ledger!Next \/ UNCHANGED Ledger!ledger
  <2> DEFINE told == {j \in cancellations \cap {activeJob} : phase[j] \in Cancellable}
  <2>1. requested' = requested \cup told /\ UNCHANGED <<phase, published, issued>>
    BY <1>4 DEF CloseFlags, arbiter
  <2>2. CASE told = {}
    BY <2>1, <2>2, LedgerRests
  <2>3. CASE told # {}
    <3>1. activeJob \in cancellations \cap Jobs /\ told = {activeJob}
          /\ phase[activeJob] \in Cancellable
      BY <2>3 DEF JobsInOrder, BooksTyped
    <3>2. PICK j \in Jobs : j = activeJob
      BY <3>1
    <3> QED
      BY <2>1, <3>1, <3>2, LedgerAsks DEF Ledger!Next
  <2> QED
    BY <2>2, <2>3
<1>5. ASSUME Advance PROVE UNCHANGED Ledger!ledger
  BY <1>5, LedgerAdvances
<1>6. ASSUME CallReturns PROVE Ledger!Next \/ UNCHANGED Ledger!ledger
  BY <1>6, LedgerPublishes DEF Ledger!Next
<1>7. ASSUME CancelWins \/ Complete PROVE Ledger!Next
  <2>1. work \in Active
    BY <1>7, WorkIsActive DEF CancelWins, Complete
  <2> QED
    BY <1>7, <2>1, LedgerSettles DEF CancelWins, Complete, Ends, Ledger!Next
<1>8. ASSUME CallRaises PROVE Ledger!Next
  <2>1. work \in Active
    BY <1>8, WorkIsActive DEF JobsInOrder, DeskInOrder, CallRaises
  <2>2. phase[work] = "persisting" => Verdict(work) = "failed"
    BY DEF Verdict
  <2>3. Verdict(work) \in {"cancelled", "failed"}
    BY DEF Verdict
  <2> QED
    BY <1>8, <2>1, <2>2, <2>3, LedgerSettles DEF CallRaises, Verdict, Ledger!Next
<1>9. ASSUME Take \/ TakeGhost \/ Progress \/ CloseBegins \/ CloseSignals \/ CloseReturns
             \/ OthersStep \/ UNCHANGED jobVars
      PROVE  UNCHANGED Ledger!ledger
  <2>1. UNCHANGED <<phase, requested, published>>
    BY <1>9 DEF Take, TakeGhost, Progress, CloseBegins, CloseSignals, CloseReturns,
                OthersStep, jobVars, book
  <2>2. \A j \in Jobs : j \in issued' <=> j \in issued
    BY <1>9 DEF Take, TakeGhost, Progress, CloseBegins, CloseOperations, CloseSignals,
                CloseReturns, OthersStep, BeginPlain, TakeLease, Finish, jobVars, arbiter
  <2> QED
    BY <2>1, <2>2, LedgerRests
<1>10. ASSUME NEW j \in Jobs, Signal(j) PROVE UNCHANGED Ledger!ledger
  BY <1>10, LedgerRests DEF Signal, book
<1> QED
  BY <1>1, <1>2, <1>3, <1>4, <1>5, <1>6, <1>7, <1>8, <1>9, <1>10 DEF JobNext, Worker, Closer

(* Whatever the interleaving, clients see what the ledger promises: one    *)
(* unfinished job, a cancellation that once accepted is the answer, no     *)
(* outcome that changes and a bounded history.                             *)
THEOREM JobsKeepTheLedger == JobSpec => Ledger!Spec
<1>1. JobSpec => []JobsInOrder
  BY JobsAlwaysInOrder
<1> QED
  BY <1>1, LedgerStarts, LedgerStep, PTL DEF JobSpec, Ledger!Spec
=============================================================================
