------------------------ MODULE CampaignEngineProofs ------------------------
(***************************************************************************)
(* What the social accumulators and the checkpoint of the engine rest on,  *)
(* for any population, any campaigns and any draws.  The accumulators hold *)
(* a key of everything said today and are empty at a day boundary, which   *)
(* is the only place a checkpoint is taken.  What a placement has delivered*)
(* in a campaign and channel never passes the highest cap among them, as   *)
(* each of them stops at its own.                                          *)
(***************************************************************************)
EXTENDS CampaignEngine, FiniteSetTheorems, WellFoundedInduction, TLAPS

(* An engine is the record of its five fields.                             *)
Whole(e) ==
  e = [clock |-> e.clock, next |-> e.next, states |-> e.states,
       edges |-> e.edges, messages |-> e.messages]

BoundaryIsEmpty ==
  DayBoundary(live.clock) => live.edges = {} /\ live.messages = {}

TwinsAreLive ==
  /\ Whole(live)
  /\ BoundaryIsEmpty
  /\ \A t \in twins : t = live

(* Within a day, what was said today is in the accumulators.               *)
TalkIsKept ==
  ~ DayBoundary(live.clock) =>
    \A s \in talk :
      /\ MessageKey(live.clock, s.campaign, s.from) \in live.messages
      /\ EdgeKey(live.clock, s.campaign, s.from, s.to) \in live.edges

TalkIsSound ==
  /\ live.clock \in Nat
  /\ \A s \in talk : s.from \in Agents
  /\ TalkIsKept
  /\ OneMessagePerDay

-----------------------------------------------------------------------------

(* Two ticks with no boundary at the second belong to one day.             *)
LEMMA SameDay ==
  ASSUME NEW n \in Nat, ~ DayBoundary(n + 1)
  PROVE  Day(n + 1) = Day(n)
<1> DEFINE q == n \div DayLen
           r == n % DayLen
<1>1. DayLen \in Nat /\ DayLen > 0
  BY SizesAreNat
<1>2. q \in Nat /\ r \in Nat /\ r < DayLen /\ n = DayLen * q + r
  BY <1>1
<1>3. n + 1 = DayLen * q + (r + 1)
  BY <1>1, <1>2
<1>4. r + 1 # DayLen
  <2> SUFFICES ASSUME r + 1 = DayLen PROVE FALSE
    OBVIOUS
  <2>1. n + 1 = DayLen * (q + 1)
    BY <1>1, <1>2, <1>3
  <2>2. (DayLen * (q + 1)) % DayLen = 0
    BY <1>1, <1>2
  <2> QED
    BY <2>1, <2>2 DEF DayBoundary
<1>5. r + 1 < DayLen
  BY <1>1, <1>2, <1>4
<1>6. (n + 1) \div DayLen = q
  BY <1>1, <1>2, <1>3, <1>5
<1> QED
  BY <1>6 DEF Day

(* What a tick makes of the clock and of the accumulators.                 *)
LEMMA OutcomeOf ==
  ASSUME NEW e, NEW d
  PROVE  LET f == Outcome(e, d).engine
             said == Outcome(e, d).said
             ends == DayBoundary(e.clock + 1)
         IN /\ Whole(f)
            /\ f.clock = e.clock + 1
            /\ f.edges = Accumulated(e.edges,
                 {EdgeKey(e.clock, s.campaign, s.from, s.to) : s \in said}, ends)
            /\ f.messages = Accumulated(e.messages,
                 {MessageKey(e.clock, s.campaign, s.from) : s \in said}, ends)
  BY DEF Outcome, Whole

-----------------------------------------------------------------------------
(* A tick grows its batch placement by placement. *)

(* Induction over the naturals, on a set of them. *)
LEMMA EveryNatural ==
  ASSUME NEW S \in SUBSET Nat, 0 \in S, \A n \in S : n + 1 \in S
  PROVE  S = Nat
<1> DEFINE less == OpToRel(<, Nat)
           rest == Nat \ S
<1>1. \A i, j \in Nat : <<j, i>> \in less <=> j < i
  BY DEF OpToRel
<1>2. IsWellFoundedOn(less, Nat)
  BY NatLessThanWellFounded
<1> HIDE DEF less
<1>3. ASSUME rest # {} PROVE FALSE
  <2>1. PICK n \in rest : \A m \in rest : ~ (<<m, n>> \in less)
    BY <1>2, <1>3, WFMin
  <2>2. n \in Nat /\ n # 0 /\ n - 1 \in Nat /\ n - 1 < n
    BY <2>1
  <2>3. n - 1 \in S
    BY <1>1, <2>1, <2>2
  <2> QED
    BY <2>1, <2>2, <2>3
<1> QED
  BY <1>3

(* The batch up to placement n, when `sofar` is what went before it.        *)
Grown(e, a, spot, n, sofar) ==
  LET p == Placements[n]
      earlier == {m \in sofar : SameCount(Placements[m], p)}
      count == e.states[a].seen[<<p.campaign, p.channel>>] + Cardinality(earlier)
  IN IF Open(p, e.clock) /\ Reaches(spot, p) /\ count < p.cap THEN sofar \cup {n} ELSE sofar

Grows(e, a, spot, batch) ==
  /\ batch[0] = {}
  /\ \A n \in 1 .. Len(Placements) : batch[n] = Grown(e, a, spot, n, batch[n - 1])
  /\ Delivered(e, a, spot) = batch[Len(Placements)]

LEMMA DeliveredGrows ==
  ASSUME NEW e, NEW a, NEW spot
  PROVE  \E batch : Grows(e, a, spot, batch)
<1> DEFINE last == Len(Placements)
           after(f, n) == IF n = 0 THEN {} ELSE Grown(e, a, spot, n, f[n - 1])
           fits(f, k) == f = [n \in 0 .. k |-> after(f, n)]
           known == {k \in Nat : \E f : fits(f, k)}
<1>1. 0 \in known
  <2> DEFINE f == [n \in 0 .. 0 |-> {}]
  <2>1. \A n \in 0 .. 0 : n = 0
    OBVIOUS
  <2>2. fits(f, 0)
    BY <2>1
  <2> QED
    BY <2>2
<1>2. ASSUME NEW k \in known PROVE k + 1 \in known
  <2>1. PICK f : fits(f, k)
    BY <1>2
  <2> DEFINE top == Grown(e, a, spot, k + 1, f[k])
             g == [n \in 0 .. k + 1 |-> IF n = k + 1 THEN top ELSE f[n]]
  <2>2. k \in Nat /\ \A n \in 0 .. k + 1 : n = k + 1 \/ n \in 0 .. k
    OBVIOUS
  <2>3. \A n \in 0 .. k : f[n] = after(f, n)
    BY <2>1
  <2>4. \A n \in 0 .. k : g[n] = f[n]
    BY <2>2
  <2>5. \A n \in 0 .. k + 1 : g[n] = after(g, n)
    <3> TAKE n \in 0 .. k + 1
    <3>1. CASE n = 0
      BY <2>2, <2>3, <3>1
    <3>2. CASE n \in 0 .. k /\ n # 0
      <4>1. n - 1 \in 0 .. k
        BY <2>2, <3>2
      <4> QED
        BY <2>3, <2>4, <3>2, <4>1
    <3>3. CASE n = k + 1
      <4>1. n # 0 /\ n - 1 = k /\ k \in 0 .. k
        BY <2>2, <3>3
      <4> QED
        BY <2>4, <3>3, <4>1
    <3> QED
      BY <2>2, <3>1, <3>2, <3>3
  <2> HIDE DEF top
  <2>6. g = [n \in 0 .. k + 1 |-> after(g, n)]
    BY <2>5
  <2>7. fits(g, k + 1)
    BY <2>6
  <2> HIDE DEF g, fits
  <2> QED
    BY <2>2, <2>7
<1>3. \E f : fits(f, last)
  <2>1. known = Nat
    <3> HIDE DEF known
    <3>1. known \in SUBSET Nat
      BY DEF known
    <3> QED
      BY <1>1, <1>2, <3>1, EveryNatural
  <2> QED
    BY <2>1, PlacementsAreTyped
<1> DEFINE batch == CHOOSE f : fits(f, last)
<1>4. fits(batch, last)
  BY <1>3
<1>5. Delivered(e, a, spot) = batch[last]
  BY DEF Delivered, Grown
<1> HIDE DEF batch
<1>6. batch[0] = {} /\ \A n \in 1 .. last : batch[n] = Grown(e, a, spot, n, batch[n - 1])
  <2>1. \A n \in 0 .. last : batch[n] = after(batch, n)
    BY <1>4
  <2> QED
    BY <2>1, PlacementsAreTyped
<1> QED
  BY <1>5, <1>6 DEF Grows

(* What is delivered are placements, so that they have an order. *)
LEMMA DeliveredRange ==
  ASSUME NEW e, NEW a, NEW spot
  PROVE  Delivered(e, a, spot) \subseteq 1 .. Len(Placements)
<1> DEFINE last == Len(Placements)
<1>1. PICK batch : Grows(e, a, spot, batch)
  BY DeliveredGrows
<1> DEFINE good == {n \in Nat : n <= last => batch[n] \subseteq 1 .. n}
<1>2. 0 \in good
  BY <1>1 DEF Grows
<1>3. ASSUME NEW n \in good, n + 1 <= last PROVE batch[n + 1] \subseteq 1 .. n + 1
  <2>1. n + 1 \in 1 .. last /\ (n + 1) - 1 = n /\ n \in Nat /\ n <= last
    BY <1>3, PlacementsAreTyped
  <2>2. batch[n + 1] = Grown(e, a, spot, n + 1, batch[n])
    BY <1>1, <2>1 DEF Grows
  <2>3. batch[n] \subseteq 1 .. n /\ 1 .. n \subseteq 1 .. n + 1 /\ n + 1 \in 1 .. n + 1
    BY <2>1
  <2> QED
    BY <2>2, <2>3 DEF Grown
<1>4. good = Nat
  <2>1. good \in SUBSET Nat /\ \A n \in good : n + 1 \in good
    BY <1>3
  <2> HIDE DEF good
  <2> QED
    BY <1>2, <2>1, EveryNatural
<1> QED
  BY <1>1, <1>4, PlacementsAreTyped DEF Grows

-----------------------------------------------------------------------------
(* What is said in one tick is new to its day, comes from an agent, and    *)
(* neither leaves a sender twice nor crosses an edge twice.                *)
LEMMA SaidOnce ==
  ASSUME NEW e, NEW d, NEW s \in Outcome(e, d).said
  PROVE  /\ Fresh(e, s)
         /\ s.from \in Agents
         /\ \A t \in Outcome(e, d).said :
              s # t /\ s.campaign = t.campaign =>
                s.from # t.from /\ {s.from, s.to} # {t.from, t.to}
<1> DEFINE heeded == Opportunities(e, d.scene) \cap d.heeds
           candidates == Candidates(e, d.scene, heeded, d.tells)
           said == Outcome(e, d).said
<1>1. said = Accepted(e, candidates)
  BY DEF Outcome
<1>2. \A t \in said :
        /\ t \in candidates /\ Fresh(e, t)
        /\ \A u \in candidates :
             ~ (/\ u.campaign = t.campaign /\ Fresh(e, u)
                /\ \/ u.from = t.from /\ u.cause < t.cause
                   \/ u.from = t.to /\ u.to = t.from /\ u.from < t.from)
  BY <1>1 DEF Accepted
<1>3. \A an \in heeded : an[1] \in Agents /\ an[2] \in Nat
  <2>1. \A a \in Agents : Delivered(e, a, d.scene[a]) \subseteq 1 .. Len(Placements)
    BY DeliveredRange
  <2>2. 1 .. Len(Placements) \subseteq Nat
    BY PlacementsAreTyped
  <2>3. \A an \in heeded : \E a \in Agents : an \in {a} \X Delivered(e, a, d.scene[a])
    BY DEF Opportunities
  <2> HIDE DEF heeded
  <2> QED
    BY <2>1, <2>2, <2>3
<1> DEFINE made(a, n, c) ==
             [at |-> e.clock, cause |-> n, from |-> a, campaign |-> c,
              to |-> Receiver(Contacts(e, d.scene, a, c), d.tells[<<a, c>>])]
<1>4. \A t \in candidates :
        /\ t.from \in Agents /\ t.cause \in Nat
        /\ t = made(t.from, t.cause, t.campaign)
  <2> HIDE DEF heeded
  <2> SUFFICES ASSUME NEW t \in candidates
               PROVE  /\ t.from \in Agents /\ t.cause \in Nat
                      /\ t = made(t.from, t.cause, t.campaign)
    OBVIOUS
  <2>1. PICK an \in heeded :
          t = [at |-> e.clock, cause |-> an[2], from |-> an[1], campaign |-> CampaignOf(an)[2],
               to |-> Receiver(Contacts(e, d.scene, an[1], CampaignOf(an)[2]),
                               d.tells[CampaignOf(an)])]
    BY DEF Candidates
  <2>2. CampaignOf(an) = <<an[1], CampaignOf(an)[2]>>
    BY DEF CampaignOf
  <2> QED
    BY <1>3, <2>1, <2>2
<1> HIDE DEF candidates, heeded, made
<1>5. ASSUME NEW t \in said, s # t, s.campaign = t.campaign
      PROVE  s.from # t.from /\ {s.from, s.to} # {t.from, t.to}
  <2>1. s.from # t.from
    <3>1. ASSUME s.from = t.from PROVE FALSE
      <4>1. s.cause # t.cause
        BY <1>2, <1>4, <1>5, <3>1
      <4>2. s.cause < t.cause \/ t.cause < s.cause
        BY <1>2, <1>4, <4>1
      <4> QED
        BY <1>2, <1>5, <3>1, <4>2
    <3> QED
      BY <3>1
  <2>2. s.from \in Nat /\ t.from \in Nat
    BY <1>2, <1>4, SizesAreNat DEF Agents
  <2>3. ASSUME {s.from, s.to} = {t.from, t.to} PROVE FALSE
    <3>1. s.from = t.to /\ t.from = s.to
      BY <2>1, <2>3
    <3>2. s.from < t.from \/ t.from < s.from
      BY <2>1, <2>2
    <3> QED
      BY <1>2, <1>5, <3>1, <3>2
  <2> QED
    BY <2>1, <2>3
<1> QED
  BY <1>2, <1>4, <1>5

-----------------------------------------------------------------------------

LEMMA TwinsStart == Init => TwinsAreLive
  BY DEF Init, TwinsAreLive, Whole, BoundaryIsEmpty

LEMMA TwinsStep == TwinsAreLive /\ [Next]_vars => TwinsAreLive'
<1> SUFFICES ASSUME TwinsAreLive, [Next]_vars PROVE TwinsAreLive'
  OBVIOUS
<1>1. CASE Tick
  <2>1. PICK d \in Decisions(live) :
          /\ live' = Outcome(live, d).engine
          /\ twins' = {Outcome(t, d).engine : t \in twins}
    BY <1>1 DEF Tick
  <2>2. Whole(live') /\ BoundaryIsEmpty'
    BY <2>1, OutcomeOf DEF BoundaryIsEmpty, Accumulated
  <2>3. \A t \in twins' : t = live'
    BY <2>1 DEF TwinsAreLive
  <2> QED
    BY <2>2, <2>3 DEF TwinsAreLive, Whole
<1>2. CASE Restore
  <2>1. live.edges = {} /\ live.messages = {}
    BY <1>2 DEF Restore, CheckpointAdmitted, TwinsAreLive, BoundaryIsEmpty
  <2>2. Restored(live) = live
    BY <2>1 DEF Restored, TwinsAreLive, Whole
  <2> QED
    BY <1>2, <2>2 DEF Restore, TwinsAreLive, Whole, BoundaryIsEmpty
<1>3. CASE UNCHANGED vars
  BY <1>3 DEF vars, TwinsAreLive, Whole, BoundaryIsEmpty
<1> QED
  BY <1>1, <1>2, <1>3 DEF Next

(* A run restored from any of its checkpoints is the run itself, whatever  *)
(* the draws: what the driver's resume assumes of the engine.              *)
THEOREM ResumeIsTheRun == Spec => []ResumedRunIsTheSame
<1>1. TwinsAreLive => ResumedRunIsTheSame
  BY DEF TwinsAreLive, ResumedRunIsTheSame
<1> QED
  BY <1>1, TwinsStart, TwinsStep, PTL DEF Spec

-----------------------------------------------------------------------------

LEMMA TalkStart == Init => TalkIsSound
  BY DEF Init, TalkIsSound, TalkIsKept, OneMessagePerDay

LEMMA TalkStep == TalkIsSound /\ [Next]_vars => TalkIsSound'
<1> SUFFICES ASSUME TalkIsSound, [Next]_vars PROVE TalkIsSound'
  OBVIOUS
<1>1. CASE Tick
  <2> DEFINE boundary == DayBoundary(live.clock)
  <2>1. PICK d \in Decisions(live) :
          /\ live' = Outcome(live, d).engine
          /\ talk' = Outcome(live, d).said
                     \cup (IF boundary THEN {} ELSE talk)
    BY <1>1 DEF Tick
  <2> DEFINE said == Outcome(live, d).said
  <2>2. live'.clock = live.clock + 1
    BY <2>1, OutcomeOf
  <2>3. \A s \in said :
          /\ Fresh(live, s) /\ s.from \in Agents
          /\ \A t \in said :
               s # t /\ s.campaign = t.campaign =>
                 s.from # t.from /\ {s.from, s.to} # {t.from, t.to}
    BY SaidOnce
  <2>4. ASSUME ~ DayBoundary(live.clock + 1)
        PROVE  /\ live'.edges = live.edges \cup
                    {EdgeKey(live.clock, s.campaign, s.from, s.to) : s \in said}
               /\ live'.messages = live.messages \cup
                    {MessageKey(live.clock, s.campaign, s.from) : s \in said}
    BY <2>1, <2>4, OutcomeOf DEF Accumulated
  <2> HIDE DEF said
  <2>5. TalkIsKept'
    <3> SUFFICES ASSUME ~ DayBoundary(live.clock + 1), NEW s \in talk'
                 PROVE  /\ MessageKey(live.clock + 1, s.campaign, s.from)
                             \in live'.messages
                        /\ EdgeKey(live.clock + 1, s.campaign, s.from, s.to)
                             \in live'.edges
      BY <2>2 DEF TalkIsKept
    <3>1. Day(live.clock + 1) = Day(live.clock)
      BY SameDay DEF TalkIsSound
    <3>2. /\ MessageKey(live.clock, s.campaign, s.from) \in live'.messages
          /\ EdgeKey(live.clock, s.campaign, s.from, s.to) \in live'.edges
      <4>1. CASE s \in said
        BY <2>4, <4>1
      <4>2. CASE s \in talk /\ ~ boundary
        BY <2>4, <4>2 DEF TalkIsSound, TalkIsKept
      <4> QED
        BY <2>1, <4>1, <4>2 DEF said
    <3> QED
      BY <3>1, <3>2 DEF MessageKey, EdgeKey
  <2>6. ASSUME NEW s \in talk', NEW t \in talk',
               s # t, s.campaign = t.campaign
        PROVE  s.from # t.from /\ {s.from, s.to} # {t.from, t.to}
    <3>1. ASSUME NEW x \in said, NEW y \in talk, ~ boundary,
                 x.campaign = y.campaign
          PROVE  x.from # y.from /\ {x.from, x.to} # {y.from, y.to}
      <4>1. /\ MessageKey(live.clock, x.campaign, x.from) \notin live.messages
            /\ EdgeKey(live.clock, x.campaign, x.from, x.to) \notin live.edges
        BY <2>3 DEF Fresh
      <4>2. /\ MessageKey(live.clock, y.campaign, y.from) \in live.messages
            /\ EdgeKey(live.clock, y.campaign, y.from, y.to) \in live.edges
        BY <3>1 DEF TalkIsSound, TalkIsKept
      <4> QED
        BY <3>1, <4>1, <4>2 DEF MessageKey, EdgeKey
    <3>2. CASE s \in said /\ t \in said
      BY <2>3, <2>6, <3>2
    <3>3. CASE s \in said /\ t \in talk /\ ~ boundary
      BY <2>6, <3>1, <3>3
    <3>4. CASE t \in said /\ s \in talk /\ ~ boundary
      BY <2>6, <3>1, <3>4
    <3>5. CASE s \in talk /\ t \in talk
      BY <2>6, <3>5 DEF TalkIsSound, OneMessagePerDay
    <3> QED
      BY <2>1, <3>2, <3>3, <3>4, <3>5 DEF said
  <2>7. \A s \in talk' : s.from \in Agents
    BY <2>1, <2>3 DEF TalkIsSound, said
  <2>8. live'.clock \in Nat
    BY <2>2 DEF TalkIsSound
  <2> QED
    BY <2>5, <2>6, <2>7, <2>8 DEF TalkIsSound, OneMessagePerDay
<1>2. CASE Restore
  BY <1>2 DEF Restore, TalkIsSound, TalkIsKept, OneMessagePerDay
<1>3. CASE UNCHANGED vars
  BY <1>3 DEF vars, TalkIsSound, TalkIsKept, OneMessagePerDay
<1> QED
  BY <1>1, <1>2, <1>3 DEF Next

(* A campaign's message leaves a sender once a day and crosses an edge     *)
(* once a day, however the agents move, notice and tell.                   *)
THEOREM WordOfMouthIsBounded == Spec => []OneMessagePerDay
<1>1. TalkIsSound => OneMessagePerDay
  BY DEF TalkIsSound
<1> QED
  BY <1>1, TalkStart, TalkStep, PTL DEF Spec

-----------------------------------------------------------------------------
(* Frequency caps.  Each placement of a batch is counted before the next    *)
(* is judged; so a count passes no cap that is above it already, however    *)
(* many placements a tick delivers at once.                                 *)

Key(n) == <<Placements[n].campaign, Placements[n].channel>>

Delivers(batch, k) == {m \in batch : Key(m) = k}

LEMMA KeysAreCounted ==
  \A n \in 1 .. Len(Placements) : Key(n) \in Campaigns \X Channels /\ Placements[n].cap \in Nat
BY PlacementsAreTyped DEF Key

(* A batch within a count: all its placements are delivered, and no count   *)
(* that was under a bound on the caps of its key goes over it.              *)
Within(e, a, batch, n) ==
  /\ batch \subseteq 1 .. n
  /\ \A k \in Campaigns \X Channels, bound \in Nat :
       /\ \A m \in 1 .. Len(Placements) : Key(m) = k => Placements[m].cap <= bound
       /\ e.states[a].seen[k] <= bound
       => e.states[a].seen[k] + Cardinality(Delivers(batch, k)) <= bound

LEMMA GrownStaysWithin ==
  ASSUME NEW e, NEW a, NEW spot, NEW n \in 1 .. Len(Placements), NEW batch,
         e.states[a].seen \in [Campaigns \X Channels -> Nat], Within(e, a, batch, n - 1)
  PROVE  Within(e, a, Grown(e, a, spot, n, batch), n)
<1> DEFINE seen == e.states[a].seen
<1>1. Len(Placements) \in Nat /\ n \in Nat /\ 1 .. (n - 1) \subseteq 1 .. n
  BY PlacementsAreTyped
<1>2. batch \subseteq 1 .. (n - 1) /\ n \notin batch /\ IsFiniteSet(batch)
  <2>1. IsFiniteSet(1 .. (n - 1))
    BY <1>1, FS_Interval
  <2>2. batch \subseteq 1 .. (n - 1)
    BY DEF Within
  <2>3. n \notin 1 .. (n - 1)
    BY <1>1
  <2> QED
    BY <2>1, <2>2, <2>3, FS_Subset
<1>3. \A k : /\ IsFiniteSet(Delivers(batch, k)) /\ Cardinality(Delivers(batch, k)) \in Nat
             /\ n \notin Delivers(batch, k)
  BY <1>2, FS_Subset, FS_CardinalityType DEF Delivers
<1>4. CASE Grown(e, a, spot, n, batch) = batch
  BY <1>1, <1>4 DEF Within
<1>5. CASE Grown(e, a, spot, n, batch) # batch
  <2> DEFINE key == Key(n)
  <2>1. /\ Grown(e, a, spot, n, batch) = batch \cup {n}
        /\ seen[key] + Cardinality(Delivers(batch, key)) < Placements[n].cap
    <3>1. {m \in batch : SameCount(Placements[m], Placements[n])} = Delivers(batch, key)
      BY DEF SameCount, Delivers, Key
    <3> QED
      BY <1>5, <3>1 DEF Grown, Key
  <2>2. /\ Delivers(batch \cup {n}, key) = Delivers(batch, key) \cup {n}
        /\ \A k : k # key => Delivers(batch \cup {n}, k) = Delivers(batch, k)
    BY DEF Delivers
  <2>3. Cardinality(Delivers(batch \cup {n}, key)) = Cardinality(Delivers(batch, key)) + 1
    BY <1>3, <2>2, FS_AddElement
  <2>4. ASSUME NEW k \in Campaigns \X Channels, NEW bound \in Nat,
               \A m \in 1 .. Len(Placements) : Key(m) = k => Placements[m].cap <= bound,
               seen[k] <= bound
        PROVE  seen[k] + Cardinality(Delivers(batch \cup {n}, k)) <= bound
    <3>1. CASE k = key
      <4>1. Placements[n].cap <= bound /\ Placements[n].cap \in Nat /\ seen[key] \in Nat
        BY <2>4, <3>1, KeysAreCounted
      <4>2. Cardinality(Delivers(batch, key)) \in Nat
        BY <1>3
      <4> QED
        BY <2>1, <2>3, <3>1, <4>1, <4>2
    <3>2. CASE k # key
      BY <2>2, <2>4, <3>2 DEF Within
    <3> QED
      BY <3>1, <3>2
  <2>5. batch \cup {n} \subseteq 1 .. n
    BY <1>1, <1>2
  <2> QED
    BY <2>1, <2>4, <2>5 DEF Within
<1> QED
  BY <1>4, <1>5

LEMMA DeliveredStaysWithin ==
  ASSUME NEW e, NEW a, NEW spot, e.states[a].seen \in [Campaigns \X Channels -> Nat]
  PROVE  Within(e, a, Delivered(e, a, spot), Len(Placements))
<1> DEFINE last == Len(Placements)
<1>1. PICK batch : Grows(e, a, spot, batch)
  BY DeliveredGrows
<1>2. /\ batch[0] = {} /\ Delivered(e, a, spot) = batch[last]
      /\ \A n \in 1 .. last : batch[n] = Grown(e, a, spot, n, batch[n - 1])
  BY <1>1 DEF Grows
<1> DEFINE good == {n \in Nat : n <= last => Within(e, a, batch[n], n)}
<1>3. 0 \in good
  <2>1. \A k : Delivers({}, k) = {}
    BY DEF Delivers
  <2>2. Cardinality({}) = 0
    BY FS_EmptySet
  <2>3. \A k \in Campaigns \X Channels : e.states[a].seen[k] \in Nat
    OBVIOUS
  <2>4. ASSUME NEW k \in Campaigns \X Channels, NEW bound \in Nat,
               e.states[a].seen[k] <= bound
        PROVE  e.states[a].seen[k] + Cardinality(Delivers({}, k)) <= bound
    <3> DEFINE count == e.states[a].seen[k]
    <3>1. count \in Nat /\ count <= bound
      BY <2>3, <2>4
    <3>2. Cardinality(Delivers({}, k)) = 0
      BY <2>1, <2>2
    <3> HIDE DEF count
    <3>3. count + 0 <= bound
      BY <3>1
    <3> QED
      BY <3>2, <3>3 DEF count
  <2>5. Within(e, a, {}, 0)
    BY <2>4 DEF Within
  <2> QED
    BY <1>2, <2>5
<1>4. ASSUME NEW n \in good PROVE n + 1 \in good
  <2> SUFFICES ASSUME n + 1 <= last PROVE Within(e, a, batch[n + 1], n + 1)
    OBVIOUS
  <2>1. n + 1 \in 1 .. last /\ (n + 1) - 1 = n /\ n \in Nat /\ n <= last
    BY PlacementsAreTyped
  <2>2. Within(e, a, batch[n], (n + 1) - 1)
    BY <2>1
  <2>3. batch[n + 1] = Grown(e, a, spot, n + 1, batch[n])
    BY <1>2, <2>1
  <2> QED
    BY <2>1, <2>2, <2>3, GrownStaysWithin
<1>5. good = Nat
  <2>1. good \in SUBSET Nat
    OBVIOUS
  <2> HIDE DEF good
  <2> QED
    BY <1>3, <1>4, <2>1, EveryNatural
<1> QED
  BY <1>2, <1>5, PlacementsAreTyped

(* The caps of some placements have a highest one.                          *)
LEMMA HighestCap ==
  ASSUME NEW R \in SUBSET (1 .. Len(Placements)), R # {}
  PROVE  LET top == Max({Placements[m].cap : m \in R})
         IN top \in Nat /\ \A m \in R : Placements[m].cap <= top
<1> DEFINE caps == {Placements[m].cap : m \in R}
           highest(T) == \E h \in T : \A m \in T : Placements[m].cap <= Placements[h].cap
           good == {n \in Nat : R \cap (1 .. n) # {} => highest(R \cap (1 .. n))}
<1>1. \A m \in R : Placements[m].cap \in Nat /\ m \in Nat
  BY PlacementsAreTyped
<1>2. 0 \in good
  <2>1. R \cap (1 .. 0) = {}
    OBVIOUS
  <2> QED
    BY <2>1
<1>3. ASSUME NEW n \in good PROVE n + 1 \in good
  <2>1. CASE n + 1 \notin R
    <3>1. R \cap (1 .. n + 1) = R \cap (1 .. n)
      BY <1>1, <2>1
    <3> QED
      BY <3>1
  <2>2. CASE n + 1 \in R
    <3>1. R \cap (1 .. n + 1) = (R \cap (1 .. n)) \cup {n + 1}
      BY <1>1, <2>2
    <3>2. CASE R \cap (1 .. n) = {}
      <4>1. R \cap (1 .. n + 1) = {n + 1}
        BY <3>1, <3>2
      <4>2. Placements[n + 1].cap <= Placements[n + 1].cap
        BY <1>1, <2>2
      <4> QED
        BY <4>1, <4>2
    <3>3. CASE R \cap (1 .. n) # {}
      <4>1. PICK h \in R \cap (1 .. n) :
                   \A m \in R \cap (1 .. n) : Placements[m].cap <= Placements[h].cap
        BY <3>3
      <4> DEFINE t == IF Placements[h].cap <= Placements[n + 1].cap THEN n + 1 ELSE h
      <4>2. /\ t \in R \cap (1 .. n + 1)
            /\ \A m \in R \cap (1 .. n + 1) : Placements[m].cap <= Placements[t].cap
        BY <1>1, <2>2, <3>1, <4>1
      <4> HIDE DEF t
      <4> QED
        BY <4>2
    <3> QED
      BY <3>2, <3>3
  <2> QED
    BY <2>1, <2>2
<1>4. good = Nat
  <2>1. good \in SUBSET Nat
    OBVIOUS
  <2> HIDE DEF good
  <2> QED
    BY <1>2, <1>3, <2>1, EveryNatural
<1>5. R \cap (1 .. Len(Placements)) = R /\ Len(Placements) \in Nat
  BY PlacementsAreTyped
<1>6. highest(R)
  BY <1>4, <1>5
<1>7. \E x \in caps : \A y \in caps : x >= y
  BY <1>1, <1>6
<1>8. Max(caps) \in caps /\ \A y \in caps : Max(caps) >= y
  BY <1>7 DEF Max
<1> QED
  BY <1>1, <1>8

(* What the caps need of the consumers' states. *)
State(s) == s = [spot |-> s.spot, need |-> s.need, budget |-> s.budget, seen |-> s.seen]

CapsInOrder ==
  /\ \A a \in Agents : /\ State(live.states[a])
                       /\ live.states[a].seen \in [Campaigns \X Channels -> Nat]
  /\ CapsHold

LEMMA CapsStart == Init => CapsInOrder
<1> SUFFICES ASSUME Init PROVE CapsInOrder
  OBVIOUS
<1>1. \A a \in Agents : /\ State(live.states[a])
                        /\ live.states[a].seen = [k \in Campaigns \X Channels |-> 0]
  BY DEF Init, State
<1>2. ASSUME NEW a \in Agents, NEW n \in 1 .. Len(Placements)
      PROVE  LET p == Placements[n]
                 rivals == {m \in 1 .. Len(Placements) : SameCount(Placements[m], p)}
             IN live.states[a].seen[<<p.campaign, p.channel>>]
                  <= Max({Placements[m].cap : m \in rivals})
  <2> DEFINE rivals == {m \in 1 .. Len(Placements) : SameCount(Placements[m], Placements[n])}
  <2>1. n \in rivals /\ rivals \in SUBSET (1 .. Len(Placements))
    BY DEF SameCount
  <2>2. Max({Placements[m].cap : m \in rivals}) \in Nat
    BY <2>1, HighestCap
  <2>3. live.states[a].seen[<<Placements[n].campaign, Placements[n].channel>>] = 0
    BY <1>1, PlacementsAreTyped
  <2> QED
    BY <2>2, <2>3
<1>3. \A a \in Agents : live.states[a].seen \in [Campaigns \X Channels -> Nat]
  BY <1>1
<1>4. CapsHold
  BY <1>2 DEF CapsHold
<1> QED
  BY <1>1, <1>3, <1>4 DEF CapsInOrder

(* What a tick makes of the counts of one agent: each goes up by the        *)
(* placements of its key that the tick delivered.                           *)
ShowsWhatItDelivered(e, d, a) ==
  LET s == Outcome(e, d).engine.states[a]
      batch == Delivered(e, a, d.scene[a])
  IN /\ State(s)
     /\ s.seen = [k \in Campaigns \X Channels |->
                    e.states[a].seen[k] + Cardinality(Delivers(batch, k))]

LEMMA StateAfter ==
  ASSUME NEW e, NEW d, NEW a \in Agents, State(e.states[a]),
         e.states[a].seen \in [Campaigns \X Channels -> Nat]
  PROVE  ShowsWhatItDelivered(e, d, a)
<1> DEFINE batch == Delivered(e, a, d.scene[a])
           opportunities == Opportunities(e, d.scene)
           mine == {an[2] : an \in {o \in opportunities : o[1] = a}}
           state == e.states[a]
           shown == Shown(state, d.scene[a], mine)
           noticed == CampaignsOf(opportunities \cap d.heeds)
           bought == Bought(e, noticed, d.buys, a)
           after == Outcome(e, d).engine.states[a]
<1>1. after = Spent(shown, bought)
  BY DEF Outcome
<1>2. mine = batch
  <2>1. \A o \in opportunities : \E b \in Agents : o \in {b} \X Delivered(e, b, d.scene[b])
    BY DEF Opportunities
  <2>2. \A o \in opportunities : o[1] = a => o[2] \in batch
    BY <2>1
  <2>3. \A n \in batch : <<a, n>> \in opportunities
    BY DEF Opportunities
  <2> HIDE DEF opportunities, batch
  <2>4. mine \subseteq batch
    BY <2>2
  <2>5. \A n \in batch : <<a, n>>[1] = a /\ <<a, n>>[2] = n
    OBVIOUS
  <2> QED
    BY <2>3, <2>4, <2>5
<1>3. /\ State(shown)
      /\ shown.seen = [k \in Campaigns \X Channels |->
                         state.seen[k] + Cardinality(Delivers(batch, k))]
  <2>1. \A k : {p \in mine : <<Placements[p].campaign, Placements[p].channel>> = k}
                = Delivers(batch, k)
    BY <1>2 DEF Delivers, Key
  <2> DEFINE counts == [k \in DOMAIN state.seen |-> state.seen[k] + Cardinality(
             {p \in mine : <<Placements[p].campaign, Placements[p].channel>> = k})]
  <2>2. shown = [[state EXCEPT !.spot = d.scene[a]] EXCEPT !.seen = counts]
    BY DEF Shown
  <2> HIDE DEF mine, batch, counts, shown
  <2>3. State(shown) /\ shown.seen = counts
    BY <2>2 DEF State
  <2>4. DOMAIN state.seen = Campaigns \X Channels
    OBVIOUS
  <2> QED
    BY <2>1, <2>3, <2>4 DEF counts
<1>4. State(after) /\ after.seen = shown.seen
  <2> HIDE DEF shown, bought, after
  <2> QED
    BY <1>1, <1>3 DEF Spent, State
<1> QED
  BY <1>3, <1>4 DEF ShowsWhatItDelivered

LEMMA CapsStep == CapsInOrder /\ [Next]_vars => CapsInOrder'
<1> SUFFICES ASSUME CapsInOrder, [Next]_vars PROVE CapsInOrder'
  OBVIOUS
<1>1. CASE UNCHANGED live
  BY <1>1 DEF CapsInOrder, CapsHold
<1>2. CASE Tick
  <2>1. PICK d \in Decisions(live) : live' = Outcome(live, d).engine
    BY <1>2 DEF Tick
  <2> DEFINE batch(a) == Delivered(live, a, d.scene[a])
  <2>2. ASSUME NEW a \in Agents
        PROVE  /\ State(live'.states[a])
               /\ live'.states[a].seen = [k \in Campaigns \X Channels |->
                    live.states[a].seen[k] + Cardinality(Delivers(batch(a), k))]
    <3>1. State(live.states[a]) /\ live.states[a].seen \in [Campaigns \X Channels -> Nat]
      BY DEF CapsInOrder
    <3>2. ShowsWhatItDelivered(live, d, a)
      BY <3>1, StateAfter
    <3> QED
      BY <2>1, <3>2 DEF ShowsWhatItDelivered
  <2>3. ASSUME NEW a \in Agents
        PROVE  live'.states[a].seen \in [Campaigns \X Channels -> Nat]
    <3>1. Within(live, a, batch(a), Len(Placements))
      BY DeliveredStaysWithin DEF CapsInOrder
    <3>2. IsFiniteSet(batch(a))
      <4>1. IsFiniteSet(1 .. Len(Placements))
        BY PlacementsAreTyped, FS_Interval
      <4>2. batch(a) \subseteq 1 .. Len(Placements)
        BY <3>1 DEF Within
      <4> QED
        BY <4>1, <4>2, FS_Subset
    <3>3. \A k : Cardinality(Delivers(batch(a), k)) \in Nat
      BY <3>2, FS_Subset, FS_CardinalityType DEF Delivers
    <3>4. \A k \in Campaigns \X Channels : live.states[a].seen[k] \in Nat
      BY DEF CapsInOrder
    <3> HIDE DEF batch
    <3>5. \A k \in Campaigns \X Channels :
            live.states[a].seen[k] + Cardinality(Delivers(batch(a), k)) \in Nat
      BY <3>3, <3>4
    <3> QED
      BY <2>2, <3>5
  <2>4. ASSUME NEW a \in Agents, NEW n \in 1 .. Len(Placements)
        PROVE  LET p == Placements[n]
                   rivals == {m \in 1 .. Len(Placements) : SameCount(Placements[m], p)}
               IN live'.states[a].seen[<<p.campaign, p.channel>>]
                    <= Max({Placements[m].cap : m \in rivals})
    <3> DEFINE rivals == {m \in 1 .. Len(Placements) : SameCount(Placements[m], Placements[n])}
               top == Max({Placements[m].cap : m \in rivals})
               k == Key(n)
    <3>1. n \in rivals /\ rivals \in SUBSET (1 .. Len(Placements))
      BY DEF SameCount
    <3>2. top \in Nat /\ \A m \in rivals : Placements[m].cap <= top
      BY <3>1, HighestCap
    <3>3. \A m \in 1 .. Len(Placements) : Key(m) = k => Placements[m].cap <= top
      BY <3>2 DEF SameCount, Key
    <3>4. live.states[a].seen[k] <= top /\ k \in Campaigns \X Channels
      BY KeysAreCounted DEF CapsInOrder, CapsHold, Key
    <3>5. Within(live, a, batch(a), Len(Placements))
      BY DeliveredStaysWithin DEF CapsInOrder
    <3> HIDE DEF top, k, batch
    <3>6. live.states[a].seen[k] + Cardinality(Delivers(batch(a), k)) <= top
      BY <3>2, <3>3, <3>4, <3>5 DEF Within
    <3>7. live'.states[a].seen[k] <= top
      BY <2>2, <3>4, <3>6
    <3> QED
      BY <3>7 DEF top, k, Key
  <2> QED
    BY <2>2, <2>3, <2>4 DEF CapsInOrder, CapsHold
<1>3. CASE Restore
  BY <1>1, <1>3 DEF Restore
<1> QED
  BY <1>1, <1>2, <1>3 DEF Next, vars

(* However many placements of a campaign compete for an agent in one tick,  *)
(* and however the caps of the placements differ, the agent is never shown  *)
(* the campaign on a channel more often than the highest of them allows.    *)
THEOREM CapsAlwaysHold == Spec => []CapsHold
<1>1. Init => CapsInOrder
  BY CapsStart
<1>2. CapsInOrder /\ [Next]_vars => CapsInOrder'
  BY CapsStep
<1>3. CapsInOrder => CapsHold
  BY DEF CapsInOrder
<1> QED
  BY <1>1, <1>2, <1>3, PTL DEF Spec
=============================================================================
