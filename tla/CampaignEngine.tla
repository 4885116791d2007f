--------------------------- MODULE CampaignEngine ---------------------------
(* The engine of a campaign run: what one tick plans and commits. Movement,  *)
(* placements under their frequency caps, attention, word of mouth bounded   *)
(* per day, the purchase proxy and the end of a day; and an engine restored  *)
(* from a day boundary's checkpoint, driven by the same draws.               *)
(*                                                                           *)
(* A draw of the oracle is a choice: it depends only on the seed and on the  *)
(* agent, campaign and minute it is keyed with, so the live engine and a     *)
(* restored one get the same. Scores, sentiments and recall are left out.    *)
EXTENDS Naturals, Sequences, FiniteSetsExt

CONSTANTS
  Population,    \* agents 1 .. Population, in the order of their identifiers
  CampaignCount, \* campaigns 1 .. CampaignCount, in that order too
  Placements,    \* in sampling order: [campaign, channel, place, slots, cap]
  Flight,        \* campaign -> [from, until]
  Price,         \* campaign -> its price
  Ties,          \* relationships: [ends, online]
  Scenes,        \* where a tick's routines may put the agents
  Budget, Needy, \* agent -> money at the start; the agents with a need
  DayLen, Duration, \* ticks of a day and of the run
  Draws          \* how finely a receiver's draw is told apart

Agents == 1 .. Population
Campaigns == 1 .. CampaignCount
Channels == {"mobile-feed", "highway-billboard"}
Home == [activity |-> "leisure", zone |-> "home", route |-> "none"]

ASSUME SizesAreNat ==
  /\ {Population, CampaignCount, DayLen, Duration, Draws} \subseteq Nat \ {0}
  /\ Duration % DayLen = 0
  /\ Budget \in [Agents -> Nat] /\ Price \in [Campaigns -> Nat \ {0}]

(* A placement is of a campaign, on a channel, with its frequency cap. *)
ASSUME PlacementsAreTyped ==
  /\ Len(Placements) \in Nat
  /\ \A n \in 1 .. Len(Placements) :
       /\ Placements[n].campaign \in Campaigns /\ Placements[n].channel \in Channels
       /\ Placements[n].cap \in Nat

ASSUME TiesArePairs ==
  \A t \in Ties : t.ends \in SUBSET Agents /\ Cardinality(t.ends) = 2

VARIABLES
  live,    \* the engine of the run
  twins,   \* the engines restored from its checkpoints
  talk,    \* the messages of the day, with their minutes and causes (history)
  paid     \* agent -> the prices of its recorded purchases (history)

vars == <<live, twins, talk, paid>>

Day(minute) == minute \div DayLen
DayBoundary(minute) == minute % DayLen = 0

-----------------------------------------------------------------------------
(* Exposure. A placement is delivered where its agent is, in its windows and *)
(* its campaign's flight, while the agent's count on the channel, with what  *)
(* this tick already delivers, is below the placement's own cap.             *)

Reaches(spot, p) ==
  IF p.channel = "mobile-feed"
  THEN spot.activity = "phone-check" /\ spot.zone = p.place
  ELSE spot.activity = "commute" /\ spot.route = p.place

Open(p, minute) ==
  /\ Flight[p.campaign].from <= minute /\ minute < Flight[p.campaign].until
  /\ minute % DayLen \in p.slots

SameCount(p, q) == p.campaign = q.campaign /\ p.channel = q.channel

(* A slip: the cap is compared with what earlier ticks delivered only.      *)
Delivered_Unprojected(e, a, spot) ==
  {n \in 1 .. Len(Placements) :
     LET p == Placements[n]
     IN /\ Open(p, e.clock) /\ Reaches(spot, p)
        /\ e.states[a].seen[<<p.campaign, p.channel>>] < p.cap}

Delivered(e, a, spot) ==
  LET batch[n \in 0 .. Len(Placements)] ==
        IF n = 0 THEN {} ELSE
        LET p == Placements[n]
            earlier == {m \in batch[n - 1] : SameCount(Placements[m], p)}
            count == e.states[a].seen[<<p.campaign, p.channel>>]
                     + Cardinality(earlier)
        IN IF Open(p, e.clock) /\ Reaches(spot, p) /\ count < p.cap
           THEN batch[n - 1] \cup {n} ELSE batch[n - 1]
  IN batch[Len(Placements)]

Opportunities(e, scene) ==
  UNION {{a} \X Delivered(e, a, scene[a]) : a \in Agents}

CampaignOf(an) == <<an[1], Placements[an[2]].campaign>>

CampaignsOf(opportunities) == {CampaignOf(an) : an \in opportunities}

-----------------------------------------------------------------------------
(* Word of mouth. A noticed campaign may travel to one contact drawn among   *)
(* those this day has not carried it between; a sender's message advances    *)
(* once a day and an edge carries a campaign once a day, either way. Agents  *)
(* are taken in order, so of two that pick each other the first one speaks.  *)

EdgeKey(minute, c, a, b) == <<Day(minute), c, {a, b}>>
MessageKey(minute, c, a) == <<Day(minute), c, a>>

InContact(scene, a, b) ==
  /\ scene[a].activity # "sleep" /\ scene[b].activity # "sleep"
  /\ \E t \in Ties : /\ t.ends = {a, b}
                     /\ scene[a].zone = scene[b].zone \/ t.online

Contacts(e, scene, a, c) ==
  {b \in Agents : /\ InContact(scene, a, b)
                  /\ EdgeKey(e.clock, c, a, b) \notin e.edges}

Receiver(contacts, draw) ==
  CHOOSE b \in contacts :
    Cardinality({x \in contacts : x < b}) =
      (draw * Cardinality(contacts)) \div Draws

(* A candidate for each placement heeded: several of one campaign share the *)
(* draw, and with it the receiver.                                          *)
Candidates(e, scene, heeded, tells) ==
  {[at |-> e.clock, cause |-> an[2], from |-> an[1], campaign |-> CampaignOf(an)[2],
    to |-> Receiver(Contacts(e, scene, an[1], CampaignOf(an)[2]), tells[CampaignOf(an)])] :
     an \in {x \in heeded : /\ CampaignOf(x) \in DOMAIN tells
                            /\ Contacts(e, scene, x[1], CampaignOf(x)[2]) # {}}}

Fresh(e, s) ==
  /\ MessageKey(e.clock, s.campaign, s.from) \notin e.messages
  /\ EdgeKey(e.clock, s.campaign, s.from, s.to) \notin e.edges

(* Before: the same message for an earlier cause, or its receiver's own.    *)
Accepted(e, candidates) ==
  {s \in candidates :
     /\ Fresh(e, s)
     /\ ~\E t \in candidates :
          /\ t.campaign = s.campaign /\ Fresh(e, t)
          /\ \/ t.from = s.from /\ t.cause < s.cause
             \/ t.from = s.to /\ t.to = s.from /\ t.from < s.from}

-----------------------------------------------------------------------------
(* Purchases. Each campaign an agent in need noticed this tick is judged,    *)
(* and applied, on the state the agent had before the first of them.         *)

Bought(e, noticed, buyers, a) ==
  {c \in Campaigns : /\ <<a, c>> \in noticed \cap buyers
                     /\ e.states[a].need
                     /\ Price[c] <= e.states[a].budget}

Spent(state, bought) ==
  IF bought = {} THEN state
  ELSE [state EXCEPT !.budget = @ - Price[Max(bought)], !.need = FALSE]

-----------------------------------------------------------------------------
(* One tick, from the plan to the clock's advance. The draws say where each  *)
(* agent goes, what it heeds, tells and buys, and whom it would tell.        *)

Moves(from, to) ==
  (IF from.activity # to.activity THEN 1 ELSE 0)
  + (IF from.zone # to.zone \/ from.route # to.route THEN 1 ELSE 0)

Shown(state, spot, placements) ==
  [state EXCEPT
     !.spot = spot,
     !.seen = [k \in DOMAIN @ |-> @[k] + Cardinality(
       {p \in placements : <<Placements[p].campaign,
                             Placements[p].channel>> = k})]]

SumOver(f) == MapThenSumSet(LAMBDA x : f[x], DOMAIN f)

(* A slip: each tick's keys replace the ones the day has accumulated.        *)
Accumulated_LastTick(old, new, ends) == IF ends THEN {} ELSE new

Accumulated(old, new, ends) == IF ends THEN {} ELSE old \cup new

(* The tick's outcome, its clock already advanced, with what was said and    *)
(* bought in it; an opportunity, a noticed placement and a message mint three *)
(* events each, a purchase two, a day's end one per agent.                   *)
Outcome(e, d) ==
  LET opportunities == Opportunities(e, d.scene)
      heeded == opportunities \cap d.heeds
      noticed == CampaignsOf(heeded)
      said == Accepted(e, Candidates(e, d.scene, heeded, d.tells))
      bought == [a \in Agents |-> Bought(e, noticed, d.buys, a)]
      ends == DayBoundary(e.clock + 1)
  IN [said |-> said,
      bought |-> bought,
      engine |->
        [clock |-> e.clock + 1,
         next |->
           e.next
           + SumOver([a \in Agents |-> Moves(e.states[a].spot, d.scene[a])])
           + 3 * (Cardinality(opportunities) + Cardinality(heeded)
                  + Cardinality(said))
           + 2 * SumOver([a \in Agents |-> Cardinality(bought[a])])
           + (IF ends THEN Population ELSE 0)
           + (IF e.clock + 1 = Duration THEN 1 ELSE 0),
         states |-> [a \in Agents |->
           Spent(Shown(e.states[a], d.scene[a],
                       {an[2] : an \in {o \in opportunities : o[1] = a}}),
                 bought[a])],
         edges |-> Accumulated(e.edges,
           {EdgeKey(e.clock, s.campaign, s.from, s.to) : s \in said}, ends),
         messages |-> Accumulated(e.messages,
           {MessageKey(e.clock, s.campaign, s.from) : s \in said}, ends)]]

(* What the routines, the oracle and the cognition answers may decide.       *)
Decisions(e) ==
  UNION {
    LET opportunities == Opportunities(e, scene)
    IN UNION {
      LET pairs == CampaignsOf(heeds)
      IN [scene : {scene}, heeds : {heeds}, buys : SUBSET pairs,
          tells : UNION {[tellers -> 0 .. Draws - 1] :
                           tellers \in SUBSET pairs}] :
      heeds \in SUBSET opportunities} :
    scene \in Scenes}

-----------------------------------------------------------------------------
(* The run.                                                                  *)

Init ==
  /\ live = [clock |-> 0, next |-> 1, edges |-> {}, messages |-> {},
             states |-> [a \in Agents |->
               [spot |-> Home, need |-> a \in Needy, budget |-> Budget[a],
                seen |-> [k \in Campaigns \X Channels |-> 0]]]]
  /\ twins = {} /\ talk = {}
  /\ paid = [a \in Agents |-> 0]

Tick ==
  /\ live.clock # Duration
  /\ \E d \in Decisions(live) :
       LET outcome == Outcome(live, d) IN
       /\ live' = outcome.engine
       /\ twins' = {Outcome(t, d).engine : t \in twins}
       /\ talk' = outcome.said \cup (IF DayBoundary(live.clock) THEN {} ELSE talk)
       /\ paid' = [a \in Agents |->
            paid[a] + SumOver([c \in outcome.bought[a] |-> Price[c]])]

(* A slip: a checkpoint is taken at any tick.                                *)
CheckpointAdmitted_Anywhere(e) == TRUE

CheckpointAdmitted(e) == DayBoundary(e.clock)

(* A checkpoint carries the minute, the sequence and the states; the engine  *)
(* restored from it starts with empty accumulators.                          *)
Restored(e) ==
  [clock |-> e.clock, next |-> e.next, states |-> e.states,
   edges |-> {}, messages |-> {}]

Restore ==
  /\ CheckpointAdmitted(live)
  /\ twins' = twins \cup {Restored(live)}
  /\ UNCHANGED <<live, talk, paid>>

Next == Tick \/ Restore

Spec == Init /\ [][Next]_vars

-----------------------------------------------------------------------------
(* A placement's cap bounds what its agent is ever shown of its campaign on  *)
(* its channel, although a tick may deliver several placements at once.      *)
CapsHold ==
  \A a \in Agents, n \in 1 .. Len(Placements) :
    LET p == Placements[n]
        rivals == {m \in 1 .. Len(Placements) : SameCount(Placements[m], p)}
    IN live.states[a].seen[<<p.campaign, p.channel>>]
         <= Max({Placements[m].cap : m \in rivals})

(* On one day a campaign's message leaves a sender once and crosses the edge *)
(* between two agents once, in one direction only, however many ticks, and   *)
(* placements of one tick, notice the campaign again. Messages are told      *)
(* apart by their minute and cause, so an exact repeat counts as a second.   *)
OneMessagePerDay ==
  \A s, t \in talk :
    /\ s # t
    /\ s.campaign = t.campaign
    => s.from # t.from /\ {s.from, s.to} # {t.from, t.to}

(* An engine restored from a checkpoint goes on exactly as the one that made *)
(* it: the same minute, the same sequence numbers, the same consumers.       *)
ResumedRunIsTheSame ==
  \A t \in twins :
    t.clock = live.clock /\ t.next = live.next /\ t.states = live.states

(* What the budget lost is what the recorded purchases cost.                 *)
PaysForWhatItBuys ==
  \A a \in Agents : live.states[a].budget + paid[a] = Budget[a]
=============================================================================
