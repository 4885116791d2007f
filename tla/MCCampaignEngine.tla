-------------------------- MODULE MCCampaignEngine ---------------------------
(* Two days of three ticks and three agents: the first two share a phone    *)
(* habit and a tie that needs a common zone, the third is reached online.   *)
EXTENDS CampaignEngine, TLC

Phone == [activity |-> "phone-check", zone |-> "online", route |-> "none"]
Commuting == [activity |-> "commute", zone |-> "centre", route |-> "ring"]
Asleep == [activity |-> "sleep", zone |-> "home", route |-> "none"]

Feed(c, slots, cap) == [campaign |-> c, channel |-> "mobile-feed",
                        place |-> "online", slots |-> slots, cap |-> cap]
Board(c, cap) == [campaign |-> c, channel |-> "highway-billboard",
                  place |-> "ring", slots |-> {0, 1}, cap |-> cap]

MCPlacements == <<Feed(1, {0, 1, 2}, 3), Feed(1, {0}, 3), Board(2, 3)>>
MCFlight == 1 :> [from |-> 0, until |-> 6] @@ 2 :> [from |-> 1, until |-> 6]
MCPrice == 1 :> 2 @@ 2 :> 1
MCTies == {[ends |-> {1, 2}, online |-> FALSE], [ends |-> {2, 3}, online |-> TRUE]}
MCScenes == {<<Phone, Phone, Asleep>>, <<Phone, Phone, Home>>,
             <<Commuting, Phone, Home>>}
MCBudget == <<2, 0, 1>>

(* For the purchases alone: one agent, two campaigns on its phone at once.  *)
MCBothFeeds == <<Feed(1, {0, 1}, 3), Feed(2, {0, 1}, 3)>>
MCAlone == {<<Phone>>, <<Home>>}
MCPurse == <<4>>
=============================================================================
