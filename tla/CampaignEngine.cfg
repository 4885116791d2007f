CONSTANTS
  Population = 3
  CampaignCount = 2
  Placements <- MCPlacements
  Flight <- MCFlight
  Price <- MCPrice
  Ties <- MCTies
  Scenes <- MCScenes
  Budget <- MCBudget
  Needy = {1, 3}
  DayLen = 3
  Duration = 6
  Draws = 2
SPECIFICATION Spec
INVARIANT CapsHold
INVARIANT OneMessagePerDay
INVARIANT ResumedRunIsTheSame
CHECK_DEADLOCK FALSE
