CONSTANTS
  Population = 1
  CampaignCount = 2
  Placements <- MCBothFeeds
  Flight <- MCFlight
  Price <- MCPrice
  Ties = {}
  Scenes <- MCAlone
  Budget <- MCPurse
  Needy = {1}
  DayLen = 2
  Duration = 4
  Draws = 1
SPECIFICATION Spec
INVARIANT PaysForWhatItBuys
CHECK_DEADLOCK FALSE
