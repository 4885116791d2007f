CONSTANTS
  Ticks = 5
  TickOf <- MCNoRequests
  AgentOf <- MCNoRequests
  PerAgent = 1
  Total = 1
  Slots = 1
  Attempts = 1
  Keys = 6
SPECIFICATION Spec
INVARIANT StepAdvancesOneTick
CHECK_DEADLOCK FALSE
