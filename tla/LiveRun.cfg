CONSTANTS
  Ticks = 2
  TickOf <- MCTickOf
  AgentOf <- MCAgentOf
  PerAgent = 2
  Total = 3
  Slots = 2
  Attempts = 2
  Keys = 3
SPECIFICATION Spec
INVARIANT CallsEndWithTheRun
PROPERTY LedgerSpec
PROPERTY StopReturns
CHECK_DEADLOCK FALSE
