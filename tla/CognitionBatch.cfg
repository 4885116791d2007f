SPECIFICATION FairSpec
CONSTANTS
  Count = 4
  Funded <- MCFunded
  Limit = 2
  Transient = 1
  Repairs = 1
INVARIANT CallsAreBounded
INVARIANT ProgressIsExact
INVARIANT OnlyTimelyAnswersCount
INVARIANT NoWorkerOutlivesItsBatch
PROPERTY Resolves
CHECK_DEADLOCK FALSE
