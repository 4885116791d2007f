SPECIFICATION FairJobSpec
CONSTANTS
  bounded = bounded
  explained = explained
  plain = plain
  other = other
  Jobs <- MCJobs
  Owner <- MCOwner
  Others = {other}
  NoJob = NoJob
  NoOwner = NoOwner
  Route <- MCRoute
  Keyed = {bounded, explained}
  Funded <- MCFunded
  MaxTerminal = 2
  MaxStarts = 5
  Window = 60
  Horizon = 0
INVARIANT LeaseFollowsJob
INVARIANT ViewsAreLegal
INVARIANT HistoryIsTheRecords
INVARIANT SecretsDieWithTheirJob
INVARIANT ClosedIsQuiet
PROPERTY CloseDrains
PROPERTY LedgerSpec
CHECK_DEADLOCK FALSE
