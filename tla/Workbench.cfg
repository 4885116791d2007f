SPECIFICATION WorkbenchSpec
CONSTANTS
  r1 = r1
  Jobs = {job}
  Owner <- MCOwner
  Others <- MCOthers
  Checks = {c1, c2}
  Writes = {w1}
  Revisions = {r1, r2}
  Key = {k1, k2}
  NoKey = NoKey
  EnvKey = k1
  Scopes = {"explanation", "bounded"}
  NoJob = NoJob
  NoOwner = NoOwner
  Route <- MCRoute
  Keyed = {job}
  Funded <- MCFunded
  RevisionOf <- MCRevisionOf
  MaxTerminal = 1
  MaxStarts = 1
  Window = 2
  Horizon = 2
INVARIANT RateHolds
INVARIANT RefusedForCause
INVARIANT JobRunsOnCheckedKey
INVARIANT RecordsAreCurrent
PROPERTY CancelledChecksRecordNothing
PROPERTY ArbiterComesBack
CHECK_DEADLOCK FALSE
