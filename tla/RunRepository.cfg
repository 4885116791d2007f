SPECIFICATION RepositorySpec
CONSTANTS
  a = a
  s1 = s1
  s2 = s2
  q1 = q1
  q2 = q2
  Runs = {a}
  Savers = {s1, s2}
  RunOf <- MCRunOf
  Pinned = {s1}
  Readers = {q1, q2}
  Scenarios <- MCScenarios
  Nobody = Nobody
  Docs = 2
  MaxEdits = 2
INVARIANT SavedRunIsWhole
INVARIANT LoadedRunIsWhole
INVARIANT ServedAsObserved
PROPERTY OnlyStaleIsForgotten
PROPERTY ArchiveSpec
CHECK_DEADLOCK FALSE
