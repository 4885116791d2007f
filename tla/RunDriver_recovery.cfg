SPECIFICATION Spec
CONSTANTS
  Drivers = {d1, d2, d3}
  MaxLive = 1
  Duration = 4
  DayLen = 2
  Stream <- MCStream
  Upto <- MCUpto
  Event <- MCEvent
  Torn <- MCTorn
INVARIANT StreamIsCanonical
INVARIANT ExportNeverLeads
INVARIANT CheckpointsAreExact
INVARIANT ClosedRunAccountsForItsStream
INVARIANT PersistBeforePublish
PROPERTY ResumeIsExact
PROPERTY ReaderSpec
CHECK_DEADLOCK FALSE
