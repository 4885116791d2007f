SPECIFICATION Spec
CONSTANTS
  Drivers = {d1, d2}
  MaxLive = 2
  Duration = 4
  DayLen = 2
  Stream <- MCStream
  Upto <- MCUpto
  Event <- MCEvent
  Torn <- MCTorn
CHECK_DEADLOCK FALSE
PROPERTY ClosedIsFinal
