SPECIFICATION RecordSpec
CONSTANTS
  p1 = p1
  p2 = p2
  p3 = p3
  k1 = k1
  k2 = k2
  k3 = k3
  k4 = k4
  Stores <- MCStores
  Publishers = {p1, p2, p3}
  Keys = {k1, k2, k3, k4}
  KeyOf <- MCKeyOf
  GroupOf <- MCGroupOf
  MaxGroups = 1
  MaxRecords = 2
  Foreign = Foreign
  MaxForeign = 2
  None = None
INVARIANT RecordsAreWhole
INVARIANT OutcomeIsHonest
PROPERTY RecordsAreForever
PROPERTY LockComesBack
CHECK_DEADLOCK FALSE
