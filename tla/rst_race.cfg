CONSTANTS
  Contents = {c1, c2, c3}
  Restorers = {r1}
  session = session
  None = None
  MaxRevisions = 2
  MaxSaves = 1
  MaxFaults = 0
SPECIFICATION Spec
CHECK_DEADLOCK FALSE
PROPERTY NothingLost
