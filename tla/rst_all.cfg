CONSTANTS
  Contents = {c1, c2, c3}
  Restorers = {r1}
  session = session
  None = None
  MaxRevisions = 3
  MaxSaves = 1
  MaxFaults = 2
SPECIFICATION Spec
CHECK_DEADLOCK FALSE
INVARIANT RestoreType
INVARIANT PriorKept
INVARIANT MirrorAccounted
PROPERTY FailedUndone
SYMMETRY Alike
