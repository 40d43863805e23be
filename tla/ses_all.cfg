CONSTANTS
  notes = notes
  draft = draft
  None = None
  Files = {notes, draft}
  Existing = {notes}
  Args <- One
  Ways = {"inplace", "replace", "aside"}
  MaxSaves = 2
  Faults = {"publish", "kill", "watch"}
SPECIFICATION FairSpec
CHECK_DEADLOCK FALSE
INVARIANT SessionType
INVARIANT Chained
INVARIANT LastStored
INVARIANT CreatedStored
INVARIANT KeptBaseline
PROPERTY EventuallyStored
