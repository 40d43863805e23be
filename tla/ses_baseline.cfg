CONSTANTS
  notes = notes
  draft = draft
  None = None
  Files = {notes, draft}
  Existing = {notes}
  Args <- One
  Ways = {"replace"}
  MaxSaves = 2
  Faults = {}
SPECIFICATION Spec
CHECK_DEADLOCK FALSE
INVARIANT FirstBaseline
