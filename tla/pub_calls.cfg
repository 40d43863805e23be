CONSTANTS
  p1 = p1
  p2 = p2
  p3 = p3
  t1 = t1
  hosts = hosts
  etc = etc
  None = None
  Names = {hosts}
  Keys = {etc}
  KeyOf <- OneKey
  MaxRevision = 2
  Publishers = {p1, p2, p3}
  Taggers = {t1}
  NameOf <- OneFile
  Foreign = {}
  Faults = {"crash", "write"}
SPECIFICATION Spec
CHECK_DEADLOCK FALSE
INVARIANT TypeOK
INVARIANT FailuresExplained
INVARIANT VisibleRenders
INVARIANT TagsMatch
INVARIANT NoGaps
SYMMETRY Alike
