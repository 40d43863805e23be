CONSTANTS
  p1 = p1
  p2 = p2
  p3 = p3
  t1 = t1
  hosts = hosts
  etc = etc
  None = None
  Names = {hosts}
  Keys = {etc}
  KeyOf <- OneKey
  MaxRevision = 2
  Publishers = {p1, p2, p3}
  Taggers = {}
  NameOf <- OneFile
  Foreign = {p2}
  Faults = {"crash"}
SPECIFICATION Spec
CHECK_DEADLOCK FALSE
INVARIANT NoSpuriousFailure
SYMMETRY Alike
