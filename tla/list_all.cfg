CONSTANTS
  p1 = p1
  p2 = p2
  t1 = t1
  hosts = hosts
  etc = etc
  dir1 = dir1
  dir2 = dir2
  None = None
  Names = {hosts}
  Keys = {etc}
  KeyOf <- OneKey
  MaxRevision = 2
  Publishers = {p1, p2}
  Taggers = {}
  NameOf <- OneName
  Foreign = {p2}
  Faults = {"crash", "write"}
  Dirs = {dir1, dir2}
  DirOf <- OneDir
SPECIFICATION ListingSpec
CHECK_DEADLOCK FALSE
INVARIANT RowsReadable
INVARIANT ListingType
INVARIANT CompletedListed
INVARIANT CompletedPrinted
INVARIANT RenderedRight
INVARIANT FullyPublished
