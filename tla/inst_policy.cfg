CONSTANTS
  bedit = bedit
  bvi = bvi
  vi = vi
  page = page
  None = None
  i1 = i1
  i2 = i2
  u1 = u1
  u2 = u2
  NAMES <- OneCommand
  Editors <- NoNames
  LEGACY_EDITORS <- NoNames
  Pages <- NoNames
  WrapperOf <- NoNames
  Instances = {i1, i2}
  UserFiles = {}
  Touched = {}
  Scopes = {"machine", "user"}
  Configs <- AnyConfig
  EditorOf <- NoEditor
  SystemEditors = {}
  Users = {"alice", "bob"}
SPECIFICATION Spec
CHECK_DEADLOCK FALSE
PROPERTY PolicyHolds
