CONSTANTS
  bedit = bedit
  bvi = bvi
  vi = vi
  page = page
  None = None
  i1 = i1
  i2 = i2
  u1 = u1
  u2 = u2
  NAMES <- TwoCommands
  Editors <- OneEditor
  LEGACY_EDITORS <- OneEditor
  Pages <- OnePage
  WrapperOf <- Wrapper
  Instances = {i1, i2}
  UserFiles = {u1, u2}
  Touched = {vi, page}
  Scopes = {"user"}
  Configs = {None}
  EditorOf <- Named
  SystemEditors = {vi}
  Users = {"alice", "bob"}
SPECIFICATION Spec
CHECK_DEADLOCK FALSE
INVARIANT InstallerType
INVARIANT UserFilesKept
INVARIANT CommandsLead
INVARIANT RefusalsExplained
INVARIANT UninstallRestores
INVARIANT InstallCompletes
INVARIANT EditorReached
SYMMETRY Alike
