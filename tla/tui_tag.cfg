CONSTANTS
  hosts = hosts
  notes = notes
  etc = etc
  home = home
  None = None
  PathOrder <- BothFiles
  DirOrder <- BothDirs
  DirOf <- DirOfFile
  NameOf <- NameOfFile
  FieldOrder <- Fields
  Chars <- Letters
  Blank = "_"
  Texts <- Words
  Epochs = {1, 2}
  Starts <- Repositories
  MaxRevisions = 5
  MaxInput = 1
  MaxKeys = 3
  MaxPublished = 1
  Faults = {}
SPECIFICATION Spec
CHECK_DEADLOCK FALSE
PROPERTY TagsHighlighted
