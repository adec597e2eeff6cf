SPECIFICATION FairSpec
CONSTANTS
  Machines = {h, a}
  Host = h
  NumPaths = 2
  Ancestors <- FlatTree
  Contents = {c1, c2}
  Oversized = {}
  FetchLimit = 1
  Editors = {a}
  FilePaths = {1, 2}
  FolderPaths = {}
  FaultKinds = {"refuse", "lose", "fetch", "save"}
  MaxEdits = 3
  MaxFaults = 1
PROPERTIES EditorsFilesArrive
