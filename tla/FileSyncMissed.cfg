SPECIFICATION Spec
CONSTANTS
  Machines = {h, a}
  Host = h
  NumPaths = 1
  Ancestors <- OneFile
  Contents = {c1}
  Oversized = {}
  FetchLimit = 2
  Editors = {h, a}
  FilePaths = {1}
  FolderPaths = {}
  FaultKinds = {}
  MaxEdits = 2
  MaxFaults = 0
INVARIANTS NothingMissed
