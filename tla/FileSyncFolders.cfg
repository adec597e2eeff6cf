SPECIFICATION FairSpec
CONSTANTS
  Machines = {h, a}
  Host = h
  NumPaths = 2
  Ancestors <- FolderWithFile
  Contents = {c1, c2}
  Oversized = {}
  FetchLimit = 1
  Editors = {a}
  FilePaths = {1, 2}
  FolderPaths = {1}
  FaultKinds = {"fetch", "save"}
  MaxEdits = 3
  MaxFaults = 1
INVARIANTS ReceiverReplaysLog ReceiversNeverPublish
PROPERTIES Convergence
