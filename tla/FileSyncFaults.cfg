SPECIFICATION Spec
CONSTANTS
  Machines = {h, a}
  Host = h
  NumPaths = 2
  Ancestors <- FolderWithFile
  Contents = {c1, c2, big}
  Oversized = {big}
  FetchLimit = 1
  Editors = {h, a}
  FilePaths = {2}
  FolderPaths = {1}
  FaultKinds = {"refuse", "lose", "fetch", "apply", "remove", "save", "crash"}
  MaxEdits = 2
  MaxFaults = 1
INVARIANTS TypeOK RememberedFilesArePublished MissedOnlyBehindOwnPush InSyncFileIsNewestKnown
PROPERTIES OverwritesPublishedOrUnscanned
