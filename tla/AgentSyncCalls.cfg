SPECIFICATION Spec
CONSTANTS
  server = server
  cli = cli
  f = f
  g = g
  Syncers = {server, cli}
  Files = {f, g}
  NoFile = NoFile
  Kinds = {"text", "binary", "large"}
  FileLists <- NamedFiles
  Since = 0
  MaxEdits = 2
  MaxTime = 1
  MaxFaults = 1
SYMMETRY SyncerSymmetry
INVARIANTS TypeOK NoEditForgotten CandidatesAreReported SyncedOnce
CHECK_DEADLOCK FALSE
