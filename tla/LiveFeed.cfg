SPECIFICATION FairSpec
CONSTANTS
  Dashboards = {"d"}
  Overlaps = {"o"}
  Words = {"mine", "theirs", "maybe"}
  TagLists <- NoteOrNothing
  Buffer = 2
  MaxJobs = 2
  MaxFaults = 1
INVARIANTS TypeOK AnswersAreOwn ChangesAnnounced
PROPERTIES FeedInOrder FeedServed DashboardsShowStore
CHECK_DEADLOCK FALSE
