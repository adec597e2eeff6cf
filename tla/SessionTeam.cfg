SPECIFICATION FairSpec
CONSTANTS
  alpha = alpha
  beta = beta
  desk = desk
  laptop = laptop
  Projects = {alpha, beta}
  Launches <- TeamsAndWindows
  Messages <- SomeMessages
  Frames <- SomeFrames
  MaxMessages = 2
  MaxStarts = 3
  MaxFaults = 1
INVARIANTS TypeOK AnswersFollowRequests NoCallTwice VerdictsAreTrue
PROPERTIES RequestsAnswered RestartKeepsSettings
CHECK_DEADLOCK FALSE
