SPECIFICATION Spec
CONSTANTS
  alpha = alpha
  beta = beta
  desk = desk
  laptop = laptop
  Projects = {alpha, beta}
  Launches <- Defaults
  Messages <- AnyMessages
  Frames <- SomeFrames
  MaxMessages = 1
  MaxStarts = 2
  MaxFaults = 0
INVARIANTS CallsStayInProject
CHECK_DEADLOCK FALSE
