SPECIFICATION Spec
CONSTANTS
  Callers = {"s1", "s2", "cli"}
  ProcessOf <- TwoProcesses
  Server = "server"
  AgentNames = {"coder"}
  OtherNames = {"ana"}
  MachineNames = {"desk", "laptop", "local"}
  Local = "local"
  Reporters <- AgentAndLocal
  Files = {"f"}
  LastLine = 1
  Prompts = {"fix"}
  ResolutionKinds = {"AcceptA"}
  Window = 2
  CallTime = 1
  MaxReports = 2
  MaxTime = 2
  MaxFaults = 1
INVARIANTS TypeOK OneOverlapPerPair EditorsAreRegistered EveryConflictReported OverlapsAreConflicts
PROPERTIES AgentKept
CHECK_DEADLOCK FALSE
