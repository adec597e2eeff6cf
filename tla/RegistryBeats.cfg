SPECIFICATION FairSpec
CONSTANTS
  Clients = {"w1", "w2", "w3"}
  MachineOf <- LaptopAndDesk
  HostMachine = "desk"
  Beat = 3
  OfflineAfter = 10
  MaxDelay = 1
  MaxLosses = 1
  MaxFaults = 1
INVARIANTS TypeOK SteadyMachineOnline OnlineMeansHeard
PROPERTIES ClientsReturn
