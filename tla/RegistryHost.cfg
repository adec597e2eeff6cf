SPECIFICATION Spec
CONSTANTS
  Clients = {"w2"}
  MachineOf <- LaptopAndDesk
  HostMachine = "desk"
  Beat = 3
  OfflineAfter = 10
  MaxDelay = 1
  MaxLosses = 1
  MaxFaults = 1
INVARIANTS HostShownOnline
