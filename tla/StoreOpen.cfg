SPECIFICATION FairSpec
CONSTANTS
  Openers = {host, cli}
  Scripts <- MIGRATIONS
  OldVersions = {0, 5, 6, 7}
  MaxFaults = 1
INVARIANTS TypeOK OpenStoreIsWhole OnlyFaultsWedge LoneOpenSucceeds
PROPERTIES SchemaCompletes
