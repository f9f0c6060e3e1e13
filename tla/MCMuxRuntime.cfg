\* Two clients, a crash and a fault, one terminal that is restarted.
SPECIFICATION FairSpec
CONSTANTS
  Callers = {c1, c2}
  MaxTerminals = 1
  MaxProcesses = 2
  MaxRenames = 1
  MaxCommands = 3
  MaxFaults = 1
  MaxCrashes = 1
INVARIANTS ProcessInv CatalogueIsTrue
PROPERTIES ExitRecorded
CHECK_DEADLOCK FALSE
