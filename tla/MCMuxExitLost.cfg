\* One client creates one terminal whose process ends at once.
SPECIFICATION Spec
CONSTANTS
  Callers = {c1}
  MaxTerminals = 1
  MaxProcesses = 1
  MaxRenames = 0
  MaxCommands = 1
  MaxFaults = 0
  MaxCrashes = 0
INVARIANTS NoExitLost
CHECK_DEADLOCK FALSE
