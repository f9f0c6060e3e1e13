\* Two clients and two terminals where one fits; an archive whose process crashes
\* between any two writes to the disk, reads after the restart, full mailboxes,
\* the quota, and two closes; one owner with commands and output in six stories.
SPECIFICATION HostSpec
CONSTANTS
  Callers = {c1, c2}
  MaxEntries = 1
  LaneCapacity = 2
  OutputCapacity = 1
  MaxTerminals = 2
  MaxFaults = 1
  Readers = {r1}
  ReadPhases = {"recovered"}
  BlockBytes = 2
  MaxBlocks = 1
  MaxIngest = 2
  MaxMessages = 2
  MaxSequence = 4
  MaxReads = 1
  MaxCloses = 2
  MaxBarriers = 1
  MaxCrashes = 1
  MaxFailures = 0
  OwnerLane = 3
  BatchMessages = 3
  BatchBytes = 2
  TurnBytes = 2
  NormalPerTurn = 1
  MaxReplay = 4
  ExitedReplay = 1
  CheckpointBytes = 3
  InputRoom = 1
INVARIANTS HostInv RecordsAndInputSound
PROPERTIES ExitIsLast ImplementsLog HostSettles
CHECK_DEADLOCK FALSE
