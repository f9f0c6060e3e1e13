\* Metadata and one terminal frame on the shared sequence.
SPECIFICATION Spec
CONSTANTS
  Protocols = {2}
  HistoryCapacity = 1
  BroadcastCapacity = 2
  ReliableLimit = 2
  MaxSequence = 3
  MaxFrames = 1
  MaxDisconnects = 0
  MaxRestarts = 0
INVARIANTS RejectsOnlyDuplicates
CHECK_DEADLOCK FALSE
