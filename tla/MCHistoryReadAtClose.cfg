\* A page is read while the archive is finalised.
SPECIFICATION Spec
CONSTANTS
  Readers = {r1}
  ReadPhases = {"ended"}
  BlockBytes = 2
  MaxBlocks = 2
  MaxIngest = 1
  MaxMessages = 1
  MaxSequence = 1
  MaxReads = 1
  MaxCloses = 1
  MaxBarriers = 0
  MaxCrashes = 0
  MaxFailures = 0
INVARIANTS ExactPages
CHECK_DEADLOCK FALSE
