\* Two readers of a live terminal; a desktop client with two changes, clicks,
\* breaks, fences or failures of a call, in any combination.
SPECIFICATION ReadersSpec
CONSTANTS
  Readers = {r1, r2}
  ReadPhases = {"live"}
  BlockBytes = 2
  MaxBlocks = 2
  MaxIngest = 2
  MaxMessages = 3
  MaxSequence = 4
  MaxReads = 2
  MaxCloses = 0
  MaxBarriers = 1
  MaxCrashes = 0
  MaxFailures = 1
  Tabs = {1, 2}
  Terms = {1, 2}
  Ptys = {1, 2}
  MaxOutput = 1
  MaxUses = 2
INVARIANTS ExactPages DesktopSound
SYMMETRY ReaderSymmetry
CHECK_DEADLOCK FALSE
