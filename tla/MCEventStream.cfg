\* Metadata and terminal frames on the shared sequence, over either protocol:
\* network failures, a lagging broadcast receiver, a full reliable lane, and
\* (protocol 2) a host restart.
SPECIFICATION FairSpec
CONSTANTS
  Protocols = {1, 2}
  HistoryCapacity = 2
  BroadcastCapacity = 2
  ReliableLimit = 1
  MaxSequence = 4
  MaxFrames = 1
  MaxDisconnects = 2
  MaxRestarts = 1
INVARIANTS NothingLost OnlyFramesOvertake
PROPERTIES Converges
CHECK_DEADLOCK FALSE
