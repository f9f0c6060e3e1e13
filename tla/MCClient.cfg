SPECIFICATION Spec
CONSTANTS
  MaxSeq = 4
  MaxGen = 1
  MaxMounts = 2
  MaxTrouble = 1
  BufferMax = 1
  RingMax = 2
  TailMax = 1
  PageMax = 1
  Races = {}
  Slots = 2
  MaxUpdates = 2
  MaxAsked = 3
  MaxFaults = 1
  MayDispose = TRUE
  Terminals = {"a", "b", "c"}
  MaxInFlight = 1
  Quantum = 1
  Rounds = 1
  MaxBytes = 4
  MaxQueued = 3
  Costs = {1, 3}
  Weights = {1, 2}
  MaxKeys = 3
  MaxResets = 1
  Current = "c"
  Remote = {"a"}
  Versions = {1, 2}
  MaxObjs = 3
  MaxCalls = 2
  MaxNews = 1
  Sessions = {1, 2}
  MaxTab = 2
  Terms = {1, 2}
  MaxChanges = 3
  MaxDrops = 1
  MaxAsks = 1
  Unordered = {}
  Requests = {1, 2}
  Invokes = {1}
  MaxUnseen = 1
  MaxMishaps = 2
  MaxWakes = 2
  PieceSizes = {1, 3, 6}
  MaxPending = 4
  PerFlush = 2
  Interactive = 1
  MaxParts = 3
  MaxTogether = 3
INVARIANTS NoHole WorkersSound RoutesHome StoreCoherent StoreAgrees OwnSocket AckedInOrder
PROPERTIES Settles
CHECK_DEADLOCK FALSE
