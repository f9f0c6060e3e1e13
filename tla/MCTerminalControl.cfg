\* Two connections of two principals and three command ids over a window of two;
\* two clients that change a catalogue of one session, two tabs and two terminals;
\* two requests at once of two devices, with room for one entry in each map.
SPECIFICATION KeptSpec
CONSTANTS
  c1 = c1
  c2 = c2
  p1 = p1
  p2 = p2
  Connections = {c1, c2}
  Principals = {p1, p2}
  PrincipalOf <- TwoPrincipals
  Commands = {"k1", "k2", "k3"}
  Epochs = {"e1", "e2"}
  Epoch = "e1"
  MaxCommandIds = 2
  TTL = 1
  MaxNow = 1
  MaxLeases = 3
  MaxAccepted = 4
  Clients = {c1, c2}
  MaxEdits = 3
  Handlers = {1, 2}
  Devices = {"d1", "d2"}
  MaxChallenges = 1
  MaxDeviceSessions = 1
  MaxFailureKeys = 1
  FailureLimit = 1
  MaxCodes = 1
  MaxNonces = 2
  MaxTokens = 2
  MaxRequests = 5
INVARIANTS
  TypeOK
  LeasesAgree
  NoReplayWithinWindow
  CatalogueSound
  ClientsToldAll
  DevicesSound
PROPERTIES
  MutationsInGenerationOrder
  HandoverRaisesGeneration
CHECK_DEADLOCK FALSE
