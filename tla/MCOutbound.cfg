\* One terminal twice attached beside other traffic; two that share the mailbox;
\* and the mailbox alone with frames of two sizes.
SPECIFICATION OutboundSpec
CONSTANTS
  Terminals = {t1, t2}
  NoTerminal = none
  NoFrame = nothing
  ReliableMaxFrames = 2
  ReliableMaxBytes = 3
  LegacyMaxFrames = 2
  LegacyMaxBytes = 3
  SemanticMaxTerminals = 1
  SemanticMaxBytes = 2
  Protocol = 2
  FlowLimit = 1
  MaxSequence = 2
  MaxAttaches = 2
  MaxEvents = 1
  Sizes = {1, 2}
  MaxSeq = 1
  MaxOrder = 3
INVARIANTS OutboundSafe
PROPERTIES NoSilentGap OutboundFlows ImplementsQueue
CHECK_DEADLOCK FALSE
