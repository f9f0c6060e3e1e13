-------------------------- MODULE OutboundMailbox --------------------------
(***************************************************************************)
(* The bounded mailbox of one connection (outbound_mailbox.rs): a priority, *)
(* a reliable, a legacy and a semantic lane, byte counters that admit       *)
(* frames, and order numbers by which the writer merges the lanes.          *)
(*                                                                         *)
(* A frame is its kind, its terminal, its terminal sequence and its size.   *)
(* The operations are written as fragments that constrain the lanes they    *)
(* touch, so that the connection can compose them in one critical section.  *)
(***************************************************************************)
EXTENDS Naturals, Sequences, FiniteSets, SequencesExt

CONSTANTS
  Terminals,
  NoTerminal,            \* the terminal of a frame that belongs to none
  NoFrame,               \* nothing has been taken yet
  ReliableMaxFrames, ReliableMaxBytes,
  LegacyMaxFrames, LegacyMaxBytes,
  SemanticMaxTerminals, SemanticMaxBytes

ASSUME NoTerminalAssumption == NoTerminal \notin Terminals
ASSUME LaneLimitsAssumption ==
  {ReliableMaxFrames, ReliableMaxBytes, LegacyMaxFrames, LegacyMaxBytes,
   SemanticMaxTerminals, SemanticMaxBytes} \subseteq Nat

VARIABLES
  priority, reliable, legacy,   \* sequences of queued frames
  semantic,                     \* at most one queued frame per terminal
  reliableBytes, legacyBytes, semanticBytes,
  nextOrder,                    \* next_order
  resync,                       \* terminals whose semantic lane lost a frame
  out                           \* history: the frame popped last

controlLanes == <<priority, reliable, reliableBytes>>
legacyLane == <<legacy, legacyBytes>>
semanticLane == <<semantic, semanticBytes, resync>>
mailboxVars == <<controlLanes, legacyLane, semanticLane, nextOrder, out>>

Queued(f) == [frame |-> f, order |-> nextOrder]

MailboxInit ==
  /\ priority = <<>> /\ reliable = <<>> /\ legacy = <<>> /\ semantic = <<>>
  /\ reliableBytes = 0 /\ legacyBytes = 0 /\ semanticBytes = 0
  /\ nextOrder = 0
  /\ resync = {}
  /\ out = NoFrame

-----------------------------------------------------------------------------
(* Admission *)

\* Fault: each lane has the frame limit to itself.
ReliableFitsApart(f) ==
  /\ Len(reliable) < ReliableMaxFrames /\ Len(priority) < ReliableMaxFrames
  /\ reliableBytes + f.bytes <= ReliableMaxBytes

\* The priority and the reliable lane share their limits.
ReliableFits(f) ==
  /\ Len(priority) + Len(reliable) < ReliableMaxFrames
  /\ reliableBytes + f.bytes <= ReliableMaxBytes

LegacyFits(f) ==
  /\ Len(legacy) < LegacyMaxFrames
  /\ legacyBytes + f.bytes <= LegacyMaxBytes

PutPriority(f) ==
  /\ priority' = Append(priority, Queued(f))
  /\ reliableBytes' = reliableBytes + f.bytes
  /\ nextOrder' = nextOrder + 1
  /\ UNCHANGED reliable

PutReliable(f) ==
  /\ reliable' = Append(reliable, Queued(f))
  /\ reliableBytes' = reliableBytes + f.bytes
  /\ nextOrder' = nextOrder + 1
  /\ UNCHANGED priority

PutLegacy(f) ==
  /\ legacy' = Append(legacy, Queued(f))
  /\ legacyBytes' = legacyBytes + f.bytes
  /\ nextOrder' = nextOrder + 1

\* Fault: the size of the frame replaced is not given back.
SemanticBytesLeaked(f) == semanticBytes + f.bytes

\* The bytes of the semantic lane once f stands in it.
SemanticBytesWith(f) ==
  IF f.terminal \in DOMAIN semantic
    THEN semanticBytes - semantic[f.terminal].frame.bytes + f.bytes
    ELSE semanticBytes + f.bytes

SemanticFits(f) ==
  /\ SemanticBytesWith(f) <= SemanticMaxBytes
  /\ \/ f.terminal \in DOMAIN semantic
     \/ Cardinality(DOMAIN semantic) < SemanticMaxTerminals

\* A replaced frame keeps its place.
InPlaceOf(f) ==
  IF f.terminal \in DOMAIN semantic
    THEN [semantic[f.terminal] EXCEPT !.frame = f] ELSE Queued(f)

PutSemantic(f) ==
  /\ semantic' = [t \in DOMAIN semantic \cup {f.terminal} |->
                    IF t = f.terminal THEN InPlaceOf(f) ELSE semantic[t]]
  /\ semanticBytes' = SemanticBytesWith(f)
  /\ nextOrder' = IF f.terminal \in DOMAIN semantic THEN nextOrder ELSE nextOrder + 1
  /\ resync' = IF f.terminal \in DOMAIN semantic
                 THEN resync \cup {f.terminal} ELSE resync

-----------------------------------------------------------------------------
(* pop_next *)

Fronts ==
  (IF reliable = <<>> THEN {} ELSE {Head(reliable)})
    \cup (IF legacy = <<>> THEN {} ELSE {Head(legacy)})
    \cup {semantic[t] : t \in DOMAIN semantic}

Empty == priority = <<>> /\ Fronts = {}

PopPriority ==
  /\ priority # <<>>
  /\ out' = Head(priority).frame
  /\ priority' = Tail(priority)
  /\ reliableBytes' = reliableBytes - out'.bytes
  /\ UNCHANGED <<reliable, legacyLane, semanticLane, nextOrder>>

\* Fault: the lanes are tried in turn.
EarliestLane(q) == reliable # <<>> => q = Head(reliable)

\* The oldest front goes first.
Earliest(q) == \A r \in Fronts : q.order <= r.order

PopReliable ==
  /\ reliable # <<>> /\ Earliest(Head(reliable))
  /\ out' = Head(reliable).frame
  /\ reliable' = Tail(reliable)
  /\ reliableBytes' = reliableBytes - out'.bytes
  /\ UNCHANGED <<priority, legacyLane, semanticLane, nextOrder>>

PopLegacy ==
  /\ legacy # <<>> /\ Earliest(Head(legacy))
  /\ out' = Head(legacy).frame
  /\ legacy' = Tail(legacy)
  /\ legacyBytes' = legacyBytes - out'.bytes
  /\ UNCHANGED <<controlLanes, semanticLane, nextOrder>>

PopSemantic ==
  /\ \E t \in DOMAIN semantic :
       /\ Earliest(semantic[t])
       /\ out' = semantic[t].frame
       /\ semantic' = [u \in DOMAIN semantic \ {t} |-> semantic[u]]
       /\ semanticBytes' = semanticBytes - out'.bytes
  /\ UNCHANGED <<controlLanes, legacyLane, resync, nextOrder>>

PopNext ==
  \/ PopPriority
  \/ priority = <<>> /\ (PopReliable \/ PopLegacy \/ PopSemantic)

-----------------------------------------------------------------------------
(* discard_terminal_through *)

\* What stands at these positions of a sequence, in its order.
At(s, positions) ==
  [n \in 1..Cardinality(positions) |->
     s[CHOOSE i \in positions : Cardinality({j \in positions : j <= i}) = n]]

BytesOf(lane) == FoldSeq(LAMBDA q, total : q.frame.bytes + total, 0, lane)

Superseded(q, t, n) == q.frame.terminal = t /\ q.frame.seq <= n

DiscardTerminalThrough(t, n) ==
  LET gone == {i \in DOMAIN legacy : Superseded(legacy[i], t, n)} IN
    /\ legacy' = At(legacy, DOMAIN legacy \ gone)
    /\ legacyBytes' = legacyBytes - BytesOf(At(legacy, gone))

-----------------------------------------------------------------------------
(* Properties of the mailbox itself *)

\* Each counter is the size of its lanes, so that no subtraction in pop_next or
\* discard_terminal_through, checked or not, can go below zero.
ByteAccounting ==
  /\ reliableBytes = BytesOf(priority) + BytesOf(reliable)
  /\ legacyBytes = BytesOf(legacy)
  /\ semanticBytes = FoldSet(LAMBDA t, total : semantic[t].frame.bytes + total,
                             0, DOMAIN semantic)

\* The lanes merged by order number.
Merged ==
  LET waiting == Range(reliable) \cup Range(legacy) \cup Range(semantic) IN
    SetToSortSeq(waiting, LAMBDA q, r : q.order < r.order)

FramesOf(lane) == [i \in 1..Len(lane) |-> lane[i].frame]
=============================================================================
