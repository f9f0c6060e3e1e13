------------------------- MODULE MCOutboundMailbox -------------------------
(* The mailbox by itself: every operation in every order.                    *)
EXTENDS OutboundMailbox

CONSTANTS
  Sizes,      \* frame sizes tried
  MaxSeq,     \* bound: terminal sequences
  MaxOrder    \* bound: order numbers handed out

Control == [kind : {"reliable"}, terminal : {NoTerminal}, seq : {0}, bytes : Sizes]
Raw == [kind : {"data"}, terminal : Terminals, seq : 1..MaxSeq, bytes : Sizes]
Semantic == [kind : {"semantic"}, terminal : Terminals, seq : {0}, bytes : Sizes]

EnqueueReliablePriority(f) ==
  /\ nextOrder < MaxOrder
  /\ ReliableFits(f) /\ PutPriority(f)
  /\ UNCHANGED <<legacyLane, semanticLane, out>>

EnqueueReliable(f) ==
  /\ nextOrder < MaxOrder
  /\ ReliableFits(f) /\ PutReliable(f)
  /\ UNCHANGED <<legacyLane, semanticLane, out>>

EnqueueLegacy(f) ==
  /\ nextOrder < MaxOrder
  /\ LegacyFits(f) /\ PutLegacy(f)
  /\ UNCHANGED <<controlLanes, semanticLane, out>>

EnqueueSemantic(f) ==
  /\ nextOrder < MaxOrder
  /\ \/ SemanticFits(f) /\ PutSemantic(f)
     \/ /\ ~SemanticFits(f)
        /\ resync' = resync \cup {f.terminal}
        /\ UNCHANGED <<semantic, semanticBytes, nextOrder>>
  /\ UNCHANGED <<controlLanes, legacyLane, out>>

Discard(t, n) ==
  /\ DiscardTerminalThrough(t, n)
  /\ UNCHANGED <<controlLanes, semanticLane, nextOrder, out>>

ConsumeResyncRequired ==
  /\ resync # {}
  /\ resync' = {}
  /\ UNCHANGED <<controlLanes, legacyLane, semantic, semanticBytes, nextOrder, out>>

Next ==
  \/ \E f \in Control : EnqueueReliablePriority(f) \/ EnqueueReliable(f)
  \/ \E f \in Raw : EnqueueLegacy(f)
  \/ \E f \in Semantic : EnqueueSemantic(f)
  \/ \E t \in Terminals, n \in 1..MaxSeq : Discard(t, n)
  \/ ConsumeResyncRequired
  \/ PopNext

Spec == MailboxInit /\ [][Next]_mailboxVars

\* Types of the lanes, and their limits.
TypeOK ==
  LET Lane(F) == Seq([frame : F, order : 0..MaxOrder]) IN
    /\ priority \in Lane(Control) /\ reliable \in Lane(Control)
    /\ legacy \in Lane(Raw)
    /\ DOMAIN semantic \subseteq Terminals
    /\ Len(priority) + Len(reliable) <= ReliableMaxFrames
    /\ reliableBytes <= ReliableMaxBytes
    /\ Len(legacy) <= LegacyMaxFrames /\ legacyBytes <= LegacyMaxBytes
    /\ semanticBytes <= SemanticMaxBytes
    /\ resync \subseteq Terminals

\* The types of the lanes, and the counters that admit frames.
MailboxInv == TypeOK /\ ByteAccounting
=============================================================================
