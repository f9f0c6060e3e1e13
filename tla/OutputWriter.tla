---------------------------- MODULE OutputWriter ----------------------------
(* The output of one terminal between the client API and the parser: what       *)
(* TerminalPanel.tsx does with the data it receives, and the writer it gives it *)
(* to (terminal-output-writer.ts), which coalesces live output onto animation   *)
(* frames or microtasks, sheds it at a limit, and passes on which of it was     *)
(* consumed.  Replayed output is flushed in the same turn, unless the panel has  *)
(* to answer its queries in order.  Output is a stream: a piece is known by where *)
(* it ends, so that what waits is what lies between two places.                  *)
EXTENDS Naturals, Sequences, FiniteSets, SequencesExt, FiniteSetsExt

CONSTANTS
    PieceSizes,        \* of a piece of output
    MaxPending,        \* maxPendingBytes
    PerFlush,          \* maxBytesPerFlush
    Interactive,       \* interactiveMaxBytes
    MaxParts           \* bound: pieces of output

ASSUME OutputBounds ==
    PieceSizes \union {MaxPending, PerFlush, Interactive} \subseteq Nat \ {0} /\ MaxParts \in Nat

(* Replayed output comes in pages that the host bounds far below the limit.      *)
Pages == {bytes \in PieceSizes : bytes <= MaxPending}

VARIABLES
    live,              \* pendingParts: [n, end, ack]
    start,             \* where what waits begins, in the first of them
    liveBytes,         \* pendingBytes
    raf, micro,        \* an animation frame (with its fallback timer), a microtask is due
    flood, gapSeen,    \* floodMode, gapDetected
    clock,             \* the page is visible
    off,               \* disposed
    asking,            \* replayMayNeedQueryResponses
    replaying,         \* receivingReplay
    writes,            \* written to the parser and not parsed: the acknowledgements of each write
    pieces,            \* pieces received
    consumed, shed     \* pieces acknowledged; shed since the last replacement (history)

outputVars == <<live, start, liveBytes, raf, micro, flood, gapSeen, clock, off, asking, replaying, writes, pieces,
                consumed, shed>>

OutputInit ==
    /\ live = <<>> /\ start = 0 /\ liveBytes = 0 /\ asking \in BOOLEAN
    /\ raf = FALSE /\ micro = FALSE /\ flood = FALSE /\ gapSeen = FALSE
    /\ clock = TRUE /\ off = FALSE /\ replaying = FALSE
    /\ writes = <<>> /\ pieces = 0 /\ consumed = {} /\ shed = {}

Numbers(parts) == {parts[i].n : i \in DOMAIN parts}

-----------------------------------------------------------------------------
(* The writer's state while one of its functions runs.                          *)
Now == [live |-> live, start |-> start, raf |-> raf, micro |-> micro, flood |-> flood, gap |-> gapSeen,
           writes |-> writes, shed |-> shed]

End(w) == IF w.live = <<>> THEN w.start ELSE Last(w.live).end
Waiting(w) == End(w) - w.start

Becomes(next) ==
    \E w \in {next} :
        /\ live' = w.live /\ start' = (IF w.live = <<>> THEN 0 ELSE w.start) /\ liveBytes' = Waiting(w)
        /\ raf' = w.raf /\ micro' = w.micro /\ flood' = w.flood
        /\ gapSeen' = w.gap /\ writes' = w.writes /\ shed' = w.shed

(* Where what waits begins once the first k pieces are gone.                     *)
StartAfter(w, k) == IF k = 0 THEN w.start ELSE w.live[k].end

(* The oldest pieces go first, the last one loses its beginning and with it its *)
(* acknowledgement.                                                            *)
ShedOldest(w) ==
    LET fits(k) == End(w) - StartAfter(w, k) <= MaxPending
        drop == Min({k \in 0..Len(w.live) - 1 : fits(k) \/ k = Len(w.live) - 1})
        kept == SubSeq(w.live, drop + 1, Len(w.live))
    IN  [w EXCEPT
          !.live = IF fits(drop) THEN kept ELSE <<[kept[1] EXCEPT !.ack = FALSE]>>,
          !.start = IF fits(drop) THEN StartAfter(w, drop) ELSE End(w) - MaxPending,
          !.gap = @ \/ drop > 0 \/ ~fits(drop),
          !.shed = @ \union Numbers(SubSeq(w.live, 1, drop)) \union (IF fits(drop) THEN {} ELSE {kept[1].n})]

(* Fault: pieces are acknowledged although older ones were shed.                *)
ConsumedDespiteGap(parts, gap) == {parts[i].n : i \in {j \in DOMAIN parts : parts[j].ack}}

Consumed(parts, gap) == IF gap THEN {} ELSE {parts[i].n : i \in {j \in DOMAIN parts : parts[j].ack}}

(* takePending: whole pieces, and the beginning of the next one.                 *)
TakePending(w, limit) ==
    LET whole == Max({k \in 0..Len(w.live) : StartAfter(w, k) <= w.start + limit})
    IN  [w EXCEPT
          !.live = SubSeq(w.live, whole + 1, Len(w.live)),
          !.start = IF whole = Len(w.live) THEN StartAfter(w, whole) ELSE w.start + limit,
          !.writes = Append(@, Consumed(SubSeq(w.live, 1, whole), w.gap))]

ScheduleRaf(w) == IF w.raf THEN w ELSE [w EXCEPT !.raf = TRUE, !.micro = FALSE]
ScheduleMicro(w) == IF w.raf THEN w ELSE [w EXCEPT !.micro = TRUE]

(* A hidden page has no frames.                                                 *)
ScheduleNext(w) ==
    IF ~clock THEN ScheduleMicro([w EXCEPT !.raf = FALSE])
    ELSE IF w.flood \/ Waiting(w) > Interactive THEN ScheduleRaf([w EXCEPT !.flood = TRUE])
    ELSE ScheduleMicro(w)

LeftOver(w) == IF w.live # <<>> THEN ScheduleNext(w) ELSE [w EXCEPT !.flood = FALSE]

FlushNow(w, limit) ==
    LET idle == [w EXCEPT !.raf = FALSE, !.micro = FALSE]
    IN  IF w.live = <<>> THEN [idle EXCEPT !.flood = FALSE] ELSE LeftOver(TakePending(idle, limit))

(* flush(): everything, in this turn.                                           *)
FlushAll(w) ==
    LET idle == [w EXCEPT !.raf = FALSE, !.micro = FALSE]
    IN  IF w.live = <<>> THEN idle
        ELSE [TakePending(idle, Waiting(w)) EXCEPT !.flood = FALSE]

DiscardPending(w) ==
    [w EXCEPT !.live = <<>>, !.raf = FALSE, !.micro = FALSE, !.flood = FALSE, !.gap = FALSE, !.shed = {}]

Enqueue(w, bytes) ==
    ScheduleNext(ShedOldest([w EXCEPT !.live = Append(@, [n |-> pieces + 1, end |-> End(w) + bytes, ack |-> TRUE])]))

EnqueueReplay(w) == [w EXCEPT !.writes = Append(@, {pieces + 1})]

-----------------------------------------------------------------------------
Receives == ~off /\ pieces < MaxParts /\ pieces' = pieces + 1

ReceiveLive(bytes) ==
    /\ Receives
    /\ replaying' = FALSE
    /\ Becomes(Enqueue(Now, bytes))
    /\ UNCHANGED <<clock, off, asking, consumed>>

(* The first replayed piece replaces what waits; a truncated one is preceded by *)
(* a reset of the parser; one whose queries are to be answered takes the queue,  *)
(* and so does every one where the attached output had such queries.            *)
ReceiveReplay(bytes, truncated, answers) ==
    /\ Receives
    /\ replaying' = TRUE
    /\ LET begun == IF replaying THEN Now ELSE DiscardPending(Now)
           clean == IF truncated THEN FlushAll(begun) ELSE begun
       IN  Becomes(IF answers THEN FlushAll(Enqueue(clean, bytes))
                   ELSE IF asking THEN Enqueue(clean, bytes)
                   ELSE FlushAll(EnqueueReplay(clean)))
    /\ UNCHANGED <<clock, off, asking, consumed>>

(* The runtime is lost: what waits is, too, and an attach replaces it.          *)
RecoveryRequired ==
    /\ ~off
    /\ Becomes(DiscardPending(Now))
    /\ UNCHANGED <<clock, off, asking, replaying, pieces, consumed>>

FrameFires ==
    /\ raf
    /\ Becomes(FlushNow([Now EXCEPT !.raf = FALSE], PerFlush))
    /\ UNCHANGED <<clock, off, asking, replaying, pieces, consumed>>

MicrotaskRuns ==
    /\ micro
    /\ Becomes(FlushNow([Now EXCEPT !.micro = FALSE], PerFlush))
    /\ UNCHANGED <<clock, off, asking, replaying, pieces, consumed>>

(* The parser has consumed the oldest write.                                    *)
Parsed ==
    /\ writes # <<>>
    /\ writes' = Tail(writes)
    /\ consumed' = IF off THEN consumed ELSE consumed \union Head(writes)
    /\ UNCHANGED <<live, start, liveBytes, raf, micro, flood, gapSeen, clock, off, asking, replaying, pieces, shed>>

ShowOrHide ==
    /\ ~off /\ clock' = ~clock
    /\ UNCHANGED <<live, start, liveBytes, raf, micro, flood, gapSeen, off, asking, replaying, writes, pieces, consumed,
                   shed>>

(* The panel's cleanup drains, then disposes.                                    *)
DisposeOutput ==
    /\ ~off /\ off' = TRUE
    /\ Becomes([FlushAll(Now) EXCEPT !.live = <<>>])
    /\ UNCHANGED <<clock, asking, replaying, pieces, consumed>>

OutputSteady == FrameFires \/ MicrotaskRuns \/ Parsed

OutputNext ==
    \/ OutputSteady
    \/ \E bytes \in PieceSizes : ReceiveLive(bytes)
    \/ \E bytes \in Pages, truncated, answers \in BOOLEAN : ReceiveReplay(bytes, truncated, answers)
    \/ RecoveryRequired \/ ShowOrHide \/ DisposeOutput

OutputSpec == OutputInit /\ [][OutputNext]_outputVars /\ WF_outputVars(OutputSteady)

-----------------------------------------------------------------------------
(* A piece is acknowledged only if every piece before it was fed to the parser: *)
(* after something was shed nothing is, until a replay replaces it, so that the *)
(* host resends from the right place.  And output that waits always has a frame *)
(* or a microtask to come for it, at the limit, in a flood and on a hidden page. *)
AckedInOrder ==
    /\ \A n \in consumed, m \in shed : n < m
    /\ \A i \in DOMAIN writes : \A n \in writes[i], m \in shed : n < m
    /\ liveBytes <= MaxPending
    /\ liveBytes > 0 => raf \/ micro
    /\ ~(raf /\ micro)

(* Whatever was received is written and parsed in the end.                      *)
Drained == live = <<>> /\ writes = <<>>
OutputFlows == <>[]Drained
=============================================================================
