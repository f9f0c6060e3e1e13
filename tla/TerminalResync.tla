---------------------------- MODULE TerminalResync ----------------------------
(* One terminal's output as the browser receives it: create-yaade-api.ts keeps  *)
(* a replay floor, a bounded buffer that bridges an attach, and a resync task  *)
(* per terminal; TerminalPanel.tsx mounts a surface, attaches, registers the   *)
(* listener and feeds the output writer and the parser.  The host behind the   *)
(* socket: numbered output, pictures of the screen (checkpoints) and the ring's *)
(* tail in the answer to an attach, an archive read page by page whose oldest  *)
(* output is trimmed, and a stream that flows only on the connection that      *)
(* attached.  It answers an attach with its state or not at all, so the branch  *)
(* for an answer without a result is never taken.                              *)
EXTENDS Naturals, Sequences

CONSTANTS
    MaxSeq,        \* bound: output frames of the host
    MaxGen,        \* bound: disconnects
    MaxMounts,     \* bound: surfaces mounted for the terminal
    MaxTrouble,    \* bound: failed or empty page reads, trims, fences of the stream
    BufferMax,     \* MAX_BUFFERED_TERMINAL_BYTES, in frames
    RingMax,       \* the host's replay ring, in frames
    TailMax,       \* the tail an attach result carries when an archive exists
    PageMax,       \* frames in one archive page
    Races          \* which of the interleavings below the environment may produce

(* Each member of Races is an order of events the code does not guard against.  *)
(*   "wake"     a page wake replaces the socket and keeps a resync's page read  *)
(*   "cold"     a surface attaches over HTTP while the socket is not open       *)
(*   "overlap"  a resync is under way while a surface of its terminal attaches  *)
(*   "remount"  a surface attaches before the attach of the one before has ended *)
(*   "overrun"  a resync finds no archive page and its buffer has overflowed    *)
(*   "tail"     pages end early and the answer's tail begins past them, or is    *)
(*              empty because the picture already shows the last output           *)
(*   "picture"  a resync's answer carries a picture older than its last output   *)
(*   "trimmed"  the archive loses what comes next in a replay that has begun     *)
(*   "stale"    a replay that reset the parser is cut short with output from    *)
(*              before the reset acknowledged, or about to be, past its cursor  *)
ASSUME ResyncBounds ==
    /\ {MaxSeq, MaxGen, MaxMounts, MaxTrouble} \subseteq Nat
    /\ {BufferMax, RingMax, TailMax, PageMax} \subseteq Nat \ {0}
    /\ Races \subseteq {"wake", "cold", "overlap", "remount", "overrun", "tail", "picture", "trimmed", "stale"}

VARIABLES
    hostSeq, picture, trimmed,          \* the host: its output, the end of the last
                                        \* picture (0: none), of what the archive lost
    armed, wire,                        \* whether it streams, the socket towards us
    conn, gen,                          \* transport status, reconnectGeneration
    floor, buf, gap, resyncing, again, retry, streaming, listener, \* the maps
    task,                               \* the resync in flight, or Idle
    attach,                             \* the panel's own attach, or Idle
    panel, receiving, unposted, posted,     \* TerminalPanel and its output writer
    view, hole,                         \* what the parser has shown
    mounts, trouble                     \* bounds

kept == <<picture, trimmed>>
host == <<hostSeq, kept, armed>>
maps == <<floor, buf, gap, resyncing, again, retry, streaming, listener>>
sink == <<panel, receiving, unposted, posted, view, hole>>
bounds == <<mounts, trouble>>
resyncVars == <<host, wire, conn, gen, maps, task, attach, sink, bounds>>

Alone == ~streaming \/ "overlap" \in Races
Idle == [pc |-> "idle"]
MinOf(a, b) == IF a < b THEN a ELSE b
MaxOf(a, b) == IF a < b THEN b ELSE a

(* A stretch of output on its way to the parser.  `ack` is the sequence its    *)
(* consumption acknowledges (0 for a replay), `reset` whether it replaces what  *)
(* is shown: the parser is reset before a truncated replay, and a picture      *)
(* clears the screen.                                                          *)
Live(n) == [from |-> n, to |-> n, ack |-> n, replay |-> FALSE, reset |-> FALSE]
Replay(a, b, r) == [from |-> a, to |-> b, ack |-> 0, replay |-> TRUE, reset |-> r]
Picture(n) == IF n = 0 THEN <<>> ELSE <<Replay(1, n, TRUE)>>
Stretches(a, b, r) == IF a > b THEN <<>> ELSE <<Replay(a, b, r)>>

ResyncInit ==
    /\ hostSeq = 1 /\ picture = 0 /\ trimmed = 0 /\ armed = FALSE /\ wire = <<>>
    /\ conn = "down" /\ gen = 0
    /\ floor = 0 /\ buf = <<>> /\ gap = FALSE /\ resyncing = FALSE
    /\ again = FALSE /\ retry = FALSE /\ streaming = FALSE /\ listener = FALSE
    /\ task = Idle /\ attach = Idle
    /\ panel = "none" /\ receiving = FALSE /\ unposted = <<>> /\ posted = <<>>
    /\ view = 0 /\ hole = FALSE
    /\ mounts = 0 /\ trouble = 0

-----------------------------------------------------------------------------
(* The host.                                                                   *)

(* A picture is stored once enough output or time went by since the last.      *)
HostOutput ==
    /\ hostSeq < MaxSeq
    /\ hostSeq' = hostSeq + 1
    /\ \/ picture' = hostSeq + 1
       \/ (picture = 0 \/ "picture" \in Races) /\ UNCHANGED picture
    /\ wire' = IF armed THEN Append(wire, [kind |-> "data", seq |-> hostSeq + 1]) ELSE wire
    /\ UNCHANGED <<trimmed, armed, conn, gen, maps, task, attach, sink, bounds>>

(* The archive drops its oldest output to stay within its limit.               *)
HostTrim ==
    /\ trimmed + 1 < hostSeq /\ trouble < MaxTrouble
    /\ \A call \in {task, attach} :
          call.pc = "paging" /\ call.after < call.cursor => trimmed < call.cursor \/ "trimmed" \in Races
    /\ trimmed' = trimmed + 1 /\ trouble' = trouble + 1
    /\ UNCHANGED <<hostSeq, picture, armed, wire, conn, gen, maps, task, attach, sink, mounts>>

(* The connection's mailbox drops the stream instead of growing; only another  *)
(* attach resumes it.  The notice carries what the client has acknowledged.    *)
HostFence ==
    /\ armed /\ trouble < MaxTrouble
    /\ trouble' = trouble + 1
    /\ armed' = FALSE
    /\ wire' = Append(wire, [kind |-> "replay-required", seq |-> floor])
    /\ UNCHANGED <<hostSeq, kept, conn, gen, maps, task, attach, sink, mounts>>

(* What an attach from `after` answers: once the ring has lost output, the last  *)
(* picture if that is past `after`, and what the ring holds after both.         *)
AttachAnswer(after) ==
    LET ring == MaxOf(1, hostSeq + 1 - RingMax)
        shows == IF ring > 1 /\ after < picture THEN picture ELSE 0
        tail == MaxOf(MaxOf(ring, MaxOf(after, shows) + 1), hostSeq + 1 - TailMax)
    IN [last |-> hostSeq, from |-> tail, truncated |-> after + 1 < ring, picture |-> shows]

(* When pages end early the answer's own tail follows: of a host with an archive *)
(* it is the end of the ring only, and nothing says so.                          *)
TailFits(answer, through) == answer.truncated \/ answer.from <= through + 1 \/ "tail" \in Races

(* attachTerminal: over the socket when it is open, which also arms the        *)
(* stream; otherwise by an HTTP request, which does not.                       *)
Call(after) == [pc |-> "asked", gen |-> gen, after |-> after, cursor |-> after, reset |-> FALSE,
                answer |-> AttachAnswer(after), viaHttp |-> conn = "down"]
OverSocket(who, rest) ==
    IF conn = "down" THEN UNCHANGED armed /\ wire' = rest
    ELSE armed' = TRUE /\ wire' = Append(rest, [kind |-> "result", who |-> who])

-----------------------------------------------------------------------------
(* Delivery to the listener, and the panel behind it.                          *)

(* The listener of connectPty: the first replayed chunk drops the live output  *)
(* not yet posted to the parser, a replayed chunk is posted at once, live      *)
(* output waits for the next flush.                                            *)
Listen(state, item) ==
    IF item.replay
    THEN [receiving |-> TRUE, unposted |-> <<>>,
          posted |-> state.posted \o (IF state.receiving THEN state.unposted ELSE <<>>)
                                  \o <<item>>]
    ELSE [state EXCEPT !.receiving = FALSE, !.unposted = Append(state.unposted, item)]

(* deliverTerminalData for a run of items, one after the other.                *)
Heard(state, items) ==
    LET after[n \in 0..Len(items)] == IF n = 0 THEN state ELSE Listen(after[n - 1], items[n])
    IN after[Len(items)]
Deliver(posts, waiting, hears, items) ==
    \E out \in {Heard([receiving |-> hears, unposted |-> waiting, posted |-> posts], items)} :
        receiving' = out.receiving /\ unposted' = out.unposted /\ posted' = out.posted

(* bufferTerminalData: the oldest frames make room and leave a gap behind.     *)
Bounded(all, marked) ==
    LET cut == IF Len(all) > BufferMax THEN Len(all) - BufferMax ELSE 0
    IN [items |-> SubSeq(all, cut + 1, Len(all)), gap |-> marked \/ cut > 0]

\* Fault: output that outruns the buffer leaves no mark.
BufferedUnmarked(items) == [Bounded(buf \o items, gap) EXCEPT !.gap = gap]
Buffered(items) == Bounded(buf \o items, gap)

(* What is left of the buffer once a replay covered everything through n.      *)
Beyond(items, n) == SelectSeq(items, LAMBDA i: i.ack = 0 \/ i.ack > n)

(* requestTerminalResync and the start of resyncTerminal: one resync at a time, *)
(* a second request waits; a buffer with a gap is dropped.  `rest` is the       *)
(* socket without the message being handled, `from` the floor.                  *)
RequestResync(from, rest) ==
    /\ resyncing' = TRUE
    /\ IF task.pc # "idle"
       THEN again' = TRUE /\ wire' = rest /\ UNCHANGED <<task, gap, buf, armed>>
       ELSE /\ task' = Call(from) /\ OverSocket("task", rest)
            /\ gap' = FALSE /\ buf' = (IF gap THEN <<>> ELSE buf)
            /\ UNCHANGED again

FlushOutput ==
    /\ unposted # <<>>
    /\ posted' = posted \o unposted /\ unposted' = <<>>
    /\ UNCHANGED <<host, wire, conn, gen, maps, task, attach, panel, receiving, view, hole, bounds>>

(* The parser consumes a stretch; acknowledgeConsumed raises the floor.        *)
Parse ==
    /\ posted # <<>>
    /\ LET item == Head(posted)
       IN /\ hole' = (~item.reset /\ (hole \/ item.from > view + 1))
          /\ view' = (IF item.reset THEN item.to ELSE MaxOf(view, item.to))
          /\ floor' = MaxOf(floor, item.ack)
    /\ posted' = Tail(posted)
    /\ UNCHANGED <<host, wire, conn, gen, buf, gap, resyncing, again, retry, streaming,
                   listener, task, attach, panel, receiving, unposted, bounds>>

(* The socket without the answer to a request that has failed.                  *)
Without(messages, asker) == SelectSeq(messages, LAMBDA m: m.kind # "result" \/ m.who # asker)

-----------------------------------------------------------------------------
(* What arrives on the socket.                                                 *)

HeadIs(kind) == conn # "down" /\ wire # <<>> /\ Head(wire).kind = kind

(* terminal:data *)
ReceiveData ==
    /\ HeadIs("data")
    /\ wire' = Tail(wire)
    /\ LET item == Live(Head(wire).seq)
       IN IF item.ack <= floor THEN UNCHANGED <<maps, receiving, unposted, posted>>
          ELSE IF resyncing \/ streaming
          THEN /\ buf' = Buffered(<<item>>).items /\ gap' = Buffered(<<item>>).gap
               /\ UNCHANGED <<floor, resyncing, again, retry, streaming, listener, receiving, unposted, posted>>
          ELSE IF listener
          THEN Deliver(posted, unposted, receiving, <<item>>) /\ UNCHANGED maps
          ELSE /\ floor' = item.ack
               /\ UNCHANGED <<buf, gap, resyncing, again, retry, streaming, listener, receiving, unposted, posted>>
    /\ UNCHANGED <<host, conn, gen, task, attach, panel, view, hole, bounds>>

(* terminal:replay-required *)
ReceiveNotice ==
    /\ HeadIs("replay-required") /\ Alone
    /\ floor' = MaxOf(floor, Head(wire).seq)
    /\ RequestResync(floor', Tail(wire))
    /\ UNCHANGED <<hostSeq, kept, conn, gen, retry, streaming, listener, attach, sink, bounds>>

-----------------------------------------------------------------------------
(* The resync task: resyncTerminal, and the finally of its request.            *)

\* Fault: a failed resync is not tried again.
RetriesNever(ok, more, current) == retry
Retries(ok, more, current) == retry \/ (~ok /\ ~more /\ current)

(* The request is over.  A request made meanwhile (`more`) starts the next one *)
(* and a failure arms the retry timer, both only while the generation it began *)
(* in is still the connected one; `keep` says whether the terminal waits on.   *)
EndTask(ok, more, keep, from, rest) ==
    LET current == task.gen = gen /\ conn = "up"
    IN /\ again' = FALSE
       /\ retry' = Retries(ok, more, current)
       /\ IF more /\ current
          THEN resyncing' = TRUE /\ task' = Call(from) /\ OverSocket("task", rest)
          ELSE resyncing' = keep /\ task' = Idle /\ wire' = rest /\ UNCHANGED armed

(* The attach answered.  For an older connection, or a terminal that waits no  *)
(* longer, the request ends here.                                              *)
TaskAnswered ==
    /\ HeadIs("result") /\ Head(wire).who = "task" /\ task.pc = "asked"
    /\ IF task.gen # gen \/ conn # "up" \/ ~resyncing
       THEN /\ EndTask(TRUE, again, resyncing, floor, Tail(wire))
            /\ gap' = (gap /\ task'.pc = "idle")
            /\ buf' = (IF gap /\ ~gap' THEN <<>> ELSE buf)
       ELSE /\ task' = [task EXCEPT !.pc = "paging"] /\ wire' = Tail(wire)
            /\ UNCHANGED <<armed, again, resyncing, retry, buf, gap>>
    /\ UNCHANGED <<hostSeq, kept, conn, gen, floor, streaming, listener, attach, sink, bounds>>

(* The page after a cursor, as a stretch: the first of a replay resets the parser *)
(* if it is truncated or the page does not begin where it was asked to.          *)
PageOf(call, truncated) ==
    LET first == MaxOf(call.cursor, trimmed) + 1
    IN Replay(first, MinOf(first + PageMax - 1, hostSeq),
              call.cursor = call.after /\ (truncated \/ first > call.cursor + 1))
PageRead(call, item) == [call EXCEPT !.cursor = item.to, !.reset = @ \/ item.reset]

(* One archive page, delivered as it comes.                                    *)
TaskPage ==
    /\ task.pc = "paging" /\ task.cursor < task.answer.last
    /\ LET item == PageOf(task, task.answer.truncated)
       IN /\ task' = PageRead(task, item)
          /\ floor' = item.to
          /\ IF listener THEN Deliver(posted, unposted, receiving, <<item>>) /\ UNCHANGED <<buf, gap>>
             ELSE /\ buf' = Buffered(<<item>>).items /\ gap' = Buffered(<<item>>).gap
                  /\ UNCHANGED <<receiving, unposted, posted>>
    /\ UNCHANGED <<host, wire, conn, gen, resyncing, again, retry, streaming, listener,
                   attach, panel, view, hole, bounds>>

(* The replay is over: every page read, an empty page, or a newer connection.  *)
(* The answer's picture is shown even so, without the whole archive the ring's  *)
(* tail too, and what was buffered beyond the replay follows; output that      *)
(* outran the buffer asks again.                                               *)
TaskDone ==
    /\ task.pc = "paging"
    /\ \/ (task.cursor >= task.answer.last \/ task.gen # gen) /\ UNCHANGED trouble
       \/ /\ task.cursor < task.answer.last /\ trouble < MaxTrouble
          /\ gap => "overrun" \in Races
          /\ TailFits(task.answer, MaxOf(task.cursor, task.answer.picture))
          /\ trouble' = trouble + 1
    /\ LET complete == task.cursor >= task.answer.last
           through == MaxOf(task.answer.last, task.cursor)
           tail == IF complete THEN <<>>
                   ELSE Stretches(task.answer.from, task.answer.last, task.answer.truncated)
           items == Picture(task.answer.picture) \o tail \o Beyond(buf, through)
       IN /\ floor' = through
          /\ EndTask(TRUE, again \/ gap, gap, through, wire)
          /\ IF listener /\ ~gap
             THEN Deliver(posted, unposted, receiving, items) /\ buf' = <<>> /\ gap' = FALSE
             ELSE /\ buf' = (IF gap THEN <<>> ELSE Bounded(items, FALSE).items)
                  /\ gap' = (~gap /\ Bounded(items, FALSE).gap)
                  /\ UNCHANGED <<receiving, unposted, posted>>
    /\ UNCHANGED <<hostSeq, kept, conn, gen, streaming, listener, attach, panel, view, hole, mounts>>

(* A replay has reset the parser, but what the parser took before that is, or is *)
(* yet to be, acknowledged past the replay's cursor.                             *)
Stale ==
    /\ task.pc = "paging" /\ task.reset /\ task.cursor < task.answer.last
    /\ \/ task.cursor < floor
       \/ \E i \in DOMAIN posted : task.cursor < posted[i].ack
       \/ \E i \in DOMAIN wire : wire[i].kind = "replay-required" /\ task.cursor < wire[i].seq

(* A page read or the attach fails while the connection lasts.                 *)
TaskFails ==
    /\ task.pc \in {"asked", "paging"} /\ trouble < MaxTrouble
    /\ Stale => "stale" \in Races
    /\ trouble' = trouble + 1
    /\ EndTask(FALSE, again, resyncing, floor, Without(wire, "task"))
    /\ gap' = (gap /\ task'.pc = "idle")
    /\ buf' = (IF gap /\ ~gap' THEN <<>> ELSE buf)
    /\ UNCHANGED <<hostSeq, kept, conn, gen, floor, streaming, listener, attach, sink, mounts>>

(* The retry timer; a disconnect has cleared it by then.                       *)
RetryTimer ==
    /\ retry /\ (resyncing => Alone)
    /\ retry' = FALSE
    /\ IF conn = "up" /\ resyncing
       THEN RequestResync(floor, wire)
       ELSE UNCHANGED <<armed, wire, buf, gap, resyncing, again, task>>
    /\ UNCHANGED <<hostSeq, kept, conn, gen, floor, streaming, listener, attach, sink, bounds>>

-----------------------------------------------------------------------------
(* The panel: TerminalPanel's effect.                                          *)

(* A new surface attaches with a full replay: attachToNewSurface.  The attach   *)
(* of a panel that is gone may still read a page; when it ends, at once here,  *)
(* it takes the mark of the new one with it.                                   *)
Mount ==
    /\ panel \in {"none", "failed"} /\ mounts < MaxMounts
    /\ task.pc = "idle" \/ "overlap" \in Races
    /\ conn # "down" \/ "cold" \in Races
    /\ attach.pc = "idle" \/ (attach.pc = "paging" /\ "remount" \in Races)
    /\ mounts' = mounts + 1
    /\ panel' = "attaching"
    /\ streaming' = (attach.pc = "idle") /\ buf' = <<>>
    /\ attach' = Call(0) /\ OverSocket("panel", wire)
    /\ view' = 0 /\ hole' = FALSE /\ receiving' = FALSE /\ unposted' = <<>> /\ posted' = <<>>
    /\ UNCHANGED <<hostSeq, kept, conn, gen, floor, gap, resyncing, again, retry, listener, task, trouble>>

(* previewNewestReplay: the answer's picture and tail are shown at once, on a     *)
(* surface that is reset, until history replaces them (consumeAttachPreview).     *)
AttachAnswered ==
    /\ attach.pc = "asked"
    /\ IF attach.viaHttp THEN UNCHANGED wire
       ELSE /\ HeadIs("result") /\ Head(wire).who = "panel"
            /\ wire' = Tail(wire)
    /\ attach' = [attach EXCEPT !.pc = "paging"]
    /\ IF panel = "attaching"
       THEN /\ view' = attach.answer.last
            /\ hole' = (attach.answer.picture > 0 /\ attach.answer.from > attach.answer.picture + 1)
       ELSE UNCHANGED <<view, hole>>
    /\ UNCHANGED <<host, conn, gen, maps, task, panel, receiving, unposted, posted, bounds>>

(* consumeAttachReplay parses each page before the next one is asked for, the  *)
(* first after a reset that takes the preview away; a panel unmounted          *)
(* meanwhile makes it throw, which ends the attach.                            *)
AttachPage ==
    /\ attach.pc = "paging" /\ attach.cursor < attach.answer.last /\ panel = "attaching"
    /\ LET item == PageOf(attach, TRUE)
       IN /\ posted' = Append(posted, item)
          /\ attach' = PageRead(attach, item)
          /\ floor' = item.to
    /\ UNCHANGED <<host, wire, conn, gen, buf, gap, resyncing, again, retry, streaming, listener,
                   task, panel, receiving, unposted, view, hole, bounds>>

(* The attach returns, with the answer's picture to show if nothing was shown    *)
(* but the preview, and connectPty registers the listener in the same turn:     *)
(* it takes what was buffered beyond the replay, or asks for a resync when the *)
(* buffer overflowed or the transport is not connected.                        *)
Connect ==
    /\ attach.pc = "paging" /\ panel = "attaching"
    /\ \/ attach.cursor >= attach.answer.last /\ UNCHANGED trouble
       \/ /\ attach.cursor < attach.answer.last /\ trouble < MaxTrouble
          /\ attach.cursor = 0 \/ attach.answer.from <= attach.answer.last \/ "tail" \in Races
          /\ trouble' = trouble + 1
    /\ LET complete == attach.cursor >= attach.answer.last
           through == MaxOf(attach.answer.last, attach.cursor)
           tail == IF complete THEN <<>>
                   ELSE Stretches(attach.answer.from, attach.answer.last, TRUE)
           shown == IF tail = <<>> /\ attach.cursor = 0 THEN Picture(attach.answer.picture) ELSE tail
           rest == Beyond(buf, through)
       IN /\ floor' = through
          /\ IF gap
             THEN /\ posted' = posted \o shown /\ UNCHANGED <<receiving, unposted>>
                  /\ IF conn = "up"
                     THEN RequestResync(through, wire)
                     ELSE /\ resyncing' = TRUE /\ UNCHANGED <<again, task, armed, wire>>
                          /\ buf' = <<>> /\ gap' = FALSE
             ELSE /\ Deliver(posted \o shown, <<>>, FALSE, rest)
                  /\ buf' = <<>>
                  /\ resyncing' = (resyncing \/ conn # "up")
                  /\ UNCHANGED <<gap, again, task, armed, wire>>
    /\ streaming' = FALSE /\ listener' = TRUE /\ attach' = Idle /\ panel' = "connected"
    /\ UNCHANGED <<hostSeq, kept, conn, gen, retry, view, hole, mounts>>

(* The attach of a panel that is gone, or whose request failed, ends.          *)
AttachFails ==
    /\ attach.pc # "idle"
    /\ \/ panel # "attaching" /\ attach.pc = "paging" /\ UNCHANGED trouble
       \/ trouble < MaxTrouble /\ trouble' = trouble + 1
    /\ attach' = Idle /\ streaming' = FALSE
    /\ wire' = Without(wire, "panel")
    /\ panel' = (IF panel = "attaching" THEN "failed" ELSE panel)
    /\ UNCHANGED <<host, conn, gen, floor, buf, gap, resyncing, again, retry, listener, task,
                   receiving, unposted, posted, view, hole, mounts>>

(* The effect's cleanup: the last listener's removal clears the maps and       *)
(* detaches the stream.                                                        *)
Unmount ==
    /\ panel \in {"connected", "attaching"}
    /\ panel' = "none"
    /\ IF listener
       THEN /\ listener' = FALSE /\ buf' = <<>> /\ gap' = FALSE /\ resyncing' = FALSE
            /\ again' = FALSE /\ retry' = FALSE /\ armed' = FALSE
       ELSE UNCHANGED <<listener, buf, gap, resyncing, again, retry, armed>>
    /\ receiving' = FALSE /\ unposted' = <<>> /\ posted' = <<>>
    /\ UNCHANGED <<hostSeq, kept, wire, conn, gen, floor, streaming, task, attach, view, hole, bounds>>

-----------------------------------------------------------------------------
(* The transport.                                                              *)

Open ==
    /\ conn = "down"
    /\ conn' = "open"
    /\ UNCHANGED <<host, wire, gen, maps, task, attach, sink, bounds>>

(* connection:status "connected": every waiting terminal asks for its resync.  *)
Connected ==
    /\ conn = "open" /\ (resyncing => Alone)
    /\ conn' = "up"
    /\ IF resyncing THEN RequestResync(floor, wire)
                    ELSE UNCHANGED <<armed, wire, buf, gap, resyncing, again, task>>
    /\ UNCHANGED <<hostSeq, kept, gen, floor, retry, streaming, listener, attach, sink, bounds>>

(* connection:status "disconnected", then rejectPending and rejectRealtime: a  *)
(* realtime attach fails with its socket; an HTTP page read is aborted too,    *)
(* unless a page wake replaced the socket and preserved it.                    *)
Disconnect(preserve) ==
    /\ conn # "down" /\ gen < MaxGen
    /\ Stale => "stale" \in Races
    /\ conn' = "down" /\ gen' = gen + 1
    /\ wire' = <<>> /\ armed' = FALSE
    /\ retry' = FALSE
    /\ LET lost(call) == call.pc = "asked" \/ (call.pc = "paging" /\ ~preserve)
       IN /\ task' = IF lost(task) THEN Idle ELSE task
          /\ again' = (again /\ ~lost(task))
          /\ attach' = IF lost(attach) THEN Idle ELSE attach
          /\ streaming' = (streaming /\ ~lost(attach))
          /\ panel' = (IF lost(attach) /\ panel = "attaching" THEN "failed" ELSE panel)
    /\ resyncing' = (resyncing \/ listener)
    /\ UNCHANGED <<hostSeq, kept, floor, buf, gap, listener, receiving, unposted, posted, view, hole, bounds>>

ResyncSteady ==
    \/ FlushOutput \/ Parse \/ ReceiveData \/ ReceiveNotice
    \/ TaskAnswered \/ TaskPage \/ TaskDone \/ RetryTimer
    \/ AttachAnswered \/ AttachPage \/ Connect
    \/ Open \/ Connected

ResyncNext ==
    \/ ResyncSteady
    \/ HostOutput \/ HostTrim \/ HostFence
    \/ TaskFails \/ AttachFails
    \/ Mount \/ Unmount
    \/ \E preserve \in {FALSE, "wake" \in Races} : Disconnect(preserve)

ResyncSpec == ResyncInit /\ [][ResyncNext]_resyncVars /\ WF_resyncVars(ResyncSteady)

-----------------------------------------------------------------------------
ResyncTypes ==
    /\ {hostSeq, picture, trimmed} \subseteq 0..MaxSeq /\ floor \in 0..MaxSeq /\ view \in 0..MaxSeq
    /\ {armed, gap, resyncing, again, retry, streaming, listener, receiving, hole} \subseteq BOOLEAN
    /\ conn \in {"down", "open", "up"} /\ gen \in 0..MaxGen
    /\ task.pc \in {"idle", "asked", "paging"} /\ attach.pc \in {"idle", "asked", "paging"}
    /\ panel \in {"none", "attaching", "connected", "failed"}
    /\ listener <=> panel = "connected"

(* Whatever the terminal shows is an unbroken prefix of the host's output, or   *)
(* begins with a reset or a picture: attach, resync, live output, trims, buffer  *)
(* overflow and disconnect, in any order but those of Races, do not feed the     *)
(* parser past output it has not had.                                           *)
NoHole == ResyncTypes /\ ~hole

(* A listener whose transport stays connected ends up with a stream the host    *)
(* feeds and with all of the host's output, whatever failed, was fenced or was  *)
(* dropped from the buffer before: a waiting terminal is always asked for again, *)
(* in any order but those of Races.                                             *)
Listening == listener /\ conn = "up"
CaughtUp == listener => armed /\ view = hostSeq
CatchesUp == <>[]Listening => <>[]CaughtUp
=============================================================================
