---------------------------- MODULE WorkerTerminal ----------------------------
(* One terminal whose parser runs in a web worker: WorkerTerminalCore on the   *)
(* main thread, its lane of the worker's scheduler, the runtime entry inside    *)
(* terminal-worker.ts with its ring of packed updates, and the surface that     *)
(* draws them.  Content is a version number; an update says which version it    *)
(* brings and which one it patches.                                             *)
EXTENDS Naturals, Sequences, FiniteSets, SequencesExt

CONSTANTS
    Slots,         \* render update slots of the ring (3)
    MaxUpdates,    \* updates the main thread keeps undrawn (3)
    MaxAsked,      \* bound: writes, resizes and visibility changes
    MaxFaults,     \* bound: failed commands and dead workers
    MayDispose     \* whether the surface may be disposed

VARIABLES
    main,          \* "starting", "ready", "recovering" or "disposed"
    mainGen, unparsed, updates,                 \* WorkerTerminalCore
    visible, dirty, frame, model, shown, torn,  \* the surface
    lane, busy,    \* the scheduler's lane: queue and generation in flight (0: none)
    sent, toMain,  \* the worker's messages in and out
    core, pend,    \* the worker's runtime entry and its pendingUpdates entry
    asked, faults                               \* bounds

surface == <<visible, dirty, frame, model, shown, torn>>
counts == <<asked, faults>>
workerVars == <<main, mainGen, unparsed, updates, visible, dirty, frame, model, shown, torn,
                lane, busy, sent, toMain, core, pend, asked, faults>>

None == [none |-> TRUE]
NoPend == [armed |-> FALSE, full |-> FALSE, set |-> FALSE]

WorkerInit ==
    /\ main = "starting" /\ mainGen = 1 /\ unparsed = 0 /\ updates = <<>>
    /\ visible = TRUE /\ dirty = FALSE /\ frame = FALSE
    /\ model = [gen |-> 0, frame |-> 0] /\ shown = 0 /\ torn = FALSE
    /\ lane = <<[type |-> "create", gen |-> 1, visible |-> TRUE]>> /\ busy = 0
    /\ sent = <<>> /\ toMain = <<>> /\ core = None /\ pend = NoPend
    /\ asked = 0 /\ faults = 0

-----------------------------------------------------------------------------
(* The worker's handlers map what they change: the entry, the pending update    *)
(* and the events posted.                                                       *)

NewCore(cmd) ==
    [gen |-> cmd.gen, visible |-> cmd.visible, sync |-> "inactive", timer |-> FALSE,
     held |-> ~cmd.visible, heldFull |-> ~cmd.visible,
     content |-> 1, taken |-> 0, mode |-> FALSE,
     cols |-> 1, outCols |-> 0, frames |-> 0, model |-> 0, ring |-> {}]

(* GhosttyTerminalCore.tryRenderUpdate: a free slot first, then the dirty rows. *)
HasFreeSlot(c) == Cardinality(c.ring) < Slots
Emitted(w, full) ==
    LET c == w.core
        resized == c.cols # c.outCols
        gen == IF c.model = 0 \/ resized THEN c.model + 1 ELSE c.model
    IN [w EXCEPT
          !.core = [c EXCEPT !.ring = @ \union {c.frames + 1}, !.frames = @ + 1,
                             !.model = gen, !.outCols = c.cols, !.taken = c.content],
          !.out = Append(@, [type |-> "update", gen |-> c.gen, frame |-> c.frames + 1,
                             model |-> gen, base |-> c.taken, to |-> c.content,
                             full |-> full \/ resized \/ c.frames = 0])]

(* emitOrSchedule and scheduleUpdate.                                          *)
EmitOrSchedule(w, full) ==
    IF HasFreeSlot(w.core) THEN Emitted(w, full)
    ELSE [w EXCEPT !.pend = [set |-> TRUE, armed |-> TRUE, full |-> @.full \/ full]]

Suppressed(w, full) ==
    [w EXCEPT !.pend = NoPend, !.core.held = TRUE, !.core.heldFull = @ \/ full]

Unheld(w) == [w EXCEPT !.core.held = FALSE, !.core.heldFull = FALSE]
\* Fault: a synchronized update nobody ends has no timer.
SyncStartsUntimed(w) == [w EXCEPT !.core.sync = "suppressing"]
SyncStarts(w) == [w EXCEPT !.core.sync = "suppressing", !.core.timer = TRUE]
SyncEnds(w) == [w EXCEPT !.core.sync = "inactive", !.core.timer = FALSE]

(* requestPresentation: nothing leaves a hidden runtime or an open synchronized *)
(* update; what was held back joins the next emission.                          *)
Present(w, full) ==
    LET c == w.core
        all == full \/ c.heldFull
    IN IF ~c.visible
       THEN LET s == Suppressed(w, TRUE)
            IN IF c.mode /\ c.sync = "inactive" THEN SyncStarts(s)
               ELSE IF ~c.mode /\ c.sync # "inactive" THEN SyncEnds(s) ELSE s
       ELSE IF c.mode
       THEN Suppressed(IF c.sync = "suppressing" THEN w ELSE SyncStarts(w), full)
       ELSE EmitOrSchedule(Unheld(IF c.sync = "inactive" THEN w ELSE SyncEnds(w)), all)

(* process, one case per command that touches the entry.                       *)
Processed(w, cmd) ==
    CASE cmd.type = "write" ->
           LET parsed == [w EXCEPT !.core.content = @ + 1, !.core.mode = cmd.sync]
           IN [Present(parsed, cmd.reset) EXCEPT !.out = Append(@, [type |-> "parsed", gen |-> cmd.gen])]
      [] cmd.type = "recycle" ->
           IF cmd.frame \in w.core.ring
           THEN [w EXCEPT !.core.ring = @ \ {cmd.frame},
                          !.pend.armed = w.pend.set /\ (@ \/ (w.core.visible /\ w.core.sync # "suppressing"))]
           ELSE w
      [] cmd.type = "resize" ->
           Present([w EXCEPT !.pend = NoPend, !.core.cols = cmd.cols, !.core.content = @ + 1], TRUE)
      [] cmd.type = "present" ->
           IF w.core.visible = cmd.visible THEN w
           ELSE IF cmd.visible THEN Present([w EXCEPT !.core.visible = TRUE], TRUE)
           ELSE [w EXCEPT !.pend = NoPend, !.core.visible = FALSE,
                          !.core.held = TRUE, !.core.heldFull = TRUE]
      [] cmd.type = "full" -> Present(w, TRUE)
      [] cmd.type = "dispose" -> [w EXCEPT !.pend = NoPend, !.core = None]

Worker == [core |-> core, pend |-> pend, out |-> toMain]
SetWorker(next) == \E w \in {next} : core' = w.core /\ pend' = w.pend /\ toMain' = w.out

(* A command whose entry is missing or of another generation gets no answer.    *)
Process ==
    /\ sent # <<>>
    /\ LET cmd == Head(sent)
       IN IF cmd.type = "create"
          THEN LET w == [core |-> NewCore(cmd), pend |-> NoPend,
                         out |-> Append(toMain, [type |-> "ready", gen |-> cmd.gen])]
               IN SetWorker(IF cmd.visible THEN EmitOrSchedule(w, FALSE) ELSE w)
          ELSE IF core = None \/ core.gen # cmd.gen THEN UNCHANGED <<core, pend, toMain>>
          ELSE LET w == Processed(Worker, cmd)
               IN SetWorker([w EXCEPT !.out = Append(@, [type |-> "completed", gen |-> cmd.gen])])
    /\ sent' = Tail(sent)
    /\ UNCHANGED <<main, mainGen, unparsed, updates, surface, lane, busy, counts>>

(* The timer of a pending update.                                              *)
PendingTimer ==
    /\ pend.armed
    /\ IF ~core.visible \/ core.sync = "suppressing"
       THEN SetWorker([Worker EXCEPT !.pend = NoPend, !.core.held = TRUE,
                                     !.core.heldFull = @ \/ pend.full \/ ~core.visible])
       ELSE IF HasFreeSlot(core)
       THEN SetWorker(Emitted([Worker EXCEPT !.pend = NoPend], pend.full))
       ELSE pend' = [pend EXCEPT !.armed = FALSE] /\ UNCHANGED <<core, toMain>>
    /\ UNCHANGED <<main, mainGen, unparsed, updates, surface, lane, busy, sent, counts>>

(* A synchronized update that stays open for a second is shown all the same.    *)
SyncTimeout ==
    /\ core # None /\ core.timer
    /\ LET w == [Worker EXCEPT !.core.timer = FALSE, !.core.sync = "timedOut"]
       IN SetWorker(IF core.visible THEN EmitOrSchedule(Unheld(w), core.heldFull)
                    ELSE [w EXCEPT !.core.heldFull = TRUE])
    /\ UNCHANGED <<main, mainGen, unparsed, updates, surface, lane, busy, sent, counts>>

-----------------------------------------------------------------------------
(* The main thread: the lane, the events, the drawing.                          *)

(* FairWorkerScheduler: one command of a terminal is in flight at a time.       *)
Dispatch ==
    /\ lane # <<>> /\ busy = 0
    /\ busy' = Head(lane).gen
    /\ sent' = Append(sent, Head(lane)) /\ lane' = Tail(lane)
    /\ UNCHANGED <<main, mainGen, unparsed, updates, surface, toMain, core, pend, counts>>

Commands(cmds) == IF main = "ready" THEN lane \o cmds ELSE lane
\* Fault: of several updates only the last one is given back.
RecyclesLast(list) ==
    IF list = <<>> THEN <<>>
    ELSE <<[type |-> "recycle", gen |-> mainGen, frame |-> list[Len(list)].frame]>>
Recycles(list) == [i \in DOMAIN list |-> [type |-> "recycle", gen |-> mainGen, frame |-> list[i].frame]]

(* WorkerTerminalCore.fail: a new generation starts with a new core; a failure  *)
(* while one is being created is ignored.  `queued` is what the lane still has. *)
Fail(queued) ==
    IF main \in {"disposed", "recovering"}
    THEN lane' = queued /\ UNCHANGED <<main, mainGen, unparsed, updates>>
    ELSE IF main = "starting"
    THEN main' = "disposed" /\ lane' = <<>> /\ UNCHANGED <<mainGen, unparsed, updates>>
    ELSE /\ main' = "recovering" /\ mainGen' = mainGen + 1
         /\ unparsed' = 0 /\ updates' = <<>>
         /\ lane' = Append(queued, [type |-> "create", gen |-> mainGen + 1, visible |-> visible])

(* The pool's message listener, then WorkerTerminalCore.receive.  When the new   *)
(* core of a recovery is ready the panel resets it and replays the terminal.     *)
Receive ==
    /\ toMain # <<>>
    /\ toMain' = Tail(toMain)
    /\ LET event == Head(toMain)
           current == event.gen = mainGen /\ main # "disposed"
       IN /\ busy' = IF event.type \in {"completed", "ready", "error"} /\ busy = event.gen
                     THEN 0 ELSE busy
          /\ \/ /\ event.type = "ready" /\ current
                /\ main' = "ready"
                /\ IF main = "recovering" /\ asked < MaxAsked
                   THEN /\ lane' = Append(lane, [type |-> "write", gen |-> mainGen, sync |-> FALSE, reset |-> TRUE])
                        /\ unparsed' = unparsed + 1 /\ asked' = asked + 1
                   ELSE UNCHANGED <<lane, unparsed, asked>>
                /\ UNCHANGED <<mainGen, updates, dirty, frame>>
             \/ /\ event.type = "update" /\ current
                /\ LET all == Append(updates, event)
                       late == IF Len(all) > MaxUpdates THEN 1 ELSE 0
                   IN /\ updates' = SubSeq(all, late + 1, Len(all))
                      /\ lane' = Commands(Recycles(SubSeq(all, 1, late)))
                /\ dirty' = TRUE /\ frame' = (frame \/ visible)
                /\ UNCHANGED <<main, mainGen, unparsed, asked>>
             \/ /\ event.type = "parsed" /\ current
                /\ unparsed' = unparsed - 1
                /\ UNCHANGED <<main, mainGen, updates, lane, dirty, frame, asked>>
             \/ /\ event.type = "error" /\ current
                /\ Fail(lane)
                /\ UNCHANGED <<dirty, frame, asked>>
             \/ /\ ~current \/ event.type = "completed"
                /\ UNCHANGED <<main, mainGen, unparsed, updates, lane, dirty, frame, asked>>
    /\ UNCHANGED <<visible, model, shown, torn, sent, core, pend, faults>>

(* ViewportModel.apply                                                          *)
Accepts(m, u) ==
    /\ u.model >= m.gen
    /\ u.model = m.gen => u.frame > m.frame
    /\ u.model > m.gen => u.full
Apply(s, u) ==
    IF ~s.ok THEN s
    ELSE IF ~Accepts(s.model, u) THEN [s EXCEPT !.ok = FALSE, !.used = @ + 1]
    ELSE [ok |-> TRUE, used |-> s.used + 1, model |-> [gen |-> u.model, frame |-> u.frame],
          shown |-> u.to, torn |-> ~u.full /\ (s.torn \/ u.base # s.shown)]

(* renderFrame: drain, apply, draw, release.  A rejected update is released and  *)
(* ends the frame with an exception; the rest of the batch is gone.             *)
Draw ==
    /\ frame /\ visible /\ main # "disposed"
    /\ frame' = FALSE
    /\ IF updates = <<>> \/ ~(dirty \/ model.frame = 0)
       THEN UNCHANGED <<updates, dirty, model, shown, torn, lane>>
       ELSE \E end \in {FoldLeft(Apply, [ok |-> TRUE, used |-> 0, model |-> model,
                                         shown |-> shown, torn |-> torn], updates)} :
               /\ updates' = <<>>
               /\ dirty' = ~end.ok
               /\ model' = end.model /\ shown' = end.shown /\ torn' = end.torn
               /\ lane' = Commands(Recycles(SubSeq(updates, 1, end.used)))
    /\ UNCHANGED <<main, mainGen, unparsed, visible, busy, sent, toMain, core, pend, counts>>

-----------------------------------------------------------------------------
(* What the panel asks for.                                                     *)

Write(sync, reset) ==
    /\ main = "ready" /\ asked < MaxAsked
    /\ asked' = asked + 1 /\ unparsed' = unparsed + 1
    /\ lane' = Append(lane, [type |-> "write", gen |-> mainGen, sync |-> sync, reset |-> reset])
    /\ UNCHANGED <<main, mainGen, updates, surface, busy, sent, toMain, core, pend, faults>>

Resize ==
    /\ main = "ready" /\ asked < MaxAsked
    /\ asked' = asked + 1
    /\ lane' = Append(lane, [type |-> "resize", gen |-> mainGen, cols |-> 2])
    /\ UNCHANGED <<main, mainGen, unparsed, updates, surface, busy, sent, toMain, core, pend, faults>>

SetVisible ==
    /\ main \in {"ready", "recovering"} /\ asked < MaxAsked
    /\ asked' = asked + 1
    /\ visible' = ~visible
    /\ lane' = Commands(<<[type |-> "present", gen |-> mainGen, visible |-> ~visible]>>
                        \o (IF visible THEN <<>> ELSE <<[type |-> "full", gen |-> mainGen]>>))
    /\ frame' = ~visible
    /\ UNCHANGED <<main, mainGen, unparsed, updates, dirty, model, shown, torn, busy, sent,
                   toMain, core, pend, faults>>

(* WorkerTerminalCore.dispose: the releases and the dispose command are queued,  *)
(* and in the same turn channel.release cancels the lane that holds them.       *)
Dispose ==
    /\ MayDispose /\ main = "ready"
    /\ main' = "disposed" /\ updates' = <<>> /\ unparsed' = 0
    /\ lane' = <<>> /\ busy' = 0 /\ frame' = FALSE
    /\ UNCHANGED <<mainGen, visible, dirty, model, shown, torn, sent, toMain, core, pend, counts>>

-----------------------------------------------------------------------------
(* Failures: a command that throws, a worker that dies with all it held.        *)

CommandFails ==
    /\ faults < MaxFaults /\ sent # <<>>
    /\ \/ Head(sent).type = "create"
       \/ Head(sent).type \in {"write", "resize"} /\ core # None /\ core.gen = Head(sent).gen
    /\ faults' = faults + 1
    /\ sent' = Tail(sent)
    /\ toMain' = Append(toMain, [type |-> "error", gen |-> Head(sent).gen])
    /\ UNCHANGED <<main, mainGen, unparsed, updates, surface, lane, busy, core, pend, asked>>

WorkerDies ==
    /\ faults < MaxFaults
    /\ faults' = faults + 1
    /\ core' = None /\ pend' = NoPend /\ sent' = <<>> /\ busy' = 0
    /\ Fail(<<>>)
    /\ UNCHANGED <<surface, toMain, asked>>

WorkerSteps == Dispatch \/ Process \/ PendingTimer \/ SyncTimeout \/ Receive \/ Draw

WorkerNext ==
    \/ WorkerSteps
    \/ Write(FALSE, FALSE) \/ Write(TRUE, FALSE) \/ Write(FALSE, TRUE)
    \/ Resize \/ SetVisible \/ Dispose
    \/ CommandFails \/ WorkerDies

WorkerSpec == WorkerInit /\ [][WorkerNext]_workerVars /\ WF_workerVars(WorkerSteps)

-----------------------------------------------------------------------------
FramesIn(seq, type) == {m.frame : m \in {seq[i] : i \in {j \in DOMAIN seq : seq[j].type = type}}}

(* Every slot the ring has given out is named by an update on its way or by a   *)
(* recycle on its way back.  docs/terminal-renderers.md:79-81 promises it of    *)
(* every dispose as well; there the code drops the recycles it has just queued. *)
OwnershipReturned ==
    core # None =>
        core.ring = FramesIn(toMain, "update") \union FramesIn(updates, "update")
                    \union FramesIn(lane \o sent, "recycle")

(* While the first core lives, what is drawn was patched in order: no update    *)
(* patches a version that is not the one shown, although the main thread drops  *)
(* late updates and the worker skips emissions; and no slot is lost until the   *)
(* surface is disposed of.                                                      *)
PatchesFit == mainGen = 1 => ~torn /\ (main # "disposed" => OwnershipReturned)

(* A terminal that stays visible ends up showing its last content with every    *)
(* write parsed, however its slots ran out and its synchronized updates were    *)
(* left open; and a recovery does not last for ever when at most one fault      *)
(* happens.  After a recovery the model of the drawn screen is not reset, so    *)
(* the picture speaks of the first core only.                                   *)
Undisturbed == main = "recovering" \/ (mainGen = 1 /\ visible /\ main = "ready")
Settled == main # "recovering" /\ core # None /\ shown = core.content /\ ~torn /\ unparsed = 0
Presents == <>[]Undisturbed => <>[]Settled
=============================================================================
