----------------------------- MODULE SurfaceFrames -----------------------------
(* The picture of one terminal: GhosttyTerminalSurface asks for animation        *)
(* frames, applies the emulator's updates to its viewport model and has the model *)
(* drawn; RendererController replaces a renderer that fails; the WebGL renderer   *)
(* keeps a batch of glyphs per row that point into an atlas, the other one draws  *)
(* rows onto the canvas.  The emulator is in the page ("main") or in a worker,    *)
(* whose updates come as messages (WorkerTerminal).  A row's text is a number,    *)
(* 0 when it is blank, and has one glyph of its own; a row is placed by the cell  *)
(* metrics and the origin.                                                       *)
EXTENDS Naturals, Sequences, FiniteSets, SequencesExt

CONSTANTS
    Slots,             \* updates of the ring
    AtlasMax,          \* glyphs the atlas holds
    MaxRows,           \* bound: rows of the grid
    MaxEvents          \* bound: outputs, sizes, fonts, lost contexts, failed draws, and
                       \* times the surface or the page is shown again

VARIABLES
    home,              \* where the emulator runs: "main" or "worker"
    emulator,          \* [text, stale, force, gen, built, shown, asked, sync, scrolled]
    updates,           \* updates that wait in the page
    model,             \* the viewport model: [text, dirty, gen]
    view,              \* the surface's fields
    painter,           \* the controller, its renderer, and the picture on the canvas
    happened           \* bound

frameVars == <<home, emulator, updates, model, view, painter, happened>>

Blank == [text |-> 0, at |-> <<>>]
Garbled == MaxRows + MaxEvents + 1
Rows(text) == [i \in DOMAIN text |-> i]

(* Everything a turn of the page's event loop works on.                          *)
Page == [emulator |-> emulator, updates |-> updates, model |-> model, view |-> view, painter |-> painter]

NewPainter(kind, state) ==
    [kind |-> kind, state |-> state, scene |-> <<>>, gen |-> 0,
     atlas |-> [gen |-> 1, glyphs |-> {}], picture |-> <<>>]

FramesInit ==
    /\ home \in {"main", "worker"}
    /\ \E visible \in BOOLEAN, kind \in {"webgl2", "canvas2d"} :
         /\ emulator = [text |-> [i \in 1..MaxRows |-> i], stale |-> 1..MaxRows, force |-> FALSE,
                        gen |-> 0, built |-> 0, shown |-> visible, asked |-> FALSE,
                        sync |-> FALSE, scrolled |-> FALSE]
         /\ view = [visible |-> visible, page |-> TRUE, frame |-> visible, raf |-> visible,
                    dirty |-> TRUE, full |-> TRUE, sync |-> FALSE, timer |-> FALSE, rows |-> MaxRows,
                    slack |-> 1, metrics |-> 1, origin |-> 0, scrolled |-> FALSE]
         /\ painter = NewPainter(kind, "ready")
    /\ updates = <<>> /\ model = [text |-> <<>>, dirty |-> {}, gen |-> 0]
    /\ happened = 0

-----------------------------------------------------------------------------
(* The emulator's side.                                                         *)

(* tryRenderUpdate *)
UpdateOf(e) ==
    LET resized == Len(e.text) # e.built IN
    [text |-> e.text, scrolled |-> e.scrolled, gen |-> IF resized THEN e.gen + 1 ELSE e.gen,
     full |-> e.force \/ resized \/ e.stale = DOMAIN e.text,
     rows |-> IF e.force \/ resized THEN DOMAIN e.text ELSE e.stale]
Given(e) ==
    [e EXCEPT !.gen = UpdateOf(e).gen, !.built = Len(e.text), !.stale = {}, !.force = FALSE]
Resized(e, rows) ==
    IF Len(e.text) = rows THEN e
    ELSE [e EXCEPT !.text = [i \in 1..rows |-> IF i <= Len(e.text) THEN e.text[i] ELSE 0],
                   !.stale = 1..rows]

(* GhosttyViewportModel.apply *)
Applied(m, u) ==
    [text |-> [i \in DOMAIN u.text |-> IF i \in u.rows THEN u.text[i] ELSE m.text[i]],
     dirty |-> u.rows, gen |-> u.gen]

-----------------------------------------------------------------------------
(* The renderers.                                                               *)

(* WebGlGlyphAtlas.get: a full atlas is emptied, and all that points into it is   *)
(* out of date.                                                                  *)
WithGlyph(atlas, glyph) ==
    IF glyph \in atlas.glyphs \union {0} THEN atlas
    ELSE IF Cardinality(atlas.glyphs) < AtlasMax THEN [atlas EXCEPT !.glyphs = @ \union {glyph}]
    ELSE [gen |-> atlas.gen + 1, glyphs |-> {glyph}]

(* updateRows, buildRow: built.scene has a batch per row.                         *)
BuiltRow(built, text, i, at) ==
    LET atlas == WithGlyph(built.atlas, text[i])
    IN [atlas |-> atlas,
        scene |-> [built.scene EXCEPT ![i] = [text |-> text[i], at |-> at, glyphs |-> atlas.gen]]]
UpdateRows(built, text, rows, at) ==
    FoldLeft(LAMBDA b, i : BuiltRow(b, text, i, at), built, SelectSeq(Rows(text), LAMBDA i : i \in rows))
AllRows(atlas, text, at) ==
    UpdateRows([atlas |-> atlas, scene |-> [i \in DOMAIN text |-> Blank]], text, DOMAIN text, at)

(* What the batches show: a glyph of an emptied atlas is something else by now.   *)
Drawn(built) ==
    [i \in DOMAIN built.scene |->
        LET row == built.scene[i] IN
        [text |-> IF row.text = 0 \/ row.glyphs = built.atlas.gen THEN row.text ELSE Garbled, at |-> row.at]]

(* WebGlTerminalRenderer.render *)
\* A fault: rows whose glyphs were emptied out of the atlas are not built again.
StaleAtlasRender(p, m, at, force, rows) ==
    LET full == force \/ Len(p.scene) # Len(m.text) \/ p.gen # m.gen
        built == IF full THEN AllRows(p.atlas, m.text, at)
                 ELSE UpdateRows([atlas |-> p.atlas, scene |-> p.scene], m.text, rows, at)
    IN [p EXCEPT !.scene = built.scene, !.atlas = built.atlas, !.gen = m.gen, !.picture = Drawn(built)]
WebGlRender(p, m, at, force, rows) ==
    LET full == force \/ Len(p.scene) # Len(m.text) \/ p.gen # m.gen
        once == IF full THEN AllRows(p.atlas, m.text, at)
                ELSE UpdateRows([atlas |-> p.atlas, scene |-> p.scene], m.text, rows, at)
        reset == once.atlas.gen # p.atlas.gen
        built == IF reset THEN AllRows(once.atlas, m.text, at) ELSE once
    IN IF reset /\ built.atlas.gen # once.atlas.gen
       THEN [p EXCEPT !.scene = built.scene, !.atlas = built.atlas, !.state = "recovering"]
       ELSE [p EXCEPT !.scene = built.scene, !.atlas = built.atlas, !.gen = m.gen, !.picture = Drawn(built)]

(* renderGhosttySnapshot: rows that are not drawn stay as they are.               *)
CanvasRender(p, m, at, force, rows) ==
    LET before(i) == IF i \in DOMAIN p.picture THEN p.picture[i] ELSE Blank
        drawn == IF force THEN DOMAIN m.text ELSE rows
        left == IF force THEN Len(m.text) ELSE Len(p.picture)
    IN [p EXCEPT !.picture =
          [i \in 1..(IF left > Len(m.text) THEN left ELSE Len(m.text)) |->
              IF i \in drawn THEN [text |-> m.text[i], at |-> at] ELSE before(i)]]

(* RendererController.render, and what its renderer's failure does.               *)
Render(p, m, at, force, whole, rows, fails) ==
    IF p.state \notin {"ready", "fallback"} THEN p
    ELSE IF fails THEN [p EXCEPT !.state = "recovering"]
    ELSE IF p.kind = "webgl2" THEN WebGlRender(p, m, at, force \/ whole, rows)
    ELSE CanvasRender(p, m, at, force, rows)

-----------------------------------------------------------------------------
(* The surface.                                                                 *)

RequestRender(s) ==
    IF ~s.view.visible \/ s.view.sync \/ s.view.frame THEN s
    ELSE [s EXCEPT !.view.frame = TRUE, !.view.raf = TRUE]
CancelFrame(s) == [s EXCEPT !.view.frame = FALSE, !.view.raf = FALSE]

(* drainRenderUpdates, and the model after all of them.                          *)
Drained(s) ==
    IF home = "main"
    THEN LET u == UpdateOf(s.emulator)
         IN [s EXCEPT !.updates = <<>>, !.emulator = Given(@), !.model = Applied(@, u), !.view.dirty = FALSE]
    ELSE [s EXCEPT !.updates = <<>>, !.model = FoldLeft(Applied, @, s.updates), !.view.dirty = FALSE,
                   !.view.full = @ \/ Len(s.updates) > 1]

(* renderFrame *)
Present(s, drained, whole, fails) ==
    LET origin == IF s.view.scrolled THEN s.view.slack ELSE 0
        force == s.view.full \/ origin # s.view.origin
    IN [s EXCEPT !.view.origin = origin, !.view.full = FALSE,
                 !.painter = Render(@, s.model, <<s.view.metrics, origin>>, force, whole,
                                    IF drained THEN s.model.dirty ELSE {}, fails)]
RenderFrame(s, drain, fails) ==
    LET due == drain /\ (s.view.dirty \/ s.model.gen = 0)
        whole == IF home = "main" THEN UpdateOf(s.emulator).full
                 ELSE s.updates # <<>> /\ Last(s.updates).full
        next == CancelFrame(s)
    IN IF ~s.view.visible THEN s
       ELSE IF due /\ home = "worker" /\ s.updates = <<>> THEN next
       ELSE IF due THEN Present(Drained(next), TRUE, whole, fails)
       ELSE IF s.model.gen = 0 THEN next
       ELSE Present(next, FALSE, FALSE, fails)

(* afterTerminalWrite, afterRuntimeUpdate *)
AfterWrite(s, sync) ==
    LET dirty == [s EXCEPT !.view.dirty = TRUE]
    IN IF sync THEN CancelFrame([dirty EXCEPT !.view.sync = TRUE, !.view.timer = TRUE])
       ELSE RequestRender([dirty EXCEPT !.view.sync = FALSE, !.view.timer = FALSE])

(* core.resize *)
CoreResize(s, rows) ==
    IF home = "main" THEN [s EXCEPT !.emulator = Resized(@, rows)] ELSE [s EXCEPT !.emulator.asked = TRUE]

(* commitGeometry; a new backing store is an empty canvas.                        *)
CommitGeometry(s, rows, slack, backing) ==
    LET grid == rows # s.view.rows
        sized == [s EXCEPT !.view.slack = slack, !.view.rows = rows, !.view.full = @ \/ backing \/ grid,
                           !.view.dirty = @ \/ grid, !.painter.picture = IF backing THEN <<>> ELSE @]
        told == IF grid THEN CoreResize(sized, rows) ELSE sized
    IN IF backing /\ s.model.gen # 0 THEN RenderFrame(told, home = "main", FALSE)
       ELSE IF backing \/ grid THEN RequestRender(told) ELSE told

(* recover, activateRenderer and onFullRepaint, which end in the same turn as the  *)
(* failure did.                                                                  *)
Outcomes(p) == IF p.kind = "webgl2" THEN {"webgl2", "canvas2d", "none"} ELSE {"canvas2d", "none"}
Recovered(s, outcome) ==
    IF outcome = "none" THEN [s EXCEPT !.painter.state = "unavailable"]
    ELSE LET state == IF outcome = s.painter.kind THEN "ready" ELSE "fallback"
         IN RequestRender([s EXCEPT !.painter = NewPainter(outcome, state), !.view.full = TRUE])

(* A turn of the event loop ends, with its microtasks.                           *)
Become(s) ==
    /\ emulator' = s.emulator /\ updates' = s.updates /\ model' = s.model
    /\ view' = s.view /\ painter' = s.painter /\ UNCHANGED home
Turn(s) ==
    IF s.painter.state = "recovering" THEN \E o \in Outcomes(s.painter) : Become(Recovered(s, o))
    ELSE Become(s)

-----------------------------------------------------------------------------
Event == happened < MaxEvents /\ happened' = happened + 1

(* The program writes some rows; where the emulator is in the page it may have    *)
(* begun a synchronised update, which only its own later output ends.             *)
Output(rows, sync, scrolls) ==
    /\ Event
    /\ sync => home = "main"
    /\ scrolls => rows = DOMAIN emulator.text
    /\ LET e == [emulator EXCEPT
                   !.text = [i \in DOMAIN @ |-> IF i \in rows THEN MaxRows + happened' ELSE @[i]],
                   !.stale = @ \union rows, !.sync = sync, !.scrolled = @ \/ scrolls]
           s == [Page EXCEPT !.emulator = e]
       IN IF home = "main"
          THEN Become(AfterWrite([s EXCEPT !.view.scrolled = e.scrolled], sync))
          ELSE Become(s)

(* The worker has got what the page asked for: a size, or to be shown.            *)
WorkerAsked ==
    /\ home = "worker" /\ emulator.asked
    /\ Become([Page EXCEPT !.emulator =
                 [Resized(@, view.rows) EXCEPT !.asked = FALSE, !.shown = view.visible, !.force = TRUE]])
    /\ UNCHANGED happened

(* An update arrives.                                                            *)
WorkerUpdate ==
    /\ home = "worker" /\ emulator.shown /\ Len(updates) < Slots
    /\ emulator.force \/ emulator.stale # {}
    /\ LET u == UpdateOf(emulator)
       IN Become(AfterWrite([Page EXCEPT !.emulator = Given(@), !.updates = Append(@, u),
                                         !.view.scrolled = u.scrolled], FALSE))
    /\ UNCHANGED happened

Frame(fails) ==
    /\ view.raf /\ view.page
    /\ IF fails THEN Event ELSE UNCHANGED happened
    /\ Turn(RenderFrame([Page EXCEPT !.view.frame = FALSE, !.view.raf = FALSE], TRUE, fails))

(* A synchronised update takes too long.                                         *)
SyncTimeout ==
    /\ view.timer /\ UNCHANGED happened
    /\ Turn(RenderFrame([Page EXCEPT !.view.timer = FALSE], TRUE, FALSE))

(* The cursor blinks, or another overlay has changed.                            *)
Blink == view.visible /\ Become(RequestRender(Page)) /\ UNCHANGED happened

Hide ==
    /\ view.visible /\ UNCHANGED happened
    /\ Become(CancelFrame([Page EXCEPT !.view.visible = FALSE, !.emulator.asked = home = "worker"]))
Show ==
    /\ ~view.visible /\ Event
    /\ Become(RequestRender([Page EXCEPT !.view.visible = TRUE, !.view.full = TRUE,
                                         !.emulator.asked = home = "worker"]))

(* A hidden page has no animation frames, and the browser may drop one.           *)
PageHides(drops) ==
    /\ view.page /\ UNCHANGED happened
    /\ Become([Page EXCEPT !.view.page = FALSE, !.view.raf = @ /\ ~drops])
PageShows ==
    /\ ~view.page /\ Event
    /\ Become(RequestRender([CancelFrame(Page) EXCEPT !.view.page = TRUE, !.view.full = TRUE]))

(* The pane has another size: other rows fit, or the same leave another gap.       *)
Resize(rows, slack) ==
    /\ (rows = view.rows) # (slack = view.slack) /\ Event
    /\ Turn(CommitGeometry(Page, rows, slack, TRUE))

(* applyFontMetrics: other cells, in which the same pane may have other rows.     *)
SetFont(rows) ==
    /\ Event
    /\ LET p == IF painter.kind # "webgl2" THEN painter
                ELSE [painter EXCEPT !.scene = <<>>, !.gen = 0,
                                     !.atlas = [gen |-> @.gen + 1, glyphs |-> {}]]
           s == CoreResize([Page EXCEPT !.view.metrics = @ + 1, !.painter = p, !.view.dirty = TRUE,
                                        !.view.full = TRUE], view.rows)
       IN Become(RequestRender(CommitGeometry(s, rows, view.slack, FALSE)))

ContextLost ==
    /\ painter.kind = "webgl2" /\ Event
    /\ Turn([Page EXCEPT !.painter.state = "recovering"])

FramesNext ==
    \/ \E rows \in SUBSET DOMAIN emulator.text \ {{}}, sync \in BOOLEAN, scrolls \in BOOLEAN :
          Output(rows, sync, scrolls)
    \/ WorkerAsked \/ WorkerUpdate
    \/ \E fails \in BOOLEAN : Frame(fails)
    \/ SyncTimeout \/ Blink \/ Hide \/ Show
    \/ \E drops \in BOOLEAN : PageHides(drops)
    \/ PageShows
    \/ \E rows \in 1..MaxRows : SetFont(rows) \/ \E slack \in {0, 1} : Resize(rows, slack)
    \/ ContextLost

-----------------------------------------------------------------------------
(* Nothing more is coming: no frame is due, and the worker has said all.          *)
AtRest ==
    /\ view.visible /\ view.page /\ ~view.raf /\ ~view.sync
    /\ home = "worker" => updates = <<>> /\ ~emulator.asked /\ ~emulator.force /\ emulator.stale = {}

(* At rest the canvas shows the emulator's rows, each with its own glyphs and at   *)
(* its present place, whatever was hidden, resized, overtaken or lost before:      *)
(* what a frame skips, a later one makes good.  Two exceptions: no renderer could  *)
(* be made, and below the grid the second renderer may leave what it drew there.   *)
PictureTrue ==
    AtRest /\ painter.state # "unavailable" =>
        LET at == <<view.metrics, IF view.scrolled THEN view.slack ELSE 0>>
            rows == [i \in 1..view.rows |-> [text |-> emulator.text[i], at |-> at]]
        IN /\ Len(emulator.text) = view.rows
           /\ Len(painter.picture) >= view.rows /\ SubSeq(painter.picture, 1, view.rows) = rows
           /\ painter.kind = "webgl2" => painter.picture = rows
=============================================================================
