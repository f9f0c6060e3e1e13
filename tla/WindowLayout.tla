----------------------------- MODULE WindowLayout -----------------------------
(* One window of a session shown by several browsers: the effects and handlers   *)
(* of TerminalMultiplexer.tsx that place its terminals in panes, save the tiling *)
(* to the host under the window's revision, and adopt what another browser has   *)
(* saved.  The host bumps that revision for every selection, creation and close  *)
(* too.  A browser's requests arrive in order, as do the host's events; an       *)
(* answer may overtake them.                                                    *)
EXTENDS TilingTree

CONSTANTS
    Crowds,                    \* the sets of browsers that may share the window
    Edges,                     \* bound: edges the users drop and split at
    MaxTerm,                   \* bound: terminals ever created
    MaxEdits,                  \* bound: actions of a user alone; one less for each other,
                               \* and one at most when the window is not one pane
    MaxReloads                 \* bound: pages loaded again

ASSUME LayoutBounds ==
    /\ Edges \subseteq {"left", "right", "top", "bottom"}
    /\ {MaxTiles, MaxEdits} \subseteq Nat \ {0} /\ {MaxTerm, MaxReloads} \subseteq Nat

VARIABLES
    hostTab,                   \* the window on the host: [rev, layout, term]
    hostTerms,                 \* its terminals
    lastTerm,                  \* the newest terminal's id
    page,                      \* the browsers
    edits, reloads             \* bounds

layoutVars == <<hostTab, hostTerms, lastTerm, page, edits, reloads>>

None == <<>>
Browsers == DOMAIN page
NoSave == [phase |-> "none", layout |-> None, rev |-> 0]

(* What a browser's store says of the window (MuxStore has the whole of it).     *)
Live(b) == b.known \ b.closed
(* reconcileSelection *)
Selected(b) ==
    IF b.sel \in Live(b) THEN b.sel
    ELSE IF b.tab.term \in Live(b) THEN b.tab.term
    ELSE IF Live(b) = {} THEN 0 ELSE Min(Live(b))

(* The workspace is another one: the save effect arms its timer, or clears it     *)
(* when the store already has this tiling.                                        *)
\* A fault: a timer that runs is not started anew.
EditedOnce(b, ws) ==
    [b EXCEPT !.ws = ws, !.timer = IF ws = b.tab.layout THEN None ELSE IF @ # None THEN @ ELSE <<ws>>]
Edited(b, ws) == [b EXCEPT !.ws = ws, !.timer = IF ws = b.tab.layout THEN None ELSE <<ws>>]
Update(b, ws) == IF ws = b.ws THEN b ELSE Edited(b, ws)

(* The effects of a store that has changed: adopt the host's tiling if the own    *)
(* one is still what the host had before, open a newly selected terminal, drop    *)
(* the panes of terminals that are gone.                                          *)
Adopts(b) ==
    /\ b.server.rev # b.tab.rev \/ b.server.layout # b.tab.layout
    /\ b.ws = b.server.layout /\ b.ws # b.tab.layout
AutoOpened(b, ws) == IF Selected(b) \in {0, b.opened} THEN ws ELSE Open(ws, Selected(b))
Rendered(b) ==
    LET adopted == IF Adopts(b) THEN Restore(b.tab.layout, Live(b)) ELSE b.ws
        ws == RemoveMissing(AutoOpened(b, adopted), Live(b))
        seen == [b EXCEPT !.server = [rev |-> b.tab.rev, layout |-> b.tab.layout],
                          !.sel = Selected(b),
                          !.opened = IF Selected(b) = 0 THEN @ ELSE Selected(b)]
    IN IF Adopts(b) THEN Edited(seen, ws) ELSE Update(seen, ws)

Once(S) == CHOOSE one \in S : TRUE      \* for TLC: S has one element, evaluated once
Effects(changed) == Once({Rendered(b) : b \in {changed}})

(* replaceTab, replaceMuxTerminal *)
Newer(b, tab) == IF tab.rev > b.tab.rev THEN [b EXCEPT !.tab = tab] ELSE b

(* A page is loaded: the restore effect, then the others.                         *)
Loaded(tab, terms) ==
    LET blank == [tab |-> tab, known |-> terms, closed |-> {}, sel |-> 0, opened |-> 0,
                  ws |-> Restore(tab.layout, terms), server |-> [rev |-> tab.rev, layout |-> tab.layout],
                  timer |-> None, queue |-> <<>>, saving |-> NoSave, creating |-> <<>>,
                  news |-> <<>>, refused |-> FALSE]
    IN Effects(Edited(blank, blank.ws))

(* Stored so far: nothing, one pane, or (before the limit was lowered to MaxTiles) *)
(* more panes than are allowed, empty or not; more browsers start with one pane.   *)
Crowded(terms) ==
    [root |-> Division("row", [i \in 1..(MaxTiles + 1) |-> Leaf(i, IF i \in terms THEN i ELSE 0)]),
     next |-> MaxTiles + 2, focus |-> 1, zoom |-> 0]
Stored(terms) == {Restore(NoLayout, terms), NoLayout, Crowded(terms)}
LayoutInit ==
    /\ \E crowd \in Crowds, terms \in {{1}, 1..(MaxTiles + 1)} :
         /\ hostTerms = terms /\ lastTerm = Max(terms)
         /\ \E layout \in Stored(terms) :
              /\ Cardinality(crowd) = 1 \/ (terms = {1} /\ layout = Restore(NoLayout, terms))
              /\ hostTab = [rev |-> 2, layout |-> layout, term |-> Max(terms)]
              /\ edits = IF layout = Restore(NoLayout, {1}) THEN 0 ELSE MaxEdits - 1
         /\ page = [b \in crowd |-> Loaded(hostTab, terms)]
    /\ reloads = 0

-----------------------------------------------------------------------------
(* The host.  An operation on the window raises its revision and is told to every  *)
(* browser; a browser's requests arrive in order, so the save it has under way     *)
(* comes first.                                                                   *)

Host == [tab |-> hostTab, terms |-> hostTerms, last |-> lastTerm, page |-> page]
Become(next) ==
    \E h \in {next} : hostTab' = h.tab /\ hostTerms' = h.terms /\ lastTerm' = h.last /\ page' = h.page
Bumped(h, tab) == [h EXCEPT !.tab = [tab EXCEPT !.rev = h.tab.rev + 1]]
Told(h, made, gone) ==
    [h EXCEPT !.page = [y \in Browsers |->
        [@[y] EXCEPT !.news = Append(@, [made |-> made, gone |-> gone, tab |-> h.tab])]]]

(* save_tab_layout *)
Saved(h, x) ==
    LET save == h.page[x].saving
        done == Bumped(h, [h.tab EXCEPT !.layout = save.layout])
    IN IF save.phase # "sent" THEN h
       ELSE IF save.rev # h.tab.rev THEN [h EXCEPT !.page[x].saving.phase = "conflict"]
       ELSE [Told(done, {}, {}) EXCEPT !.page[x].saving.phase = "saved", !.page[x].saving.rev = done.tab.rev]

(* select_terminal, create_terminal, close_terminal *)
SelectedOnHost(h, x, term) ==
    IF term \notin h.terms THEN Saved(h, x)
    ELSE Told(Bumped(Saved(h, x), [Saved(h, x).tab EXCEPT !.term = term]), {}, {})
CreatedOnHost(h, x) ==
    Once({Told(Bumped([g EXCEPT !.last = @ + 1, !.terms = @ \union {g.last + 1}],
                      [g.tab EXCEPT !.term = g.last + 1]), {g.last + 1}, {}) : g \in {Saved(h, x)}})
ClosedOnHost(h, x, term) ==
    LET g == [Saved(h, x) EXCEPT !.terms = @ \ {term}]
        next == IF g.terms = {} THEN 0 ELSE Min(g.terms)
    IN IF term \notin h.terms THEN g
       ELSE Told(IF g.tab.term = term THEN Bumped(g, [g.tab EXCEPT !.term = next]) ELSE g, {}, {term})

-----------------------------------------------------------------------------
(* What the user does.  Each handler changes the workspace, and some ask the host.  *)

With(x, b) == [Host EXCEPT !.page[x] = b]

(* activateDockedTerminal: the host is told of a selection that is new.           *)
Activated(x, b, term) ==
    IF term \notin Live(b) \/ term = b.sel THEN With(x, b)
    ELSE SelectedOnHost(With(x, Effects([b EXCEPT !.sel = term])), x, term)

(* selectTerminal: navigationIntent moves on, so a creation under way will not     *)
(* show its terminal.                                                             *)
Moved(b) == [b EXCEPT !.creating = [i \in DOMAIN @ |-> [@[i] EXCEPT !.wanted = FALSE]]]
Select(b, term, ws) ==
    LET moved == Update(Moved(b), ws)
    IN Effects([moved EXCEPT !.sel = IF term \in Live(b) THEN term ELSE @])

(* createTerminal for a pane, which is busy until the answer.                      *)
Creating(x, b, panel) ==
    Once({[h EXCEPT !.page[x] = [Moved(@) EXCEPT !.creating =
                                     Append(@, [panel |-> panel, id |-> h.last, wanted |-> TRUE])]]
            : h \in {CreatedOnHost(With(x, b), x)}})
Busy(b) == {b.creating[i].panel : i \in DOMAIN b.creating}

(* What only changes the workspace: splitFocusedTerminalPanel, zoomTerminalPanel,   *)
(* splitRatiosChanged, the close of an empty pane.                                 *)
Retilings(ws) ==
    {SplitPanel(ws, panel, edge) : panel \in Panels(ws), edge \in {"right", "bottom"} \intersect Edges}
    \union {ToggleZoom(ws, panel) : panel \in Panels(ws)}
    \union {ResizeSplit(ws, path) : path \in Paths(ws.root)}
    \union {ClosePanel(ws, panel) : panel \in {p \in Panels(ws) : TermAt(ws, p) = 0}}
Retile(x) ==
    \E ws \in Retilings(page[x].ws) \ {page[x].ws} : Become(With(x, Update(page[x], ws)))

(* addTerminalToSplitPanel *)
SplitAndCreate(x) ==
    \E panel \in Panels(page[x].ws) :
        LET ws == SplitPanel(page[x].ws, panel, "right")
        IN ws # page[x].ws /\ lastTerm < MaxTerm /\ Become(Creating(x, Update(page[x], ws), ws.focus))
FocusPane(x) ==
    \E panel \in Panels(page[x].ws) \ {page[x].ws.focus} :
        Become(Activated(x, Update(page[x], Focus(page[x].ws, panel)), TermAt(page[x].ws, panel)))
(* dockWindowTerminal, for a terminal of this window                              *)
DockPane(x) ==
    \E term \in Live(page[x]), target \in Panels(page[x].ws), edge \in Edges \union {"centre"} :
        LET ws == Dock(page[x].ws, term, target, edge)
        IN ws # page[x].ws /\ Become(Activated(x, Update(page[x], ws), term))
PickTerminal(x) ==
    \E term \in Live(page[x]) : Become(With(x, Select(page[x], term, Open(page[x].ws, term))))
(* closeWorkspacePane: a terminal is hidden at once and closed on the host.       *)
CloseTerminal(x) ==
    \E term \in TermsIn(page[x].ws) \intersect Live(page[x]) :
        Become(ClosedOnHost(With(x, Effects([page[x] EXCEPT !.closed = @ \union {term}])), x, term))

UserActs(x) ==
    /\ edits + Cardinality(Browsers) <= MaxEdits /\ edits' = edits + 1 /\ UNCHANGED reloads
    /\ Retile(x) \/ SplitAndCreate(x) \/ FocusPane(x) \/ DockPane(x) \/ PickTerminal(x) \/ CloseTerminal(x)

(* The page is loaded again: what it had not saved, and the answers it was waiting *)
(* for, are gone.                                                                 *)
Reload(x) ==
    /\ reloads < MaxReloads /\ reloads' = reloads + 1
    /\ Become(With(x, Loaded(hostTab, hostTerms)))
    /\ UNCHANGED edits

-----------------------------------------------------------------------------
(* What happens by itself.                                                      *)

(* An empty pane asks for a terminal: the first one, and only when it has not.    *)
AutoCreate(x) ==
    LET b == page[x]
        empty == SelectSeq(Leaves(b.ws.root), LAMBDA leaf: leaf.term = 0)
    IN /\ empty # <<>> /\ Head(empty).panel \notin Busy(b) /\ lastTerm < MaxTerm
       /\ Live(b) = {} \/ TermsIn(b.ws) # {}
       /\ Become(Creating(x, b, Head(empty).panel))

(* The save timer: saves queue up behind each other, and each one takes the        *)
(* revision the store has when it is sent.                                        *)
SendNext(b) ==
    IF b.queue = <<>> THEN [b EXCEPT !.saving = NoSave]
    ELSE [b EXCEPT !.queue = Tail(@),
                   !.saving = [phase |-> "sent", layout |-> Head(b.queue), rev |-> b.tab.rev]]
TimerFires(x) ==
    LET queued == [page[x] EXCEPT !.timer = None, !.queue = @ \o page[x].timer]
    IN /\ page[x].timer # None
       /\ Become(With(x, IF queued.saving = NoSave THEN SendNext(queued) ELSE queued))
SaveArrives(x) == page[x].saving.phase = "sent" /\ Become(Saved(Host, x))

(* The answer to a save.  A conflict reaches the browser without the revisions     *)
(* that would make it a SessionTabConflict: it is reported, and nothing is saved   *)
(* again.                                                                         *)
SaveAnswered(x) ==
    LET b == page[x]
        tab == [rev |-> b.saving.rev, layout |-> b.saving.layout, term |-> b.tab.term]
    IN \/ /\ b.saving.phase = "conflict"
          /\ Become(With(x, SendNext([b EXCEPT !.refused = TRUE])))
       \/ /\ b.saving.phase = "saved"
          /\ Become(With(x, SendNext(Effects(Newer([b EXCEPT !.refused = FALSE], tab)))))

(* createTerminal goes on: the answer puts the terminal into the store, the session *)
(* is listed again, and the terminal is selected, if no navigation came between:    *)
(* also one that another browser has closed in the meantime.                        *)
Created(x) ==
    \E i \in DOMAIN page[x].creating :
        LET made == page[x].creating[i]
        IN \E b \in {Effects([page[x] EXCEPT !.creating = RemoveAt(@, i), !.known = @ \union {made.id}])} :
              Become(With(x, IF made.wanted THEN Select(b, made.id, OpenIn(b.ws, made.panel, made.id)) ELSE b))

Deliver(x) ==
    LET b == page[x]
        event == Head(b.news)
    IN /\ b.news # <<>>
       /\ Become(With(x, Effects(Newer([b EXCEPT !.news = Tail(@), !.known = @ \union event.made,
                                                 !.closed = @ \union event.gone], event.tab))))

LayoutSteady ==
    /\ \E x \in Browsers :
        \/ AutoCreate(x) \/ TimerFires(x) \/ SaveArrives(x) \/ SaveAnswered(x) \/ Created(x) \/ Deliver(x)
    /\ UNCHANGED <<edits, reloads>>
LayoutNext == LayoutSteady \/ \E x \in Browsers : UserActs(x) \/ Reload(x)

-----------------------------------------------------------------------------
(* Every tiling on show is well formed: panes with ids of their own, no terminal in *)
(* two of them, no more than fit, no split of one, the focus on a pane and a zoom   *)
(* only of the focused one.  Stored and loaded again it is the same.              *)
TilesSound ==
    \A x \in Browsers : Sound(page[x].ws) /\ Restore(page[x].ws, TermsIn(page[x].ws)) = page[x].ws

(* When nothing is under way the browsers show what the host has stored, and no    *)
(* terminal that has ended: unless the last save of one of them was refused.       *)
Quiet(b) == b.timer = None /\ b.saving = NoSave /\ b.creating = <<>> /\ b.news = <<>>
Rested == \A x \in Browsers : Quiet(page[x])
TilesAgree ==
    Rested =>
        /\ (\E x \in Browsers : page[x].refused) \/ \A x \in Browsers : page[x].ws = hostTab.layout
        /\ \A x \in Browsers : TermsIn(page[x].ws) \subseteq hostTerms

(* No step but a reload, or the adoption of another tiling, takes a terminal that   *)
(* lives off the screen.                                                          *)
TilesKeep ==
    [][\A x \in Browsers :
          reloads' = reloads /\ page'[x].server.layout = page[x].server.layout =>
              TermsIn(page[x].ws) \intersect Live(page[x]) \intersect Live(page'[x])
                  \subseteq TermsIn(page'[x].ws)]_layoutVars
=============================================================================
