------------------------------ MODULE TilingTree ------------------------------
(* How a window is tiled: PanelTree of @yaade/panels and the operations of       *)
(* terminal-tiling.ts on it.  A leaf is a pane, empty (term 0) or with one       *)
(* terminal.  A split lays its kids out in a row or a column; of their ratios    *)
(* only whether they are equal is kept.  A workspace adds the next pane id, the  *)
(* focused pane and the zoomed one (0: none).  What is written to the host is     *)
(* the workspace itself.                                                         *)
EXTENDS Naturals, Sequences, FiniteSets, SequencesExt, FiniteSetsExt

CONSTANT MaxTiles              \* MAX_TERMINAL_TILES

Leaf(panel, term) == [panel |-> panel, term |-> term]
Division(kind, kids) == [kind |-> kind, kids |-> kids, even |-> TRUE]
IsLeaf(node) == "panel" \in DOMAIN node

(* visitLeaves: the panes from the left and the top.                             *)
RECURSIVE Leaves(_)
Leaves(node) ==
    IF IsLeaf(node) THEN <<node>> ELSE FlattenSeq([i \in DOMAIN node.kids |-> Leaves(node.kids[i])])
Panes(ws) == ToSet(Leaves(ws.root))
Panels(ws) == {leaf.panel : leaf \in Panes(ws)}
TermsIn(ws) == {leaf.term : leaf \in Panes(ws)} \ {0}
Tiles(ws) == Len(Leaves(ws.root))
FirstPanel(ws) == Head(Leaves(ws.root)).panel
TermAt(ws, panel) == (CHOOSE leaf \in Panes(ws) : leaf.panel = panel).term
PanelOf(ws, term) == (CHOOSE leaf \in Panes(ws) : leaf.term = term).panel

(* mapNode, setView *)
RECURSIVE Replaced(_, _, _)
Replaced(node, panel, new) ==
    IF IsLeaf(node) THEN IF node.panel = panel THEN new ELSE node
    ELSE [node EXCEPT !.kids = [i \in DOMAIN @ |-> Replaced(@[i], panel, new)]]
WithTerm(ws, panel, term) == [ws EXCEPT !.root = Replaced(@, panel, Leaf(panel, term))]

(* splitAtEdge *)
SplitAtEdge(ws, panel, edge) ==
    LET old == Leaf(panel, TermAt(ws, panel))
        new == Leaf(ws.next, 0)
        kids == IF edge \in {"right", "bottom"} THEN <<old, new>> ELSE <<new, old>>
        kind == IF edge \in {"left", "right"} THEN "row" ELSE "column"
    IN [ws EXCEPT !.root = Replaced(@, panel, Division(kind, kids)), !.next = @ + 1]

(* removePanel: a split with one kid left gives way to it, and every other split  *)
(* of the tree, on the pane's path or not, is made even again.                    *)
RECURSIVE Removed(_, _)
Removed(node, panel) ==
    IF IsLeaf(node) THEN IF node.panel = panel THEN <<>> ELSE <<node>>
    ELSE LET kids == FlattenSeq([i \in DOMAIN node.kids |-> Removed(node.kids[i], panel)])
         IN IF Len(kids) <= 1 THEN kids ELSE <<Division(node.kind, kids)>>

(* removeTerminalPanel: the last pane is emptied.                                 *)
WithoutPanel(ws, panel) ==
    IF Tiles(ws) = 1 THEN WithTerm(ws, panel, 0)
    ELSE [ws EXCEPT !.root = Head(Removed(@, panel))]

(* getAtPath and setSplitRatios: the splits the user can drag.                    *)
RECURSIVE Paths(_)
Paths(node) ==
    IF IsLeaf(node) THEN {}
    ELSE {<<>>} \union UNION {{<<i>> \o path : path \in Paths(node.kids[i])} : i \in DOMAIN node.kids}
RECURSIVE Dragged(_, _)
Dragged(node, path) ==
    IF path = <<>> THEN [node EXCEPT !.even = ~@]
    ELSE [node EXCEPT !.kids[Head(path)] = Dragged(@, Tail(path))]

-----------------------------------------------------------------------------
(* terminal-tiling.ts *)

CreateWorkspace == [root |-> Leaf(1, 0), next |-> 2, focus |-> 1, zoom |-> 0]
At(ws, panel) == [ws EXCEPT !.focus = panel, !.zoom = 0]
ResolvedFocus(ws) == IF ws.focus \in Panels(ws) THEN ws.focus ELSE FirstPanel(ws)

Focus(ws, panel) == IF panel \in Panels(ws) THEN At(ws, panel) ELSE ws

SplitPanel(ws, panel, edge) ==
    IF panel \notin Panels(ws) \/ Tiles(ws) >= MaxTiles THEN ws
    ELSE At(SplitAtEdge(ws, panel, edge), ws.next)

(* The terminal gets a pane of its own beside the target, when there is room.     *)
Beside(ws, panel, edge, term) ==
    LET split == SplitPanel(ws, panel, edge)
    IN IF split = ws THEN ws ELSE WithTerm(split, split.focus, term)

Open(ws, term) ==
    LET target == ResolvedFocus(ws)
    IN IF term \in TermsIn(ws) THEN At(ws, PanelOf(ws, term))
       ELSE IF TermAt(ws, target) = 0 THEN At(WithTerm(ws, target, term), target)
       ELSE Beside(ws, target, "right", term)

OpenIn(ws, panel, term) ==
    IF term \notin TermsIn(ws) /\ panel \in Panels(ws) /\ TermAt(ws, panel) = 0
    THEN At(WithTerm(ws, panel, term), panel)
    ELSE Open(ws, term)

ToggleZoom(ws, panel) ==
    IF panel \notin Panels(ws) \/ Tiles(ws) < 2 THEN ws
    ELSE [ws EXCEPT !.focus = panel, !.zoom = IF @ = panel THEN 0 ELSE panel]

\* A fault: the focus stays on the pane that was closed.
ClosePanelKeepsFocus(ws, panel) ==
    IF panel \notin Panels(ws) THEN ws
    ELSE [WithoutPanel(ws, panel) EXCEPT !.zoom = IF @ = panel THEN 0 ELSE @]
ClosePanel(ws, panel) ==
    IF panel \notin Panels(ws) THEN ws
    ELSE LET left == WithoutPanel(ws, panel)
         IN [left EXCEPT !.focus = ResolvedFocus(left), !.zoom = IF @ = panel THEN 0 ELSE @]

ResizeSplit(ws, path) == [ws EXCEPT !.root = Dragged(@, path)]

(* dockTerminalView: dropped on an edge, it moves beside the target; dropped on    *)
(* the centre, it swaps with the target's terminal or fills the empty pane.       *)
DockEdge(ws, term, target, edge) ==
    LET from == IF term \in TermsIn(ws) THEN WithoutPanel(ws, PanelOf(ws, term)) ELSE ws
    IN IF term \notin TermsIn(ws) /\ Tiles(ws) >= MaxTiles THEN ws
       ELSE IF target \notin Panels(from) THEN ws
       ELSE At(WithTerm(SplitAtEdge(from, target, edge), from.next, term), from.next)
\* A fault: the terminal takes the place of the target's.
DockCentreReplaces(ws, term, target) ==
    LET filled == WithTerm(ws, target, term)
    IN At(IF term \in TermsIn(ws) THEN WithoutPanel(filled, PanelOf(ws, term)) ELSE filled, target)
DockCentre(ws, term, target) ==
    IF TermAt(ws, target) = 0
    THEN LET filled == WithTerm(ws, target, term)
         IN At(IF term \in TermsIn(ws) THEN WithoutPanel(filled, PanelOf(ws, term)) ELSE filled, target)
    ELSE IF term \in TermsIn(ws)
    THEN At(WithTerm(WithTerm(ws, PanelOf(ws, term), TermAt(ws, target)), target, term), target)
    ELSE Beside(ws, target, "right", term)
Dock(ws, term, target, edge) ==
    IF target \notin Panels(ws) THEN ws
    ELSE IF TermAt(ws, target) = term THEN At(ws, target)
    ELSE IF edge = "centre" THEN DockCentre(ws, term, target)
    ELSE DockEdge(ws, term, target, edge)

(* removeMissingTerminalViews *)
RemoveMissing(ws, live) ==
    FoldLeft(LAMBDA w, leaf: IF leaf.term \in live \union {0} THEN w ELSE ClosePanel(w, leaf.panel),
             ws, Leaves(ws.root))

(* restoreTerminalWorkspace: what a stored layout is worth with the terminals that *)
(* live.  A layout without its focused pane is none.  Its ratios are brought to a  *)
(* sum of one, which leaves shares that were equal equal and the others unequal.   *)
NoLayout == <<>>
Parsed(layout) ==
    IF layout = NoLayout \/ layout.focus \notin Panels(layout) THEN CreateWorkspace
    ELSE [layout EXCEPT !.next = Max(Panels(layout) \union {@ - 1}) + 1,
                        !.zoom = IF @ \in Panels(layout) THEN @ ELSE 0]
RECURSIVE Capped(_)
Capped(ws) ==
    IF Tiles(ws) <= MaxTiles THEN ws
    ELSE LET empty == SelectSeq(Leaves(ws.root), LAMBDA leaf: leaf.term = 0)
         IN Capped(ClosePanel(ws, (IF empty # <<>> THEN Head(empty) ELSE Last(Leaves(ws.root))).panel))
Restore(layout, terms) ==
    LET ws == Capped(RemoveMissing(Parsed(layout), terms))
    IN FoldLeft(Open, ws, SetToSortSeq(terms \ TermsIn(ws), <))

-----------------------------------------------------------------------------
(* What every workspace is to be.                                               *)
RECURSIVE Divided(_)
Divided(node) ==
    IsLeaf(node) \/ (Len(node.kids) >= 2 /\ \A i \in DOMAIN node.kids : Divided(node.kids[i]))
Sound(ws) ==
    /\ Cardinality(Panels(ws)) = Tiles(ws) /\ Tiles(ws) <= MaxTiles
    /\ Cardinality({leaf \in Panes(ws) : leaf.term # 0}) = Cardinality(TermsIn(ws))
    /\ \A panel \in Panels(ws) : panel < ws.next
    /\ ws.focus \in Panels(ws) /\ ws.zoom \in {0, ws.focus}
    /\ Divided(ws.root)
=============================================================================
