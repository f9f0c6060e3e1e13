------------------------------ MODULE MCWindow ------------------------------
(* A window of the browser for TLC: its tiling in one or two browsers, where    *)
(* the surface of one of its terminals is and what that shows, and the panel of  *)
(* one.  They share no state in these models; `part` says, from the start on,   *)
(* which of them moves.                                                         *)
EXTENDS WindowLayout, SurfacePlacement, TerminalPanel

CONSTANTS Slots, AtlasMax, MaxRows, MaxEvents               \* SurfaceFrames
ASSUME FrameBounds == {Slots, MaxRows} \subseteq Nat \ {0} /\ MaxEvents \in Nat
\* A screen full of different glyphs fits: otherwise the renderer fails for ever.
ASSUME AtlasHoldsScreen == AtlasMax \in Nat /\ AtlasMax >= MaxRows

VARIABLES
    part,
    home, emulator, updates, model, view, painter, happened

frameVars == <<home, emulator, updates, model, view, painter, happened>>

Frames == INSTANCE SurfaceFrames

(* Where a part may start in several states the others take one of them.        *)
Init ==
    /\ part \in {"layout", "placement", "panel", "frames"}
    /\ LayoutInit /\ PlacementInit /\ PanelInit /\ Frames!FramesInit
    /\ part = "panel" \/ (socket /\ size = 0)
    /\ part = "frames" \/ (home = "main" /\ view.visible /\ painter.kind = "webgl2")
    /\ part = "layout" \/ (hostTab.layout = NoLayout /\ hostTerms = {1} /\ Cardinality(Browsers) = 1)

Next ==
    /\ UNCHANGED part
    /\ \/ part = "layout" /\ LayoutNext /\ UNCHANGED <<placementVars, panelVars, frameVars>>
       \/ part = "placement" /\ PlacementNext /\ UNCHANGED <<layoutVars, panelVars, frameVars>>
       \/ part = "panel" /\ PanelNext /\ UNCHANGED <<layoutVars, placementVars, frameVars>>
       \/ part = "frames" /\ Frames!FramesNext /\ UNCHANGED <<layoutVars, placementVars, panelVars>>

Spec == Init /\ [][Next]_<<part, layoutVars, placementVars, panelVars, frameVars>>

-----------------------------------------------------------------------------
(* At rest the canvas shows the emulator's rows, at their present place and with  *)
(* their own glyphs.                                                             *)
PictureTrue == Frames!PictureTrue
=============================================================================
