--------------------------- MODULE SurfacePlacement ---------------------------
(* Where the one resident surface of a terminal is on the page.  It belongs to   *)
(* a hidden home; slots of the layout (TerminalSurfacePlacement.tsx) take it in   *)
(* a layout effect and give it back when that effect is undone, which React does  *)
(* for all changed slots of a commit before it runs the new effects.  A slot      *)
(* whose props stay the same does nothing.  The generation that a release         *)
(* compares is abstracted to what it decides: whether the surface is still at     *)
(* the slot that releases it.                                                     *)
EXTENDS Naturals

VARIABLES
    screen,         \* what the layout is made of
    slots,          \* mounted slot -> its props
    heard,          \* which mounted slot subscribed before which
    surface,        \* the registered surface, or NoSurface
    replay,         \* of the panel: the attach of its surface, whether its ref says that
                    \* showing is paused, whether attaches of earlier surfaces are to end
    passedBy        \* the slot that is looked at kept its props while the surface moved

placementVars == <<screen, slots, heard, surface, replay, passedBy>>

NoSurface == [at |-> "none", shown |-> FALSE]
Exists == surface # NoSurface

(* renderTerminal, renderMobileTerminal, TerminalTilingWorkspace, MobileTerminalView: *)
(* the slots of the terminal, first to last in the tree.  A view that slides out  *)
(* keeps the props it had.                                                        *)
TreeOrder == [detail |-> 1, kept |-> 2, dock |-> 3, zoom |-> 4]
MountedOn(s) ==
    {slot \in DOMAIN TreeOrder :
        CASE slot = "detail" -> s.mobile /\ (s.chosen \/ s.leaving)
          [] slot = "kept" -> s.mobile /\ s.retained /\ ~s.chosen
          [] slot = "dock" -> ~s.mobile /\ s.open
          [] slot = "zoom" -> s.open /\ s.zoomed}
PropsOf(s, slot) ==
    [visible |-> slot # "kept",
     focused |-> CASE slot = "dock" -> s.focused /\ ~s.overlay
                   [] slot = "zoom" -> TRUE
                   [] slot = "kept" -> FALSE
                   [] OTHER -> IF s.leaving THEN slots[slot].focused ELSE ~s.overlay]
SlotsOn(s) == [slot \in MountedOn(s) |-> PropsOf(s, slot)]

(* renderTerminalController: whether the panel itself thinks it is visible.       *)
Active(s) == s.open /\ (s.mobile => s.chosen)

(* The slot the user looks at.                                                    *)
OnScreen(s) ==
    CASE s.mobile -> IF s.chosen THEN "detail" ELSE "none"
      [] ~s.mobile /\ ~s.open -> "none"
      [] OTHER -> IF s.zoomed THEN "zoom" ELSE "dock"

(* acquireTerminalSurfacePlacement, and the release it returns                    *)
Acquire(r, slot, visible) == IF r = NoSurface THEN r ELSE [at |-> slot, shown |-> visible]
Release(r) == [at |-> "home", shown |-> FALSE]

(* The last of some slots in the tree, and the last to have subscribed.             *)
LastOf(some) == CHOOSE slot \in some : \A other \in some : TreeOrder[other] <= TreeOrder[slot]
Latest == CHOOSE slot \in DOMAIN slots : \A other \in DOMAIN slots \ {slot} : <<other, slot>> \in heard

(* What a commit does: undo the effects of the slots that went or changed, run the *)
(* effects of those that came or changed in the order of the tree, which subscribe *)
(* anew, then TerminalPanel's effect on `visible`.  A slot that takes the surface   *)
(* shows it whether or not a replay hides it.                                      *)
Commit(s) ==
    LET new == SlotsOn(s)
        Same(slot) == slot \in DOMAIN slots /\ slot \in DOMAIN new /\ slots[slot] = new[slot]
        run == {slot \in DOMAIN new : ~Same(slot)}
        freed == IF surface.at \in DOMAIN slots /\ ~Same(surface.at) THEN Release(surface) ELSE surface
        placed == IF run = {} THEN freed ELSE Acquire(freed, LastOf(run), new[LastOf(run)].visible)
    IN  /\ screen' = s
        /\ slots' = new
        /\ heard' = {p \in MountedOn(s) \X MountedOn(s) :
                        IF Same(p[1]) THEN Same(p[2]) => p \in heard
                        ELSE ~Same(p[2]) /\ TreeOrder[p[1]] < TreeOrder[p[2]]}
        /\ surface' = IF placed # NoSurface /\ Active(s) # Active(screen)
                      THEN [placed EXCEPT !.shown = Active(s) /\ ~replay.paused] ELSE placed
        /\ passedBy' = /\ OnScreen(s) # "none" /\ Same(OnScreen(s))
                       /\ passedBy \/ run # {} \/ OnScreen(screen) # OnScreen(s)
        /\ UNCHANGED replay

PlacementInit ==
    /\ screen = [mobile |-> FALSE, open |-> FALSE, focused |-> FALSE, zoomed |-> FALSE,
                 overlay |-> FALSE, chosen |-> FALSE, retained |-> FALSE, leaving |-> FALSE]
    /\ slots = <<>> /\ heard = {} /\ surface = NoSurface /\ passedBy = FALSE
    /\ replay = [attach |-> "none", paused |-> FALSE, earlier |-> FALSE]

(* Fault: slots that are mounted already are not told.                            *)
RegisterSilently ==
    /\ ~Exists /\ screen.open
    /\ surface' = [at |-> "home", shown |-> Active(screen)]
    /\ UNCHANGED <<screen, slots, heard, replay, passedBy>>

(* registerResidentTerminalSurface once the surface is made: every mounted slot is *)
(* told and takes it, the last one to subscribe keeps it.                          *)
Register ==
    /\ ~Exists /\ screen.open
    /\ LET made == [at |-> "home", shown |-> Active(screen)]
       IN  surface' = IF DOMAIN slots = {} THEN made ELSE Acquire(made, Latest, slots[Latest].visible)
    /\ UNCHANGED <<screen, slots, heard, replay, passedBy>>

(* The panel's effect is cleaned up: a restart, another process.  Its attach goes   *)
(* on without a surface.                                                          *)
Unregister ==
    /\ Exists /\ surface' = NoSurface
    /\ replay' = [attach |-> "none", paused |-> FALSE, earlier |-> replay.earlier \/ replay.attach # "none"]
    /\ UNCHANGED <<screen, slots, heard, passedBy>>

(* Fault: a replay that hid the surface does not show it again.                     *)
EndsHidden ==
    /\ replay.attach # "none" /\ replay' = [replay EXCEPT !.attach = "none", !.paused = FALSE]
    /\ UNCHANGED <<screen, slots, heard, surface, passedBy>>

(* attachToNewSurface.  Once history replaces the preview that was shown, the        *)
(* surface is hidden (consumeAttachReplay); finally it is shown as the panel thinks. *)
AttachStarts ==
    /\ Exists /\ replay.attach = "none" /\ replay' = [replay EXCEPT !.attach = "running"]
    /\ UNCHANGED <<screen, slots, heard, surface, passedBy>>
HistoryReplaces ==
    /\ replay.attach = "running" /\ replay' = [replay EXCEPT !.attach = "hidden", !.paused = TRUE]
    /\ surface' = [surface EXCEPT !.shown = FALSE]
    /\ UNCHANGED <<screen, slots, heard, passedBy>>
AttachEnds ==
    /\ replay.attach # "none" /\ replay' = [replay EXCEPT !.attach = "none", !.paused = FALSE]
    /\ surface' = [surface EXCEPT !.shown = Active(screen)]
    /\ UNCHANGED <<screen, slots, heard, passedBy>>
(* The end of an attach whose surface is gone ends the pause of the present one.     *)
EarlierEnds ==
    /\ replay.earlier
    /\ \E others \in BOOLEAN : replay' = [replay EXCEPT !.paused = FALSE, !.earlier = others]
    /\ UNCHANGED <<screen, slots, heard, surface, passedBy>>

(* The window is shown or another one is.  A zoom is the window's and stays.       *)
Switch == ~screen.mobile /\ \E f \in BOOLEAN : Commit([screen EXCEPT !.open = ~@, !.focused = f])
Refocus == ~screen.mobile /\ screen.open /\ ~screen.zoomed /\ Commit([screen EXCEPT !.focused = ~@])
Overlay == Commit([screen EXCEPT !.overlay = ~@])
Zoom ==
    /\ screen.open /\ ~screen.mobile
    /\ Commit([screen EXCEPT !.zoomed = ~@, !.focused = TRUE])
(* useIsMobile: the page crosses the breakpoint.  The route names a terminal or not; *)
(* what MobileTerminalView kept is gone when it is unmounted.                        *)
Narrow == ~screen.mobile /\ screen.open
          /\ \E c \in BOOLEAN : Commit([screen EXCEPT !.mobile = TRUE, !.chosen = c, !.retained = c])
Widen == /\ screen.mobile
         /\ Commit([screen EXCEPT !.mobile = FALSE, !.chosen = FALSE, !.retained = FALSE, !.leaving = FALSE])
Choose ==
    /\ screen.mobile /\ ~screen.chosen
    /\ Commit([screen EXCEPT !.chosen = TRUE, !.retained = TRUE, !.leaving = FALSE])
Back == screen.mobile /\ screen.chosen /\ Commit([screen EXCEPT !.chosen = FALSE, !.leaving = TRUE])
SlidOut == screen.leaving /\ Commit([screen EXCEPT !.leaving = FALSE])
(* Six other terminals were looked at since (MAX_RETAINED_MOBILE_TERMINALS).         *)
Forget ==
    /\ screen.mobile /\ screen.retained /\ ~screen.chosen /\ ~screen.leaving
    /\ Commit([screen EXCEPT !.retained = FALSE])

PlacementNext ==
    \/ Register \/ Unregister
    \/ AttachStarts \/ HistoryReplaces \/ AttachEnds \/ EarlierEnds
    \/ Switch \/ Refocus \/ Overlay \/ Zoom \/ Narrow \/ Widen
    \/ Choose \/ Back \/ SlidOut \/ Forget

PlacementSpec == PlacementInit /\ [][PlacementNext]_placementVars

-----------------------------------------------------------------------------
(* The surface is in the slot the user looks at, and draws unless a replay of it    *)
(* hides it; while its terminal is not looked at, it does not draw.  Passed by is a  *)
(* slot whose effect did not run as it came on screen, or as another's ran: that of  *)
(* a zoom that ends or of a view that slid out, and a zoom beside a tile that        *)
(* changes.  A zoom that stays mounted on a small screen draws unseen.               *)
Placed ==
    Exists =>
        IF OnScreen(screen) = "none" THEN surface.shown => surface.at = "zoom"
        ELSE passedBy \/ (surface.at = OnScreen(screen) /\ (surface.shown \/ replay.attach = "hidden"))
=============================================================================
