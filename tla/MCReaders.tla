----------------------------- MODULE MCReaders -----------------------------
(* Those who read a terminal, for TLC, in two settings that share no state: two *)
(* readers of a live archive, and the native desktop client.  `part` says, from *)
(* the start on, which of the two moves.                                        *)
EXTENDS MCTerminalHistory

CONSTANTS Tabs, Terms, Ptys, MaxOutput, MaxUses         \* of DesktopClient
ASSUME DesktopBounds == {Tabs, Terms, Ptys} \subseteq SUBSET (Nat \ {0}) /\ {MaxOutput, MaxUses} \subseteq Nat

(* Tabs and terminals come and go around one process, or processes follow each  *)
(* other in one terminal.                                                       *)
DesktopRooms == {[tabs |-> Tabs, terms |-> Terms, ptys |-> {1}],
                 [tabs |-> {1}, terms |-> {1}, ptys |-> Ptys]}

VARIABLES part, doc, shell, link, wire, worker, rpc, events, app, window, known, room, used

desktopVars == <<doc, shell, link, wire, worker, rpc, events, app, window, known, room, used>>

Desktop == INSTANCE DesktopClient WITH Rooms <- DesktopRooms

ReadersInit ==
    /\ part \in {"archive", "desktop"} /\ Init /\ Desktop!DesktopInit
    /\ part = "archive" => room.ptys = {1}

ReadersNext ==
    /\ UNCHANGED part
    /\ \/ part = "archive" /\ LiveNext /\ UNCHANGED desktopVars
       \/ part = "desktop" /\ Desktop!DesktopNext /\ UNCHANGED vars

ReadersSpec == ReadersInit /\ [][ReadersNext]_<<part, vars, desktopVars>>

-----------------------------------------------------------------------------
(* Each view shows its process's output once and in order, and in the end the    *)
(* desktop client shows what the host has.                                      *)
DesktopSound == Desktop!DesktopSound
=============================================================================
