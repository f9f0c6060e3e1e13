---------------------------- MODULE TerminalPanel ----------------------------
(* The controller of one terminal in a page (TerminalPanel.tsx): it makes a       *)
(* surface, attaches to the process its props name, and from then on sends what   *)
(* is typed (terminal-input-writer.ts) and the size of its surface, and shows     *)
(* whether the process runs.  Another process is another instance; what the old    *)
(* one had flushed is still sent.  Requests go over the socket, unanswered, while  *)
(* it is open, and over HTTP, one at a time, while it is not.  Output is           *)
(* TerminalResync's and OutputWriter's matter.                                    *)
EXTENDS Naturals, Sequences, FiniteSets, SequencesExt

CONSTANTS
    MaxProcs,       \* bound: processes of the terminal
    MaxSize,        \* bound: sizes of the surface
    MaxActs,        \* bound: keys typed and changes of that size
    MaxBreaks,      \* bound: lost sockets and failed calls
    PanelRaces      \* which of the following may happen
(* "exit"   a process's end and the catalogue's update about it arrive while its   *)
(*          panel still replays what it attached to                                *)
(* "late"   the host reads from a lost socket after it has served a newer call      *)

ASSUME PanelBounds ==
    /\ MaxProcs \in Nat \ {0} /\ {MaxSize, MaxActs, MaxBreaks} \subseteq Nat
    /\ PanelRaces \subseteq {"exit", "late"}

VARIABLES
    host,           \* process n runs or not; keys got and size set, per process
    news,           \* events on their way to the page
    socket, wire, old,      \* open; requests on it; those of the lost one
    calls,          \* HTTP requests: [kind, pty, what, answered]
    panel,          \* the present instance
    writers,        \* the input writer of each instance
    size,           \* of the surface, 0 while it has not been measured
    typed, lost,    \* keys typed at each process; keys and sizes given up (history)
    acts, breaks

panelVars == <<host, news, socket, wire, old, calls, panel, writers, size, typed, lost, acts, breaks>>
links == <<socket, wire, old, calls>>
bounds == <<acts, breaks>>

Procs == 1..MaxProcs
NoWriter == [open |-> FALSE, batch |-> <<>>, tail |-> <<>>, waits |-> FALSE]
Instance(pty, status) ==
    [pty |-> pty, phase |-> "surface", answer |-> "none", display |-> status,
     pending |-> <<>>, resizing |-> "no", sent |-> 0, queued |-> FALSE]
Keys(request) == IF request.kind = "write" THEN ToSet(request.what) ELSE {}

PanelInit ==
    /\ host = [n |-> 1, up |-> TRUE, got |-> [p \in Procs |-> <<>>], size |-> [p \in Procs |-> 0]]
    /\ news = <<>> /\ socket \in BOOLEAN /\ wire = <<>> /\ old = <<>> /\ calls = {}
    /\ panel = Instance(1, "running") /\ writers = [p \in Procs |-> NoWriter]
    /\ size \in {0, 1} /\ typed = [p \in Procs |-> <<>>] /\ lost = [keys |-> {}, size |-> FALSE]
    /\ acts = 0 /\ breaks = 0

-----------------------------------------------------------------------------
(* The host, as the panel sees it.                                              *)

(* A request is carried out on the process it names, if that still runs.         *)
Carried(h, request) ==
    IF h.n # request.pty \/ ~h.up THEN h
    ELSE IF request.kind = "write" THEN [h EXCEPT !.got[request.pty] = @ \o request.what]
    ELSE [h EXCEPT !.size[request.pty] = request.what]
GivenUp(h, request) ==
    IF h.n # request.pty \/ ~h.up THEN [lost EXCEPT !.keys = @ \cup Keys(request)]
    ELSE IF request.kind = "resize" THEN [lost EXCEPT !.size = FALSE] ELSE lost

HostReads ==
    /\ wire # <<>> /\ host' = Carried(host, Head(wire)) /\ lost' = GivenUp(host, Head(wire))
    /\ wire' = Tail(wire)
    /\ UNCHANGED <<news, socket, old, calls, panel, writers, size, typed, bounds>>
HostReadsLate ==
    /\ old # <<>> /\ host' = Carried(host, Head(old)) /\ lost' = GivenUp(host, Head(old))
    /\ old' = Tail(old)
    /\ UNCHANGED <<news, socket, wire, calls, panel, writers, size, typed, bounds>>
HostServes(call) ==
    /\ call \in calls /\ ~call.answered
    /\ host' = Carried(host, call) /\ lost' = GivenUp(host, call)
    /\ calls' = (calls \ {call}) \cup {[call EXCEPT !.answered = TRUE]}
    /\ UNCHANGED <<news, socket, wire, old, panel, writers, size, typed, bounds>>
CallFails(call) ==
    /\ call \in calls /\ ~call.answered /\ breaks < MaxBreaks /\ breaks' = breaks + 1
    /\ calls' = (calls \ {call}) \cup {[call EXCEPT !.answered = TRUE]}
    /\ lost' = [keys |-> lost.keys \cup Keys(call), size |-> lost.size \/ call.kind = "resize"]
    /\ UNCHANGED <<host, news, socket, wire, old, panel, writers, size, typed, acts>>

(* The lifecycle listener's update follows the exit it heard of.                  *)
Ended(n) == <<[kind |-> "exit", pty |-> n], [kind |-> "update", pty |-> n, status |-> "exited"]>>
Tell(messages) == news' = IF socket THEN news \o messages ELSE news
Exit ==
    /\ host.up /\ host' = [host EXCEPT !.up = FALSE] /\ Tell(Ended(host.n))
    /\ UNCHANGED <<links, panel, writers, size, typed, lost, bounds>>
Restart ==
    /\ host.n < MaxProcs /\ host' = [host EXCEPT !.n = @ + 1, !.up = TRUE]
    /\ Tell(<<[kind |-> "exit", pty |-> host.n],
              [kind |-> "update", pty |-> host.n + 1, status |-> "running"]>>)
    /\ UNCHANGED <<links, panel, writers, size, typed, lost, bounds>>

(* The socket is lost with all that is under way on it, but for what the host has   *)
(* read and still carries out; a reconnected page gets the catalogue's present      *)
(* state.                                                                          *)
Disconnect ==
    /\ socket /\ breaks < MaxBreaks /\ breaks' = breaks + 1
    /\ socket' = FALSE /\ wire' = <<>> /\ news' = <<>>
    /\ \E k \in IF "late" \in PanelRaces THEN 0..Len(wire) ELSE {0} :
        LET cut == SubSeq(wire, k + 1, Len(wire))
        IN  /\ old' = old \o SubSeq(wire, 1, k)
            /\ lost' = [keys |-> lost.keys \cup UNION {Keys(cut[i]) : i \in DOMAIN cut},
                        size |-> lost.size \/ \E i \in DOMAIN cut : cut[i].kind = "resize"]
    /\ \/ UNCHANGED panel
       \/ panel.phase = "asked" /\ panel' = [panel EXCEPT !.phase = "over", !.display = "failed"]
    /\ UNCHANGED <<host, calls, writers, size, typed, acts>>
Reconnect ==
    /\ ~socket /\ socket' = TRUE
    /\ news' = <<[kind |-> "update", pty |-> host.n,
                  status |-> IF host.up THEN "running" ELSE "exited"]>>
    /\ UNCHANGED <<host, wire, old, calls, panel, writers, size, typed, lost, bounds>>

-----------------------------------------------------------------------------
(* Requests of the panel.                                                       *)

(* write, resize of the client API: sendRealtime, or a call that is waited for.   *)
Send(kind, pty, what) ==
    LET request == [kind |-> kind, pty |-> pty, what |-> what]
    IN  IF socket THEN wire' = Append(wire, request) /\ UNCHANGED calls
        ELSE /\ calls' = calls \cup {[kind |-> kind, pty |-> pty, what |-> what, answered |-> FALSE]}
             /\ UNCHANGED wire

(* resizePty *)
Resized(p) ==
    IF p.phase # "connected" \/ size' = 0 THEN p
    ELSE IF p.resizing # "no" THEN [p EXCEPT !.queued = TRUE]
    ELSE [p EXCEPT !.resizing = "due", !.sent = size', !.queued = FALSE]

(* Fault: a size that came while one was under way is forgotten.                   *)
SettleOnce(p) == [p EXCEPT !.resizing = "no"]

(* settle, of an answer and of a failure alike                                    *)
Settle(p) ==
    LET idle == [p EXCEPT !.resizing = "no"]
    IN  IF p.queued \/ size # p.sent THEN [idle EXCEPT !.resizing = "due", !.sent = size, !.queued = FALSE]
        ELSE idle

ResizeSends ==
    /\ panel.resizing = "due" /\ Send("resize", panel.pty, panel.sent)
    /\ panel' = IF socket THEN Settle(panel) ELSE [panel EXCEPT !.resizing = "waits"]
    /\ UNCHANGED <<host, news, socket, old, writers, size, typed, lost, bounds>>
ResizeAnswered ==
    /\ \E call \in calls :
        /\ call.kind = "resize" /\ call.answered /\ calls' = calls \ {call}
        /\ panel' = IF call.pty = panel.pty /\ panel.resizing = "waits" THEN Settle(panel) ELSE panel
    /\ UNCHANGED <<host, news, socket, wire, old, writers, size, typed, lost, bounds>>

(* enqueue, flush and the chain of send, of one instance's writer                  *)
Enqueued(w, keys) == [w EXCEPT !.batch = @ \o keys]
Flushed(w) == IF w.batch = <<>> THEN w ELSE [w EXCEPT !.batch = <<>>, !.tail = Append(@, w.batch)]
Microtask(p) ==
    /\ writers[p].batch # <<>> /\ writers' = [writers EXCEPT ![p] = Flushed(@)]
    /\ UNCHANGED <<host, news, links, panel, size, typed, lost, bounds>>

(* Fault: "send without awaiting prior writes"                                    *)
InputSendsBeside(p) ==
    /\ writers[p].tail # <<>> /\ Send("write", p, Head(writers[p].tail))
    /\ writers' = [writers EXCEPT ![p].tail = Tail(@)]
    /\ UNCHANGED <<host, news, socket, old, panel, size, typed, lost, bounds>>

InputSends(p) ==
    /\ writers[p].tail # <<>> /\ ~writers[p].waits /\ Send("write", p, Head(writers[p].tail))
    /\ writers' = [writers EXCEPT ![p].tail = Tail(@), ![p].waits = ~socket]
    /\ UNCHANGED <<host, news, socket, old, panel, size, typed, lost, bounds>>
InputAnswered ==
    /\ \E call \in calls :
        /\ call.kind = "write" /\ call.answered /\ calls' = calls \ {call}
        /\ writers' = [writers EXCEPT ![call.pty].waits = FALSE]
    /\ UNCHANGED <<host, news, socket, wire, old, panel, size, typed, lost, bounds>>

-----------------------------------------------------------------------------
(* The life of an instance.                                                     *)

(* GhosttyTerminalSurface.create ends; startPty attaches.                        *)
SurfaceReady ==
    /\ panel.phase = "surface" /\ panel' = [panel EXCEPT !.phase = "asked"]
    /\ UNCHANGED <<host, news, links, writers, size, typed, lost, bounds>>
(* The host answers with the status of the process; pages of its output follow.   *)
HostAttaches ==
    /\ panel.phase = "asked"
    /\ \E answer \in IF panel.pty # host.n THEN {"gone"}
                     ELSE IF host.up THEN {"running"} ELSE {"exited", "gone"} :
        panel' = [panel EXCEPT !.phase = "replaying", !.answer = answer]
    /\ UNCHANGED <<host, news, links, writers, size, typed, lost, bounds>>

(* The attach is done: connectPty if the process ran when it was answered.         *)
Connected(p) == Resized([p EXCEPT !.phase = "connected", !.display = "running", !.pending = <<>>])

(* Fault: an exited terminal is connected like any other.                          *)
AttachAlways ==
    /\ panel.phase = "replaying" /\ UNCHANGED size /\ panel' = Connected(panel)
    /\ writers' = [writers EXCEPT ![panel.pty] = Flushed(Enqueued([@ EXCEPT !.open = TRUE], panel.pending))]
    /\ UNCHANGED <<host, news, links, typed, lost, bounds>>

AttachDone ==
    /\ panel.phase = "replaying" /\ UNCHANGED size
    /\ IF panel.answer = "running"
       THEN /\ panel' = Connected(panel)
            /\ writers' = [writers EXCEPT ![panel.pty] = Flushed(Enqueued([@ EXCEPT !.open = TRUE], panel.pending))]
       ELSE /\ panel' = [panel EXCEPT !.phase = "over",
                             !.display = IF panel.answer = "gone" THEN "failed" ELSE "exited"]
            /\ UNCHANGED writers
    /\ UNCHANGED <<host, news, links, typed, lost, bounds>>

(* terminal:exit, and the props when the catalogue changes: another status is shown,  *)
(* another process cleans this instance up and makes the next one.                  *)
News ==
    /\ news # <<>> /\ news' = Tail(news)
    /\ LET m == Head(news)
       IN  CASE m.kind = "exit" ->
                    /\ panel' = IF panel.phase = "connected" /\ panel.pty = m.pty
                                THEN [panel EXCEPT !.display = "exited"] ELSE panel
                    /\ UNCHANGED <<writers, lost>>
             [] m.kind # "exit" /\ m.pty = panel.pty ->
                    /\ panel.phase = "replaying" /\ panel.answer = "running" /\ m.status = "exited"
                           => "exit" \in PanelRaces
                    /\ panel' = IF m.status = "exited" THEN [panel EXCEPT !.display = "exited"] ELSE panel
                    /\ UNCHANGED <<writers, lost>>
             [] OTHER ->
                    /\ panel' = Instance(m.pty, m.status)
                    /\ writers' = [writers EXCEPT ![panel.pty] = [Flushed(@) EXCEPT !.open = FALSE]]
                    /\ lost' = [keys |-> lost.keys \cup ToSet(panel.pending), size |-> FALSE]
    /\ UNCHANGED <<host, links, size, typed, bounds>>

Type ==
    /\ panel.phase # "surface" /\ acts < MaxActs /\ acts' = acts + 1
    /\ typed' = [typed EXCEPT ![panel.pty] = Append(@, acts')]
    /\ IF writers[panel.pty].open
       THEN writers' = [writers EXCEPT ![panel.pty] = Enqueued(@, <<acts'>>)] /\ UNCHANGED panel
       ELSE panel' = [panel EXCEPT !.pending = Append(@, acts')] /\ UNCHANGED writers
    /\ UNCHANGED <<host, news, links, size, lost, breaks>>

(* onResize; before the session exists, only the surface knows.                    *)
Layout ==
    /\ acts < MaxActs /\ acts' = acts + 1
    /\ size' \in (1..MaxSize) \ {size} /\ panel' = Resized(panel)
    /\ UNCHANGED <<host, news, links, writers, typed, lost, breaks>>

PanelSteady ==
    \/ HostReads \/ HostReadsLate \/ \E call \in calls : HostServes(call)
    \/ Reconnect \/ ResizeSends \/ ResizeAnswered
    \/ \E p \in Procs : Microtask(p) \/ InputSends(p)
    \/ InputAnswered \/ SurfaceReady \/ HostAttaches \/ AttachDone \/ News
PanelNext ==
    \/ PanelSteady
    \/ Exit \/ Restart \/ Disconnect \/ \E call \in calls : CallFails(call)
    \/ Type \/ Layout

PanelSpec == PanelInit /\ [][PanelNext]_panelVars

-----------------------------------------------------------------------------
(* A process gets what was typed at it, in that order, and nothing twice.        *)
InputInOrder ==
    \A p \in Procs :
        /\ ToSet(host.got[p]) \subseteq ToSet(typed[p])
        /\ \A i, j \in DOMAIN host.got[p] : i < j => host.got[p][i] < host.got[p][j]

AtRest ==
    /\ socket /\ news = <<>> /\ wire = <<>> /\ old = <<>> /\ calls = {}
    /\ panel.resizing = "no" /\ panel.phase \in {"connected", "over"}
    /\ \A p \in Procs : writers[p].batch = <<>> /\ writers[p].tail = <<>>

(* Once all is done: the panel says whether the process runs, and what was typed   *)
(* at it and the size of the surface have reached it, but for what was given up:    *)
(* lost with a socket or a call, or typed where nothing was connected.              *)
PanelAgrees ==
    AtRest =>
        /\ panel.pty = host.n
        /\ panel.phase = "connected" =>
            /\ panel.display = IF host.up THEN "running" ELSE "exited"
            /\ ToSet(typed[host.n]) = ToSet(host.got[host.n]) \cup (lost.keys \cap ToSet(typed[host.n]))
            /\ host.up /\ size # 0 => host.size[host.n] = size \/ lost.size
        /\ panel.phase = "over" => panel.display \in {"exited", "failed"}
=============================================================================
