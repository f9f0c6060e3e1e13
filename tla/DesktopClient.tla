--------------------------- MODULE DesktopClient ---------------------------
(* The native desktop client (desktop-gpui/src): a thread for calls, a thread   *)
(* for the socket, and the app, which takes their events from one queue and     *)
(* keeps a view of every running terminal.  The host is external: a document of *)
(* tabs and terminals that others change too, shells that print, and a socket   *)
(* that may break at any time.                                                  *)
(*                                                                             *)
(* One session.  A tab, a terminal and a process is a number, in order; output is a count *)
(* of chunks.  What the client sends reaches the host at once or is lost: the    *)
(* answer travels, and that is the delay that matters.  Keys, acknowledgements   *)
(* and notices of errors leave nothing behind and are left out.                  *)
EXTENDS Integers, FiniteSets, FiniteSetsExt, SequencesExt

CONSTANTS
    Tabs, Terms, Ptys,                       \* numbers from 1 on
    Rooms,                                   \* which of them one behaviour may use
    MaxOutput, MaxUses                       \* bounds: chunks, and all else that may occur

VARIABLES
    doc,            \* the host's document; rev counts its changes
    shell,          \* per process: chunks printed, size, whether it is attached and fenced,
                    \* and (history) whether the last attach to it was refused
    link, wire,     \* the connection: none, up or broken; what is under way to the client
    worker,         \* the socket thread's subscriptions: per process the last sequence
    rpc,            \* the call under way
    events,         \* from both threads to the app
    app,            \* snapshot, views, selection, and the queues to the threads
    window,         \* the size of the window
    known,          \* history: newest revision applied, or there when a call failed
    room, used      \* bounds: one of Rooms, and a count

desktopVars == <<doc, shell, link, wire, worker, rpc, events, app, window, known, room, used>>
host == <<doc, shell>>
net == <<link, wire>>

NoView == [pty |-> 0, end |-> 0, size |-> 0, remade |-> FALSE, torn |-> FALSE]
Gone == [tab |-> 0, pty |-> 0]
NoDoc == [rev |-> -1, next |-> [tab |-> 0, term |-> 0], tabs |-> {}, tab |-> 0, shown |-> [b \in Tabs |-> 0],
          terms |-> [t \in Terms |-> Gone]]
Idle == [op |-> "none", at |-> "idle", arg |-> 0, doc |-> NoDoc]

DesktopInit ==
    /\ doc = [rev |-> 0, next |-> [tab |-> 2, term |-> 2], tabs |-> {1}, tab |-> 1,
              shown |-> [b \in Tabs |-> IF b = 1 THEN 1 ELSE 0],
              terms |-> [t \in Terms |-> IF t = 1 THEN [tab |-> 1, pty |-> 1] ELSE Gone]]
    /\ shell = [p \in Ptys |-> [out |-> 0, size |-> 0, attached |-> FALSE, fenced |-> FALSE,
                                refused |-> FALSE, started |-> p = 1]]
    /\ link = "none" /\ wire = <<>>
    /\ worker = [p \in Ptys |-> -1]
    /\ rpc = Idle /\ events = <<>> /\ window = 1
    /\ app = [snap |-> NoDoc, views |-> [t \in Terms |-> NoView], attached |-> {}, tab |-> 0, term |-> 0,
              socket |-> <<>>, calls |-> <<[op |-> "hydrate", arg |-> 0]>>]
    /\ known = -1
    /\ room \in Rooms /\ used = 0

Use == used < MaxUses /\ used' = used + 1

-----------------------------------------------------------------------------
(* The host                                                                     *)

TermsOf(d, b) == {t \in Terms : d.terms[t].tab = b /\ b # 0}
MinOrNone(S) == IF S = {} THEN 0 ELSE Min(S)
Alive(p) == \E t \in Terms : doc.terms[t].pty = p
FreshPty == MinOrNone({p \in room.ptys : ~shell[p].started})
FreshTerm == IF doc.next.term \in room.terms THEN doc.next.term ELSE 0

Started(p) == IF p = 0 THEN shell ELSE [shell EXCEPT ![p].started = TRUE]
Tell(messages) == wire' = IF link = "up" THEN wire \o messages ELSE wire

AddTab ==
    /\ doc.next.tab \in room.tabs
    /\ doc' = [doc EXCEPT !.rev = @ + 1, !.tabs = @ \cup {doc.next.tab}, !.next.tab = @ + 1]
    /\ UNCHANGED shell

(* It is selected with its tab.                                                  *)
AddTerm(b, p) ==
    /\ FreshTerm # 0 /\ b \in doc.tabs
    /\ doc' = [doc EXCEPT !.rev = @ + 1, !.tab = b, !.shown[b] = FreshTerm, !.next.term = @ + 1,
                          !.terms[FreshTerm] = [tab |-> b, pty |-> p]]
    /\ shell' = Started(p)

Restart(t) ==
    /\ doc.terms[t].tab # 0 /\ FreshPty # 0
    /\ doc' = [doc EXCEPT !.rev = @ + 1, !.terms[t].pty = FreshPty]
    /\ shell' = Started(FreshPty)

CloseTerm(t) ==
    LET b == doc.terms[t].tab IN
    /\ b # 0
    /\ doc' = [doc EXCEPT !.rev = @ + 1, !.terms[t] = Gone,
                          !.shown[b] = IF @ = t THEN MinOrNone(TermsOf(doc, b) \ {t}) ELSE @]
    /\ UNCHANGED shell

(* The last tab is replaced by a new one.                                        *)
CloseTab(b) ==
    LET left == doc.tabs \ {b}
        tabs == IF left = {} THEN {doc.next.tab} ELSE left IN
    /\ b \in doc.tabs /\ tabs \subseteq room.tabs
    /\ doc' = [doc EXCEPT !.rev = @ + 1, !.tabs = tabs, !.shown[b] = 0,
                          !.tab = IF @ = b THEN Min(tabs) ELSE @,
                          !.next.tab = IF left = {} THEN @ + 1 ELSE @,
                          !.terms = [t \in Terms |-> IF @[t].tab = b THEN Gone ELSE @[t]]]
    /\ UNCHANGED shell

SelectTab(b) ==
    /\ b \in doc.tabs /\ doc' = [doc EXCEPT !.rev = @ + 1, !.tab = b] /\ UNCHANGED shell

SelectTerm(t) ==
    LET b == doc.terms[t].tab IN
    /\ b # 0 /\ doc' = [doc EXCEPT !.rev = @ + 1, !.tab = b, !.shown[b] = t] /\ UNCHANGED shell

Refresh == <<[kind |-> "refresh"]>>

(* Another client changes the document.                                         *)
Elsewhere ==
    /\ Use
    /\ \/ AddTab
       \/ \E b \in Tabs : AddTerm(b, 0) \/ CloseTab(b)
       \/ \E t \in Terms : Restart(t) \/ CloseTerm(t)
    /\ Tell(Refresh)
    /\ UNCHANGED <<link, worker, rpc, events, app, window, known>>

(* A chunk is sent, or the flow limit is met and a replay asked for instead.     *)
Output(p) ==
    LET n == shell[p].out + 1 IN
    /\ Alive(p) /\ n <= MaxOutput
    /\ IF shell[p].attached /\ ~shell[p].fenced
         THEN \/ /\ shell' = [shell EXCEPT ![p].out = n] /\ UNCHANGED used
                 /\ Tell(<<[kind |-> "frame", pty |-> p, seq |-> n]>>)
              \/ /\ shell' = [shell EXCEPT ![p].out = n, ![p].fenced = TRUE]
                 /\ Use /\ Tell(<<[kind |-> "fence", pty |-> p]>>)
         ELSE shell' = [shell EXCEPT ![p].out = n] /\ UNCHANGED <<used, wire>>
    /\ UNCHANGED <<doc, link, worker, rpc, events, app, window, known>>

(* What the host does with a list of messages.  The answer to an attach may leave *)
(* out what is no longer kept; one that is refused, for want of the terminal or    *)
(* for lack of time or room, ends what was attached, and its answer is a notice.    *)
Ways == {"whole", "cut", "refused"}
Takes(way) == IF way = "refused" THEN Use ELSE UNCHANGED used
Asked(way, said) == [shell |-> shell, way |-> way, said |-> said]

Obeyed(h, m) ==
    LET s == h.shell[m.pty]
        cut == h.way = "cut" IN
    IF m.kind = "resize" THEN IF Alive(m.pty) THEN [h EXCEPT !.shell[m.pty].size = m.size] ELSE h
    ELSE IF ~Alive(m.pty) \/ h.way = "refused"
      THEN [h EXCEPT !.shell[m.pty] = [s EXCEPT !.attached = FALSE, !.fenced = FALSE, !.refused = TRUE]]
    ELSE [h EXCEPT
            !.shell[m.pty] = [s EXCEPT !.attached = TRUE, !.fenced = FALSE, !.refused = FALSE],
            !.said = Append(@, [kind |-> "attached", pty |-> m.pty, size |-> s.size, to |-> s.out,
                                from |-> IF cut THEN s.out ELSE m.after,
                                cut |-> cut /\ m.after # s.out])]

-----------------------------------------------------------------------------
(* The socket thread                                                            *)

Attach(p, after) == [kind |-> "attach", pty |-> p, after |-> Max({after, 0})]

(* The host subscribes the socket to changes and sends a snapshot; the client    *)
(* attaches again to all it was attached to.                                     *)
Connect ==
    /\ link = "none" /\ link' = "up"
    /\ LET again == SetToSeq({Attach(p, worker[p]) : p \in {q \in Ptys : worker[q] >= 0}}) IN
       \E way \in Ways :
         LET h == FoldLeft(Obeyed, Asked(way, <<>>), again) IN
         /\ shell' = h.shell
         /\ wire' = <<[kind |-> "snapshot", doc |-> doc]>> \o h.said
         /\ Takes(way) /\ (way = "refused" => again # <<>>)
    /\ UNCHANGED <<doc, worker, rpc, events, app, window, known>>

(* What is under way is lost from some point on, and what the host attached.     *)
Break ==
    /\ link = "up" /\ Use
    /\ link' = "broken"
    /\ \E n \in 0..Len(wire) : wire' = SubSeq(wire, 1, n)
    /\ shell' = [p \in Ptys |-> [shell[p] EXCEPT !.attached = FALSE, !.fenced = FALSE]]
    /\ UNCHANGED <<doc, worker, rpc, events, app, window, known>>

HungUp == link' = "none" /\ wire' = <<>>

Subscribing(subs, m) == IF m.kind = "attach" /\ subs[m.pty] < 0 THEN [subs EXCEPT ![m.pty] = 0] ELSE subs

(* The actions queued are sent in order.  On a broken link they are gone; the    *)
(* write may fail, and then those behind it stay queued.                         *)
SendActions ==
    /\ app.socket # <<>> /\ link # "none"
    /\ \/ /\ link = "up"
          /\ LET Full(m) == IF m.kind = "attach" THEN Attach(m.pty, worker[m.pty]) ELSE m IN
             \E way \in Ways :
               LET h == FoldLeft(Obeyed, Asked(way, <<>>),
                                 [i \in DOMAIN app.socket |-> Full(app.socket[i])]) IN
               shell' = h.shell /\ wire' = wire \o h.said /\ Takes(way)
          /\ worker' = FoldLeft(Subscribing, worker, app.socket)
          /\ app' = [app EXCEPT !.socket = <<>>] /\ UNCHANGED link
       \/ /\ link = "broken" /\ HungUp
          /\ \E n \in DOMAIN app.socket :
               /\ worker' = FoldLeft(Subscribing, worker, SubSeq(app.socket, 1, n))
               /\ app' = [app EXCEPT !.socket = SubSeq(@, n + 1, Len(@))]
          /\ UNCHANGED <<shell, used>>
    /\ UNCHANGED <<doc, rpc, events, window, known>>

(* Fault: frames are passed on without being counted.                            *)
ReceivedUncounted(m) == IF m.kind = "attached" THEN [worker EXCEPT ![m.pty] = m.to] ELSE worker

Received(m) ==
    CASE m.kind = "attached" -> [worker EXCEPT ![m.pty] = m.to]
      [] m.kind = "frame" -> [worker EXCEPT ![m.pty] = Max({@, m.seq})]
      [] OTHER -> worker

(* One message is read; a fence is answered by attaching again.                  *)
Read ==
    /\ wire # <<>>
    /\ LET m == Head(wire) IN
       /\ worker' = Received(m)
       /\ IF m.kind = "fence"
            THEN /\ UNCHANGED events
                 /\ IF link = "broken" THEN wire' = Tail(wire) /\ UNCHANGED <<shell, used>>
                    ELSE \E way \in Ways :
                           LET h == Obeyed(Asked(way, Tail(wire)), Attach(m.pty, worker[m.pty])) IN
                           shell' = h.shell /\ wire' = h.said /\ Takes(way)
            ELSE events' = Append(events, m) /\ wire' = Tail(wire) /\ UNCHANGED <<shell, used>>
    /\ UNCHANGED <<doc, link, rpc, app, window, known>>

HangUp ==
    /\ link = "broken" /\ wire = <<>> /\ HungUp
    /\ UNCHANGED <<host, worker, rpc, events, app, window, known, used>>

-----------------------------------------------------------------------------
(* The thread for calls: one command, then a listing                            *)

Command(c) ==
    IF c.op = "createTab"
      THEN AddTab /\ rpc' = [rpc EXCEPT !.op = "createTerminal", !.arg = doc.next.tab, !.at = "run"]
      ELSE /\ rpc' = [rpc EXCEPT !.at = "list"]
           /\ \/ c.op = "createTerminal" /\ FreshPty # 0 /\ AddTerm(c.arg, FreshPty)
              \/ c.op = "selectTab" /\ SelectTab(c.arg)
              \/ c.op = "selectTerminal" /\ SelectTerm(c.arg)
              \/ c.op = "closeTerminal" /\ CloseTerm(c.arg)
              \/ c.op = "closeTab" /\ CloseTab(c.arg)

Taken == app' = [app EXCEPT !.calls = Tail(@)]

RunCall ==
    /\ \/ rpc.at = "idle" /\ app.calls # <<>> /\ Head(app.calls).op # "hydrate"
          /\ Taken /\ Command(Head(app.calls))
       \/ rpc.at = "run" /\ Command(rpc) /\ UNCHANGED app
    /\ Tell(Refresh)
    /\ UNCHANGED <<link, worker, events, window, known, used>>

List ==
    /\ \/ rpc.at = "list" /\ UNCHANGED app
       \/ rpc.at = "idle" /\ app.calls # <<>> /\ Head(app.calls).op = "hydrate" /\ Taken
    /\ rpc' = [Idle EXCEPT !.at = "answer", !.doc = doc]
    /\ UNCHANGED <<host, net, worker, events, window, known, used>>

Listed ==
    /\ rpc.at = "answer" /\ rpc' = Idle
    /\ events' = Append(events, [kind |-> "snapshot", doc |-> rpc.doc])
    /\ UNCHANGED <<host, net, worker, app, window, known, used>>

(* What the command was about is gone, or there is no room for more.             *)
Impossible(c) ==
    \/ c.op = "createTab" /\ doc.next.tab \notin room.tabs
    \/ c.op \in {"createTerminal", "selectTab", "closeTab"} /\ c.arg \notin doc.tabs
    \/ c.op = "createTerminal" /\ 0 \in {FreshPty, FreshTerm}
    \/ c.op \in {"selectTerminal", "closeTerminal"} /\ doc.terms[c.arg].tab = 0
    \/ c.op = "closeTab" /\ doc.tabs = {c.arg} /\ doc.next.tab \notin room.tabs

(* A failed call ends with a notice: there is no listing.                        *)
CallFails ==
    /\ \/ rpc.at = "idle" /\ app.calls # <<>> /\ Taken
          /\ IF Impossible(Head(app.calls)) THEN UNCHANGED used ELSE Use
       \/ rpc.at = "run" /\ Impossible(rpc) /\ UNCHANGED <<app, used>>
       \/ rpc.at # "idle" /\ Use /\ UNCHANGED app
    /\ rpc' = Idle /\ known' = Max({known, doc.rev})
    /\ UNCHANGED <<host, net, worker, events, window>>

-----------------------------------------------------------------------------
(* The app                                                                      *)

Reconciled(a) ==
    LET d == a.snap
        tab == IF a.tab \in d.tabs THEN a.tab ELSE IF d.tab # 0 THEN d.tab ELSE MinOrNone(d.tabs)
        term == IF a.term \in TermsOf(d, tab) THEN a.term
                ELSE IF tab # 0 /\ d.shown[tab] # 0 THEN d.shown[tab] ELSE MinOrNone(TermsOf(d, tab)) IN
    [a EXCEPT !.tab = tab, !.term = term]

(* A process is attached to once, when its first view is made.                   *)
AppliedSnapshots(a, d) ==
    LET running == {t \in Terms : d.terms[t].pty # 0}
        made == {t \in running : a.views[t].pty # d.terms[t].pty}
        ptys == {d.terms[t].pty : t \in made}
        fresh == SetToSeq(ptys \ a.attached) IN
    [Reconciled([a EXCEPT !.snap = d]) EXCEPT
       !.views = [t \in Terms |-> IF t \notin running THEN NoView
                                  ELSE IF t \notin made THEN a.views[t]
                                  ELSE [NoView EXCEPT !.pty = d.terms[t].pty,
                                                      !.remade = d.terms[t].pty \in a.attached]],
       !.attached = @ \cup ptys,
       !.socket = @ \o [i \in DOMAIN fresh |-> [kind |-> "attach", pty |-> fresh[i]]]]

(* Chunks from+1 to `to` come after what the view has, or the view is torn.       *)
Fed(v, from, to, cut) ==
    [v EXCEPT !.end = to, !.torn = @ \/ (from # v.end /\ ~(cut /\ from > v.end))]

(* A process has one view: the document names it once.                            *)
ViewOf(a, p) == MinOrNone({t \in Terms : a.views[t].pty = p})

Handled(a, e) ==
    CASE e.kind = "snapshot" -> AppliedSnapshots(a, e.doc)
      [] e.kind = "refresh" -> [a EXCEPT !.calls = Append(@, [op |-> "hydrate", arg |-> 0])]
      [] e.kind = "attached" ->
           [a EXCEPT !.views = [t \in Terms |-> IF t = ViewOf(a, e.pty)
              THEN Fed([@[t] EXCEPT !.size = e.size], e.from, e.to, e.cut) ELSE @[t]]]
      [] e.kind = "frame" ->
           [a EXCEPT !.views = [t \in Terms |-> IF t = ViewOf(a, e.pty)
              THEN Fed(@[t], e.seq - 1, e.seq, FALSE) ELSE @[t]]]

Resized(a, size) ==
    IF a.term = 0 \/ a.views[a.term].pty = 0 THEN a
    ELSE [a EXCEPT !.views[a.term].size = size,
                   !.socket = Append(@, [kind |-> "resize", pty |-> a.views[a.term].pty, size |-> size])]

(* Every 8 ms the app takes the events that have come; a snapshot or a replay     *)
(* among them sets the size of the terminal that is shown.                       *)
Pump ==
    LET snaps == {i \in DOMAIN events : events[i].kind = "snapshot"}
        handled == FoldLeft(Handled, app, events)
        resize == \E i \in DOMAIN events : events[i].kind \in {"snapshot", "attached"} IN
    /\ events # <<>> /\ events' = <<>>
    /\ app' = IF resize THEN Resized(handled, window) ELSE handled
    /\ known' = Max({known} \cup {events[i].doc.rev : i \in snaps})
    /\ UNCHANGED <<host, net, worker, rpc, window, used>>

Call(a, op, arg) == [a EXCEPT !.calls = Append(@, [op |-> op, arg |-> arg])]

Click ==
    /\ Use
    /\ \/ \E b \in app.snap.tabs :
            \/ app' = Call(Reconciled([app EXCEPT !.tab = b, !.term = 0]), "selectTab", b)
            \/ app' = Call(app, "closeTab", b)
       \/ \E t \in TermsOf(app.snap, app.tab) : app' = Call([app EXCEPT !.term = t], "selectTerminal", t)
       \/ app.tab # 0 /\ app' = Call(app, "createTerminal", app.tab)
       \/ app.snap.tabs # {} /\ app' = Call(app, "createTab", 0)
       \/ app.term # 0 /\ app' = Call(app, "closeTerminal", app.term)
    /\ UNCHANGED <<host, net, worker, rpc, events, window, known>>

WindowResized ==
    /\ Use
    /\ window' = 3 - window /\ app' = Resized(app, window')
    /\ UNCHANGED <<host, net, worker, rpc, events, known>>

DesktopNext ==
    /\ UNCHANGED room
    /\ \/ Elsewhere \/ (\E p \in Ptys : Output(p))
       \/ Connect \/ Break \/ SendActions \/ Read \/ HangUp
       \/ RunCall \/ List \/ Listed \/ CallFails
       \/ Pump \/ Click \/ WindowResized

-----------------------------------------------------------------------------
(* Properties *)

Quiet ==
    /\ link = "up" /\ wire = <<>>
    /\ rpc = Idle /\ events = <<>> /\ app.socket = <<>> /\ app.calls = <<>>

(* A view shows each chunk once and in order, through reconnects and fences,      *)
(* unless it was made again for a process whose replay an earlier view got, ...   *)
FedOnce == \A t \in Terms : app.views[t].torn => app.views[t].remade

(* ... and in the end all of them, unless the last attach to it was refused, which *)
(* nobody tries again before the connection breaks.                              *)
FedAll ==
    Quiet => \A t \in Terms : LET v == app.views[t] IN
      v.pty # 0 /\ Alive(v.pty) /\ ~v.remade /\ ~shell[v.pty].refused => v.end = shell[v.pty].out

(* What is selected is on the snapshot, and belongs together.                    *)
SelectionTogether ==
    /\ app.tab \in app.snap.tabs \/ app.snap.tabs = {}
    /\ app.term = 0 <=> TermsOf(app.snap, app.tab) = {}
    /\ app.term # 0 => app.term \in TermsOf(app.snap, app.tab)

(* In the end the app has the host's document, and the terminal it shows and its  *)
(* process have the window's size, unless a call failed or a listing came late.   *)
UpToDate ==
    Quiet /\ app.snap.rev >= known =>
      /\ app.snap = doc
      /\ app.term # 0 /\ doc.terms[app.term].pty # 0 =>
           /\ app.views[app.term].pty = doc.terms[app.term].pty
           /\ app.views[app.term].size = window /\ shell[doc.terms[app.term].pty].size = window

DesktopSound == FedOnce /\ FedAll /\ SelectionTogether /\ UpToDate
=============================================================================
