------------------------------- MODULE MuxStore -------------------------------
(* The browser's copy of a host's sessions, windows (tabs) and terminals:       *)
(* MuxSessionStore folds realtime events, listings and single answers, each    *)
(* entity under its revision; MuxClient asks for them and stages closes.  The   *)
(* host is modelled from what the client sees of it: revisions that grow by    *)
(* one, an event for every change, answers that leave archived entities out.   *)
(* Positions are abstracted to the order of the ids.                            *)
EXTENDS Naturals, Sequences, FiniteSets, SequencesExt, FiniteSetsExt, Functions

CONSTANTS
    Sessions, MaxTab, Terms,   \* session ids, tabs per session, terminal ids: numbers
    MaxChanges,                \* bound: changes on the host
    MaxDrops,                  \* bound: losses of events
    MaxAsks,                   \* bound: closes and reads the interface asks for
    Unordered                  \* which of the orders below may occur

(* The host begins with session 1 and in it a window and a terminal.             *)
ASSUME StoreBounds ==
    /\ Sessions \union Terms \subseteq Nat \ {0} /\ 1 \in Sessions \intersect Terms /\ IsFiniteSet(Terms)
    /\ MaxTab \in Nat \ {0} /\ {MaxChanges, MaxDrops, MaxAsks} \subseteq Nat
    /\ Unordered \subseteq {"coalesce", "session", "unknown", "answers", "restored"}

(* "coalesce"  requests are under way when events are lost and listed again    *)
(* "session"   an event overtakes the answer to a read of one session           *)
(* "unknown"   an event about a terminal the store does not know overtakes a     *)
(*             listing that was answered before it                              *)
(* "answers"   a later answer overtakes an earlier one                          *)
(* "restored"  a session comes back from the archive while the store, or a      *)
(*             listing on its way, lacks its windows: they are not asked for    *)

VARIABLES
    store,                     \* MuxSessionStore
    status,                    \* its connection field
    hostMux,                   \* the host: [ses, tab, term]
    events,                    \* events on their way
    asks,                      \* requests under way, oldest first
    linked,
    changes, drops, requests   \* bounds

muxVars == <<store, status, hostMux, events, asks, linked, changes, drops, requests>>

(* A tab is <<session, n>>; n = 0 is the window fallbackTab invents.            *)
Tabs == Sessions \X (0..MaxTab)
NoTab == <<0, 0>>
Lowest(S) == CHOOSE x \in S : \A y \in S : x <= y
LowestTab(S) == CHOOSE x \in S : \A y \in S : x[2] <= y[2]
RevOf(map, id) == IF id \in DOMAIN map THEN map[id].rev ELSE 0
Put(map, id, value) == [x \in DOMAIN map \union {id} |-> IF x = id THEN value ELSE map[x]]
LiveIn(map) == {id \in DOMAIN map : ~map[id].dead}
Larger(a, b) == IF a > b THEN a ELSE b

Entities == [ses |-> <<>>, tab |-> <<>>, term |-> <<>>]

MuxInit ==
    /\ store = [ses |-> <<>>, tab |-> <<>>, term |-> <<>>,
                visSes |-> {}, visTab |-> {},
                byTab |-> [t \in Tabs |-> {}], bySes |-> [s \in Sessions |-> {}],
                atSes |-> 0, atTab |-> NoTab, atTerm |-> 0,
                known |-> Entities, closingTab |-> {}, closingTerm |-> {}]
    /\ status = "connecting"
    /\ hostMux = [ses |-> [s \in {1} |-> [rev |-> 1, dead |-> FALSE, tab |-> <<1, 1>>]],
                  tab |-> [t \in {<<1, 1>>} |-> [rev |-> 1, dead |-> FALSE, term |-> 1]],
                  term |-> [i \in {1} |-> [rev |-> 1, dead |-> FALSE, tab |-> <<1, 1>>]]]
    /\ events = <<>>
    /\ asks = <<[kind |-> "list", base |-> Entities, answer |-> <<>>]>>
    /\ linked = TRUE /\ changes = 0 /\ drops = 0 /\ requests = 0

-----------------------------------------------------------------------------
(* The derived parts of the store.                                              *)

(* tabIdForTerminal: the terminal's window, or the first one of its session.    *)
TabFor(st, term) ==
    IF term.tab \in DOMAIN st.tab THEN term.tab
    ELSE LET own == {t \in st.visTab : t[1] = term.tab[1]}
         IN IF own = {} THEN NoTab ELSE LowestTab(own)

(* Where a terminal is shown: nowhere when it or its window is gone or closing. *)
Shown(st, id) ==
    LET term == st.term[id]
        tab == TabFor(st, term)
    IN IF term.dead \/ id \in st.closingTerm \/ tab = NoTab THEN {}
       ELSE IF st.tab[tab].dead \/ tab \in st.closingTab THEN {} ELSE {tab}

(* rebuildTerminalIndexes *)
TermIndexes(st) ==
    [st EXCEPT !.byTab = [t \in Tabs |-> {id \in DOMAIN st.term : Shown(st, id) = {t}}],
               !.bySes = [s \in Sessions |->
                   {id \in DOMAIN st.term : \E t \in Shown(st, id) : st.term[id].tab[1] = s}]]

(* rebuildVisibleTabs, rebuildVisibleSessions *)
TabIndexes(st) == TermIndexes([st EXCEPT !.visTab = LiveIn(st.tab) \ st.closingTab])
SesIndexes(st) == [st EXCEPT !.visSes = LiveIn(st.ses)]

TabsOf(st, s) == {t \in st.visTab : t[1] = s}
SelectedTab(st, s) ==
    LET own == TabsOf(st, s)
    IN IF own = {} THEN NoTab
       ELSE IF s \in DOMAIN st.ses /\ st.ses[s].tab \in own THEN st.ses[s].tab ELSE LowestTab(own)
SelectedTerm(st, t) ==
    IF st.byTab[t] = {} THEN 0
    ELSE IF t \in DOMAIN st.tab /\ st.tab[t].term \in st.byTab[t] THEN st.tab[t].term
    ELSE Lowest(st.byTab[t])

(* reconcileSelection keeps what is still visible and repairs the rest.         *)
Reselected(st) ==
    LET s == IF st.atSes \in st.visSes THEN st.atSes
             ELSE IF st.visSes = {} THEN 0 ELSE Lowest(st.visSes)
        t == IF s = 0 THEN NoTab
             ELSE IF st.atTab \in TabsOf(st, s) THEN st.atTab ELSE SelectedTab(st, s)
        i == IF t = NoTab THEN 0
             ELSE IF st.atTerm \in st.byTab[t] THEN st.atTerm ELSE SelectedTerm(st, t)
    IN [st EXCEPT !.atSes = s, !.atTab = t, !.atTerm = i]

(* upsertTerminal and updateTerminalIndexes: out of the window it was in, into  *)
(* the one it is in, without a rebuild.                                         *)
\* Fault: the terminal stays in its session's index.
LeftTab(st, id) == [st EXCEPT !.byTab = [t \in Tabs |-> IF t = TabFor(st, st.term[id]) THEN @[t] \ {id} ELSE @[t]]]
Left(st, id) ==
    [st EXCEPT !.byTab = [t \in Tabs |-> IF t = TabFor(st, st.term[id]) THEN @[t] \ {id} ELSE @[t]],
               !.bySes[st.term[id].tab[1]] = @ \ {id}]
Entered(st, id) ==
    IF Shown(st, id) = {} THEN st
    ELSE [st EXCEPT !.byTab[TabFor(st, st.term[id])] = @ \union {id},
                    !.bySes[st.term[id].tab[1]] = @ \union {id}]
Upserted(st, id, term) ==
    LET moved == id \notin DOMAIN st.term \/ st.term[id].tab # term.tab \/ st.term[id].dead # term.dead
        left == IF moved /\ id \in LiveIn(st.term) THEN Left(st, id) ELSE st
        set == [left EXCEPT !.term = Put(@, id, term)]
    IN IF moved THEN Entered(set, id) ELSE set

-----------------------------------------------------------------------------
(* What changes the store.                                                      *)

Kind(event) == IF event.kind \in {"output", "archived"} THEN "term" ELSE event.kind
KnownRev(st, event) ==
    Larger(RevOf(st.known[Kind(event)], event.id), RevOf(st[Kind(event)], event.id))
Learned(st, kind, id, rev) == [st EXCEPT !.known[kind] = Put(@, id, [rev |-> rev])]

(* apply, one case per event; an older or repeated revision changes nothing.    *)
Applied(st, event) ==
    LET id == event.id
        new == Learned(st, Kind(event), id, event.value.rev)
        present == id \in DOMAIN st[Kind(event)]
    IN Reselected(
         CASE event.kind = "ses" -> SesIndexes([new EXCEPT !.ses = Put(@, id, event.value)])
           [] event.kind = "tab" ->
                TabIndexes([new EXCEPT !.tab = Put(@, id, event.value),
                                       !.closingTab = IF event.value.dead THEN @ \ {id} ELSE @])
           [] event.kind = "term" ->
                IF present /\ st.term[id].dead /\ ~event.value.dead THEN new
                ELSE Upserted(new, id, event.value)
           [] event.kind = "output" ->
                IF present THEN Upserted(new, id, [st.term[id] EXCEPT !.rev = event.value.rev]) ELSE new
           [] event.kind = "archived" ->
                IF present
                THEN Upserted([new EXCEPT !.closingTerm = @ \ {id}], id,
                              [st.term[id] EXCEPT !.rev = event.value.rev, !.dead = TRUE])
                ELSE new)

(* The newer of two copies; what a listing left out stays when it changed       *)
(* since the listing was asked for.                                             *)
\* Fault: what the answer says wins.
Answered(old, new, id) == new[id]
Newer(old, new, id) == IF RevOf(old, id) > RevOf(new, id) THEN old[id] ELSE new[id]
Merged(old, new, base) ==
    LET kept == {id \in DOMAIN old \ DOMAIN new : old[id].rev > RevOf(base, id)}
    IN [id \in DOMAIN new \union kept |-> IF id \in kept THEN old[id] ELSE Newer(old, new, id)]

(* fallbackTab: a session without a window gets one.                            *)
WithFallbacks(ses, tab) ==
    LET bare == {s \in DOMAIN ses : \A t \in LiveIn(tab) : t[1] # s}
    IN [t \in DOMAIN tab \union {<<s, 0>> : s \in bare} |->
           IF t[2] = 0 /\ t[1] \in bare THEN [rev |-> 0, dead |-> FALSE, term |-> 0] ELSE tab[t]]

LearnedAll(known, map) ==
    [id \in DOMAIN known \union DOMAIN map |-> [rev |-> Larger(RevOf(known, id), RevOf(map, id))]]

(* clearAuthoritativelyFinishedCloses, the indexes, and the selection.          *)
Rebuilt(st) ==
    Reselected(TabIndexes(SesIndexes(
        [st EXCEPT !.closingTab = @ \intersect LiveIn(st.tab),
                   !.closingTerm = @ \intersect LiveIn(st.term)])))

(* mergeSnapshot *)
MergeListing(st, answer, base) ==
    LET ses == Merged(st.ses, answer.ses, base.ses)
        tab == WithFallbacks(ses, Merged(st.tab, answer.tab, base.tab))
        term == Merged(st.term, answer.term, base.term)
    IN Rebuilt([st EXCEPT !.ses = ses, !.tab = tab, !.term = term,
           !.known = [ses |-> LearnedAll(LearnedAll(@.ses, ses), base.ses),
                      tab |-> LearnedAll(LearnedAll(@.tab, tab), base.tab),
                      term |-> LearnedAll(LearnedAll(@.term, term), base.term)]])

(* replace; it learns the revisions of the tabs it was given, not of fallbacks. *)
Replaced(st, ses, tab, term) ==
    Rebuilt([st EXCEPT !.ses = ses, !.tab = WithFallbacks(ses, tab), !.term = term,
        !.known = [ses |-> LearnedAll(@.ses, ses), tab |-> LearnedAll(@.tab, tab),
                   term |-> LearnedAll(@.term, term)]])

(* replaceSession: the session's own entities are replaced, but newer copies    *)
(* and archived ones stay.                                                      *)
ReplacedPart(old, new, own) ==
    LET kept == {id \in DOMAIN old \ DOMAIN new : id \notin own \/ old[id].dead}
    IN [id \in DOMAIN new \union kept |-> IF id \in kept THEN old[id] ELSE Newer(old, new, id)]
ReplaceSession(st, s, answer) ==
    Replaced(st, ReplacedPart(st.ses, answer.ses, {}),
             ReplacedPart(st.tab, answer.tab, {t \in DOMAIN st.tab : t[1] = s}),
             ReplacedPart(st.term, answer.term, {i \in DOMAIN st.term : st.term[i].tab[1] = s}))

ReplaceTerm(st, id, term) ==
    IF RevOf(st.term, id) > term.rev THEN st
    ELSE Replaced(st, st.ses, st.tab, Put(st.term, id, term))
ReplaceTab(st, id, tab) ==
    IF RevOf(st.tab, id) > tab.rev THEN st
    ELSE Reselected(TabIndexes([st EXCEPT !.tab = Put(@, id, tab),
                                          !.closingTab = IF tab.dead THEN @ \ {id} ELSE @]))

-----------------------------------------------------------------------------
(* The host.                                                                   *)

Send(list) == events' = IF linked THEN events \o list ELSE events
Event(kind, id, value) == [kind |-> kind, id |-> id, value |-> value]
Changed(kind, id, value) == hostMux' = [hostMux EXCEPT ![kind] = Put(@, id, value)]
Pending(ask) == ask.answer = <<>>
Bump(value) == [value EXCEPT !.rev = @ + 1]

(* Archiving a window archives its terminals first.                             *)
ArchivedTab(h, t) ==
    [h EXCEPT !.tab[t] = [Bump(@) EXCEPT !.dead = TRUE],
              !.term = [i \in DOMAIN @ |-> IF @[i].tab = t /\ ~@[i].dead
                                           THEN [Bump(@[i]) EXCEPT !.dead = TRUE] ELSE @[i]]]
TabEvents(h, t) ==
    LET own == SetToSeq({i \in LiveIn(h.term) : h.term[i].tab = t})
    IN [n \in DOMAIN own |-> Event("archived", own[n], Bump(h.term[own[n]]))]
       \o <<Event("tab", t, ArchivedTab(h, t).tab[t])>>

ArchiveTerm(i) ==
    /\ Changed("term", i, [Bump(hostMux.term[i]) EXCEPT !.dead = TRUE])
    /\ Send(<<Event("archived", i, Bump(hostMux.term[i]))>>)
ArchiveTab(t) == hostMux' = ArchivedTab(hostMux, t) /\ Send(TabEvents(hostMux, t))

(* The store has what is alive in a session.                                    *)
HasAll(s) ==
    /\ \A t \in LiveIn(hostMux.tab) : t[1] = s => t \in DOMAIN store.tab
    /\ \A i \in LiveIn(hostMux.term) : hostMux.term[i].tab[1] = s => i \in DOMAIN store.term

HostChange ==
    /\ changes < MaxChanges
    /\ changes' = changes + 1
    /\ \/ \E s \in Sessions \ DOMAIN hostMux.ses :
             LET value == [rev |-> 1, dead |-> FALSE, tab |-> <<s, 1>>]
                 first == [rev |-> 1, dead |-> FALSE, term |-> 0]
             IN /\ hostMux' = [hostMux EXCEPT !.ses = Put(@, s, value), !.tab = Put(@, <<s, 1>>, first)]
                /\ Send(<<Event("ses", s, value), Event("tab", <<s, 1>>, first)>>)
       \/ \E s \in DOMAIN hostMux.ses : \E dead \in BOOLEAN :
             /\ \/ ~hostMux.ses[s].dead \/ dead \/ "restored" \in Unordered
                \/ HasAll(s) /\ \A n \in DOMAIN asks : asks[n].kind = "list" => Pending(asks[n])
             /\ LET value == [Bump(hostMux.ses[s]) EXCEPT !.dead = dead]
                IN Changed("ses", s, value) /\ Send(<<Event("ses", s, value)>>)
       \/ \E t \in Tabs \ DOMAIN hostMux.tab :
             /\ t[2] > 0 /\ t[1] \in LiveIn(hostMux.ses)
             /\ LET value == [rev |-> 1, dead |-> FALSE, term |-> 0]
                IN Changed("tab", t, value) /\ Send(<<Event("tab", t, value)>>)
       \/ \E t \in LiveIn(hostMux.tab) : ArchiveTab(t)
       \/ \E t \in LiveIn(hostMux.tab) :
             /\ Changed("tab", t, Bump(hostMux.tab[t]))
             /\ Send(<<Event("tab", t, Bump(hostMux.tab[t]))>>)
       \/ \E i \in Terms \ DOMAIN hostMux.term, t \in LiveIn(hostMux.tab) :
             /\ t[1] \in LiveIn(hostMux.ses)
             /\ LET value == [rev |-> 1, dead |-> FALSE, tab |-> t]
                IN Changed("term", i, value) /\ Send(<<Event("term", i, value)>>)
       \/ \E i \in LiveIn(hostMux.term) :
             \/ ArchiveTerm(i)
             \/ /\ Changed("term", i, Bump(hostMux.term[i]))
                /\ Send(<<Event("output", i, Bump(hostMux.term[i]))>>)
             \/ \E t \in LiveIn(hostMux.tab) \ {hostMux.term[i].tab} :
                   LET value == [Bump(hostMux.term[i]) EXCEPT !.tab = t]
                   IN /\ t[1] = hostMux.term[i].tab[1]
                      /\ Changed("term", i, value) /\ Send(<<Event("term", i, value)>>)
    /\ UNCHANGED <<store, status, asks, linked, drops, requests>>

(* What a request is answered: nothing archived is listed.                      *)
ListAnswer ==
    LET ses == Restrict(hostMux.ses, LiveIn(hostMux.ses))
    IN [ses |-> ses,
        tab |-> Restrict(hostMux.tab, {t \in LiveIn(hostMux.tab) : t[1] \in DOMAIN ses}),
        term |-> Restrict(hostMux.term, {i \in LiveIn(hostMux.term) : hostMux.term[i].tab[1] \in DOMAIN ses})]
SessionAnswer(s) ==
    [ses |-> Restrict(hostMux.ses, {s}),
     tab |-> Restrict(hostMux.tab, {t \in LiveIn(hostMux.tab) : t[1] = s}),
     term |-> Restrict(hostMux.term, {i \in LiveIn(hostMux.term) : hostMux.term[i].tab[1] = s})]

Refused == [refused |-> TRUE]
Answer(n) ==
    /\ linked /\ Pending(asks[n])
    /\ \A m \in 1..n - 1 : ~Pending(asks[m])
    /\ LET ask == asks[n]
           Given(value) == asks' = [asks EXCEPT ![n].answer = <<value>>]
       IN \/ ask.kind = "list" /\ Given(ListAnswer) /\ UNCHANGED <<hostMux, events>>
          \/ ask.kind \in {"session", "recover"} /\ Given(SessionAnswer(ask.id)) /\ UNCHANGED <<hostMux, events>>
          \/ ask.kind = "term" /\ Given(hostMux.term[ask.id]) /\ UNCHANGED <<hostMux, events>>
          \/ /\ ask.kind = "closeTerm"
             /\ \/ Given(Refused) /\ UNCHANGED <<hostMux, events>>
                \/ ~hostMux.term[ask.id].dead /\ ArchiveTerm(ask.id) /\ Given(hostMux'.term[ask.id])
          \/ /\ ask.kind = "closeTab"
             /\ \/ Given(Refused) /\ UNCHANGED <<hostMux, events>>
                \/ ~hostMux.tab[ask.id].dead /\ ArchiveTab(ask.id) /\ Given(hostMux'.tab[ask.id])
    /\ UNCHANGED <<store, status, linked, changes, drops, requests>>

-----------------------------------------------------------------------------
(* MuxClient.                                                                  *)

Ask(kind, id) == [kind |-> kind, id |-> id, answer |-> <<>>]
Listing == [kind |-> "list",
            base |-> [ses |-> store.ses, tab |-> store.tab, term |-> store.term], answer |-> <<>>]
ListingIn(list) == \E n \in DOMAIN list : list[n].kind = "list"

(* reconcile: a listing under way serves this request as well.                  *)
Reconciled(list) == IF ListingIn(list) THEN list ELSE Append(list, Listing)
Reconciling == IF status = "offline" THEN "offline" ELSE "reconciling"

(* An event is applied when it arrives; a jump of its revision asks for the     *)
(* entity's session, or for the terminal.                                      *)
ReceiveEvent ==
    /\ events # <<>>
    /\ LET event == Head(events)
           known == KnownRev(store, event)
           gap == known > 0 /\ event.value.rev > known + 1
           home == IF event.kind = "ses" THEN event.id ELSE event.id[1]
       IN /\ \/ "session" \in Unordered
             \/ \A n \in DOMAIN asks : asks[n].kind \in {"session", "recover"} => Pending(asks[n])
          /\ (event.kind \in {"output", "archived"} /\ "unknown" \notin Unordered)
                => \/ event.id \in DOMAIN store.term
                   \/ \A n \in DOMAIN asks : asks[n].kind = "list" => Pending(asks[n])
          /\ store' = IF known >= event.value.rev THEN store ELSE Applied(store, event)
          /\ asks' = IF ~gap THEN asks
                     ELSE IF Kind(event) = "term" THEN Append(asks, Ask("term", event.id))
                     ELSE IF event.kind = "tab" /\ event.id \notin DOMAIN store.tab THEN asks
                     ELSE Append(asks, Ask("session", home))
    /\ events' = Tail(events)
    /\ UNCHANGED <<status, hostMux, linked, changes, drops, requests>>

(* confirm and rollback of a staged close.                                     *)
Confirmed(st, kind, id) ==
    IF kind = "closeTerm" THEN [st EXCEPT !.closingTerm = @ \ {id}]
    ELSE [st EXCEPT !.closingTab = @ \ {id}]
RolledBack(st, kind, id) ==
    IF id \in (IF kind = "closeTerm" THEN st.closingTerm ELSE st.closingTab)
    THEN Reselected(TabIndexes(Confirmed(st, kind, id))) ELSE st
Recovered(st, kind, id) ==
    LET map == IF kind = "closeTerm" THEN st.term ELSE st.tab
    IN IF id \in DOMAIN map /\ map[id].dead THEN Confirmed(st, kind, id) ELSE RolledBack(st, kind, id)

(* An answer arrives.  A refused close reads the session before it settles.     *)
ReceiveAnswer(n) ==
    /\ ~Pending(asks[n])
    /\ "answers" \in Unordered \/ \A m \in 1..n - 1 : Pending(asks[m])
    /\ LET ask == asks[n]
           value == ask.answer[1]
           rest == RemoveAt(asks, n)
       IN \/ /\ ask.kind = "list"
             /\ store' = MergeListing(store, value, ask.base)
             /\ status' = "connected" /\ asks' = rest
          \/ /\ ask.kind = "session"
             /\ store' = ReplaceSession(store, ask.id, value)
             /\ asks' = rest /\ UNCHANGED status
          \/ /\ ask.kind = "recover"
             /\ store' = Recovered(ReplaceSession(store, ask.id, value), ask.what, ask.which)
             /\ asks' = rest /\ UNCHANGED status
          \/ /\ ask.kind = "term"
             /\ store' = ReplaceTerm(store, ask.id, value)
             /\ asks' = rest /\ UNCHANGED status
          \/ /\ ask.kind \in {"closeTerm", "closeTab"} /\ value # Refused
             /\ store' = Confirmed(IF ask.kind = "closeTerm" THEN ReplaceTerm(store, ask.id, value)
                                   ELSE ReplaceTab(store, ask.id, value), ask.kind, ask.id)
             /\ asks' = rest /\ UNCHANGED status
          \/ /\ ask.kind \in {"closeTerm", "closeTab"} /\ value = Refused
             /\ asks' = Append(rest, [kind |-> "recover", id |-> ask.home, what |-> ask.kind,
                                      which |-> ask.id, answer |-> <<>>])
             /\ UNCHANGED <<store, status>>
    /\ UNCHANGED <<hostMux, events, linked, changes, drops, requests>>

(* closeTerminal and closeTab: hidden at once, then asked for.                  *)
CloseTerm(i) ==
    /\ requests < MaxAsks /\ requests' = requests + 1
    /\ \E t \in Tabs : i \in store.byTab[t]
    /\ store' = Reselected(TermIndexes([store EXCEPT !.closingTerm = @ \union {i}]))
    /\ asks' = Append(asks, [kind |-> "closeTerm", id |-> i, home |-> store.term[i].tab[1], answer |-> <<>>])
    /\ UNCHANGED <<status, hostMux, events, linked, changes, drops>>
CloseTab(t) ==
    /\ requests < MaxAsks /\ requests' = requests + 1
    /\ t \in store.visTab /\ t[2] > 0
    /\ store' = Reselected(TabIndexes([store EXCEPT !.closingTab = @ \union {t}]))
    /\ asks' = Append(asks, [kind |-> "closeTab", id |-> t, home |-> t[1], answer |-> <<>>])
    /\ UNCHANGED <<status, hostMux, events, linked, changes, drops>>

(* reconcileSession, which the interface calls after most of its commands.      *)
ReadSession(s) ==
    /\ requests < MaxAsks /\ requests' = requests + 1
    /\ linked /\ s \in store.visSes
    /\ asks' = Append(asks, Ask("session", s))
    /\ UNCHANGED <<store, status, hostMux, events, linked, changes, drops>>

(* selectSession, selectTab and selectMuxTerminal of something shown.           *)
SelectShown ==
    /\ \/ \E s \in store.visSes :
             LET t == SelectedTab(store, s)
             IN store' = [store EXCEPT !.atSes = s, !.atTab = t,
                                       !.atTerm = IF t = NoTab THEN 0 ELSE SelectedTerm(store, t)]
       \/ \E t \in store.visTab : t[1] \in store.visSes
             /\ store' = [store EXCEPT !.atSes = t[1], !.atTab = t, !.atTerm = SelectedTerm(store, t)]
       \/ \E t \in store.visTab : \E i \in store.byTab[t] : t[1] \in store.visSes
             /\ store' = [store EXCEPT !.atSes = t[1], !.atTab = t, !.atTerm = i]
    /\ store' # store
    /\ UNCHANGED <<status, hostMux, events, asks, linked, changes, drops, requests>>

(* A request fails with its socket; a close that fails is rolled back, since    *)
(* its own reading of the session fails too.                                    *)
Failed(st, a) ==
    IF a.kind = "recover" THEN Recovered(st, a.what, a.which)
    ELSE IF a.kind \in {"closeTerm", "closeTab"} THEN Recovered(st, a.kind, a.id)
    ELSE st
AfterFailures(st, list) ==
    LET after[n \in 0..Len(list)] == IF n = 0 THEN st ELSE Failed(after[n - 1], list[n])
    IN after[Len(list)]

(* The socket goes: events are lost and requests fail, oldest first.             *)
Unlink ==
    /\ linked /\ drops < MaxDrops
    /\ drops' = drops + 1
    /\ linked' = FALSE /\ events' = <<>> /\ asks' = <<>>
    /\ status' = IF ListingIn(asks) THEN "offline" ELSE status
    /\ store' = AfterFailures(store, asks)
    /\ UNCHANGED <<hostMux, changes, requests>>
Relink ==
    /\ ~linked
    /\ linked' = TRUE
    /\ asks' = Reconciled(asks) /\ status' = Reconciling
    /\ UNCHANGED <<store, hostMux, events, changes, drops, requests>>

(* The host drops events it cannot keep for this client and says so.            *)
ReplayGap ==
    /\ linked /\ drops < MaxDrops /\ events # <<>>
    /\ asks = <<>> \/ "coalesce" \in Unordered
    /\ drops' = drops + 1
    /\ events' = <<>>
    /\ asks' = Reconciled(asks) /\ status' = Reconciling
    /\ UNCHANGED <<store, hostMux, linked, changes, requests>>

MuxNext ==
    \/ HostChange
    \/ \E n \in DOMAIN asks : Answer(n) \/ ReceiveAnswer(n)
    \/ ReceiveEvent
    \/ \E i \in Terms : CloseTerm(i)
    \/ \E t \in Tabs : CloseTab(t)
    \/ \E s \in Sessions : ReadSession(s)
    \/ SelectShown \/ Unlink \/ Relink \/ ReplayGap

MuxStoreSpec == MuxInit /\ [][MuxNext]_muxVars

-----------------------------------------------------------------------------
(* The indexes that events maintain one entity at a time are those a rebuild    *)
(* gives, whatever moved, closed, came back or was rolled back before; and the  *)
(* selection is of something shown, and exists wherever something is.           *)
StoreCoherent ==
    /\ store = TabIndexes(SesIndexes(store))
    /\ store = Reselected(store)

(* With nothing under way the store shows exactly what the host has: events      *)
(* lost, repeated or jumped, answers older than the events that overtook them,  *)
(* failed closes and reconnects leave no terminal, window or session behind and *)
(* miss none (except inside a session the host archived).  This is what the     *)
(* comment on mergeSnapshot promises (mux-store.ts:103-107).                    *)
StoreAgrees ==
    linked /\ events = <<>> /\ asks = <<>> =>
        \A kind \in {"ses", "tab", "term"} :
            LET mine == {id \in LiveIn(store[kind]) : kind # "tab" \/ id[2] > 0}
                gone(id) == kind # "ses" /\ (IF kind = "tab" THEN id[1] ELSE hostMux.term[id].tab[1])
                                            \notin LiveIn(hostMux.ses)
            IN /\ \A id \in LiveIn(hostMux[kind]) : gone(id) \/ (id \in mine /\ store[kind][id] = hostMux[kind][id])
               /\ \A id \in mine : gone(id) \/ id \in LiveIn(hostMux[kind])
=============================================================================
