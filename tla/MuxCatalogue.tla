---------------------------- MODULE MuxCatalogue ----------------------------
(* The catalogue of sessions, windows (tabs) and terminals: one document that   *)
(* every operation of store.rs replaces as a whole under its lock, and the      *)
(* commands of runtime.rs around it, which read what they will compare with     *)
(* before the operation and tell all clients what changed after it, each in a   *)
(* critical section of its own.                                                 *)
(*                                                                             *)
(* A title, a layout, an input or a status is only a reason for a new revision. *)
(* The processes are in MuxRuntime; here its updates are renames.  Tab and      *)
(* terminal 0 are none.  Ids count up, so the order of ids is that of creation. *)
EXTENDS Naturals, FiniteSets, FiniteSetsExt, Sequences

CONSTANTS
    Clients,
    MaxEdits        \* bound: commands

ASSUME CatalogueBounds == IsFiniteSet(Clients) /\ MaxEdits \in Nat

VARIABLES
    doc,            \* the document
    request,        \* per client: the command of its that is under way
    seen,           \* per entity: the newest revision that was told to the clients
    untold,         \* history: tabs compared with another tab or not at all, and not told of
    edits

catalogueVars == <<doc, request, seen, untold, edits>>

(* One of each at the start, two tabs, two terminals, and one per command.       *)
Sessions == 1..MaxEdits + 1
Tabs == 1..MaxEdits + 2
Terms == 1..MaxEdits + 2
Entities == {<<"session", s>> : s \in Sessions} \cup {<<"tab", t>> : t \in Tabs}
                \cup {<<"terminal", m>> : m \in Terms}

Idle == [at |-> "idle", op |-> "none", on |-> 0, to |-> 0, before |-> <<>>, look |-> <<>>]

-----------------------------------------------------------------------------
(* The document                                                                 *)

Rev(d, e) == d[e[1]][e[2]].revision
Revisions(d) == [k \in DOMAIN d |-> [i \in DOMAIN d[k] |-> d[k][i].revision]]
Open(d, kind) == {i \in DOMAIN d[kind] : d[kind][i].state = "open"}
OpenTabs(d, s) == {t \in Open(d, "tab") : d.tab[t].session = s}
OpenTerms(d, t) == {m \in Open(d, "terminal") : d.terminal[m].tab = t}
All(kind, ids) == {<<kind, i>> : i \in ids}

Fresh(d, kind) == Min({i \in DOMAIN d[kind] : d[kind][i].state = "none"})

(* The first of some entities by position; equal positions keep their order.     *)
Foremost(d, kind, ids) ==
    IF ids = {} THEN 0
    ELSE CHOOSE i \in ids : \A j \in ids \ {i} :
            \/ d[kind][i].position < d[kind][j].position
            \/ d[kind][i].position = d[kind][j].position /\ i < j

(* Whatever changes gets a new revision.                                         *)
Revised(r) == [r EXCEPT !.revision = @ + 1]
Archived(r) == [Revised(r) EXCEPT !.state = "archived"]
Touch(d, kind, i) == [d EXCEPT ![kind][i] = Revised(@)]

NewTab(s, position) ==
    [state |-> "open", session |-> s, position |-> position, terminal |-> 0, revision |-> 1]

WithSession(d) ==
    LET t == Fresh(d, "tab")
        s == Fresh(d, "session") IN
    [d EXCEPT !.session[s] = [state |-> "open", position |-> Cardinality(Open(d, "session")),
                              tab |-> t, terminal |-> 0, revision |-> 2],
              !.tab[t] = NewTab(s, 0)]

EnsureVisible(d) == IF Open(d, "session") = {} THEN WithSession(d) ELSE d

(* Makes an open terminal the active one of its tab, and its tab the session's.  *)
SelectIn(d, s, m) ==
    LET t == d.terminal[m].tab IN
    [d EXCEPT !.tab[t] = [Revised(@) EXCEPT !.terminal = m],
              !.session[s] = [Revised(@) EXCEPT !.tab = t, !.terminal = m]]

(* reorder_*: refused unless the order is one of exactly the open ones.          *)
Reordered(d, kind, order) ==
    [d EXCEPT ![kind] = [i \in DOMAIN @ |->
        IF i \in DOMAIN order THEN [Revised(@[i]) EXCEPT !.position = order[i]] ELSE @[i]]]
Orders(ids) == {o \in [ids -> 0..Cardinality(ids) - 1] : \A i, j \in ids : o[i] = o[j] => i = j}

WithTab(d, s) ==
    LET t == Fresh(d, "tab")
        e == [d EXCEPT !.tab[t] = NewTab(s, Cardinality(OpenTabs(d, s)))] IN
    IF d.session[s].tab = 0
        THEN [e EXCEPT !.session[s] = [Revised(@) EXCEPT !.tab = t]] ELSE e

WithTerm(d, s, t) ==
    LET m == Fresh(d, "terminal") IN
    SelectIn([d EXCEPT !.terminal[m] =
                 [state |-> "open", session |-> s, tab |-> t,
                  position |-> Cardinality(OpenTerms(d, t)), revision |-> 1]], s, m)

(* Fault: the tab a terminal leaves keeps it as its active one.                  *)
MovedTermKeeping(d, m, t) ==
    LET from == d.terminal[m].tab
        e == [d EXCEPT !.terminal[m] = [Revised(@) EXCEPT !.tab = t,
                                          !.position = Cardinality(OpenTerms(d, t))],
                       !.tab[from] = Revised(@)] IN
    IF t = from THEN d ELSE SelectIn(e, d.terminal[m].session, m)

MovedTerm(d, m, t) ==
    LET from == d.terminal[m].tab
        left == OpenTerms(d, from) \ {m}
        e == [d EXCEPT
                !.terminal[m] = [Revised(@) EXCEPT !.tab = t,
                                          !.position = Cardinality(OpenTerms(d, t))],
                !.tab[from] = IF @.terminal = m
                                 THEN [Revised(@) EXCEPT !.terminal = Foremost(d, "terminal", left)]
                                 ELSE Revised(@)] IN
    IF t = from THEN d ELSE SelectIn(e, d.terminal[m].session, m)

(* close_terminal: whatever showed the terminal shows its tab's next one.        *)
WithoutTerm(d, m) ==
    LET r == d.terminal[m]
        next == Foremost(d, "terminal", OpenTerms(d, r.tab) \ {m})
        Shows(e) == e.terminal = m
        Next(e) == [Revised(e) EXCEPT !.terminal = next] IN
    IF r.state = "archived" THEN d
    ELSE [d EXCEPT
            !.terminal[m] = Archived(@),
            !.tab[r.tab] = IF Shows(@) THEN Next(@) ELSE @,
            !.session[r.session] = IF Shows(@) THEN Next(@) ELSE @]

(* close_tab: with its terminals; a session always keeps a tab.                  *)
WithoutTab(d, t) ==
    LET s == d.tab[t].session
        closed == [d EXCEPT
            !.terminal = [m \in Terms |-> IF m \in OpenTerms(d, t)
                THEN Archived(d.terminal[m]) ELSE d.terminal[m]],
            !.tab[t] = IF @.state = "open" THEN Archived(@) ELSE @]
        filled == IF OpenTabs(closed, s) # {} THEN closed
                  ELSE [closed EXCEPT !.tab[Fresh(d, "tab")] = NewTab(s, 0)]
        next == Foremost(filled, "tab", OpenTabs(filled, s)) IN
    IF d.session[s].tab # t THEN filled
    ELSE [filled EXCEPT !.session[s] =
            [Revised(@) EXCEPT !.tab = next, !.terminal = filled.tab[next].terminal]]

ArchivedSession(d, s) ==
    EnsureVisible(IF d.session[s].state = "open"
                    THEN [d EXCEPT !.session[s] = Archived(@)]
                    ELSE d)

-----------------------------------------------------------------------------
(* What clients are told.  Events carry whole entities; a client keeps the one   *)
(* of the highest revision, so their order is not modelled.                      *)

Tell(d, es) ==
    seen' = [k \in DOMAIN seen |-> [i \in DOMAIN seen[k] |->
                IF <<k, i>> \in es THEN Max({d[k][i].revision, seen[k][i]}) ELSE seen[k][i]]]

Known(kind) == {i \in DOMAIN doc[kind] : seen[kind][i] > 0}

(* Clients are alike: of the idle ones it does not matter which asks.            *)
May(c) ==
    /\ request[c] = Idle /\ c = CHOOSE x \in Clients : request[x] = Idle
    /\ edits < MaxEdits /\ edits' = edits + 1

(* A command that goes straight to the store and tells what that returned.       *)
AtOnce(c, d, es) ==
    /\ May(c)
    /\ doc' = d /\ Tell(d, es) /\ untold' = untold \ es
    /\ UNCHANGED request

RenameSession(c) ==
    \E s \in Known("session") : AtOnce(c, Touch(doc, "session", s), {<<"session", s>>})
RestoreSession(c) ==
    \E s \in Known("session") :
        AtOnce(c, [doc EXCEPT !.session[s] = [Revised(@) EXCEPT !.state = "open"]],
               {<<"session", s>>})
RenameTab(c) == \E t \in Known("tab") : AtOnce(c, Touch(doc, "tab", t), {<<"tab", t>>})
(* Refused unless it names the tab's present revision, or none.                  *)
SaveTabLayout(c) ==
    \E t \in Known("tab") \cap Open(doc, "tab") : AtOnce(c, Touch(doc, "tab", t), {<<"tab", t>>})
(* Also the updates that processes cause.                                        *)
RenameTerminal(c) ==
    \E m \in Known("terminal") : AtOnce(c, Touch(doc, "terminal", m), {<<"terminal", m>>})
Reorder(c, kind, ids) ==
    /\ ids \subseteq Known(kind)
    /\ \E o \in Orders(ids) : AtOnce(c, Reordered(doc, kind, o), All(kind, ids))
ReorderSessions(c) == Reorder(c, "session", Open(doc, "session"))
ReorderTabs(c) == \E s \in Known("session") : Reorder(c, "tab", OpenTabs(doc, s))
ReorderTerminals(c) ==
    \E t \in Known("tab") \cap Open(doc, "tab") : Reorder(c, "terminal", OpenTerms(doc, t))

(* mux:selectTab; with no tab the session shows none.                            *)
SelectTab(c) ==
    \E s \in Known("session") : \E t \in (OpenTabs(doc, s) \cap Known("tab")) \cup {0} :
        AtOnce(c, [doc EXCEPT !.session[s] =
                    [Revised(@) EXCEPT !.tab = t,
                              !.terminal = IF t = 0 THEN 0 ELSE doc.tab[t].terminal]],
               {<<"session", s>>})

-----------------------------------------------------------------------------
(* The other commands: what they read first, ...                                 *)

Ask(c, op, on, to, es) ==
    /\ May(c)
    /\ request' = [request EXCEPT ![c] =
         [at |-> "asked", op |-> op, on |-> on, to |-> to, before |-> [e \in es |-> Rev(doc, e)],
          look |-> <<>>]]
    /\ UNCHANGED <<doc, seen, untold>>

ActiveTab(s) == IF doc.session[s].tab = 0 THEN {} ELSE {<<"tab", doc.session[s].tab>>}

AskCreateTab(c) == \E s \in Known("session") : Ask(c, "createTab", s, 0, {<<"session", s>>})
(* With the tab it is for, or for the session's active one.                      *)
AskCreateTerminal(c) ==
    \E s \in Known("session") :
        \/ Ask(c, "createTerminal", s, 0, {<<"session", s>>} \cup ActiveTab(s))
        \/ \E t \in Known("tab") : doc.tab[t].session = s
              /\ Ask(c, "createTerminal", s, t, {<<"session", s>>, <<"tab", t>>})
AskMoveTerminal(c) ==
    \E m \in Known("terminal") : \E t \in Known("tab") :
        LET s == doc.terminal[m].session IN
        /\ doc.tab[t].session = s
        /\ Ask(c, "moveTerminal", m, t, {<<"session", s>>} \cup All("tab", OpenTabs(doc, s)))
AskSelectTerminal(c) ==
    \E s \in Known("session") : \E m \in {n \in Known("terminal") : doc.terminal[n].session = s} \cup {0} :
        Ask(c, "selectTerminal", s, m, {<<"session", s>>} \cup ActiveTab(s))
(* Its process is disposed of before the store hears of it.                      *)
AskCloseTerminal(c) ==
    \E m \in Known("terminal") :
        LET r == doc.terminal[m] IN
        Ask(c, "closeTerminal", m, 0, {<<"session", r.session>>, <<"tab", r.tab>>})
AskArchiveTab(c) == \E t \in Known("tab") : Ask(c, "archiveTab", t, 0, {})
AskArchiveSession(c) ==
    \E s \in Known("session") : Ask(c, "archiveSession", s, 0, All("session", Open(doc, "session")))

(* ... the operation, with what is told of its result, told if it differs from   *)
(* what was read, or looked at again, ...                                        *)
Done(d, told, compared, look) ==
    [doc |-> d, told |-> told, compared |-> compared, look |-> look]
Error == Done(doc, {}, {}, <<>>)

CreateTab(r) ==
    IF doc.session[r.on].state # "open" THEN Error
    ELSE Done(WithTab(doc, r.on), {<<"tab", Fresh(doc, "tab")>>}, {}, <<<<"session", r.on>>>>)

CreateTerminal(r) ==
    LET t == IF r.to = 0 THEN doc.session[r.on].tab ELSE r.to IN
    IF doc.session[r.on].state # "open" \/ t \notin OpenTabs(doc, r.on) THEN Error
    ELSE Done(WithTerm(doc, r.on, t), {<<"terminal", Fresh(doc, "terminal")>>}, {},
              <<<<"tab", t>>, <<"session", r.on>>>>)

MoveTerminal(r) ==
    LET t == doc.terminal[r.on] IN
    IF t.state # "open" \/ r.to \notin OpenTabs(doc, t.session) THEN Error
    ELSE Done(MovedTerm(doc, r.on, r.to), {<<"terminal", r.on>>}, {}, <<<<"snapshot", t.session>>>>)

SelectTerminal(r) ==
    LET d == IF r.to # 0 THEN SelectIn(doc, r.on, r.to)
             ELSE [doc EXCEPT !.session[r.on] = [Revised(@) EXCEPT !.terminal = 0]]
        t == d.session[r.on].tab IN
    IF r.to # 0 /\ doc.terminal[r.to].state # "open" THEN Error
    ELSE Done(d, {}, {<<"session", r.on>>}, IF t = 0 THEN <<>> ELSE <<<<"tab", t>>>>)

CloseTerminal(r) ==
    LET t == doc.terminal[r.on] IN
    Done(WithoutTerm(doc, r.on), {<<"terminal", r.on>>},
         {<<"session", t.session>>, <<"tab", t.tab>>}, <<>>)

ArchiveTab(r) ==
    LET d == WithoutTab(doc, r.on) IN
    Done(d, All("terminal", OpenTerms(doc, r.on)) \cup All("tab", Open(d, "tab") \ Open(doc, "tab"))
              \cup {<<"tab", r.on>>, <<"session", doc.tab[r.on].session>>}, {}, <<>>)

ArchiveSession(r) ==
    Done(ArchivedSession(doc, r.on), {<<"session", r.on>>}, {}, <<<<"others", 0>>>>)

(* It told of the session it made; the tabs it reads again.                      *)
CreateSession(r) ==
    LET s == Fresh(doc, "session") IN
    Done(WithSession(doc), {<<"session", s>>}, {}, <<<<"tabs", s>>>>)

AskCreateSession(c) == Ask(c, "createSession", 0, 0, {})

Outcome(r) ==
    CASE r.op = "createSession" -> CreateSession(r)
      [] r.op = "createTab" -> CreateTab(r)
      [] r.op = "createTerminal" -> CreateTerminal(r)
      [] r.op = "moveTerminal" -> MoveTerminal(r)
      [] r.op = "selectTerminal" -> SelectTerminal(r)
      [] r.op = "closeTerminal" -> CloseTerminal(r)
      [] r.op = "archiveTab" -> ArchiveTab(r)
      [] r.op = "archiveSession" -> ArchiveSession(r)

(* A session or tab is compared with what was read of its kind: when another tab *)
(* was read, with that one's revision.                                           *)
Differs(d, r, e) == Rev(d, e) \notin {r.before[x] : x \in {y \in DOMAIN r.before : y[1] = e[1]}}
DiffersFromItself(d, r, e) == e \in DOMAIN r.before /\ r.before[e] # Rev(d, e)
Coincide(d, r, es) == {e \in es : ~Differs(d, r, e) /\ e \notin DOMAIN r.before}
Unread(r, s) == All("tab", OpenTabs(doc, s)) \ DOMAIN r.before

Continue(c, look) ==
    request' = [request EXCEPT ![c] =
        IF look = <<>> THEN Idle ELSE [@ EXCEPT !.at = "look", !.look = look]]

Change(c) ==
    LET r == request[c]
        o == Outcome(r)
        told == o.told \cup {e \in o.compared : Differs(o.doc, r, e)} IN
    /\ r.at = "asked"
    /\ doc' = o.doc /\ Tell(o.doc, told)
    /\ untold' = (untold \cup Coincide(o.doc, r, o.compared)) \ told
    /\ Continue(c, o.look)
    /\ UNCHANGED edits

(* The store cannot write, or a process cannot be disposed of.                   *)
Fail(c) ==
    /\ request[c].at = "asked"
    /\ Continue(c, <<>>)
    /\ UNCHANGED <<doc, seen, untold, edits>>

(* Fault: after a move only the session is looked at.                            *)
FoundSessionOnly(r, l) ==
    CASE l[1] \in {"tab", "session"} -> {e \in {l} : Differs(doc, r, e)}
      [] l[1] = "tabs" -> All("tab", OpenTabs(doc, l[2]))
      [] l[1] = "snapshot" -> {<<"session", l[2]>>}
      [] l[1] = "others" -> {}

(* ... and what is read again afterwards.                                        *)
Found(r, l) ==
    CASE l[1] \in {"tab", "session"} -> {e \in {l} : Differs(doc, r, e)}
      [] l[1] = "tabs" -> All("tab", OpenTabs(doc, l[2]))
      [] l[1] = "snapshot" ->
           {e \in All("tab", OpenTabs(doc, l[2])) \cup {<<"session", l[2]>>} : DiffersFromItself(doc, r, e)}
      [] l[1] = "others" ->
           LET new == {s \in Open(doc, "session") : <<"session", s>> \notin DOMAIN r.before} IN
           All("session", new) \cup UNION {All("tab", OpenTabs(doc, s)) : s \in new}

Look(c) ==
    LET r == request[c]
        l == Head(r.look)
        told == Found(r, l) IN
    /\ r.at = "look"
    /\ Tell(doc, told)
    /\ untold' = (untold \cup (CASE l[1] = "tab" -> Coincide(doc, r, {l})
                                 [] l[1] = "snapshot" -> Unread(r, l[2])
                                 [] OTHER -> {})) \ told
    /\ Continue(c, Tail(r.look))
    /\ UNCHANGED <<doc, edits>>

-----------------------------------------------------------------------------
(* One session; two tabs, the second active, with a terminal each, as created    *)
(* one after the other.                                                         *)
CatalogueInit ==
    /\ doc = [session |-> [s \in Sessions |->
                 IF s = 1 THEN [state |-> "open", position |-> 0, tab |-> 2, terminal |-> 2, revision |-> 4]
                 ELSE [state |-> "none", position |-> 0, tab |-> 0, terminal |-> 0, revision |-> 0]],
              tab |-> [t \in Tabs |->
                 IF t <= 2 THEN [NewTab(1, t - 1) EXCEPT !.terminal = t, !.revision = 2]
                 ELSE [state |-> "none", session |-> 0, position |-> 0, terminal |-> 0, revision |-> 0]],
              terminal |-> [m \in Terms |->
                 IF m <= 2 THEN [state |-> "open", session |-> 1, tab |-> m, position |-> 0, revision |-> 3]
                 ELSE [state |-> "none", session |-> 0, tab |-> 0, position |-> 0, revision |-> 0]]]
    /\ seen = Revisions(doc)
    /\ untold = {}
    /\ request = [c \in Clients |-> Idle]
    /\ edits = 0

CatalogueNext ==
    \E c \in Clients :
        \/ RenameSession(c) \/ RestoreSession(c) \/ RenameTab(c) \/ SaveTabLayout(c)
        \/ RenameTerminal(c) \/ ReorderSessions(c) \/ ReorderTabs(c) \/ ReorderTerminals(c)
        \/ SelectTab(c)
        \/ AskCreateSession(c) \/ AskCreateTab(c) \/ AskCreateTerminal(c) \/ AskMoveTerminal(c)
        \/ AskSelectTerminal(c) \/ AskCloseTerminal(c) \/ AskArchiveTab(c) \/ AskArchiveSession(c)
        \/ Change(c) \/ Fail(c) \/ Look(c)

CatalogueSpec == CatalogueInit /\ [][CatalogueNext]_catalogueVars

-----------------------------------------------------------------------------
(* Properties                                                                   *)

(* No order of creates, moves, closes, archives and selections of two clients    *)
(* leaves the document inconsistent: a session is open; every session has an open *)
(* tab; what a session shows is an open tab of it and that tab's terminal; a tab *)
(* shows a terminal of its own, and one if it has any; a closed tab has none.     *)
CatalogueSound ==
    /\ Open(doc, "session") # {}
    /\ \A s \in Sessions : doc.session[s].state # "none" =>
        LET r == doc.session[s] IN
        /\ OpenTabs(doc, s) # {}
        /\ r.tab \in OpenTabs(doc, s) \cup {0}
        /\ r.terminal # 0 => r.tab # 0 /\ r.terminal = doc.tab[r.tab].terminal
    /\ \A t \in Tabs : doc.tab[t].state = "open" =>
        IF OpenTerms(doc, t) = {} THEN doc.tab[t].terminal = 0
        ELSE doc.tab[t].terminal \in OpenTerms(doc, t)
    /\ \A m \in Open(doc, "terminal") :
        doc.terminal[m].tab \in OpenTabs(doc, doc.terminal[m].session)

(* With no command under way clients were told the newest revision of everything, *)
(* although commands compare and read again while others change: except of a tab *)
(* whose revision equalled that of another tab it was compared with, or that was  *)
(* made after a move read the tabs it compares with.                             *)
ClientsToldAll ==
    (\A c \in Clients : request[c] = Idle) =>
        \A e \in Entities \ untold : seen[e[1]][e[2]] = Rev(doc, e)
=============================================================================
