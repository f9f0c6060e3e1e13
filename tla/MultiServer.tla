------------------------------ MODULE MultiServer ------------------------------
(* MultiServerHostClient: one browser, several hosts.  A connection object per  *)
(* server definition, the active server, the facade installed for the panels,  *)
(* the public names given to every server's sessions and terminals, and the    *)
(* calls that are under way while all of it changes.  A resource is named by   *)
(* its kind and its server; only the server a name is scoped to matters.  A    *)
(* server is its definition's id: that an id whose url is changed still means  *)
(* the same host is the user's business, as it is in the code.                 *)
EXTENDS Naturals, FiniteSets, Functions

CONSTANTS
    Current,      \* the server the page came from
    Remote,       \* the servers a user may define
    Versions,     \* urls and tokens a definition may have
    MaxObjs,      \* bound: connection objects made
    MaxCalls,     \* bound: calls made
    MaxNews       \* bound: status and error events of the transports

VARIABLES
    conns,        \* server -> [obj, ver, status, count]
    active, ports,
    snap,         \* the snapshot last published
    owners,       \* public name -> server
    calls,        \* calls under way
    held,         \* [id, home]: names the interface has been given
    misrouted,    \* a request reached a server that does not know its names
    made, called, news

serverVars == <<conns, active, ports, snap, owners, calls, held, misrouted, made, called, news>>
counters == <<called, news>>

Servers == Remote \union {Current}
Fresh(obj, ver) == [obj |-> obj, ver |-> ver, status |-> "connecting", count |-> 0]

(* makeSnapshot and connectionInfo *)
Snapshot(cs, act) ==
    [active |-> act,
     shown |-> [s \in DOMAIN cs |-> [status |-> cs[s].status, count |-> cs[s].count]]]

ServersInit ==
    /\ conns = [s \in {Current} |-> Fresh(1, 0)]
    /\ active = Current /\ ports = 1
    /\ snap = Snapshot(conns, Current)
    /\ owners = <<>> /\ calls = {} /\ held = {} /\ misrouted = FALSE
    /\ made = 1 /\ called = 0 /\ news = 0

(* publishGlobal: the facade takes over the active connection's interface.      *)
(* Fault: only when another server became active.                              *)
InstalledOnSwitch(cs, act) == IF act = active THEN ports ELSE cs[act].obj
Installed(cs, act) == cs[act].obj

(* scopedId and keepLocalIds: a name is bare on the current server.            *)
Name(kind, server, home) ==
    [kind |-> kind, scope |-> IF server = Current THEN "bare" ELSE server, local |-> home]
Bare(kind, home) == [kind |-> kind, scope |-> "bare", local |-> home]

(* scopeSession, scopeTab and scopeMuxTerminal register the bare name as well;  *)
(* a terminal created directly registers its public name only.                  *)
Registered(os, server, home, kinds) ==
    LET ids == {Name(k, server, home) : k \in kinds} \union {Bare(k, home) : k \in kinds \ {"created"}}
    IN  [id \in ids \union DOMAIN os |-> IF id \in ids THEN server ELSE os[id]]
Names(server, home, kinds) == {[id |-> Name(k, server, home), home |-> home] : k \in kinds}

StillThere(server, obj) == server \in DOMAIN conns /\ conns[server].obj = obj

-----------------------------------------------------------------------------
(* syncDefinitions and setServers: a definition that is gone or changed takes  *)
(* its connection along, and the active server falls back to the current one.  *)
SetServers(defs) ==
    /\ LET wanted == [s \in DOMAIN defs \union {Current} |-> IF s = Current THEN 0 ELSE defs[s]]
           kept == {s \in DOMAIN conns : s \in DOMAIN wanted /\ conns[s].ver = wanted[s]}
           new == DOMAIN wanted \ kept
           number == CHOOSE f \in [new -> made + 1..made + Cardinality(new)] : IsInjective(f)
       IN /\ made + Cardinality(new) <= MaxObjs
          /\ conns' = [s \in DOMAIN wanted |->
                          IF s \in kept THEN conns[s] ELSE Fresh(number[s], wanted[s])]
          /\ made' = made + Cardinality(new)
    /\ active' = (IF active \in DOMAIN conns' THEN active ELSE Current)
    /\ snap' = Snapshot(conns', active')
    /\ ports' = Installed(conns', active')
    /\ UNCHANGED <<owners, calls, held, misrouted, called, news>>

(* selectServer publishes the facade of the server it selects.                 *)
Select(server) ==
    IF server \notin DOMAIN conns THEN UNCHANGED <<active, ports, snap>>
    ELSE /\ active' = server /\ ports' = Installed(conns, server)
         /\ snap' = (IF server = active THEN snap ELSE Snapshot(conns, server))

SelectServer(server) ==
    /\ server \in DOMAIN conns /\ server # active
    /\ Select(server)
    /\ UNCHANGED <<conns, owners, calls, held, misrouted, made, counters>>

(* connection:status and protocol:error of one connection.                     *)
StatusAfter(old, event) ==
    CASE event = "disconnected" -> IF old \in {"revoked", "incompatible"} THEN old ELSE "offline"
      [] OTHER -> event
StatusEvent(server, event) ==
    /\ server \in DOMAIN conns /\ news < MaxNews
    /\ news' = news + 1
    /\ conns' = [conns EXCEPT ![server].status = StatusAfter(@, event)]
    /\ snap' = Snapshot(conns', active)
    /\ UNCHANGED <<active, ports, owners, calls, held, misrouted, made, called>>

(* A mux event: its names are scoped, and registered, on the way through.      *)
MuxEvent(server) ==
    /\ server \in DOMAIN conns
    /\ owners' = Registered(owners, server, server, {"session"})
    /\ held' = held \union Names(server, server, {"session"})
    /\ owners' # owners \/ held' # held
    /\ UNCHANGED <<conns, active, ports, snap, calls, misrouted, made, counters>>

-----------------------------------------------------------------------------
(* listSessions asks every connection there is; each answer is applied as it   *)
(* comes, and the last one publishes.                                          *)
StartListing ==
    /\ called < MaxCalls
    /\ called' = called + 1
    /\ calls' = calls \union {[kind |-> "listing", id |-> called,
                               open |-> {<<s, conns[s].obj>> : s \in DOMAIN conns}, got |-> {}]}
    /\ UNCHANGED <<conns, active, ports, snap, owners, held, misrouted, made, news>>

(* One connection's answer; closing a connection rejects what it was asked.    *)
ListingAnswer(call, asked, ok) ==
    /\ call.kind = "listing" /\ asked \in call.open
    /\ StillThere(asked[1], asked[2]) \/ ~ok
    /\ LET server == asked[1]
       IN /\ calls' = (calls \ {call}) \union
                {[call EXCEPT !.open = @ \ {asked}, !.got = IF ok THEN @ \union {server} ELSE @]}
          /\ IF ~StillThere(server, asked[2]) THEN UNCHANGED conns
             ELSE conns' = [conns EXCEPT ![server].status = IF ok THEN "connected" ELSE "offline",
                                         ![server].count = IF ok THEN 1 ELSE @]
          /\ owners' = IF ok THEN Registered(owners, server, server, {"session"}) ELSE owners
    /\ UNCHANGED <<active, ports, snap, held, misrouted, made, counters>>

FinishListing(call) ==
    /\ call.kind = "listing" /\ call.open = {}
    /\ calls' = calls \ {call}
    /\ snap' = Snapshot(conns, active)
    /\ held' = held \union UNION {Names(s, s, {"session"}) : s \in call.got}
    /\ UNCHANGED <<conns, active, ports, owners, misrouted, made, counters>>

(* terminal.create on the active server; another may be active at the answer.  *)
StartCreate ==
    /\ called < MaxCalls
    /\ called' = called + 1
    /\ calls' = calls \union {[kind |-> "create", id |-> called, server |-> active,
                               obj |-> conns[active].obj]}
    /\ UNCHANGED <<conns, active, ports, snap, owners, held, misrouted, made, news>>

(* Fault: the active server is looked up again after the await.                 *)
ScopeAfterAwait(call) == active
ScopeOfCreated(call) == call.server
CreateAnswer(call) ==
    /\ call.kind = "create"
    /\ calls' = calls \ {call}
    /\ IF StillThere(call.server, call.obj)
       THEN LET scope == ScopeOfCreated(call)
            IN /\ owners' = Registered(owners, scope, call.server, {"created"})
               /\ held' = held \union Names(scope, call.server, {"created"})
       ELSE UNCHANGED <<owners, held>>
    /\ UNCHANGED <<conns, active, ports, snap, misrouted, made, counters>>

-----------------------------------------------------------------------------
(* Requests about names the interface holds.                                   *)

(* ownerForPty falls back to the active server; the other lookups throw.       *)
Owner(id) == IF id \in DOMAIN owners THEN owners[id] ELSE active
Routable(ids) ==
    \A id \in ids : /\ id \in DOMAIN owners \/ id.kind = "created"
                    /\ Owner(id) \in DOMAIN conns

(* toLocalCommand sends a request to the owner of its first name.  Only a move     *)
(* compares servers: it names resources of different sessions and may not cross.  *)
Accepted(ids) == Cardinality({Owner(id) : id \in ids}) = 1

(* Every other request names one session and what is in it: the code compares      *)
(* nothing, and relies on its callers, which take the names from one snapshot.    *)
OneSession(names) == \A n, m \in names : n.home = m.home

Command(names, moves, selects) ==
    /\ names \subseteq held /\ names # {}
    /\ LET ids == {n.id : n \in names}
       IN /\ Routable(ids)
          /\ IF moves THEN Accepted(ids) ELSE OneSession(names)
          /\ \E first \in names :
                /\ misrouted' = (misrouted \/ \E n \in names : n.home # Owner(first.id))
                /\ IF selects THEN Select(Owner(first.id)) ELSE UNCHANGED <<active, ports, snap>>
    /\ <<misrouted', active'>> # <<misrouted, active>>
    /\ UNCHANGED <<conns, owners, calls, held, made, counters>>

ServersNext ==
    \/ \E on \in SUBSET Remote : \E defs \in [on -> Versions] : SetServers(defs)
    \/ \E s \in Servers :
          \/ SelectServer(s) \/ MuxEvent(s)
          \/ \E e \in {"connected", "synchronizing", "disconnected", "revoked"} : StatusEvent(s, e)
    \/ StartListing \/ StartCreate
    \/ \E c \in calls :
          \/ c.kind = "listing" /\ \E a \in c.open, ok \in BOOLEAN : ListingAnswer(c, a, ok)
          \/ FinishListing(c) \/ CreateAnswer(c)
    \/ \E n \in held, m \in held, moves \in BOOLEAN, selects \in BOOLEAN : Command({n, m}, moves, selects)

ServersSpec == ServersInit /\ [][ServersNext]_serverVars

-----------------------------------------------------------------------------
(* A request never reaches a server that does not know every name in it, however *)
(* servers were selected, added, removed and redefined while the answers that    *)
(* introduced those names were under way: scopedId, the owner maps and the       *)
(* connection captured before each await (create, toLocalCommand).              *)
Understood == ~misrouted

(* The facade the panels call is the interface of the active server's present    *)
(* connection object, there always is one, and outside a listing the published   *)
(* snapshot tells what the connections say: selectServer, setServers,            *)
(* publishGlobal and makeSnapshot.                                              *)
FacadeIsActive ==
    /\ Current \in DOMAIN conns /\ active \in DOMAIN conns
    /\ ports = conns[active].obj
    /\ (\A c \in calls : c.kind # "listing") => snap = Snapshot(conns, active)

(* Names are understood where they go, and what names no server goes to the      *)
(* active one: the routing of multi-server.ts by scoped name or by facade.       *)
RoutesHome == Understood /\ FacadeIsActive
=============================================================================
