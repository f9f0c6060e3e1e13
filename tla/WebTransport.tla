---------------------------- MODULE WebTransport ----------------------------
(* The realtime connection of one page (web-transport.ts): the reconnect loop,  *)
(* a fiber that opens a session, waits and opens the next one; the sockets with  *)
(* their timers; the page that sleeps and wakes; and the requests that ride on   *)
(* the socket (realtime) or beside it (HTTP).  What events and frames do to the  *)
(* cursor is EventStream's matter.                                              *)
EXTENDS Naturals, FiniteSets

CONSTANTS
    Requests,      \* realtime requests: invokeRealtime and sendRealtime
    Invokes,       \* HTTP requests
    MaxUnseen,     \* sendRealtime's requests remembered (1024 in the code)
    MaxMishaps,    \* bound: closes, lost paths, restarts, shutdowns
    MaxWakes       \* bound: how often the page wakes

VARIABLES
    loop,          \* the fiber: in a "session", its end not yet seen ("ended"), "waiting", "stopped"
    sock,          \* this.socket: state, whether its path is dead, what the host said on it, who closed it
    announced,     \* the last connection:status
    requested,     \* reconnectRequested
    preserve,      \* preservePendingOnReconnect
    over,          \* "no", "closed" by the page, or "revoked"
    known,         \* a server identity was seen before
    realtime,      \* request -> state, and whether the present socket carried it
    http,          \* request -> state
    token,         \* the page has a token
    mishaps, wakes

sockets == <<loop, sock, announced, requested, preserve>>
transportVars == <<sockets, over, known, realtime, http, token, mishaps, wakes>>

NewSock == [state |-> "connecting", mute |-> FALSE, stage |-> "opened", by |-> "host"]
Waits(s) == s \in {"pending", "unseen"}

TransportInit ==
    /\ loop = "session" /\ sock = NewSock
    /\ announced = "none" /\ requested = FALSE /\ preserve = FALSE
    /\ over = "no" /\ known = FALSE
    /\ realtime = [r \in Requests |-> [state |-> "new", now |-> FALSE]]
    /\ http = [h \in Invokes |-> "new"]
    /\ token \in BOOLEAN
    /\ mishaps = 0 /\ wakes = 0

Mishap == mishaps < MaxMishaps /\ mishaps' = mishaps + 1

(* A promise is rejected, and a request nobody waits for is reported lost.      *)
RejectRealtime(reqs) ==
    [r \in Requests |-> IF Waits(reqs[r].state) THEN [reqs[r] EXCEPT !.state = "rejected"] ELSE reqs[r]]

RejectPending(reqs) == [h \in Invokes |-> IF reqs[h] = "pending" THEN "aborted" ELSE reqs[h]]

(* Fault: a wake of the page spares the commands of the replaced socket as well. *)
SessionEndsSparing(reqs, kept) == IF kept THEN reqs ELSE RejectRealtime(reqs)

SessionEnds(reqs, kept) == RejectRealtime(reqs)

OpenSession ==
    /\ loop' = "session" /\ sock' = NewSock
    /\ realtime' = [r \in Requests |-> [SessionEnds(realtime, preserve)[r] EXCEPT !.now = FALSE]]

(* The close event: finish() ends the session, the fiber goes on later.          *)
CloseEvent(code) ==
    /\ sock' = [sock EXCEPT !.state = "closed"]
    /\ loop' = "ended"
    /\ over' = IF code = 4003 THEN "revoked" ELSE over
    /\ UNCHANGED <<announced, requested, preserve, known, realtime, http, token>>

Opened ==
    /\ loop = "session" /\ sock.state = "connecting" /\ ~sock.mute
    /\ sock' = [sock EXCEPT !.state = "open"]
    /\ announced' = "synchronizing"
    /\ UNCHANGED <<loop, requested, preserve, over, known, realtime, http, token, mishaps, wakes>>

Hears(stage) == loop = "session" /\ sock.state = "open" /\ ~sock.mute /\ sock.stage = stage

(* A new epoch takes the answers to what this socket was asked with it.         *)
Hello ==
    /\ Hears("opened") /\ token
    /\ sock' = [sock EXCEPT !.stage = "hello"]
    /\ known' = TRUE
    /\ \/ UNCHANGED <<realtime, mishaps>>
       \/ known /\ Mishap /\ realtime' = RejectRealtime(realtime)
    /\ UNCHANGED <<loop, announced, requested, preserve, over, http, token, wakes>>

AuthRequired ==
    /\ Hears("opened") /\ ~token
    /\ sock' = [sock EXCEPT !.state = "closing", !.by = "unauthorised"]
    /\ UNCHANGED <<loop, announced, requested, preserve, over, known, realtime, http, token, mishaps, wakes>>

RuntimeSnapshot ==
    /\ Hears("hello")
    /\ sock' = [sock EXCEPT !.stage = "snapshot"]
    /\ announced' = "connected"
    /\ UNCHANGED <<loop, requested, preserve, over, known, realtime, http, token, mishaps, wakes>>

ShuttingDown ==
    /\ Hears("snapshot") /\ Mishap
    /\ http' = RejectPending(http)
    /\ UNCHANGED <<sockets, over, known, realtime, token, wakes>>

ClosesItself ==
    /\ sock' = [sock EXCEPT !.state = "closing"]
    /\ UNCHANGED <<loop, announced, requested, preserve, over, known, realtime, http, token, wakes>>

ConnectTimeout ==
    /\ loop = "session" /\ sock.state = "connecting" /\ sock.mute
    /\ ClosesItself /\ UNCHANGED mishaps

(* Fault: the heartbeat is started by the snapshot instead of by the open event. *)
HearsNothingSynced(s) == s.state = "open" /\ s.mute /\ s.stage = "snapshot"

HearsNothing(s) == s.state = "open" /\ s.mute

(* No pong for 45 seconds: the path is dead, or the page was frozen that long.   *)
HeartbeatTimeout ==
    /\ loop = "session"
    /\ \/ HearsNothing(sock) /\ UNCHANGED mishaps
       \/ sock.state = "open" /\ ~sock.mute /\ Mishap
    /\ ClosesItself

(* Of a close with 4003 the event says 4003 only if the handshake completes.    *)
Closed ==
    /\ loop = "session" /\ sock.state = "closing"
    /\ \E code \in {4000, 1006} \union (IF sock.by = "unauthorised" THEN {4003} ELSE {}) : CloseEvent(code)
    /\ UNCHANGED <<mishaps, wakes>>

HostCloses ==
    /\ loop = "session" /\ sock.state \in {"connecting", "open"}
    /\ Mishap
    /\ \E code \in {1006} \union (IF sock.state = "open" THEN {4003} ELSE {}) : CloseEvent(code)
    /\ UNCHANGED wakes

PathDies ==
    /\ loop = "session" /\ sock.state \in {"connecting", "open"} /\ ~sock.mute
    /\ Mishap
    /\ sock' = [sock EXCEPT !.mute = TRUE]
    /\ UNCHANGED <<loop, announced, requested, preserve, over, known, realtime, http, token, wakes>>

(* The loop's body after a session.                                             *)
ReconnectLoop ==
    /\ loop = "ended"
    /\ IF over # "no"
       THEN /\ loop' = "stopped"
            /\ UNCHANGED <<sock, announced, requested, preserve, realtime, http>>
       ELSE /\ announced' = "disconnected"
            /\ preserve' = FALSE
            /\ http' = IF preserve THEN http ELSE RejectPending(http)
            /\ requested' = FALSE
            /\ IF requested
               THEN OpenSession
               ELSE loop' = "waiting" /\ realtime' = SessionEnds(realtime, preserve) /\ UNCHANGED sock
    /\ UNCHANGED <<over, known, token, mishaps, wakes>>

WaitForReconnect ==
    /\ loop = "waiting"
    /\ OpenSession /\ requested' = FALSE
    /\ UNCHANGED <<announced, preserve, over, known, http, token, mishaps, wakes>>

(* What wakes the page, and whether its path may have been suspended.           *)
Replaces == [focusAfterBlur |-> FALSE, visibleAfterHidden |-> TRUE, restored |-> TRUE, online |-> TRUE]

(* An open or opening socket is replaced, a wait is cut short.                  *)
WakeRealtime(replace) ==
    /\ wakes < MaxWakes /\ wakes' = wakes + 1
    /\ over = "no" /\ (replace \/ sock.state # "open")
    /\ IF loop = "waiting"
       THEN OpenSession /\ requested' = FALSE /\ UNCHANGED preserve
       ELSE /\ requested' = TRUE
            /\ IF replace /\ sock.state \in {"open", "connecting"}
               THEN preserve' = TRUE /\ sock' = [sock EXCEPT !.state = "closing", !.by = "page"]
               ELSE UNCHANGED <<preserve, sock>>
            /\ UNCHANGED <<loop, realtime>>
    /\ UNCHANGED <<announced, over, known, http, token, mishaps>>

Close ==
    /\ over # "closed" /\ over' = "closed"
    /\ loop' = "stopped" /\ sock' = [sock EXCEPT !.state = "closed"]
    /\ http' = RejectPending(http) /\ realtime' = RejectRealtime(realtime)
    /\ UNCHANGED <<announced, requested, preserve, known, token, mishaps, wakes>>

Invoke(h) ==
    /\ over # "closed" /\ http[h] = "new"
    /\ http' = [http EXCEPT ![h] = "pending"]
    /\ UNCHANGED <<sockets, over, known, realtime, token, mishaps, wakes>>

InvokeAnswered(h) ==
    /\ http[h] = "pending"
    /\ http' = [http EXCEPT ![h] = "done"]
    /\ UNCHANGED <<sockets, over, known, realtime, token, mishaps, wakes>>

Asks(r, state) ==
    /\ over # "closed" /\ sock.state = "open" /\ realtime[r].state = "new"
    /\ realtime' = [realtime EXCEPT ![r] = [state |-> state, now |-> TRUE]]
    /\ UNCHANGED <<sockets, over, known, http, token, mishaps, wakes>>

InvokeRealtime(r) == Asks(r, "pending")

(* Nobody waits; beyond the limit the bookkeeping forgets one.                  *)
SendRealtime(r) ==
    /\ Asks(r, "unseen")
    /\ Cardinality({q \in Requests : realtime[q].state = "unseen"}) < MaxUnseen

SendForgetting(r) ==
    \E q \in Requests :
        /\ realtime[q].state = "unseen" /\ realtime[r].state = "new"
        /\ Cardinality({p \in Requests : realtime[p].state = "unseen"}) >= MaxUnseen
        /\ over # "closed" /\ sock.state = "open"
        /\ realtime' = [realtime EXCEPT ![r] = [state |-> "unseen", now |-> TRUE], ![q].state = "forgotten"]
        /\ UNCHANGED <<sockets, over, known, http, token, mishaps, wakes>>

ResolveRealtime(r) ==
    /\ loop = "session" /\ sock.state = "open" /\ ~sock.mute
    /\ Waits(realtime[r].state) /\ realtime[r].now
    /\ \E answer \in {"resolved", "rejected"} : realtime' = [realtime EXCEPT ![r].state = answer]
    /\ UNCHANGED <<sockets, over, known, http, token, mishaps, wakes>>

RequestTimeout(r) ==
    /\ realtime[r].state = "pending"
    /\ realtime' = [realtime EXCEPT ![r].state = "rejected"]
    /\ UNCHANGED <<sockets, over, known, http, token, mishaps, wakes>>

(* Timers, the browser's close events, a host that answers, and the fiber.      *)
TransportSteady ==
    \/ Opened \/ Hello \/ AuthRequired \/ RuntimeSnapshot \/ ConnectTimeout
    \/ HeartbeatTimeout \/ Closed \/ ReconnectLoop \/ WaitForReconnect
    \/ \E r \in Requests : RequestTimeout(r)

TransportNext ==
    \/ TransportSteady
    \/ ShuttingDown \/ HostCloses \/ PathDies \/ Close
    \/ \E event \in DOMAIN Replaces : WakeRealtime(Replaces[event])
    \/ \E h \in Invokes : Invoke(h) \/ InvokeAnswered(h)
    \/ \E r \in Requests : InvokeRealtime(r) \/ SendRealtime(r) \/ SendForgetting(r) \/ ResolveRealtime(r)

TransportSpec == TransportInit /\ [][TransportNext]_transportVars /\ WF_transportVars(TransportSteady)

-----------------------------------------------------------------------------
(* No command waits for an answer of another socket than the one that carried   *)
(* it (raw input must not be answered by, or repeated to, the next host); the   *)
(* status never says connected of a socket that is gone or without its snapshot; *)
(* and a page that only sleeps and wakes aborts none of its HTTP requests.      *)
OwnSocket ==
    /\ \A r \in Requests : Waits(realtime[r].state) => realtime[r].now
    /\ announced = "connected" /\ over = "no" =>
         loop \in {"session", "ended"} /\ sock.stage = "snapshot"
    /\ preserve => loop # "waiting" /\ (sock.by = "page" \/ over # "no")
    /\ (\E h \in Invokes : http[h] = "aborted") => mishaps > 0 \/ over # "no" \/ ~token

(* Unless the page closed it, the host refused it or there is no token, the      *)
(* transport ends up connected, whatever sockets died silently and whenever the *)
(* page slept and woke; and every command's promise settles.                     *)
Settled ==
    /\ over # "no" \/ ~token \/ announced = "connected"
    /\ \A r \in Requests : realtime[r].state # "pending"
Reconnects == <>[]Settled
=============================================================================
