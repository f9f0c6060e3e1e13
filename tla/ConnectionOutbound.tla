------------------------- MODULE ConnectionOutbound -------------------------
(***************************************************************************)
(* One connection's way out of the host (connection_outbound.rs), between   *)
(* the hub that publishes terminal frames (event_hub.rs emit_terminal), the *)
(* socket task that attaches, acknowledges and closes (server.rs            *)
(* handle_socket) and the writer task that alone sends (server.rs           *)
(* socket_writer).                                                          *)
(*                                                                         *)
(* Every method holds the state's mutex, so each is one step; an attach is  *)
(* three, because the terminal owner answers in between.  The writer's wait *)
(* on tokio's Notify is modelled as it works: notify_one leaves a permit    *)
(* when nobody waits, notify_waiters reaches only futures already created,  *)
(* and a future is a waiter from its first poll on.                         *)
(***************************************************************************)
EXTENDS OutboundMailbox

CONSTANTS
  Protocol,      \* flow credit applies to protocol 2 only
  FlowLimit,     \* flow_limit: unacknowledged bytes per terminal
  MaxSequence,   \* bound: chunks each terminal produces
  MaxAttaches,   \* bound: attaches in a behaviour
  MaxEvents      \* bound: metadata events and command results in a behaviour

ASSUME ProtocolAssumption == Protocol \in {1, 2}
ASSUME FlowAssumption ==
  {FlowLimit, MaxSequence, MaxAttaches, MaxEvents} \subseteq Nat

VARIABLES
  produced,         \* per terminal: sequence of its last chunk
  subscribed,       \* terminals the hub publishes to this connection
  flow,             \* partial: credit of each attached terminal
  replayRequired,   \* terminals whose live frames are being rejected
  attaching,        \* terminals whose attach holds the writer
  close,            \* close reason not yet sent, or "none"
  stopped,
  permit, notified, \* the Notify: stored permit; has the writer's future fired?
  writer,           \* the writer task: idle armed parking waiting sending
                    \* closing done
  task,             \* the socket task: running dispatching replying
                    \* exiting joined
  request,          \* the attach or detach it dispatches
  expected,         \* history, per terminal: the sequence that must be sent
                    \* next, 0 while the client knows of no unbroken stream
  attaches, events  \* counters of the bounds

flowVars == <<flow, replayRequired, attaching>>
endVars == <<close, stopped>>
writerVars == <<permit, notified, writer>>
taskVars == <<task, request>>
boundVars == <<attaches, events>>
vars == <<mailboxVars, produced, subscribed, flowVars, endVars, writerVars,
          taskVars, expected, boundVars>>

Data(t, n) == [kind |-> "data", terminal |-> t, seq |-> n, bytes |-> 1]
Fence(t, n) == [kind |-> "fence", terminal |-> t, seq |-> n, bytes |-> 1]
Result(t, n) == [kind |-> "result", terminal |-> t, seq |-> n, bytes |-> 1]
\* The reply to a detach, or to an attach that failed.
Ended(t) == [kind |-> "ended", terminal |-> t, seq |-> 0, bytes |-> 1]
Text == [kind |-> "text", terminal |-> NoTerminal, seq |-> 0, bytes |-> 1]

NoRequest == [terminal |-> NoTerminal, snapshot |-> 0, answered |-> FALSE]

Init ==
  /\ MailboxInit
  /\ produced = [t \in Terminals |-> 0]
  /\ subscribed = {}
  /\ flow = <<>> /\ replayRequired = {} /\ attaching = {}
  /\ close = "none" /\ stopped = FALSE
  /\ permit = FALSE /\ notified = FALSE /\ writer = "idle"
  /\ task = "running" /\ request = NoRequest
  /\ expected = [t \in Terminals |-> 0]
  /\ attaches = 0 /\ events = 0

-----------------------------------------------------------------------------
(* TerminalFlow *)

NewFlow(n) == [acknowledged |-> n, sent |-> <<>>, unacknowledged |-> 0]

CanReserve(f, n) ==
  n > f.acknowledged /\ f.unacknowledged + 1 <= FlowLimit

\* Fault: bytes are counted but the frame is not remembered.
ReserveBytesOnly(f, n) == [f EXCEPT !.unacknowledged = @ + 1]

Reserve(f, n) ==
  [f EXCEPT !.sent = Append(@, n), !.unacknowledged = @ + 1]

\* An acknowledgement covers every frame up to n; an old one does nothing.
Acknowledge(f, n) ==
  IF n <= f.acknowledged THEN f
  ELSE LET left == At(f.sent, {i \in DOMAIN f.sent : f.sent[i] > n}) IN
         [acknowledged |-> n, sent |-> left, unacknowledged |-> Len(left)]

SetFlow(t, f) ==
  flow' = [u \in DOMAIN flow \cup {t} |-> IF u = t THEN f ELSE flow[u]]

Without(t) == [u \in DOMAIN flow \ {t} |-> flow[u]]

-----------------------------------------------------------------------------
(* Notify *)

\* Fault: without a waiter the notification is lost.
NotifyOneWithoutPermit ==
  /\ notified' = (notified \/ writer = "waiting")
  /\ UNCHANGED permit

NotifyOne ==
  IF writer = "waiting" /\ ~notified
    THEN notified' = TRUE /\ UNCHANGED permit
    ELSE permit' = TRUE /\ UNCHANGED notified

\* Fault: the future counts from its first poll only, as if the writer created
\* it after it looked at the state.
NotifyWaitersPolled ==
  /\ notified' = (notified \/ writer = "waiting")
  /\ UNCHANGED permit

NotifyWaiters ==
  /\ notified' = (notified \/ writer \in {"armed", "parking", "waiting"})
  /\ UNCHANGED permit

-----------------------------------------------------------------------------
(* The hub: a terminal produces a chunk *)

Refusing(t) == stopped \/ close # "none" \/ t \in replayRequired

\* Fault: no fence when the frame is dropped for lack of credit.
FenceOffSilently(t) ==
  /\ replayRequired' = replayRequired \cup {t}
  /\ UNCHANGED <<close, controlLanes, nextOrder>>

\* The terminal's later frames are rejected from here on, and one reliable
\* fence at the acknowledged sequence says so; if it does not fit, the
\* connection closes.
FenceOff(t) ==
  /\ replayRequired' = replayRequired \cup {t}
  /\ LET fence == Fence(t, flow[t].acknowledged) IN
       \/ /\ ReliableFits(fence)
          /\ PutReliable(fence)
          /\ UNCHANGED close
       \/ /\ ~ReliableFits(fence)
          /\ close' = "1013"
          /\ UNCHANGED <<controlLanes, nextOrder>>

\* enqueue_terminal.  Credit reserved for a frame that the lane then rejects is
\* not given back.
EnqueueTerminal(t, n) ==
  \/ /\ Refusing(t) \/ t \notin DOMAIN flow
     /\ UNCHANGED <<mailboxVars, flow, replayRequired, close, permit, notified>>
  \/ /\ ~Refusing(t) /\ t \in DOMAIN flow
     /\ Protocol = 2 /\ ~CanReserve(flow[t], n)
     /\ FenceOff(t)
     /\ NotifyOne
     /\ UNCHANGED <<flow, legacyLane, semanticLane, out>>
  \/ /\ ~Refusing(t) /\ t \in DOMAIN flow
     /\ Protocol = 2 => CanReserve(flow[t], n)
     /\ IF Protocol = 2 THEN SetFlow(t, Reserve(flow[t], n)) ELSE UNCHANGED flow
     /\ \/ /\ LegacyFits(Data(t, n))
           /\ PutLegacy(Data(t, n))
           /\ UNCHANGED <<controlLanes, replayRequired, close>>
        \/ /\ ~LegacyFits(Data(t, n))
           /\ FenceOff(t)
           /\ UNCHANGED legacyLane
     /\ NotifyOne
     /\ UNCHANGED <<semanticLane, out>>

\* emit_terminal
Produce(t) ==
  /\ produced[t] < MaxSequence
  /\ produced' = [produced EXCEPT ![t] = @ + 1]
  /\ IF t \in subscribed
       THEN EnqueueTerminal(t, produced[t] + 1)
       ELSE UNCHANGED <<mailboxVars, flow, replayRequired, close, permit, notified>>
  /\ UNCHANGED <<subscribed, attaching, stopped, writer, taskVars, expected,
                 boundVars>>

-----------------------------------------------------------------------------
(* The socket task *)

\* terminal:attach: reset the flow to what the client says it has, hold the
\* writer, subscribe.  The mailbox keeps what it holds.
BeginAttach(t, n) ==
  /\ task = "running"
  /\ attaches < MaxAttaches
  /\ attaches' = attaches + 1
  /\ n <= produced[t]
  /\ task' = "dispatching"
  /\ request' = [NoRequest EXCEPT !.terminal = t]
  /\ SetFlow(t, NewFlow(n))
  /\ replayRequired' = replayRequired \ {t}
  /\ attaching' = attaching \cup {t}
  /\ subscribed' = subscribed \cup {t}
  /\ UNCHANGED <<mailboxVars, produced, endVars, writerVars, expected, events>>

\* The terminal owner answers with the sequence its replay ends at.
Snapshot ==
  /\ task = "dispatching" /\ ~request.answered
  /\ request' = [request EXCEPT !.snapshot = produced[request.terminal],
                                !.answered = TRUE]
  /\ UNCHANGED <<mailboxVars, produced, subscribed, flowVars, endVars,
                 writerVars, task, expected, boundVars>>

\* enqueue_attach_result.  A result overtakes the reliable lane, and the frames
\* it contains are withdrawn from the legacy lane.  Overflow closes, and leaves
\* the attach pending.
ResultOverflow(f) ==
  /\ ~ReliableFits(f)
  /\ close' = "1013"
  /\ task' = "exiting"
  /\ UNCHANGED <<mailboxVars, flowVars>>

\* Fault: the frames the result contains stay in the lane.
WithdrawNothing(t, n) == UNCHANGED legacyLane

Withdraw(t, n) == DiscardTerminalThrough(t, n)

AttachResult ==
  LET t == request.terminal
      f == Result(t, request.snapshot) IN
    \/ ResultOverflow(f)
    \/ /\ ReliableFits(f)
       /\ PutPriority(f)
       /\ Withdraw(t, request.snapshot)
       /\ flow' = [flow EXCEPT ![t] = Acknowledge(@, request.snapshot)]
       /\ attaching' = attaching \ {t}
       /\ task' = "running"
       /\ UNCHANGED <<replayRequired, semanticLane, out, close>>

FinishAttach ==
  /\ task = "dispatching" /\ request.answered
  /\ request' = NoRequest
  /\ AttachResult
  /\ NotifyOne
  /\ UNCHANGED <<produced, subscribed, stopped, writer, expected, boundVars>>

\* The terminal does not answer, or is gone: the connection is unsubscribed and
\* the error takes the result's place.
FailAttach ==
  /\ task = "dispatching" /\ ~request.answered
  /\ request' = NoRequest
  /\ subscribed' = subscribed \ {request.terminal}
  /\ \/ ResultOverflow(Ended(request.terminal))
     \/ /\ ReliableFits(Ended(request.terminal))
        /\ PutPriority(Ended(request.terminal))
        /\ flow' = Without(request.terminal)
        /\ replayRequired' = replayRequired \ {request.terminal}
        /\ attaching' = attaching \ {request.terminal}
        /\ task' = "running"
        /\ UNCHANGED <<legacyLane, semanticLane, out, close>>
  /\ NotifyOne
  /\ UNCHANGED <<produced, stopped, writer, expected, boundVars>>

\* Fault: the terminal stays fenced off.
DetachFencedOff(t) ==
  /\ task = "running"
  /\ t \in DOMAIN flow
  /\ task' = "replying"
  /\ request' = [NoRequest EXCEPT !.terminal = t]
  /\ flow' = Without(t)
  /\ attaching' = attaching \ {t}
  /\ subscribed' = subscribed \ {t}
  /\ NotifyOne
  /\ UNCHANGED <<mailboxVars, produced, replayRequired, endVars, writer,
                 expected, boundVars>>

\* terminal:detach; the command's result follows.
Detach(t) ==
  /\ task = "running"
  /\ t \in DOMAIN flow
  /\ task' = "replying"
  /\ request' = [NoRequest EXCEPT !.terminal = t]
  /\ flow' = Without(t)
  /\ replayRequired' = replayRequired \ {t}
  /\ attaching' = attaching \ {t}
  /\ subscribed' = subscribed \ {t}
  /\ NotifyOne
  /\ UNCHANGED <<mailboxVars, produced, endVars, writer, expected, boundVars>>

\* terminal:ack, of anything that may have been sent
ReceiveAck(t, n) ==
  /\ task = "running"
  /\ t \in DOMAIN flow
  /\ n <= produced[t]
  /\ flow' = [flow EXCEPT ![t] = Acknowledge(@, n)]
  /\ UNCHANGED <<mailboxVars, produced, subscribed, replayRequired, attaching,
                 endVars, writerVars, taskVars, expected, boundVars>>

\* enqueue_reliable: refused by a closed connection; overflow closes it.  Either
\* way the task leaves its loop.
EnqueueReliable(f) ==
  /\ \/ /\ stopped \/ close # "none"
        /\ task' = "exiting"
        /\ UNCHANGED <<mailboxVars, close, permit, notified>>
     \/ /\ ~stopped /\ close = "none" /\ ~ReliableFits(f)
        /\ task' = "exiting"
        /\ close' = "1013"
        /\ NotifyOne
        /\ UNCHANGED mailboxVars
     \/ /\ ~stopped /\ close = "none" /\ ReliableFits(f)
        /\ PutReliable(f)
        /\ NotifyOne
        /\ task' = "running"
        /\ UNCHANGED <<legacyLane, semanticLane, out, close>>
  /\ UNCHANGED <<produced, subscribed, flowVars, stopped, writer, expected,
                 attaches>>

\* A metadata event, a pong, or the result of another command.
ForwardEvent ==
  /\ task = "running"
  /\ events < MaxEvents
  /\ events' = events + 1
  /\ EnqueueReliable(Text)
  /\ UNCHANGED request

Reply ==
  /\ task = "replying"
  /\ EnqueueReliable(Ended(request.terminal))
  /\ request' = NoRequest
  /\ UNCHANGED events

\* The broadcast receiver lagged, or the device was revoked.
Close ==
  /\ task = "running"
  /\ close' = IF close = "none" THEN "4003" ELSE close
  /\ task' = "exiting"
  /\ NotifyOne
  /\ UNCHANGED <<mailboxVars, produced, subscribed, flowVars, stopped, writer,
                 request, expected, boundVars>>

\* The client closed the socket, or it failed.
PeerCloses ==
  /\ task = "running"
  /\ task' = "exiting"
  /\ UNCHANGED <<mailboxVars, produced, subscribed, flowVars, endVars,
                 writerVars, request, expected, boundVars>>

\* After the loop: leave the hub, stop the mailbox, ...
Stop ==
  /\ task = "exiting" /\ ~stopped
  /\ subscribed' = {}
  /\ stopped' = TRUE
  /\ NotifyWaiters
  /\ UNCHANGED <<mailboxVars, produced, flowVars, close, writer, taskVars,
                 expected, boundVars>>

\* ... await the writer, and only then release the connection's leases.
Join ==
  /\ task = "exiting" /\ stopped
  /\ writer = "done"
  /\ task' = "joined"
  /\ subscribed' = {}
  /\ UNCHANGED <<mailboxVars, produced, flowVars, endVars, writerVars, request,
                 expected, boundVars>>

-----------------------------------------------------------------------------
(* The writer: socket_writer around next *)

\* next creates the Notified future ...
Arm ==
  /\ writer = "idle"
  /\ writer' = "armed"
  /\ notified' = FALSE
  /\ UNCHANGED <<mailboxVars, produced, subscribed, flowVars, endVars, permit,
                 taskVars, expected, boundVars>>

\* What the client knows of a stream once frame f is sent.
Expect(f) ==
  CASE f.kind = "result" -> [expected EXCEPT ![f.terminal] = f.seq + 1]
    [] f.kind \in {"fence", "ended"} -> [expected EXCEPT ![f.terminal] = 0]
    [] f.kind = "data" /\ expected[f.terminal] # 0
                         -> [expected EXCEPT ![f.terminal] = f.seq + 1]
    [] OTHER             -> expected

\* ... before it looks at the state under the lock.  Attaching terminals hold
\* every frame back, but not the end of the connection.
Holding == attaching # {}

PopFrame ==
  /\ ~Holding
  /\ PopNext
  /\ expected' = Expect(out')
  /\ writer' = "sending"
  /\ UNCHANGED endVars

TakeClose ==
  /\ Holding \/ Empty
  /\ close # "none"
  /\ close' = "none"
  /\ stopped' = TRUE
  /\ writer' = "closing"
  /\ UNCHANGED <<mailboxVars, expected>>

FindNothing ==
  /\ Holding \/ Empty
  /\ close = "none"
  /\ writer' = IF stopped THEN "done" ELSE "parking"
  /\ UNCHANGED <<mailboxVars, endVars, expected>>

Look ==
  /\ writer = "armed"
  /\ PopFrame \/ TakeClose \/ FindNothing
  /\ UNCHANGED <<produced, subscribed, flowVars, permit, notified, taskVars,
                 boundVars>>

\* The first poll takes a stored permit; later a notification wakes the task.
Park ==
  /\ writer = "parking"
  /\ writer' = IF permit \/ notified THEN "idle" ELSE "waiting"
  /\ permit' = FALSE
  /\ UNCHANGED <<mailboxVars, produced, subscribed, flowVars, endVars, notified,
                 taskVars, expected, boundVars>>

Wake ==
  /\ writer = "waiting" /\ notified
  /\ writer' = "idle"
  /\ UNCHANGED <<mailboxVars, produced, subscribed, flowVars, endVars, permit,
                 notified, taskVars, expected, boundVars>>

Sent ==
  /\ writer = "sending"
  /\ writer' = "idle"
  /\ UNCHANGED <<mailboxVars, produced, subscribed, flowVars, endVars, permit,
                 notified, taskVars, expected, boundVars>>

\* The close frame is out, or a send failed: socket_writer stops the mailbox.
WriterEnds ==
  /\ writer \in {"closing", "sending"}
  /\ writer' = "done"
  /\ stopped' = TRUE
  /\ UNCHANGED <<mailboxVars, produced, subscribed, flowVars, close, permit,
                 notified, taskVars, expected, boundVars>>

-----------------------------------------------------------------------------
Next ==
  \/ \E t \in Terminals :
       \/ Produce(t) \/ Detach(t)
       \/ \E n \in 0..MaxSequence : BeginAttach(t, n) \/ ReceiveAck(t, n)
  \/ Snapshot \/ FinishAttach \/ FailAttach
  \/ ForwardEvent \/ Reply \/ Close \/ PeerCloses \/ Stop \/ Join
  \/ Arm \/ Look \/ Park \/ Wake \/ Sent \/ WriterEnds

\* Fairness: tokio runs both tasks, the owner answers an attach or the request
\* times out, and a send on the socket returns (the operating system gives up
\* on a peer that does not read).  Nothing is assumed of terminals and clients.
Fairness ==
  /\ WF_vars(Snapshot) /\ WF_vars(FinishAttach \/ FailAttach)
  /\ WF_vars(Reply) /\ WF_vars(Stop) /\ WF_vars(Join)
  /\ WF_vars(Arm) /\ WF_vars(Look) /\ WF_vars(Park) /\ WF_vars(Wake)
  /\ WF_vars(Sent \/ WriterEnds)

Spec == Init /\ [][Next]_vars
FairSpec == Spec /\ Fairness

-----------------------------------------------------------------------------
(* Properties *)

Frames ==
  [kind : {"data", "fence", "result", "ended"}, terminal : Terminals,
   seq : 0..MaxSequence, bytes : {1}] \cup {Text}
QueuedFrames == [frame : Frames, order : Nat]
Flow == [acknowledged : 0..MaxSequence, sent : Seq(1..MaxSequence),
         unacknowledged : Nat]

\* Types of the connection's state.
TypeOK ==
  /\ {priority, reliable, legacy} \subseteq Seq(QueuedFrames)
  /\ out \in Frames \cup {NoFrame}
  /\ produced \in [Terminals -> 0..MaxSequence]
  /\ subscribed \subseteq Terminals
  /\ DOMAIN flow \subseteq Terminals /\ \A t \in DOMAIN flow : flow[t] \in Flow
  /\ replayRequired \subseteq DOMAIN flow /\ attaching \subseteq DOMAIN flow
  /\ close \in {"none", "1013", "4003"} /\ stopped \in BOOLEAN
  /\ permit \in BOOLEAN /\ notified \in BOOLEAN
  /\ writer \in {"idle", "armed", "parking", "waiting", "sending", "closing", "done"}
  /\ task \in {"running", "dispatching", "replying", "exiting", "joined"}
  /\ expected \in [Terminals -> 0..(MaxSequence + 1)]

\* Once an attach result with the replay up to n is sent, the terminal's frames
\* follow as n+1, n+2, ... without a hole or a repetition until a fence, or the
\* reply to a detach or a failed attach, says that the stream broke: "overflow
\* enqueues one replay fence", "attach fence holds writer and discards snapshot
\* duplicates".
NoSilentGap ==
  [][writer = "armed" /\ writer' = "sending" /\ out'.kind = "data"
       => expected[out'.terminal] \in {0, out'.seq}]_vars

\* While live frames of a terminal are rejected, the fence that tells the client
\* is queued or sent, or the connection is ending.
FenceReported ==
  \A t \in replayRequired :
    \/ stopped \/ close # "none"
    \/ expected[t] = 0
    \/ \E i \in 1..Len(reliable) :
         reliable[i].frame.kind = "fence" /\ reliable[i].frame.terminal = t

\* Frames that wait for an attached terminal hold credit, unless the client has
\* already acknowledged past them: a slow client's backlog stays within
\* flow_limit, whatever is attached, detached and attached again.
BacklogHoldsCredit ==
  \A t \in DOMAIN flow \ attaching :
    \A q \in Range(legacy) :
      Protocol = 2 /\ q.frame.terminal = t /\ q.frame.seq > flow[t].acknowledged
        => \E i \in 1..Len(flow[t].sent) : flow[t].sent[i] = q.frame.seq

\* The types, and both promises that a slow client is held back or told.
OutboundInv == TypeOK /\ FenceReported /\ BacklogHoldsCredit

\* The task that has left its loop gets past the await on its writer, and so
\* releases the connection's leases: no lost stop notification.
TaskJoins == task = "exiting" ~> task = "joined"

\* A queued frame gets on its way while the connection lives: no lost wake-up.
FramesFlow == ~Empty ~> (Empty \/ stopped)

\* Neither task of a connection waits for the other for ever.
OutboundFlows == TaskJoins /\ FramesFlow
=============================================================================
