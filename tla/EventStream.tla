---------------------------- MODULE EventStream ----------------------------
(***************************************************************************)
(* Host metadata on its way to one browser: the event hub's shared sequence *)
(* and bounded history (event_hub.rs), the broadcast receiver, snapshot or  *)
(* replay and forwarding loop of the client's socket task (server.rs), the  *)
(* connection's outbound mailbox, and the client's acceptance rule and      *)
(* reconnect loop (web-transport.ts).                                       *)
(*                                                                         *)
(* An event's payload is its sequence number.  Terminal frames take their   *)
(* number from the same counter but go from the hub straight into the       *)
(* mailbox, past the broadcast receiver.                                    *)
(***************************************************************************)
EXTENDS Naturals, Sequences, FiniteSets

CONSTANTS
  Protocols,          \* protocol versions of the clients: 2 gets hello and
                      \* snapshot, 1 a replay of the history
  HistoryCapacity,    \* capacity of the replay ring
  BroadcastCapacity,  \* unread messages a broadcast receiver may hold
  ReliableLimit,      \* reliable_max_frames of the mailbox
  MaxSequence,        \* bound: events and frames per server epoch
  MaxFrames,          \* bound: terminal frames in a behaviour
  MaxDisconnects,     \* bound: network failures
  MaxRestarts         \* bound: host restarts

ASSUME ProtocolAssumption == Protocols \subseteq {1, 2}
ASSUME LimitsAssumption ==
  {HistoryCapacity, BroadcastCapacity, ReliableLimit} \subseteq Nat \ {0}
ASSUME BoundsAssumption ==
  {MaxSequence, MaxFrames, MaxDisconnects, MaxRestarts} \subseteq Nat

VARIABLES
  epoch,           \* server_epoch: 1, 2, ... one per host process
  sequence,        \* the hub's sequence
  history,         \* the replay ring: sequence numbers, oldest first
  droppedThrough,  \* history_dropped_through
  socket,          \* the server's task: none, subscribed, open or closing
  since,           \* query.since of this socket
  cursor,          \* snapshot_sequence
  receiver,        \* unread broadcast messages of this socket
  lagged,          \* has the receiver lost a message?
  attached,        \* is a terminal attached to this socket?
  mailbox,         \* the outbound mailbox, in sending order
  wire,            \* server-to-client bytes of the WebSocket
  status,          \* connection:status at the client
  clientEpoch,     \* the server epoch the client last said hello to
  lastSequence,    \* lastSequence of the client
  emitted,         \* history: every metadata event emitted
  covered,         \* history: those the client applied, got in a snapshot,
                   \* or was told it missed
  protocol,        \* the protocol this client speaks (query.protocol)
  overtaken,       \* history: the newest frame the client accepted since its
                   \* last snapshot; older events may have been overtaken
  frames, disconnects, restarts   \* counters of the bounds

hubVars == <<epoch, sequence, history, droppedThrough, emitted, restarts>>
taskVars == <<socket, since, cursor, receiver, lagged, attached, mailbox>>
clientVars == <<status, clientEpoch, lastSequence, covered, overtaken>>
vars == <<hubVars, taskVars, wire, clientVars, frames, disconnects, protocol>>

Event(n) == [kind |-> "event", epoch |-> epoch, seq |-> n]
Frame(n) == [kind |-> "frame", epoch |-> epoch, seq |-> n]
Snapshot(n) == [kind |-> "snapshot", epoch |-> epoch, seq |-> n]
Close == [kind |-> "close", epoch |-> epoch, seq |-> 0]

EmittedThrough(e, n) == {m \in emitted : m.epoch = e /\ m.seq <= n}

Init ==
  /\ epoch = 1 /\ sequence = 0 /\ history = <<>> /\ droppedThrough = 0
  /\ socket = "none" /\ since = 0 /\ cursor = 0
  /\ receiver = <<>> /\ lagged = FALSE /\ attached = FALSE /\ mailbox = <<>>
  /\ wire = <<>>
  /\ status = "disconnected" /\ clientEpoch = 0 /\ lastSequence = 0
  /\ emitted = {} /\ covered = {} /\ overtaken = 0
  /\ protocol \in Protocols
  /\ frames = 0 /\ disconnects = 0 /\ restarts = 0

-----------------------------------------------------------------------------
(* The hub *)

\* Fault: the ring grows one past its capacity.
RetainedOneMore(h) ==
  IF Len(h) > HistoryCapacity + 1 THEN Tail(h) ELSE h

\* The ring keeps the newest HistoryCapacity events.
Retained(h) ==
  IF Len(h) > HistoryCapacity THEN Tail(h) ELSE h
DroppedAfter(h) ==
  IF Len(h) > HistoryCapacity THEN Head(h) ELSE droppedThrough

\* Fault: the message is sent after the sequence lock is released, where a
\* later one may overtake it.
BroadcastUnlocked(m) ==
  IF socket \in {"subscribed", "open"}
    THEN /\ Len(receiver) < BroadcastCapacity
         /\ \/ receiver' = Append(receiver, m)
            \/ receiver' = <<m>> \o receiver
         /\ UNCHANGED lagged
    ELSE UNCHANGED <<receiver, lagged>>

\* A broadcast receiver that falls behind loses its oldest unread message and
\* is told so (RecvError::Lagged).
Broadcast(m) ==
  IF socket \in {"subscribed", "open"}
    THEN LET unread == Append(receiver, m) IN
         IF Len(unread) > BroadcastCapacity
           THEN receiver' = Tail(unread) /\ lagged' = TRUE
           ELSE receiver' = unread /\ UNCHANGED lagged
    ELSE UNCHANGED <<receiver, lagged>>

\* emit: number, retain and broadcast under the sequence lock.
Emit ==
  /\ sequence < MaxSequence
  /\ LET n == sequence + 1 IN
       /\ sequence' = n
       /\ history' = Retained(Append(history, n))
       /\ droppedThrough' = DroppedAfter(Append(history, n))
       /\ Broadcast(Event(n))
       /\ emitted' = emitted \cup {[epoch |-> epoch, seq |-> n]}
  /\ UNCHANGED <<epoch, restarts, socket, since, cursor, attached, mailbox,
                 wire, clientVars, frames, disconnects, protocol>>

\* emit_terminal: number the frame and enqueue it straight into the mailbox of
\* each attached connection, under the same lock; nothing is retained.
EmitTerminal ==
  /\ sequence < MaxSequence
  /\ frames < MaxFrames
  /\ frames' = frames + 1
  /\ sequence' = sequence + 1
  /\ mailbox' = IF socket = "open" /\ attached
                  THEN Append(mailbox, Frame(sequence + 1)) ELSE mailbox
  /\ UNCHANGED <<epoch, history, droppedThrough, emitted, restarts, socket,
                 since, cursor, receiver, lagged, attached, wire, clientVars,
                 disconnects, protocol>>

\* replay_window: the retained events the client has not seen.  The ring is in
\* ascending order, so they are what follows those up to `since`.
Skipped ==
  CHOOSE i \in 0..Len(history) :
    \A j \in 1..Len(history) : history[j] > since <=> j > i
Replayed == SubSeq(history, Skipped + 1, Len(history))
ReplayFloor == IF history = <<>> THEN sequence + 1 ELSE Head(history)
HistoryEvicted ==
  /\ since > 0
  /\ IF history = <<>> THEN droppedThrough > since ELSE since + 1 < Head(history)

-----------------------------------------------------------------------------
(* The socket task *)

\* handle_socket subscribes before it takes the snapshot or the replay.
Subscribe ==
  /\ status = "disconnected" /\ wire = <<>>
  /\ socket = "none"
  /\ status' = "synchronizing"
  /\ socket' = "subscribed"
  /\ since' = lastSequence
  /\ cursor' = 0
  /\ UNCHANGED <<hubVars, receiver, lagged, attached, mailbox, wire,
                 clientEpoch, lastSequence, covered, overtaken, frames, disconnects, protocol>>

\* Protocol 2: hello and a snapshot whose cursor is the hub's sequence, read
\* before the state it goes with.
SendSnapshot ==
  /\ protocol = 2
  /\ socket = "subscribed"
  /\ socket' = "open"
  /\ cursor' = sequence
  /\ wire' = Append(wire, Snapshot(sequence))
  /\ UNCHANGED <<hubVars, since, receiver, lagged, attached, mailbox,
                 clientVars, frames, disconnects, protocol>>

\* protocol:replay-gap: events below `floor` are gone; numbered n.
Gap(n) == [kind |-> "gap", epoch |-> epoch, seq |-> n, floor |-> ReplayFloor]

\* Protocol 1: a gap notice numbered just below the replay floor when history
\* the client has not seen is gone, then the retained events after `since`.  A
\* client without a cursor is never told: it has no state yet, and loads it
\* after connecting.
GapNotice == IF HistoryEvicted THEN <<Gap(ReplayFloor - 1)>> ELSE <<>>

SendReplay ==
  /\ protocol = 1
  /\ socket = "subscribed"
  /\ socket' = "open"
  /\ wire' = wire \o GapNotice
                  \o [i \in 1..Len(Replayed) |-> Event(Replayed[i])]
  /\ covered' = IF since = 0 THEN covered \cup EmittedThrough(epoch, droppedThrough)
                             ELSE covered
  /\ UNCHANGED <<hubVars, since, cursor, receiver, lagged, attached, mailbox,
                 status, clientEpoch, lastSequence, overtaken, frames, disconnects, protocol>>

\* terminal:attach with a raw mode; terminal:detach.
Attach ==
  /\ MaxFrames > 0
  /\ socket = "open" /\ status = "connected"
  /\ attached' = ~attached
  /\ UNCHANGED <<hubVars, socket, since, cursor, receiver, lagged, mailbox,
                 wire, clientVars, frames, disconnects, protocol>>

Reliable == SelectSeq(mailbox, LAMBDA m : m.kind = "event")

\* An event the snapshot already contains.
AlreadySent(m) == protocol = 2 /\ m.seq <= cursor

\* Fault: the receiver goes on from the oldest message it still has.
ForwardDespiteLag ==
  /\ socket = "open"
  /\ receiver # <<>>
  /\ receiver' = Tail(receiver)
  /\ mailbox' = IF AlreadySent(Head(receiver)) THEN mailbox
                ELSE Append(mailbox, Head(receiver))
  /\ UNCHANGED <<hubVars, socket, since, cursor, lagged, attached, wire,
                 clientVars, frames, disconnects, protocol>>

\* One turn of the select loop on events.recv(): a lagged receiver ends the
\* task with close 1013, so does a full reliable lane.
Forward ==
  /\ socket = "open"
  /\ receiver # <<>>
  /\ LET m == Head(receiver) IN
       IF lagged
         THEN socket' = "closing" /\ UNCHANGED <<receiver, mailbox>>
         ELSE /\ receiver' = Tail(receiver)
              /\ \/ /\ AlreadySent(m)
                    /\ UNCHANGED <<socket, mailbox>>
                 \/ /\ ~AlreadySent(m)
                    /\ Len(Reliable) >= ReliableLimit
                    /\ socket' = "closing"
                    /\ UNCHANGED mailbox
                 \/ /\ ~AlreadySent(m)
                    /\ Len(Reliable) < ReliableLimit
                    /\ mailbox' = Append(mailbox, m)
                    /\ UNCHANGED socket
  /\ UNCHANGED <<hubVars, since, cursor, lagged, attached, wire, clientVars,
                 frames, disconnects, protocol>>

\* The writer drains the mailbox; then a closing connection sends its close
\* frame and the task ends.
TaskEnds ==
  /\ socket' = "none" /\ since' = 0 /\ cursor' = 0
  /\ receiver' = <<>> /\ lagged' = FALSE /\ attached' = FALSE
  /\ mailbox' = <<>>

\* Fault: the writer prefers the reliable lane to the older frame.
WriteReliableFirst ==
  /\ socket = "open"
  /\ \E i \in 1..Len(mailbox) :
       /\ mailbox[i].kind = "event"
            \/ \A j \in 1..Len(mailbox) : mailbox[j].kind # "event"
       /\ wire' = Append(wire, mailbox[i])
       /\ mailbox' = SubSeq(mailbox, 1, i - 1) \o SubSeq(mailbox, i + 1, Len(mailbox))
  /\ UNCHANGED <<socket, since, cursor, receiver, lagged, attached, hubVars,
                 clientVars, frames, disconnects, protocol>>

\* Fault: the writer never gets to the close.
WriteWithoutClose ==
  /\ socket \in {"open", "closing"}
  /\ mailbox # <<>>
  /\ wire' = Append(wire, Head(mailbox))
  /\ mailbox' = Tail(mailbox)
  /\ UNCHANGED <<socket, since, cursor, receiver, lagged, attached, hubVars,
                 clientVars, frames, disconnects, protocol>>

Write ==
  /\ socket \in {"open", "closing"}
  /\ \/ /\ mailbox # <<>>
        /\ wire' = Append(wire, Head(mailbox))
        /\ mailbox' = Tail(mailbox)
        /\ UNCHANGED <<socket, since, cursor, receiver, lagged, attached>>
     \/ /\ mailbox = <<>> /\ socket = "closing"
        /\ wire' = Append(wire, Close)
        /\ TaskEnds
  /\ UNCHANGED <<hubVars, clientVars, frames, disconnects, protocol>>

-----------------------------------------------------------------------------
(* The client *)

\* Snapshot and hello: adopt the epoch, and the cursor as the last sequence.
AcceptSnapshot(m) ==
  /\ m.kind = "snapshot"
  /\ status' = "connected"
  /\ clientEpoch' = m.epoch
  /\ lastSequence' = m.seq
  /\ covered' = covered \cup EmittedThrough(m.epoch, m.seq)
  /\ overtaken' = 0

\* acceptHostEvent: an event at or below the last sequence is dropped.
Accepts(m) == m.seq > lastSequence

AcceptEvent(m) ==
  /\ m.kind \in {"event", "gap"}
  /\ \/ /\ Accepts(m)
        /\ lastSequence' = m.seq
        /\ covered' = covered \cup
             IF m.kind = "event" THEN {[epoch |-> m.epoch, seq |-> m.seq]}
                                 ELSE EmittedThrough(m.epoch, m.floor - 1)
     \/ /\ ~Accepts(m)
        /\ UNCHANGED <<lastSequence, covered>>
  /\ clientEpoch' = m.epoch
  /\ UNCHANGED <<status, overtaken>>

\* handleBinaryMessage passes a frame through the same rule.
AcceptFrame(m) ==
  /\ m.kind = "frame"
  /\ IF Accepts(m) THEN lastSequence' = m.seq /\ overtaken' = m.seq
                    ELSE UNCHANGED <<lastSequence, overtaken>>
  /\ UNCHANGED <<status, clientEpoch, covered>>

AcceptClose(m) ==
  /\ m.kind = "close"
  /\ status' = "disconnected"
  /\ UNCHANGED <<clientEpoch, lastSequence, covered, overtaken>>

Receive ==
  /\ wire # <<>>
  /\ wire' = Tail(wire)
  /\ LET m == Head(wire) IN
       AcceptSnapshot(m) \/ AcceptEvent(m) \/ AcceptFrame(m) \/ AcceptClose(m)
  /\ UNCHANGED <<hubVars, taskVars, frames, disconnects, protocol>>

\* The network drops the connection; both ends notice.
Disconnect ==
  /\ status # "disconnected"
  /\ disconnects < MaxDisconnects
  /\ disconnects' = disconnects + 1
  /\ status' = "disconnected"
  /\ wire' = <<>>
  /\ TaskEnds
  /\ UNCHANGED <<hubVars, clientEpoch, lastSequence, covered, overtaken, frames, protocol>>

\* The host process dies and starts again with a new epoch and an empty hub.
\* What it had already sent may still arrive.  A client of protocol 1 has no
\* notion of an epoch: for it one process runs throughout.
Restart ==
  /\ protocol = 2
  /\ restarts < MaxRestarts
  /\ restarts' = restarts + 1
  /\ epoch' = epoch + 1
  /\ sequence' = 0 /\ history' = <<>> /\ droppedThrough' = 0
  /\ wire' = IF socket = "none" THEN wire ELSE Append(wire, Close)
  /\ TaskEnds
  /\ UNCHANGED <<emitted, clientVars, frames, disconnects, protocol>>

-----------------------------------------------------------------------------
Next ==
  \/ Emit \/ EmitTerminal
  \/ Subscribe \/ SendSnapshot \/ SendReplay \/ Attach \/ Forward \/ Write
  \/ Receive \/ Disconnect \/ Restart

\* Fairness: the runtime polls the socket task and its writer, the network
\* delivers what was sent, and the client's loop reconnects for ever.  Nothing
\* is assumed of events, failures or restarts.
Fairness ==
  /\ WF_vars(Subscribe) /\ WF_vars(SendSnapshot) /\ WF_vars(SendReplay)
  /\ WF_vars(Forward) /\ WF_vars(Write) /\ WF_vars(Receive)

Spec == Init /\ [][Next]_vars
FairSpec == Spec /\ Fairness

-----------------------------------------------------------------------------
(* Properties *)

Messages ==
  [kind : {"event", "frame", "snapshot", "close"}, epoch : Nat, seq : Nat]
    \cup [kind : {"gap"}, epoch : Nat, seq : Nat, floor : Nat]

\* Types of the hub, the task and the client.
TypeOK ==
  /\ epoch \in Nat \ {0} /\ sequence \in Nat /\ droppedThrough \in Nat
  /\ history \in Seq(Nat) /\ Len(history) <= HistoryCapacity
  /\ socket \in {"none", "subscribed", "open", "closing"}
  /\ since \in Nat /\ cursor \in Nat
  /\ receiver \in Seq(Messages) /\ Len(receiver) <= BroadcastCapacity
  /\ lagged \in BOOLEAN /\ attached \in BOOLEAN
  /\ mailbox \in Seq(Messages) /\ wire \in Seq(Messages)
  /\ status \in {"disconnected", "synchronizing", "connected"}
  /\ clientEpoch \in Nat /\ lastSequence \in Nat /\ overtaken \in Nat
  /\ emitted \subseteq [epoch : Nat, seq : Nat] /\ covered \subseteq emitted
  /\ protocol \in Protocols /\ {frames, disconnects, restarts} \subseteq Nat

\* Everything up to n of an epoch, except what a frame may have overtaken.
Owed(e, n) == {m \in EmittedThrough(e, n) : e # clientEpoch \/ m.seq > overtaken}

\* A client whose cursor is at n has seen every metadata event up to n: applied
\* it, received a snapshot that contains it, or was told that it is gone.  The
\* cursor is what acceptHostEvent drops later arrivals by, so an event it moves
\* past is lost without a trace.  Only a terminal frame may move it past one.
NoLostEvent == Owed(clientEpoch, lastSequence) \subseteq covered

\* The acceptance rule is there to reject duplicates (the test "protocol gate
\* rejects duplicates and incompatible messages") on a stream that the hub
\* publishes in sequence order (event_hub.rs:127): what it rejects, the client
\* has already.
RejectsOnlyDuplicates ==
  wire # <<>> /\ Head(wire).kind = "event" /\ ~Accepts(Head(wire))
    => [epoch |-> Head(wire).epoch, seq |-> Head(wire).seq] \in covered

\* Among metadata events alone that is so: nothing but a newer terminal frame
\* makes the client reject an event it never had.
OnlyFramesOvertake == overtaken = 0 => RejectsOnlyDuplicates

\* A terminal frame that reaches the client is never rejected: it is in the
\* mailbox before a later event can be.
NoRejectedFrame ==
  wire # <<>> /\ Head(wire).kind = "frame" => Accepts(Head(wire))

\* The types, and both promises about what the client's cursor passes over.
NothingLost == TypeOK /\ NoLostEvent /\ NoRejectedFrame

\* Once failures and events stop a client is left with a socket task in its
\* forwarding loop and with every event of the current host process that no
\* frame overtook; one of protocol 2 shows itself connected to that process.
Converges ==
  <>[](/\ socket = "open"
       /\ Owed(epoch, sequence) \subseteq covered
       /\ protocol = 2 => status = "connected" /\ clientEpoch = epoch)
=============================================================================
