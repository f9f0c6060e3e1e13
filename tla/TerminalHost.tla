---------------------------- MODULE TerminalHost ----------------------------
(***************************************************************************)
(* The life of terminals in the host (terminal.rs): the map of entries that *)
(* create, dispose and authorize_and_dispose share, the owner thread of     *)
(* each terminal with its urgent command lane and the output of its PTY     *)
(* reader, the child process, and the timer that disposes of an exited      *)
(* terminal after 90 seconds.                                               *)
(*                                                                         *)
(* A caller's request is a command in the owner's lane and a wait for its   *)
(* reply; the entry is removed from the map by the caller, after the reply. *)
(* Leases are TerminalControl's matter: here a close is granted or refused. *)
(***************************************************************************)
EXTENDS Naturals, Sequences, FiniteSets

CONSTANTS
  Callers,          \* concurrent requests of clients
  MaxEntries,       \* MAX_ENTRIES
  LaneCapacity,     \* capacity of the urgent command lane
  OutputCapacity,   \* capacity of the PTY reader's channel
  MaxTerminals,     \* bound: terminals created
  MaxFaults         \* bound: requests that give up after 30 seconds, kills that
                    \* fail, and threads or children that cannot be started

\* Ids are numbered (next_id) and never used twice.
Terminals == 1..MaxTerminals
NoTerminal == 0

ASSUME CallersAssumption == IsFiniteSet(Callers) /\ Callers \cap Nat = {}
ASSUME CapacityAssumption ==
  {MaxEntries, LaneCapacity, OutputCapacity} \subseteq Nat \ {0}
ASSUME BoundsAssumption == {MaxTerminals, MaxFaults} \subseteq Nat

\* Whoever may ask for a disposal; terminal t stands for its own timer task.
Requesters == Callers \cup Terminals

VARIABLES
  entries,       \* the ids in the map
  owner,         \* per terminal: none running waiting (in child.wait) stopped
  child,         \* per terminal: none alive dead
  pty,           \* per terminal: has the reader seen the end of the output?
  output,        \* per terminal: the reader's channel, "data" and "eof"
  outputOpen, exitObserved, status, disposed,   \* the owner's state
  urgent,        \* per terminal: the urgent command lane
  timers,        \* terminals whose cleanup timer runs
  call,          \* per requester: what it is doing
  last,          \* history, per terminal: its last output, exit or disposal
  closed,        \* history: terminals whose archive was asked to close
  failed,        \* history: terminals on which a request timed out or found
                 \* the lane full or a kill failed, or without an owner
  overlapped,    \* history: has a create begun while another was under way?
  faults         \* counter of the bound

processVars == <<child, pty, output>>
ownerVars == <<owner, outputOpen, exitObserved, status, disposed>>
published == <<last, closed>>
vars == <<entries, processVars, ownerVars, urgent, timers, call, published,
          failed, overlapped, faults>>

Idle == [at |-> "idle", terminal |-> NoTerminal, left |-> {}]
At(step, t) == [at |-> step, terminal |-> t, left |-> {}]

Init ==
  /\ entries = {}
  /\ owner = [t \in Terminals |-> "none"]
  /\ child = [t \in Terminals |-> "none"]
  /\ pty = [t \in Terminals |-> "open"]
  /\ output = [t \in Terminals |-> <<>>]
  /\ outputOpen = [t \in Terminals |-> TRUE]
  /\ exitObserved = [t \in Terminals |-> FALSE]
  /\ status = [t \in Terminals |-> "running"]
  /\ disposed = [t \in Terminals |-> FALSE]
  /\ urgent = [t \in Terminals |-> <<>>]
  /\ timers = {}
  /\ call = [c \in Requesters |-> Idle]
  /\ last = [t \in Terminals |-> "output"]
  /\ closed = {}
  /\ failed = {}
  /\ overlapped = FALSE /\ faults = 0

-----------------------------------------------------------------------------
(* Requests *)

Unused == {t \in Terminals : owner[t] = "none"}

Alive(t) == owner[t] \in {"running", "waiting"}

\* Fault: one entry too many.
AtCapacityLate == Cardinality(entries) > MaxEntries

AtCapacity == Cardinality(entries) >= MaxEntries

\* An error ends the request, but not the create that wanted room.
GivenUp(step) == IF step = "evicting" THEN At("admitted", NoTerminal) ELSE Idle

\* request: a command for the owner, or an error when the lane is full or the
\* owner has stopped.  The entry is looked up first.
Request(c, t, kind, next) ==
  LET sent == Alive(t) /\ Len(urgent[t]) < LaneCapacity IN
  /\ t \in entries
  /\ \/ /\ sent
        /\ urgent' = [urgent EXCEPT ![t] =
             Append(@, [kind |-> kind, caller |-> c, waited |-> TRUE])]
        /\ call' = [call EXCEPT ![c] = At(next, t)]
        /\ UNCHANGED failed
     \/ /\ ~sent
        /\ call' = [call EXCEPT ![c] = GivenUp(next)]
        /\ failed' = IF Alive(t) THEN failed \cup {t} ELSE failed
        /\ UNCHANGED urgent
  /\ UNCHANGED <<entries, processVars, ownerVars, published, faults>>

Creating(c) ==
  call[c].at \in {"full", "inspecting", "evict", "evicting", "evicted", "admitted"}

\* create: the capacity check, under one lock of the map ...
Create(c) ==
  /\ call[c] = Idle
  /\ Unused # {}
  /\ call' = [call EXCEPT ![c] =
       At(IF AtCapacity THEN "full" ELSE "admitted", NoTerminal)]
  /\ overlapped' = (overlapped \/ \E other \in Callers : Creating(other))
  /\ UNCHANGED <<entries, processVars, ownerVars, urgent, timers, published,
                 failed, faults>>

\* ... at capacity the ids, under a second one, ...
ListIds(c) ==
  /\ call[c].at = "full"
  /\ call' = [call EXCEPT ![c] =
       [at |-> "inspecting", terminal |-> NoTerminal, left |-> entries]]
  /\ UNCHANGED <<entries, processVars, ownerVars, urgent, timers, overlapped, published,
                 failed, faults>>

\* ... a search of them for an exited terminal, one inspect after the other; an
\* owner that has stopped or is in child.wait gives no answer ...
Inspect(c) ==
  /\ call[c].at = "inspecting"
  /\ \/ \E t \in call[c].left :
          call' = [call EXCEPT ![c] =
            IF owner[t] = "running" /\ status[t] = "exited"
              THEN At("evict", t) ELSE [call[c] EXCEPT !.left = @ \ {t}]]
     \/ /\ call[c].left = {}
        /\ call' = [call EXCEPT ![c] = Idle]
  /\ UNCHANGED <<entries, processVars, ownerVars, urgent, timers, overlapped, published,
                 failed, faults>>

\* ... its disposal, whatever comes of it ...
Evict(c) ==
  LET t == call[c].terminal IN
  /\ call[c].at = "evict"
  /\ UNCHANGED <<timers, overlapped>>
  /\ IF t \in entries
       THEN Request(c, t, "dispose", "evicting")
       ELSE /\ call' = [call EXCEPT ![c] = At("admitted", NoTerminal)]
            /\ UNCHANGED <<entries, processVars, ownerVars, urgent, published,
                           failed, faults>>

\* ... and, much later, the insertion under another lock, before the two
\* threads are started.  A child whose terminal gives no reader or writer is left
\* without an entry; an entry whose owner's thread cannot be started stays.
Insert(c) ==
  /\ call[c].at = "admitted"
  /\ call' = [call EXCEPT ![c] = Idle]
  /\ \E t \in Unused :
       /\ \A u \in Unused : t <= u
       /\ child' = [child EXCEPT ![t] = "alive"]
       /\ \/ /\ entries' = entries \cup {t}
             /\ owner' = [owner EXCEPT ![t] = "running"]
             /\ UNCHANGED <<pty, failed, faults>>
          \/ /\ faults < MaxFaults
             /\ faults' = faults + 1
             /\ entries' \in {entries, entries \cup {t}}
             /\ owner' = [owner EXCEPT ![t] = "stopped"]
             /\ pty' = [pty EXCEPT ![t] = "closed"]
             /\ failed' = failed \cup {t}
  /\ UNCHANGED <<output, outputOpen, exitObserved, status, disposed,
                 urgent, timers, overlapped, published>>

\* openpty or the child's own start fails before the insertion.
SpawnFails(c) ==
  /\ call[c].at = "admitted"
  /\ faults < MaxFaults
  /\ faults' = faults + 1
  /\ call' = [call EXCEPT ![c] = Idle]
  /\ UNCHANGED <<entries, processVars, ownerVars, urgent, timers, overlapped, published,
                 failed>>

\* dispose, by the runtime or at shutdown; authorize_and_dispose, for a client.
Dispose(c, t) ==
  call[c] = Idle /\ Request(c, t, "dispose", "disposing") /\ UNCHANGED <<timers, overlapped>>
Close(c, t) ==
  call[c] = Idle /\ Request(c, t, "close", "closing") /\ UNCHANGED <<timers, overlapped>>

\* The timer of an exited terminal: an inspect that answers, then a dispose.
\* Ids are never used twice, so the epoch it compares is that of the entry.
Expire(t) ==
  /\ t \in timers
  /\ timers' = timers \ {t}
  /\ UNCHANGED overlapped
  /\ IF t \in entries /\ owner[t] = "running"
       THEN Request(t, t, "dispose", "disposing")
       ELSE UNCHANGED <<entries, processVars, ownerVars, urgent, call,
                        published, failed, faults>>

Waiting(c) == call[c].at \in {"evicting", "disposing", "closing"}

\* The commands of a lane, none of which the caller waits for any more.
Deserted(lane, c) ==
  [i \in DOMAIN lane |-> [lane[i] EXCEPT !.waited = @ /\ lane[i].caller # c]]

\* No reply within 30 seconds: the caller gives up, its command stays queued.
TimeOut(c) ==
  LET t == call[c].terminal IN
  /\ Waiting(c)
  /\ faults < MaxFaults
  /\ faults' = faults + 1
  /\ urgent' = [urgent EXCEPT ![t] = Deserted(@, c)]
  /\ call' = [call EXCEPT ![c] = GivenUp(@.at)]
  /\ failed' = failed \cup {t}
  /\ UNCHANGED <<entries, processVars, ownerVars, timers, overlapped, published>>

\* Fault: an eviction leaves the entry in the map.
RemoveUnlessEvicted(c) ==
  LET t == call[c].terminal IN
  /\ call[c].at \in {"evicted", "done", "closed"}
  /\ entries' = IF call[c].at = "evicted" THEN entries ELSE entries \ {t}
  /\ closed' = IF call[c].at = "closed" THEN closed ELSE closed \cup {t}
  /\ call' = [call EXCEPT ![c] = IF @.at = "evicted" THEN At("admitted", NoTerminal) ELSE Idle]
  /\ UNCHANGED <<processVars, ownerVars, urgent, timers, overlapped, last, failed, faults>>

\* After a reply without error: the entry goes, and dispose asks for a second
\* time that the archive be closed.
Remove(c) ==
  LET t == call[c].terminal IN
  /\ call[c].at \in {"evicted", "done", "closed"}
  /\ entries' = entries \ {t}
  /\ closed' = IF call[c].at = "closed" THEN closed ELSE closed \cup {t}
  /\ call' = [call EXCEPT ![c] = IF @.at = "evicted" THEN At("admitted", NoTerminal) ELSE Idle]
  /\ UNCHANGED <<processVars, ownerVars, urgent, timers, overlapped, last, failed,
                 faults>>

-----------------------------------------------------------------------------
(* The child and the PTY reader *)

\* The child ends by itself; what it started may keep the terminal open.
ChildExits(t) ==
  /\ child[t] = "alive"
  /\ child' = [child EXCEPT ![t] = "dead"]
  /\ UNCHANGED <<entries, pty, output, ownerVars, urgent, timers, overlapped, call,
                 published, failed, faults>>

\* Fault: an unbounded channel.
ReadUnbounded(t) ==
  /\ owner[t] # "none" /\ pty[t] = "open"
  /\ output' = [output EXCEPT ![t] = Append(@, "data")]
  /\ UNCHANGED <<entries, child, pty, ownerVars, urgent, timers, overlapped, call,
                 published, failed, faults>>

\* pty_reader_loop: bytes, then the end of the file or an error, once nobody
\* has the terminal open.  A child may close it and live on.
Read(t) ==
  /\ owner[t] # "none" /\ pty[t] = "open"
  /\ Len(output[t]) < OutputCapacity
  /\ \/ /\ output' = [output EXCEPT ![t] = Append(@, "data")]
        /\ UNCHANGED pty
     \/ /\ output' = [output EXCEPT ![t] = Append(@, "eof")]
        /\ pty' = [pty EXCEPT ![t] = "closed"]
  /\ UNCHANGED <<entries, child, ownerVars, urgent, timers, overlapped, call, published,
                 failed, faults>>

-----------------------------------------------------------------------------
(* The owner's thread *)

\* process_terminal_output: record the chunk and publish it, unless disposed.
Process(t) ==
  /\ owner[t] = "running" /\ outputOpen[t]
  /\ output[t] # <<>>
  /\ output' = [output EXCEPT ![t] = Tail(@)]
  /\ IF Head(output[t]) = "eof"
       THEN outputOpen' = [outputOpen EXCEPT ![t] = FALSE] /\ UNCHANGED last
       ELSE /\ last' = IF disposed[t] THEN last ELSE [last EXCEPT ![t] = "output"]
            /\ UNCHANGED outputOpen
  /\ UNCHANGED <<entries, child, pty, owner, exitObserved, status, disposed,
                 urgent, timers, overlapped, call, closed, failed, faults>>

\* Fault: the exit is observed when the child has died, ahead of its output.
ObserveEarly(t) ==
  /\ owner[t] = "running" /\ ~exitObserved[t]
  /\ ~outputOpen[t] \/ child[t] = "dead"
  /\ exitObserved' = [exitObserved EXCEPT ![t] = TRUE]
  /\ owner' = [owner EXCEPT ![t] = IF disposed[t] THEN "running" ELSE "waiting"]
  /\ UNCHANGED <<entries, processVars, outputOpen, status, disposed, urgent,
                 timers, overlapped, call, published, failed, faults>>

\* observe_terminal_exit, after the end of the output: the owner waits for the
\* child and serves nobody meanwhile ...
Observe(t) ==
  /\ owner[t] = "running" /\ ~outputOpen[t] /\ ~exitObserved[t]
  /\ exitObserved' = [exitObserved EXCEPT ![t] = TRUE]
  /\ owner' = [owner EXCEPT ![t] = IF disposed[t] THEN "running" ELSE "waiting"]
  /\ UNCHANGED <<entries, processVars, outputOpen, status, disposed, urgent,
                 timers, overlapped, call, published, failed, faults>>

\* Fault: the cleanup of an exited terminal is not scheduled.
ExitWithoutTimer(t) ==
  /\ owner[t] = "waiting" /\ child[t] = "dead"
  /\ owner' = [owner EXCEPT ![t] = "running"]
  /\ status' = [status EXCEPT ![t] = "exited"]
  /\ last' = [last EXCEPT ![t] = "exit"]
  /\ closed' = closed \cup {t}
  /\ UNCHANGED <<entries, processVars, outputOpen, exitObserved, disposed,
                 urgent, timers, overlapped, call, failed, faults>>

\* ... then publishes the exit, closes the archive and starts the timer.
Exit(t) ==
  /\ owner[t] = "waiting" /\ child[t] = "dead"
  /\ owner' = [owner EXCEPT ![t] = "running"]
  /\ status' = [status EXCEPT ![t] = "exited"]
  /\ last' = [last EXCEPT ![t] = "exit"]
  /\ closed' = closed \cup {t}
  /\ timers' = timers \cup {t}
  /\ UNCHANGED overlapped
  /\ UNCHANGED <<entries, processVars, outputOpen, exitObserved, disposed,
                 urgent, call, failed, faults>>

\* Does the child die of the kill?  One that is dead need not be killed.
Kill(t, killed) ==
  \/ /\ child[t] = "dead" /\ killed
     /\ UNCHANGED <<child, faults>>
  \/ /\ child[t] = "alive" /\ killed
     /\ child' = [child EXCEPT ![t] = "dead"]
     /\ UNCHANGED faults
  \/ /\ child[t] = "alive" /\ ~killed
     /\ faults < MaxFaults
     /\ faults' = faults + 1
     /\ UNCHANGED child

Answered == [evicting |-> "evicted", disposing |-> "done", closing |-> "closed"]

\* The reply wakes its caller if that still waits ...
Replied(m, granted) ==
  IF ~m.waited THEN call
  ELSE [call EXCEPT ![m.caller] = IF granted THEN At(Answered[@.at], @.terminal)
                                  ELSE GivenUp(@.at)]

\* ... and an owner that stops drops its lane, an error for all who wait in it,
\* the reader's channel, which ends the reader, and its own state.
Stopped(t, m, granted) ==
  LET dropped == {i \in DOMAIN Tail(urgent[t]) : Tail(urgent[t])[i].waited}
      callers == {Tail(urgent[t])[i].caller : i \in dropped}
  IN /\ owner' = [owner EXCEPT ![t] = "stopped"]
     /\ urgent' = [urgent EXCEPT ![t] = <<>>]
     /\ output' = [output EXCEPT ![t] = <<>>]
     /\ pty' = [pty EXCEPT ![t] = "closed"]
     /\ outputOpen' = [outputOpen EXCEPT ![t] = FALSE]
     /\ exitObserved' = [exitObserved EXCEPT ![t] = TRUE]
     /\ status' = [status EXCEPT ![t] = "exited"]
     /\ call' = [c \in Requesters |-> IF c \in callers THEN GivenUp(call[c].at)
                                      ELSE Replied(m, granted)[c]]

\* Fault: a child whose output has ended is taken for dead.
DisposeUnkilled(t, m) ==
  /\ m.kind = "dispose"
  /\ disposed' = [disposed EXCEPT ![t] = TRUE]
  /\ last' = [last EXCEPT ![t] = "disposal"]
  /\ closed' = closed \cup {t}
  /\ IF outputOpen[t] THEN Kill(t, TRUE) ELSE UNCHANGED <<child, faults>>
  /\ Stopped(t, m, TRUE) /\ UNCHANGED failed

\* Dispose: the owner stops even if the kill has failed.
HandleDispose(t, m) ==
  /\ m.kind = "dispose"
  /\ disposed' = [disposed EXCEPT ![t] = TRUE]
  /\ last' = [last EXCEPT ![t] = "disposal"]
  /\ closed' = closed \cup {t}
  /\ \E killed \in BOOLEAN :
       /\ Kill(t, killed)
       /\ Stopped(t, m, killed)
       /\ failed' = IF killed THEN failed ELSE failed \cup {t}

\* Fault: the archive is left to the caller, which asks for it in dispose only.
CloseWithoutArchive(t, m) ==
  /\ m.kind = "close"
  /\ ~disposed[t]
  /\ disposed' = [disposed EXCEPT ![t] = TRUE]
  /\ last' = [last EXCEPT ![t] = "disposal"]
  /\ Kill(t, TRUE)
  /\ Stopped(t, m, TRUE)
  /\ UNCHANGED <<closed, failed>>

\* AuthorizeAndDispose: refused without a lease, and always once the terminal
\* is unregistered; a failed kill leaves the owner running, disposed.
HandleClose(t, m) ==
  /\ m.kind = "close"
  /\ \/ /\ urgent' = [urgent EXCEPT ![t] = Tail(@)]
        /\ call' = Replied(m, FALSE)
        /\ UNCHANGED <<child, pty, output, owner, outputOpen, exitObserved,
                       status, disposed, last, closed, failed, faults>>
     \/ /\ ~disposed[t]
        /\ disposed' = [disposed EXCEPT ![t] = TRUE]
        /\ last' = [last EXCEPT ![t] = "disposal"]
        /\ \/ /\ Kill(t, TRUE)
              /\ closed' = closed \cup {t}
              /\ Stopped(t, m, TRUE)
              /\ UNCHANGED failed
           \/ /\ Kill(t, FALSE)
              /\ urgent' = [urgent EXCEPT ![t] = Tail(@)]
              /\ call' = Replied(m, FALSE)
              /\ failed' = failed \cup {t}
              /\ UNCHANGED <<pty, output, owner, outputOpen, exitObserved,
                             status, closed>>

Serve(t) ==
  /\ owner[t] = "running"
  /\ urgent[t] # <<>>
  /\ HandleDispose(t, Head(urgent[t])) \/ HandleClose(t, Head(urgent[t]))
  /\ UNCHANGED <<entries, timers, overlapped>>

-----------------------------------------------------------------------------
Next ==
  \/ \E c \in Callers :
       \/ Create(c) \/ ListIds(c) \/ Inspect(c) \/ Evict(c) \/ Insert(c) \/ SpawnFails(c)
       \/ \E t \in Terminals : Dispose(c, t) \/ Close(c, t)
  \/ \E c \in Requesters : TimeOut(c) \/ Remove(c)
  \/ \E t \in Terminals :
       \/ Expire(t) \/ ChildExits(t) \/ Read(t)
       \/ Process(t) \/ Observe(t) \/ Exit(t) \/ Serve(t)

\* Fairness: the owner's thread runs, timers expire, and a caller whose reply
\* has come goes on.  Nothing is assumed of children or clients.
Fairness ==
  /\ \A t \in Terminals :
       /\ WF_vars(Process(t)) /\ WF_vars(Observe(t)) /\ WF_vars(Exit(t))
       /\ WF_vars(Serve(t)) /\ WF_vars(Expire(t))
  /\ \A c \in Requesters : WF_vars(Remove(c))

Spec == Init /\ [][Next]_vars
FairSpec == Spec /\ Fairness

-----------------------------------------------------------------------------
(* Properties *)

Commands == [kind : {"dispose", "close"}, caller : Requesters, waited : BOOLEAN]
Calls ==
  [at : {"idle", "full", "inspecting", "evict", "evicting", "evicted", "admitted",
         "disposing", "done", "closing", "closed"},
   terminal : Terminals \cup {NoTerminal}, left : SUBSET Terminals]

\* Types, and the bound on a command lane.
TypeOK ==
  /\ entries \subseteq Terminals /\ timers \subseteq Terminals /\ failed \subseteq Terminals
  /\ closed \subseteq Terminals
  /\ owner \in [Terminals -> {"none", "running", "waiting", "stopped"}]
  /\ child \in [Terminals -> {"none", "alive", "dead"}]
  /\ pty \in [Terminals -> {"open", "closed"}]
  /\ output \in [Terminals -> Seq({"data", "eof"})]
  /\ status \in [Terminals -> {"running", "exited"}]
  /\ {outputOpen, exitObserved, disposed} \subseteq [Terminals -> BOOLEAN]
  /\ urgent \in [Terminals -> Seq(Commands)]
  /\ \A t \in Terminals : Len(urgent[t]) <= LaneCapacity /\ Len(output[t]) <= OutputCapacity
  /\ call \in [Requesters -> Calls]
  /\ last \in [Terminals -> {"output", "exit", "disposal"}]
  /\ overlapped \in BOOLEAN /\ faults \in Nat

\* "too many terminals (max 64)": the check and the insertion of create are two
\* critical sections and a failed eviction does not stop it, so the limit may be
\* overshot: by creates that overlap, and by one after the other once a call on a
\* terminal has failed, for each of them evicts that one again; not otherwise.
\* An entry whose owner has stopped is about to be removed and does not count.
EntriesBounded ==
  Cardinality({t \in entries : owner[t] # "stopped"}) > MaxEntries
    => overlapped \/ failed # {}

Removing(t) ==
  \E c \in Requesters : call[c].terminal = t /\ call[c].at \in {"evicted", "done", "closed"}

\* Every child that lives can be reached and disposed of: its entry is in the
\* map and its owner has not stopped, unless an earlier call on it failed.
ChildrenReachable ==
  \A t \in Terminals :
    child[t] = "alive" /\ t \notin failed => t \in entries /\ owner[t] # "stopped"

\* No dead entry stays in the map, where it would count against the limit and
\* could never be disposed of, unless an earlier call on it failed.
NoOrphan ==
  \A t \in entries : owner[t] = "stopped" /\ t \notin failed => Removing(t)

\* An owner that has ended, and an exit that was published, leave the archive
\* with a close.
ArchiveClosed ==
  \A t \in Terminals :
    (owner[t] = "stopped" /\ disposed[t]) \/ last[t] = "exit" => t \in closed

\* The types, the limit, the map's entries against the children, and the archives.
HostInv == TypeOK /\ EntriesBounded /\ ChildrenReachable /\ NoOrphan /\ ArchiveClosed

\* The exit is the last word on a terminal ("exit ordering"): nothing but its
\* disposal follows an exit, and nothing at all a disposal.
ExitIsLast ==
  [][\A t \in Terminals : last'[t] # last[t] => last[t] = "output" \/ last'[t] = "disposal"]_vars

\* An exited terminal is disposed of in the end, without anybody's help.
Reaped == \A t \in Terminals : last[t] = "exit" => t \notin entries \/ t \in failed
=============================================================================
