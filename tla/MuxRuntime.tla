----------------------------- MODULE MuxRuntime -----------------------------
(***************************************************************************)
(* Mux terminals between two stores of truth: the catalogue (store.rs), a   *)
(* document with a revision per terminal that is in the database before the *)
(* copy in memory changes, and the processes of the host (terminal.rs).     *)
(* The mux commands of runtime.rs change one after the other; the lifecycle *)
(* listener records exits; a new host process cleans up after the old one.  *)
(*                                                                         *)
(* Every terminal is in one session and one tab.  The statuses succeeded    *)
(* and failed are both "ended".  pty_id and process_identity are one thing, *)
(* the process; it can always be identified.  A shutdown is a crash that no *)
(* process survives.                                                       *)
(***************************************************************************)
EXTENDS Naturals, Sequences, FiniteSets

CONSTANTS
  Callers,        \* clients; each waits for the answer to its command
  MaxTerminals,   \* bound: mux terminals created
  MaxProcesses,   \* bound: processes started
  MaxRenames,     \* bound: renames, moves and reorders of a terminal
  MaxCommands,    \* bound: commands
  MaxFaults,      \* bound: storage errors, failed disposals and starts, lag
  MaxCrashes      \* bound: ends of the host process

Terminals == 1..MaxTerminals
Processes == 1..MaxProcesses
NoProcess == 0

ASSUME CallersAssumption == IsFiniteSet(Callers)
ASSUME BoundsAssumption ==
  {MaxTerminals, MaxProcesses, MaxRenames, MaxCommands, MaxFaults, MaxCrashes} \subseteq Nat

VARIABLES
  catalogue,   \* per terminal: its record in the store
  process,     \* per process: unused running exited gone, stuck or dead (alive
               \* or not, its entry stays without an owner) or stale (it
               \* survived its host)
  call,        \* per caller: what its command has still to do
  events,      \* exits the lifecycle listener has not received yet
  listener,    \* waiting, ended, or found: it holds a record it read
  up,          \* does a host process serve commands?
  stray,       \* history: processes whose record moved on before they could be
               \* recorded, or that were recorded behind a close
  missed,      \* history: processes whose end a refused update did not record
  renames, commands, faults, crashes   \* counters of the bounds

histories == <<stray, missed>>
listening == <<events, listener>>
vars == <<catalogue, process, call, listening, up, histories, renames, commands,
          faults, crashes>>

NoRecord == [status |-> "none", process |-> NoProcess, revision |-> 0, archived |-> FALSE]
Target(t, revision, p) == [terminal |-> t, revision |-> revision, process |-> p]
NoTarget == Target(0, 0, NoProcess)
Idle == [at |-> "idle", op |-> "none", target |-> NoTarget, left |-> {}, seen |-> {}]
Waiting == [at |-> "waiting", target |-> NoTarget]
Ended == [at |-> "ended", target |-> NoTarget]

Init ==
  /\ catalogue = [t \in Terminals |-> NoRecord]
  /\ process = [p \in Processes |-> "unused"]
  /\ call = [c \in Callers |-> Idle]
  /\ events = <<>> /\ listener = Waiting
  /\ up = TRUE
  /\ stray = {} /\ missed = {}
  /\ renames = 0 /\ commands = 0 /\ faults = 0 /\ crashes = 0

Live(r) == r.status \in {"created", "starting", "running"}
Alive(p) == p # NoProcess /\ process[p] \in {"running", "stuck"}
Recorded == {t \in Terminals : catalogue[t].status # "none"}
Visible == {t \in Recorded : ~catalogue[t].archived}
Naming(p) == {t \in Recorded : catalogue[t].process = p}
TargetOf(t) == Target(t, catalogue[t].revision, catalogue[t].process)

-----------------------------------------------------------------------------
(* The store *)

\* update_terminal: refused when the revision has moved on or the database
\* fails, which leaves the copy in memory as it was.
Current(x) == catalogue[x.terminal].revision = x.revision

Fault == faults < MaxFaults /\ faults' = faults + 1

Refused(x) == Fault \/ (~Current(x) /\ UNCHANGED faults)

Updated(t, status, p) ==
  [catalogue EXCEPT ![t].status = status, ![t].process = p, ![t].revision = @ + 1]

\* rename_terminal, move_terminal, reorder_terminals: whatever else a client
\* does to a terminal raises its revision, unfenced.
Rename(t) ==
  /\ up /\ t \in Recorded /\ renames < MaxRenames
  /\ renames' = renames + 1
  /\ catalogue' = [catalogue EXCEPT ![t].revision = @ + 1]
  /\ UNCHANGED <<process, call, listening, up, histories, commands, faults, crashes>>

-----------------------------------------------------------------------------
(* Commands: what they read, and how they go on *)

Begin(c, next) ==
  /\ up /\ call[c] = Idle /\ commands < MaxCommands
  /\ commands' = commands + 1
  /\ call' = [call EXCEPT ![c] = next]
  /\ UNCHANGED <<process, listening, up, histories, renames, faults, crashes>>

\* A command on one terminal: if it has a process, that is disposed of first.
OnOne(op, x, disposed, then) ==
  [at |-> IF disposed THEN "dispose" ELSE then, op |-> op, target |-> x,
   left |-> {}, seen |-> {x.process} \ {NoProcess}]

\* create_mux_terminal; later commands may meet the new record at once.
CreateTerminal(c) ==
  \E t \in Terminals \ Recorded :
    /\ \A u \in Terminals \ Recorded : t <= u
    /\ catalogue' = Updated(t, "created", NoProcess)
    /\ Begin(c, OnOne("create", Target(t, 1, NoProcess), FALSE, "start"))

\* restart_mux_terminal, cancel_mux_terminal: the client's expected revision is
\* compared before anything is disposed of.
Restart(c, t) ==
  /\ t \in Recorded
  /\ Begin(c, OnOne("restart", TargetOf(t), catalogue[t].process # NoProcess, "start"))
  /\ UNCHANGED catalogue

Stop(c, t) ==
  /\ t \in Recorded
  /\ Begin(c, OnOne("stop", TargetOf(t), catalogue[t].process # NoProcess, "cancel"))
  /\ UNCHANGED catalogue

\* close_mux_terminal: unfenced, and disposes of a live terminal's process only.
Close(c, t) ==
  /\ t \in Recorded
  /\ Begin(c, OnOne("close", TargetOf(t),
                    Live(catalogue[t]) /\ catalogue[t].process # NoProcess, "close"))
  /\ UNCHANGED catalogue

\* mux:archiveTab and mux:archiveSession work through a list they read first.
OnMany(op, ts) ==
  LET live == {TargetOf(t) : t \in {u \in ts : Live(catalogue[u])}} IN
  [at |-> "next", op |-> op, target |-> NoTarget, left |-> live,
   seen |-> {x.process : x \in live} \ {NoProcess}]

ArchiveTab(c) ==
  /\ Visible # {}
  /\ \/ Begin(c, OnMany("tab", Visible))
     \/ Begin(c, OnMany("keepTab", {}))
  /\ UNCHANGED catalogue

ArchiveSession(c) ==
  /\ Begin(c, OnMany("session", Visible))
  /\ UNCHANGED catalogue

NextTarget(c) ==
  /\ call[c].at = "next"
  /\ \/ \E x \in call[c].left :
          call' = [call EXCEPT ![c].target = x, ![c].left = @ \ {x},
                               ![c].at = IF x.process # NoProcess THEN "dispose"
                                         ELSE IF call[c].op = "session" THEN "cancel" ELSE "next"]
     \/ /\ call[c].left = {}
        /\ call' = [call EXCEPT ![c] =
             IF @.op = "session" THEN Idle ELSE [@ EXCEPT !.at = "close"]]
  /\ UNCHANGED <<catalogue, process, listening, up, histories, renames, commands,
                 faults, crashes>>

\* An error ends a command, except that archiveSession ignores it.  What was
\* disposed of on the way stays in the catalogue as it was.
Fail(c, processes) ==
  /\ call' = [call EXCEPT ![c] =
       IF @.op = "session" THEN [@ EXCEPT !.at = "next"] ELSE Idle]
  /\ missed' = missed \cup {p \in call[c].seen : processes[p] \in {"gone", "stuck", "dead"}}

AfterDispose(op) ==
  CASE op = "restart" -> "start" [] op = "close" -> "close" [] op = "tab" -> "next"
    [] op \in {"stop", "session"} -> "cancel"

\* dispose_mux_pty: a process that is not in the host's map counts as disposed
\* of; a disposal may fail and leave an owner that has stopped in the map.
Dispose(c) ==
  LET p == call[c].target.process IN
  /\ call[c].at = "dispose"
  /\ \/ /\ process[p] \notin {"stuck", "dead"}
        /\ process' = [process EXCEPT ![p] =
                         IF @ \in {"running", "exited"} THEN "gone" ELSE @]
        /\ call' = [call EXCEPT ![c].at = AfterDispose(call[c].op)]
        /\ UNCHANGED <<missed, faults>>
     \/ /\ process[p] \in {"stuck", "dead"}
        /\ Fail(c, process)
        /\ UNCHANGED <<process, faults>>
     \/ /\ process[p] \in {"running", "exited"}
        /\ Fault
        /\ \E outcome \in {process[p], "dead", IF Alive(p) THEN "stuck" ELSE "dead"} :
             /\ process' = [process EXCEPT ![p] = outcome]
             /\ Fail(c, [process EXCEPT ![p] = outcome])
  /\ UNCHANGED <<catalogue, listening, up, stray, renames, commands, crashes>>

\* Fault: the update to starting is not fenced by the revision that was read.
StartUnfenced(c) ==
  LET t == call[c].target.terminal IN
  /\ call[c].at = "start"
  /\ catalogue' = Updated(t, "starting", catalogue[t].process)
  /\ call' = [call EXCEPT ![c].at = "spawn",
                          ![c].target.revision = catalogue[t].revision + 1]
  /\ UNCHANGED <<process, listening, up, histories, renames, commands, faults, crashes>>

\* The rest of create and restart: the record says starting ...
Start(c) ==
  LET x == call[c].target IN
  /\ call[c].at = "start"
  /\ \/ /\ Current(x)
        /\ catalogue' = Updated(x.terminal, "starting", x.process)
        /\ call' = [call EXCEPT ![c].at = "spawn",
                                ![c].target = Target(x.terminal, x.revision + 1, x.process)]
        /\ UNCHANGED <<missed, faults>>
     \/ /\ Refused(x) /\ Fail(c, process)
        /\ UNCHANGED catalogue
  /\ UNCHANGED <<process, listening, up, stray, renames, commands, crashes>>

\* ... the host starts a process, or cannot ...
Spawn(c) ==
  LET x == call[c].target IN
  /\ call[c].at = "spawn"
  /\ \/ \E p \in Processes :
          /\ process[p] = "unused" /\ \A q \in Processes : process[q] = "unused" => p <= q
          /\ process' = [process EXCEPT ![p] = "running"]
          /\ call' = [call EXCEPT ![c].at = "record",
                                  ![c].target = Target(x.terminal, x.revision, p)]
          /\ UNCHANGED faults
     \/ /\ Fault
        /\ call' = [call EXCEPT ![c].at = "fail"]
        /\ UNCHANGED process
  /\ UNCHANGED <<catalogue, listening, up, histories, renames, commands, crashes>>

\* ... and the record names the process or says failed.  When this is refused
\* the process runs on, for nobody.
Record(c) ==
  LET x == call[c].target IN
  /\ call[c].at \in {"record", "fail"}
  /\ \/ /\ Current(x)
        /\ catalogue' = Updated(x.terminal,
             IF call[c].at = "record" THEN "running" ELSE "ended", x.process)
        /\ call' = [call EXCEPT ![c] = Idle]
        /\ UNCHANGED <<histories, faults>>
     \/ /\ Refused(x) /\ Fail(c, process)
        /\ stray' = IF call[c].at = "record" THEN stray \cup {x.process} ELSE stray
        /\ UNCHANGED catalogue
  /\ UNCHANGED <<process, listening, up, renames, commands, crashes>>

\* The rest of cancel_mux_terminal.
Cancel(c) ==
  LET x == call[c].target IN
  /\ call[c].at = "cancel"
  /\ \/ /\ Current(x)
        /\ catalogue' = Updated(x.terminal, "cancelled", x.process)
        /\ call' = [call EXCEPT ![c] = IF @.op = "session" THEN [@ EXCEPT !.at = "next"]
                                                          ELSE Idle]
        /\ UNCHANGED <<missed, faults>>
     \/ /\ Refused(x) /\ Fail(c, process)
        /\ UNCHANGED catalogue
  /\ UNCHANGED <<process, listening, up, stray, renames, commands, crashes>>

Closed(r, stop) ==
  [r EXCEPT !.status = IF stop /\ Live(r) THEN "cancelled" ELSE @,
            !.archived = TRUE, !.revision = @ + 1]

\* close_terminal and close_tab: unfenced, all in one update, whatever became of
\* the terminals since the command looked; an archived one is left as it is, also
\* when its process was just disposed of.
CloseRecords(c) ==
  LET stop == call[c].op # "keepTab"
      ts == IF call[c].op = "close" THEN {call[c].target.terminal} \cap Visible ELSE Visible
      behind == {catalogue[t].process : t \in {u \in ts : Live(catalogue[u])}} \ call[c].seen
  IN
  /\ call[c].at = "close"
  /\ \/ /\ catalogue' = [t \in Terminals |->
             IF t \in ts THEN Closed(catalogue[t], stop) ELSE catalogue[t]]
        /\ stray' = IF stop THEN stray \cup {p \in behind : Alive(p)} ELSE stray
        /\ missed' = missed \cup {p \in call[c].seen :
             ~Alive(p) /\ Naming(p) \cap ts = {}}
        /\ call' = [call EXCEPT ![c] = Idle]
        /\ UNCHANGED faults
     \/ /\ Fault /\ Fail(c, process)
        /\ UNCHANGED <<catalogue, stray>>
  /\ UNCHANGED <<process, listening, up, renames, commands, crashes>>

-----------------------------------------------------------------------------
(* The host's processes and the lifecycle listener *)

\* A process ends by itself; its owner emits terminal:exit.
Exit(p) ==
  /\ process[p] = "running"
  /\ process' = [process EXCEPT ![p] = "exited"]
  /\ events' = IF listener = Ended THEN events ELSE Append(events, p)
  /\ UNCHANGED <<catalogue, call, listener, up, histories, renames, commands, faults,
                 crashes>>

\* The cleanup timer of an exited process, or an eviction.
CleanUp(p) ==
  /\ process[p] = "exited"
  /\ process' = [process EXCEPT ![p] = "gone"]
  /\ UNCHANGED <<catalogue, call, listening, up, histories, renames, commands, faults,
                 crashes>>

\* Fault: only terminals that are still shown are told.
ReceiveVisible ==
  LET p == Head(events)
      shown == Naming(p) \cap Visible IN
  /\ listener = Waiting /\ events # <<>>
  /\ events' = Tail(events)
  /\ \/ \E t \in shown : listener' = [at |-> "found", target |-> TargetOf(t)]
     \/ shown = {} /\ UNCHANGED listener
  /\ missed' = IF Naming(p) = {} THEN missed \cup {p} ELSE missed
  /\ UNCHANGED <<catalogue, process, call, up, stray, renames, commands, faults, crashes>>

\* The listener looks for the terminal of an exit; the exit of a process that no
\* record names yet is forgotten ...
Receive ==
  LET p == Head(events) IN
  /\ listener = Waiting /\ events # <<>>
  /\ events' = Tail(events)
  /\ \/ \E t \in Naming(p) :
          /\ listener' = [at |-> "found", target |-> TargetOf(t)]
          /\ UNCHANGED missed
     \/ /\ Naming(p) = {}
        /\ missed' = missed \cup {p}
        /\ UNCHANGED listener
  /\ UNCHANGED <<catalogue, process, call, up, stray, renames, commands, faults, crashes>>

\* Fault: the listener ends whatever run of the terminal is current.
UpdateExitUnfenced ==
  LET t == listener.target.terminal IN
  /\ listener.at = "found"
  /\ catalogue' = Updated(t, "ended", catalogue[t].process)
  /\ listener' = Waiting
  /\ UNCHANGED <<process, call, events, up, histories, renames, commands, faults, crashes>>

\* Fault: a refused update is tried again as it was.
UpdateExitAgain ==
  LET x == listener.target IN
  /\ listener.at = "found" /\ Current(x)
  /\ catalogue' = Updated(x.terminal, "ended", x.process)
  /\ listener' = Waiting
  /\ UNCHANGED <<process, call, events, up, histories, renames, commands, faults, crashes>>

\* ... and updates it, if nothing else did meanwhile.
UpdateExit ==
  LET x == listener.target IN
  /\ listener.at = "found"
  /\ listener' = Waiting
  /\ \/ /\ Current(x)
        /\ catalogue' = Updated(x.terminal, "ended", x.process)
        /\ UNCHANGED <<missed, faults>>
     \/ /\ Refused(x)
        /\ missed' = missed \cup {x.process}
        /\ UNCHANGED catalogue
  /\ UNCHANGED <<process, call, events, up, stray, renames, commands, crashes>>

\* A lagging receiver is an error, and any error ends the listener for good.
Lag ==
  /\ listener = Waiting /\ events # <<>>
  /\ Fault
  /\ listener' = Ended /\ events' = <<>>
  /\ UNCHANGED <<catalogue, process, call, up, histories, renames, commands, crashes>>

-----------------------------------------------------------------------------
(* The end of a host process, and the next one *)

\* What the host knew is gone; any of its processes may survive it.
Crash ==
  /\ crashes < MaxCrashes /\ crashes' = crashes + 1
  /\ \E survivors \in SUBSET {p \in Processes : Alive(p)} :
       /\ process' = [p \in Processes |->
            IF p \in survivors THEN "stale"
            ELSE IF process[p] \in {"unused", "stale"} THEN process[p] ELSE "gone"]
       /\ stray' = stray \cup (survivors \cap
            {call[c].target.process : c \in {d \in Callers : call[d].at = "record"}})
  /\ call' = [c \in Callers |-> Idle]
  /\ events' = <<>> /\ listener' = Waiting
  /\ up' = FALSE
  /\ UNCHANGED <<catalogue, missed, renames, commands, faults>>

Surviving == {p \in Processes :
  process[p] = "stale" /\ \E t \in Naming(p) : Live(catalogue[t])}

\* terminate_stale_process, for each live terminal; on an error the host does
\* not come up.
TerminateStale(p) ==
  /\ ~up /\ p \in Surviving
  /\ process' = [process EXCEPT ![p] = "gone"]
  /\ UNCHANGED <<catalogue, call, listening, up, histories, renames, commands, faults,
                 crashes>>

\* Fault: the identity of the process is kept.
ReconcileKeeping ==
  /\ ~up /\ Surviving = {} /\ up' = TRUE
  /\ catalogue' = [t \in Terminals |->
       IF Live(catalogue[t])
         THEN [catalogue[t] EXCEPT !.status = "disconnected", !.revision = @ + 1]
         ELSE catalogue[t]]
  /\ UNCHANGED <<process, call, listening, histories, renames, commands, faults, crashes>>

\* Fault: the catalogue is reconciled before processes are terminated.
ReconcileFirst ==
  /\ ~up /\ up' = TRUE
  /\ catalogue' = [t \in Terminals |->
       IF Live(catalogue[t])
         THEN [catalogue[t] EXCEPT !.status = "disconnected", !.process = NoProcess,
                                   !.revision = @ + 1]
         ELSE catalogue[t]]
  /\ UNCHANGED <<process, call, listening, histories, renames, commands, faults, crashes>>

\* reconcile_startup: one update, after which commands are served.
Reconcile ==
  /\ ~up /\ Surviving = {} /\ up' = TRUE
  /\ catalogue' = [t \in Terminals |->
       IF Live(catalogue[t])
         THEN [catalogue[t] EXCEPT !.status = "disconnected", !.process = NoProcess,
                                   !.revision = @ + 1]
         ELSE catalogue[t]]
  /\ UNCHANGED <<process, call, listening, histories, renames, commands, faults, crashes>>

-----------------------------------------------------------------------------
Next ==
  \/ \E c \in Callers :
       \/ CreateTerminal(c) \/ ArchiveTab(c) \/ ArchiveSession(c)
       \/ NextTarget(c) \/ Dispose(c) \/ Start(c) \/ Spawn(c) \/ Record(c)
       \/ Cancel(c) \/ CloseRecords(c)
       \/ \E t \in Terminals : Restart(c, t) \/ Stop(c, t) \/ Close(c, t)
  \/ \E t \in Terminals : Rename(t)
  \/ \E p \in Processes : Exit(p) \/ CleanUp(p) \/ TerminateStale(p)
  \/ Receive \/ UpdateExit \/ Lag
  \/ Crash \/ Reconcile

Spec == Init /\ [][Next]_vars

\* Fairness: the listener's task is scheduled.
FairSpec == Spec /\ WF_vars(Receive) /\ WF_vars(UpdateExit)

-----------------------------------------------------------------------------
(* Properties *)

Targets == [terminal : Terminals \cup {0}, revision : Nat, process : Processes \cup {NoProcess}]

\* Types; and an interrupted terminal has lost its process ("loses its
\* writer/PTY identity").
TypeOK ==
  /\ catalogue \in [Terminals ->
       [status : {"none", "created", "starting", "running", "ended", "cancelled", "disconnected"},
        process : Processes \cup {NoProcess}, revision : Nat, archived : BOOLEAN]]
  /\ \A t \in Terminals : catalogue[t].status = "disconnected" => catalogue[t].process = NoProcess
  /\ process \in [Processes -> {"unused", "running", "exited", "gone", "stuck", "dead", "stale"}]
  /\ call \in [Callers ->
       [at : {"idle", "next", "dispose", "start", "spawn", "record", "fail", "cancel", "close"},
        op : {"none", "create", "restart", "stop", "close", "tab", "keepTab", "session"},
        target : Targets, left : SUBSET Targets, seen : SUBSET Processes]]
  /\ events \in Seq(Processes)
  /\ listener \in [at : {"waiting", "found", "ended"}, target : Targets]
  /\ up \in BOOLEAN /\ stray \subseteq Processes /\ missed \subseteq Processes
  /\ {renames, commands, faults, crashes} \subseteq Nat

Recording == {c \in Callers : call[c].at = "record"}

\* Every process of a serving host belongs to a terminal: a live record names it
\* (so that a client can stop it), or a command is about to record it.  Only an
\* update that overtook a command that starts a process makes an exception.
ProcessesNamed ==
  \A p \in Processes : up /\ Alive(p) /\ p \notin stray =>
    \/ \E t \in Naming(p) : Live(catalogue[t])
    \/ \E c \in Recording : call[c].target.process = p

\* Two restarts, or a create and a restart, do not start two shells for one
\* terminal: of the processes that run only one is recorded or will be.
OneProcess ==
  \A t \in Terminals :
    Cardinality({p \in Processes : Alive(p) /\
      \/ t \in Naming(p)
      \/ \E c \in Recording : call[c].target = Target(t, catalogue[t].revision, p)}) <= 1

\* An exit or a command on its way that will tell the catalogue.
Pending(p) ==
  \/ \E i \in DOMAIN events : events[i] = p
  \/ listener.at = "found" /\ listener.target.process = p
  \/ \E c \in Callers : p \in call[c].seen

\* A terminal that says running has a process that runs, or its end is on the way
\* to the catalogue, or a refused update or the end of the listener lost it.
RunningIsTrue ==
  \A t \in Terminals : up /\ listener # Ended /\ catalogue[t].status = "running" =>
    LET p == catalogue[t].process IN Alive(p) \/ Pending(p) \/ p \in missed

\* What the process exit test expects of a shell that ends at once: its terminal
\* says so in the end, here without errors or other clients.
NoExitLost ==
  \A t \in Terminals : up /\ listener # Ended /\ catalogue[t].status = "running" =>
    LET p == catalogue[t].process IN Alive(p) \/ Pending(p)

\* "It terminates only an exact matching PTY process group" before the identity is
\* cleared: when the new host serves, no process that the catalogue knew lives on.
SurvivorsTerminated ==
  up => \A p \in Processes : process[p] = "stale" => p \in stray

\* The types, and that every process is one terminal's.
ProcessInv == TypeOK /\ ProcessesNamed /\ OneProcess

\* What the catalogue says of a process is so, now and after a crash.
CatalogueIsTrue == RunningIsTrue /\ SurvivorsTerminated

\* The listener gets every exit done: an exited process does not stay recorded as
\* running, unless its exit was missed, the listener has ended or the host has.
ExitRecorded ==
  \A p \in Processes : process[p] = "exited" ~>
    \/ p \in missed \/ listener = Ended \/ ~up
    \/ \A t \in Naming(p) : catalogue[t].status # "running"
=============================================================================
