-------------------------- MODULE MuxRuntimeProofs --------------------------
(***************************************************************************)
(* Theorems about MuxRuntime, for any numbers of clients, terminals and     *)
(* processes and any bounds: every process of a serving host is one         *)
(* terminal's, and what the catalogue says of a process is so.              *)
(***************************************************************************)
EXTENDS MuxRuntime, FiniteSetTheorems, TLAPS

(* The inductive invariant *)

Records ==
  [status : {"none", "created", "starting", "running", "ended", "cancelled", "disconnected"},
   process : Processes \cup {NoProcess}, revision : Nat, archived : BOOLEAN]

Commands ==
  [at : {"idle", "next", "dispose", "start", "spawn", "record", "fail", "cancel", "close"},
   op : {"none", "create", "restart", "stop", "close", "tab", "keepTab", "session"},
   target : Targets, left : SUBSET Targets, seen : SUBSET Processes]

\* What a command or the listener read of a terminal is still so while the
\* revision it read is the current one.
Known(x) ==
  /\ x.terminal \in Recorded
  /\ x.revision <= catalogue[x.terminal].revision
  /\ Current(x) => catalogue[x.terminal].process = x.process

\* What each phase of a command may be part of.
Shape(k) ==
  /\ k.at = "next" => k.op \in {"tab", "keepTab", "session"}
  /\ k.at = "dispose" => k.op \in {"restart", "stop", "close", "tab", "session"}
  /\ k.at \in {"dispose", "record"} => k.target.process \in Processes
  /\ k.at \in {"start", "spawn", "record", "fail"} => k.op \in {"create", "restart"}
  /\ k.at = "cancel" => k.op \in {"stop", "session"}
  /\ k.at = "close" => k.op \in {"close", "tab", "keepTab"} /\ k.left = {}
  /\ k.op \notin {"tab", "session"} => k.left = {}
  /\ k.op = "keepTab" => k.seen = {}
  /\ k.op \in {"create", "restart", "stop"} /\ k.at \in {"dispose", "start", "cancel"} =>
       k.seen \subseteq {k.target.process}
  /\ k.at = "idle" => k = Idle

\* What a command holds was read from the catalogue, and it remembers having
\* seen the processes.
Knows(k) ==
  /\ \A x \in k.left : Known(x) /\ x.process \in k.seen \cup {NoProcess}
  /\ k.at \in {"dispose", "start", "cancel"} => Known(k.target)
  /\ k.at \in {"dispose", "start", "cancel", "spawn", "fail"} =>
       k.target.process \in k.seen \cup {NoProcess}
  /\ k.at = "close" /\ k.op = "close" => k.target.terminal \in Terminals

\* A command that starts a process set the record's revision itself; if it is
\* still current the record says starting and the process before is over.
Starts(k) ==
  k.at \in {"spawn", "record", "fail"} =>
    /\ k.target.terminal \in Recorded
    /\ k.target.revision <= catalogue[k.target.terminal].revision
    /\ Current(k.target) =>
         /\ catalogue[k.target.terminal].status = "starting"
         /\ ~Alive(catalogue[k.target.terminal].process)
         /\ k.at # "record" => catalogue[k.target.terminal].process = k.target.process

\* The processes that a command has not disposed of yet.
Undone(k) ==
  {x.process : x \in k.left}
    \cup (IF k.at = "dispose" THEN {k.target.process} ELSE {})

\* A process was started before a command heard of it, and is disposed of before
\* the command goes on, or it is a stray.
Handles(k) ==
  /\ \A p \in k.seen : process[p] # "unused"
  /\ k.at = "record" => process[k.target.process] # "unused"
  /\ k.at \in {"start", "cancel", "spawn", "fail"} => ~Alive(k.target.process)
  /\ k.op \in {"close", "tab", "keepTab"} =>
       \A p \in k.seen : ~Alive(p) \/ p \in stray \/ p \in Undone(k)

CommandSound(k) == Shape(k) /\ Knows(k) /\ Starts(k) /\ Handles(k)

CommandsSound == \A c \in Callers : CommandSound(call[c])

Beginning == {c \in Callers : call[c].at \in {"spawn", "record", "fail"}}

\* No two commands set the same revision of a record.
OneStarter ==
  \A c, d \in Beginning :
    (/\ call[c].target.terminal = call[d].target.terminal
     /\ call[c].target.revision = call[d].target.revision) => c = d

\* A process belongs to one record, or to one command that will record it.
OneRecord ==
  \A t, u \in Recorded :
    (/\ catalogue[t].process = catalogue[u].process
     /\ catalogue[t].process # NoProcess) => t = u

OneRecorder ==
  \A c \in Recording :
    /\ Naming(call[c].target.process) = {}
    /\ \A d \in Callers : call[c].target.process \notin call[d].seen
    /\ \A d \in Recording : call[d].target.process = call[c].target.process => d = c

\* A terminal has no record before it is created; a process was started before it
\* was recorded, and is over before its record stops being a live one, or it is a
\* stray.
RecordsSound ==
  \A t \in Terminals :
    /\ catalogue[t].status = "none" => catalogue[t] = NoRecord
    /\ catalogue[t].process # NoProcess => process[catalogue[t].process] # "unused"
    /\ ~Live(catalogue[t]) =>
         ~Alive(catalogue[t].process) \/ catalogue[t].process \in stray

Over(p) == process[p] \notin {"unused", "running", "stuck"}

\* What the listener hears of is over.
ExitsOver ==
  /\ \A i \in DOMAIN events : Over(events[i])
  /\ listener.at = "found" =>
       /\ Known(listener.target)
       /\ listener.target.process \in Processes
       /\ Over(listener.target.process)

\* A host that does not serve has no processes and no commands.
Down ==
  ~up => /\ \A p \in Processes : ~Alive(p)
         /\ \A c \in Callers : call[c] = Idle
         /\ events = <<>> /\ listener = Waiting

\* A process that survived its host has a live record until it is terminated.
Survivors ==
  \A p \in Processes : process[p] = "stale" =>
    p \in stray \/ (~up /\ \E t \in Naming(p) : Live(catalogue[t]))

\* The processes whose end a command will tell the catalogue or count as missed.
Owed(k) ==
  IF k.op = "session"
    THEN {x.process : x \in k.left}
           \cup (IF k.at \in {"dispose", "cancel"} THEN {k.target.process} ELSE {})
    ELSE IF k.at \in {"spawn", "record", "fail"} THEN {} ELSE k.seen

\* A process runs, or its end is known to somebody who has it to tell.
Accounted(p) ==
  \/ Alive(p)
  \/ \E i \in DOMAIN events : events[i] = p
  \/ listener.at = "found" /\ listener.target.process = p
  \/ p \in missed
  \/ process[p] \in {"gone", "dead"} /\ \E c \in Callers : p \in Owed(call[c])

RunningAccounted ==
  up /\ listener # Ended =>
    /\ \A t \in Terminals : catalogue[t].status = "running" =>
         catalogue[t].process \in Processes /\ Accounted(catalogue[t].process)
    /\ \A c \in Recording : Accounted(call[c].target.process)

MuxInv ==
  /\ TypeOK /\ CommandsSound /\ OneStarter /\ OneRecord /\ OneRecorder
  /\ RecordsSound /\ ExitsOver /\ Down /\ Survivors /\ ProcessesNamed
  /\ RunningAccounted

-----------------------------------------------------------------------------
(* Fields and changes *)

LEMMA CommandFields ==
  ASSUME TypeOK, NEW c \in Callers
  PROVE  /\ call[c] \in Commands
         /\ call[c].target \in Targets
         /\ call[c].target.terminal \in Terminals \cup {0}
         /\ call[c].target.revision \in Nat
         /\ call[c].target.process \in Processes \cup {NoProcess}
         /\ call[c].left \subseteq Targets
         /\ call[c].seen \subseteq Processes
BY DEF TypeOK, Commands, Targets

LEMMA RecordFields ==
  ASSUME TypeOK, NEW t \in Terminals
  PROVE  /\ catalogue[t] \in Records
         /\ catalogue[t].revision \in Nat
         /\ catalogue[t].process \in Processes \cup {NoProcess}
         /\ catalogue[t].archived \in BOOLEAN
         /\ catalogue[t].status \in {"none", "created", "starting", "running", "ended",
                                     "cancelled", "disconnected"}
BY DEF TypeOK, Records

\* A command that goes on; the others stay as they are.
Others(c) == \A d \in Callers \ {c} : call'[d] = call[d]

LEMMA GoesOn ==
  ASSUME TypeOK, NEW c \in Callers, NEW k, call' = [call EXCEPT ![c] = k]
  PROVE  call'[c] = k /\ Others(c) /\ (k \in Commands => call' \in [Callers -> Commands])
<1>1. call \in [Callers -> Commands]
  BY DEF TypeOK, Commands
<1>. QED BY <1>1 DEF Others

\* A record moves on: its revision rises, and nothing else about any record is
\* changed behind a revision.
Moves ==
  \A t \in Recorded :
    /\ t \in Recorded'
    /\ catalogue'[t] = catalogue[t] \/ catalogue'[t].revision > catalogue[t].revision

LEMMA UpdatedFields ==
  ASSUME TypeOK, NEW t \in Terminals, NEW s, NEW p \in Processes \cup {NoProcess},
         s \in {"created", "starting", "running", "ended", "cancelled"},
         catalogue' = Updated(t, s, p)
  PROVE  /\ catalogue'[t].status = s /\ catalogue'[t].process = p
         /\ catalogue'[t].revision = catalogue[t].revision + 1
         /\ catalogue'[t].archived = catalogue[t].archived
         /\ \A u \in Terminals \ {t} : catalogue'[u] = catalogue[u]
         /\ catalogue' \in [Terminals -> Records]
         /\ \A u \in Terminals : catalogue'[u].status = "disconnected" =>
              catalogue'[u].process = NoProcess
         /\ Moves
         /\ Recorded' = Recorded \cup {t}
<1>1. catalogue \in [Terminals -> Records]
  BY DEF TypeOK, Records
<1>2. catalogue'[t] = [status |-> s, process |-> p, revision |-> catalogue[t].revision + 1,
                       archived |-> catalogue[t].archived]
  BY <1>1 DEF Updated, Records
<1>3. \A u \in Terminals \ {t} : catalogue'[u] = catalogue[u]
  BY <1>1 DEF Updated
<1>4. /\ catalogue'[t].status = s /\ catalogue'[t].process = p
      /\ catalogue'[t].revision = catalogue[t].revision + 1
      /\ catalogue'[t].archived = catalogue[t].archived
      /\ catalogue'[t] \in Records
  BY <1>2, RecordFields DEF Records
<1>5. catalogue' \in [Terminals -> Records]
  BY <1>1, <1>4 DEF Updated, Records
<1>6. Recorded' = Recorded \cup {t}
  BY <1>3, <1>4 DEF Recorded
<1>7. Moves
  <2>. SUFFICES ASSUME NEW u \in Recorded
                PROVE  catalogue'[u] = catalogue[u] \/ catalogue'[u].revision > catalogue[u].revision
    BY <1>6 DEF Moves
  <2>. u \in Terminals
    BY DEF Recorded
  <2>1. CASE u = t
    BY <2>1, <1>4, RecordFields
  <2>. QED BY <2>1, <1>3
<1>8. \A u \in Terminals : catalogue'[u].status = "disconnected" => catalogue'[u].process = NoProcess
  BY <1>3, <1>4 DEF TypeOK
<1>. QED BY <1>3, <1>4, <1>5, <1>6, <1>7, <1>8

LEMMA KnownKept ==
  ASSUME TypeOK, Moves, TypeOK', NEW x \in Targets, Known(x)
  PROVE  Known(x)'
<1>1. x.terminal \in Recorded /\ x.terminal \in Terminals /\ x.terminal \in Recorded'
  BY DEF Known, Moves, Recorded
<1>2. /\ x.revision \in Nat
      /\ catalogue[x.terminal].revision \in Nat
      /\ catalogue'[x.terminal].revision \in Nat
  BY <1>1, RecordFields DEF TypeOK, Targets
<1>3. CASE catalogue'[x.terminal] = catalogue[x.terminal]
  BY <1>1, <1>3 DEF Known, Current
<1>4. CASE catalogue'[x.terminal].revision > catalogue[x.terminal].revision
  <2>1. x.revision < catalogue'[x.terminal].revision
    BY <1>2, <1>4 DEF Known
  <2>. QED BY <2>1, <1>1, <1>2 DEF Known, Current
<1>. QED BY <1>1, <1>3, <1>4 DEF Moves
\* Processes only end, except those that are started; and what is stray stays so.
Ebbs ==
  /\ \A p \in Processes :
       /\ Alive(p)' => Alive(p) \/ process[p] = "unused"
       /\ process[p] # "unused" => process'[p] # "unused"
  /\ stray \subseteq stray'

LEMMA NobodyAlive == ~Alive(NoProcess) /\ ~Alive(NoProcess)'
BY DEF Alive

\* What a command is about stays so, whatever others do to records and processes.
LEMMA CommandKept ==
  ASSUME TypeOK, TypeOK', Moves, Ebbs, RecordsSound, NEW k \in Commands, CommandSound(k)
  PROVE  CommandSound(k)'
<1>0. /\ k.target \in Targets /\ k.left \subseteq Targets /\ k.seen \subseteq Processes
      /\ k.target.process \in Processes \cup {NoProcess} /\ k.target.revision \in Nat
  BY DEF Commands, Targets
<1>1. Shape(k)'
  BY DEF CommandSound, Shape, Idle, NoTarget, Target
<1>2. Knows(k)'
  <2>. DEFINE K(x) == Known(x)
  <2>1. \A x \in k.left : Known(x)'
    BY <1>0, KnownKept DEF CommandSound, Knows
  <2>2. k.at \in {"dispose", "start", "cancel"} => Known(k.target)'
    BY <1>0, KnownKept DEF CommandSound, Knows
  <2>. QED BY <2>1, <2>2 DEF CommandSound, Knows, Terminals
<1>3. Starts(k)'
  <2>. SUFFICES ASSUME k.at \in {"spawn", "record", "fail"} PROVE Starts(k)'
    BY DEF Starts
  <2>. DEFINE t == k.target.terminal
  <2>1. t \in Recorded /\ t \in Terminals /\ t \in Recorded'
    BY DEF CommandSound, Starts, Moves, Recorded
  <2>2. k.target.revision <= catalogue[t].revision
    BY DEF CommandSound, Starts
  <2>3. catalogue[t].revision \in Nat /\ catalogue'[t].revision \in Nat
    BY <2>1, RecordFields DEF TypeOK
  <2>4. CASE catalogue'[t].revision > catalogue[t].revision
    <3>1. k.target.revision < catalogue'[t].revision
      BY <2>2, <2>3, <2>4, <1>0
    <3>. QED BY <3>1, <2>1, <2>3, <1>0 DEF Starts, Current
  <2>5. CASE catalogue'[t] = catalogue[t]
    <3>1. Current(k.target) =>
             /\ catalogue[t].status = "starting" /\ ~Alive(catalogue[t].process)
             /\ k.at # "record" => catalogue[t].process = k.target.process
      BY DEF CommandSound, Starts
    <3>2. ~Alive(catalogue[t].process) => ~Alive(catalogue[t].process)'
      BY <2>1, <2>5, RecordFields, NobodyAlive DEF RecordsSound, Ebbs, Alive
    <3>. QED BY <3>1, <3>2, <2>1, <2>2, <2>5 DEF Starts, Current, Alive
  <2>. QED BY <2>1, <2>4, <2>5 DEF Moves
<1>4. Handles(k)'
  <2>1. /\ \A p \in k.seen : process'[p] # "unused"
        /\ k.at = "record" => process'[k.target.process] # "unused"
    BY <1>0 DEF CommandSound, Handles, Shape, Ebbs
  <2>2. k.at \in {"start", "cancel", "spawn", "fail"} => ~Alive(k.target.process)'
    BY <1>0, NobodyAlive DEF CommandSound, Handles, Knows, Ebbs
  <2>3. \A p \in k.seen : ~Alive(p) => ~Alive(p)'
    BY <1>0 DEF CommandSound, Handles, Ebbs
  <2>. QED BY <2>1, <2>2, <2>3 DEF CommandSound, Handles, Undone, Ebbs
<1>. QED BY <1>1, <1>2, <1>3, <1>4 DEF CommandSound

LEMMA CommandsKept ==
  ASSUME TypeOK, TypeOK', Moves, Ebbs, RecordsSound, CommandsSound,
         NEW c \in Callers, Others(c), CommandSound(call[c])'
  PROVE  CommandsSound'
<1>. SUFFICES ASSUME NEW d \in Callers PROVE CommandSound(call[d])'
  BY DEF CommandsSound
<1>1. CASE d = c
  BY <1>1
<1>2. CASE d # c
  <2>1. call'[d] = call[d] /\ call[d] \in Commands
    BY <1>2, CommandFields DEF Others
  <2>. DEFINE k == call[d]
  <2>2. CommandSound(k)
    BY DEF CommandsSound
  <2>. QED BY <2>1, <2>2, CommandKept
<1>. QED BY <1>1, <1>2

\* Beginning and recording commands, when one command goes on to what is neither.
LEMMA OthersRecord ==
  ASSUME NEW c \in Callers, Others(c), call'[c].at \notin {"spawn", "record", "fail"}
  PROVE  /\ Beginning' = Beginning \ {c} /\ Recording' = Recording \ {c}
         /\ \A d \in Recording' : call'[d] = call[d]
         /\ \A d \in Beginning' : call'[d] = call[d]
BY DEF Beginning, Recording, Others

-----------------------------------------------------------------------------
(* Commands begin *)

LEMMA BeginKeeps ==
  ASSUME MuxInv, NEW c \in Callers, NEW next \in Commands, Begin(c, next),
         UNCHANGED catalogue, CommandSound(next),
         next.at \in {"next", "dispose", "start", "cancel", "close"},
         \A p \in next.seen : \E t \in Recorded : catalogue[t].process = p
  PROVE  MuxInv'
<1>0. /\ up /\ call[c] = Idle
      /\ call' = [call EXCEPT ![c] = next]
      /\ UNCHANGED <<process, events, listener, up, stray, missed, renames, faults, crashes>>
      /\ commands' = commands + 1
  BY DEF Begin, listening, histories
<1>1. /\ call'[c] = next /\ Others(c) /\ call' \in [Callers -> Commands]
  BY <1>0, GoesOn DEF MuxInv
<1>2. TypeOK'
  BY <1>0, <1>1 DEF MuxInv, TypeOK, Commands, Targets
<1>3. Moves /\ Ebbs
  BY <1>0 DEF Moves, Ebbs, Alive, Recorded
<1>4. CommandsSound'
  <2>1. CommandSound(next)'
    BY <1>2, <1>3, CommandKept DEF MuxInv
  <2>2. CommandSound(call[c])'
    BY <2>1, <1>1
  <2>. QED BY <1>1, <1>2, <1>3, <2>2, CommandsKept DEF MuxInv
<1>5. /\ Beginning' = Beginning /\ Recording' = Recording
      /\ \A d \in Beginning : call'[d] = call[d]
  BY <1>0, <1>1, OthersRecord DEF Idle, Beginning, Recording
<1>6. OneStarter'
  BY <1>5 DEF MuxInv, OneStarter
<1>7. OneRecord'
  BY <1>0 DEF MuxInv, OneRecord, Recorded
<1>8. OneRecorder'
  <2>. SUFFICES ASSUME NEW d \in Recording
                PROVE  /\ Naming(call[d].target.process)'  = {}
                       /\ \A e \in Callers : call'[d].target.process \notin call'[e].seen
                       /\ \A e \in Recording : call'[e].target.process = call'[d].target.process => e = d
    BY <1>5 DEF OneRecorder
  <2>1. call'[d] = call[d] /\ d \in Callers
    BY <1>5, <1>1 DEF Recording, Beginning
  <2>2. Naming(call[d].target.process) = {}
    BY DEF MuxInv, OneRecorder
  <2>3. Naming(call[d].target.process)'  = {}
    BY <1>0, <2>1, <2>2 DEF Naming, Recorded
  <2>4. call[d].target.process \notin next.seen
    BY <2>2 DEF Naming
  <2>5. \A e \in Callers : call'[d].target.process \notin call'[e].seen
    BY <1>1, <2>1, <2>4 DEF MuxInv, OneRecorder, Others
  <2>6. \A e \in Recording : call'[e] = call[e]
    BY <1>5 DEF Recording, Beginning
  <2>. QED BY <2>1, <2>3, <2>5, <2>6 DEF MuxInv, OneRecorder
<1>9. RecordsSound'
  BY <1>0 DEF MuxInv, RecordsSound, Live, Alive
<1>10. ExitsOver'
  BY <1>0 DEF MuxInv, ExitsOver, Over, Known, Current, Recorded
<1>11. Down' /\ Survivors'
  BY <1>0 DEF MuxInv, Down, Survivors, Naming, Recorded, Live
<1>12. ProcessesNamed'
  BY <1>0, <1>5 DEF MuxInv, ProcessesNamed, Alive, Naming, Recorded, Live, Recording, Beginning
<1>13. RunningAccounted'
  <2>1. \A d \in Callers : \A p \in Processes : p \in Owed(call[d]) => p \in Owed(call'[d])
    <3>. SUFFICES ASSUME NEW d \in Callers, NEW p \in Processes, p \in Owed(call[d])
                  PROVE  p \in Owed(call'[d])
      OBVIOUS
    <3>1. d # c
      BY <1>0 DEF Owed, Idle
    <3>. QED BY <3>1, <1>1 DEF Others
  <2>2. \A p \in Processes : Accounted(p) => Accounted(p)'
    BY <2>1, <1>0 DEF Accounted, Alive
  <2>3. \A d \in Recording : call'[d].target.process \in Processes /\ call'[d] = call[d]
    BY <1>5 DEF MuxInv, CommandsSound, CommandSound, Shape, Recording, Beginning
  <2>. QED BY <1>0, <1>5, <2>2, <2>3 DEF MuxInv, RunningAccounted
<1>. QED BY <1>2, <1>4, <1>6, <1>7, <1>8, <1>9, <1>10, <1>11, <1>12, <1>13 DEF MuxInv

LEMMA ReadTarget ==
  ASSUME TypeOK, NEW t \in Recorded
  PROVE  /\ TargetOf(t) \in Targets /\ Known(TargetOf(t))
         /\ TargetOf(t).process = catalogue[t].process /\ TargetOf(t).terminal = t
<1>1. t \in Terminals
  BY DEF Recorded
<1>. QED BY <1>1, RecordFields DEF TargetOf, Target, Targets, Known, Current

\* The commands on one terminal.
LEMMA OneBegins ==
  ASSUME MuxInv, NEW c \in Callers, NEW t \in Recorded, NEW op \in {"restart", "stop", "close"},
         NEW then \in {"start", "cancel", "close"}, NEW disposed \in BOOLEAN,
         op = "restart" => then = "start", op = "stop" => then = "cancel",
         op = "close" => then = "close",
         disposed => catalogue[t].process # NoProcess,
         ~disposed => catalogue[t].process = NoProcess \/ (op = "close" /\ ~Live(catalogue[t])),
         Begin(c, OnOne(op, TargetOf(t), disposed, then)), UNCHANGED catalogue
  PROVE  MuxInv'
<1>. DEFINE k == OnOne(op, TargetOf(t), disposed, then)
<1>0. t \in Terminals /\ catalogue[t].process \in Processes \cup {NoProcess}
  BY RecordFields DEF MuxInv, Recorded
<1>1. /\ k.at = IF disposed THEN "dispose" ELSE then
      /\ k.op = op /\ k.target = TargetOf(t) /\ k.left = {}
      /\ k.seen = {catalogue[t].process} \ {NoProcess}
  BY ReadTarget DEF OnOne, MuxInv
<1>2. k \in Commands
  BY <1>0, ReadTarget DEF OnOne, MuxInv, Commands
<1>3. k.target.process = catalogue[t].process /\ k.target.terminal = t /\ Known(k.target)
  BY <1>1, ReadTarget DEF MuxInv
<1>. HIDE DEF k
<1>4. Shape(k)
  BY <1>0, <1>1, <1>3 DEF Shape
<1>5. Knows(k)
  BY <1>0, <1>1, <1>3 DEF Knows
<1>6. Starts(k)
  BY <1>1 DEF Starts
<1>7. Handles(k)
  <2>1. \A p \in k.seen : process[p] # "unused"
    BY <1>0, <1>1 DEF MuxInv, RecordsSound
  <2>2. k.at \in {"start", "cancel", "spawn", "fail"} => ~Alive(k.target.process)
    BY <1>1, <1>3, NobodyAlive
  <2>3. k.op = "close" => \A p \in k.seen : ~Alive(p) \/ p \in stray \/ p \in Undone(k)
    <3>1. CASE disposed
      BY <3>1, <1>1, <1>3 DEF Undone
    <3>2. CASE ~disposed
      BY <3>2, <1>0, <1>1 DEF MuxInv, RecordsSound
    <3>. QED BY <3>1, <3>2
  <2>. QED BY <2>1, <2>2, <2>3, <1>1 DEF Handles
<1>8. CommandSound(k)
  BY <1>4, <1>5, <1>6, <1>7 DEF CommandSound
<1>. QED
  <2>1. k.at \in {"next", "dispose", "start", "cancel", "close"}
    BY <1>1
  <2>2. \A p \in k.seen : \E u \in Recorded : catalogue[u].process = p
    BY <1>1
  <2>3. Begin(c, k)
    BY DEF k
  <2>. QED BY <1>2, <1>8, <2>1, <2>2, <2>3, BeginKeeps

LEMMA RestartKeeps ==
  ASSUME MuxInv, NEW c \in Callers, NEW t \in Terminals, Restart(c, t)
  PROVE  MuxInv'
<1>. DEFINE disposed == catalogue[t].process # NoProcess
<1>1. t \in Recorded /\ Begin(c, OnOne("restart", TargetOf(t), disposed, "start")) /\ UNCHANGED catalogue
  BY DEF Restart
<1>2. disposed \in BOOLEAN /\ (disposed => catalogue[t].process # NoProcess)
                           /\ (~disposed => catalogue[t].process = NoProcess)
  OBVIOUS
<1>. HIDE DEF disposed
<1>. QED BY <1>1, <1>2, OneBegins

LEMMA StopKeeps ==
  ASSUME MuxInv, NEW c \in Callers, NEW t \in Terminals, Stop(c, t)
  PROVE  MuxInv'
<1>. DEFINE disposed == catalogue[t].process # NoProcess
<1>1. t \in Recorded /\ Begin(c, OnOne("stop", TargetOf(t), disposed, "cancel")) /\ UNCHANGED catalogue
  BY DEF Stop
<1>2. disposed \in BOOLEAN /\ (disposed => catalogue[t].process # NoProcess)
                           /\ (~disposed => catalogue[t].process = NoProcess)
  OBVIOUS
<1>. HIDE DEF disposed
<1>. QED BY <1>1, <1>2, OneBegins

LEMMA CloseKeeps ==
  ASSUME MuxInv, NEW c \in Callers, NEW t \in Terminals, Close(c, t)
  PROVE  MuxInv'
<1>. DEFINE disposed == Live(catalogue[t]) /\ catalogue[t].process # NoProcess
<1>1. t \in Recorded /\ Begin(c, OnOne("close", TargetOf(t), disposed, "close")) /\ UNCHANGED catalogue
  BY DEF Close
<1>2. disposed \in BOOLEAN /\ (disposed => catalogue[t].process # NoProcess)
                           /\ (~disposed => catalogue[t].process = NoProcess \/ ~Live(catalogue[t]))
  OBVIOUS
<1>. HIDE DEF disposed
<1>. QED BY <1>1, <1>2, OneBegins

\* The commands on what a client sees.
LEMMA ManyBegin ==
  ASSUME MuxInv, NEW c \in Callers, NEW op \in {"tab", "keepTab", "session"},
         NEW ts \in SUBSET Recorded, op = "keepTab" => ts = {},
         Begin(c, OnMany(op, ts)), UNCHANGED catalogue
  PROVE  MuxInv'
<1>. DEFINE k == OnMany(op, ts)
            live == {TargetOf(t) : t \in {u \in ts : Live(catalogue[u])}}
<1>1. /\ k.at = "next" /\ k.op = op /\ k.target = NoTarget /\ k.left = live
      /\ k.seen = {x.process : x \in live} \ {NoProcess}
  BY DEF OnMany
<1>2. \A x \in live : /\ x \in Targets /\ Known(x)
                      /\ \E t \in Recorded : catalogue[t].process = x.process
  BY ReadTarget DEF MuxInv
<1>3. op = "keepTab" => live = {}
  OBVIOUS
<1>4. NoTarget \in Targets /\ NoTarget.process = NoProcess
  BY DEF NoTarget, Target, Targets
<1>5. \A p \in k.seen : p \in Processes /\ \E t \in Recorded : catalogue[t].process = p
  BY <1>1, <1>2 DEF Targets
<1>. HIDE DEF live
<1>6. k \in Commands
  <2>1. k = [at |-> "next", op |-> op, target |-> NoTarget, left |-> live, seen |-> k.seen]
    BY DEF OnMany, live
  <2>2. live \in SUBSET Targets /\ k.seen \in SUBSET Processes
    BY <1>2, <1>5
  <2>. HIDE DEF k
  <2>. QED BY <2>1, <2>2, <1>4 DEF Commands
<1>7. Begin(c, k)
  BY DEF k
<1>. HIDE DEF k
<1>8. Shape(k)
  BY <1>1, <1>3 DEF Shape
<1>9. Knows(k)
  BY <1>1, <1>2 DEF Knows
<1>10. Starts(k)
  BY <1>1 DEF Starts
<1>11. Handles(k)
  <2>1. \A p \in k.seen : process[p] # "unused"
    BY <1>5 DEF MuxInv, RecordsSound, Recorded, Processes, NoProcess
  <2>2. \A p \in k.seen : p \in Undone(k)
    BY <1>1 DEF Undone
  <2>. QED BY <2>1, <2>2, <1>1 DEF Handles
<1>12. CommandSound(k)
  BY <1>8, <1>9, <1>10, <1>11 DEF CommandSound
<1>. QED BY <1>1, <1>5, <1>6, <1>7, <1>12, BeginKeeps

LEMMA ArchiveTabKeeps ==
  ASSUME MuxInv, NEW c \in Callers, ArchiveTab(c)
  PROVE  MuxInv'
BY ManyBegin DEF ArchiveTab, Visible

LEMMA ArchiveSessionKeeps ==
  ASSUME MuxInv, NEW c \in Callers, ArchiveSession(c)
  PROVE  MuxInv'
BY ManyBegin DEF ArchiveSession, Visible

-----------------------------------------------------------------------------
(* One record moves on *)

Revised(t) ==
  /\ catalogue'[t].status # "none"
  /\ catalogue'[t].revision = catalogue[t].revision + 1
  /\ \A u \in Terminals \ {t} : catalogue'[u] = catalogue[u]

LEMMA RevisedMoves ==
  ASSUME TypeOK, NEW t \in Terminals, Revised(t)
  PROVE  Moves /\ Recorded' = Recorded \cup {t}
<1>1. Recorded' = Recorded \cup {t}
  BY DEF Revised, Recorded
<1>2. catalogue'[t].revision > catalogue[t].revision
  BY RecordFields DEF Revised
<1>3. Moves
  <2>. SUFFICES ASSUME NEW u \in Recorded
                PROVE  catalogue'[u] = catalogue[u] \/ catalogue'[u].revision > catalogue[u].revision
    BY <1>1 DEF Moves
  <2>. u \in Terminals
    BY DEF Recorded
  <2>. QED BY <1>2 DEF Revised
<1>. QED BY <1>1, <1>3

\* The record keeps its process, or gets one that no record names; a process that
\* it no longer has as a live record is over or a stray.
LEMMA RevisedKeeps ==
  ASSUME MuxInv, TypeOK', NEW t \in Terminals, Revised(t), up, up',
         UNCHANGED process, stray \subseteq stray',
         NEW p, p = catalogue'[t].process,
         p # NoProcess /\ p # catalogue[t].process =>
           Naming(p) = {} /\ process[p] # "unused" /\ ~Alive(catalogue[t].process),
         ~Live(catalogue'[t]) => ~Alive(p) \/ p \in stray',
         p = NoProcess => catalogue[t].process = NoProcess,
         \A d \in Recording :
           \/ d \in Recording' /\ call'[d] = call[d]
           \/ call[d].target.process \in stray'
           \/ call[d].target.process = p /\ Live(catalogue'[t]),
         \A d \in Recording' :
           d \in Recording /\ call'[d] = call[d] /\ (p # catalogue[t].process => call[d].target.process # p),
         \A d \in Callers : call'[d].seen \subseteq call[d].seen,
         \A q \in Processes : Accounted(q) /\ q # catalogue[t].process => Accounted(q)',
         catalogue'[t].status = "running" /\ listener' # Ended =>
           p \in Processes /\ Accounted(p)',
         listener' # Ended => listener # Ended
  PROVE  /\ OneRecord' /\ OneRecorder' /\ RecordsSound' /\ Down' /\ Survivors'
         /\ ProcessesNamed' /\ RunningAccounted'
<1>1. Recorded' = Recorded \cup {t} /\ Recorded \subseteq Terminals
  BY RevisedMoves DEF MuxInv, Recorded
<1>2. \A u \in Terminals \ {t} : catalogue'[u] = catalogue[u]
  BY DEF Revised
<1>3. p \in Processes \cup {NoProcess}
  BY DEF TypeOK
<1>4. t \notin Recorded => catalogue[t].process = NoProcess
  BY DEF MuxInv, RecordsSound, Recorded, NoRecord
<1>5. \A u \in Recorded \ {t} : p # NoProcess => catalogue[u].process # p
  <2>. SUFFICES ASSUME NEW u \in Recorded \ {t}, p # NoProcess, catalogue[u].process = p PROVE FALSE
    OBVIOUS
  <2>1. CASE p = catalogue[t].process
    BY <2>1, <1>4 DEF MuxInv, OneRecord
  <2>2. CASE p # catalogue[t].process
    BY <2>2 DEF Naming
  <2>. QED BY <2>1, <2>2
<1>6. OneRecord'
  <2>. SUFFICES ASSUME NEW u \in Recorded', NEW v \in Recorded',
                       catalogue'[u].process = catalogue'[v].process,
                       catalogue'[u].process # NoProcess
                PROVE  u = v
    BY DEF OneRecord
  <2>1. CASE u = t \/ v = t
    BY <2>1, <1>1, <1>2, <1>5
  <2>2. CASE u # t /\ v # t
    BY <2>2, <1>1, <1>2 DEF MuxInv, OneRecord
  <2>. QED BY <2>1, <2>2
<1>7. RecordsSound'
  <2>. SUFFICES ASSUME NEW u \in Terminals
                PROVE  /\ catalogue'[u].status = "none" => catalogue'[u] = NoRecord
                       /\ catalogue'[u].process # NoProcess => process[catalogue'[u].process] # "unused"
                       /\ ~Live(catalogue'[u]) =>
                            ~Alive(catalogue'[u].process) \/ catalogue'[u].process \in stray'
    BY DEF RecordsSound, Alive, Live
  <2>1. CASE u = t
    BY <2>1 DEF Revised, MuxInv, RecordsSound
  <2>2. CASE u # t
    BY <2>2, <1>2 DEF MuxInv, RecordsSound, Live
  <2>. QED BY <2>1, <2>2
<1>8. \A d \in Recording : /\ call[d].target.process \in Processes /\ d \in Callers
                           /\ Naming(call[d].target.process) = {}
  BY DEF MuxInv, CommandsSound, CommandSound, Shape, OneRecorder, Recording
<1>9. NoProcess \notin Processes
  BY DEF NoProcess, Processes
<1>10. OneRecorder'
  <2>. SUFFICES ASSUME NEW d \in Recording'
                PROVE  /\ Naming(call[d].target.process)' = {}
                       /\ \A e \in Callers : call'[d].target.process \notin call'[e].seen
                       /\ \A e \in Recording' : call'[e].target.process = call'[d].target.process => e = d
    BY DEF OneRecorder
  <2>1. d \in Recording /\ call'[d] = call[d] /\ (p # catalogue[t].process => call[d].target.process # p)
    OBVIOUS
  <2>. DEFINE q == call[d].target.process
  <2>2. q \in Processes /\ q # NoProcess /\ Naming(q) = {}
    BY <2>1, <1>8, <1>9
  <2>3. \A u \in Recorded : catalogue[u].process # q
    BY <2>2 DEF Naming
  <2>4. p # q
    BY <2>1, <2>2, <2>3, <1>4
  <2>5. \A u \in Recorded' : catalogue'[u].process # q
    BY <2>3, <2>4, <1>1, <1>2
  <2>6. Naming(call[d].target.process)' = {}
    BY <2>1, <2>5 DEF Naming
  <2>7. \A e \in Callers : q \notin call'[e].seen
    BY <2>1 DEF MuxInv, OneRecorder
  <2>8. \A e \in Recording' : call'[e].target.process = q => e = d
    BY <2>1 DEF MuxInv, OneRecorder
  <2>. QED BY <2>1, <2>6, <2>7, <2>8
<1>11. Down'
  BY DEF Down
<1>12. Survivors'
  BY DEF MuxInv, Survivors
<1>13. ProcessesNamed'
  <2>. SUFFICES ASSUME NEW q \in Processes, Alive(q), q \notin stray'
                PROVE  \/ \E u \in Recorded' : catalogue'[u].process = q /\ Live(catalogue'[u])
                       \/ \E d \in Recording' : call'[d].target.process = q
    BY DEF ProcessesNamed, Alive, Naming, Live
  <2>1. CASE \E u \in Naming(q) : Live(catalogue[u])
    <3>1. PICK u \in Recorded : catalogue[u].process = q /\ Live(catalogue[u])
      BY <2>1 DEF Naming
    <3>2. CASE u # t
      BY <3>1, <3>2, <1>1, <1>2
    <3>3. CASE u = t
      <4>1. p = q
        BY <3>1, <3>3, NobodyAlive
      <4>. QED BY <4>1, <3>3, <1>1
    <3>. QED BY <3>2, <3>3
  <2>2. CASE \E d \in Recording : call[d].target.process = q
    <3>1. PICK d \in Recording : call[d].target.process = q
      BY <2>2
    <3>. QED BY <3>1, <1>1
  <2>. QED BY <2>1, <2>2 DEF MuxInv, ProcessesNamed
<1>14. RunningAccounted'
  <2>. SUFFICES ASSUME listener' # Ended
                PROVE  /\ \A u \in Terminals : catalogue'[u].status = "running" =>
                            catalogue'[u].process \in Processes /\ Accounted(catalogue[u].process)'
                       /\ \A d \in Recording' : Accounted(call[d].target.process)'
    BY DEF RunningAccounted
  <2>1. ASSUME NEW u \in Terminals, catalogue'[u].status = "running"
        PROVE  catalogue'[u].process \in Processes /\ Accounted(catalogue[u].process)'
    <3>1. CASE u = t
      BY <3>1, <2>1
    <3>2. CASE u # t
      <4>1. catalogue'[u] = catalogue[u]
        BY <3>2, <1>2
      <4>. DEFINE q == catalogue[u].process
      <4>2. q \in Processes /\ Accounted(q)
        BY <4>1, <2>1 DEF MuxInv, RunningAccounted
      <4>3. u \in Recorded
        BY <4>1, <2>1 DEF Recorded
      <4>4. q # catalogue[t].process
        BY <4>2, <4>3, <3>2, <1>4, <1>9 DEF MuxInv, OneRecord
      <4>. QED BY <4>1, <4>2, <4>4
    <3>. QED BY <3>1, <3>2
  <2>2. ASSUME NEW d \in Recording' PROVE Accounted(call[d].target.process)'
    <3>1. d \in Recording /\ call'[d] = call[d]
      OBVIOUS
    <3>. DEFINE q == call[d].target.process
    <3>2. q \in Processes /\ Naming(q) = {} /\ Accounted(q)
      BY <3>1, <1>8 DEF MuxInv, RunningAccounted
    <3>3. q # catalogue[t].process
      BY <3>2, <1>4, <1>9 DEF Naming
    <3>. QED BY <3>1, <3>2, <3>3
  <2>. QED BY <2>1, <2>2
<1>. QED BY <1>6, <1>7, <1>10, <1>11, <1>12, <1>13, <1>14

LEMMA ExitsKept ==
  ASSUME TypeOK, TypeOK', Moves, Ebbs, ExitsOver, UNCHANGED <<events, listener>>
  PROVE  ExitsOver'
<1>1. \A p \in Processes : Over(p) => Over(p)'
  BY DEF Ebbs, Over, Alive, Processes, NoProcess
<1>2. \A i \in DOMAIN events : events[i] \in Processes
  BY DEF TypeOK
<1>3. listener.target \in Targets
  BY DEF TypeOK
<1>4. listener.at = "found" => Known(listener.target)'
  <2>. SUFFICES ASSUME listener.at = "found" PROVE Known(listener.target)'
    OBVIOUS
  <2>. DEFINE x == listener.target
  <2>1. Known(x) /\ x \in Targets
    BY <1>3 DEF ExitsOver
  <2>. QED BY <2>1, KnownKept
<1>. QED BY <1>1, <1>2, <1>4 DEF ExitsOver

LEMMA RenameKeeps ==
  ASSUME MuxInv, NEW t \in Terminals, Rename(t)
  PROVE  MuxInv'
<1>0. /\ up /\ t \in Recorded
      /\ catalogue' = [catalogue EXCEPT ![t].revision = @ + 1]
      /\ UNCHANGED <<process, call, events, listener, up, stray, missed, commands, faults, crashes>>
      /\ renames' = renames + 1
  BY DEF Rename, listening, histories
<1>1. /\ catalogue'[t].status = catalogue[t].status /\ catalogue'[t].process = catalogue[t].process
      /\ catalogue'[t].revision = catalogue[t].revision + 1
      /\ \A u \in Terminals \ {t} : catalogue'[u] = catalogue[u]
      /\ catalogue' \in [Terminals -> Records]
  <2>1. catalogue \in [Terminals -> Records] /\ catalogue[t].revision \in Nat
    BY RecordFields DEF MuxInv, TypeOK, Records
  <2>2. catalogue'[t] = [status |-> catalogue[t].status, process |-> catalogue[t].process,
                         revision |-> catalogue[t].revision + 1,
                         archived |-> catalogue[t].archived]
    BY <1>0, <2>1 DEF Records
  <2>3. \A u \in Terminals \ {t} : catalogue'[u] = catalogue[u]
    BY <1>0, <2>1
  <2>4. catalogue'[t] \in Records
    BY <2>1, <2>2 DEF Records
  <2>5. catalogue' \in [Terminals -> Records]
    BY <1>0, <2>1, <2>3, <2>4
  <2>. QED BY <2>2, <2>3, <2>5
<1>2. TypeOK'
  BY <1>0, <1>1 DEF MuxInv, TypeOK, Records
<1>3. Revised(t)
  BY <1>0, <1>1 DEF Revised, Recorded
<1>4. Moves /\ Ebbs
  BY <1>0, <1>3, RevisedMoves DEF MuxInv, Ebbs, Alive
<1>5. CommandsSound'
  <2>. SUFFICES ASSUME NEW c \in Callers PROVE CommandSound(call[c])'
    BY DEF CommandsSound
  <2>. DEFINE k == call[c]
  <2>1. k \in Commands /\ CommandSound(k)
    BY CommandFields DEF MuxInv, CommandsSound
  <2>. QED BY <2>1, <1>0, <1>2, <1>4, CommandKept DEF MuxInv
<1>6. OneStarter'
  BY <1>0 DEF MuxInv, OneStarter, Beginning
<1>7. ExitsOver'
  BY <1>0, <1>2, <1>4, ExitsKept DEF MuxInv
<1>8. \A q : Accounted(q) => Accounted(q)'
  BY <1>0 DEF Accounted, Alive
<1>9. catalogue'[t].status = "running" /\ listener # Ended =>
        catalogue[t].process \in Processes /\ Accounted(catalogue[t].process)'
  BY <1>0, <1>1, <1>8 DEF MuxInv, RunningAccounted
<1>10. /\ OneRecord' /\ OneRecorder' /\ RecordsSound' /\ Down' /\ Survivors'
       /\ ProcessesNamed' /\ RunningAccounted'
  <2>. PICK p : p = catalogue'[t].process
    OBVIOUS
  <2>1. ~Live(catalogue'[t]) => ~Alive(p) \/ p \in stray'
    BY <1>0, <1>1 DEF MuxInv, RecordsSound, Live
  <2>2. Recording' = Recording
    BY <1>0 DEF Recording
  <2>3. p = catalogue[t].process
    BY <1>1
  <2>4. catalogue'[t].status = "running" /\ listener' # Ended => p \in Processes /\ Accounted(p)'
    BY <1>0, <1>9, <2>3
  <2>. QED BY <1>0, <1>2, <1>3, <1>8, <2>1, <2>2, <2>3, <2>4, RevisedKeeps
<1>. QED BY <1>2, <1>5, <1>6, <1>7, <1>10 DEF MuxInv

LEMMA CreateTerminalKeeps ==
  ASSUME MuxInv, NEW c \in Callers, CreateTerminal(c)
  PROVE  MuxInv'
<1>. PICK t \in Terminals \ Recorded :
       /\ catalogue' = Updated(t, "created", NoProcess)
       /\ Begin(c, OnOne("create", Target(t, 1, NoProcess), FALSE, "start"))
  BY DEF CreateTerminal
<1>. DEFINE k == OnOne("create", Target(t, 1, NoProcess), FALSE, "start")
<1>0. /\ up /\ call[c] = Idle
      /\ call' = [call EXCEPT ![c] = k]
      /\ UNCHANGED <<process, events, listener, up, stray, missed, renames, faults, crashes>>
      /\ commands' = commands + 1
  BY DEF Begin, listening, histories
<1>1. /\ k = [at |-> "start", op |-> "create", target |-> Target(t, 1, NoProcess),
              left |-> {}, seen |-> {}]
      /\ k.at = "start" /\ k.op = "create" /\ k.left = {} /\ k.seen = {}
      /\ k.target.terminal = t /\ k.target.revision = 1 /\ k.target.process = NoProcess
  BY DEF OnOne, Target
<1>. HIDE DEF k
<1>2. k \in Commands
  BY <1>1 DEF Commands, Targets, Target
<1>3. call'[c] = k /\ Others(c) /\ call' \in [Callers -> Commands]
  BY <1>0, <1>2, GoesOn DEF MuxInv
<1>4. /\ catalogue'[t].status = "created" /\ catalogue'[t].process = NoProcess
      /\ catalogue'[t].revision = catalogue[t].revision + 1
      /\ \A u \in Terminals \ {t} : catalogue'[u] = catalogue[u]
      /\ catalogue' \in [Terminals -> Records]
      /\ \A u \in Terminals : catalogue'[u].status = "disconnected" => catalogue'[u].process = NoProcess
      /\ Moves /\ Recorded' = Recorded \cup {t}
  BY UpdatedFields DEF MuxInv
<1>5. TypeOK'
  BY <1>0, <1>3, <1>4 DEF MuxInv, TypeOK, Records, Commands
<1>6. catalogue[t].revision = 0 /\ catalogue[t].process = NoProcess
  BY DEF MuxInv, RecordsSound, Recorded, NoRecord
<1>7. Revised(t)
  BY <1>4 DEF Revised
<1>8. Ebbs
  BY <1>0 DEF Ebbs, Alive
<1>9. CommandsSound'
  <2>1. Known(k.target)'
    BY <1>1, <1>4, <1>6 DEF Known, Current
  <2>2. CommandSound(k)'
    BY <1>1, <2>1 DEF CommandSound, Shape, Knows, Starts, Handles, Alive
  <2>3. CommandSound(call[c])'
    BY <1>3, <2>2
  <2>. QED BY <1>3, <1>4, <1>5, <1>8, <2>3, CommandsKept DEF MuxInv
<1>10. /\ Beginning' = Beginning /\ Recording' = Recording
       /\ \A d \in Beginning : call'[d] = call[d]
       /\ \A d \in Recording : call'[d] = call[d]
  BY <1>0, <1>1, <1>3, OthersRecord DEF Idle, Beginning, Recording
<1>11. OneStarter'
  BY <1>10 DEF MuxInv, OneStarter
<1>12. ExitsOver'
  BY <1>0, <1>4, <1>5, <1>8, ExitsKept DEF MuxInv
<1>13. \A d \in Callers : call'[d].seen \subseteq call[d].seen
  BY <1>1, <1>3 DEF Others
<1>14. \A q \in Processes : Accounted(q) => Accounted(q)'
  <2>1. \A d \in Callers, q \in Processes : q \in Owed(call[d]) => q \in Owed(call'[d])
    <3>. SUFFICES ASSUME NEW d \in Callers, NEW q \in Processes, q \in Owed(call[d])
                  PROVE  q \in Owed(call'[d])
      OBVIOUS
    <3>1. d # c
      BY <1>0 DEF Owed, Idle
    <3>. QED BY <3>1, <1>3 DEF Others
  <2>. QED BY <2>1, <1>0 DEF Accounted, Alive
<1>15. /\ OneRecord' /\ OneRecorder' /\ RecordsSound' /\ Down' /\ Survivors'
       /\ ProcessesNamed' /\ RunningAccounted'
  <2>. PICK p : p = NoProcess
    OBVIOUS
  <2>1. ~Alive(p)
    BY NobodyAlive
  <2>2. p = catalogue'[t].process /\ p = catalogue[t].process
    BY <1>4, <1>6
  <2>3. catalogue'[t].status # "running"
    BY <1>4
  <2>. QED BY <1>0, <1>5, <1>7, <1>10, <1>13, <1>14, <2>1, <2>2, <2>3, RevisedKeeps
<1>. QED BY <1>5, <1>9, <1>11, <1>12, <1>15 DEF MuxInv

-----------------------------------------------------------------------------
(* Commands fail *)

LEMMA FailKeeps ==
  ASSUME MuxInv, NEW c \in Callers, Fail(c, process'),
         call[c].at \in {"dispose", "start", "record", "fail", "cancel", "close"},
         UNCHANGED <<catalogue, events, listener, up, renames, commands, crashes>>,
         faults' \in Nat,
         process' \in [Processes -> {"unused", "running", "exited", "gone", "stuck", "dead", "stale"}],
         stray \subseteq stray', stray' \subseteq Processes,
         call[c].at = "record" => call[c].target.process \in stray',
         \A q \in Processes :
           \/ process'[q] = process[q]
           \/ /\ q \in call[c].seen
              /\ \/ process[q] = "running" /\ process'[q] \in {"stuck", "dead"}
                 \/ process[q] = "exited" /\ process'[q] = "dead"
  PROVE  MuxInv'
<1>. PICK k : k = IF call[c].op = "session" THEN [call[c] EXCEPT !.at = "next"] ELSE Idle
  OBVIOUS
<1>. DEFINE lost == {p \in call[c].seen : process'[p] \in {"gone", "stuck", "dead"}}
<1>0. call' = [call EXCEPT ![c] = k] /\ missed' = missed \cup lost
  BY DEF Fail
<1>1. /\ call[c] \in Commands /\ call[c].left \subseteq Targets /\ call[c].seen \subseteq Processes
      /\ call[c].target \in Targets
  BY CommandFields DEF MuxInv
<1>3. /\ call[c].op = "session" =>
           /\ k \in Commands /\ k.at = "next" /\ k.op = "session" /\ k.target = call[c].target
           /\ k.left = call[c].left /\ k.seen = call[c].seen
      /\ call[c].op # "session" =>
           /\ k \in Commands /\ k.at = "idle" /\ k.op = "none" /\ k.target = NoTarget
           /\ k.left = {} /\ k.seen = {} /\ k = Idle
  <2>1. Idle \in Commands
    BY DEF Idle, Commands, NoTarget, Target, Targets
  <2>2. CASE call[c].op = "session"
    BY <2>2, <1>1 DEF Commands
  <2>. QED BY <2>1, <2>2 DEF Idle
<1>4. call'[c] = k /\ Others(c) /\ call' \in [Callers -> Commands]
  BY <1>0, <1>3, GoesOn DEF MuxInv
<1>5. TypeOK'
  <2>1. missed' \subseteq Processes
    BY <1>0, <1>1 DEF MuxInv, TypeOK
  <2>2. {renames', commands', faults', crashes'} \subseteq Nat
    BY DEF MuxInv, TypeOK
  <2>. QED BY <1>4, <2>1, <2>2 DEF MuxInv, TypeOK, Commands
<1>6. Moves
  BY DEF Moves, Recorded
<1>7. Ebbs
  BY DEF Ebbs, Alive
<1>8. CommandsSound'
  <2>1. CommandSound(call[c])
    BY DEF MuxInv, CommandsSound
  <2>2. Shape(k)
    BY <1>3 DEF Shape
  <2>3. Knows(k)
    BY <1>3, <2>1 DEF CommandSound, Knows
  <2>4. Starts(k)
    BY <1>3 DEF Starts
  <2>5. Handles(k)
    BY <1>3, <2>1 DEF CommandSound, Handles
  <2>6. CommandSound(k)
    BY <2>2, <2>3, <2>4, <2>5 DEF CommandSound
  <2>7. CommandSound(k)'
    BY <2>6, <1>3, <1>5, <1>6, <1>7, CommandKept DEF MuxInv
  <2>8. CommandSound(call[c])'
    BY <2>7, <1>4
  <2>. QED BY <1>4, <1>5, <1>6, <1>7, <2>8, CommandsKept DEF MuxInv
<1>9. /\ Beginning' = Beginning \ {c} /\ Recording' = Recording \ {c}
      /\ \A d \in Recording' : call'[d] = call[d]
      /\ \A d \in Beginning' : call'[d] = call[d]
  BY <1>3, <1>4, OthersRecord
<1>10. OneStarter'
  BY <1>9 DEF MuxInv, OneStarter
<1>11. OneRecord'
  BY DEF MuxInv, OneRecord, Recorded
<1>12. \A d \in Callers : call'[d].seen \subseteq call[d].seen
  BY <1>3, <1>4, ZenonT(60) DEF Others
<1>13. OneRecorder'
  BY <1>9, <1>12 DEF MuxInv, OneRecorder, Naming, Recorded
<1>14. RecordsSound'
  <2>. SUFFICES ASSUME NEW t \in Terminals
                PROVE  /\ catalogue[t].process # NoProcess => process'[catalogue[t].process] # "unused"
                       /\ ~Live(catalogue[t]) =>
                            ~Alive(catalogue[t].process)' \/ catalogue[t].process \in stray'
    BY DEF MuxInv, RecordsSound, Live
  <2>1. catalogue[t].process \in Processes \cup {NoProcess}
    BY RecordFields DEF MuxInv
  <2>. QED BY <2>1, <1>7, NobodyAlive DEF MuxInv, RecordsSound, Ebbs
<1>15. ExitsOver'
  BY <1>5, <1>6, <1>7, ExitsKept DEF MuxInv
<1>16. up
  BY DEF MuxInv, Down, Idle
<1>17. Down' /\ Survivors'
  BY <1>16 DEF MuxInv, Down, Survivors
<1>18. ProcessesNamed'
  <2>. SUFFICES ASSUME NEW q \in Processes, Alive(q)', q \notin stray'
                PROVE  \/ \E t \in Naming(q)' : Live(catalogue'[t])
                       \/ \E d \in Recording' : call'[d].target.process = q
    BY DEF ProcessesNamed
  <2>1. Alive(q) /\ q \notin stray
    BY DEF Alive
  <2>2. CASE \E t \in Naming(q) : Live(catalogue[t])
    BY <2>2 DEF Naming, Recorded
  <2>3. CASE \E d \in Recording : call[d].target.process = q
    BY <2>3, <1>9 DEF Recording
  <2>. QED BY <2>1, <2>2, <2>3, <1>16 DEF MuxInv, ProcessesNamed
<1>19. \A q \in Processes : Accounted(q) => Accounted(q)'
  <2>. SUFFICES ASSUME NEW q \in Processes, Accounted(q), q \notin missed' PROVE Accounted(q)'
    BY DEF Accounted
  <2>1. CASE Alive(q)
    <3>1. process'[q] = process[q]
      BY <2>1, <1>0 DEF Alive
    <3>. QED BY <3>1, <2>1 DEF Accounted, Alive
  <2>2. CASE process[q] \in {"gone", "dead"} /\ \E d \in Callers : q \in Owed(call[d])
    <3>1. process'[q] = process[q]
      BY <2>2
    <3>2. PICK d \in Callers : q \in Owed(call[d])
      BY <2>2
    <3>3. q \in Owed(call'[d])
      <4>1. CASE d # c
        BY <4>1, <3>2, <1>4 DEF Others
      <4>2. CASE d = c
        <5>1. q \notin call[c].seen
          BY <3>1, <2>2, <1>0
        <5>2. call[c].op = "session"
          BY <5>1, <4>2, <3>2 DEF Owed
        <5>3. call[c].at \in {"dispose", "cancel"} => call[c].target.process # q
          BY <5>1 DEF MuxInv, CommandsSound, CommandSound, Knows, Processes, NoProcess
        <5>4. q \in {x.process : x \in call[c].left}
          BY <5>2, <5>3, <4>2, <3>2 DEF Owed
        <5>. QED BY <5>2, <5>4, <4>2, <1>3, <1>4 DEF Owed
      <4>. QED BY <4>1, <4>2
    <3>. QED BY <2>2, <3>1, <3>3 DEF Accounted
  <2>. QED BY <2>1, <2>2, <1>0 DEF Accounted
<1>20. RunningAccounted'
  <2>1. \A d \in Recording : call[d].target.process \in Processes
    BY DEF MuxInv, CommandsSound, CommandSound, Shape, Recording
  <2>. QED BY <1>9, <1>19, <2>1 DEF MuxInv, RunningAccounted
<1>. QED BY <1>5, <1>8, <1>10, <1>11, <1>13, <1>14, <1>15, <1>17, <1>18, <1>20 DEF MuxInv

-----------------------------------------------------------------------------
(* Commands go on: the next terminal, and disposing of its process *)

LEMMA GoingOnKeeps ==
  ASSUME MuxInv, NEW c \in Callers, NEW k \in Commands, call' = [call EXCEPT ![c] = k],
         UNCHANGED <<catalogue, events, listener, up, stray, missed, renames, commands,
                     faults, crashes>>,
         process' \in [Processes -> {"unused", "running", "exited", "gone", "stuck", "dead", "stale"}],
         call[c].at \in {"next", "dispose"}, k.at \notin {"spawn", "record", "fail"},
         TypeOK' => CommandSound(k)',
         k.seen \subseteq call[c].seen,
         \A q \in Processes :
           \/ process'[q] = process[q]
           \/ process[q] \in {"running", "exited"} /\ process'[q] = "gone" /\ q \in Owed(k),
         \A q \in Processes : q \in Owed(call[c]) => q \in Owed(k)
  PROVE  MuxInv'
<1>1. call'[c] = k /\ Others(c) /\ call' \in [Callers -> Commands]
  BY GoesOn DEF MuxInv
<1>2. TypeOK'
  BY <1>1 DEF MuxInv, TypeOK, Commands
<1>3. Moves
  BY DEF Moves, Recorded
<1>4. Ebbs
  BY DEF Ebbs, Alive
<1>5. CommandsSound'
  <2>1. CommandSound(call[c])'
    BY <1>1, <1>2
  <2>. QED BY <1>1, <1>2, <1>3, <1>4, <2>1, CommandsKept DEF MuxInv
<1>6. /\ Beginning' = Beginning /\ Recording' = Recording
      /\ \A d \in Recording : call'[d] = call[d]
      /\ \A d \in Beginning : call'[d] = call[d]
  <2>1. c \notin Beginning /\ c \notin Recording
    BY DEF Beginning, Recording
  <2>2. call'[c].at \notin {"spawn", "record", "fail"}
    BY <1>1
  <2>3. /\ Beginning' = Beginning \ {c} /\ Recording' = Recording \ {c}
        /\ \A d \in Recording' : call'[d] = call[d]
        /\ \A d \in Beginning' : call'[d] = call[d]
    BY <2>2, <1>1, OthersRecord
  <2>. QED BY <2>1, <2>3
<1>7. OneStarter' /\ OneRecord'
  BY <1>6 DEF MuxInv, OneStarter, OneRecord, Recorded
<1>8. \A d \in Callers : call'[d].seen \subseteq call[d].seen
  BY <1>1 DEF Others
<1>9. OneRecorder'
  BY <1>6, <1>8 DEF MuxInv, OneRecorder, Naming, Recorded
<1>10. RecordsSound'
  <2>. SUFFICES ASSUME NEW t \in Terminals
                PROVE  /\ catalogue[t].process # NoProcess => process'[catalogue[t].process] # "unused"
                       /\ ~Live(catalogue[t]) =>
                            ~Alive(catalogue[t].process)' \/ catalogue[t].process \in stray
    BY DEF MuxInv, RecordsSound, Live
  <2>1. catalogue[t].process \in Processes \cup {NoProcess}
    BY RecordFields DEF MuxInv
  <2>. QED BY <2>1, <1>4, NobodyAlive DEF MuxInv, RecordsSound, Ebbs
<1>11. ExitsOver'
  BY <1>2, <1>3, <1>4, ExitsKept DEF MuxInv
<1>12. up
  BY DEF MuxInv, Down, Idle
<1>13. Down' /\ Survivors'
  BY <1>12 DEF MuxInv, Down, Survivors
<1>14. ProcessesNamed'
  <2>. SUFFICES ASSUME NEW q \in Processes, Alive(q)', q \notin stray
                PROVE  \/ \E t \in Naming(q)' : Live(catalogue'[t])
                       \/ \E d \in Recording' : call'[d].target.process = q
    BY DEF ProcessesNamed
  <2>1. Alive(q)
    BY DEF Alive
  <2>2. CASE \E t \in Naming(q) : Live(catalogue[t])
    BY <2>2 DEF Naming, Recorded
  <2>3. CASE \E d \in Recording : call[d].target.process = q
    BY <2>3, <1>6
  <2>. QED BY <2>1, <2>2, <2>3, <1>12 DEF MuxInv, ProcessesNamed
<1>15. \A q \in Processes : Accounted(q) => Accounted(q)'
  <2>. SUFFICES ASSUME NEW q \in Processes, Accounted(q) PROVE Accounted(q)'
    OBVIOUS
  <2>0. \A d \in Callers : q \in Owed(call[d]) => q \in Owed(call'[d])
    BY <1>1 DEF Others
  <2>1. CASE process'[q] = process[q]
    BY <2>0, <2>1 DEF Accounted, Alive
  <2>2. CASE process'[q] = "gone" /\ q \in Owed(k)
    BY <2>2, <1>1 DEF Accounted
  <2>. QED BY <2>1, <2>2
<1>16. RunningAccounted'
  <2>1. \A d \in Recording : call[d].target.process \in Processes
    BY SMTT(30) DEF MuxInv, CommandsSound, CommandSound, Shape, Recording
  <2>. QED BY <1>6, <1>15, <2>1, SMTT(30) DEF MuxInv, RunningAccounted
<1>. QED BY <1>2, <1>5, <1>7, <1>9, <1>10, <1>11, <1>13, <1>14, <1>16 DEF MuxInv

LEMMA NextTargetKeeps ==
  ASSUME MuxInv, NEW c \in Callers, NextTarget(c)
  PROVE  MuxInv'
<1>. DEFINE b == call[c]
<1>0. /\ b.at = "next" /\ b.op \in {"tab", "keepTab", "session"}
      /\ UNCHANGED <<catalogue, process, events, listener, up, stray, missed, renames, commands,
                     faults, crashes>>
  BY DEF NextTarget, MuxInv, CommandsSound, CommandSound, Shape, listening, histories
<1>1. /\ b \in Commands /\ b.left \subseteq Targets /\ b.seen \subseteq Processes
      /\ b.target \in Targets
  BY CommandFields DEF MuxInv
<1>2. Shape(b) /\ Knows(b) /\ Handles(b)
  BY DEF MuxInv, CommandsSound, CommandSound
<1>3. process' \in [Processes -> {"unused", "running", "exited", "gone", "stuck", "dead", "stale"}]
  BY <1>0 DEF MuxInv, TypeOK
<1>4. NoProcess \notin Processes
  BY DEF NoProcess, Processes
<1>5. ASSUME NEW k \in Commands, CommandSound(k), TypeOK'
      PROVE  CommandSound(k)'
  <2>1. Moves /\ Ebbs
    BY <1>0 DEF Moves, Ebbs, Alive, Recorded
  <2>. QED BY <1>5, <2>1, CommandKept DEF MuxInv
<1>6. CASE \E x \in b.left :
             call' = [call EXCEPT ![c].target = x, ![c].left = @ \ {x},
                                  ![c].at = IF x.process # NoProcess THEN "dispose"
                                            ELSE IF call[c].op = "session" THEN "cancel" ELSE "next"]
  <2>. PICK x \in b.left :
         call' = [call EXCEPT ![c].target = x, ![c].left = @ \ {x},
                              ![c].at = IF x.process # NoProcess THEN "dispose"
                                        ELSE IF call[c].op = "session" THEN "cancel" ELSE "next"]
    BY <1>6
  <2>. PICK at : at = IF x.process # NoProcess THEN "dispose"
                      ELSE IF call[c].op = "session" THEN "cancel" ELSE "next"
    OBVIOUS
  <2>. PICK k : k = [at |-> at, op |-> b.op, target |-> x, left |-> b.left \ {x}, seen |-> b.seen]
    OBVIOUS
  <2>1. /\ k.at = at /\ k.op = b.op /\ k.target = x /\ k.left = b.left \ {x} /\ k.seen = b.seen
        /\ x \in Targets /\ x.process \in Processes \cup {NoProcess}
    BY <1>1 DEF Targets
  <2>2. /\ at \in {"dispose", "cancel", "next"}
        /\ at = "dispose" <=> x.process # NoProcess
        /\ at = "cancel" => b.op = "session"
        /\ at = "next" => b.op \in {"tab", "keepTab"}
    BY <1>0
  <2>3. k \in Commands
    BY <1>1, <2>1, <2>2 DEF Commands
  <2>4. call' = [call EXCEPT ![c] = k]
    <3>1. call \in [Callers -> Commands]
      BY DEF MuxInv, TypeOK, Commands
    <3>. QED BY <3>1 DEF Commands
  <2>5. Shape(k)
    BY <1>0, <1>2, <2>1, <2>2 DEF Shape
  <2>6. Knows(k)
    BY <1>2, <2>1, <2>2 DEF Knows
  <2>7. Starts(k)
    BY <2>1, <2>2 DEF Starts
  <2>8. Handles(k)
    <3>1. k.at = "cancel" => ~Alive(k.target.process)
      BY <2>1, <2>2, NobodyAlive
    <3>2. \A p \in Processes : p \in Undone(b) => p \in Undone(k)
      BY <1>0, <1>4, <2>1, <2>2 DEF Undone
    <3>3. k.op \in {"close", "tab", "keepTab"} =>
             \A p \in k.seen : ~Alive(p) \/ p \in stray \/ p \in Undone(k)
      BY <1>1, <1>2, <2>1, <3>2 DEF Handles
    <3>. QED BY <1>2, <2>1, <2>2, <3>1, <3>3 DEF Handles
  <2>9. \A q \in Processes : q \in Owed(b) => q \in Owed(k)
    BY <1>0, <1>4, <2>1, <2>2 DEF Owed
  <2>10. CommandSound(k)
    BY <2>5, <2>6, <2>7, <2>8 DEF CommandSound
  <2>. QED BY <1>0, <1>3, <1>5, <2>1, <2>2, <2>3, <2>4, <2>9, <2>10, GoingOnKeeps
<1>7. CASE b.left = {} /\ call' = [call EXCEPT ![c] =
             IF @.op = "session" THEN Idle ELSE [@ EXCEPT !.at = "close"]]
  <2>. PICK k : k = IF b.op = "session" THEN Idle ELSE [b EXCEPT !.at = "close"]
    OBVIOUS
  <2>1. call' = [call EXCEPT ![c] = k]
    BY <1>7
  <2>2. Idle \in Commands
    BY DEF Idle, Commands, NoTarget, Target, Targets
  <2>3. CASE b.op = "session"
    <3>1. CommandSound(k)
      BY <2>3 DEF CommandSound, Shape, Knows, Starts, Handles, Idle
    <3>2. k.at = "idle" /\ k.seen = {} /\ Owed(b) = {}
      BY <1>0, <1>7, <2>3 DEF Idle, Owed
    <3>. QED BY <1>0, <1>3, <1>5, <2>1, <2>2, <2>3, <3>1, <3>2, GoingOnKeeps
  <2>4. CASE b.op # "session"
    <3>1. /\ k \in Commands /\ k.at = "close" /\ k.op = b.op /\ k.target = b.target
          /\ k.left = {} /\ k.seen = b.seen
      BY <1>1, <1>7, <2>4 DEF Commands
    <3>2. Shape(k) /\ Knows(k) /\ Starts(k) /\ Handles(k)
      BY <1>0, <1>2, <1>7, <2>4, <3>1 DEF Shape, Knows, Starts, Handles, Undone
    <3>3. CommandSound(k)
      BY <3>2 DEF CommandSound
    <3>4. Owed(b) = Owed(k)
      BY <1>0, <2>4, <3>1 DEF Owed
    <3>. QED BY <1>0, <1>3, <1>5, <2>1, <3>1, <3>3, <3>4, GoingOnKeeps
  <2>. QED BY <2>3, <2>4
<1>. QED BY <1>6, <1>7, ZenonT(60) DEF NextTarget

LEMMA DisposeKeeps ==
  ASSUME MuxInv, NEW c \in Callers, Dispose(c)
  PROVE  MuxInv'
<1>. DEFINE b == call[c]
            states == {"unused", "running", "exited", "gone", "stuck", "dead", "stale"}
<1>0. b.at = "dispose" /\ UNCHANGED <<catalogue, events, listener, up, stray, renames, commands, crashes>>
  BY DEF Dispose, listening
<1>1. /\ b \in Commands /\ b.left \subseteq Targets /\ b.seen \subseteq Processes
      /\ b.target \in Targets
  BY CommandFields DEF MuxInv
<1>2. Shape(b) /\ Knows(b) /\ Handles(b)
  BY DEF MuxInv, CommandsSound, CommandSound
<1>. PICK p : p = b.target.process
  OBVIOUS
<1>3. p \in Processes /\ p \in b.seen /\ p # NoProcess
  BY <1>0, <1>2 DEF Shape, Knows, Processes, NoProcess
<1>4. process \in [Processes -> states] /\ faults \in Nat /\ stray \subseteq Processes
  BY SMTT(30) DEF MuxInv, TypeOK
<1>5. CASE /\ process[p] \notin {"stuck", "dead"}
           /\ process' = [process EXCEPT ![p] = IF @ \in {"running", "exited"} THEN "gone" ELSE @]
           /\ call' = [call EXCEPT ![c].at = AfterDispose(call[c].op)]
           /\ UNCHANGED <<missed, faults>>
  <2>. PICK at : at = AfterDispose(b.op)
    OBVIOUS
  <2>1. /\ b.op \in {"restart", "stop", "close", "tab", "session"}
        /\ b.op = "restart" => at = "start"
        /\ b.op = "stop" => at = "cancel"
        /\ b.op = "session" => at = "cancel"
        /\ b.op = "close" => at = "close"
        /\ b.op = "tab" => at = "next"
    BY <1>0, <1>2 DEF Shape, AfterDispose
  <2>. PICK k : k = [b EXCEPT !.at = at]
    OBVIOUS
  <2>2. /\ k.at = at /\ k.op = b.op /\ k.target = b.target /\ k.left = b.left /\ k.seen = b.seen
        /\ k \in Commands
    BY <1>1, <2>1 DEF Commands
  <2>3. call' = [call EXCEPT ![c] = k]
    BY <1>5 DEF MuxInv, TypeOK
  <2>4. /\ process' \in [Processes -> states]
        /\ \A q \in Processes : q # p => process'[q] = process[q]
        /\ process'[p] = process[p] \/ (process[p] \in {"running", "exited"} /\ process'[p] = "gone")
        /\ process'[p] \notin {"running", "stuck"}
    BY <1>3, <1>4, <1>5
  <2>5. Shape(k)
    BY <1>0, <1>2, <2>1, <2>2, <1>3 DEF Shape
  <2>6. Knows(k) /\ Starts(k)
    BY <1>0, <1>2, <2>1, <2>2 DEF Knows, Starts, Known, Recorded
  <2>7. Knows(k)' /\ Starts(k)' /\ Shape(k)'
    BY <1>0, <2>1, <2>2, <2>5, <2>6 DEF Shape, Knows, Starts, Known, Recorded, Current, Terminals
  <2>8. ~Alive(p)'
    BY <2>4 DEF Alive
  <2>9. \A q \in Processes : (~Alive(q) => ~Alive(q)') /\ (process[q] # "unused" => process'[q] # "unused")
    BY <2>4 DEF Alive
  <2>10. Handles(k)'
    <3>1. \A q \in k.seen : process'[q] # "unused"
      BY <1>1, <1>2, <2>2, <2>9 DEF Handles
    <3>2. k.at \in {"start", "cancel", "spawn", "fail"} => ~Alive(k.target.process)'
      BY <2>2, <2>8
    <3>3. \A q \in Processes : q \in Undone(b) => q \in Undone(k) \/ q = p
      BY <1>0, <2>2 DEF Undone
    <3>4. k.op \in {"close", "tab", "keepTab"} =>
            \A q \in k.seen : ~Alive(q)' \/ q \in stray' \/ q \in Undone(k)
      BY <1>0, <1>1, <1>2, <2>2, <2>8, <2>9, <3>3 DEF Handles
    <3>. QED BY <2>1, <2>2, <3>1, <3>2, <3>4 DEF Handles, Undone
  <2>11. CommandSound(k)'
    BY <2>7, <2>10 DEF CommandSound
  <2>12. p \in Owed(k) /\ \A q \in Processes : q \in Owed(b) => q \in Owed(k)
    BY <1>0, <1>3, <2>1, <2>2 DEF Owed
  <2>13. \A q \in Processes :
           \/ process'[q] = process[q]
           \/ process[q] \in {"running", "exited"} /\ process'[q] = "gone" /\ q \in Owed(k)
    BY <2>4, <2>12
  <2>14. k.at \notin {"spawn", "record", "fail"}
    BY <2>1, <2>2
  <2>. QED BY <1>0, <1>5, <2>2, <2>3, <2>4, <2>11, <2>12, <2>13, <2>14, GoingOnKeeps
<1>6. CASE process[p] \in {"stuck", "dead"} /\ Fail(c, process) /\ UNCHANGED <<process, faults>>
  <2>1. Fail(c, process')
    BY <1>6 DEF Fail
  <2>. QED BY <1>0, <1>4, <1>6, <2>1, FailKeeps
<1>7. CASE /\ process[p] \in {"running", "exited"}
           /\ Fault
           /\ \E outcome \in {process[p], "dead", IF Alive(p) THEN "stuck" ELSE "dead"} :
                /\ process' = [process EXCEPT ![p] = outcome]
                /\ Fail(c, [process EXCEPT ![p] = outcome])
  <2>. PICK outcome \in {process[p], "dead", IF Alive(p) THEN "stuck" ELSE "dead"} :
                /\ process' = [process EXCEPT ![p] = outcome]
                /\ Fail(c, [process EXCEPT ![p] = outcome])
    BY <1>7
  <2>1. Fail(c, process')
    OBVIOUS
  <2>2. outcome = process[p] \/ outcome = "dead" \/ (outcome = "stuck" /\ process[p] = "running")
    BY <1>7 DEF Alive
  <2>3. /\ process' \in [Processes -> states]
        /\ \A q \in Processes \ {p} : process'[q] = process[q]
        /\ process'[p] = outcome
    BY <1>3, <1>4, <2>2
  <2>4. faults' \in Nat
    BY <1>4, <1>7 DEF Fault
  <2>5. \A q \in Processes :
           \/ process'[q] = process[q]
           \/ /\ q \in call[c].seen
              /\ \/ process[q] = "running" /\ process'[q] \in {"stuck", "dead"}
                 \/ process[q] = "exited" /\ process'[q] = "dead"
    BY <1>3, <1>7, <2>2, <2>3
  <2>. QED BY <1>0, <1>4, <2>1, <2>3, <2>4, <2>5, FailKeeps
<1>. QED BY <1>5, <1>6, <1>7 DEF Dispose

-----------------------------------------------------------------------------
(* Commands update a record *)

LEMMA UpdateKeeps ==
  ASSUME MuxInv, NEW c \in Callers, NEW k \in Commands, call' = [call EXCEPT ![c] = k],
         NEW x, x = call[c].target, Current(x),
         call[c].at \in {"start", "record", "fail", "cancel"},
         NEW s \in {"starting", "running", "ended", "cancelled"},
         s = "running" <=> call[c].at = "record",
         s \in {"ended", "cancelled"} => ~Alive(x.process),
         catalogue' = Updated(x.terminal, s, x.process),
         UNCHANGED <<process, events, listener, up, stray, missed, renames, commands,
                     faults, crashes>>,
         k.at \in {"idle", "next", "spawn"},
         k.at = "spawn" => /\ k.target.terminal = x.terminal
                           /\ k.target.revision = x.revision + 1,
         TypeOK' /\ Moves /\ catalogue'[x.terminal].status = s
                 /\ catalogue'[x.terminal].process = x.process
                 /\ catalogue'[x.terminal].revision = x.revision + 1
                 /\ x.terminal \in Recorded' => CommandSound(k)',
         k.seen \subseteq call[c].seen,
         \A q \in Processes : q \in Owed(call[c]) => q \in Owed(k) \/ q = x.process
  PROVE  MuxInv'
<1>. PICK t : t = x.terminal
  OBVIOUS
<1>0. CommandSound(call[c])
  BY DEF MuxInv, CommandsSound
<1>1. /\ t \in Recorded /\ t \in Terminals
      /\ x.process \in Processes \cup {NoProcess}
      /\ x.revision = catalogue[t].revision /\ catalogue[t].revision \in Nat
  <2>1. t \in Recorded
    BY <1>0 DEF CommandSound, Knows, Starts, Known
  <2>2. t \in Terminals
    BY <2>1, SMTT(30) DEF Recorded
  <2>. QED BY <2>1, <2>2, CommandFields, RecordFields, SMTT(30) DEF MuxInv, Current
<1>2. /\ catalogue'[t].status = s /\ catalogue'[t].process = x.process
      /\ catalogue'[t].revision = catalogue[t].revision + 1
      /\ \A u \in Terminals \ {t} : catalogue'[u] = catalogue[u]
      /\ catalogue' \in [Terminals -> Records]
      /\ \A u \in Terminals : catalogue'[u].status = "disconnected" => catalogue'[u].process = NoProcess
      /\ Moves /\ Recorded' = Recorded \cup {t}
  <2>. PICK p : p = x.process
    OBVIOUS
  <2>1. catalogue' = Updated(t, s, p) /\ p \in Processes \cup {NoProcess}
    BY <1>1
  <2>2. s \in {"created", "starting", "running", "ended", "cancelled"}
    OBVIOUS
  <2>3. TypeOK /\ t \in Terminals
    BY <1>1 DEF MuxInv
  <2>4. /\ catalogue'[t].status = s /\ catalogue'[t].process = p
        /\ catalogue'[t].revision = catalogue[t].revision + 1
        /\ \A u \in Terminals \ {t} : catalogue'[u] = catalogue[u]
        /\ catalogue' \in [Terminals -> Records]
        /\ \A u \in Terminals : catalogue'[u].status = "disconnected" => catalogue'[u].process = NoProcess
        /\ Moves /\ Recorded' = Recorded \cup {t}
    BY ONLY <2>1, <2>2, <2>3, UpdatedFields
  <2>. QED BY <2>4, ZenonT(60)
<1>3. call'[c] = k /\ Others(c) /\ call' \in [Callers -> Commands]
  BY GoesOn, ZenonT(60) DEF MuxInv
<1>4. TypeOK'
  BY <1>2, <1>3, ZenonT(60) DEF MuxInv, TypeOK, Records, Commands
<1>5. Revised(t)
  BY <1>2 DEF Revised
<1>6. Ebbs
  BY DEF Ebbs, Alive
<1>7. CommandsSound'
  <2>1. CommandSound(k)'
    BY <1>1, <1>2, <1>4
  <2>2. CommandSound(call[c])'
    BY <1>3, <2>1
  <2>. QED BY <1>2, <1>3, <1>4, <1>6, <2>2, CommandsKept, SMTT(30) DEF MuxInv
<1>8. /\ Beginning' \ {c} = Beginning \ {c} /\ Recording' = Recording \ {c}
      /\ \A d \in Recording' : d # c /\ call'[d] = call[d]
      /\ \A d \in Beginning' \ {c} : call'[d] = call[d]
  BY <1>3 DEF Beginning, Recording, Others
<1>9. OneStarter'
  <2>. SUFFICES ASSUME NEW d \in Beginning', NEW e \in Beginning',
                       call'[d].target.terminal = call'[e].target.terminal,
                       call'[d].target.revision = call'[e].target.revision,
                       d # e
                PROVE  FALSE
    BY SMTT(30) DEF OneStarter
  <2>1. \A f \in Beginning \ {c} : call[f].target.terminal = t => call[f].target.revision <= x.revision
    BY <1>1 DEF MuxInv, CommandsSound, CommandSound, Starts, Beginning
  <2>2. \A f \in Beginning \ {c} : call[f].target.revision \in Nat
    BY CommandFields DEF MuxInv, Beginning
  <2>3. \A f \in Beginning' \ {c} : call[f].target.terminal = t => call[f].target.revision # x.revision + 1
    <3>1. \A m, n \in Nat : m <= n => m # n + 1
      OBVIOUS
    <3>2. x.revision \in Nat
      BY <1>1
    <3>. QED BY <3>1, <3>2, <1>8, <2>1, <2>2
  <2>4. c \in Beginning' => call'[c].target.terminal = t /\ call'[c].target.revision = x.revision + 1
    BY <1>3 DEF Beginning
  <2>5. CASE d = c
    BY <2>5, <2>3, <2>4, <1>8
  <2>6. CASE e = c
    BY <2>6, <2>3, <2>4, <1>8
  <2>7. CASE d # c /\ e # c
    BY <2>7, <1>8, SMTT(30) DEF MuxInv, OneStarter
  <2>. QED BY <2>5, <2>6, <2>7
<1>10. ExitsOver'
  BY <1>2, <1>4, <1>6, ExitsKept DEF MuxInv
<1>11. up
  BY DEF MuxInv, Down, Idle
<1>12. \A d \in Callers : call'[d].seen \subseteq call[d].seen
  BY <1>3, SMTT(30) DEF Others
<1>13. call[c].at # "record" => x.process = catalogue[t].process
  BY <1>0 DEF CommandSound, Knows, Starts, Known
<1>14. call[c].at = "record" =>
         /\ x.process \in Processes /\ x.process # NoProcess
         /\ Naming(x.process) = {} /\ process[x.process] # "unused"
         /\ x.process # catalogue[t].process /\ ~Alive(catalogue[t].process)
         /\ \A d \in Recording : call[d].target.process = x.process => d = c
         /\ Owed(call[c]) = {}
  <2>. SUFFICES ASSUME call[c].at = "record"
                PROVE  /\ x.process \in Processes /\ x.process # NoProcess
                       /\ Naming(x.process) = {} /\ process[x.process] # "unused"
                       /\ x.process # catalogue[t].process /\ ~Alive(catalogue[t].process)
                       /\ \A d \in Recording : call[d].target.process = x.process => d = c
                       /\ Owed(call[c]) = {}
    OBVIOUS
  <2>1. c \in Recording
    BY DEF Recording
  <2>2. x.process \in Processes /\ x.process # NoProcess /\ call[c].op \in {"create", "restart"}
    BY <1>0 DEF CommandSound, Shape, Processes, NoProcess
  <2>3. Naming(x.process) = {} /\ \A d \in Recording : call[d].target.process = x.process => d = c
    BY <2>1 DEF MuxInv, OneRecorder
  <2>4. process[x.process] # "unused" /\ ~Alive(catalogue[t].process)
    BY <1>0 DEF CommandSound, Handles, Starts
  <2>5. x.process # catalogue[t].process
    BY <2>3, <1>1 DEF Naming
  <2>. QED BY <2>2, <2>3, <2>4, <2>5 DEF Owed
<1>15. \A q \in Processes : Accounted(q) /\ q # catalogue[t].process => Accounted(q)'
  <2>. SUFFICES ASSUME NEW q \in Processes, Accounted(q), q # catalogue[t].process PROVE Accounted(q)'
    OBVIOUS
  <2>1. \A d \in Callers : q \in Owed(call[d]) => q \in Owed(call'[d])
    BY <1>3, <1>13, <1>14 DEF Others
  <2>. QED BY <2>1 DEF Accounted, Alive
<1>16. /\ OneRecord' /\ OneRecorder' /\ RecordsSound' /\ Down' /\ Survivors'
       /\ ProcessesNamed' /\ RunningAccounted'
  <2>. PICK p : p = x.process
    OBVIOUS
  <2>1. p # NoProcess /\ p # catalogue[t].process =>
           Naming(p) = {} /\ process[p] # "unused" /\ ~Alive(catalogue[t].process)
    BY <1>13, <1>14
  <2>2. ~Live(catalogue'[t]) => ~Alive(p) \/ p \in stray'
    BY <1>2 DEF Live
  <2>3. p = NoProcess => catalogue[t].process = NoProcess
    BY <1>13, <1>14
  <2>4. \A d \in Recording :
           \/ d \in Recording' /\ call'[d] = call[d]
           \/ call[d].target.process = p /\ Live(catalogue'[t])
    BY <1>2, <1>8, <1>13 DEF Recording, Live
  <2>5. \A d \in Recording' :
           d \in Recording /\ call'[d] = call[d] /\ (p # catalogue[t].process => call[d].target.process # p)
    BY <1>8, <1>13, <1>14
  <2>6. catalogue'[t].status = "running" /\ listener' # Ended => p \in Processes /\ Accounted(p)'
    <3>. SUFFICES ASSUME s = "running", listener # Ended PROVE p \in Processes /\ Accounted(p)'
      BY <1>2
    <3>1. c \in Recording
      BY DEF Recording
    <3>2. Accounted(p)
      BY <3>1, <1>11 DEF MuxInv, RunningAccounted
    <3>. QED BY <3>2, <1>14, <1>15
  <2>7. p = catalogue'[t].process
    BY <1>2
  <2>8. up' /\ stray \subseteq stray' /\ UNCHANGED process /\ (listener' # Ended => listener # Ended)
    BY <1>11
  <2>9. MuxInv
    OBVIOUS
  <2>. QED BY ONLY <1>1, <1>4, <1>5, <1>11, <1>12, <1>15, <2>1, <2>2, <2>3, <2>4, <2>5, <2>6, <2>7,
                   <2>8, <2>9, RevisedKeeps
<1>. QED BY <1>4, <1>7, <1>9, <1>10, <1>16 DEF MuxInv

LEMMA WithTarget ==
  ASSUME NEW b \in Commands, NEW at \in {"next", "dispose", "cancel", "spawn", "record"},
         NEW y \in Targets
  PROVE  [b EXCEPT !.at = at, !.target = y] =
           [at |-> at, op |-> b.op, target |-> y, left |-> b.left, seen |-> b.seen]
<1>. PICK e : e = [b EXCEPT !.at = at, !.target = y]
  OBVIOUS
<1>1. /\ e.at = at /\ e.op = b.op /\ e.target = y /\ e.left = b.left /\ e.seen = b.seen
      /\ e \in Commands
  BY DEF Commands
<1>. QED BY <1>1, ZenonT(60) DEF Commands

\* A refused update fails the command.
LEMMA RefusedKeeps ==
  ASSUME MuxInv, NEW c \in Callers, NEW x, Refused(x), Fail(c, process),
         call[c].at \in {"start", "record", "fail", "cancel", "close"},
         UNCHANGED <<catalogue, process, events, listener, up, renames, commands, crashes>>,
         stray \subseteq stray', stray' \subseteq Processes,
         call[c].at = "record" => call[c].target.process \in stray'
  PROVE  MuxInv'
<1>1. Fail(c, process')
  BY DEF Fail
<1>2. faults' \in Nat
  BY DEF MuxInv, TypeOK, Refused, Fault
<1>3. process' \in [Processes -> {"unused", "running", "exited", "gone", "stuck", "dead", "stale"}]
  BY DEF MuxInv, TypeOK
<1>. QED BY <1>1, <1>2, <1>3, FailKeeps

LEMMA StartKeeps ==
  ASSUME MuxInv, NEW c \in Callers, Start(c)
  PROVE  MuxInv'
<1>. DEFINE b == call[c]
<1>. PICK x : x = b.target
  OBVIOUS
<1>0. b.at = "start" /\ UNCHANGED <<process, events, listener, up, stray, renames, commands, crashes>>
  BY DEF Start, listening
<1>1. /\ b \in Commands /\ b.left \subseteq Targets /\ b.seen \subseteq Processes
      /\ b.target \in Targets /\ stray \subseteq Processes
  BY CommandFields DEF MuxInv, TypeOK
<1>2. CommandSound(b)
  BY SMTT(30) DEF MuxInv, CommandsSound
<1>3. CASE /\ Current(x)
           /\ catalogue' = Updated(x.terminal, "starting", x.process)
           /\ call' = [call EXCEPT ![c].at = "spawn",
                                   ![c].target = Target(x.terminal, x.revision + 1, x.process)]
           /\ UNCHANGED <<missed, faults>>
  <2>. PICK y : y = Target(x.terminal, x.revision + 1, x.process)
    OBVIOUS
  <2>. PICK k : k = [at |-> "spawn", op |-> b.op, target |-> y, left |-> b.left, seen |-> b.seen]
    OBVIOUS
  <2>1. /\ k.at = "spawn" /\ k.op = b.op /\ k.target = y /\ k.left = b.left /\ k.seen = b.seen
        /\ y.terminal = x.terminal /\ y.revision = x.revision + 1 /\ y.process = x.process
        /\ y \in Targets
    BY <1>1 DEF Target, Targets
  <2>2. k \in Commands
    BY <1>1, <2>1 DEF Commands
  <2>3. call' = [call EXCEPT ![c] = k]
    <3>1. k = [b EXCEPT !.at = "spawn", !.target = y]
      BY <1>1, <2>1, WithTarget, ZenonT(60)
    <3>. QED BY <1>3, <3>1
  <2>4. /\ b.op \in {"create", "restart"} /\ b.left = {} /\ b.seen \subseteq {x.process}
        /\ Known(x) /\ x.process \in b.seen \cup {NoProcess} /\ ~Alive(x.process)
    BY <1>0, <1>2 DEF CommandSound, Shape, Knows, Handles
  <2>5. ASSUME TypeOK', Moves, catalogue'[x.terminal].status = "starting",
               catalogue'[x.terminal].process = x.process,
               catalogue'[x.terminal].revision = x.revision + 1, x.terminal \in Recorded'
        PROVE  CommandSound(k)'
    <3>1. Shape(k)'
      BY <2>1, <2>4 DEF Shape
    <3>2. Knows(k)'
      BY <2>1, <2>4, SMTT(30) DEF Knows
    <3>3. Starts(k)'
      <4>1. ~Alive(x.process)'
        BY <1>0, <2>4 DEF Alive
      <4>2. k.target.revision \in Nat
        BY <2>1 DEF Targets
      <4>3. k.target.revision <= catalogue'[k.target.terminal].revision
        BY <2>1, <4>2, <2>5
      <4>. QED BY <2>1, <2>5, <4>1, <4>3, ZenonT(60) DEF Starts, Alive
    <3>4. Handles(k)'
      BY <1>0, <1>2, <2>1, <2>4 DEF Handles, CommandSound, Alive
    <3>. QED BY <3>1, <3>2, <3>3, <3>4 DEF CommandSound
  <2>6. \A q \in Processes : q \in Owed(b) => q \in Owed(k) \/ q = x.process
    BY <1>0, <2>4 DEF Owed
  <2>7. k.at \in {"idle", "next", "spawn"} /\ k.seen \subseteq b.seen
    BY <2>1
  <2>8. k.at = "spawn" => /\ k.target.terminal = x.terminal
                          /\ k.target.revision = x.revision + 1
    BY <2>1
  <2>. PICK s \in {"starting", "running", "ended", "cancelled"} : s = "starting"
    OBVIOUS
  <2>9. /\ s = "running" <=> call[c].at = "record"
        /\ s \in {"ended", "cancelled"} => ~Alive(x.process)
    BY <1>0
  <2>10. /\ MuxInv /\ c \in Callers /\ x = call[c].target /\ Current(x)
         /\ catalogue' = Updated(x.terminal, s, x.process)
         /\ UNCHANGED <<process, events, listener, up, stray, missed, renames, commands,
                       faults, crashes>>
    BY <1>0, <1>3
  <2>11. TypeOK' /\ Moves /\ catalogue'[x.terminal].status = s
                 /\ catalogue'[x.terminal].process = x.process
                 /\ catalogue'[x.terminal].revision = x.revision + 1
                 /\ x.terminal \in Recorded' => CommandSound(k)'
    BY <2>5
  <2>. QED BY ONLY <1>0, <2>2, <2>3, <2>6, <2>7, <2>8, <2>9, <2>10, <2>11, UpdateKeeps, ZenonT(60)
<1>4. CASE Refused(x) /\ Fail(c, process) /\ UNCHANGED catalogue
  BY <1>0, <1>1, <1>4, RefusedKeeps
<1>. QED BY <1>3, <1>4 DEF Start

LEMMA IdleSound ==
  /\ Idle \in Commands /\ Idle.at = "idle" /\ Idle.op = "none" /\ Idle.seen = {} /\ Owed(Idle) = {}
  /\ CommandSound(Idle) /\ CommandSound(Idle)'
<1>1. Idle \in Commands
  BY DEF Idle, Commands, NoTarget, Target, Targets
<1>2. Idle.at = "idle" /\ Idle.op = "none" /\ Idle.seen = {} /\ Idle.left = {}
  BY DEF Idle
<1>3. CommandSound(Idle) /\ CommandSound(Idle)'
  BY <1>2, SMTT(30) DEF CommandSound, Shape, Knows, Starts, Handles
<1>. QED BY <1>1, <1>2, <1>3 DEF Owed

LEMMA RecordKeeps ==
  ASSUME MuxInv, NEW c \in Callers, Record(c)
  PROVE  MuxInv'
<1>. DEFINE b == call[c]
<1>. PICK x : x = b.target
  OBVIOUS
<1>0. b.at \in {"record", "fail"} /\ UNCHANGED <<process, events, listener, up, renames, commands, crashes>>
  BY SMTT(30) DEF Record, listening
<1>1. /\ b \in Commands /\ b.left \subseteq Targets /\ b.seen \subseteq Processes
      /\ b.target \in Targets /\ stray \subseteq Processes
  BY CommandFields DEF MuxInv, TypeOK
<1>2. CommandSound(b)
  BY DEF MuxInv, CommandsSound
<1>3. CASE /\ Current(x)
           /\ catalogue' = Updated(x.terminal, IF b.at = "record" THEN "running" ELSE "ended", x.process)
           /\ call' = [call EXCEPT ![c] = Idle]
           /\ UNCHANGED <<histories, faults>>
  <2>. PICK k : k = Idle
    OBVIOUS
  <2>. PICK s \in {"starting", "running", "ended", "cancelled"} :
         s = IF b.at = "record" THEN "running" ELSE "ended"
    OBVIOUS
  <2>1. /\ s = "running" <=> call[c].at = "record"
        /\ s \in {"ended", "cancelled"} => ~Alive(x.process)
        /\ call[c].at \in {"start", "record", "fail", "cancel"}
    BY <1>0, <1>2 DEF CommandSound, Handles
  <2>2. /\ k \in Commands /\ k.at \in {"idle", "next", "spawn"} /\ k.at # "spawn"
        /\ k.seen \subseteq call[c].seen
    BY IdleSound
  <2>3. \A q \in Processes : q \in Owed(call[c]) => q \in Owed(k) \/ q = x.process
    BY <1>0, <1>2 DEF CommandSound, Shape, Owed
  <2>4. TypeOK' /\ Moves /\ catalogue'[x.terminal].status = s
                /\ catalogue'[x.terminal].process = x.process
                /\ catalogue'[x.terminal].revision = x.revision + 1
                /\ x.terminal \in Recorded' => CommandSound(k)'
    <3>1. CommandSound(k)'
      BY IdleSound DEF CommandSound, Shape, Knows, Starts, Handles
    <3>. QED BY <3>1
  <2>5. /\ MuxInv /\ c \in Callers /\ x = call[c].target /\ Current(x)
        /\ catalogue' = Updated(x.terminal, s, x.process)
        /\ call' = [call EXCEPT ![c] = k]
        /\ UNCHANGED <<process, events, listener, up, stray, missed, renames, commands,
                       faults, crashes>>
    BY <1>0, <1>3 DEF histories
  <2>. QED BY ONLY <2>1, <2>2, <2>3, <2>4, <2>5, UpdateKeeps, ZenonT(60)
<1>4. CASE /\ Refused(x) /\ Fail(c, process) /\ UNCHANGED catalogue
           /\ stray' = IF b.at = "record" THEN stray \cup {x.process} ELSE stray
  <2>1. stray \subseteq stray' /\ stray' \subseteq Processes
    BY <1>1, <1>2, <1>4 DEF CommandSound, Shape
  <2>2. call[c].at = "record" => call[c].target.process \in stray'
    BY <1>4
  <2>. QED BY <1>0, <1>4, <2>1, <2>2, RefusedKeeps
<1>. QED BY <1>3, <1>4, SMTT(30) DEF Record

LEMMA CancelKeeps ==
  ASSUME MuxInv, NEW c \in Callers, Cancel(c)
  PROVE  MuxInv'
<1>. DEFINE b == call[c]
<1>. PICK x : x = b.target
  OBVIOUS
<1>0. b.at = "cancel" /\ UNCHANGED <<process, events, listener, up, stray, renames, commands, crashes>>
  BY SMTT(30) DEF Cancel, listening
<1>1. /\ b \in Commands /\ b.left \subseteq Targets /\ b.seen \subseteq Processes
      /\ b.target \in Targets /\ stray \subseteq Processes
  BY CommandFields DEF MuxInv, TypeOK
<1>2. CommandSound(b)
  BY DEF MuxInv, CommandsSound
<1>3. CASE /\ Current(x)
           /\ catalogue' = Updated(x.terminal, "cancelled", x.process)
           /\ call' = [call EXCEPT ![c] = IF @.op = "session" THEN [@ EXCEPT !.at = "next"]
                                                              ELSE Idle]
           /\ UNCHANGED <<missed, faults>>
  <2>. PICK k : k = IF b.op = "session" THEN [b EXCEPT !.at = "next"] ELSE Idle
    OBVIOUS
  <2>. PICK s \in {"starting", "running", "ended", "cancelled"} : s = "cancelled"
    OBVIOUS
  <2>1. /\ s = "running" <=> call[c].at = "record"
        /\ s \in {"ended", "cancelled"} => ~Alive(x.process)
        /\ call[c].at \in {"start", "record", "fail", "cancel"}
    BY <1>0, <1>2 DEF CommandSound, Handles
  <2>2. b.op = "session" =>
           /\ k \in Commands /\ k.at = "next" /\ k.op = "session" /\ k.target = b.target
           /\ k.left = b.left /\ k.seen = b.seen
    BY <1>1 DEF Commands
  <2>3. b.op # "session" => k = Idle /\ b.seen \subseteq {x.process}
    BY <1>0, <1>2 DEF CommandSound, Shape
  <2>4. /\ k \in Commands /\ k.at \in {"idle", "next", "spawn"} /\ k.at # "spawn"
        /\ k.seen \subseteq call[c].seen
    BY <2>2, <2>3, IdleSound
  <2>5. \A q \in Processes : q \in Owed(call[c]) => q \in Owed(k) \/ q = x.process
    BY <1>0, <2>2, <2>3 DEF Owed
  <2>6. TypeOK' /\ Moves /\ catalogue'[x.terminal].status = s
                /\ catalogue'[x.terminal].process = x.process
                /\ catalogue'[x.terminal].revision = x.revision + 1
                /\ x.terminal \in Recorded' => CommandSound(k)'
    <3>. SUFFICES ASSUME TypeOK', Moves PROVE CommandSound(k)'
      OBVIOUS
    <3>1. CASE b.op # "session"
      BY <3>1, <2>3, IdleSound DEF CommandSound, Shape, Knows, Starts, Handles
    <3>2. CASE b.op = "session"
      <4>1. Shape(k)
        BY <3>2, <2>2 DEF Shape
      <4>2. Knows(k)
        BY <1>2, <3>2, <2>2 DEF CommandSound, Knows
      <4>3. Starts(k)
        BY <3>2, <2>2 DEF Starts
      <4>4. Handles(k)
        BY <1>2, <3>2, <2>2 DEF CommandSound, Handles
      <4>5. CommandSound(k) /\ Ebbs
        BY <1>0, <4>1, <4>2, <4>3, <4>4 DEF CommandSound, Ebbs, Alive
      <4>. QED BY <4>5, <2>4, CommandKept DEF MuxInv
    <3>. QED BY <3>1, <3>2
  <2>7. /\ MuxInv /\ c \in Callers /\ x = call[c].target /\ Current(x)
        /\ catalogue' = Updated(x.terminal, s, x.process)
        /\ call' = [call EXCEPT ![c] = k]
        /\ UNCHANGED <<process, events, listener, up, stray, missed, renames, commands,
                       faults, crashes>>
    BY <1>0, <1>3
  <2>. QED BY ONLY <2>1, <2>4, <2>5, <2>6, <2>7, UpdateKeeps, ZenonT(60)
<1>4. CASE Refused(x) /\ Fail(c, process) /\ UNCHANGED catalogue
  BY <1>0, <1>1, <1>4, RefusedKeeps
<1>. QED BY <1>3, <1>4 DEF Cancel

-----------------------------------------------------------------------------
(* A process is started, and processes end *)

LEMMA SpawnKeeps ==
  ASSUME MuxInv, NEW c \in Callers, Spawn(c)
  PROVE  MuxInv'
<1>. DEFINE b == call[c]
            states == {"unused", "running", "exited", "gone", "stuck", "dead", "stale"}
<1>. PICK x : x = b.target
  OBVIOUS
<1>0. b.at = "spawn" /\ UNCHANGED <<catalogue, events, listener, up, stray, missed, renames, commands, crashes>>
  BY DEF Spawn, listening, histories
<1>1. /\ b \in Commands /\ b.left \subseteq Targets /\ b.seen \subseteq Processes
      /\ x \in Targets /\ x.terminal \in Terminals \cup {0} /\ x.revision \in Nat
      /\ process \in [Processes -> states] /\ faults \in Nat
  BY CommandFields DEF MuxInv, TypeOK
<1>2. /\ CommandSound(b) /\ b.op \in {"create", "restart"} /\ b.left = {}
      /\ Shape(b) /\ Knows(b) /\ Starts(b) /\ Handles(b)
  BY <1>0 DEF MuxInv, CommandsSound, CommandSound, Shape
<1>. DEFINE Spawned(k) ==
        /\ call' = [call EXCEPT ![c] = k]
        /\ k.op = b.op /\ k.left = {} /\ k.seen = b.seen
        /\ k.target.terminal = x.terminal /\ k.target.revision = x.revision
        /\ \/ /\ k.at = "record" /\ k.target.process \in Processes
              /\ process[k.target.process] = "unused"
              /\ process' = [process EXCEPT ![k.target.process] = "running"]
              /\ UNCHANGED faults
           \/ /\ k.at = "fail" /\ k.target = x /\ process' = process /\ Fault
<1>3. \E k \in Commands : Spawned(k)
  <2>1. CASE Fault /\ call' = [call EXCEPT ![c].at = "fail"] /\ UNCHANGED process
    <3>. PICK k : k = [b EXCEPT !.at = "fail"]
      OBVIOUS
    <3>1. /\ k \in Commands /\ k.at = "fail" /\ k.target = x /\ k.op = b.op /\ k.left = {}
          /\ k.seen = b.seen
      BY <1>1, <1>2 DEF Commands
    <3>. QED BY <2>1, <3>1
  <2>2. ASSUME NEW p \in Processes, process[p] = "unused",
               process' = [process EXCEPT ![p] = "running"],
               call' = [call EXCEPT ![c].at = "record",
                                    ![c].target = Target(x.terminal, x.revision, p)],
               UNCHANGED faults
        PROVE  \E k \in Commands : Spawned(k)
    <3>. PICK y : y = Target(x.terminal, x.revision, p)
      OBVIOUS
    <3>. PICK k : k = [at |-> "record", op |-> b.op, target |-> y, left |-> b.left, seen |-> b.seen]
      OBVIOUS
    <3>1. /\ k.at = "record" /\ k.op = b.op /\ k.target = y /\ k.left = {} /\ k.seen = b.seen
          /\ y.terminal = x.terminal /\ y.revision = x.revision /\ y.process = p
          /\ y \in Targets
      BY <1>1, <1>2 DEF Target, Targets
    <3>2. k \in Commands
      BY <1>1, <3>1 DEF Commands
    <3>3. call' = [call EXCEPT ![c] = k]
      <4>1. k = [b EXCEPT !.at = "record", !.target = y]
        BY <1>1, <3>1, WithTarget
      <4>. QED BY <2>2, <4>1
    <3>. QED BY <2>2, <3>1, <3>2, <3>3, ZenonT(60)
  <2>. QED BY <2>1, <2>2 DEF Spawn
<1>. PICK k \in Commands : Spawned(k)
  BY <1>3
<1>. PICK p : p = k.target.process
  OBVIOUS
<1>4. /\ k.at \in {"record", "fail"}
      /\ k.at = "record" => p \in Processes /\ process[p] = "unused" /\ process'[p] = "running"
      /\ k.at = "fail" => k.target = x
      /\ process' \in [Processes -> states]
      /\ \A q \in Processes : process'[q] = process[q] \/ (q = p /\ k.at = "record")
      /\ faults' \in Nat
  BY <1>1 DEF Fault
<1>5. call'[c] = k /\ Others(c) /\ call' \in [Callers -> Commands]
  BY GoesOn DEF MuxInv
<1>6. TypeOK'
  BY <1>0, <1>4, <1>5 DEF MuxInv, TypeOK, Commands
<1>7. Moves /\ Ebbs
  BY <1>0, <1>4 DEF Moves, Ebbs, Recorded, Alive
<1>8. \A q \in Processes : process[q] # "unused" => process'[q] = process[q]
  BY <1>4
<1>9. \A t \in Terminals : /\ catalogue[t].process \in Processes \cup {NoProcess}
                           /\ Alive(catalogue[t].process)' <=> Alive(catalogue[t].process)
  <2>. SUFFICES ASSUME NEW t \in Terminals
                PROVE  /\ catalogue[t].process \in Processes \cup {NoProcess}
                       /\ Alive(catalogue[t].process)' <=> Alive(catalogue[t].process)
    OBVIOUS
  <2>1. catalogue[t].process \in Processes \cup {NoProcess}
    BY RecordFields DEF MuxInv
  <2>. QED BY <2>1, <1>0, <1>8 DEF MuxInv, RecordsSound, Alive
<1>10. CommandsSound'
  <2>1. Shape(k)'
    BY <1>2, <1>4 DEF Shape
  <2>2. Knows(k)'
    BY <1>0, <1>2, <1>4 DEF Knows
  <2>3. Starts(k)'
    <3>1. x.terminal \in Recorded /\ x.terminal \in Terminals
      BY <1>0, <1>2 DEF Starts, Recorded
    <3>. QED BY <3>1, <1>0, <1>2, <1>4, <1>9 DEF Starts, Current, Recorded
  <2>4. Handles(k)'
    <3>1. \A q \in k.seen : process'[q] # "unused"
      BY <1>1, <1>2, <1>8 DEF Handles
    <3>2. k.at = "fail" => ~Alive(k.target.process)'
      BY <1>0, <1>2, <1>4 DEF Handles, Alive
    <3>. QED BY <1>2, <1>4, <3>1, <3>2 DEF Handles
  <2>5. CommandSound(k)'
    BY <2>1, <2>2, <2>3, <2>4 DEF CommandSound
  <2>6. CommandSound(call[c])'
    BY <2>5, <1>5
  <2>. QED BY <1>5, <1>6, <1>7, <2>6, CommandsKept DEF MuxInv
<1>11. /\ Beginning' = Beginning /\ c \in Beginning /\ c \notin Recording
       /\ Recording \subseteq Recording' /\ Recording' \subseteq Recording \cup {c}
       /\ c \in Recording' <=> k.at = "record"
       /\ \A d \in Callers \ {c} : call'[d] = call[d]
       /\ \A d \in Callers : call'[d].seen = call[d].seen
  BY <1>0, <1>4, <1>5 DEF Beginning, Recording, Others
<1>12. OneStarter'
  <2>1. \A d \in Callers : /\ call'[d].target.terminal = call[d].target.terminal
                           /\ call'[d].target.revision = call[d].target.revision
    BY <1>5, <1>11
  <2>. QED BY <1>11, <2>1 DEF MuxInv, OneStarter, Beginning
<1>13. OneRecord' /\ up /\ up'
  BY <1>0 DEF MuxInv, OneRecord, Recorded, Down, Idle
<1>14. \A d \in Recording : /\ d \in Callers /\ call[d].target.process \in Processes
                            /\ process[call[d].target.process] # "unused"
  BY DEF MuxInv, CommandsSound, CommandSound, Shape, Handles, Recording
<1>15. OneRecorder'
  <2>1. \A q : Naming(q)' = Naming(q)
    BY <1>0 DEF Naming, Recorded
  <2>2. k.at = "record" => Naming(p) = {}
    BY <1>4 DEF MuxInv, RecordsSound, Naming, Recorded, Processes, NoProcess
  <2>3. k.at = "record" => \A d \in Callers : p \notin call[d].seen
    BY <1>4 DEF MuxInv, CommandsSound, CommandSound, Handles
  <2>4. k.at = "record" => \A d \in Recording : call[d].target.process # p
    BY <1>4, <1>14
  <2>. SUFFICES ASSUME NEW d \in Recording'
                PROVE  /\ Naming(call'[d].target.process) = {}
                       /\ \A e \in Callers : call'[d].target.process \notin call'[e].seen
                       /\ \A e \in Recording' : call'[e].target.process = call'[d].target.process => e = d
    BY <2>1 DEF OneRecorder
  <2>5. CASE d = c
    BY <2>5, <2>2, <2>3, <2>4, <1>5, <1>11
  <2>6. CASE d # c
    BY <2>6, <2>4, <1>5, <1>11, <1>14 DEF MuxInv, OneRecorder
  <2>. QED BY <2>5, <2>6
<1>16. RecordsSound'
  BY <1>0, <1>8, <1>9 DEF MuxInv, RecordsSound, Live
<1>17. ExitsOver'
  BY <1>0, <1>6, <1>7, ExitsKept DEF MuxInv
<1>18. Down'
  BY <1>13 DEF Down
<1>19. Survivors'
  BY <1>0, <1>4, <1>13 DEF MuxInv, Survivors
<1>20. ProcessesNamed'
  <2>. SUFFICES ASSUME NEW q \in Processes, Alive(q)', q \notin stray
                PROVE  \/ \E t \in Naming(q)' : Live(catalogue'[t])
                       \/ \E d \in Recording' : call'[d].target.process = q
    BY <1>0 DEF ProcessesNamed
  <2>1. CASE process'[q] # process[q]
    BY <2>1, <1>4, <1>5, <1>11
  <2>2. CASE process'[q] = process[q]
    <3>1. Alive(q)
      BY <2>2 DEF Alive
    <3>2. CASE \E t \in Naming(q) : Live(catalogue[t])
      BY <3>2, <1>0 DEF Naming, Recorded
    <3>3. CASE \E d \in Recording : call[d].target.process = q
      BY <3>3, <1>5, <1>11, <1>14
    <3>. QED BY <3>1, <3>2, <3>3, <1>13 DEF MuxInv, ProcessesNamed
  <2>. QED BY <2>1, <2>2
<1>21. \A q \in Processes : Accounted(q) => Accounted(q)'
  <2>. SUFFICES ASSUME NEW q \in Processes, Accounted(q) PROVE Accounted(q)'
    OBVIOUS
  <2>1. \A d \in Callers : q \in Owed(call[d]) => q \in Owed(call'[d])
    BY <1>0, <1>2, <1>5, <1>11 DEF Owed
  <2>2. process'[q] = process[q] \/ Alive(q)'
    BY <1>4 DEF Alive, Processes, NoProcess
  <2>. QED BY <2>1, <2>2, <1>0 DEF Accounted, Alive
<1>22. RunningAccounted'
  <2>. SUFFICES ASSUME listener # Ended
                PROVE  /\ \A t \in Terminals : catalogue[t].status = "running" =>
                            catalogue[t].process \in Processes /\ Accounted(catalogue[t].process)'
                       /\ \A d \in Recording' : Accounted(call[d].target.process)'
    BY <1>0 DEF RunningAccounted
  <2>1. \A t \in Terminals : catalogue[t].status = "running" =>
          catalogue[t].process \in Processes /\ Accounted(catalogue[t].process)'
    BY <1>0, <1>13, <1>21 DEF MuxInv, RunningAccounted
  <2>2. ASSUME NEW d \in Recording' PROVE Accounted(call[d].target.process)'
    <3>1. CASE d = c
      BY <3>1, <2>2, <1>4, <1>5, <1>11 DEF Accounted, Alive, Processes, NoProcess
    <3>2. CASE d # c
      BY <3>2, <2>2, <1>0, <1>11, <1>13, <1>14, <1>21 DEF MuxInv, RunningAccounted
    <3>. QED BY <3>1, <3>2
  <2>. QED BY <2>1, <2>2
<1>. QED BY <1>6, <1>10, <1>12, <1>13, <1>15, <1>16, <1>17, <1>18, <1>19, <1>20, <1>22 DEF MuxInv

LEMMA EndingKeeps ==
  ASSUME MuxInv, NEW p \in Processes, NEW state \in {"exited", "gone"},
         process[p] \in {"running", "exited", "stale"}, process' = [process EXCEPT ![p] = state],
         UNCHANGED <<catalogue, call, listener, up, stray, missed, renames, commands, faults,
                     crashes>>,
         events' \in Seq(Processes), \A i \in DOMAIN events' : Over(events[i])',
         up \/ events' = events,
         up /\ listener # Ended => \A q \in Processes : Accounted(q) => Accounted(q)'
  PROVE  MuxInv'
<1>1. /\ process' \in [Processes -> {"unused", "running", "exited", "gone", "stuck", "dead", "stale"}]
      /\ process'[p] = state /\ \A q \in Processes \ {p} : process'[q] = process[q]
  BY DEF MuxInv, TypeOK
<1>2. TypeOK'
  BY <1>1 DEF MuxInv, TypeOK
<1>3. Moves /\ Ebbs
  BY <1>1 DEF Moves, Ebbs, Recorded, Alive
<1>4. CommandsSound'
  <2>. SUFFICES ASSUME NEW c \in Callers PROVE CommandSound(call[c])'
    BY DEF CommandsSound
  <2>. DEFINE k == call[c]
  <2>1. k \in Commands /\ CommandSound(k)
    BY CommandFields DEF MuxInv, CommandsSound
  <2>. QED BY <2>1, <1>2, <1>3, CommandKept DEF MuxInv
<1>5. Recording' = Recording /\ Beginning' = Beginning
  BY DEF Recording, Beginning
<1>6. OneStarter' /\ OneRecord' /\ OneRecorder'
  BY <1>5 DEF MuxInv, OneStarter, OneRecord, OneRecorder, Recorded, Naming
<1>7. RecordsSound'
  <2>. SUFFICES ASSUME NEW t \in Terminals
                PROVE  /\ catalogue[t].process # NoProcess => process'[catalogue[t].process] # "unused"
                       /\ ~Live(catalogue[t]) =>
                            ~Alive(catalogue[t].process)' \/ catalogue[t].process \in stray
    BY DEF MuxInv, RecordsSound, Live
  <2>1. catalogue[t].process \in Processes \cup {NoProcess}
    BY RecordFields DEF MuxInv
  <2>. QED BY <2>1, <1>3, NobodyAlive DEF MuxInv, RecordsSound, Ebbs
<1>8. ExitsOver'
  <2>1. \A q \in Processes : Over(q) => Over(q)'
    BY <1>1 DEF Over
  <2>. QED BY <2>1 DEF MuxInv, ExitsOver, Known, Current, Recorded
<1>9. Down'
  BY <1>3 DEF MuxInv, Down, Ebbs, Alive
<1>10. Survivors'
  BY <1>1 DEF MuxInv, Survivors, Naming, Recorded, Live
<1>11. ProcessesNamed'
  BY <1>1, <1>5 DEF MuxInv, ProcessesNamed, Alive, Naming, Recorded, Live
<1>12. RunningAccounted'
  <2>1. \A d \in Recording : call[d].target.process \in Processes
    BY DEF MuxInv, CommandsSound, CommandSound, Shape, Recording
  <2>. QED BY <2>1, <1>5 DEF MuxInv, RunningAccounted
<1>. QED BY <1>2, <1>4, <1>6, <1>7, <1>8, <1>9, <1>10, <1>11, <1>12 DEF MuxInv

LEMMA ExitKeeps ==
  ASSUME MuxInv, NEW p \in Processes, Exit(p)
  PROVE  MuxInv'
<1>0. /\ process[p] = "running" /\ process' = [process EXCEPT ![p] = "exited"]
      /\ events' = IF listener = Ended THEN events ELSE Append(events, p)
      /\ UNCHANGED <<catalogue, call, listener, up, stray, missed, renames, commands, faults,
                     crashes>>
  BY DEF Exit, histories
<1>1. up
  BY <1>0 DEF MuxInv, Down, Alive, Processes, NoProcess
<1>2. events \in Seq(Processes) /\ events' \in Seq(Processes)
  BY <1>0 DEF MuxInv, TypeOK
<1>3. process'[p] = "exited" /\ \A q \in Processes \ {p} : process'[q] = process[q]
  BY <1>0 DEF MuxInv, TypeOK
<1>4. \A i \in DOMAIN events' : Over(events[i])'
  <2>1. Over(p)'
    BY <1>3 DEF Over
  <2>2. \A i \in DOMAIN events : events[i] \in Processes /\ Over(events[i]) /\ process'[events[i]] = process[events[i]]
    BY <1>0, <1>2, <1>3 DEF MuxInv, ExitsOver, Over
  <2>. QED BY <1>0, <1>2, <2>1, <2>2 DEF Over
<1>5. \A q \in Processes : listener # Ended /\ Accounted(q) => Accounted(q)'
  <2>. SUFFICES ASSUME listener # Ended, NEW q \in Processes, Accounted(q) PROVE Accounted(q)'
    OBVIOUS
  <2>1. CASE q = p
    <3>1. events' = Append(events, p) /\ Len(events) + 1 \in DOMAIN events'
          /\ events'[Len(events) + 1] = p
      BY <1>0, <1>2
    <3>. QED BY <2>1, <3>1 DEF Accounted
  <2>2. CASE q # p
    <3>1. process'[q] = process[q]
      BY <2>2, <1>3
    <3>2. \A i \in DOMAIN events : i \in DOMAIN events' /\ events'[i] = events[i]
      BY <1>0, <1>2
    <3>. QED BY <3>1, <3>2, <1>0 DEF Accounted, Alive
  <2>. QED BY <2>1, <2>2
<1>. QED BY <1>0, <1>1, <1>2, <1>4, <1>5, EndingKeeps

\* A process that is over, or survived its host, is gone for good.
LEMMA GoneKeeps ==
  ASSUME MuxInv, NEW p \in Processes, process[p] \in {"exited", "stale"},
         process[p] = "stale" => ~up, process' = [process EXCEPT ![p] = "gone"],
         UNCHANGED <<catalogue, call, events, listener, up, stray, missed, renames, commands,
                     faults, crashes>>
  PROVE  MuxInv'
<1>1. process'[p] = "gone" /\ \A q \in Processes \ {p} : process'[q] = process[q]
  BY DEF MuxInv, TypeOK
<1>2. events' \in Seq(Processes)
  BY DEF MuxInv, TypeOK
<1>3. \A i \in DOMAIN events' : Over(events[i])'
  <2>1. \A i \in DOMAIN events : events[i] \in Processes /\ Over(events[i])
    BY <1>2 DEF MuxInv, ExitsOver
  <2>. QED BY <1>1, <2>1 DEF Over
<1>4. \A q \in Processes : Accounted(q) => Accounted(q)'
  BY <1>1 DEF Accounted, Alive
<1>. QED BY <1>2, <1>3, <1>4, EndingKeeps

LEMMA CleanUpKeeps ==
  ASSUME MuxInv, NEW p \in Processes, CleanUp(p)
  PROVE  MuxInv'
BY GoneKeeps DEF CleanUp, listening, histories

LEMMA TerminateStaleKeeps ==
  ASSUME MuxInv, NEW p \in Processes, TerminateStale(p)
  PROVE  MuxInv'
BY GoneKeeps DEF TerminateStale, Surviving, listening, histories

-----------------------------------------------------------------------------
(* The lifecycle listener *)

LEMMA ListeningKeeps ==
  ASSUME MuxInv, up, UNCHANGED <<catalogue, process, call, up, stray, renames, commands, crashes>>,
         faults' \in Nat, missed \subseteq missed', missed' \subseteq Processes,
         events' \in Seq(Processes), listener' \in [at : {"waiting", "found", "ended"}, target : Targets],
         ExitsOver',
         listener' # Ended =>
           listener # Ended /\ \A q \in Processes : Accounted(q) => Accounted(q)'
  PROVE  MuxInv'
<1>1. TypeOK'
  BY DEF MuxInv, TypeOK
<1>2. Moves /\ Ebbs
  BY DEF Moves, Ebbs, Recorded, Alive
<1>3. CommandsSound'
  <2>. SUFFICES ASSUME NEW c \in Callers PROVE CommandSound(call[c])'
    BY DEF CommandsSound
  <2>. DEFINE k == call[c]
  <2>1. k \in Commands /\ CommandSound(k)
    BY CommandFields DEF MuxInv, CommandsSound
  <2>. QED BY <2>1, <1>1, <1>2, CommandKept DEF MuxInv
<1>4. Recording' = Recording /\ Beginning' = Beginning
  BY DEF Recording, Beginning
<1>5. OneStarter' /\ OneRecord' /\ OneRecorder'
  BY <1>4 DEF MuxInv, OneStarter, OneRecord, OneRecorder, Recorded, Naming
<1>6. RecordsSound'
  BY DEF MuxInv, RecordsSound, Live, Alive
<1>7. Down' /\ Survivors'
  BY DEF MuxInv, Down, Survivors
<1>8. ProcessesNamed'
  BY <1>4 DEF MuxInv, ProcessesNamed, Alive, Naming, Recorded, Live
<1>9. RunningAccounted'
  <2>1. \A d \in Recording : call[d].target.process \in Processes
    BY DEF MuxInv, CommandsSound, CommandSound, Shape, Recording
  <2>. QED BY <2>1, <1>4 DEF MuxInv, RunningAccounted
<1>. QED BY <1>1, <1>3, <1>5, <1>6, <1>7, <1>8, <1>9 DEF MuxInv

LEMMA ListenerFields ==
  /\ Waiting.at = "waiting" /\ Ended.at = "ended"
  /\ Waiting \in [at : {"waiting", "found", "ended"}, target : Targets]
  /\ Ended \in [at : {"waiting", "found", "ended"}, target : Targets]
BY DEF Waiting, Ended, NoTarget, Target, Targets

LEMMA LagKeeps ==
  ASSUME MuxInv, Lag
  PROVE  MuxInv'
<1>0. /\ events # <<>> /\ listener' = Ended /\ events' = <<>> /\ Fault
      /\ UNCHANGED <<catalogue, process, call, up, stray, missed, renames, commands, crashes>>
  BY DEF Lag, histories
<1>1. up /\ faults' \in Nat /\ missed' \subseteq Processes /\ events' \in Seq(Processes)
  BY <1>0 DEF MuxInv, TypeOK, Down, Fault
<1>2. ExitsOver'
  BY <1>0, ListenerFields DEF ExitsOver
<1>. QED BY <1>0, <1>1, <1>2, ListenerFields, ListeningKeeps

LEMMA ReceiveKeeps ==
  ASSUME MuxInv, Receive
  PROVE  MuxInv'
<1>. PICK p : p = Head(events)
  OBVIOUS
<1>0. /\ listener = Waiting /\ events # <<>> /\ events' = Tail(events)
      /\ UNCHANGED <<catalogue, process, call, up, stray, renames, commands, faults, crashes>>
      /\ \/ \E t \in Naming(p) :
              listener' = [at |-> "found", target |-> TargetOf(t)] /\ UNCHANGED missed
         \/ Naming(p) = {} /\ missed' = missed \cup {p} /\ UNCHANGED listener
  BY DEF Receive
<1>1. /\ events \in Seq(Processes) /\ p \in Processes /\ p = events[1] /\ 1 \in DOMAIN events
      /\ events' \in Seq(Processes)
      /\ \A i \in DOMAIN events' : i + 1 \in DOMAIN events /\ events'[i] = events[i + 1]
      /\ \A i \in DOMAIN events : i = 1 \/ (i - 1 \in DOMAIN events' /\ events'[i - 1] = events[i])
  BY <1>0 DEF MuxInv, TypeOK
<1>2. up /\ faults' \in Nat /\ missed \subseteq Processes /\ Over(p)
  BY <1>0, <1>1 DEF MuxInv, TypeOK, Down, ExitsOver
<1>3. \A i \in DOMAIN events' : Over(events[i])'
  BY <1>0, <1>1 DEF MuxInv, ExitsOver, Over
<1>4. \A q \in Processes : Accounted(q) => Accounted(q)' \/ q = p
  <2>. SUFFICES ASSUME NEW q \in Processes, Accounted(q), q # p PROVE Accounted(q)'
    OBVIOUS
  <2>1. CASE \E i \in DOMAIN events : events[i] = q
    <3>1. \E i \in DOMAIN events' : events'[i] = q
      BY <2>1, <1>1
    <3>. QED BY <3>1 DEF Accounted
  <2>2. CASE q \in missed
    BY <2>2, <1>0 DEF Accounted
  <2>3. CASE Alive(q) \/ (process[q] \in {"gone", "dead"} /\ \E c \in Callers : q \in Owed(call[c]))
    BY <2>3, <1>0 DEF Accounted, Alive
  <2>. QED BY <2>1, <2>2, <2>3, <1>0, ListenerFields DEF Accounted
<1>5. CASE Naming(p) = {} /\ missed' = missed \cup {p} /\ UNCHANGED listener
  <2>1. ExitsOver'
    BY <1>0, <1>3, <1>5, ListenerFields DEF ExitsOver
  <2>2. Accounted(p)'
    BY <1>5 DEF Accounted
  <2>3. listener # Ended
    BY <1>0, ListenerFields
  <2>. QED BY <1>0, <1>1, <1>2, <1>4, <1>5, <2>1, <2>2, <2>3, ListenerFields, ListeningKeeps
<1>6. CASE \E t \in Naming(p) :
             listener' = [at |-> "found", target |-> TargetOf(t)] /\ UNCHANGED missed
  <2>. PICK t \in Naming(p) :
             listener' = [at |-> "found", target |-> TargetOf(t)] /\ UNCHANGED missed
    BY <1>6
  <2>. PICK x : x = TargetOf(t)
    OBVIOUS
  <2>1. t \in Recorded /\ catalogue[t].process = p
    BY DEF Naming
  <2>2. x \in Targets /\ Known(x) /\ x.process = p
    BY <2>1, ReadTarget DEF MuxInv
  <2>3. /\ listener'.at = "found" /\ listener'.target = x
        /\ listener' \in [at : {"waiting", "found", "ended"}, target : Targets]
    BY <2>2
  <2>4. Known(x)' /\ Over(p)'
    BY <1>0, <1>2, <2>2 DEF Known, Current, Recorded, Over
  <2>5. ExitsOver'
    BY <1>1, <1>3, <2>2, <2>3, <2>4 DEF ExitsOver
  <2>6. Accounted(p)'
    BY <2>2, <2>3 DEF Accounted
  <2>7. listener # Ended
    BY <1>0, ListenerFields
  <2>. QED BY <1>0, <1>1, <1>2, <1>4, <2>3, <2>5, <2>6, <2>7, ListeningKeeps
<1>. QED BY <1>0, <1>5, <1>6

LEMMA UpdateExitKeeps ==
  ASSUME MuxInv, UpdateExit
  PROVE  MuxInv'
<1>. PICK x : x = listener.target
  OBVIOUS
<1>0. /\ listener.at = "found" /\ listener' = Waiting
      /\ UNCHANGED <<process, call, events, up, stray, renames, commands, crashes>>
      /\ \/ /\ Current(x)
            /\ catalogue' = Updated(x.terminal, "ended", x.process)
            /\ UNCHANGED <<missed, faults>>
         \/ /\ Refused(x) /\ missed' = missed \cup {x.process} /\ UNCHANGED catalogue
  BY DEF UpdateExit
<1>1. /\ Known(x) /\ x.process \in Processes /\ Over(x.process) /\ x \in Targets
      /\ up /\ missed \subseteq Processes
  BY <1>0, ListenerFields DEF MuxInv, ExitsOver, Down, TypeOK
<1>2. ~Alive(x.process)
  BY <1>1 DEF Over, Alive
<1>3. listener' \in [at : {"waiting", "found", "ended"}, target : Targets] /\ listener'.at # "found"
      /\ listener # Ended /\ events' \in Seq(Processes)
  BY <1>0, ListenerFields DEF MuxInv, TypeOK
<1>4. \A q \in Processes : Accounted(q) /\ q # x.process => Accounted(q)'
  BY <1>0 DEF Accounted, Alive
<1>5. CASE Refused(x) /\ missed' = missed \cup {x.process} /\ UNCHANGED catalogue
  <2>1. ExitsOver'
    BY <1>0, <1>3 DEF MuxInv, ExitsOver, Over
  <2>2. Accounted(x.process)'
    BY <1>5 DEF Accounted
  <2>3. faults' \in Nat
    BY <1>5 DEF MuxInv, TypeOK, Refused, Fault
  <2>4. missed \subseteq missed' /\ missed' \subseteq Processes
    BY <1>1, <1>5
  <2>5. \A q \in Processes : Accounted(q) => Accounted(q)'
    BY <1>4, <2>2
  <2>. QED BY <1>0, <1>1, <1>3, <1>5, <2>1, <2>3, <2>4, <2>5, ListeningKeeps
<1>6. CASE /\ Current(x)
           /\ catalogue' = Updated(x.terminal, "ended", x.process)
           /\ UNCHANGED <<missed, faults>>
  <2>. PICK t : t = x.terminal
    OBVIOUS
  <2>. PICK p : p = x.process
    OBVIOUS
  <2>1. /\ t \in Recorded /\ t \in Terminals /\ p \in Processes /\ p = catalogue[t].process
        /\ TypeOK /\ catalogue' = Updated(t, "ended", p)
    BY <1>1, <1>6 DEF Known, Recorded, MuxInv
  <2>. PICK s \in {"created", "starting", "running", "ended", "cancelled"} : s = "ended"
    OBVIOUS
  <2>2. /\ catalogue'[t].status = s /\ catalogue'[t].process = p
        /\ catalogue'[t].revision = catalogue[t].revision + 1
        /\ \A u \in Terminals \ {t} : catalogue'[u] = catalogue[u]
        /\ catalogue' \in [Terminals -> Records]
        /\ \A u \in Terminals : catalogue'[u].status = "disconnected" => catalogue'[u].process = NoProcess
        /\ Moves /\ Recorded' = Recorded \cup {t}
    <3>1. catalogue' = Updated(t, s, p)
      BY <2>1
    <3>. QED BY ONLY <2>1, <3>1, s \in {"created", "starting", "running", "ended", "cancelled"},
                     UpdatedFields
  <2>3. TypeOK'
    BY <1>0, <1>3, <1>6, <2>2 DEF MuxInv, TypeOK, Records
  <2>4. Revised(t) /\ Ebbs
    BY <1>0, <2>2 DEF Revised, Ebbs, Alive
  <2>5. CommandsSound'
    <3>. SUFFICES ASSUME NEW c \in Callers PROVE CommandSound(call[c])'
      BY DEF CommandsSound
    <3>. DEFINE k == call[c]
    <3>1. k \in Commands /\ CommandSound(k)
      BY CommandFields DEF MuxInv, CommandsSound
    <3>. QED BY <3>1, <1>0, <2>2, <2>3, <2>4, CommandKept DEF MuxInv
  <2>6. Recording' = Recording /\ Beginning' = Beginning
    BY <1>0 DEF Recording, Beginning
  <2>7. OneStarter'
    BY <1>0, <2>6 DEF MuxInv, OneStarter
  <2>8. ExitsOver'
    BY <1>0, <1>3 DEF MuxInv, ExitsOver, Over
  <2>9. /\ OneRecord' /\ OneRecorder' /\ RecordsSound' /\ Down' /\ Survivors'
        /\ ProcessesNamed' /\ RunningAccounted'
    <3>0. p # NoProcess
      BY <2>1 DEF Processes, NoProcess
    <3>1. /\ p = catalogue'[t].process /\ p = catalogue[t].process /\ ~Alive(p)
          /\ p # NoProcess /\ catalogue'[t].status # "running"
      BY ONLY <1>2, <2>1, <2>2, <3>0, p = x.process, s = "ended"
    <3>2. /\ up /\ up' /\ UNCHANGED process /\ stray \subseteq stray' /\ MuxInv
          /\ \A d \in Recording : d \in Recording' /\ call'[d] = call[d]
          /\ \A d \in Recording' : d \in Recording /\ call'[d] = call[d]
          /\ \A d \in Callers : call'[d].seen \subseteq call[d].seen
          /\ listener' # Ended => listener # Ended
      BY <1>0, <1>1, <1>3, <2>6
    <3>3. \A q \in Processes : Accounted(q) /\ q # catalogue[t].process => Accounted(q)'
      BY <1>4, <2>1
    <3>. QED BY ONLY <2>1, <2>3, <2>4, <3>1, <3>2, <3>3, RevisedKeeps
  <2>. QED BY <2>3, <2>5, <2>7, <2>8, <2>9 DEF MuxInv
<1>. QED BY <1>0, <1>5, <1>6

-----------------------------------------------------------------------------
(* Closing records *)

LEMMA ClosedFields ==
  ASSUME NEW r \in Records, NEW stop \in BOOLEAN
  PROVE  /\ Closed(r, stop).status = IF stop /\ Live(r) THEN "cancelled" ELSE r.status
         /\ Closed(r, stop).process = r.process
         /\ Closed(r, stop).revision = r.revision + 1
         /\ Closed(r, stop).revision > r.revision
         /\ Closed(r, stop) \in Records
<1>. PICK s : s = IF stop /\ Live(r) THEN "cancelled" ELSE r.status
  OBVIOUS
<1>. PICK n : n = r.revision + 1
  OBVIOUS
<1>1. r.revision \in Nat /\ n \in Nat /\ n > r.revision
  BY DEF Records
<1>2. s \in {"none", "created", "starting", "running", "ended", "cancelled", "disconnected"}
  BY DEF Records
<1>3. Closed(r, stop) = [r EXCEPT !.status = s, !.archived = TRUE, !.revision = n]
  BY DEF Closed
<1>. PICK e : e = [r EXCEPT !.status = s, !.archived = TRUE, !.revision = n]
  OBVIOUS
<1>4. e.status = s /\ e.process = r.process /\ e.revision = n /\ e \in Records
  BY <1>1, <1>2 DEF Records
<1>. QED BY <1>1, <1>3, <1>4

LEMMA CloseRecordsKeeps ==
  ASSUME MuxInv, NEW c \in Callers, CloseRecords(c)
  PROVE  MuxInv'
<1>. DEFINE b == call[c]
<1>. PICK stop : stop = (b.op # "keepTab")
  OBVIOUS
<1>. PICK ts : ts = IF b.op = "close" THEN {b.target.terminal} \cap Visible ELSE Visible
  OBVIOUS
<1>. PICK behind : behind = {catalogue[t].process : t \in {u \in ts : Live(catalogue[u])}} \ b.seen
  OBVIOUS
<1>0. b.at = "close" /\ UNCHANGED <<process, events, listener, up, renames, commands, crashes>>
  BY DEF CloseRecords, listening
<1>1. /\ b \in Commands /\ b.seen \subseteq Processes /\ stray \subseteq Processes
      /\ missed \subseteq Processes
  BY CommandFields DEF MuxInv, TypeOK
<1>2. /\ CommandSound(b) /\ b.op \in {"close", "tab", "keepTab"} /\ b.left = {}
      /\ b.op = "keepTab" => b.seen = {}
      /\ \A p \in b.seen : ~Alive(p) \/ p \in stray
  BY <1>0 DEF MuxInv, CommandsSound, CommandSound, Shape, Handles, Undone
<1>3. ts \subseteq Recorded /\ ts \subseteq Terminals /\ Recorded \subseteq Terminals
  BY DEF Visible, Recorded
<1>4. CASE Fault /\ Fail(c, process) /\ UNCHANGED <<catalogue, stray>>
  <2>. PICK x : x = b.target
    OBVIOUS
  <2>1. Refused(x)
    BY <1>4 DEF Refused
  <2>. QED BY <1>0, <1>1, <1>4, <2>1, RefusedKeeps
<1>5. CASE /\ catalogue' = [t \in Terminals |->
                IF t \in ts THEN Closed(catalogue[t], stop) ELSE catalogue[t]]
           /\ stray' = IF stop THEN stray \cup {p \in behind : Alive(p)} ELSE stray
           /\ missed' = missed \cup {p \in b.seen : ~Alive(p) /\ Naming(p) \cap ts = {}}
           /\ call' = [call EXCEPT ![c] = Idle]
           /\ UNCHANGED faults
  <2>1. ASSUME NEW t \in ts
        PROVE  /\ catalogue'[t].status = IF stop /\ Live(catalogue[t]) THEN "cancelled"
                                                                       ELSE catalogue[t].status
               /\ catalogue'[t].process = catalogue[t].process
               /\ catalogue'[t].revision = catalogue[t].revision + 1
               /\ catalogue'[t].revision > catalogue[t].revision
               /\ catalogue'[t] \in Records
    <3>1. catalogue'[t] = Closed(catalogue[t], stop)
      BY <1>3, <1>5
    <3>2. catalogue[t] \in Records /\ stop \in BOOLEAN
      BY <1>3, RecordFields DEF MuxInv
    <3>. QED BY <3>1, <3>2, ClosedFields
  <2>2. \A t \in Terminals \ ts : catalogue'[t] = catalogue[t]
    BY <1>5
  <2>3. /\ catalogue' \in [Terminals -> Records]
        /\ \A t \in Terminals : catalogue'[t].status = "disconnected" => catalogue'[t].process = NoProcess
    <3>1. \A t \in Terminals : catalogue'[t] \in Records
      BY <2>1, <2>2, RecordFields DEF MuxInv
    <3>2. catalogue' \in [Terminals -> Records]
      BY <1>5, <3>1
    <3>. QED BY <3>2, <2>1, <2>2 DEF MuxInv, TypeOK
  <2>4. call'[c] = Idle /\ Others(c) /\ call' \in [Callers -> Commands]
    BY <1>5, IdleSound, GoesOn DEF MuxInv
  <2>5. stray \subseteq stray' /\ stray' \subseteq Processes /\ missed' \subseteq Processes
    BY <1>1, <1>5, NobodyAlive, <1>3, RecordFields DEF MuxInv
  <2>6. TypeOK'
    BY <1>0, <1>5, <2>3, <2>4, <2>5 DEF MuxInv, TypeOK, Records, Commands
  <2>7. /\ Recorded' = Recorded
        /\ \A t \in Terminals : catalogue'[t].process = catalogue[t].process
        /\ \A t \in Terminals \ ts : Live(catalogue'[t]) = Live(catalogue[t])
        /\ \A t \in ts : Live(catalogue'[t]) = (Live(catalogue[t]) /\ ~stop)
    BY <1>3, <2>1, <2>2 DEF Recorded, Live
  <2>8. Moves /\ Ebbs
    BY <1>0, <1>3, <2>1, <2>2, <2>5, <2>7 DEF Moves, Ebbs, Alive
  <2>9. CommandsSound'
    <3>1. CommandSound(call[c])'
      BY <2>4, IdleSound DEF CommandSound, Shape, Knows, Starts, Handles
    <3>. QED BY <2>4, <2>6, <2>8, <3>1, CommandsKept DEF MuxInv
  <2>10. /\ Beginning' = Beginning /\ Recording' = Recording
         /\ \A d \in Recording : call'[d] = call[d] /\ d # c
         /\ \A d \in Beginning : call'[d] = call[d]
         /\ \A d \in Callers : call'[d].seen \subseteq call[d].seen
    BY <1>0, <2>4, IdleSound DEF Beginning, Recording, Others
  <2>11. \A q : Naming(q)' = Naming(q)
    BY <1>3, <2>7 DEF Naming
  <2>12. OneStarter'
    BY <2>10 DEF MuxInv, OneStarter
  <2>13. OneRecord'
    BY <1>3, <2>7 DEF MuxInv, OneRecord
  <2>14. OneRecorder'
    BY <2>10, <2>11 DEF MuxInv, OneRecorder
  <2>15. \A t \in ts : Live(catalogue[t]) /\ stop =>
           ~Alive(catalogue[t].process) \/ catalogue[t].process \in stray'
    BY <1>2, <1>5
  <2>16. RecordsSound'
    <3>. SUFFICES ASSUME NEW t \in Terminals
                  PROVE  /\ catalogue'[t].status = "none" => catalogue'[t] = NoRecord
                         /\ catalogue[t].process # NoProcess => process[catalogue[t].process] # "unused"
                         /\ ~Live(catalogue'[t]) =>
                              ~Alive(catalogue[t].process) \/ catalogue[t].process \in stray'
      BY <1>0, <2>7 DEF RecordsSound, Live, Alive
    <3>1. catalogue'[t].status = "none" => catalogue'[t] = NoRecord
      BY <1>3, <2>2, <2>7 DEF MuxInv, RecordsSound, Recorded
    <3>. QED BY <3>1, <2>5, <2>7, <2>15 DEF MuxInv, RecordsSound
  <2>17. ExitsOver'
    BY <1>0, <2>6, <2>8, ExitsKept DEF MuxInv
  <2>18. up /\ up'
    BY <1>0 DEF MuxInv, Down, Idle
  <2>19. Down' /\ Survivors'
    BY <1>0, <2>5, <2>18 DEF MuxInv, Down, Survivors
  <2>20. ProcessesNamed'
    <3>. SUFFICES ASSUME NEW q \in Processes, Alive(q), q \notin stray'
                  PROVE  \/ \E t \in Naming(q) : Live(catalogue'[t])
                         \/ \E d \in Recording : call[d].target.process = q
      BY <1>0, <2>10, <2>11 DEF ProcessesNamed, Alive
    <3>1. ASSUME NEW t \in Naming(q), Live(catalogue[t]) PROVE Live(catalogue'[t])
      BY <1>3, <2>7, <2>15, <3>1 DEF Naming
    <3>. QED BY <3>1, <2>5, <2>18 DEF MuxInv, ProcessesNamed
  <2>21. \A q \in Processes : Accounted(q) /\ (q \in b.seen => Naming(q) \cap ts = {}) => Accounted(q)'
    <3>. SUFFICES ASSUME NEW q \in Processes, Accounted(q), q \in b.seen => Naming(q) \cap ts = {}
                  PROVE  Accounted(q)'
      OBVIOUS
    <3>1. CASE process[q] \in {"gone", "dead"} /\ \E d \in Callers : q \in Owed(call[d])
      <4>1. PICK d \in Callers : q \in Owed(call[d])
        BY <3>1
      <4>2. CASE d = c
        <5>1. q \in b.seen
          BY <4>1, <4>2, <1>0, <1>2 DEF Owed
        <5>2. q \in missed'
          BY <3>1, <5>1, <1>5 DEF Alive
        <5>. QED BY <5>2 DEF Accounted
      <4>3. CASE d # c
        BY <4>1, <4>3, <3>1, <1>0, <2>4 DEF Others, Accounted
      <4>. QED BY <4>2, <4>3
    <3>2. CASE ~(process[q] \in {"gone", "dead"} /\ \E d \in Callers : q \in Owed(call[d]))
      BY <3>2, <1>0, <1>5 DEF Accounted, Alive
    <3>. QED BY <3>1, <3>2
  <2>22. RunningAccounted'
    <3>. SUFFICES ASSUME listener # Ended
                  PROVE  /\ \A t \in Terminals : catalogue'[t].status = "running" =>
                              catalogue'[t].process \in Processes /\ Accounted(catalogue[t].process)'
                         /\ \A d \in Recording' : Accounted(call[d].target.process)'
      BY <1>0 DEF RunningAccounted
    <3>1. ASSUME NEW t \in Terminals, catalogue'[t].status = "running"
          PROVE  catalogue'[t].process \in Processes /\ Accounted(catalogue[t].process)'
      <4>. PICK q : q = catalogue[t].process
        OBVIOUS
      <4>1. catalogue'[t].process = q /\ catalogue[t].status = "running"
        BY <3>1, <2>1, <2>2, <2>7
      <4>2. q \in Processes /\ Accounted(q)
        BY <4>1, <1>0, <2>18 DEF MuxInv, RunningAccounted
      <4>3. t \in Recorded /\ q # NoProcess
        BY <4>1, <4>2 DEF Recorded, Processes, NoProcess
      <4>4. Naming(q) \subseteq {t}
        BY <4>3 DEF MuxInv, OneRecord, Naming
      <4>5. t \in ts => ~stop
        BY <3>1, <2>1, <4>1 DEF Live
      <4>6. q \in b.seen => Naming(q) \cap ts = {}
        BY <4>4, <4>5, <1>2
      <4>. QED BY <4>1, <4>2, <4>6, <2>21
    <3>2. ASSUME NEW d \in Recording' PROVE Accounted(call[d].target.process)'
      <4>. PICK q : q = call[d].target.process
        OBVIOUS
      <4>1. d \in Recording /\ call'[d].target.process = q /\ d \in Callers
        BY <3>2, <2>10 DEF Recording
      <4>2. q \in Processes /\ Accounted(q) /\ Naming(q) = {}
        BY <4>1, <1>0, <2>18
        DEF MuxInv, RunningAccounted, CommandsSound, CommandSound, Shape, Recording, OneRecorder
      <4>. QED BY <4>1, <4>2, <2>21
    <3>. QED BY <3>1, <3>2
  <2>. QED BY <2>6, <2>9, <2>12, <2>13, <2>14, <2>16, <2>17, <2>19, <2>20, <2>22 DEF MuxInv
<1>. QED BY <1>4, <1>5 DEF CloseRecords

-----------------------------------------------------------------------------
(* The end of a host process, and the next one *)

LEMMA CrashKeeps ==
  ASSUME MuxInv, Crash
  PROVE  MuxInv'
<1>. PICK survivors \in SUBSET {p \in Processes : Alive(p)} :
       /\ process' = [p \in Processes |->
            IF p \in survivors THEN "stale"
            ELSE IF process[p] \in {"unused", "stale"} THEN process[p] ELSE "gone"]
       /\ stray' = stray \cup (survivors \cap
            {call[c].target.process : c \in {d \in Callers : call[d].at = "record"}})
  BY DEF Crash
<1>0. /\ crashes' = crashes + 1 /\ call' = [c \in Callers |-> Idle]
      /\ events' = <<>> /\ listener' = Waiting /\ up' = FALSE
      /\ UNCHANGED <<catalogue, missed, renames, commands, faults>>
  BY DEF Crash
<1>1. TypeOK'
  <2>1. process' \in [Processes -> {"unused", "running", "exited", "gone", "stuck", "dead", "stale"}]
    BY DEF MuxInv, TypeOK
  <2>2. call' \in [Callers -> Commands]
    BY <1>0, IdleSound
  <2>3. stray' \subseteq Processes
    BY DEF MuxInv, TypeOK
  <2>4. crashes' \in Nat /\ up' \in BOOLEAN
    <3>1. crashes \in Nat
      BY ONLY MuxInv DEF MuxInv, TypeOK
    <3>2. crashes' = crashes + 1
      BY <1>0
    <3>3. crashes' \in Nat
      BY ONLY <3>1, <3>2
    <3>4. up' \in BOOLEAN
      BY <1>0
    <3>. QED BY <3>3, <3>4
  <2>5. events' \in Seq(Processes) /\ listener' \in [at : {"waiting", "found", "ended"}, target : Targets]
    BY <1>0, ListenerFields
  <2>. QED BY ONLY MuxInv, <1>0, <2>1, <2>2, <2>3, <2>4, <2>5 DEF MuxInv, TypeOK, Commands
<1>2. \A c \in Callers : call'[c] = Idle
  BY <1>0
<1>3. Recording' = {} /\ Beginning' = {}
  BY <1>2, IdleSound DEF Recording, Beginning
<1>4. CommandsSound'
  <2>. SUFFICES ASSUME NEW c \in Callers PROVE CommandSound(call[c])'
    BY DEF CommandsSound
  <2>. QED BY <1>2, IdleSound
<1>5. OneStarter' /\ OneRecorder'
  BY <1>3 DEF OneStarter, OneRecorder
<1>6. OneRecord'
  BY <1>0 DEF MuxInv, OneRecord, Recorded
<1>7. \A p \in Processes : ~Alive(p)'
  BY DEF Alive
<1>8. RecordsSound'
  <2>. SUFFICES ASSUME NEW t \in Terminals
                PROVE  /\ catalogue[t].process # NoProcess => process'[catalogue[t].process] # "unused"
                       /\ ~Alive(catalogue[t].process)'
    BY <1>0 DEF MuxInv, RecordsSound, Live
  <2>1. catalogue[t].process \in Processes \cup {NoProcess}
    BY RecordFields DEF MuxInv
  <2>2. ~Alive(catalogue[t].process)'
    BY <2>1, <1>0, <1>7, NobodyAlive
  <2>. QED BY <2>1, <2>2 DEF MuxInv, RecordsSound
<1>9. ExitsOver'
  BY <1>0, ListenerFields DEF ExitsOver
<1>10. Down'
  BY <1>0, <1>2, <1>7 DEF Down
<1>11. Survivors'
  <2>. SUFFICES ASSUME NEW p \in Processes, process'[p] = "stale", p \notin stray'
                PROVE  \E t \in Naming(p) : Live(catalogue[t])
    BY <1>0 DEF Survivors, Naming, Recorded, Live
  <2>1. CASE p \in survivors
    <3>1. Alive(p) /\ up
      BY <2>1 DEF MuxInv, Down
    <3>2. \A c \in Recording : call[c].target.process # p
      BY <2>1 DEF Recording
    <3>. QED BY <3>1, <3>2 DEF MuxInv, ProcessesNamed
  <2>2. CASE p \notin survivors
    <3>1. process[p] = "stale" /\ p \notin stray
      BY <2>2
    <3>. QED BY <3>1 DEF MuxInv, Survivors
  <2>. QED BY <2>1, <2>2
<1>12. ProcessesNamed' /\ RunningAccounted'
  BY <1>0 DEF ProcessesNamed, RunningAccounted
<1>. QED BY <1>1, <1>4, <1>5, <1>6, <1>8, <1>9, <1>10, <1>11, <1>12 DEF MuxInv

LEMMA ReconcileKeeps ==
  ASSUME MuxInv, Reconcile
  PROVE  MuxInv'
<1>0. /\ ~up /\ Surviving = {} /\ up' = TRUE
      /\ UNCHANGED <<process, call, events, listener, stray, missed, renames, commands, faults,
                     crashes>>
      /\ catalogue' = [t \in Terminals |->
           IF Live(catalogue[t])
             THEN [catalogue[t] EXCEPT !.status = "disconnected", !.process = NoProcess,
                                       !.revision = @ + 1]
             ELSE catalogue[t]]
  BY DEF Reconcile, listening, histories
<1>1. ASSUME NEW t \in Terminals, Live(catalogue[t])
      PROVE  /\ catalogue'[t].status = "disconnected" /\ catalogue'[t].process = NoProcess
             /\ catalogue'[t].revision > catalogue[t].revision /\ catalogue'[t] \in Records
  <2>. PICK r : r = catalogue[t]
    OBVIOUS
  <2>. PICK n : n = r.revision + 1
    OBVIOUS
  <2>1. r \in Records /\ r.revision \in Nat /\ n \in Nat /\ n > r.revision
    BY RecordFields DEF MuxInv
  <2>2. catalogue'[t] = [r EXCEPT !.status = "disconnected", !.process = NoProcess, !.revision = n]
    BY <1>0, <1>1
  <2>. PICK e : e = [r EXCEPT !.status = "disconnected", !.process = NoProcess, !.revision = n]
    OBVIOUS
  <2>3. e.status = "disconnected" /\ e.process = NoProcess /\ e.revision = n /\ e \in Records
    BY <2>1 DEF Records
  <2>. QED BY <2>1, <2>2, <2>3
<1>2. \A t \in Terminals : ~Live(catalogue[t]) => catalogue'[t] = catalogue[t]
  BY <1>0
<1>3. TypeOK'
  <2>1. \A t \in Terminals : catalogue'[t] \in Records
    BY <1>1, <1>2, RecordFields DEF MuxInv
  <2>2. catalogue' \in [Terminals -> Records]
    BY <1>0, <2>1
  <2>3. \A t \in Terminals : catalogue'[t].status = "disconnected" => catalogue'[t].process = NoProcess
    BY <1>1, <1>2 DEF MuxInv, TypeOK
  <2>. QED BY <1>0, <2>2, <2>3 DEF MuxInv, TypeOK, Records
<1>4. Recorded' = Recorded
  BY <1>1, <1>2 DEF Recorded, Live
<1>5. \A c \in Callers : call'[c] = Idle
  BY <1>0 DEF MuxInv, Down
<1>6. Recording' = {} /\ Beginning' = {}
  BY <1>5, IdleSound DEF Recording, Beginning
<1>7. CommandsSound'
  <2>. SUFFICES ASSUME NEW c \in Callers PROVE CommandSound(call[c])'
    BY DEF CommandsSound
  <2>. QED BY <1>5, IdleSound
<1>8. OneStarter' /\ OneRecorder'
  BY <1>6 DEF OneStarter, OneRecorder
<1>9. \A t \in Terminals : catalogue'[t].process \in {catalogue[t].process, NoProcess}
  BY <1>1, <1>2
<1>10. OneRecord'
  BY <1>4, <1>9 DEF MuxInv, OneRecord, Recorded
<1>11. RecordsSound'
  <2>. SUFFICES ASSUME NEW t \in Terminals
                PROVE  /\ catalogue'[t].status = "none" => catalogue'[t] = NoRecord
                       /\ catalogue'[t].process # NoProcess => process[catalogue'[t].process] # "unused"
                       /\ ~Alive(catalogue'[t].process)
    BY <1>0 DEF RecordsSound, Alive, Live
  <2>1. ~Alive(catalogue'[t].process)
    BY <1>0, <1>3, NobodyAlive DEF MuxInv, Down, TypeOK
  <2>. QED BY <2>1, <1>1, <1>2 DEF MuxInv, RecordsSound
<1>12. ExitsOver'
  <2>1. events' = <<>> /\ listener' = Waiting
    BY <1>0 DEF MuxInv, Down
  <2>. QED BY ONLY <2>1, ListenerFields DEF ExitsOver
<1>13. Down'
  BY <1>0 DEF Down
<1>14. Survivors'
  BY <1>0 DEF MuxInv, Survivors, Surviving
<1>15. ProcessesNamed'
  BY <1>0 DEF MuxInv, Down, ProcessesNamed, Alive
<1>16. RunningAccounted'
  <2>1. \A t \in Terminals : catalogue'[t].status # "running"
    BY <1>1, <1>2 DEF Live
  <2>. QED BY <2>1, <1>6 DEF RunningAccounted
<1>. QED BY <1>3, <1>7, <1>8, <1>10, <1>11, <1>12, <1>13, <1>14, <1>15, <1>16 DEF MuxInv

-----------------------------------------------------------------------------
(* Theorems *)

LEMMA InitHolds == Init => MuxInv
<1>. SUFFICES ASSUME Init PROVE MuxInv
  OBVIOUS
<1>1. /\ \A t \in Terminals : catalogue[t] = NoRecord
      /\ \A p \in Processes : process[p] = "unused"
      /\ \A c \in Callers : call[c] = Idle
      /\ events = <<>> /\ listener = Waiting /\ up = TRUE /\ stray = {} /\ missed = {}
  BY DEF Init
<1>2. /\ NoRecord \in Records /\ NoRecord.status = "none" /\ NoRecord.process = NoProcess
  BY DEF NoRecord, Records
<1>3. TypeOK
  <2>1. catalogue \in [Terminals -> Records]
    BY <1>2 DEF Init
  <2>2. call \in [Callers -> Commands]
    BY IdleSound DEF Init
  <2>3. \A t \in Terminals : catalogue[t].status # "disconnected"
    BY <1>1, <1>2
  <2>. QED BY <1>1, <2>1, <2>2, <2>3, ListenerFields DEF Init, TypeOK, Records, Commands
<1>4. Recorded = {} /\ Recording = {} /\ Beginning = {}
  BY <1>1, <1>2, IdleSound DEF Recorded, Recording, Beginning
<1>5. CommandsSound
  BY <1>1, IdleSound DEF CommandsSound
<1>6. OneStarter /\ OneRecord /\ OneRecorder
  BY <1>4 DEF OneStarter, OneRecord, OneRecorder
<1>7. \A p \in Processes \cup {NoProcess} : ~Alive(p)
  BY <1>1 DEF Alive
<1>8. RecordsSound
  BY <1>1, <1>2, <1>7 DEF RecordsSound, Live
<1>9. ExitsOver /\ Down /\ Survivors
  BY <1>1, ListenerFields DEF ExitsOver, Down, Survivors
<1>10. ProcessesNamed
  BY <1>7 DEF ProcessesNamed
<1>11. RunningAccounted
  BY <1>1, <1>2, <1>4 DEF RunningAccounted
<1>. QED BY <1>3, <1>5, <1>6, <1>8, <1>9, <1>10, <1>11 DEF MuxInv

LEMMA StutterKeeps ==
  ASSUME MuxInv, UNCHANGED vars
  PROVE  MuxInv'
BY DEF vars, listening, histories, MuxInv, TypeOK, CommandsSound, CommandSound, Shape, Knows, Starts,
       Handles, Undone, OneStarter, OneRecord, OneRecorder, RecordsSound, ExitsOver, Down, Survivors,
       ProcessesNamed, RunningAccounted, Accounted, Over, Known, Current, Alive, Live, Naming, Recorded,
       Recording, Beginning

LEMMA NextKeeps == MuxInv /\ [Next]_vars => MuxInv'
<1>. SUFFICES ASSUME MuxInv, [Next]_vars PROVE MuxInv'
  OBVIOUS
<1>1. CASE UNCHANGED vars
  BY <1>1, StutterKeeps
<1>2. ASSUME NEW c \in Callers,
             \/ CreateTerminal(c) \/ ArchiveTab(c) \/ ArchiveSession(c)
             \/ NextTarget(c) \/ Dispose(c) \/ Start(c) \/ Spawn(c) \/ Record(c)
             \/ Cancel(c) \/ CloseRecords(c)
      PROVE  MuxInv'
  BY <1>2, CreateTerminalKeeps, ArchiveTabKeeps, ArchiveSessionKeeps, NextTargetKeeps, DisposeKeeps,
     StartKeeps, SpawnKeeps, RecordKeeps, CancelKeeps, CloseRecordsKeeps
<1>3. ASSUME NEW c \in Callers, NEW t \in Terminals, Restart(c, t) \/ Stop(c, t) \/ Close(c, t)
      PROVE  MuxInv'
  BY <1>3, RestartKeeps, StopKeeps, CloseKeeps
<1>4. ASSUME NEW t \in Terminals, Rename(t) PROVE MuxInv'
  BY <1>4, RenameKeeps
<1>5. ASSUME NEW p \in Processes, Exit(p) \/ CleanUp(p) \/ TerminateStale(p) PROVE MuxInv'
  BY <1>5, ExitKeeps, CleanUpKeeps, TerminateStaleKeeps
<1>6. CASE Receive \/ UpdateExit \/ Lag \/ Crash \/ Reconcile
  BY <1>6, ReceiveKeeps, UpdateExitKeeps, LagKeeps, CrashKeeps, ReconcileKeeps
<1>. QED BY <1>1, <1>2, <1>3, <1>4, <1>5, <1>6 DEF Next

\* The inductive invariant of the runtime (runtime.rs with store.rs and the host):
\* revisions fence what commands and the listener read, a process has one record
\* or one recorder, and a process that ended has somebody who tells the catalogue.
THEOREM MuxHolds == Spec => []MuxInv
BY InitHolds, NextKeeps, PTL DEF Spec

LEMMA AtMostOne ==
  ASSUME NEW S, NEW x, S \subseteq {x}
  PROVE  Cardinality(S) <= 1
<1>1. IsFiniteSet({x}) /\ Cardinality({x}) = 1
  BY FS_Singleton
<1>2. Cardinality(S) <= Cardinality({x})
  BY <1>1, FS_Subset
<1>. QED BY <1>1, <1>2

LEMMA InvariantIsProcessInv == MuxInv => ProcessInv
<1>. SUFFICES ASSUME MuxInv PROVE OneProcess
  BY DEF ProcessInv, MuxInv
<1>. SUFFICES ASSUME NEW t \in Terminals
              PROVE  Cardinality({p \in Processes : Alive(p) /\
                       \/ t \in Naming(p)
                       \/ \E c \in Recording : call[c].target = Target(t, catalogue[t].revision, p)}) <= 1
  BY DEF OneProcess
<1>. DEFINE S == {p \in Processes : Alive(p) /\
                    \/ t \in Naming(p)
                    \/ \E c \in Recording : call[c].target = Target(t, catalogue[t].revision, p)}
            Recorder(c) == c \in Recording /\ \E p : call[c].target = Target(t, catalogue[t].revision, p)
<1>1. CASE \E c : Recorder(c)
  <2>1. PICK c : Recorder(c)
    BY <1>1
  <2>2. /\ c \in Recording /\ c \in Beginning
        /\ call[c].target.terminal = t /\ call[c].target.revision = catalogue[t].revision
    BY <2>1 DEF Target, Recording, Beginning
  <2>3. ~Alive(catalogue[t].process)
    BY <2>2 DEF MuxInv, CommandsSound, CommandSound, Starts, Current, Recording
  <2>4. \A d \in Recording : \A p : call[d].target = Target(t, catalogue[t].revision, p) => d = c
    <3>. SUFFICES ASSUME NEW d \in Recording, NEW p,
                         call[d].target = Target(t, catalogue[t].revision, p)
                  PROVE  d = c
      OBVIOUS
    <3>1. d \in Beginning /\ call[d].target.terminal = t /\ call[d].target.revision = catalogue[t].revision
      BY DEF Target, Recording, Beginning
    <3>. QED BY <3>1, <2>2 DEF MuxInv, OneStarter
  <2>5. \A p : call[c].target = Target(t, catalogue[t].revision, p) => p = call[c].target.process
    BY DEF Target
  <2>6. S \subseteq {call[c].target.process}
    BY <2>3, <2>4, <2>5 DEF Naming
  <2>. QED BY <2>6, AtMostOne
<1>2. CASE ~\E c : Recorder(c)
  <2>1. S \subseteq {catalogue[t].process}
    BY <1>2 DEF Naming
  <2>. QED BY <2>1, AtMostOne
<1>. QED BY <1>1, <1>2

\* Every process of a serving host is one terminal's: a live record names it or a
\* command is about to record it, and two restarts, or a create and a restart
\* (create_mux_terminal, restart_mux_terminal), do not start two for one terminal.
THEOREM ProcessesBelong == Spec => []ProcessInv
BY MuxHolds, InvariantIsProcessInv, PTL

LEMMA InvariantIsTrueCatalogue == MuxInv => CatalogueIsTrue
<1>. SUFFICES ASSUME MuxInv PROVE CatalogueIsTrue
  OBVIOUS
<1>1. RunningIsTrue
  <2>. SUFFICES ASSUME NEW t \in Terminals, up, listener # Ended, catalogue[t].status = "running",
                       ~Alive(catalogue[t].process), catalogue[t].process \notin missed
                PROVE  Pending(catalogue[t].process)
    BY DEF RunningIsTrue
  <2>. PICK p : p = catalogue[t].process
    OBVIOUS
  <2>1. p \in Processes /\ Accounted(p) /\ p # NoProcess
    BY DEF MuxInv, RunningAccounted, Processes, NoProcess
  <2>2. \A c \in Callers : p \in Owed(call[c]) => p \in call[c].seen
    BY <2>1 DEF MuxInv, CommandsSound, CommandSound, Knows, Owed
  <2>. QED BY <2>1, <2>2 DEF Accounted, Pending
<1>2. SurvivorsTerminated
  BY DEF MuxInv, Survivors, SurvivorsTerminated
<1>. QED BY <1>1, <1>2 DEF CatalogueIsTrue

\* What the catalogue says of a process is so: a terminal that says running has one
\* that runs, or its end is on the way (lifecycle listener, disposing command) or
\* was lost by a refused update; and no process the catalogue knew survives its
\* host once the next one serves (terminate_stale_process, reconcile_startup).
THEOREM CatalogueStaysTrue == Spec => []CatalogueIsTrue
BY MuxHolds, InvariantIsTrueCatalogue, PTL
=============================================================================
