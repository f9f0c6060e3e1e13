---------------------------- MODULE FairScheduler ----------------------------
(* FairWorkerScheduler: the commands of the terminals that share one worker,    *)
(* one in flight per terminal, served by weighted deficit round robin from a    *)
(* microtask, and the completions the worker pool hands back.                   *)
EXTENDS Naturals, Sequences, FiniteSets, SequencesExt, FiniteSetsExt, Functions

CONSTANTS
    Terminals,
    MaxInFlight, Quantum, Rounds,   \* WORKER_SCHEDULER_LIMITS, attempts per lane
    MaxBytes, MaxQueued,            \* what the scheduler accepts
    Costs, Weights,                 \* command sizes, priorities
    MaxKeys, MaxResets              \* bounds: commands, dead workers

VARIABLES
    lanes,                      \* terminal -> [queue, weight, deficit, flight]
    order, cursor,              \* the round robin
    bytes, commands, inFlight,  \* the counters
    scheduled,                  \* a microtask will pump
    atWorker,                   \* <<terminal, key>>: dispatched and not answered
    keys, resets,
    freed                       \* a cancelled command in flight made room (history)

schedVars == <<lanes, order, cursor, bytes, commands, inFlight, scheduled, atWorker, keys, resets, freed>>

SchedInit ==
    /\ lanes = <<>> /\ order = <<>> /\ cursor = 1
    /\ bytes = 0 /\ commands = 0 /\ inFlight = 0 /\ scheduled = FALSE
    /\ atWorker = {} /\ keys = 0 /\ resets = 0 /\ freed = FALSE

NewLane(w) == [queue |-> <<>>, weight |-> w, deficit |-> 0, flight |-> 0]
Without(t) == SelectSeq(order, LAMBDA u : u # t)
Wrap(c, ids) == IF ids = <<>> THEN 1 ELSE ((c - 1) % Len(ids)) + 1
QueuedBytes(q) ==
    LET upTo[n \in 0..Len(q)] == IF n = 0 THEN 0 ELSE upTo[n - 1] + q[n].bytes IN upTo[Len(q)]
Schedule == scheduled' = TRUE /\ freed' = FALSE

(* A command that does not fit is refused before anything changes.             *)
Enqueue(t, cost, w) ==
    /\ keys < MaxKeys
    /\ bytes + cost <= MaxBytes /\ commands + 1 <= MaxQueued
    /\ keys' = keys + 1
    /\ LET lane == IF t \in DOMAIN lanes THEN lanes[t] ELSE NewLane(w)
           more == [lane EXCEPT !.weight = w, !.queue = Append(@, [bytes |-> cost, key |-> keys + 1])]
       IN lanes' = [u \in DOMAIN lanes \union {t} |-> IF u = t THEN more ELSE lanes[u]]
    /\ order' = IF t \in DOMAIN lanes THEN order ELSE Append(order, t)
    /\ bytes' = bytes + cost /\ commands' = commands + 1
    /\ Schedule
    /\ UNCHANGED <<cursor, inFlight, atWorker, resets>>

(* complete, and cleanup of a lane with nothing left; a stale key is ignored.   *)
Complete(t, key) ==
    /\ <<t, key>> \in atWorker
    /\ atWorker' = atWorker \ {<<t, key>>}
    /\ IF t \in DOMAIN lanes /\ lanes[t].flight = key
       THEN /\ inFlight' = inFlight - 1
            /\ IF lanes[t].queue = <<>>
               THEN /\ lanes' = Restrict(lanes, DOMAIN lanes \ {t})
                    /\ order' = Without(t) /\ cursor' = Wrap(cursor, order')
               ELSE lanes' = [lanes EXCEPT ![t].flight = 0] /\ UNCHANGED <<order, cursor>>
            /\ Schedule
       ELSE UNCHANGED <<lanes, order, cursor, inFlight, scheduled, freed>>
    /\ UNCHANGED <<bytes, commands, keys, resets>>

\* Fault: the place of the command in flight is not given back.
FlightsKept(t) == inFlight
FlightsWithout(t) == IF lanes[t].flight # 0 THEN inFlight - 1 ELSE inFlight

(* cancel: a released terminal takes its lane with it.                         *)
Cancel(t) ==
    /\ t \in DOMAIN lanes
    /\ bytes' = bytes - QueuedBytes(lanes[t].queue)
    /\ commands' = commands - Len(lanes[t].queue)
    /\ inFlight' = FlightsWithout(t)
    /\ freed' = (freed \/ (lanes[t].flight # 0 /\ ~scheduled))
    /\ lanes' = Restrict(lanes, DOMAIN lanes \ {t})
    /\ order' = Without(t) /\ cursor' = Wrap(cursor, order')
    /\ UNCHANGED <<scheduled, atWorker, keys, resets>>

(* reset: the worker died, and the pool starts another one.                     *)
Reset ==
    /\ resets < MaxResets /\ lanes # <<>>
    /\ resets' = resets + 1
    /\ lanes' = <<>> /\ order' = <<>> /\ cursor' = 1
    /\ bytes' = 0 /\ commands' = 0 /\ inFlight' = 0 /\ freed' = FALSE
    /\ UNCHANGED <<scheduled, atWorker, keys>>

(* One attempt of pump: the lane under the cursor earns its quantum and sends   *)
(* its first command when the deficit covers it.                                *)
Attempt(s) ==
    LET t == order[s.cursor]
        lane == s.lanes[t]
        next == [s EXCEPT !.cursor = Wrap(@ + 1, order)]
        earned == lane.deficit + Quantum * lane.weight
    IN IF s.inFlight >= MaxInFlight THEN s
       ELSE IF lane.flight # 0 \/ lane.queue = <<>> THEN next
       ELSE IF Head(lane.queue).bytes > earned
       THEN [next EXCEPT !.lanes[t].deficit = earned]
       ELSE LET first == Head(lane.queue)
            IN [next EXCEPT !.lanes[t] = [lane EXCEPT !.queue = Tail(@), !.flight = first.key,
                                                      !.deficit = earned - first.bytes],
                            !.bytes = @ - first.bytes, !.commands = @ - 1,
                            !.inFlight = @ + 1, !.sent = @ \union {<<t, first.key>>}]

Dispatchable(ls) == \E t \in DOMAIN ls : ls[t].flight = 0 /\ ls[t].queue # <<>>

\* Fault: a pump that stopped short of a large command is not repeated.
PumpsOnce(ls, flying) == FALSE
PumpsAgain(ls, flying) == flying < MaxInFlight /\ Dispatchable(ls)

(* The microtask: pump as far as the worker takes commands, and again later     *)
(* when a lane still has something to send.                                     *)
Pump ==
    /\ scheduled
    /\ LET start == [lanes |-> lanes, cursor |-> cursor, bytes |-> bytes,
                     commands |-> commands, inFlight |-> inFlight, sent |-> atWorker]
           tries == Len(order) * Rounds
           after[n \in 0..tries] == IF n = 0 THEN start ELSE Attempt(after[n - 1])
       IN \E end \in {after[tries]} :
             /\ lanes' = end.lanes /\ cursor' = end.cursor /\ bytes' = end.bytes
             /\ commands' = end.commands /\ inFlight' = end.inFlight /\ atWorker' = end.sent
             /\ scheduled' = PumpsAgain(end.lanes, end.inFlight)
    /\ UNCHANGED <<order, keys, resets, freed>>

AnyAnswer == \E answer \in atWorker : Complete(answer[1], answer[2])

SchedNext ==
    \/ \E t \in Terminals, c \in Costs, w \in Weights : Enqueue(t, c, w)
    \/ AnyAnswer
    \/ \E t \in Terminals : Cancel(t)
    \/ Reset \/ Pump

SchedSteady == Pump \/ AnyAnswer

SchedSpec == SchedInit /\ [][SchedNext]_schedVars /\ WF_schedVars(SchedSteady)

-----------------------------------------------------------------------------
(* The counters that admit and dispatch commands are those of the lanes, in any *)
(* order of enqueues, completions, late completions of a cancelled or reset     *)
(* lane, releases and dead workers; no lane is kept without anything to do.     *)
Accounts ==
    /\ LET total(amount(_)) ==
               LET upTo[n \in 0..Len(order)] ==
                       IF n = 0 THEN 0 ELSE upTo[n - 1] + amount(lanes[order[n]].queue)
               IN upTo[Len(order)]
       IN ToSet(order) = DOMAIN lanes /\ bytes = total(QueuedBytes) /\ commands = total(Len)
    /\ inFlight = Cardinality({t \in DOMAIN lanes : lanes[t].flight # 0}) /\ inFlight <= MaxInFlight
    /\ Len(order) = Cardinality(DOMAIN lanes)
    /\ order # <<>> => cursor \in DOMAIN order
    /\ \A t \in DOMAIN lanes : lanes[t].flight # 0 \/ lanes[t].queue # <<>>

(* Whenever a command could be sent, a pump is scheduled: except after a cancel, *)
(* which frees a place and wakes nobody (the next enqueue or completion does).  *)
Awake == Dispatchable(lanes) /\ inFlight < MaxInFlight => scheduled \/ freed

(* Every accepted command is dispatched in the end while the worker answers:    *)
(* none is starved by heavier or more favoured lanes.                           *)
Undisturbed == ~freed
Settled == commands = 0
Drains == <>[]Undisturbed => <>[]Settled
=============================================================================
