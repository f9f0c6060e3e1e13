------------------------------ MODULE MCClient ------------------------------
(* The browser's parts for TLC.  They share no state in these models, so one   *)
(* run explores them side by side: `part` says, from the start on, which of    *)
(* them moves.                                                                 *)
EXTENDS TerminalResync, WebTransport, MultiServer, MuxStore, OutputWriter, FiniteSetsExt

CONSTANTS
    \* WorkerTerminal
    Slots, MaxUpdates, MaxAsked, MaxFaults, MayDispose,
    \* FairScheduler
    Terminals, MaxInFlight, Quantum, Rounds, MaxBytes, MaxQueued, Costs, Weights, MaxKeys, MaxResets,
    MaxTogether    \* bound: what Next counts together
ASSUME WorkerBounds ==
    /\ {Slots, MaxUpdates} \subseteq Nat \ {0}
    /\ {MaxAsked, MaxFaults} \subseteq Nat /\ MayDispose \in BOOLEAN
ASSUME SchedulerBounds ==
    /\ {MaxInFlight, Quantum, Rounds, MaxBytes, MaxQueued} \subseteq Nat \ {0}
    /\ Costs \union Weights \subseteq Nat \ {0} /\ {MaxKeys, MaxResets} \subseteq Nat
ASSUME ServerBounds == Current \notin Remote /\ {MaxObjs, MaxCalls, MaxNews} \subseteq Nat
ASSUME TransportBounds == {MaxUnseen, MaxMishaps, MaxWakes, MaxTogether} \subseteq Nat

VARIABLES
    part,
    main, mainGen, unparsed, updates, visible, dirty, frame, model, shown,
    torn, lane, busy, sent, toMain, core, pend, asked, faults,
    lanes, order, cursor, bytes, commands, inFlight, scheduled, atWorker,
    keys, resets, freed

Worker == INSTANCE WorkerTerminal
Sched == INSTANCE FairScheduler

workerVars == <<main, mainGen, unparsed, updates, visible, dirty, frame,
                model, shown, torn, lane, busy, sent, toMain, core, pend,
                asked, faults>>
schedulerVars == <<lanes, order, cursor, bytes, commands, inFlight,
                   scheduled, atWorker, keys, resets, freed>>

resyncIdle == UNCHANGED <<part, workerVars, schedulerVars, serverVars, muxVars, transportVars,
        outputVars>>
workerIdle == UNCHANGED <<part, resyncVars, schedulerVars, serverVars, muxVars, transportVars,
        outputVars>>
schedulerIdle == UNCHANGED <<part, resyncVars, workerVars, serverVars, muxVars, transportVars,
        outputVars>>
serversIdle == UNCHANGED <<part, resyncVars, workerVars, schedulerVars, muxVars, transportVars,
        outputVars>>
storeIdle == UNCHANGED <<part, resyncVars, workerVars, schedulerVars, serverVars, transportVars,
        outputVars>>
transportIdle == UNCHANGED <<part, resyncVars, workerVars, schedulerVars, serverVars, muxVars,
        outputVars>>
outputIdle == UNCHANGED <<part, resyncVars, workerVars, schedulerVars, serverVars, muxVars,
        transportVars>>

clientVars == <<part, resyncVars, workerVars, schedulerVars, serverVars, muxVars,
        transportVars, outputVars>>

Init ==
    /\ part \in {"resync", "worker", "scheduler", "servers", "store", "transport", "output"}
    /\ ResyncInit
    /\ Worker!WorkerInit
    /\ Sched!SchedInit
    /\ ServersInit
    /\ MuxInit
    /\ TransportInit
    /\ OutputInit
    /\ part = "transport" \/ token
    /\ part = "output" \/ asking

(* Three parts also bound together what happens to them: disconnects, mounts and  *)
(* troubles; changes, losses and requests; failures and wakes.                    *)
Next ==
    \/ part = "resync" /\ ResyncNext /\ gen' + mounts' + trouble' <= MaxTogether /\ resyncIdle
    \/ part = "worker" /\ Worker!WorkerNext /\ workerIdle
    \/ part = "scheduler" /\ Sched!SchedNext /\ schedulerIdle
    \/ part = "servers" /\ ServersNext /\ called' + news' <= MaxCalls /\ serversIdle
    \/ part = "store" /\ MuxNext /\ changes' + drops' + requests' <= MaxTogether /\ storeIdle
    \/ part = "transport" /\ TransportNext /\ mishaps' + wakes' <= MaxTogether /\ transportIdle
    \/ part = "output" /\ OutputNext /\ outputIdle

(* What each part's timers, tasks and answers do in the end.  Only one part ever *)
(* moves, so this is weak fairness of each of them.                             *)
Steady ==
    \/ part = "resync" /\ ResyncSteady /\ resyncIdle
    \/ part = "worker" /\ Worker!WorkerSteps /\ workerIdle
    \/ part = "scheduler" /\ Sched!SchedSteady /\ schedulerIdle
    \/ part = "transport" /\ TransportSteady /\ transportIdle
    \/ part = "output" /\ OutputSteady /\ outputIdle

Spec == Init /\ [][Next]_clientVars /\ WF_clientVars(Steady)

-----------------------------------------------------------------------------
(* The properties of the parts, each under its module's name for it; those of *)
(* the modules extended are NoHole, RoutesHome, OwnSocket, StoreCoherent,        *)
(* StoreAgrees and AckedInOrder.                                                *)
WorkersSound == Worker!PatchesFit /\ Sched!Accounts /\ Sched!Awake

(* Each part comes to rest where it promises to: CatchesUp, Presents, Drains and *)
(* Reconnects of its module, in one formula.                                    *)
Undisturbed ==
    CASE part = "resync" -> Listening
      [] part = "worker" -> Worker!Undisturbed
      [] part = "scheduler" -> Sched!Undisturbed
      [] OTHER -> TRUE
AtRest ==
    CASE part = "resync" -> CaughtUp
      [] part = "worker" -> Worker!Settled
      [] part = "scheduler" -> Sched!Settled
      [] part = "transport" -> Settled
      [] part = "output" -> Drained
      [] OTHER -> TRUE
Settles == <>[]Undisturbed => <>[]AtRest
=============================================================================
