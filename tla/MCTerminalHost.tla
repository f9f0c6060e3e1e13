--------------------------- MODULE MCTerminalHost ---------------------------
(* A host's terminals for TLC, in settings that share no state: the lives of    *)
(* terminals with the map they are in, what the owner of one does with its       *)
(* commands and output, and the archive of one.  `part` says, from the start     *)
(* on, which of them moves.                                                     *)
EXTENDS TerminalHost

CONSTANTS       \* of TerminalHistory
    Readers, ReadPhases, BlockBytes, MaxBlocks, MaxIngest, MaxMessages, MaxSequence, MaxReads, MaxCloses,
    MaxBarriers, MaxCrashes, MaxFailures
CONSTANTS       \* of TerminalOwner
    OwnerLane, BatchMessages, BatchBytes, TurnBytes, NormalPerTurn, MaxReplay, ExitedReplay,
    CheckpointBytes, InputRoom

VARIABLES
    part,
    manifest, files, active, producer, accepted, pendingClose, budget, ingest, finalize,
    pc, job, todo, closes, serving, state, held, unwritten, up, restarted, reader, barrier,
    written, trimmed, page, reads, closeCalls, barriers, crashes, failures,
    story, sent, lane, normal, program, printed, at, back, batch, writing, turn, open, exited,
    replay, truncated, sequence, since, checkpoint, size, left, asked, theme, updates, owed,
    log, answers, text, told

archiveVars == <<manifest, files, active, producer, accepted, pendingClose, budget, ingest, finalize,
    pc, job, todo, closes, serving, state, held, unwritten, up, restarted, reader, barrier,
    written, trimmed, page, reads, closeCalls, barriers, crashes, failures>>

loopVars == <<story, sent, lane, normal, program, printed, at, back, batch, writing, turn,
    open, exited, replay, truncated, sequence, since, checkpoint, size, left, asked, theme,
    updates, owed, log, answers, text, told>>

Archive == INSTANCE TerminalHistory WITH failed <- unwritten

-----------------------------------------------------------------------------
(* What clients send and a program does to one owner: output and a resize, with   *)
(* and without a recorder; requests cut anywhere; themes; commands, some refused;  *)
(* calls that fail, and a disposal; attaches without end, to a program that        *)
(* prints before it reads.                                                        *)
Quiet == [urgent |-> {}, normal |-> {}, most |-> 0, hammer |-> FALSE, prints |-> 0, ends |-> FALSE,
          chunks |-> {}, recorder |-> FALSE, refuses |-> FALSE, fails |-> FALSE]
Chunk(n, tokens) == [size |-> n, tokens |-> tokens]
Asks == [theme |-> <<"esc", "ask">>, on |-> <<"esc", "on">>, off |-> <<"esc", "off">>,
         color |-> <<"esc", "10", "bel">>, colorST |-> <<"esc", "10", "esc", "st">>]
Writes(s) == {<<"write", n>> : n \in s}
Sizes(s) == {<<"resize", n>> : n \in s}

OwnerStories ==
    {[Quiet EXCEPT !.urgent = Sizes({2}), !.most = 1, !.prints = 5, !.ends = TRUE,
                   !.chunks = {Chunk(1, <<>>), Chunk(2, <<>>)}, !.recorder = r] : r \in BOOLEAN}
    \cup {[Quiet EXCEPT !.prints = 3,
             !.chunks = {Chunk(1, <<a>>) : a \in {"ask", "bel", "st", "x", "10"}}
                        \cup {Chunk(1, <<"esc", a>>) : a \in {"esc", "ask", "bel", "st", "x", "10"}}],
          [Quiet EXCEPT !.prints = 3, !.chunks = {Chunk(1, <<"esc", a>>) : a \in {"ask", "on", "off"}},
                        !.normal = {<<"theme", 1>>, <<"theme", 2>>}, !.most = 2],
          [Quiet EXCEPT !.urgent = Writes({1, 2}) \cup Sizes({1, 2}), !.most = 3, !.refuses = TRUE],
          [Quiet EXCEPT !.urgent = Writes({2}) \cup Sizes({2}) \cup {<<"dispose", 0>>},
                        !.normal = {<<"ready", 0>>}, !.most = 3, !.fails = TRUE],
          [Quiet EXCEPT !.hammer = TRUE, !.urgent = Writes({2}), !.normal = {<<"ready", 0>>}, !.most = 2,
                        !.prints = 2, !.chunks = {Chunk(1, <<>>)}]}

Loop == INSTANCE TerminalOwner WITH
    Stories <- OwnerStories, Requests <- Asks, LaneCapacity <- OwnerLane, urgent <- lane, output <- printed

-----------------------------------------------------------------------------
HostInit ==
    /\ part \in {"terminals", "owner", "archive"}
    /\ Init /\ Archive!Init /\ Loop!OwnerInit
    /\ part # "owner" => story = CHOOSE s \in OwnerStories : TRUE

HostNext ==
    /\ UNCHANGED part
    /\ \/ part = "terminals" /\ Next /\ UNCHANGED <<archiveVars, loopVars>>
       \/ part = "owner" /\ Loop!OwnerNext /\ UNCHANGED <<vars, archiveVars>>
       \/ part = "archive" /\ Archive!Next /\ UNCHANGED <<vars, loopVars>>

(* The fairness of each module in its own setting.                               *)
HostFairness ==
    /\ \A t \in Terminals :
        /\ WF_vars(part = "terminals" /\ Process(t)) /\ WF_vars(part = "terminals" /\ Observe(t))
        /\ WF_vars(part = "terminals" /\ Exit(t)) /\ WF_vars(part = "terminals" /\ Serve(t))
        /\ WF_vars(part = "terminals" /\ Expire(t))
    /\ \A c \in Requesters : WF_vars(part = "terminals" /\ Remove(c))
    /\ WF_loopVars(part = "owner" /\ Loop!Owner)
    /\ WF_loopVars(part = "owner" /\ Loop!Prints)
    /\ WF_loopVars(part = "owner" /\ Loop!Reads)
    /\ WF_archiveVars(part = "archive" /\ Archive!Owner)
    /\ WF_archiveVars(part = "archive" /\ Archive!Reserve)
    /\ WF_archiveVars(part = "archive" /\ Archive!Send)

HostSpec == HostInit /\ [][HostNext]_<<part, vars, archiveVars, loopVars>> /\ HostFairness

(* The records of an archive survive; an owner's replay is complete, input arrives *)
(* as it was sent, and what a program asks is found and answered.                *)
RecordsAndInputSound ==
    /\ part = "archive" => Archive!RecordsKept
    /\ part = "owner" => Loop!OwnerSound

(* Whatever step the process is in, and crashes in, the disk holds a log that    *)
(* only grows at its end, loses at most its oldest records to the quota and is   *)
(* never reopened once closed.                                                  *)
Log == INSTANCE DurableLog WITH
    log <- IF part = "archive" THEN Archive!Recovered ELSE <<>>, closed <- manifest.closed
ImplementsLog == Log!Spec

(* Exited terminals are disposed of by the host itself, nothing handed to the      *)
(* archive waits for ever, and a command is answered, unless owner and program      *)
(* wait for each other.                                                          *)
HostSettles ==
    /\ []<>(CASE part = "archive" -> Archive!Drained [] part = "terminals" -> Reaped [] OTHER -> TRUE)
    /\ part = "owner" => Loop!AnswersAll
=============================================================================
