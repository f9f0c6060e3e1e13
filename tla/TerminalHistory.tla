-------------------------- MODULE TerminalHistory --------------------------
(***************************************************************************)
(* The durable output history of one terminal (terminal_history.rs): the    *)
(* terminal's owner thread appends records through a bounded mailbox, the   *)
(* history owner writes them to the active segment, compresses them into    *)
(* blocks listed by a manifest and finalises closed archives, and readers   *)
(* build pages on threads of their own.  The process may crash between any  *)
(* two writes to the disk; files are renamed into place atomically and      *)
(* survive it (a crash of the process, not of the machine).                 *)
(*                                                                         *)
(* A record is its sequence number and counts one byte; 0 in the active     *)
(* segment stands for bytes that are no complete record.                    *)
(***************************************************************************)
EXTENDS Naturals, Sequences, FiniteSets, SequencesExt

CONSTANTS
  Readers,
  ReadPhases,    \* when pages are read: "live", "ended", "recovered"
  BlockBytes,    \* block_bytes
  MaxBlocks,     \* MAX_TERMINAL_BYTES, in blocks
  MaxIngest,     \* INGEST_MAX_BYTES
  MaxMessages,   \* INGEST_MAX_MESSAGES
  MaxSequence, MaxReads, MaxCloses, MaxBarriers, MaxCrashes, MaxFailures

ASSUME HistoryAssumption ==
  /\ {BlockBytes, MaxBlocks, MaxIngest, MaxMessages} \subseteq Nat \ {0}
  /\ {MaxSequence, MaxReads, MaxCloses, MaxBarriers, MaxCrashes, MaxFailures}
       \subseteq Nat
  /\ ReadPhases \subseteq {"live", "ended", "recovered"}

NoState == [exists |-> FALSE, blocks |-> <<>>, closed |-> FALSE, pending |-> <<>>]
NoManifest == [exists |-> FALSE, blocks |-> <<>>, closed |-> FALSE]
NoPage == [records |-> <<>>, owed |-> {}]

VARIABLES
  \* on disk
  manifest, files, active,
  \* the producer: the terminal's owner thread
  producer,        \* idle reserving sending ended
  accepted,        \* accepted_sequences
  pendingClose,    \* pending_closes
  budget,          \* ingest bytes reserved
  ingest, finalize,\* the two mailboxes
  \* the history owner
  pc, job, todo, closes, serving,
  state,           \* the terminal's entry of the states index
  held,            \* the state a finalisation has taken out of the index
  failed,          \* background_errors is not empty
  up, restarted,
  \* readers
  reader,          \* per reader: where it is and what it holds
  barrier,         \* flush_all: idle waiting answered
  \* history
  written,         \* records the history owner has written
  trimmed,         \* last record the quota removed
  page,            \* the page delivered last
  reads, closeCalls, barriers, crashes, failures

disk == <<manifest, files, active>>
mailboxes == <<producer, accepted, pendingClose, budget, ingest, finalize>>
owner == <<pc, job, todo, closes, serving>>
memory == <<state, held, failed>>
process == <<up, restarted>>
callers == <<reader, barrier>>
history == <<written, trimmed, page>>
counters == <<reads, closeCalls, barriers, crashes, failures>>
vars == <<disk, mailboxes, owner, memory, process, callers, history, counters>>

NoJob == [kind |-> "none", n |-> 0]
IdleReader == [at |-> "idle", needed |-> {}, manifest |-> NoManifest, copy |-> NoState]

Init ==
  /\ manifest = NoManifest /\ files = <<>> /\ active = <<>>
  /\ producer = "idle" /\ accepted = 0 /\ pendingClose = FALSE
  /\ budget = 0 /\ ingest = <<>> /\ finalize = <<>>
  /\ pc = "top" /\ job = NoJob /\ todo = <<>> /\ closes = <<>>
  /\ serving = FALSE
  /\ state = NoState /\ held = NoState /\ failed = FALSE
  /\ up = TRUE /\ restarted = FALSE
  /\ reader = [r \in Readers |-> IdleReader] /\ barrier = "idle"
  /\ written = {} /\ trimmed = 0 /\ page = NoPage
  /\ reads = 0 /\ closeCalls = 0 /\ barriers = 0 /\ crashes = 0 /\ failures = 0

-----------------------------------------------------------------------------
(* Archives *)

LastBlock(blocks) == IF blocks = <<>> THEN 0 ELSE Last(blocks).last

\* The newest record of an archive state.
LastOf(s) == IF s.pending # <<>> THEN Last(s.pending) ELSE LastBlock(s.blocks)

\* What open_active_segment keeps: the records before the first byte that is
\* not part of a complete, increasing record.
ValidPrefix(a) ==
  LET bad == {i \in 1..Len(a) : a[i] = 0 \/ (i > 1 /\ a[i] <= a[i - 1])} IN
    IF bad = {} THEN a
    ELSE SubSeq(a, 1, (CHOOSE i \in bad : \A j \in bad : i <= j) - 1)

\* Fault: records that a block already holds are read again.
PendingOfAll(m, a) == ValidPrefix(a)

\* The records a cold state takes from the active segment: those after what the
\* blocks hold, which come last since the valid prefix increases.
PendingOf(m, a) ==
  LET valid == ValidPrefix(a)
      stored == {i \in DOMAIN valid : valid[i] <= LastBlock(m.blocks)}
  IN SubSeq(valid, Cardinality(stored) + 1, Len(valid))

ColdState(m) ==
  [exists |-> TRUE, blocks |-> m.blocks, closed |-> m.closed,
   pending |-> PendingOf(m, active)]

\* The records of some blocks, one block after the other.
Contents(blocks) ==
  LET upTo[i \in 0..Len(blocks)] ==
        IF i = 0 THEN <<>> ELSE upTo[i - 1] \o files[blocks[i]]
  IN upTo[Len(blocks)]

Stored(blocks) == \A i \in DOMAIN blocks : blocks[i] \in DOMAIN files

ManifestOf(s) == [exists |-> TRUE, blocks |-> s.blocks, closed |-> s.closed]

-----------------------------------------------------------------------------
(* The producer: append and close_terminal *)

\* append: check and take the sequence number under the accepted lock, ...
Accept ==
  /\ up /\ producer = "idle" /\ ~pendingClose
  /\ accepted < MaxSequence
  /\ accepted' = accepted + 1
  /\ producer' = "reserving"
  /\ UNCHANGED <<disk, pendingClose, budget, ingest, finalize, owner, memory,
                 process, callers, history, counters>>

\* Fault: the budget is counted and never waited for.
ReserveFreely ==
  /\ up /\ producer = "reserving"
  /\ budget' = budget + 1
  /\ producer' = "sending"
  /\ UNCHANGED <<disk, accepted, pendingClose, ingest, finalize, owner, memory,
                 process, callers, history, counters>>

\* ... wait for room in the byte budget, ...
Reserve ==
  /\ up /\ producer = "reserving"
  /\ budget + 1 <= MaxIngest
  /\ budget' = budget + 1
  /\ producer' = "sending"
  /\ UNCHANGED <<disk, accepted, pendingClose, ingest, finalize, owner, memory,
                 process, callers, history, counters>>

\* ... and in the mailbox.
Send ==
  /\ up /\ producer = "sending"
  /\ Len(ingest) < MaxMessages
  /\ ingest' = Append(ingest, [kind |-> "append", n |-> accepted])
  /\ producer' = "idle"
  /\ UNCHANGED <<disk, accepted, pendingClose, budget, finalize, owner, memory,
                 process, callers, history, counters>>

\* Fault: close does not say up to which record it waits.
CloseAtOnce ==
  /\ up /\ closeCalls < MaxCloses
  /\ producer \in {"idle", "ended"}
  /\ closeCalls' = closeCalls + 1
  /\ producer' = "ended"
  /\ pendingClose' = TRUE
  /\ finalize' = IF pendingClose THEN finalize ELSE Append(finalize, 0)
  /\ UNCHANGED <<disk, accepted, budget, ingest, owner, memory, process,
                 callers, history, reads, barriers, crashes, failures>>

\* close_terminal, by the owner thread when the process has exited and again
\* when the terminal is disposed of.  A close already pending is not repeated.
CloseTerminal ==
  /\ up /\ closeCalls < MaxCloses
  /\ producer \in {"idle", "ended"}
  /\ closeCalls' = closeCalls + 1
  /\ producer' = "ended"
  /\ pendingClose' = TRUE
  /\ finalize' = IF pendingClose THEN finalize ELSE Append(finalize, accepted)
  /\ UNCHANGED <<disk, accepted, budget, ingest, owner, memory, process,
                 callers, history, reads, barriers, crashes, failures>>

\* flush_all: a barrier through the mailbox, answered by the history owner.
FlushAll ==
  /\ up /\ barrier = "idle" /\ barriers < MaxBarriers
  /\ Len(ingest) < MaxMessages
  /\ barriers' = barriers + 1
  /\ barrier' = "waiting"
  /\ ingest' = Append(ingest, [kind |-> "barrier", n |-> 0])
  /\ UNCHANGED <<disk, producer, accepted, pendingClose, budget, finalize,
                 owner, memory, process, reader, history, reads, closeCalls,
                 crashes, failures>>

-----------------------------------------------------------------------------
(* The history owner: run_history_owner *)

At(label) == up /\ pc = label

\* Top of the loop, and again for a barrier: collect the closes, ...
Collect ==
  /\ At("top") \/ At("barrier")
  /\ todo' = closes \o finalize
  /\ closes' = <<>> /\ finalize' = <<>>
  /\ serving' = (pc = "barrier")
  /\ pc' = "closes"
  /\ UNCHANGED <<disk, producer, accepted, pendingClose, budget, ingest, job,
                 memory, process, callers, history, counters>>

\* ... and finalise those whose records are all written.
WrittenSequence == IF state.exists THEN LastOf(state) ELSE 0

Postpone ==
  /\ At("closes") /\ todo # <<>>
  /\ WrittenSequence < Head(todo)
  /\ closes' = Append(closes, Head(todo))
  /\ todo' = Tail(todo)
  /\ UNCHANGED <<disk, mailboxes, pc, job, serving, memory, process, callers,
                 history, counters>>

\* finalize_terminal takes the state out of the index before it writes, or
\* closes the manifest of an archive that is not in the index.
Finalize ==
  /\ At("closes") /\ todo # <<>>
  /\ WrittenSequence >= Head(todo)
  /\ todo' = Tail(todo)
  /\ IF state.exists
       THEN /\ held' = state /\ state' = NoState
            /\ job' = [kind |-> "close", n |-> 0]
            /\ pc' = "flush"
            /\ UNCHANGED <<manifest, pendingClose>>
       ELSE /\ manifest' = [manifest EXCEPT !.closed = manifest.exists]
            /\ pendingClose' = FALSE
            /\ UNCHANGED <<state, held, job, pc>>
  /\ UNCHANGED <<files, active, producer, accepted, budget, ingest, finalize,
                 closes, serving, failed, process, callers, history, counters>>

\* Fault: no command is taken while a close waits for its records.
EndClosesInTurn ==
  /\ At("closes") /\ todo = <<>> /\ closes = <<>>
  /\ IF serving
       THEN /\ job' = [kind |-> "barrier", n |-> 0]
            /\ pc' = IF state.exists THEN "flush" ELSE "release"
       ELSE pc' = "receive" /\ UNCHANGED job
  /\ UNCHANGED <<disk, mailboxes, todo, closes, serving, memory, process,
                 callers, history, counters>>

\* Done with the closes: back to the command that asked, or the next command.
EndCloses ==
  /\ At("closes") /\ todo = <<>>
  /\ IF serving
       THEN /\ job' = [kind |-> "barrier", n |-> 0]
            /\ pc' = IF state.exists THEN "flush" ELSE "release"
       ELSE pc' = "receive" /\ UNCHANGED job
  /\ UNCHANGED <<disk, mailboxes, todo, closes, serving, memory, process,
                 callers, history, counters>>

Timeout ==
  /\ At("receive") /\ ingest = <<>>
  /\ pc' = "top"
  /\ UNCHANGED <<disk, mailboxes, job, todo, closes, serving, memory, process,
                 callers, history, counters>>

ReceiveAppend ==
  /\ At("receive") /\ ingest # <<>> /\ Head(ingest).kind = "append"
  /\ job' = Head(ingest)
  /\ ingest' = Tail(ingest)
  /\ pc' = IF state.exists THEN "append" ELSE "load"
  /\ UNCHANGED <<disk, producer, accepted, pendingClose, budget, finalize, todo,
                 closes, serving, memory, process, callers, history, counters>>

\* A snapshot tells the reader that everything it sent before is written, or
\* what failed since the last one asked.
ReceiveSnapshot ==
  /\ At("receive") /\ ingest # <<>> /\ Head(ingest).kind = "snapshot"
  /\ ingest' = Tail(ingest)
  /\ failed' = FALSE
  /\ reader' = [reader EXCEPT ![Head(ingest).n] =
                  IF failed THEN IdleReader
                  ELSE [@ EXCEPT !.at = "answered", !.needed = written]]
  /\ pc' = "top"
  /\ UNCHANGED <<disk, producer, accepted, pendingClose, budget, finalize, job,
                 todo, closes, serving, state, held, process, barrier, history,
                 counters>>

ReceiveBarrier ==
  /\ At("receive") /\ ingest # <<>> /\ Head(ingest).kind = "barrier"
  /\ ingest' = Tail(ingest)
  /\ pc' = "barrier"
  /\ UNCHANGED <<disk, producer, accepted, pendingClose, budget, finalize, job,
                 todo, closes, serving, memory, process, callers, history,
                 counters>>

\* state_for of a terminal that is not in the index: the manifest, ...
LoadManifest ==
  /\ At("load")
  /\ manifest' = [manifest EXCEPT !.exists = TRUE]
  /\ held' = [exists |-> FALSE, blocks |-> manifest.blocks,
              closed |-> manifest.closed, pending |-> <<>>]
  /\ pc' = "loadActive"
  /\ UNCHANGED <<files, active, mailboxes, job, todo, closes, serving, state,
                 failed, process, callers, history, counters>>

\* ... the active segment and the index, where a state built meanwhile wins.
LoadActive ==
  /\ At("loadActive")
  /\ active' = ValidPrefix(active)
  /\ state' = IF state.exists THEN state ELSE ColdState(held)
  /\ held' = NoState
  /\ pc' = "append"
  /\ UNCHANGED <<manifest, files, mailboxes, job, todo, closes, serving, failed,
                 process, callers, history, counters>>

\* append_owned: the record's bytes go out in four writes.
BeginRecord ==
  /\ At("append")
  /\ IF state.closed \/ job.n <= LastOf(state)
       THEN failed' = TRUE /\ pc' = "release" /\ UNCHANGED active
       ELSE active' = Append(active, 0) /\ pc' = "record" /\ UNCHANGED failed
  /\ UNCHANGED <<manifest, files, mailboxes, job, todo, closes, serving, state,
                 held, process, callers, history, counters>>

\* A write fails (the disk is full): the record is reported lost.
FailRecord ==
  /\ At("record") /\ failures < MaxFailures
  /\ failures' = failures + 1
  /\ failed' = TRUE
  /\ pc' = "release"
  /\ UNCHANGED <<disk, mailboxes, job, todo, closes, serving, state, held,
                 process, callers, history, reads, closeCalls, barriers, crashes>>

\* The rest of the bytes completes what stands at the end of the file.
EndRecord ==
  /\ At("record")
  /\ active' = IF active # <<>> /\ Last(active) = 0
                 THEN [active EXCEPT ![Len(active)] = job.n]
                 ELSE Append(active, 0)
  /\ state' = [state EXCEPT !.pending = Append(@, job.n)]
  /\ written' = written \cup {job.n}
  /\ pc' = IF Len(state.pending) + 1 >= BlockBytes THEN "flush" ELSE "release"
  /\ UNCHANGED <<manifest, files, mailboxes, job, todo, closes, serving, held,
                 failed, process, callers, trimmed, page, counters>>

\* The state a flush works on: the one taken out of the index by a close, the
\* indexed one otherwise.
Current == IF job.kind = "close" THEN held ELSE state

SetCurrent(s) ==
  IF job.kind = "close" THEN held' = s /\ UNCHANGED state
                        ELSE state' = s /\ UNCHANGED held

BlockOf(records) == [first |-> Head(records), last |-> Last(records)]

\* flush_state: the block under a temporary name and renamed, ...
WriteBlock ==
  /\ At("flush")
  /\ IF Current.pending = <<>>
       THEN pc' = "trim" /\ UNCHANGED files
       ELSE /\ files' = [b \in DOMAIN files \cup {BlockOf(Current.pending)} |->
                           IF b = BlockOf(Current.pending)
                             THEN Current.pending ELSE files[b]]
            /\ pc' = "manifest"
  /\ UNCHANGED <<manifest, active, mailboxes, job, todo, closes, serving, memory,
                 process, callers, history, counters>>

\* Fault: the active segment is emptied before the manifest names the block.
WriteManifestLate ==
  /\ At("manifest")
  /\ active' = <<>>
  /\ SetCurrent([Current EXCEPT !.blocks = Append(@, BlockOf(Current.pending))])
  /\ pc' = "reset"
  /\ UNCHANGED <<manifest, files, mailboxes, job, todo, closes, serving, failed,
                 process, callers, history, counters>>

\* ... the manifest that lists it, ...
WriteManifest ==
  /\ At("manifest")
  /\ LET s == [Current EXCEPT !.blocks = Append(@, BlockOf(Current.pending))] IN
       /\ SetCurrent(s)
       /\ manifest' = ManifestOf(s)
  /\ pc' = "reset"
  /\ UNCHANGED <<files, active, mailboxes, job, todo, closes, serving, failed,
                 process, callers, history, counters>>

\* ... and only then an empty active segment.
ResetActive ==
  /\ At("reset")
  /\ SetCurrent([Current EXCEPT !.pending = <<>>])
  /\ active' = <<>>
  /\ pc' = "trim"
  /\ UNCHANGED <<manifest, files, mailboxes, job, todo, closes, serving, failed,
                 process, callers, history, counters>>

\* Blocks beyond the quota, oldest first.
Excess(blocks) == IF Len(blocks) > MaxBlocks THEN Len(blocks) - MaxBlocks ELSE 0

Trim(s) == [s EXCEPT !.blocks = SubSeq(@, Excess(@) + 1, Len(@))]

TrimmedBy(blocks) ==
  trimmed' = IF Excess(blocks) = 0 THEN trimmed ELSE blocks[Excess(blocks)].last

Removed(blocks) == {blocks[i] : i \in 1..Excess(blocks)}

\* enforce_terminal_quota: the oldest blocks' files go first, ...
TrimBlocks ==
  /\ At("trim")
  /\ files' = [b \in DOMAIN files \ Removed(Current.blocks) |-> files[b]]
  /\ SetCurrent(Trim(Current))
  /\ TrimmedBy(Current.blocks)
  /\ pc' = "trimManifest"
  /\ UNCHANGED <<manifest, active, mailboxes, job, todo, closes, serving, failed,
                 process, callers, written, page, counters>>

\* ... then the manifest that no longer lists them.
WriteTrimmed ==
  /\ At("trimManifest")
  /\ manifest' = ManifestOf(Current)
  /\ pc' = IF job.kind = "close" THEN "close" ELSE "release"
  /\ UNCHANGED <<files, active, mailboxes, job, todo, closes, serving, memory,
                 process, callers, history, counters>>

\* The end of finalize_terminal: closed_at, and the close is no longer pending.
FinishClose ==
  /\ At("close")
  /\ manifest' = [ManifestOf(held) EXCEPT !.closed = TRUE]
  /\ held' = NoState
  /\ pendingClose' = FALSE
  /\ job' = NoJob
  /\ pc' = "closes"
  /\ UNCHANGED <<files, active, producer, accepted, budget, ingest, finalize,
                 todo, closes, serving, state, failed, process, callers, history,
                 counters>>

\* Fault: the bytes of the record stay in the budget.
ReleaseKeepingBytes ==
  /\ At("release")
  /\ IF job.kind = "append"
       THEN UNCHANGED <<budget, barrier, failed>>
       ELSE barrier' = "answered" /\ failed' = FALSE /\ UNCHANGED budget
  /\ job' = NoJob
  /\ serving' = FALSE
  /\ pc' = "top"
  /\ UNCHANGED <<disk, producer, accepted, pendingClose, ingest, finalize, todo,
                 closes, state, held, process, reader, history, counters>>

\* The command is done: its bytes leave the budget, or its sender is answered.
Release ==
  /\ At("release")
  /\ IF job.kind = "append"
       THEN budget' = budget - 1 /\ UNCHANGED <<barrier, failed>>
       ELSE barrier' = "answered" /\ failed' = FALSE /\ UNCHANGED budget
  /\ job' = NoJob
  /\ serving' = FALSE
  /\ pc' = "top"
  /\ UNCHANGED <<disk, producer, accepted, pendingClose, ingest, finalize, todo,
                 closes, state, held, process, reader, history, counters>>

-----------------------------------------------------------------------------
(* The rest of flush_all: flush_live once more, on the caller's thread.  The *)
(* owner's own flush shows every step of it; here it is one, under the lock. *)

\* The owner holds the indexed state's lock while it writes.
Locked ==
  /\ job.kind # "close"
  /\ pc \in {"append", "record", "flush", "manifest", "reset", "trim", "trimManifest"}

Flushed(s) ==
  IF s.pending = <<>> THEN s
  ELSE [s EXCEPT !.blocks = Append(@, BlockOf(s.pending)), !.pending = <<>>]

FlushLive ==
  /\ up /\ barrier = "answered"
  /\ ~Locked
  /\ barrier' = "idle"
  /\ IF state.exists
       THEN LET s == Flushed(state)
                named == Range(s.blocks) \ Range(state.blocks) IN
              /\ files' = [b \in (DOMAIN files \cup named) \ Removed(s.blocks) |->
                             IF b \in named THEN state.pending ELSE files[b]]
              /\ state' = Trim(s)
              /\ TrimmedBy(s.blocks)
              /\ manifest' = ManifestOf(Trim(s))
              /\ active' = IF state.pending = <<>> THEN active ELSE <<>>
       ELSE UNCHANGED <<disk, state, trimmed>>
  /\ UNCHANGED <<mailboxes, owner, held, failed, process, reader, written, page,
                 counters>>

-----------------------------------------------------------------------------
(* Readers: read_page *)

Phase == IF restarted THEN "recovered"
         ELSE IF producer = "ended" THEN "ended" ELSE "live"

Ask(r) ==
  /\ up /\ reader[r].at = "idle" /\ reads < MaxReads
  /\ Phase \in ReadPhases
  /\ Len(ingest) < MaxMessages
  /\ reads' = reads + 1
  /\ reader' = [reader EXCEPT ![r].at = "asked"]
  /\ ingest' = Append(ingest, [kind |-> "snapshot", n |-> r])
  /\ UNCHANGED <<disk, producer, accepted, pendingClose, budget, finalize,
                 owner, memory, process, barrier, history, closeCalls, barriers,
                 crashes, failures>>

Indexed(s) ==
  accepted' = IF LastOf(s) > accepted THEN LastOf(s) ELSE accepted

\* The index is looked up first; a miss begins to build a cold state.
LookUp(r) ==
  /\ up /\ reader[r].at = "answered"
  /\ IF state.exists
       THEN /\ ~Locked
            /\ reader' = [reader EXCEPT ![r].at = "copied", ![r].copy = state]
       ELSE reader' = [reader EXCEPT ![r] =
              IF manifest.exists
                THEN [@ EXCEPT !.at = "building", !.manifest = manifest]
                ELSE IdleReader]
  /\ UNCHANGED <<disk, mailboxes, owner, memory, process, barrier, history,
                 counters>>

\* The active segment is read, and a torn tail cut off, ...
OpenActive(r) ==
  /\ up /\ reader[r].at = "building"
  /\ reader' = [reader EXCEPT ![r].at = "built",
                              ![r].copy = ColdState(reader[r].manifest)]
  /\ active' = ValidPrefix(active)
  /\ UNCHANGED <<manifest, files, mailboxes, owner, memory, process, barrier,
                 history, counters>>

\* Fault: the state built last replaces the one in the index.
InsertOver(r) ==
  /\ up /\ reader[r].at = "built"
  /\ ~Locked
  /\ state' = reader[r].copy
  /\ reader' = [reader EXCEPT ![r].at = "copied"]
  /\ Indexed(reader[r].copy)
  /\ UNCHANGED <<disk, producer, pendingClose, budget, ingest, finalize, owner,
                 held, failed, process, barrier, history, counters>>

\* ... and the state enters the index unless there is one by now.
Insert(r) ==
  /\ up /\ reader[r].at = "built"
  /\ ~Locked
  /\ LET s == IF state.exists THEN state ELSE reader[r].copy IN
       /\ state' = s
       /\ reader' = [reader EXCEPT ![r].at = "copied", ![r].copy = s]
       /\ Indexed(s)
  /\ UNCHANGED <<disk, producer, pendingClose, budget, ingest, finalize, owner,
                 held, failed, process, barrier, history, counters>>

\* Blocks are read without the lock; one the quota has removed fails the read.
ReadBlocks(r) ==
  /\ up /\ reader[r].at = "copied"
  /\ LET s == reader[r].copy IN
       page' = IF Stored(s.blocks)
                 THEN [records |-> Contents(s.blocks) \o s.pending,
                       owed |-> {n \in reader[r].needed : n > trimmed}]
                 ELSE page
  /\ reader' = [reader EXCEPT ![r] = IdleReader]
  /\ UNCHANGED <<disk, mailboxes, owner, memory, process, barrier, written,
                 trimmed, counters>>

-----------------------------------------------------------------------------
(* Crash and restart *)

Crash ==
  /\ up /\ crashes < MaxCrashes
  /\ crashes' = crashes + 1
  /\ up' = FALSE
  /\ producer' = "ended" /\ accepted' = 0 /\ pendingClose' = FALSE
  /\ budget' = 0 /\ ingest' = <<>> /\ finalize' = <<>>
  /\ pc' = "top" /\ job' = NoJob /\ todo' = <<>> /\ closes' = <<>>
  /\ serving' = FALSE
  /\ state' = NoState /\ held' = NoState /\ failed' = FALSE
  /\ reader' = [r \in Readers |-> IdleReader] /\ barrier' = "idle"
  /\ UNCHANGED <<disk, restarted, history, reads, closeCalls, barriers, failures>>

\* open: cleanup_expired closes what the last process left open.
Reopen ==
  /\ ~up
  /\ up' = TRUE /\ restarted' = TRUE
  /\ manifest' = [manifest EXCEPT !.closed = manifest.exists]
  /\ UNCHANGED <<files, active, mailboxes, owner, memory, callers, history,
                 counters>>

-----------------------------------------------------------------------------
Owner ==
  \/ Collect \/ Postpone \/ Finalize \/ EndCloses
  \/ Timeout \/ ReceiveAppend \/ ReceiveSnapshot \/ ReceiveBarrier
  \/ LoadManifest \/ LoadActive \/ BeginRecord \/ FailRecord \/ EndRecord
  \/ WriteBlock \/ WriteManifest \/ ResetActive \/ TrimBlocks \/ WriteTrimmed
  \/ FinishClose \/ Release

Producer == Accept \/ Reserve \/ Send \/ CloseTerminal

Reader(r) == Ask(r) \/ LookUp(r) \/ OpenActive(r) \/ Insert(r) \/ ReadBlocks(r)

Next ==
  \/ Owner \/ Producer \/ FlushAll \/ FlushLive
  \/ \E r \in Readers : Reader(r)
  \/ Crash \/ Reopen

\* Fairness: the history owner's thread and an append that waits keep running.
Fairness == WF_vars(Owner) /\ WF_vars(Reserve) /\ WF_vars(Send)

Spec == Init /\ [][Next]_vars

\* A terminal that stays open in a process that stays up.
LiveNext == UNCHANGED <<closeCalls, crashes>> /\ Next
LiveSpec == Init /\ [][LiveNext]_vars
FairSpec == Spec /\ Fairness

-----------------------------------------------------------------------------
(* Properties *)

Sequences == 1..MaxSequence
Block == [first : Sequences, last : Sequences]
ArchiveState == [exists : BOOLEAN, blocks : Seq(Block), closed : BOOLEAN,
                 pending : Seq(Sequences)]
Manifest == [exists : BOOLEAN, blocks : Seq(Block), closed : BOOLEAN]
Commands ==
  [kind : {"append"}, n : Sequences] \cup [kind : {"snapshot"}, n : Readers]
    \cup [kind : {"barrier"}, n : {0}]

\* Types, and the bounds on both sides of the ingest mailbox.
TypeOK ==
  /\ manifest \in Manifest /\ active \in Seq(0..MaxSequence)
  /\ DOMAIN files \subseteq Block /\ \A b \in DOMAIN files : files[b] \in Seq(Sequences)
  /\ producer \in {"idle", "reserving", "sending", "ended"}
  /\ accepted \in 0..MaxSequence /\ budget \in 0..MaxIngest
  /\ pendingClose \in BOOLEAN
  /\ ingest \in Seq(Commands) /\ Len(ingest) <= MaxMessages
  /\ {finalize, todo, closes} \subseteq Seq(0..MaxSequence)
  /\ {state, held} \subseteq ArchiveState
  /\ failed \in BOOLEAN /\ up \in BOOLEAN /\ restarted \in BOOLEAN
  /\ \A r \in Readers :
       reader[r].at \in {"idle", "asked", "answered", "building", "built", "copied"}
  /\ written \subseteq Sequences /\ trimmed \in 0..MaxSequence

\* What a process that starts now would find on the disk.
Recovered ==
  Contents(SelectSeq(manifest.blocks, LAMBDA b : b \in DOMAIN files))
    \o PendingOf(manifest, active)

\* Every record the history owner has written stays recoverable until the quota
\* removes it: "Crash recovery retains complete checksummed active records".
RecordsSurvive ==
  \A n \in written : n > trimmed => \E i \in DOMAIN Recovered : Recovered[i] = n

\* A page holds, in order and once each, every record written when its read was
\* admitted: history is never "partial output presented as exact".
ExactPages ==
  /\ \A i, j \in DOMAIN page.records : i < j => page.records[i] < page.records[j]
  /\ \A n \in page.owed : \E i \in DOMAIN page.records : page.records[i] = n

\* An archive that its own process closed holds every record that was accepted
\* before the close, however far the mailboxes had got.
ClosedIsComplete ==
  manifest.closed /\ up /\ ~restarted /\ failures = 0
    => written = 1..accepted

\* The types, what is on the disk, and what a close leaves there.
RecordsKept == TypeOK /\ RecordsSurvive /\ ClosedIsComplete

\* Every append that was accepted is written, so that nobody waits for budget or
\* mailbox for ever, and once a terminal has been closed its archive is ("Enqueue
\* idempotent finalization"): a close that came first, or again, takes nothing of
\* that back.  The repeated close itself is not always carried out: an archive out
\* of the index reports no sequence written, and the close stays pending.
Drained ==
  up /\ ~restarted =>
    /\ 1..accepted \subseteq written
    /\ producer = "ended" /\ accepted > 0 => manifest.closed
=============================================================================
