---------------------------- MODULE TerminalOwner ----------------------------
(* What one terminal's owner thread does with its commands and its output       *)
(* (terminal.rs): the turns it takes, batches of input and of resizes, what it   *)
(* keeps for replay, and the requests it answers for the program.  Its thread    *)
(* writes to a program that may not be reading: the kernel takes what there is   *)
(* room for, and then the owner waits.                                          *)
(*                                                                             *)
(* Data are sizes and tokens.  Leases (TerminalControl) grant or refuse; entries *)
(* and the end of the child are TerminalHost's.                                 *)
EXTENDS Integers, FiniteSets, FiniteSetsExt, SequencesExt

CONSTANTS
    Stories,            \* bound: what clients and the program may do in one behaviour
    LaneCapacity, OutputCapacity, BatchMessages, BatchBytes, TurnBytes, NormalPerTurn,
    MaxReplay, ExitedReplay, CheckpointBytes,
    InputRoom,          \* what the kernel holds for a program that is not reading
    Requests            \* the sequences that are recognised, and what they ask for

VARIABLES
    story, sent,        \* bounds
    urgent, normal,     \* the lanes of commands
    program,            \* the program: what is left to print, and free room for its input
    output,             \* the reader's channel
    at, back,           \* where the owner's turn is, and where it goes on after a wait
    batch, writing,     \* commands taken, and those whose bytes, or theme, are being written
    turn,               \* bytes or commands taken in this part of the turn
    open, exited,       \* the output has not ended; its end has been observed
    replay, truncated, sequence, since, checkpoint, size,       \* kept for replay
    left, asked,        \* the scanner of requests, and what it found
    theme, updates, owed,
    log, answers, text, told    \* history: bytes and sizes given to the program, answers to
                        \* commands, all output, the last theme the program was told

ownerVars == <<story, sent, urgent, normal, program, output, at, back, batch, writing, turn,
               open, exited, replay, truncated, sequence, since, checkpoint, size, left, asked,
               theme, updates, owed, log, answers, text, told>>
env == <<story, sent, urgent, normal, program, output>>
kept == <<replay, truncated, sequence, since, checkpoint, size>>
scanned == <<left, asked, text>>
themes == <<theme, updates, owed, told>>
place == <<at, back, batch, writing, turn, open, exited>>

None == [sequence |-> -1, size |-> 0]
Eof == [size |-> 0, tokens |-> <<>>]

OwnerInit ==
    /\ story \in Stories /\ sent = 0
    /\ urgent = <<>> /\ normal = <<>> /\ output = <<>>
    /\ program = [prints |-> story.prints, room |-> InputRoom]
    /\ at = "urgent" /\ back = "urgent" /\ batch = <<>> /\ writing = <<>> /\ turn = 0
    /\ open = TRUE /\ exited = FALSE
    /\ replay = <<>> /\ truncated = FALSE /\ sequence = 0 /\ since = 0 /\ checkpoint = None /\ size = 1
    /\ left = <<>> /\ asked = <<>>
    /\ theme = 1 /\ updates = FALSE /\ owed = <<>>
    /\ log = <<>> /\ answers = {} /\ text = <<>> /\ told = 0

-----------------------------------------------------------------------------
(* Clients and the program                                                      *)

(* A command has a number, and waits in its lane; a full lane refuses it.         *)
Send ==
    /\ sent < story.most /\ at # "stopped"
    /\ \/ \E c \in story.urgent : Len(urgent) < LaneCapacity
             /\ urgent' = Append(urgent, [id |-> sent + 1, op |-> c[1], arg |-> c[2]]) /\ UNCHANGED normal
       \/ \E c \in story.normal : Len(normal) < LaneCapacity
             /\ normal' = Append(normal, [id |-> sent + 1, op |-> c[1], arg |-> c[2]]) /\ UNCHANGED urgent
    /\ sent' = sent + 1
    /\ UNCHANGED <<story, program, output, place, kept, scanned, themes, log, answers>>

(* Clients that never stop attaching again.                                     *)
Hammer ==
    /\ story.hammer /\ at # "stopped" /\ Len(urgent) < LaneCapacity
    /\ urgent' = Append(urgent, [id |-> 0, op |-> "attach", arg |-> 0])
    /\ UNCHANGED <<story, sent, normal, program, output, place, kept, scanned, themes, log, answers>>

(* The program prints, as far as its reader and the channel take it, reads what   *)
(* it was given when it is done printing, and ends.                              *)
Prints ==
    /\ program.prints > 0 /\ Len(output) < OutputCapacity
    /\ \E c \in story.chunks : output' = Append(output, c)
    /\ program' = [program EXCEPT !.prints = @ - 1]
    /\ UNCHANGED <<story, sent, urgent, normal, place, kept, scanned, themes, log, answers>>

Reads ==
    /\ program.prints = 0 /\ program.room < InputRoom
    /\ program' = [program EXCEPT !.room = InputRoom]
    /\ UNCHANGED <<story, sent, urgent, normal, output, place, kept, scanned, themes, log, answers>>

Ends ==
    /\ story.ends /\ program.prints = 0 /\ Len(output) < OutputCapacity
    /\ output' = Append(output, Eof) /\ program' = [program EXCEPT !.prints = -1]
    /\ UNCHANGED <<story, sent, urgent, normal, place, kept, scanned, themes, log, answers>>

-----------------------------------------------------------------------------
(* The owner's turn: urgent commands, output, a few normal commands, the exit,   *)
(* and then whatever comes first.                                               *)

Stay == UNCHANGED <<writing, open, exited>>

TakeUrgent ==
    /\ at = "urgent"
    /\ LET n == Min({Len(urgent), BatchMessages}) IN
       batch' = SubSeq(urgent, 1, n) /\ urgent' = SubSeq(urgent, n + 1, Len(urgent))
    /\ at' = "batch" /\ back' = "output" /\ turn' = 0 /\ Stay
    /\ UNCHANGED <<story, sent, normal, program, output, kept, scanned, themes, log, answers>>

BatchDone ==
    /\ at = "batch" /\ batch = <<>>
    /\ at' = back /\ turn' = 0 /\ Stay
    /\ UNCHANGED <<env, back, batch, kept, scanned, themes, log, answers>>

(* Fault: nothing is done for normal commands unless nothing else is waiting.    *)
AfterOutputStraight == "exit"
AfterOutput == "normal"

OutputDone ==
    /\ at = "output" /\ (output = <<>> \/ ~open \/ turn >= TurnBytes)
    /\ at' = AfterOutput /\ turn' = 0 /\ Stay
    /\ UNCHANGED <<env, back, batch, kept, scanned, themes, log, answers>>

NormalDone ==
    /\ at = "normal" /\ (normal = <<>> \/ turn = NormalPerTurn)
    /\ at' = "exit" /\ turn' = 0 /\ Stay
    /\ UNCHANGED <<env, back, batch, kept, scanned, themes, log, answers>>

(* select_biased: urgent commands, then output, then normal commands.            *)
SelectUrgent ==
    /\ at = "select" /\ urgent # <<>>
    /\ LET n == Min({Len(urgent), BatchMessages}) IN
       batch' = SubSeq(urgent, 1, n) /\ urgent' = SubSeq(urgent, n + 1, Len(urgent))
    /\ at' = "batch" /\ back' = "urgent" /\ turn' = 0 /\ Stay
    /\ UNCHANGED <<story, sent, normal, program, output, kept, scanned, themes, log, answers>>

-----------------------------------------------------------------------------
(* Commands                                                                     *)

Answered(cs, result) == {[id |-> c.id, op |-> c.op, arg |-> c.arg, result |-> result] : c \in {d \in cs : d.id # 0}}
Answer(cs, result) == answers' = answers \cup Answered(cs, result)
Ids(s) == {s[i].id : i \in DOMAIN s}
Prefix(s, op) == CHOOSE n \in 0..Len(s) : /\ \A i \in 1..n : s[i].op = op
                                          /\ n < Len(s) => s[n + 1].op # op
BytesOf(s) == FoldLeft(LAMBDA n, c : n + c.arg, 0, s)

(* How many writes at the head of the batch are written as one.                  *)
Together(s) ==
    Max({n \in 1..Prefix(s, "write") : n = 1 \/ BytesOf(SubSeq(s, 1, n)) <= BatchBytes})

(* Authorised one by one, written together.                                      *)
BeginWrite ==
    /\ at = "batch" /\ Prefix(batch, "write") > 0
    /\ LET n == Together(batch)
           group == SubSeq(batch, 1, n) IN
       \E granted \in (IF story.refuses THEN SUBSET Ids(group) ELSE {Ids(group)}) :
         /\ writing' = SelectSeq(group, LAMBDA c : c.id \in granted)
         /\ Answer({c \in ToSet(group) : c.id \notin granted}, "refused")
         /\ batch' = SubSeq(batch, n + 1, Len(batch))
         /\ at' = IF granted = {} THEN "batch" ELSE "write"
    /\ UNCHANGED <<env, back, turn, open, exited, kept, scanned, themes, log>>

(* Byte by byte: the bytes of command i appear as i in the log.                   *)
WrittenOf(i) == Cardinality({k \in DOMAIN log : log[k] = <<"byte", i>>})
Unwritten == SelectSeq(writing, LAMBDA c : WrittenOf(c.id) < c.arg)

WriteByte ==
    /\ at = "write" /\ Unwritten # <<>> /\ program.room > 0
    /\ log' = Append(log, <<"byte", Head(Unwritten).id>>)
    /\ program' = [program EXCEPT !.room = @ - 1]
    /\ UNCHANGED <<story, sent, urgent, normal, output, place, kept, scanned, themes, answers>>

(* All are told the same: the error may come after some of the bytes.             *)
WriteEnds ==
    /\ at = "write" /\ at' = "batch" /\ writing' = <<>>
    /\ \/ Unwritten = <<>> /\ Answer(ToSet(writing), "ok")
       \/ story.fails /\ Answer(ToSet(writing), "error")
    /\ UNCHANGED <<env, back, batch, turn, open, exited, kept, scanned, themes, log>>

(* store_checkpoint, where there is a recorder.                                  *)
Stored(n, s) == IF story.recorder THEN [sequence |-> n, size |-> s] ELSE checkpoint

(* Fault: all resizes of the batch are taken for one.                            *)
ResizesAnywhere(s) == SelectSeq(s, LAMBDA c : c.op = "resize")
ResizesTogether(s) == SubSeq(s, 1, Prefix(s, "resize"))

(* The latest that is authorised is carried out.                                 *)
Resize ==
    /\ at = "batch" /\ batch # <<>> /\ Head(batch).op = "resize"
    /\ LET group == ResizesTogether(batch) IN
       \E granted \in (IF story.refuses THEN SUBSET Ids(group) ELSE {Ids(group)}) :
         LET yes == {c \in ToSet(group) : c.id \in granted}
             refused == Answered(ToSet(group) \ yes, "refused")
             last == CHOOSE c \in yes : c.id = Max(granted) IN
         /\ batch' = SelectSeq(batch, LAMBDA c : c.id \notin Ids(group))
         /\ \/ /\ granted # {}
               /\ size' = last.arg /\ log' = Append(log, <<"size", last.id>>)
               /\ checkpoint' = Stored(sequence, last.arg)
               /\ since' = IF story.recorder THEN 0 ELSE since
               /\ answers' = answers \cup Answered(yes, "ok") \cup refused
            \/ /\ granted = {} \/ story.fails
               /\ answers' = answers \cup Answered(yes, "error") \cup refused
               /\ UNCHANGED <<size, checkpoint, since, log>>
    /\ UNCHANGED <<env, at, back, writing, turn, open, exited, replay, truncated, sequence,
                   scanned, themes>>

Attach ==
    /\ at = "batch" /\ batch # <<>> /\ Head(batch).op = "attach"
    /\ batch' = Tail(batch) /\ Answer({Head(batch)}, "ok")
    /\ UNCHANGED <<env, at, back, writing, turn, open, exited, kept, scanned, themes, log>>

(* Whatever is left in the lanes is answered with an error.                       *)
Dispose ==
    /\ at = "batch" /\ batch # <<>> /\ Head(batch).op = "dispose"
    /\ answers' = answers \cup Answered({Head(batch)}, "ok")
                          \cup Answered(ToSet(Tail(batch) \o urgent \o normal), "error")
    /\ at' = "stopped" /\ batch' = <<>> /\ urgent' = <<>> /\ normal' = <<>>
    /\ UNCHANGED <<story, sent, program, output, back, writing, turn, open, exited, kept, scanned,
                   themes, log>>

(* A new theme is told to a program that wants to know, and may have to wait; the  *)
(* command is answered afterwards.                                               *)
Normal ==
    /\ normal # <<>>
    /\ \/ at = "normal" /\ turn < NormalPerTurn
          /\ turn' = turn + 1 /\ back' = "normal"
       \/ at = "select" /\ urgent = <<>> /\ (output = <<>> \/ ~open)
          /\ turn' = 0 /\ back' = "urgent"
    /\ normal' = Tail(normal)
    /\ LET c == Head(normal)
           new == c.op = "theme" /\ c.arg # theme IN
       /\ theme' = IF new THEN c.arg ELSE theme
       /\ IF new /\ updates
            THEN owed' = <<"theme">> /\ writing' = <<c>> /\ at' = "answer" /\ UNCHANGED answers
            ELSE owed' = <<>> /\ at' = back' /\ Answer({c}, "ok") /\ UNCHANGED writing
    /\ UNCHANGED <<story, sent, urgent, program, output, batch, open, exited, kept, scanned,
                   updates, told, log>>

-----------------------------------------------------------------------------
(* Output                                                                       *)

Dropped(r, max) ==
    LET Bytes(s) == FoldLeft(LAMBDA n, c : n + c.size, 0, s)
        fits == {n \in 0..Len(r) : Bytes(SubSeq(r, n + 1, Len(r))) <= max \/ n >= Len(r) - 1} IN
    SubSeq(r, Min(fits) + 1, Len(r))

(* feed_terminal_requests, one token.                                            *)
Fed(s, token) ==
    LET now == Append(s.left, token)
        known == {r \in DOMAIN Requests : Requests[r] = now} IN
    IF s.left = <<>> THEN [s EXCEPT !.left = IF token = "esc" THEN <<token>> ELSE <<>>]
    ELSE IF known # {} THEN [left |-> <<>>, asked |-> Append(s.asked, CHOOSE r \in known : TRUE)]
    ELSE IF \E r \in DOMAIN Requests : IsPrefix(now, Requests[r]) THEN [s EXCEPT !.left = now]
    ELSE [s EXCEPT !.left = IF token = "esc" THEN <<token>> ELSE <<>>]

(* A chunk is kept for replay, scanned and recorded, and the requests in it are    *)
(* answered; clients see none of these before the owner is done with all.          *)
Process(next) ==
    LET c == Head(output)
        kept2 == Dropped(Append(replay, [sequence |-> sequence + 1, size |-> c.size]), MaxReplay)
        requests == FoldLeft(Fed, [left |-> left, asked |-> <<>>], c.tokens)
        bytes == since + c.size IN
    /\ sequence' = sequence + 1
    /\ replay' = kept2 /\ truncated' = (truncated \/ Len(kept2) <= Len(replay))
    /\ left' = requests.left /\ asked' = asked \o requests.asked
    /\ text' = text \o c.tokens
    /\ \E late \in (IF story.recorder THEN BOOLEAN ELSE {FALSE}) :
         IF story.recorder /\ (bytes >= CheckpointBytes \/ late)
           THEN checkpoint' = Stored(sequence + 1, size) /\ since' = 0
           ELSE since' = bytes /\ UNCHANGED checkpoint
    /\ owed' = requests.asked /\ at' = (IF requests.asked = <<>> THEN next ELSE "answer") /\ back' = next
    /\ UNCHANGED <<size, theme, updates, told>>

TakeOutput ==
    /\ open /\ output # <<>> /\ output' = Tail(output)
    /\ \/ at = "output" /\ turn < TurnBytes
       \/ at = "select" /\ urgent = <<>>
    /\ LET next == IF at = "output" THEN "output" ELSE "urgent" IN
       IF Head(output) = Eof
         THEN /\ open' = FALSE /\ at' = next /\ turn' = turn
              /\ UNCHANGED <<back, kept, scanned, themes>>
         ELSE /\ Process(next) /\ UNCHANGED open
              /\ turn' = IF at = "output" THEN turn + Head(output).size ELSE 0
    /\ UNCHANGED <<story, sent, urgent, normal, program, batch, writing, exited, log, answers>>

(* An answer goes where input goes, and waits for room like input.                *)
AnswerProgram ==
    /\ at = "answer"
    /\ IF owed = <<>>
         THEN /\ at' = back /\ writing' = <<>> /\ Answer(ToSet(writing), "ok")
              /\ UNCHANGED <<program, themes>>
       ELSE /\ owed' = Tail(owed) /\ UNCHANGED <<at, theme, writing, answers>>
            /\ updates' = (IF Head(owed) \in {"on", "off"} THEN Head(owed) = "on" ELSE updates)
            /\ told' = CASE Head(owed) = "theme" -> theme
                         [] Head(owed) = "on" /\ ~updates -> 0
                         [] OTHER -> told
            /\ IF Head(owed) \in {"on", "off"} THEN UNCHANGED program
               ELSE program.room > 0 /\ program' = [program EXCEPT !.room = @ - 1]
    /\ UNCHANGED <<story, sent, urgent, normal, output, back, batch, turn, open, exited,
                   kept, scanned, log>>

(* Fault: no checkpoint is stored at the exit.                                    *)
StoredAtExitNot == checkpoint
StoredAtExit == Stored(sequence, size)

(* observe_terminal_exit: less is kept for a program that has ended.               *)
Exit ==
    /\ at = "exit" /\ at' = "select" /\ turn' = 0
    /\ IF ~open /\ ~exited
         THEN /\ exited' = TRUE /\ checkpoint' = StoredAtExit
              /\ since' = IF story.recorder THEN 0 ELSE since
              /\ replay' = Dropped(replay, ExitedReplay)
              /\ truncated' = (truncated \/ Len(replay') < Len(replay))
              /\ UNCHANGED <<sequence, size>>
         ELSE UNCHANGED <<exited, kept>>
    /\ UNCHANGED <<env, back, batch, writing, open, scanned, themes, log, answers>>

Owner ==
    \/ TakeUrgent \/ BatchDone \/ OutputDone \/ NormalDone \/ SelectUrgent
    \/ BeginWrite \/ WriteByte \/ WriteEnds \/ Resize \/ Attach \/ Dispose \/ Normal
    \/ TakeOutput \/ AnswerProgram \/ Exit

OwnerNext == Owner \/ Send \/ Hammer \/ Prints \/ Reads \/ Ends

OwnerSteady == Owner \/ Prints \/ Reads

-----------------------------------------------------------------------------
(* What an attach is answered                                                    *)

Attached(after, archive) ==
    LET floor == IF replay = <<>> THEN sequence + 1 ELSE Head(replay).sequence
        used == truncated /\ checkpoint # None /\ after < checkpoint.sequence
        from == IF used THEN checkpoint.sequence ELSE after
        chunks == SelectSeq(replay, LAMBDA c : c.sequence > from) IN
    [quality |-> IF used THEN "checkpoint"
                 ELSE IF truncated /\ after + 1 < floor THEN "degraded" ELSE "exact",
     from |-> from, replayTruncated |-> truncated /\ after + 1 < floor,
     chunks |-> IF archive /\ from < sequence /\ chunks # <<>> THEN Dropped(chunks, ExitedReplay) ELSE chunks]

Numbers(chunks) == [i \in DOMAIN chunks |-> chunks[i].sequence]
UpTo(from) == [i \in 1..(sequence - from) |-> from + i]

(* An attach from any position gets everything after it, or after the checkpoint  *)
(* it gets; something is missing only without checkpoints, and then it says so;    *)
(* with an archive at hand it gets the end of it.                                 *)
ReplayWhole ==
    \A after \in 0..sequence :
      /\ LET a == Attached(after, FALSE) IN
         /\ a.quality = "degraded" => ~story.recorder /\ a.replayTruncated
         /\ a.quality # "degraded" => Numbers(a.chunks) = UpTo(a.from)
         /\ a.quality = "exact" => a.from = after
         /\ a.quality = "checkpoint" => a.from > after /\ a.from <= sequence
      /\ LET a == Attached(after, TRUE) IN IsSuffix(Numbers(a.chunks), UpTo(after))

(* Input and sizes reach the program in the order of the commands, each command's  *)
(* bytes completely if it is answered "ok" and not at all if it is refused, and    *)
(* the size is that of the last resize that was granted.                          *)
InputFaithful ==
    LET sizes == {a.id : a \in {b \in answers : b.op = "resize" /\ b.result = "ok"}} IN
    /\ \A i, j \in DOMAIN log : i < j => log[i][2] <= log[j][2]
    /\ \A a \in answers :
         /\ a.result = "refused" => \A i \in DOMAIN log : log[i][2] # a.id
         /\ a.op = "write" /\ a.result = "ok" => WrittenOf(a.id) = a.arg
         /\ sizes # {} /\ a.id = Max(sizes) => size = a.arg
    /\ \A a, b \in answers : a.id = b.id => a = b

(* The requests found are those in the text, wherever its chunks end.  One that    *)
(* begins with the escape of a colour query that stops there is not seen.          *)
Occurs(r, i) ==
    LET s == Requests[r] IN i + Len(s) - 1 <= Len(text) /\ SubSeq(text, i, i + Len(s) - 1) = s
Unfinished == {SubSeq(Requests[r], 1, 3) : r \in {q \in DOMAIN Requests : Len(Requests[q]) = 4}}
Found ==
    LET f[i \in 1..(Len(text) + 1)] ==
          IF i > Len(text) THEN <<>>
          ELSE LET here == {r \in DOMAIN Requests : Occurs(r, i)} IN
               IF here = {} /\ i + 2 <= Len(text) /\ SubSeq(text, i, i + 2) \in Unfinished THEN f[i + 3]
               ELSE IF here = {} THEN f[i + 1]
               ELSE LET r == CHOOSE r \in here : TRUE IN <<r>> \o f[i + Len(Requests[r])] IN
    f[1]
RequestsFound == Found = asked

(* A program that was told the theme since it asked to be kept informed knows it.  *)
ThemeKnown == updates /\ told # 0 /\ owed = <<>> => told = theme

(* The owner waits for the program to read, and the program for it to take output. *)
Circular ==
    /\ \/ at = "write" /\ Unwritten # <<>>
       \/ at = "answer" /\ owed # <<>>
    /\ program.room = 0 /\ program.prints > 0 /\ Len(output) = OutputCapacity

(* Every command is answered, however urgent the others are, unless owner and      *)
(* program wait for each other.                                                   *)
AnswersAll == []<>(\A i \in 1..sent : \E a \in answers : a.id = i) \/ <>[]Circular

OwnerSound == ReplayWhole /\ InputFaithful /\ RequestsFound /\ ThemeKnown
=============================================================================
