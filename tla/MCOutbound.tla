----------------------------- MODULE MCOutbound -----------------------------
(* The way out of the host in three settings: one terminal attached, detached  *)
(* and attached again beside other traffic; two terminals, each attached once,  *)
(* that share the mailbox and the writer, so that one's frames fill the other's *)
(* lane; and the mailbox by itself, every operation in every order and frames   *)
(* of several sizes.                                                            *)
EXTENDS ConnectionOutbound

CONSTANTS Sizes, MaxSeq, MaxOrder     \* of MCOutboundMailbox

VARIABLE part

Box == INSTANCE MCOutboundMailbox

othersVars == <<produced, subscribed, flowVars, endVars, writerVars, taskVars, expected, boundVars>>

\* The two terminals, in the order of their attaches.
First == CHOOSE t \in Terminals : TRUE
Second == CHOOSE t \in Terminals : t # First

OutboundInit == part \in {"one", "two", "mailbox"} /\ Init

OutboundNext ==
    /\ UNCHANGED part
    /\ \/ /\ part = "one" /\ Next
          /\ \A t \in Terminals \ {First} : produced'[t] = 0
          /\ request'.terminal \in {NoTerminal, First}
       \/ /\ part = "two" /\ Next /\ events' = 0
          /\ attaches' # attaches => request'.terminal = IF attaches = 0 THEN First ELSE Second
          /\ task' # "replying"
          /\ produced'[Second] <= 1
       \/ part = "mailbox" /\ Box!Next /\ UNCHANGED othersVars

\* The connection's fairness: it speaks of the first two settings.
OutboundSpec == OutboundInit /\ [][OutboundNext]_<<vars, part>> /\ Fairness

\* A slow client is held back or told, whatever the two terminals do; and the
\* counters that admit frames are those of the lanes.
OutboundSafe == IF part = "mailbox" THEN Box!MailboxInv ELSE OutboundInv

\* The three ordered lanes behave as one queue in which nothing overtakes
\* ("Reliable and legacy frames remain FIFO"), a replaced semantic frame keeps
\* its place, and the priority lane goes first.
Alone(value, idle) == IF part = "mailbox" THEN value ELSE idle
Queue == INSTANCE FrameQueue WITH
  Frames <- Box!Control \cup Box!Raw \cup Box!Semantic,
  urgent <- Alone(FramesOf(priority), <<>>),
  queue <- Alone(FramesOf(Merged), <<>>),
  out <- Alone(out, NoFrame)

ImplementsQueue == Queue!Spec
=============================================================================
