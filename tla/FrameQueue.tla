----------------------------- MODULE FrameQueue -----------------------------
(***************************************************************************)
(* What the outbound mailbox of a connection promises its writer: one queue *)
(* in the order frames were put, behind a short urgent queue.  A frame that *)
(* waits may be replaced where it stands or withdrawn, never moved.         *)
(***************************************************************************)
EXTENDS Naturals, Sequences

CONSTANTS Frames, NoFrame

VARIABLES urgent, queue, out   \* out: the frame taken last

qvars == <<urgent, queue, out>>

Init == urgent = <<>> /\ queue = <<>> /\ out = NoFrame

PutUrgent ==
  /\ \E f \in Frames : urgent' = Append(urgent, f)
  /\ UNCHANGED <<queue, out>>

Put ==
  /\ \E f \in Frames : queue' = Append(queue, f)
  /\ UNCHANGED <<urgent, out>>

Replace ==
  /\ \E i \in 1..Len(queue), f \in Frames : queue' = [queue EXCEPT ![i] = f]
  /\ UNCHANGED <<urgent, out>>

Withdraw ==
  /\ \E gone \in SUBSET Frames :
       queue' = SelectSeq(queue, LAMBDA f : f \notin gone)
  /\ UNCHANGED <<urgent, out>>

Take ==
  \/ /\ urgent # <<>>
     /\ out' = Head(urgent)
     /\ urgent' = Tail(urgent)
     /\ UNCHANGED queue
  \/ /\ urgent = <<>> /\ queue # <<>>
     /\ out' = Head(queue)
     /\ queue' = Tail(queue)
     /\ UNCHANGED urgent

Next == PutUrgent \/ Put \/ Replace \/ Withdraw \/ Take

Spec == Init /\ [][Next]_qvars
=============================================================================
