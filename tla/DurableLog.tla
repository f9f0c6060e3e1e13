----------------------------- MODULE DurableLog -----------------------------
(***************************************************************************)
(* What the history archive of a terminal promises: a log of output records *)
(* that only grows at its end, may lose its oldest records to the quota, and *)
(* takes nothing more once it is closed.                                    *)
(***************************************************************************)
EXTENDS Naturals, Sequences

VARIABLES log, closed

logVars == <<log, closed>>

Init == log = <<>> /\ closed = FALSE

Extend ==
  /\ ~closed
  /\ log' # <<>> /\ log = SubSeq(log', 1, Len(log') - 1)
  /\ \A i \in DOMAIN log : log[i] < log'[Len(log')]
  /\ UNCHANGED closed

Trim ==
  /\ \E k \in 1..Len(log) : log' = SubSeq(log, k, Len(log))
  /\ UNCHANGED closed

Close == closed' = TRUE /\ UNCHANGED log

Next == Extend \/ Trim \/ Close

Spec == Init /\ [][Next]_logVars
=============================================================================
