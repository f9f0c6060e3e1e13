----------------------- MODULE ConnectionOutboundProofs -----------------------
(***************************************************************************)
(* Theorems about ConnectionOutbound, for any terminals, lanes, credit and  *)
(* bounds: a client that is sent frames of a terminal is sent all of them,  *)
(* or is told that the stream broke, and a slow one is held back by its      *)
(* credit.                                                                  *)
(***************************************************************************)
EXTENDS ConnectionOutbound, FiniteSetTheorems, TLAPS

(* What stands at some positions of a sequence *)

\* At keeps the order: its n-th entry stands at the n-th of the positions.
LEMMA AtPlaces ==
  ASSUME NEW s, DOMAIN s \in SUBSET Nat, IsFiniteSet(DOMAIN s), NEW P \in SUBSET DOMAIN s
  PROVE  \E place \in [1..Cardinality(P) -> P] :
           /\ At(s, P) = [n \in 1..Cardinality(P) |-> s[place[n]]]
           /\ \A m, n \in 1..Cardinality(P) : m < n => place[m] < place[n]
           /\ \A i \in P : \E n \in 1..Cardinality(P) : place[n] = i
           /\ Cardinality(P) \in Nat /\ Cardinality(P) <= Cardinality(DOMAIN s)
<1> DEFINE Upto(i) == {j \in P : j <= i}
           rank == [i \in P |-> Cardinality(Upto(i))]
           c == Cardinality(P)
<1>1. IsFiniteSet(P) /\ c \in Nat /\ P \subseteq Nat /\ c <= Cardinality(DOMAIN s)
  BY FS_Subset, FS_CardinalityType
<1>2. \A i \in P : IsFiniteSet(Upto(i)) /\ Cardinality(Upto(i)) \in 1..c
  <2>. SUFFICES ASSUME NEW i \in P
                PROVE  IsFiniteSet(Upto(i)) /\ Cardinality(Upto(i)) \in 1..c
    OBVIOUS
  <2>1. Upto(i) \in SUBSET P /\ i \in Upto(i)
    BY <1>1
  <2>2. IsFiniteSet(Upto(i)) /\ Cardinality(Upto(i)) <= c /\ Cardinality(Upto(i)) \in Nat
    BY <1>1, <2>1, FS_Subset, FS_CardinalityType
  <2>3. Cardinality(Upto(i)) # 0
    BY <2>1, <2>2, FS_EmptySet
  <2>. QED BY <1>1, <2>2, <2>3
<1>3. \A i, k \in P : i < k => rank[i] < rank[k]
  <2>. SUFFICES ASSUME NEW i \in P, NEW k \in P, i < k PROVE rank[i] < rank[k]
    OBVIOUS
  <2>1. k \notin Upto(i) /\ Upto(i) \cup {k} \in SUBSET Upto(k)
    BY <1>1
  <2>2. Cardinality(Upto(i) \cup {k}) = Cardinality(Upto(i)) + 1
    BY <1>2, <2>1, FS_AddElement
  <2>3. Cardinality(Upto(i) \cup {k}) <= Cardinality(Upto(k))
    BY <1>2, <2>1, FS_Subset
  <2>4. Cardinality(Upto(i)) \in Nat /\ Cardinality(Upto(k)) \in Nat
    BY <1>2
  <2>. QED BY <2>2, <2>3, <2>4
<1>4. rank \in [P -> 1..c] /\ \A i, k \in P : rank[i] = rank[k] => i = k
  <2>1. \A i \in P : rank[i] \in 1..c
    BY <1>2
  <2>2. \A i, k \in P : i # k => i < k \/ k < i
    BY <1>1
  <2>. QED BY <1>3, <2>1, <2>2
<1> HIDE DEF rank
<1>5. rank \in Surjection(P, 1..c)
  <2>1. rank \in Injection(P, 1..c)
    BY <1>4 DEF Injection, IsInjective
  <2>2. IsFiniteSet(1..c) /\ Cardinality(1..c) = c
    BY <1>1, FS_Interval
  <2>. QED BY <2>1, <2>2, FS_Injection
<1>6. \A n \in 1..c : \E i \in P : rank[i] = n
  BY <1>5 DEF Surjection
<1> DEFINE place == [n \in 1..c |-> CHOOSE i \in P : Cardinality({j \in P : j <= i}) = n]
<1>7. \A n \in 1..c : place[n] \in P /\ rank[place[n]] = n
  <2>. SUFFICES ASSUME NEW n \in 1..c PROVE place[n] \in P /\ rank[place[n]] = n
    OBVIOUS
  <2>1. \E i \in P : Cardinality({j \in P : j <= i}) = n
    BY <1>6 DEF rank
  <2>. QED BY <2>1 DEF rank
<1>8. At(s, P) = [n \in 1..c |-> s[place[n]]]
  BY DEF At
<1> HIDE DEF place
<1>9. \A m, n \in 1..c : m < n => place[m] < place[n]
  <2>. SUFFICES ASSUME NEW m \in 1..c, NEW n \in 1..c, m < n PROVE place[m] < place[n]
    OBVIOUS
  <2>1. place[m] \in P /\ place[n] \in P /\ rank[place[m]] = m /\ rank[place[n]] = n
    BY <1>7
  <2>2. ~(place[n] < place[m]) /\ place[n] # place[m]
    BY <1>1, <1>3, <2>1
  <2>. QED BY <1>1, <2>1, <2>2
<1>10. \A i \in P : \E n \in 1..c : place[n] = i
  BY <1>4, <1>7
<1>11. place \in [1..c -> P]
  BY <1>7 DEF place
<1>. QED BY <1>1, <1>8, <1>9, <1>10, <1>11
-----------------------------------------------------------------------------
(* The inductive invariant *)

\* The entries of a lane stand in the order of their numbers.
Rising(lane) == \A i, j \in DOMAIN lane : i < j => lane[i].order < lane[j].order

\* Each lane holds its own kinds of frames, numbered before next_order; the frames of
\* a terminal wait in the order in which they were produced.
LanesSound ==
  /\ nextOrder \in Nat /\ DOMAIN semantic = {}
  /\ Rising(priority) /\ Rising(reliable) /\ Rising(legacy)
  /\ \A q \in Range(priority) : q.order < nextOrder /\ q.frame.kind \in {"result", "ended"}
  /\ \A q \in Range(reliable) :
       q.order < nextOrder /\ q.frame.kind \in {"text", "fence", "ended"}
  /\ \A q \in Range(legacy) :
       /\ q.order < nextOrder /\ q.frame.kind = "data"
       /\ q.frame.seq <= produced[q.frame.terminal]
  /\ \A q, r \in Range(legacy) :
       q.frame.terminal = r.frame.terminal /\ q.order < r.order => q.frame.seq < r.frame.seq

Requests ==
  [terminal : Terminals \cup {NoTerminal}, snapshot : 0..MaxSequence, answered : BOOLEAN]

\* One attach is under way at a time; it holds the writer until its result is queued,
\* or for ever if that did not fit.
AttachSound ==
  /\ request \in Requests
  /\ \A t \in attaching : \/ task = "dispatching" /\ request.terminal = t
                          \/ task \in {"exiting", "joined"}
  /\ task = "dispatching" => request.terminal \in attaching
  /\ task = "replying" => request.terminal \in Terminals
  /\ task = "dispatching" /\ request.answered =>
       request.snapshot \in 0..produced[request.terminal]

\* What t produces next is queued, or fenced off.
Live(t) == t \in subscribed /\ t \in DOMAIN flow /\ ~Refusing(t)

\* Frames after which the client expects nothing of terminal t.
Breaks(q, t) == q.frame.kind \in {"fence", "ended"} /\ q.frame.terminal = t

Fenced(q) == \E f \in Range(reliable) : Breaks(f, q.frame.terminal) /\ f.order < q.order

\* Past n the frames of t follow each other without a hole, as far as no fence is
\* in front of them, and reach up to what t has produced.
Unbroken(t, n) ==
  /\ n <= produced[t]
  /\ \A q \in Range(legacy) :
       q.frame.terminal = t /\ q.frame.seq > n /\ ~Fenced(q) =>
         \/ q.frame.seq = n + 1
         \/ \E r \in Range(legacy) : r.frame.terminal = t /\ r.frame.seq + 1 = q.frame.seq
  /\ Live(t) => \/ n = produced[t]
                \/ \E q \in Range(legacy) : q.frame.terminal = t /\ q.frame.seq = produced[t]
                \/ \E f \in Range(reliable) : Breaks(f, t)

\* What the client will expect of t once the priority lane is sent, which goes first.
Due(t, e) ==
  \/ /\ \A q \in Range(priority) : q.frame.terminal # t
     /\ e = expected[t]
  \/ \E q \in Range(priority) :
       /\ q.frame.terminal = t
       /\ \A r \in Range(priority) : r.frame.terminal = t => r.order <= q.order
       /\ e = IF q.frame.kind = "result" THEN q.frame.seq + 1 ELSE 0

\* The frames of t that no fence precedes begin after n and are unbroken.
Continues(t, n) ==
  /\ Unbroken(t, n)
  /\ \A q \in Range(legacy) : q.frame.terminal = t /\ ~Fenced(q) => q.frame.seq > n

\* A client that expects n + 1 is going to get it; and so will the one whose attach is
\* answered, once the frames up to its snapshot are withdrawn.
StreamsSound ==
  /\ \A t \in Terminals \ attaching : \A n \in Nat : Due(t, n + 1) => Continues(t, n)
  /\ task = "dispatching" /\ request.answered => Unbroken(request.terminal, request.snapshot)

\* A terminal is fenced off only together with a fence in the reliable lane, and a
\* fence that was sent leaves nothing that would make the client expect more.
Reported ==
  \A t \in replayRequired :
    \/ stopped \/ close # "none"
    \/ \E f \in Range(reliable) : f.frame.kind = "fence" /\ f.frame.terminal = t
    \/ /\ t \notin attaching /\ expected[t] = 0
       /\ \A q \in Range(priority) : q.frame.terminal = t => q.frame.kind # "result"

\* Of the frames that wait, those past the acknowledgement (past the snapshot, while
\* an attach is answered) hold credit.
Credited ==
  Protocol = 2 =>
    /\ \A t \in DOMAIN flow \ attaching : \A q \in Range(legacy) :
         q.frame.terminal = t /\ q.frame.seq > flow[t].acknowledged
           => q.frame.seq \in Range(flow[t].sent)
    /\ task = "dispatching" /\ request.answered =>
         \A q \in Range(legacy) :
           q.frame.terminal = request.terminal /\ q.frame.seq > request.snapshot
             => q.frame.seq \in Range(flow[request.terminal].sent)

ConnInv == TypeOK /\ LanesSound /\ AttachSound /\ StreamsSound /\ Reported /\ Credited

-----------------------------------------------------------------------------
(* Lanes *)

LEMMA Added ==
  ASSUME NEW M, NEW s \in Seq(M), NEW m \in M
  PROVE  Append(s, m) \in Seq(M) /\ Range(Append(s, m)) = Range(s) \cup {m}
<1>1. /\ Append(s, m) \in Seq(M) /\ DOMAIN Append(s, m) = 1..(Len(s) + 1)
      /\ DOMAIN s = 1..Len(s) /\ Len(s) \in Nat
      /\ Append(s, m)[Len(s) + 1] = m
      /\ \A i \in 1..Len(s) : Append(s, m)[i] = s[i]
  OBVIOUS
<1>. PICK u : u = Append(s, m)
  OBVIOUS
<1>2. Range(u) = Range(s) \cup {m}
  BY ONLY <1>1, u = Append(s, m) DEF Range
<1>. QED BY <1>1, <1>2

LEMMA Taken ==
  ASSUME NEW M, NEW s \in Seq(M), s # <<>>
  PROVE  /\ Head(s) \in M /\ Tail(s) \in Seq(M)
         /\ Range(s) = Range(Tail(s)) \cup {Head(s)}
<1>1. /\ Head(s) = s[1] /\ Tail(s) \in Seq(M) /\ DOMAIN Tail(s) = 1..(Len(s) - 1)
      /\ DOMAIN s = 1..Len(s) /\ Len(s) \in Nat \ {0} /\ s[1] \in M
      /\ \A i \in 1..(Len(s) - 1) : Tail(s)[i] = s[i + 1]
  OBVIOUS
<1>. PICK u : u = Tail(s)
  OBVIOUS
<1>2. \A i \in DOMAIN s : i # 1 => i - 1 \in DOMAIN u /\ u[i - 1] = s[i]
  BY ONLY <1>1, u = Tail(s)
<1>3. \A i \in DOMAIN u : i + 1 \in DOMAIN s /\ u[i] = s[i + 1]
  BY ONLY <1>1, u = Tail(s)
<1>4. Range(s) = Range(u) \cup {s[1]}
  BY ONLY <1>1, <1>2, <1>3 DEF Range
<1>. QED BY <1>1, <1>4

LEMMA RisesAdded ==
  ASSUME NEW M, NEW s \in Seq(M), NEW m \in M, Rising(s),
         \A q \in Range(s) : q.order < m.order
  PROVE  Rising(Append(s, m))
<1>1. /\ DOMAIN Append(s, m) = 1..(Len(s) + 1) /\ Append(s, m)[Len(s) + 1] = m
      /\ DOMAIN s = 1..Len(s) /\ Len(s) \in Nat
      /\ \A i \in 1..Len(s) : Append(s, m)[i] = s[i]
  OBVIOUS
<1>. PICK u : u = Append(s, m)
  OBVIOUS
<1>2. \A i \in DOMAIN s : s[i].order < m.order
  BY DEF Range
<1>3. Rising(u)
  BY ONLY <1>1, <1>2, u = Append(s, m), Rising(s) DEF Rising
<1>. QED BY <1>3

LEMMA RisesTaken ==
  ASSUME NEW M, NEW s \in Seq(M), s # <<>>, Rising(s)
  PROVE  Rising(Tail(s)) /\ \A q \in Range(Tail(s)) : Head(s).order < q.order
<1>1. /\ Head(s) = s[1] /\ DOMAIN Tail(s) = 1..(Len(s) - 1)
      /\ DOMAIN s = 1..Len(s) /\ Len(s) \in Nat \ {0}
      /\ \A i \in 1..(Len(s) - 1) : Tail(s)[i] = s[i + 1]
  OBVIOUS
<1>. PICK u : u = Tail(s)
  OBVIOUS
<1>2. \A i \in DOMAIN u : i + 1 \in DOMAIN s /\ u[i] = s[i + 1] /\ 1 < i + 1 /\ 1 \in DOMAIN s
  BY ONLY <1>1, u = Tail(s)
<1>3. \A i, j \in DOMAIN u : i < j => i + 1 < j + 1
  BY ONLY <1>1, u = Tail(s)
<1>4. Rising(u)
  BY ONLY <1>2, <1>3, Rising(s) DEF Rising
<1>5. \A q \in Range(u) : s[1].order < q.order
  BY ONLY <1>2, Rising(s) DEF Rising, Range
<1>. QED BY <1>1, <1>4, <1>5

\* What is left of a lane rises as the lane did.
LEMMA Selected ==
  ASSUME NEW M, NEW s \in Seq(M), NEW P \in SUBSET DOMAIN s
  PROVE  /\ At(s, P) \in Seq(M) /\ Range(At(s, P)) = {s[i] : i \in P}
         /\ Rising(s) => Rising(At(s, P))
<1>1. DOMAIN s = 1..Len(s) /\ Len(s) \in Nat /\ \A i \in DOMAIN s : s[i] \in M
  OBVIOUS
<1>2. DOMAIN s \in SUBSET Nat /\ IsFiniteSet(DOMAIN s)
  BY <1>1, FS_Interval
<1>3. PICK place \in [1..Cardinality(P) -> P] :
        /\ At(s, P) = [n \in 1..Cardinality(P) |-> s[place[n]]]
        /\ \A m, n \in 1..Cardinality(P) : m < n => place[m] < place[n]
        /\ \A i \in P : \E n \in 1..Cardinality(P) : place[n] = i
        /\ Cardinality(P) \in Nat /\ Cardinality(P) <= Cardinality(DOMAIN s)
  BY ONLY <1>2, P \in SUBSET DOMAIN s, AtPlaces
<1>. PICK c : c = Cardinality(P)
  OBVIOUS
<1>. PICK u : u = At(s, P)
  OBVIOUS
<1>4. /\ u = [n \in 1..c |-> s[place[n]]] /\ place \in [1..c -> P] /\ c \in Nat
      /\ \A m, n \in 1..c : m < n => place[m] < place[n]
      /\ \A i \in P : \E n \in 1..c : place[n] = i
  BY ONLY <1>3, u = At(s, P), c = Cardinality(P), place \in [1..Cardinality(P) -> P]
<1>5. \A n \in 1..c : s[place[n]] \in M
  BY ONLY <1>1, <1>4, P \in SUBSET DOMAIN s
<1>6. u \in Seq(M)
  BY ONLY <1>4, <1>5
<1>7. Range(u) = {s[i] : i \in P}
  BY ONLY <1>4 DEF Range
<1>8. Rising(s) => Rising(u)
  BY ONLY <1>4, P \in SUBSET DOMAIN s DEF Rising
<1>. QED BY <1>6, <1>7, <1>8
-----------------------------------------------------------------------------
(* Types *)

LEMMA AcknowledgeTyped ==
  ASSUME NEW f \in Flow, NEW n \in 0..MaxSequence
  PROVE  /\ Acknowledge(f, n) \in Flow
         /\ \A k \in Range(f.sent) : k > n => k \in Range(Acknowledge(f, n).sent)
         /\ Acknowledge(f, n).acknowledged >= n
         /\ n <= f.acknowledged => Acknowledge(f, n) = f
         /\ n > f.acknowledged => Acknowledge(f, n).acknowledged = n
<1>. DEFINE P == {i \in DOMAIN f.sent : f.sent[i] > n}
            left == At(f.sent, P)
<1>1. f.sent \in Seq(1..MaxSequence) /\ f.acknowledged \in 0..MaxSequence /\ MaxSequence \in Nat
  BY FlowAssumption DEF Flow
<1>2. left \in Seq(1..MaxSequence) /\ Range(left) = {f.sent[i] : i \in P}
  BY ONLY <1>1, Selected, P \in SUBSET DOMAIN f.sent
<1>3. \A k \in Range(f.sent) : k > n => k \in Range(left)
  BY ONLY <1>2 DEF Range
<1>4. Acknowledge(f, n) = IF n <= f.acknowledged THEN f
                          ELSE [acknowledged |-> n, sent |-> left, unacknowledged |-> Len(left)]
  BY DEF Acknowledge
<1>5. Len(left) \in Nat
  BY ONLY <1>2
<1>. HIDE DEF left, P
<1>6. CASE n <= f.acknowledged
  BY <1>1, <1>4, <1>6
<1>7. CASE ~(n <= f.acknowledged)
  BY <1>1, <1>2, <1>3, <1>4, <1>5, <1>7 DEF Flow
<1>. QED BY <1>6, <1>7

LEMMA FrameTypes ==
  /\ Text \in Frames
  /\ \A t \in Terminals : Ended(t) \in Frames
  /\ \A t \in Terminals, n \in 0..MaxSequence :
       Data(t, n) \in Frames /\ Fence(t, n) \in Frames /\ Result(t, n) \in Frames
<1>1. 0 \in 0..MaxSequence
  BY FlowAssumption
<1>. QED BY <1>1 DEF Frames, Text, Ended, Data, Fence, Result

LEMMA PutTyped ==
  ASSUME TypeOK, LanesSound, NEW f \in Frames
  PROVE  /\ Queued(f) \in QueuedFrames
         /\ PutPriority(f) => {priority', reliable'} \subseteq Seq(QueuedFrames)
         /\ PutReliable(f) => {priority', reliable'} \subseteq Seq(QueuedFrames)
         /\ PutLegacy(f) => legacy' \in Seq(QueuedFrames)
<1>1. Queued(f) \in QueuedFrames
  BY DEF Queued, QueuedFrames, LanesSound
<1>. PICK m \in QueuedFrames : m = Queued(f)
  BY <1>1
<1>2. /\ priority \in Seq(QueuedFrames) /\ reliable \in Seq(QueuedFrames)
      /\ legacy \in Seq(QueuedFrames)
  BY DEF TypeOK
<1>3. /\ Append(priority, m) \in Seq(QueuedFrames) /\ Append(reliable, m) \in Seq(QueuedFrames)
      /\ Append(legacy, m) \in Seq(QueuedFrames)
  BY ONLY <1>2, m \in QueuedFrames, Added
<1>. QED BY ONLY <1>1, <1>2, <1>3, m = Queued(f) DEF PutPriority, PutReliable, PutLegacy

LEMMA FenceTyped ==
  ASSUME TypeOK, LanesSound, NEW t \in DOMAIN flow, FenceOff(t), DOMAIN flow \subseteq DOMAIN flow'
  PROVE  /\ {priority', reliable'} \subseteq Seq(QueuedFrames)
         /\ replayRequired' = replayRequired \cup {t}
         /\ close' \in {close, "1013"}
<1>1. Fence(t, flow[t].acknowledged) \in Frames
  <2>1. t \in Terminals /\ flow[t].acknowledged \in 0..MaxSequence
    BY DEF TypeOK, Flow
  <2>. QED BY <2>1, FrameTypes
<1>2. PutReliable(Fence(t, flow[t].acknowledged)) => {priority', reliable'} \subseteq Seq(QueuedFrames)
  BY <1>1, PutTyped
<1>3. controlLanes' = controlLanes => {priority', reliable'} \subseteq Seq(QueuedFrames)
  BY DEF TypeOK, controlLanes
<1>. QED BY <1>2, <1>3 DEF FenceOff

LEMMA NotifyTyped ==
  ASSUME TypeOK
  PROVE  /\ NotifyOne => permit' \in BOOLEAN /\ notified' \in BOOLEAN
         /\ NotifyWaiters => permit' \in BOOLEAN /\ notified' \in BOOLEAN
BY DEF TypeOK, NotifyOne, NotifyWaiters

LEMMA ReserveTyped ==
  ASSUME NEW f \in Flow, NEW n \in 1..MaxSequence
  PROVE  /\ Reserve(f, n) \in Flow /\ Range(Reserve(f, n).sent) = Range(f.sent) \cup {n}
         /\ Reserve(f, n).acknowledged = f.acknowledged
<1>1. f.sent \in Seq(1..MaxSequence) /\ f.unacknowledged \in Nat /\ f.acknowledged \in 0..MaxSequence
      /\ f = [acknowledged |-> f.acknowledged, sent |-> f.sent, unacknowledged |-> f.unacknowledged]
  BY DEF Flow
<1>. PICK M : M = 1..MaxSequence
  OBVIOUS
<1>. PICK s : s = f.sent
  OBVIOUS
<1>2. s \in Seq(M) /\ n \in M
  BY ONLY <1>1, s = f.sent, M = 1..MaxSequence, n \in 1..MaxSequence
<1>. PICK u : u = Append(s, n)
  OBVIOUS
<1>3. u \in Seq(M) /\ Range(u) = Range(s) \cup {n}
  BY ONLY <1>2, u = Append(s, n), Added
<1>4. Reserve(f, n) = [f EXCEPT !.sent = u, !.unacknowledged = f.unacknowledged + 1]
  BY ONLY u = Append(s, n), s = f.sent DEF Reserve
<1>5. Reserve(f, n) = [acknowledged |-> f.acknowledged, sent |-> u,
                       unacknowledged |-> f.unacknowledged + 1]
  BY ONLY <1>1, <1>4
<1>. QED BY ONLY <1>1, <1>3, <1>5, M = 1..MaxSequence, s = f.sent DEF Flow

LEMMA SetFlowTyped ==
  ASSUME TypeOK, NEW t \in Terminals, NEW f \in Flow, SetFlow(t, f)
  PROVE  /\ DOMAIN flow' = DOMAIN flow \cup {t} /\ DOMAIN flow' \subseteq Terminals
         /\ \A u \in DOMAIN flow' : flow'[u] \in Flow
         /\ flow'[t] = f /\ \A u \in DOMAIN flow' \ {t} : flow'[u] = flow[u]
BY DEF TypeOK, SetFlow

LEMMA WithoutTyped ==
  ASSUME TypeOK, NEW t \in Terminals, flow' = Without(t)
  PROVE  /\ DOMAIN flow' = DOMAIN flow \ {t} /\ DOMAIN flow' \subseteq Terminals
         /\ \A u \in DOMAIN flow' : flow'[u] \in Flow /\ flow'[u] = flow[u]
BY DEF TypeOK, Without

LEMMA AcknowledgedTyped ==
  ASSUME TypeOK, NEW t \in DOMAIN flow, NEW n \in 0..MaxSequence,
         flow' = [flow EXCEPT ![t] = Acknowledge(@, n)]
  PROVE  /\ DOMAIN flow' = DOMAIN flow /\ DOMAIN flow' \subseteq Terminals
         /\ \A u \in DOMAIN flow' : flow'[u] \in Flow
         /\ flow'[t] = Acknowledge(flow[t], n)
         /\ \A u \in DOMAIN flow' \ {t} : flow'[u] = flow[u]
<1>1. flow[t] \in Flow
  BY DEF TypeOK
<1>2. PICK f : f = Acknowledge(flow[t], n)
  OBVIOUS
<1>3. f \in Flow
  BY <1>1, <1>2, AcknowledgeTyped
<1>4. flow' = [flow EXCEPT ![t] = f]
  BY <1>2
<1>. QED BY <1>2, <1>3, <1>4 DEF TypeOK

LEMMA WithdrawTyped ==
  ASSUME TypeOK, NEW t, NEW n, Withdraw(t, n)
  PROVE  /\ legacy' \in Seq(QueuedFrames)
         /\ Range(legacy') = {q \in Range(legacy) : ~Superseded(q, t, n)}
         /\ Rising(legacy) => Rising(legacy')
<1>. DEFINE gone == {i \in DOMAIN legacy : Superseded(legacy[i], t, n)}
<1>1. legacy \in Seq(QueuedFrames)
  BY DEF TypeOK
<1>2. legacy' = At(legacy, DOMAIN legacy \ gone)
  BY DEF Withdraw, DiscardTerminalThrough
<1>3. PICK P : P = DOMAIN legacy \ gone
  OBVIOUS
<1>4. P \in SUBSET DOMAIN legacy
  BY <1>3
<1>5. /\ At(legacy, P) \in Seq(QueuedFrames) /\ Range(At(legacy, P)) = {legacy[i] : i \in P}
      /\ Rising(legacy) => Rising(At(legacy, P))
  BY ONLY <1>1, <1>4, Selected
<1>6. {legacy[i] : i \in P} = {q \in Range(legacy) : ~Superseded(q, t, n)}
  BY ONLY <1>3 DEF Range
<1>. QED BY ONLY <1>2, <1>3, <1>5, <1>6

\* The terminal, the sequence and the kind of what is queued.
LEMMA QueuedTyped ==
  ASSUME TypeOK
  PROVE  /\ \A lane \in {priority, reliable, legacy} : \A q \in Range(lane) :
              /\ q \in QueuedFrames /\ q.frame \in Frames /\ q.order \in Nat
              /\ q.frame.seq \in 0..MaxSequence
              /\ q.frame.kind # "text" => q.frame.terminal \in Terminals
<1>1. \A lane \in {priority, reliable, legacy} : \A q \in Range(lane) : q \in QueuedFrames
  <2>. SUFFICES ASSUME NEW lane \in {priority, reliable, legacy}
                PROVE  \A q \in Range(lane) : q \in QueuedFrames
    OBVIOUS
  <2>1. lane \in Seq(QueuedFrames)
    BY DEF TypeOK
  <2>2. DOMAIN lane = 1..Len(lane) /\ \A i \in 1..Len(lane) : lane[i] \in QueuedFrames
    BY <2>1
  <2>. QED BY ONLY <2>2 DEF Range
<1>2. \A f \in Frames : f.seq \in 0..MaxSequence /\ (f.kind # "text" => f.terminal \in Terminals)
  BY FlowAssumption DEF Frames, Text
<1>. QED BY <1>1, <1>2 DEF QueuedFrames

LEMMA EnqueueTyped ==
  ASSUME TypeOK, LanesSound, NEW t \in Terminals, NEW n \in 1..MaxSequence,
         EnqueueTerminal(t, n)
  PROVE  /\ {priority', reliable', legacy'} \subseteq Seq(QueuedFrames)
         /\ DOMAIN flow' = DOMAIN flow /\ \A u \in DOMAIN flow' : flow'[u] \in Flow
         /\ replayRequired' \subseteq replayRequired \cup {t} /\ replayRequired' \subseteq DOMAIN flow
         /\ close' \in {close, "1013"}
         /\ permit' \in BOOLEAN /\ notified' \in BOOLEAN
         /\ out' = out
<1>1. CASE Refusing(t) \/ t \notin DOMAIN flow
  <2>1. UNCHANGED <<mailboxVars, flow, replayRequired, close, permit, notified>>
    BY <1>1 DEF EnqueueTerminal
  <2>. QED BY <2>1 DEF TypeOK, mailboxVars, controlLanes, legacyLane
<1>2. CASE t \in DOMAIN flow /\ Protocol = 2 /\ ~CanReserve(flow[t], n) /\ ~Refusing(t)
  <2>1. FenceOff(t) /\ NotifyOne /\ UNCHANGED <<flow, legacyLane, semanticLane, out>>
    BY <1>2 DEF EnqueueTerminal
  <2>2. /\ {priority', reliable'} \subseteq Seq(QueuedFrames)
        /\ replayRequired' = replayRequired \cup {t} /\ close' \in {close, "1013"}
    BY <1>2, <2>1, FenceTyped
  <2>. QED BY <1>2, <2>1, <2>2, NotifyTyped DEF TypeOK, legacyLane
<1>3. CASE t \in DOMAIN flow /\ (Protocol = 2 => CanReserve(flow[t], n)) /\ ~Refusing(t)
  <2>1. /\ IF Protocol = 2 THEN SetFlow(t, Reserve(flow[t], n)) ELSE UNCHANGED flow
        /\ NotifyOne /\ out' = out
    BY <1>3 DEF EnqueueTerminal
  <2>2. flow[t] \in Flow
    BY <1>3 DEF TypeOK
  <2>3. Reserve(flow[t], n) \in Flow
    BY <2>2, ReserveTyped
  <2>4. DOMAIN flow' = DOMAIN flow /\ \A u \in DOMAIN flow' : flow'[u] \in Flow
    BY <1>3, <2>1, <2>3, SetFlowTyped DEF TypeOK
  <2>5. permit' \in BOOLEAN /\ notified' \in BOOLEAN
    BY <2>1, NotifyTyped
  <2>6. CASE LegacyFits(Data(t, n))
    <3>1. PutLegacy(Data(t, n)) /\ UNCHANGED <<controlLanes, replayRequired, close>>
      BY <1>3, <2>6 DEF EnqueueTerminal
    <3>2. Data(t, n) \in Frames
      BY FrameTypes, FlowAssumption
    <3>3. legacy' \in Seq(QueuedFrames)
      BY <3>1, <3>2, PutTyped
    <3>. QED BY <2>1, <2>4, <2>5, <3>1, <3>3 DEF TypeOK, controlLanes
  <2>7. CASE ~LegacyFits(Data(t, n))
    <3>1. FenceOff(t) /\ UNCHANGED legacyLane
      BY <1>3, <2>7 DEF EnqueueTerminal
    <3>2. /\ {priority', reliable'} \subseteq Seq(QueuedFrames)
          /\ replayRequired' = replayRequired \cup {t} /\ close' \in {close, "1013"}
      BY <1>3, <2>4, <3>1, FenceTyped
    <3>. QED BY <1>3, <2>1, <2>4, <2>5, <3>1, <3>2 DEF TypeOK, legacyLane
  <2>. QED BY <2>6, <2>7
<1>. QED BY <1>1, <1>2, <1>3 DEF EnqueueTerminal

LEMMA PopTyped ==
  ASSUME TypeOK, LanesSound, PopNext
  PROVE  /\ {priority', reliable', legacy'} \subseteq Seq(QueuedFrames)
         /\ out' \in Frames
         /\ UNCHANGED nextOrder /\ DOMAIN semantic' = {}
         /\ \/ priority # <<>> /\ out' = Head(priority).frame /\ priority' = Tail(priority)
               /\ UNCHANGED <<reliable, legacy>>
            \/ priority = <<>> /\ reliable # <<>> /\ out' = Head(reliable).frame
               /\ reliable' = Tail(reliable) /\ UNCHANGED <<priority, legacy>>
            \/ priority = <<>> /\ legacy # <<>> /\ out' = Head(legacy).frame
               /\ legacy' = Tail(legacy) /\ UNCHANGED <<priority, reliable>>
               /\ Earliest(Head(legacy))
<1>1. DOMAIN semantic = {}
  BY DEF LanesSound
<1>2. \A lane \in {priority, reliable, legacy} : lane # <<>> =>
        Head(lane) \in QueuedFrames /\ Tail(lane) \in Seq(QueuedFrames) /\ Head(lane).frame \in Frames
  <2>. SUFFICES ASSUME NEW lane \in {priority, reliable, legacy}, lane # <<>>
                PROVE  /\ Head(lane) \in QueuedFrames /\ Tail(lane) \in Seq(QueuedFrames)
                       /\ Head(lane).frame \in Frames
    OBVIOUS
  <2>1. lane \in Seq(QueuedFrames)
    BY DEF TypeOK
  <2>2. Head(lane) \in QueuedFrames /\ Tail(lane) \in Seq(QueuedFrames)
    BY <2>1, Taken
  <2>. QED BY <2>2 DEF QueuedFrames
<1>3. CASE PopPriority
  BY <1>1, <1>2, <1>3 DEF PopPriority, TypeOK, legacyLane, semanticLane
<1>4. CASE priority = <<>> /\ PopReliable
  BY <1>1, <1>2, <1>4 DEF PopReliable, TypeOK, legacyLane, semanticLane
<1>5. CASE priority = <<>> /\ PopLegacy
  BY <1>1, <1>2, <1>5 DEF PopLegacy, TypeOK, controlLanes, semanticLane
<1>6. ~PopSemantic
  BY <1>1 DEF PopSemantic
<1>. QED BY <1>3, <1>4, <1>5, <1>6 DEF PopNext

LEMMA TypePreserved ==
  ASSUME TypeOK, LanesSound, AttachSound, [Next]_vars
  PROVE  TypeOK'
<1>0. CASE UNCHANGED vars
  BY <1>0 DEF TypeOK, vars, mailboxVars, controlLanes, legacyLane, semanticLane, flowVars,
              endVars, writerVars, taskVars, boundVars
<1>1. ASSUME NEW t \in Terminals, Produce(t) PROVE TypeOK'
  <2>1. produced[t] \in 0..MaxSequence /\ produced[t] + 1 \in 1..MaxSequence
    BY <1>1, FlowAssumption DEF Produce, TypeOK
  <2>2. produced' \in [Terminals -> 0..MaxSequence]
    BY <1>1, <2>1 DEF Produce, TypeOK
  <2>3. CASE t \in subscribed
    <3>1. EnqueueTerminal(t, produced[t] + 1)
      BY <1>1, <2>3 DEF Produce
    <3>2. PICK n \in 1..MaxSequence : n = produced[t] + 1
      BY <2>1
    <3>3. EnqueueTerminal(t, n)
      BY <3>1, <3>2
    <3>. QED BY <1>1, <2>2, <3>3, EnqueueTyped DEF Produce, TypeOK, taskVars
  <2>4. CASE t \notin subscribed
    BY <1>1, <2>2, <2>4 DEF Produce, TypeOK, mailboxVars, controlLanes, legacyLane, taskVars
  <2>. QED BY <2>3, <2>4
<1>2. ASSUME NEW t \in Terminals, Detach(t) PROVE TypeOK'
  <2>1. DOMAIN flow' = DOMAIN flow \ {t} /\ \A u \in DOMAIN flow' : flow'[u] \in Flow
    BY <1>2, WithoutTyped DEF Detach
  <2>. QED BY <1>2, <2>1, NotifyTyped DEF Detach, TypeOK, mailboxVars, controlLanes, legacyLane, endVars
<1>3. ASSUME NEW t \in Terminals, NEW n \in 0..MaxSequence, BeginAttach(t, n) PROVE TypeOK'
  <2>1. NewFlow(n) \in Flow
    BY DEF NewFlow, Flow
  <2>2. DOMAIN flow' = DOMAIN flow \cup {t} /\ \A u \in DOMAIN flow' : flow'[u] \in Flow
    BY <1>3, <2>1, SetFlowTyped DEF BeginAttach
  <2>. QED BY <1>3, <2>2 DEF BeginAttach, TypeOK, mailboxVars, controlLanes, legacyLane, endVars, writerVars
<1>4. ASSUME NEW t \in Terminals, NEW n \in 0..MaxSequence, ReceiveAck(t, n) PROVE TypeOK'
  <2>1. DOMAIN flow' = DOMAIN flow /\ \A u \in DOMAIN flow' : flow'[u] \in Flow
    BY <1>4, AcknowledgedTyped DEF ReceiveAck
  <2>. QED BY <1>4, <2>1 DEF ReceiveAck, TypeOK, mailboxVars, controlLanes, legacyLane, endVars, writerVars,
                              taskVars
<1>5. CASE Snapshot
  BY <1>5 DEF Snapshot, TypeOK, mailboxVars, controlLanes, legacyLane, flowVars, endVars, writerVars
<1>6. CASE FinishAttach
  <2>. DEFINE t == request.terminal
              n == request.snapshot
              f == Result(t, n)
  <2>1. t \in attaching /\ t \in DOMAIN flow /\ t \in Terminals /\ n \in 0..MaxSequence
    BY <1>6, FlowAssumption DEF FinishAttach, AttachSound, TypeOK
  <2>2. f \in Frames
    BY <2>1, FrameTypes
  <2>3. permit' \in BOOLEAN /\ notified' \in BOOLEAN
    BY <1>6, NotifyTyped DEF FinishAttach
  <2>4. CASE ResultOverflow(f)
    BY <1>6, <2>3, <2>4 DEF FinishAttach, ResultOverflow, TypeOK, mailboxVars, controlLanes, legacyLane,
                            flowVars
  <2>5. CASE ~ResultOverflow(f)
    <3>1. /\ PutPriority(f) /\ Withdraw(t, n)
          /\ flow' = [flow EXCEPT ![t] = Acknowledge(@, n)]
          /\ attaching' = attaching \ {t}
          /\ task' = "running"
          /\ UNCHANGED <<replayRequired, semanticLane, out, close>>
      BY <1>6, <2>5 DEF FinishAttach, AttachResult
    <3>2. {priority', reliable', legacy'} \subseteq Seq(QueuedFrames)
      BY <2>2, <3>1, PutTyped, WithdrawTyped
    <3>3. DOMAIN flow' = DOMAIN flow /\ \A u \in DOMAIN flow' : flow'[u] \in Flow
      BY <2>1, <3>1, AcknowledgedTyped
    <3>. QED BY <1>6, <2>3, <3>1, <3>2, <3>3 DEF FinishAttach, TypeOK
  <2>. QED BY <2>4, <2>5
<1>7. CASE FailAttach
  <2>. DEFINE t == request.terminal
  <2>1. t \in Terminals
    BY <1>7 DEF FailAttach, AttachSound, TypeOK
  <2>2. permit' \in BOOLEAN /\ notified' \in BOOLEAN
    BY <1>7, NotifyTyped DEF FailAttach
  <2>3. CASE ResultOverflow(Ended(t))
    BY <1>7, <2>2, <2>3 DEF FailAttach, ResultOverflow, TypeOK, mailboxVars, controlLanes, legacyLane,
                            flowVars
  <2>4. CASE ~ResultOverflow(Ended(t))
    <3>1. /\ PutPriority(Ended(t)) /\ flow' = Without(t)
          /\ replayRequired' = replayRequired \ {t} /\ attaching' = attaching \ {t}
          /\ task' = "running" /\ UNCHANGED <<legacyLane, semanticLane, out, close>>
      BY <1>7, <2>4 DEF FailAttach
    <3>2. {priority', reliable'} \subseteq Seq(QueuedFrames)
      BY <2>1, <3>1, PutTyped, FrameTypes
    <3>3. DOMAIN flow' = DOMAIN flow \ {t} /\ \A u \in DOMAIN flow' : flow'[u] \in Flow
      BY <2>1, <3>1, WithoutTyped
    <3>. QED BY <1>7, <2>2, <3>1, <3>2, <3>3 DEF FailAttach, TypeOK, legacyLane
  <2>. QED BY <2>3, <2>4
<1>8. ASSUME NEW f \in Frames, EnqueueReliable(f) PROVE TypeOK'
  <2>1. PutReliable(f) => {priority', reliable'} \subseteq Seq(QueuedFrames)
    BY PutTyped
  <2>2. permit' \in BOOLEAN /\ notified' \in BOOLEAN
    BY <1>8, NotifyTyped DEF EnqueueReliable, TypeOK
  <2>3. {priority', reliable', legacy'} \subseteq Seq(QueuedFrames) /\ out' = out
    BY <1>8, <2>1 DEF EnqueueReliable, TypeOK, mailboxVars, controlLanes, legacyLane
  <2>4. close' \in {close, "1013"} /\ task' \in {"exiting", "running"}
    BY <1>8 DEF EnqueueReliable
  <2>. QED BY <1>8, <2>2, <2>3, <2>4 DEF EnqueueReliable, TypeOK, flowVars
<1>9. CASE ForwardEvent
  BY <1>8, <1>9, FrameTypes DEF ForwardEvent
<1>10. CASE Reply
  <2>1. Ended(request.terminal) \in Frames
    BY <1>10, FrameTypes DEF Reply, AttachSound
  <2>. QED BY <1>8, <1>10, <2>1 DEF Reply
<1>11. CASE Close
  BY <1>11, NotifyTyped DEF Close, TypeOK, mailboxVars, controlLanes, legacyLane, flowVars
<1>12. CASE PeerCloses \/ Stop \/ Join
  BY <1>12, NotifyTyped DEF PeerCloses, Stop, Join, TypeOK, mailboxVars, controlLanes, legacyLane, flowVars,
              endVars, writerVars, taskVars
<1>13. CASE Arm \/ Park \/ Wake \/ Sent \/ WriterEnds
  BY <1>13 DEF Arm, Park, Wake, Sent, WriterEnds, TypeOK, mailboxVars, controlLanes, legacyLane, flowVars,
              endVars, taskVars
<1>14. CASE Look
  <2>1. CASE PopFrame
    <3>1. /\ {priority', reliable', legacy'} \subseteq Seq(QueuedFrames) /\ out' \in Frames
      BY <2>1, PopTyped DEF PopFrame
    <3>2. expected' \in [Terminals -> 0..(MaxSequence + 1)]
      <4>1. out'.seq + 1 \in 0..(MaxSequence + 1) /\ 0 \in 0..(MaxSequence + 1)
        BY <3>1, FlowAssumption DEF Frames, Text
      <4>. QED BY <2>1, <4>1 DEF PopFrame, Expect, TypeOK
    <3>. QED BY <1>14, <2>1, <3>1, <3>2 DEF Look, PopFrame, TypeOK, flowVars, endVars, taskVars
  <2>2. CASE TakeClose \/ FindNothing
    BY <1>14, <2>2 DEF Look, TakeClose, FindNothing, TypeOK, mailboxVars, controlLanes, legacyLane, flowVars,
              endVars, taskVars
  <2>. QED BY <1>14, <2>1, <2>2 DEF Look
<1>. QED BY <1>0, <1>1, <1>2, <1>3, <1>4, <1>5, <1>6, <1>7, <1>9, <1>10, <1>11, <1>12, <1>13, <1>14 DEF Next
-----------------------------------------------------------------------------
(* The lanes *)

\* What may happen to the lanes in a step: entries leave, and one may come, numbered
\* next_order.
LEMMA LanesFrom ==
  ASSUME TypeOK, LanesSound, TypeOK',
         nextOrder' \in {nextOrder, nextOrder + 1}, DOMAIN semantic' = {},
         Rising(priority)', Rising(reliable)', Rising(legacy)',
         \A t \in Terminals : produced[t] <= produced'[t],
         \A q \in Range(priority') : \/ q \in Range(priority)
                                     \/ /\ q.order = nextOrder /\ nextOrder' = nextOrder + 1
                                        /\ q.frame.kind \in {"result", "ended"},
         \A q \in Range(reliable') : \/ q \in Range(reliable)
                                     \/ /\ q.order = nextOrder /\ nextOrder' = nextOrder + 1
                                        /\ q.frame.kind \in {"text", "fence", "ended"},
         \A q \in Range(legacy') : \/ q \in Range(legacy)
                                   \/ /\ q.order = nextOrder /\ nextOrder' = nextOrder + 1
                                      /\ q.frame.kind = "data" /\ q.frame.terminal \in Terminals
                                      /\ q.frame.seq = produced[q.frame.terminal] + 1
                                      /\ q.frame.seq = produced'[q.frame.terminal]
  PROVE  LanesSound'
<1>1. nextOrder \in Nat /\ nextOrder' \in Nat
  BY DEF LanesSound
<1>2. \A q \in Range(priority') : q.order < nextOrder' /\ q.frame.kind \in {"result", "ended"}
  BY <1>1, QueuedTyped DEF LanesSound
<1>3. \A q \in Range(reliable') : q.order < nextOrder' /\ q.frame.kind \in {"text", "fence", "ended"}
  BY <1>1, QueuedTyped DEF LanesSound
<1>4. \A q \in Range(legacy) :
        /\ q.order \in Nat /\ q.order < nextOrder /\ q.frame.kind = "data" /\ q.frame.terminal \in Terminals
        /\ q.frame.seq \in Nat /\ q.frame.seq <= produced[q.frame.terminal]
  <2>1. \A q \in Range(legacy) : q.frame.kind = "data" /\ q.order < nextOrder
                                 /\ q.frame.seq <= produced[q.frame.terminal]
    BY DEF LanesSound
  <2>2. \A q \in Range(legacy) : q.order \in Nat /\ q.frame.seq \in 0..MaxSequence
                                 /\ (q.frame.kind # "text" => q.frame.terminal \in Terminals)
    BY QueuedTyped
  <2>. QED BY <2>1, <2>2
<1>5. \A t \in Terminals : produced[t] \in Nat /\ produced'[t] \in Nat /\ produced[t] <= produced'[t]
  BY DEF TypeOK
<1>6. \A q \in Range(legacy') : /\ q.order < nextOrder' /\ q.frame.kind = "data"
                                /\ q.frame.seq <= produced'[q.frame.terminal]
  BY <1>1, <1>4, <1>5
<1>7. \A q, r \in Range(legacy) :
        q.frame.terminal = r.frame.terminal /\ q.order < r.order => q.frame.seq < r.frame.seq
  BY DEF LanesSound
<1>8. ASSUME NEW q \in Range(legacy'), NEW r \in Range(legacy'),
             q.frame.terminal = r.frame.terminal, q.order < r.order
      PROVE  q.frame.seq < r.frame.seq
  <2>1. CASE q \in Range(legacy) /\ r \in Range(legacy)
    BY ONLY <1>7, <1>8, <2>1
  <2>2. CASE q \notin Range(legacy)
    BY <1>1, <1>4, <1>8, <2>2
  <2>3. CASE q \in Range(legacy) /\ r \notin Range(legacy)
    BY <1>4, <1>5, <1>8, <2>3
  <2>. QED BY <2>1, <2>2, <2>3
<1>. QED BY <1>1, <1>2, <1>3, <1>6, <1>8 DEF LanesSound

\* A lane to which an entry is added.
LEMMA LanePut ==
  ASSUME NEW lane \in Seq(QueuedFrames), NEW f \in Frames, nextOrder \in Nat, Rising(lane),
         \A q \in Range(lane) : q.order < nextOrder
  PROVE  /\ Range(Append(lane, Queued(f))) = Range(lane) \cup {Queued(f)}
         /\ Rising(Append(lane, Queued(f)))
<1>1. Queued(f) \in QueuedFrames /\ Queued(f).order = nextOrder
  BY DEF Queued, QueuedFrames
<1>. PICK m \in QueuedFrames : m = Queued(f)
  BY <1>1
<1>. QED BY <1>1, m = Queued(f), Added, RisesAdded

LEMMA LanesPut ==
  ASSUME TypeOK, LanesSound, NEW f \in Frames
  PROVE  /\ PutPriority(f) => /\ Range(priority') = Range(priority) \cup {Queued(f)}
                              /\ Rising(priority)'
         /\ PutReliable(f) => /\ Range(reliable') = Range(reliable) \cup {Queued(f)}
                              /\ Rising(reliable)'
         /\ PutLegacy(f) => /\ Range(legacy') = Range(legacy) \cup {Queued(f)}
                            /\ Rising(legacy)'
<1>1. /\ priority \in Seq(QueuedFrames) /\ reliable \in Seq(QueuedFrames)
      /\ legacy \in Seq(QueuedFrames) /\ nextOrder \in Nat
  BY DEF TypeOK, LanesSound
<1>2. /\ Rising(priority) /\ \A q \in Range(priority) : q.order < nextOrder
      /\ Rising(reliable) /\ \A q \in Range(reliable) : q.order < nextOrder
      /\ Rising(legacy) /\ \A q \in Range(legacy) : q.order < nextOrder
  BY DEF LanesSound
<1>3. ASSUME PutPriority(f) PROVE Range(priority') = Range(priority) \cup {Queued(f)} /\ Rising(priority)'
  BY <1>1, <1>2, <1>3, LanePut DEF PutPriority
<1>4. ASSUME PutReliable(f) PROVE Range(reliable') = Range(reliable) \cup {Queued(f)} /\ Rising(reliable)'
  BY <1>1, <1>2, <1>4, LanePut DEF PutReliable
<1>5. ASSUME PutLegacy(f) PROVE Range(legacy') = Range(legacy) \cup {Queued(f)} /\ Rising(legacy)'
  BY <1>1, <1>2, <1>5, LanePut DEF PutLegacy
<1>. QED BY <1>3, <1>4, <1>5

LEMMA QueuedIs ==
  ASSUME NEW f PROVE Queued(f).frame = f /\ Queued(f).order = nextOrder
BY DEF Queued

LEMMA LanesStay ==
  ASSUME TypeOK, LanesSound, TypeOK', UNCHANGED <<priority, reliable, legacy, semantic, nextOrder>>,
         \A t \in Terminals : produced[t] <= produced'[t]
  PROVE  LanesSound'
BY LanesFrom DEF LanesSound, Rising

LEMMA ReliablePut ==
  ASSUME TypeOK, LanesSound, TypeOK', UNCHANGED <<legacy, semantic>>,
         NEW f \in Frames, f.kind \in {"text", "fence", "ended"}, PutReliable(f),
         \A t \in Terminals : produced[t] <= produced'[t]
  PROVE  LanesSound'
<1>1. Range(reliable') = Range(reliable) \cup {Queued(f)} /\ Rising(reliable)'
  BY LanesPut
<1>2. Queued(f).frame = f /\ Queued(f).order = nextOrder
  BY QueuedIs
<1>3. UNCHANGED priority /\ nextOrder' = nextOrder + 1
  BY DEF PutReliable
<1>. QED BY <1>1, <1>2, <1>3, LanesFrom DEF LanesSound, Rising

LEMMA PriorityPut ==
  ASSUME TypeOK, LanesSound, TypeOK', UNCHANGED <<semantic, produced>>,
         NEW f \in Frames, f.kind \in {"result", "ended"}, PutPriority(f),
         Range(legacy') \subseteq Range(legacy), Rising(legacy)'
  PROVE  LanesSound'
<1>1. Range(priority') = Range(priority) \cup {Queued(f)} /\ Rising(priority)'
  BY LanesPut
<1>2. Queued(f).frame = f /\ Queued(f).order = nextOrder
  BY QueuedIs
<1>3. UNCHANGED reliable /\ nextOrder' = nextOrder + 1
  BY DEF PutPriority
<1>4. \A t \in Terminals : produced[t] <= produced'[t]
  BY DEF TypeOK
<1>. QED BY <1>1, <1>2, <1>3, <1>4, LanesFrom DEF LanesSound, Rising

LEMMA LegacyPut ==
  ASSUME TypeOK, LanesSound, TypeOK', UNCHANGED <<priority, reliable, semantic>>,
         NEW t \in Terminals, produced' = [produced EXCEPT ![t] = @ + 1],
         PutLegacy(Data(t, produced[t] + 1))
  PROVE  LanesSound'
<1>1. produced[t] + 1 \in 0..MaxSequence /\ produced'[t] = produced[t] + 1
      /\ \A u \in Terminals : produced[u] <= produced'[u]
  BY DEF TypeOK
<1>2. PICK f \in Frames : f = Data(t, produced[t] + 1)
  BY <1>1, FrameTypes
<1>3. f.kind = "data" /\ f.terminal = t /\ f.seq = produced[t] + 1
  BY <1>2 DEF Data
<1>4. PutLegacy(f)
  BY <1>2
<1>5. Range(legacy') = Range(legacy) \cup {Queued(f)} /\ Rising(legacy)'
  BY <1>4, LanesPut
<1>6. Queued(f).frame = f /\ Queued(f).order = nextOrder
  BY QueuedIs
<1>7. nextOrder' = nextOrder + 1
  BY <1>4 DEF PutLegacy
<1>. QED BY <1>1, <1>3, <1>5, <1>6, <1>7, LanesFrom DEF LanesSound, Rising

\* What pop_next takes is the first entry of one lane.
LEMMA LanesPop ==
  ASSUME TypeOK, LanesSound, TypeOK', PopNext, UNCHANGED produced
  PROVE  LanesSound'
<1>1. /\ UNCHANGED nextOrder /\ DOMAIN semantic' = {}
      /\ \/ priority # <<>> /\ priority' = Tail(priority) /\ UNCHANGED <<reliable, legacy>>
         \/ reliable # <<>> /\ reliable' = Tail(reliable) /\ UNCHANGED <<priority, legacy>>
         \/ legacy # <<>> /\ legacy' = Tail(legacy) /\ UNCHANGED <<priority, reliable>>
  BY PopTyped
<1>2. /\ priority \in Seq(QueuedFrames) /\ reliable \in Seq(QueuedFrames)
      /\ legacy \in Seq(QueuedFrames)
  BY DEF TypeOK
<1>3. Rising(priority) /\ Rising(reliable) /\ Rising(legacy)
  BY DEF LanesSound
<1>4. \A t \in Terminals : produced[t] <= produced'[t]
  BY DEF TypeOK
<1>5. /\ Rising(priority)' /\ Rising(reliable)' /\ Rising(legacy)'
      /\ Range(priority') \subseteq Range(priority) /\ Range(reliable') \subseteq Range(reliable)
      /\ Range(legacy') \subseteq Range(legacy)
  <2>1. CASE priority # <<>> /\ priority' = Tail(priority) /\ UNCHANGED <<reliable, legacy>>
    BY <1>2, <1>3, <2>1, Taken, RisesTaken DEF Rising
  <2>2. CASE reliable # <<>> /\ reliable' = Tail(reliable) /\ UNCHANGED <<priority, legacy>>
    BY <1>2, <1>3, <2>2, Taken, RisesTaken DEF Rising
  <2>3. CASE legacy # <<>> /\ legacy' = Tail(legacy) /\ UNCHANGED <<priority, reliable>>
    BY <1>2, <1>3, <2>3, Taken, RisesTaken DEF Rising
  <2>. QED BY <1>1, <2>1, <2>2, <2>3
<1>. QED BY <1>1, <1>4, <1>5, LanesFrom

\* The three things that become of a chunk: nobody takes it, the stream is fenced off,
\* or it is queued.
LEMMA ChunkCases ==
  ASSUME TypeOK, NEW t \in Terminals, Produce(t)
  PROVE  /\ produced[t] + 1 \in 1..MaxSequence /\ produced' = [produced EXCEPT ![t] = @ + 1]
         /\ UNCHANGED <<subscribed, attaching, stopped, writer, taskVars, expected, boundVars,
                        semantic, out>>
         /\ Protocol # 2 => UNCHANGED flow
         /\ \/ /\ ~Live(t)
               /\ UNCHANGED <<mailboxVars, flow, replayRequired, close>>
            \/ /\ Live(t) /\ FenceOff(t) /\ UNCHANGED <<legacy>>
               /\ flow' = flow \/ SetFlow(t, Reserve(flow[t], produced[t] + 1))
            \/ /\ Live(t) /\ PutLegacy(Data(t, produced[t] + 1))
               /\ UNCHANGED <<controlLanes, replayRequired, close>>
               /\ Protocol = 2 => SetFlow(t, Reserve(flow[t], produced[t] + 1))
<1>. PICK n : n = produced[t] + 1
  OBVIOUS
<1>1. /\ produced[t] + 1 \in 1..MaxSequence /\ produced' = [produced EXCEPT ![t] = @ + 1]
      /\ UNCHANGED <<subscribed, attaching, stopped, writer, taskVars, expected, boundVars>>
  BY FlowAssumption DEF Produce, TypeOK
<1>2. CASE t \notin subscribed
  <2>1. UNCHANGED <<mailboxVars, flow, replayRequired, close>>
    BY <1>2 DEF Produce
  <2>. QED BY <1>1, <1>2, <2>1 DEF Live, mailboxVars, semanticLane
<1>3. CASE t \in subscribed
  <2>1. EnqueueTerminal(t, n)
    BY <1>3, n = produced[t] + 1 DEF Produce
  <2>2. CASE Refusing(t) \/ t \notin DOMAIN flow
    BY <1>1, <2>1, <2>2 DEF EnqueueTerminal, Live, mailboxVars, semanticLane
  <2>3. CASE /\ ~Refusing(t) /\ t \in DOMAIN flow
             /\ Protocol = 2 /\ ~CanReserve(flow[t], n)
    BY <1>1, <1>3, <2>1, <2>3 DEF EnqueueTerminal, Live, legacyLane, semanticLane
  <2>4. CASE /\ ~Refusing(t) /\ t \in DOMAIN flow
             /\ Protocol = 2 => CanReserve(flow[t], n)
    <3>1. /\ IF Protocol = 2 THEN SetFlow(t, Reserve(flow[t], n)) ELSE UNCHANGED flow
          /\ \/ /\ PutLegacy(Data(t, n))
                /\ UNCHANGED <<controlLanes, replayRequired, close>>
             \/ /\ FenceOff(t)
                /\ UNCHANGED legacyLane
          /\ UNCHANGED <<semanticLane, out>>
      BY <2>1, <2>4 DEF EnqueueTerminal
    <3>. QED BY <1>1, <1>3, <2>4, <3>1, n = produced[t] + 1 DEF Live, legacyLane, semanticLane
  <2>. QED BY <2>2, <2>3, <2>4
<1>. QED BY <1>2, <1>3

\* A fence is queued, or the connection closes.
LEMMA FenceCases ==
  ASSUME TypeOK, NEW t \in DOMAIN flow, FenceOff(t)
  PROVE  /\ replayRequired' = replayRequired \cup {t}
         /\ \E f \in Frames :
              /\ f.kind = "fence" /\ f.terminal = t
              /\ \/ PutReliable(f) /\ UNCHANGED close
                 \/ close' = "1013" /\ UNCHANGED <<priority, reliable, nextOrder>>
<1>1. t \in Terminals /\ flow[t].acknowledged \in 0..MaxSequence
  BY DEF TypeOK, Flow
<1>2. PICK f \in Frames : f = Fence(t, flow[t].acknowledged)
  BY <1>1, FrameTypes
<1>3. f.kind = "fence" /\ f.terminal = t
  BY <1>2 DEF Fence
<1>. QED BY <1>2, <1>3 DEF FenceOff, controlLanes

\* The result of an attach is queued, or the connection closes.
LEMMA FinishCases ==
  ASSUME TypeOK, LanesSound, AttachSound, FinishAttach, NEW t, NEW n,
         t = request.terminal, n = request.snapshot
  PROVE  /\ t \in Terminals /\ t \in attaching /\ t \in DOMAIN flow
         /\ n \in 0..MaxSequence /\ n \in 0..produced[t]
         /\ request' = NoRequest /\ task = "dispatching" /\ request.answered
         /\ UNCHANGED <<produced, subscribed, stopped, writer, expected, semantic, out,
                        replayRequired, reliable>>
         /\ \/ /\ close' = "1013" /\ task' = "exiting"
               /\ UNCHANGED <<priority, legacy, nextOrder, flow, attaching>>
            \/ \E f \in Frames :
                 /\ f.kind = "result" /\ f.terminal = t /\ f.seq = n
                 /\ PutPriority(f)
                 /\ Range(legacy') = {q \in Range(legacy) : ~Superseded(q, t, n)}
                 /\ Rising(legacy)'
                 /\ flow' = [flow EXCEPT ![t] = Acknowledge(@, n)]
                 /\ attaching' = attaching \ {t}
                 /\ task' = "running" /\ UNCHANGED close
<1>1. task = "dispatching" /\ request.answered /\ request' = NoRequest /\ AttachResult
      /\ UNCHANGED <<produced, subscribed, stopped, writer, expected>>
  BY DEF FinishAttach
<1>2. t \in attaching /\ t \in DOMAIN flow /\ t \in Terminals /\ n \in 0..MaxSequence /\ n \in 0..produced[t]
  BY <1>1, FlowAssumption DEF AttachSound, TypeOK
<1>3. PICK f \in Frames : f = Result(t, n)
  BY <1>2, FrameTypes
<1>4. f.kind = "result" /\ f.terminal = t /\ f.seq = n
  BY <1>3 DEF Result
<1>5. CASE ResultOverflow(f)
  BY <1>1, <1>2, <1>5 DEF ResultOverflow, mailboxVars, controlLanes, legacyLane, semanticLane, flowVars
<1>6. CASE ~ResultOverflow(f)
  <2>1. /\ PutPriority(f) /\ Withdraw(t, n)
        /\ flow' = [flow EXCEPT ![t] = Acknowledge(@, n)]
        /\ attaching' = attaching \ {t} /\ task' = "running"
        /\ UNCHANGED <<replayRequired, semanticLane, out, close>>
    BY <1>1, <1>3, <1>6 DEF AttachResult
  <2>2. Range(legacy') = {q \in Range(legacy) : ~Superseded(q, t, n)} /\ Rising(legacy)'
    <3>1. Rising(legacy)
      BY DEF LanesSound
    <3>. QED BY <2>1, <3>1, WithdrawTyped DEF Rising
  <2>. QED BY <1>1, <1>2, <1>4, <2>1, <2>2 DEF semanticLane, PutPriority
<1>. QED BY <1>5, <1>6

LEMMA FailCases ==
  ASSUME TypeOK, LanesSound, AttachSound, FailAttach, NEW t, t = request.terminal
  PROVE  /\ t \in Terminals /\ t \in attaching /\ t \in DOMAIN flow
         /\ request' = NoRequest /\ task = "dispatching"
         /\ subscribed' = subscribed \ {t}
         /\ UNCHANGED <<produced, stopped, writer, expected, semantic, out, reliable, legacy>>
         /\ \/ /\ close' = "1013" /\ task' = "exiting"
               /\ UNCHANGED <<priority, nextOrder, flow, attaching, replayRequired>>
            \/ \E f \in Frames :
                 /\ f.kind = "ended" /\ f.terminal = t
                 /\ PutPriority(f)
                 /\ flow' = Without(t)
                 /\ replayRequired' = replayRequired \ {t}
                 /\ attaching' = attaching \ {t}
                 /\ task' = "running" /\ UNCHANGED close
<1>1. task = "dispatching" /\ request' = NoRequest /\ subscribed' = subscribed \ {t}
      /\ UNCHANGED <<produced, stopped, writer, expected>>
  BY DEF FailAttach
<1>2. t \in attaching /\ t \in DOMAIN flow /\ t \in Terminals
  BY <1>1 DEF AttachSound, TypeOK
<1>3. PICK f \in Frames : f = Ended(t)
  BY <1>2, FrameTypes
<1>4. f.kind = "ended" /\ f.terminal = t
  BY <1>3 DEF Ended
<1>5. CASE ResultOverflow(f)
  BY <1>1, <1>2, <1>5 DEF ResultOverflow, mailboxVars, controlLanes, legacyLane, semanticLane, flowVars
<1>6. CASE ~ResultOverflow(f)
  <2>1. /\ PutPriority(f) /\ flow' = Without(t)
        /\ replayRequired' = replayRequired \ {t} /\ attaching' = attaching \ {t}
        /\ task' = "running" /\ UNCHANGED <<legacyLane, semanticLane, out, close>>
    BY <1>3, <1>6 DEF FailAttach
  <2>. QED BY <1>1, <1>2, <1>4, <2>1 DEF semanticLane, legacyLane, PutPriority
<1>. QED BY <1>5, <1>6

\* Events and replies go to the reliable lane, or nowhere.
LEMMA ReliableCases ==
  ASSUME TypeOK, AttachSound, ForwardEvent \/ Reply
  PROVE  /\ task \in {"running", "replying"} /\ task' \in {"running", "exiting"}
         /\ request' \in {request, NoRequest} /\ (close # "none" => close' # "none")
         /\ UNCHANGED <<produced, subscribed, flow, replayRequired, attaching, stopped, writer,
                        expected, semantic, out, legacy>>
         /\ \/ UNCHANGED <<priority, reliable, nextOrder>>
            \/ \E f \in Frames : f.kind \in {"text", "ended"} /\ PutReliable(f)
<1>1. ASSUME NEW f \in Frames, f.kind \in {"text", "ended"}, EnqueueReliable(f)
      PROVE  /\ task' \in {"running", "exiting"} /\ (close # "none" => close' # "none")
             /\ UNCHANGED <<produced, subscribed, flow, replayRequired, attaching, stopped, writer,
                            expected, semantic, out, legacy>>
             /\ UNCHANGED <<priority, reliable, nextOrder>> \/ PutReliable(f)
  BY <1>1 DEF EnqueueReliable, flowVars, mailboxVars, controlLanes, legacyLane, semanticLane
<1>2. CASE ForwardEvent
  <2>1. Text \in Frames /\ Text.kind = "text" /\ EnqueueReliable(Text) /\ task = "running"
        /\ request' = request
    BY <1>2, FrameTypes DEF ForwardEvent, Text
  <2>. QED BY <1>1, <2>1
<1>3. CASE Reply
  <2>1. Ended(request.terminal) \in Frames
    BY <1>3, FrameTypes DEF Reply, AttachSound
  <2>2. PICK f \in Frames : f = Ended(request.terminal)
    BY <2>1
  <2>3. f.kind = "ended" /\ EnqueueReliable(f) /\ task = "replying" /\ request' = NoRequest
    BY <1>3, <2>2 DEF Reply, Ended
  <2>. QED BY <1>1, <2>3
<1>. QED BY <1>2, <1>3
-----------------------------------------------------------------------------
(* The steps that leave the lanes alone *)

\* They may begin an attach, acknowledge, or take something away.
Quiet ==
  /\ UNCHANGED <<priority, reliable, legacy, semantic, nextOrder, produced, expected>>
  /\ attaching \subseteq attaching'
  /\ replayRequired' \subseteq replayRequired \ (attaching' \ attaching)
  /\ stopped \/ close # "none" => stopped' \/ close' # "none"
  /\ \A t \in Terminals \ (attaching' \ attaching) : Live(t)' => Live(t)
  /\ \A t \in DOMAIN flow' \ (attaching' \ attaching) :
       /\ t \in DOMAIN flow
       /\ \/ flow'[t] = flow[t]
          \/ \E n \in 0..MaxSequence : task = "running" /\ flow'[t] = Acknowledge(flow[t], n)
  /\ task' = "dispatching" /\ request'.answered =>
       \/ task = "dispatching" /\ request.answered /\ request' = request
       \/ Snapshot

Pop == Look /\ PopFrame

LEMMA NoneAttaching ==
  ASSUME AttachSound, task \in {"running", "replying"} PROVE attaching = {}
BY DEF AttachSound

LEMMA RequestTypes ==
  /\ NoRequest \in Requests /\ NoRequest.answered = FALSE
  /\ \A t \in Terminals : [NoRequest EXCEPT !.terminal = t] \in Requests
  /\ \A r \in Requests, n \in 0..MaxSequence :
       LET s == [r EXCEPT !.snapshot = n, !.answered = TRUE] IN
         s \in Requests /\ s.terminal = r.terminal /\ s.answered = TRUE /\ s.snapshot = n
<1>1. 0 \in 0..MaxSequence
  BY FlowAssumption
<1>2. \A r \in Requests, n \in 0..MaxSequence :
        LET s == [r EXCEPT !.snapshot = n, !.answered = TRUE] IN
          s \in Requests /\ s.terminal = r.terminal /\ s.answered = TRUE /\ s.snapshot = n
  BY DEF Requests
<1>. QED BY <1>1, <1>2 DEF Requests, NoRequest

LEMMA QuietSteps ==
  ASSUME TypeOK, LanesSound, AttachSound, [Next]_vars
  PROVE  \/ Quiet /\ AttachSound'
         \/ \E t \in Terminals : Produce(t)
         \/ FinishAttach \/ FailAttach \/ ForwardEvent \/ Reply \/ Pop
<1> USE DEF Live, Refusing
<1>0. CASE UNCHANGED vars
  BY <1>0 DEF Quiet, AttachSound, vars, mailboxVars, controlLanes, legacyLane, semanticLane, flowVars,
              endVars, taskVars
<1>1. ASSUME NEW t \in Terminals, Detach(t) PROVE Quiet /\ AttachSound'
  <2>1. attaching = {} /\ attaching' = {}
    BY <1>1, NoneAttaching DEF Detach
  <2>2. DOMAIN flow' = DOMAIN flow \ {t} /\ \A u \in DOMAIN flow' : flow'[u] = flow[u]
    BY <1>1, WithoutTyped DEF Detach
  <2>3. Quiet
    BY <1>1, <2>1, <2>2 DEF Detach, Quiet, mailboxVars, controlLanes, legacyLane, semanticLane, endVars
  <2>4. AttachSound'
    <3>1. request' \in Requests /\ request'.terminal \in Terminals
      BY <1>1, RequestTypes DEF Detach, NoRequest
    <3>. QED BY <1>1, <2>1, <3>1 DEF Detach, AttachSound
  <2>. QED BY <2>3, <2>4
<1>2. ASSUME NEW t \in Terminals, NEW n \in 0..MaxSequence, BeginAttach(t, n) PROVE Quiet /\ AttachSound'
  <2>1. attaching = {} /\ attaching' = {t} /\ task = "running" /\ task' = "dispatching"
    BY <1>2, NoneAttaching DEF BeginAttach
  <2>2. NewFlow(n) \in Flow
    BY DEF NewFlow, Flow
  <2>3. DOMAIN flow' = DOMAIN flow \cup {t} /\ \A u \in DOMAIN flow' \ {t} : flow'[u] = flow[u]
    BY <1>2, <2>2, SetFlowTyped DEF BeginAttach
  <2>4. request' = [NoRequest EXCEPT !.terminal = t]
    BY <1>2 DEF BeginAttach
  <2>5. request'.terminal = t /\ request'.answered = FALSE
    BY <2>4 DEF NoRequest
  <2>6. Quiet
    BY <1>2, <2>1, <2>3, <2>5 DEF BeginAttach, Quiet, mailboxVars, controlLanes, legacyLane, semanticLane,
                                   endVars
  <2>7. AttachSound'
    <3>1. request' \in Requests
      BY ONLY <2>4, t \in Terminals, RequestTypes
    <3>. QED BY <2>1, <2>5, <3>1 DEF AttachSound
  <2>. QED BY <2>6, <2>7
<1>3. ASSUME NEW t \in Terminals, NEW n \in 0..MaxSequence, ReceiveAck(t, n) PROVE Quiet /\ AttachSound'
  <2>1. /\ DOMAIN flow' = DOMAIN flow
        /\ flow'[t] = Acknowledge(flow[t], n) /\ \A u \in DOMAIN flow' \ {t} : flow'[u] = flow[u]
    BY <1>3, AcknowledgedTyped DEF ReceiveAck
  <2>. QED BY <1>3, <2>1 DEF ReceiveAck, Quiet, AttachSound, mailboxVars, controlLanes, legacyLane,
                              semanticLane, endVars, taskVars
<1>4. CASE Snapshot
  <2>1. produced[request.terminal] \in 0..MaxSequence
    BY <1>4 DEF Snapshot, AttachSound, TypeOK
  <2>2. /\ request' \in Requests /\ request'.terminal = request.terminal /\ request'.answered = TRUE
        /\ request'.snapshot = produced[request.terminal]
    BY <1>4, <2>1, RequestTypes DEF Snapshot, AttachSound
  <2>3. Quiet
    BY <1>4 DEF Snapshot, Quiet, mailboxVars, controlLanes, legacyLane, semanticLane, flowVars, endVars
  <2>4. AttachSound'
    BY <1>4, <2>1, <2>2 DEF Snapshot, AttachSound, flowVars
  <2>. QED BY <2>3, <2>4
<1>5. CASE Close \/ PeerCloses
  BY <1>5, NoneAttaching DEF Close, PeerCloses, Quiet, AttachSound, mailboxVars, controlLanes, legacyLane,
                              semanticLane, flowVars, endVars
<1>6. CASE Stop \/ Join
  BY <1>6 DEF Stop, Join, Quiet, AttachSound, mailboxVars, controlLanes, legacyLane, semanticLane,
              flowVars, endVars, taskVars
<1>7. CASE Arm \/ Park \/ Wake \/ Sent \/ WriterEnds
  BY <1>7 DEF Arm, Park, Wake, Sent, WriterEnds, Quiet, AttachSound, mailboxVars, controlLanes, legacyLane,
              semanticLane, flowVars, endVars, taskVars
<1>8. CASE Look /\ (TakeClose \/ FindNothing)
  BY <1>8 DEF Look, TakeClose, FindNothing, Quiet, AttachSound, mailboxVars, controlLanes, legacyLane,
              semanticLane, flowVars, endVars, taskVars
<1>9. Look => Pop \/ (Look /\ (TakeClose \/ FindNothing))
  BY DEF Look, Pop
<1>. QED BY <1>0, <1>1, <1>2, <1>3, <1>4, <1>5, <1>6, <1>7, <1>8, <1>9 DEF Next

\* The entry that is sent is the first of its lane.
LEMMA PopCases ==
  ASSUME TypeOK, LanesSound, Pop
  PROVE  /\ attaching = {} /\ PopNext /\ expected' = Expect(out') /\ writer = "armed"
         /\ UNCHANGED <<produced, subscribed, flow, replayRequired, attaching, close, stopped, task,
                        request>>
         /\ \A t : Live(t)' <=> Live(t)
         /\ \/ \E h \in QueuedFrames :
                 /\ out' = h.frame /\ h.frame.kind \in {"result", "ended"}
                 /\ h.frame.terminal \in Terminals
                 /\ Range(priority) = Range(priority') \cup {h}
                 /\ \A q \in Range(priority') : h.order < q.order
                 /\ UNCHANGED <<reliable, legacy>>
            \/ \E h \in QueuedFrames :
                 /\ out' = h.frame /\ h.frame.kind \in {"text", "fence", "ended"}
                 /\ h.frame.kind # "text" => h.frame.terminal \in Terminals
                 /\ Range(reliable) = Range(reliable') \cup {h}
                 /\ Range(priority) = {} /\ UNCHANGED <<priority, legacy>>
            \/ \E h \in QueuedFrames :
                 /\ out' = h.frame /\ h.frame.kind = "data" /\ h.frame.terminal \in Terminals
                 /\ Range(legacy) = Range(legacy') \cup {h}
                 /\ \A q \in Range(legacy') : h.order < q.order
                 /\ ~Fenced(h)
                 /\ Range(priority) = {} /\ UNCHANGED <<priority, reliable>>
<1>1. /\ attaching = {} /\ PopNext /\ expected' = Expect(out') /\ writer = "armed"
      /\ UNCHANGED <<produced, subscribed, flow, replayRequired, attaching, close, stopped, task,
                     request>>
  BY DEF Pop, Look, PopFrame, Holding, flowVars, endVars, taskVars
<1>2. \A t : Live(t)' <=> Live(t)
  BY <1>1 DEF Live, Refusing
<1>3. /\ priority \in Seq(QueuedFrames) /\ reliable \in Seq(QueuedFrames)
      /\ legacy \in Seq(QueuedFrames)
  BY DEF TypeOK
<1>4. Rising(priority) /\ Rising(reliable) /\ Rising(legacy)
  BY DEF LanesSound
<1>5. /\ \A q \in Range(priority) : q.frame.kind \in {"result", "ended"}
      /\ \A q \in Range(reliable) : q.frame.kind \in {"text", "fence", "ended"}
      /\ \A q \in Range(legacy) : q.frame.kind = "data"
  BY DEF LanesSound
<1>6. CASE priority # <<>> /\ out' = Head(priority).frame /\ priority' = Tail(priority)
           /\ UNCHANGED <<reliable, legacy>>
  <2>. PICK h : h = Head(priority)
    OBVIOUS
  <2>1. h \in QueuedFrames /\ Range(priority) = Range(priority') \cup {h}
    BY <1>3, <1>6, Taken
  <2>2. \A q \in Range(priority') : h.order < q.order
    BY <1>3, <1>4, <1>6, RisesTaken
  <2>3. h.frame.kind \in {"result", "ended"} /\ h.frame.terminal \in Terminals
    BY <1>5, <2>1, QueuedTyped
  <2>. QED BY <1>1, <1>2, <1>6, <2>1, <2>2, <2>3
<1>7. CASE priority = <<>> /\ reliable # <<>> /\ out' = Head(reliable).frame
           /\ reliable' = Tail(reliable) /\ UNCHANGED <<priority, legacy>>
  <2>. PICK h : h = Head(reliable)
    OBVIOUS
  <2>1. h \in QueuedFrames /\ Range(reliable) = Range(reliable') \cup {h}
    BY <1>3, <1>7, Taken
  <2>2. h.frame.kind \in {"text", "fence", "ended"}
        /\ (h.frame.kind # "text" => h.frame.terminal \in Terminals)
    BY <1>5, <2>1, QueuedTyped
  <2>3. Range(priority) = {}
    BY <1>7 DEF Range
  <2>. QED BY <1>1, <1>2, <1>7, <2>1, <2>2, <2>3
<1>8. CASE priority = <<>> /\ legacy # <<>> /\ out' = Head(legacy).frame
           /\ legacy' = Tail(legacy) /\ UNCHANGED <<priority, reliable>> /\ Earliest(Head(legacy))
  <2>. PICK h : h = Head(legacy)
    OBVIOUS
  <2>1. h \in QueuedFrames /\ Range(legacy) = Range(legacy') \cup {h}
    BY <1>3, <1>8, Taken
  <2>2. \A q \in Range(legacy') : h.order < q.order
    BY <1>3, <1>4, <1>8, RisesTaken
  <2>3. h.frame.kind = "data" /\ h.frame.terminal \in Terminals
    BY <1>5, <2>1, QueuedTyped
  <2>4. Range(priority) = {}
    BY <1>8 DEF Range
  <2>5. ~Fenced(h)
    <3>1. \A f \in Range(reliable) : h.order <= f.order
      <4>1. CASE reliable = <<>>
        BY <4>1 DEF Range
      <4>2. CASE reliable # <<>>
        <5>1. h.order <= Head(reliable).order
          BY <1>8, <4>2 DEF Earliest, Fronts
        <5>2. Range(reliable) = Range(Tail(reliable)) \cup {Head(reliable)}
              /\ \A q \in Range(Tail(reliable)) : Head(reliable).order < q.order
          BY <1>3, <1>4, <4>2, Taken, RisesTaken
        <5>3. \A q \in Range(reliable) : q.order \in Nat
          BY QueuedTyped
        <5>4. h.order \in Nat
          BY <2>1 DEF QueuedFrames
        <5>. QED BY <5>1, <5>2, <5>3, <5>4
      <4>. QED BY <4>1, <4>2
    <3>2. \A f \in Range(reliable) : f.order \in Nat
      BY QueuedTyped
    <3>3. h.order \in Nat
      BY <2>1 DEF QueuedFrames
    <3>. QED BY <3>1, <3>2, <3>3 DEF Fenced
  <2>. QED BY <1>1, <1>2, <1>8, <2>1, <2>2, <2>3, <2>4, <2>5
<1>. QED BY <1>1, <1>6, <1>7, <1>8, PopTyped

LEMMA LanesPreserved ==
  ASSUME TypeOK, LanesSound, AttachSound, TypeOK', [Next]_vars
  PROVE  LanesSound' /\ AttachSound'
<1>0. \A t \in Terminals : produced[t] \in Nat /\ produced[t] <= produced[t]
  BY DEF TypeOK
<1>1. CASE Quiet /\ AttachSound'
  BY <1>0, <1>1, LanesStay DEF Quiet
<1>2. ASSUME NEW t \in Terminals, Produce(t) PROVE LanesSound' /\ AttachSound'
  <2>1. /\ produced[t] + 1 \in 1..MaxSequence /\ produced' = [produced EXCEPT ![t] = @ + 1]
        /\ UNCHANGED <<subscribed, attaching, stopped, writer, taskVars, expected, boundVars,
                       semantic, out>>
    BY <1>2, ChunkCases
  <2>2. \A u \in Terminals : produced[u] <= produced'[u] /\ produced[u] \in Nat /\ produced'[u] \in Nat
    BY <1>0, <2>1 DEF TypeOK
  <2>3. AttachSound'
    BY <2>1, <2>2 DEF AttachSound, taskVars
  <2>4. CASE ~Live(t) /\ UNCHANGED mailboxVars
    BY <2>2, <2>3, <2>4, LanesStay DEF mailboxVars, controlLanes, legacyLane, semanticLane
  <2>5. CASE Live(t) /\ FenceOff(t) /\ UNCHANGED legacy
    <3>1. PICK f \in Frames :
            /\ f.kind = "fence" /\ f.terminal = t
            /\ \/ PutReliable(f) /\ UNCHANGED close
               \/ close' = "1013" /\ UNCHANGED <<priority, reliable, nextOrder>>
      BY <2>5, FenceCases DEF Live
    <3>. QED BY <2>1, <2>2, <2>3, <2>5, <3>1, LanesStay, ReliablePut
  <2>6. CASE Live(t) /\ PutLegacy(Data(t, produced[t] + 1)) /\ UNCHANGED controlLanes
    BY <2>1, <2>3, <2>6, LegacyPut DEF controlLanes
  <2>. QED BY <1>2, <2>4, <2>5, <2>6, ChunkCases
<1>3. CASE FinishAttach
  <2>. PICK t, n : t = request.terminal /\ n = request.snapshot
    OBVIOUS
  <2>1. /\ t \in attaching /\ request' = NoRequest /\ task = "dispatching"
        /\ UNCHANGED <<produced, subscribed, stopped, writer, expected, semantic, out,
                       replayRequired, reliable>>
    BY <1>3, FinishCases
  <2>2. NoRequest \in Requests
    BY RequestTypes
  <2>3. CASE /\ close' = "1013" /\ task' = "exiting"
             /\ UNCHANGED <<priority, legacy, nextOrder, flow, attaching>>
    BY <1>0, <2>1, <2>2, <2>3, LanesStay DEF AttachSound
  <2>4. CASE \E f \in Frames :
                 /\ f.kind = "result" /\ f.terminal = t /\ f.seq = n
                 /\ PutPriority(f)
                 /\ Range(legacy') = {q \in Range(legacy) : ~Superseded(q, t, n)}
                 /\ Rising(legacy)'
                 /\ flow' = [flow EXCEPT ![t] = Acknowledge(@, n)]
                 /\ attaching' = attaching \ {t}
                 /\ task' = "running" /\ UNCHANGED close
    <3>1. LanesSound'
      BY <2>1, <2>4, PriorityPut
    <3>2. AttachSound'
      BY <2>1, <2>2, <2>4 DEF AttachSound
    <3>. QED BY <3>1, <3>2
  <2>. QED BY <1>3, <2>3, <2>4, FinishCases
<1>4. CASE FailAttach
  <2>. PICK t : t = request.terminal
    OBVIOUS
  <2>1. /\ t \in attaching /\ request' = NoRequest /\ task = "dispatching"
        /\ UNCHANGED <<produced, stopped, writer, expected, semantic, out, reliable, legacy>>
    BY <1>4, FailCases
  <2>2. NoRequest \in Requests
    BY RequestTypes
  <2>3. CASE /\ close' = "1013" /\ task' = "exiting"
             /\ UNCHANGED <<priority, nextOrder, flow, attaching, replayRequired>>
    BY <1>0, <2>1, <2>2, <2>3, LanesStay DEF AttachSound
  <2>4. CASE \E f \in Frames :
                 /\ f.kind = "ended" /\ f.terminal = t
                 /\ PutPriority(f)
                 /\ flow' = Without(t)
                 /\ replayRequired' = replayRequired \ {t}
                 /\ attaching' = attaching \ {t}
                 /\ task' = "running" /\ UNCHANGED close
    <3>1. Range(legacy') \subseteq Range(legacy) /\ Rising(legacy)'
      BY <2>1 DEF LanesSound, Rising
    <3>2. LanesSound'
      BY <2>1, <2>4, <3>1, PriorityPut
    <3>3. AttachSound'
      BY <2>1, <2>2, <2>4 DEF AttachSound
    <3>. QED BY <3>2, <3>3
  <2>. QED BY <1>4, <2>3, <2>4, FailCases
<1>5. CASE ForwardEvent \/ Reply
  <2>1. /\ task \in {"running", "replying"} /\ task' \in {"running", "exiting"}
        /\ request' \in {request, NoRequest}
        /\ UNCHANGED <<produced, attaching, semantic, legacy>>
        /\ \/ UNCHANGED <<priority, reliable, nextOrder>>
           \/ \E f \in Frames : f.kind \in {"text", "ended"} /\ PutReliable(f)
    BY <1>5, ReliableCases
  <2>2. AttachSound'
    BY <2>1, NoneAttaching, RequestTypes DEF AttachSound
  <2>. QED BY <1>0, <2>1, <2>2, LanesStay, ReliablePut
<1>6. CASE Pop
  <2>1. PopNext /\ UNCHANGED <<produced, attaching, task, request>>
    BY <1>6, PopCases
  <2>. QED BY <2>1, LanesPop DEF AttachSound
<1>. QED BY <1>1, <1>2, <1>3, <1>4, <1>5, <1>6, QuietSteps
-----------------------------------------------------------------------------
(* The streams *)

\* Nothing happens to t's frames, no fence of its leaves, and it does not produce unless
\* that went nowhere.
Undisturbed(t) ==
  /\ {q \in Range(legacy') : q.frame.terminal = t} = {q \in Range(legacy) : q.frame.terminal = t}
  /\ \A f \in Range(reliable) : Breaks(f, t) => f \in Range(reliable')
  /\ produced[t] <= produced'[t]
  /\ Live(t)' => Live(t) /\ produced'[t] = produced[t]

LEMMA ContinuesOn ==
  ASSUME TypeOK, TypeOK', NEW t \in Terminals, NEW n \in Nat, Undisturbed(t)
  PROVE  /\ Unbroken(t, n) => Unbroken(t, n)'
         /\ Continues(t, n) => Continues(t, n)'
<1>. DEFINE mine == {q \in Range(legacy) : q.frame.terminal = t}
<1>1. {q \in Range(legacy') : q.frame.terminal = t} = mine
  BY DEF Undisturbed
<1>2. \A q \in Range(legacy') : q.frame.terminal = t => q \in Range(legacy)
  BY <1>1
<1>3. \A q \in Range(legacy) : q.frame.terminal = t => q \in Range(legacy')
  BY <1>1
<1>4. \A f \in Range(reliable) : Breaks(f, t) => f \in Range(reliable')
  BY DEF Undisturbed
<1>5. \A q \in Range(legacy) : q.frame.terminal = t /\ ~Fenced(q)' => ~Fenced(q)
  BY <1>4 DEF Fenced
<1>6. /\ produced[t] \in Nat /\ produced'[t] \in Nat /\ produced[t] <= produced'[t]
      /\ Live(t)' => Live(t) /\ produced'[t] = produced[t]
  BY DEF TypeOK, Undisturbed
<1>. HIDE DEF mine
<1>7. ASSUME Unbroken(t, n) PROVE Unbroken(t, n)'
  <2>1. n <= produced'[t]
    BY <1>6, <1>7 DEF Unbroken
  <2>2. ASSUME NEW q \in Range(legacy'), q.frame.terminal = t, q.frame.seq > n, ~Fenced(q)'
        PROVE  \/ q.frame.seq = n + 1
               \/ \E r \in Range(legacy') : r.frame.terminal = t /\ r.frame.seq + 1 = q.frame.seq
    BY <1>2, <1>3, <1>5, <1>7, <2>2 DEF Unbroken
  <2>3. Live(t)' => \/ n = produced'[t]
                    \/ \E q \in Range(legacy') : q.frame.terminal = t /\ q.frame.seq = produced'[t]
                    \/ \E f \in Range(reliable') : Breaks(f, t)
    BY <1>3, <1>4, <1>6, <1>7 DEF Unbroken
  <2>. QED BY <2>1, <2>2, <2>3 DEF Unbroken
<1>8. ASSUME Continues(t, n) PROVE Continues(t, n)'
  <2>1. Unbroken(t, n)'
    BY <1>7, <1>8 DEF Continues
  <2>2. \A q \in Range(legacy') : q.frame.terminal = t /\ ~Fenced(q)' => q.frame.seq > n
    BY <1>2, <1>5, <1>8 DEF Continues
  <2>. QED BY <2>1, <2>2 DEF Continues
<1>. QED BY <1>7, <1>8

\* A chunk that is queued goes behind what its client is going to get.
LEMMA ContinuesWith ==
  ASSUME TypeOK, LanesSound, TypeOK', NEW t \in Terminals, NEW n \in Nat,
         produced[t] + 1 \in 1..MaxSequence, produced' = [produced EXCEPT ![t] = @ + 1],
         Live(t), PutLegacy(Data(t, produced[t] + 1)), UNCHANGED reliable
  PROVE  /\ Unbroken(t, n) => Unbroken(t, n)'
         /\ Continues(t, n) => Continues(t, n)'
<1>1. PICK f \in Frames : f = Data(t, produced[t] + 1)
  BY FrameTypes
<1>2. f.terminal = t /\ f.seq = produced[t] + 1 /\ PutLegacy(f)
  BY <1>1 DEF Data
<1>3. PICK m \in QueuedFrames : m = Queued(f)
  BY PutTyped
<1>4. m.frame = f /\ m.order = nextOrder /\ Range(legacy') = Range(legacy) \cup {m}
  BY <1>2, <1>3, LanesPut, QueuedIs
<1>5. produced[t] \in Nat /\ produced'[t] = produced[t] + 1
  BY DEF TypeOK
<1>6. \A q \in Range(legacy) : Fenced(q)' <=> Fenced(q)
  BY DEF Fenced
<1>7. \A g \in Range(reliable) : g.order < nextOrder
  BY DEF LanesSound
<1>8. ~Fenced(m)' => \A g \in Range(reliable) : ~Breaks(g, t)
  BY <1>2, <1>4, <1>7 DEF Fenced
<1>9. ASSUME Unbroken(t, n) PROVE Unbroken(t, n)'
  <2>1. n <= produced[t] /\ n <= produced'[t]
    BY <1>5, <1>9 DEF Unbroken
  <2>2. ASSUME NEW q \in Range(legacy), q.frame.terminal = t, q.frame.seq > n, ~Fenced(q)'
        PROVE  \/ q.frame.seq = n + 1
               \/ \E r \in Range(legacy') : r.frame.terminal = t /\ r.frame.seq + 1 = q.frame.seq
    BY <1>4, <1>6, <1>9, <2>2 DEF Unbroken
  <2>3. ~Fenced(m)' => \/ m.frame.seq = n + 1
                       \/ \E r \in Range(legacy') : r.frame.terminal = t /\ r.frame.seq + 1 = m.frame.seq
    <3>1. ~Fenced(m)' => \/ n = produced[t]
                         \/ \E q \in Range(legacy) : q.frame.terminal = t /\ q.frame.seq = produced[t]
      BY <1>8, <1>9 DEF Unbroken
    <3>. QED BY <1>2, <1>4, <3>1
  <2>4. \E q \in Range(legacy') : q.frame.terminal = t /\ q.frame.seq = produced'[t]
    BY <1>2, <1>4, <1>5
  <2>. QED BY <1>4, <2>1, <2>2, <2>3, <2>4 DEF Unbroken
<1>10. ASSUME Continues(t, n) PROVE Continues(t, n)'
  <2>1. Unbroken(t, n)' /\ n <= produced[t]
    BY <1>9, <1>10 DEF Continues, Unbroken
  <2>2. m.frame.seq > n
    BY <1>2, <1>4, <1>5, <2>1
  <2>3. \A q \in Range(legacy') : q.frame.terminal = t /\ ~Fenced(q)' => q.frame.seq > n
    BY <1>4, <1>6, <1>10, <2>2 DEF Continues
  <2>. QED BY <2>1, <2>3 DEF Continues
<1>. QED BY <1>9, <1>10

\* What is left behind the result of an attach begins after its snapshot.
LEMMA ContinuesAfter ==
  ASSUME TypeOK, LanesSound, TypeOK', NEW t \in Terminals, NEW n \in 0..produced[t],
         Unbroken(t, n), Range(legacy') = {q \in Range(legacy) : ~Superseded(q, t, n)},
         UNCHANGED <<reliable, produced>>, Live(t)' => Live(t)
  PROVE  Continues(t, n)'
<1>1. \A q \in Range(legacy) : q.frame.seq \in Nat
  BY QueuedTyped, FlowAssumption
<1>2. n \in Nat /\ produced[t] \in Nat /\ produced'[t] = produced[t]
  BY DEF TypeOK
<1>3. \A q : q \in Range(legacy') /\ q.frame.terminal = t
               <=> q \in Range(legacy) /\ q.frame.terminal = t /\ q.frame.seq > n
  BY <1>1, <1>2 DEF Superseded
<1>4. \A q : Fenced(q)' <=> Fenced(q)
  BY DEF Fenced
<1>5. ASSUME NEW q \in Range(legacy'), q.frame.terminal = t, q.frame.seq > n, ~Fenced(q)'
      PROVE  \/ q.frame.seq = n + 1
             \/ \E r \in Range(legacy') : r.frame.terminal = t /\ r.frame.seq + 1 = q.frame.seq
  <2>1. q \in Range(legacy) /\ ~Fenced(q) /\ q.frame.seq \in Nat
    BY <1>1, <1>3, <1>4, <1>5
  <2>2. \/ q.frame.seq = n + 1
        \/ \E r \in Range(legacy) : r.frame.terminal = t /\ r.frame.seq + 1 = q.frame.seq
    BY <1>5, <2>1 DEF Unbroken
  <2>3. ASSUME NEW r \in Range(legacy), r.frame.terminal = t, r.frame.seq + 1 = q.frame.seq,
               q.frame.seq # n + 1
        PROVE  r \in Range(legacy')
    <3>1. r.frame.seq > n
      BY <1>1, <1>2, <1>5, <2>1, <2>3
    <3>. QED BY <1>3, <2>3, <3>1
  <2>. QED BY <2>2, <2>3
<1>6. Live(t)' => \/ n = produced'[t]
                  \/ \E q \in Range(legacy') : q.frame.terminal = t /\ q.frame.seq = produced'[t]
                  \/ \E f \in Range(reliable') : Breaks(f, t)
  <2>1. Live(t)' => \/ n = produced[t]
                    \/ \E q \in Range(legacy) : q.frame.terminal = t /\ q.frame.seq = produced[t]
                    \/ \E f \in Range(reliable) : Breaks(f, t)
    BY DEF Unbroken
  <2>2. ASSUME NEW q \in Range(legacy), q.frame.terminal = t, q.frame.seq = produced[t], n # produced[t]
        PROVE  q \in Range(legacy')
    BY <1>2, <1>3, <2>2
  <2>. QED BY <1>2, <2>1, <2>2
<1>7. n <= produced'[t]
  BY <1>2
<1>8. \A q \in Range(legacy') : q.frame.terminal = t => q.frame.seq > n
  BY <1>3
<1>. QED BY <1>5, <1>6, <1>7, <1>8 DEF Continues, Unbroken

\* The first of the frames that wait is the one its client expects.
LEMMA ContinuesFrom ==
  ASSUME TypeOK, LanesSound, TypeOK', NEW t \in Terminals, NEW n \in Nat, Continues(t, n),
         NEW h \in QueuedFrames, h.frame.terminal = t, ~Fenced(h),
         Range(legacy) = Range(legacy') \cup {h}, \A q \in Range(legacy') : h.order < q.order,
         UNCHANGED <<reliable, produced>>, Live(t)' => Live(t)
  PROVE  h.frame.seq = n + 1 /\ Continues(t, n + 1)'
<1>1. \A q \in Range(legacy) : q.frame.seq \in Nat /\ q.order \in Nat
  BY QueuedTyped, FlowAssumption
<1>2. produced[t] \in Nat /\ produced'[t] = produced[t]
  BY DEF TypeOK
<1>3. \A q \in Range(legacy') : q.frame.terminal = t => h.frame.seq < q.frame.seq
  BY DEF LanesSound
<1>4. h \in Range(legacy) /\ h.frame.seq \in Nat /\ h.frame.seq > n
  BY <1>1 DEF Continues
<1>5. h.frame.seq = n + 1
  <2>1. \/ h.frame.seq = n + 1
        \/ \E r \in Range(legacy) : r.frame.terminal = t /\ r.frame.seq + 1 = h.frame.seq
    BY <1>4 DEF Continues, Unbroken
  <2>2. ASSUME NEW r \in Range(legacy), r.frame.terminal = t, r.frame.seq + 1 = h.frame.seq
        PROVE  FALSE
    <3>1. r # h /\ r \in Range(legacy')
      BY <1>1, <1>4, <2>2
    <3>. QED BY <1>1, <1>3, <1>4, <2>2, <3>1
  <2>. QED BY <2>1, <2>2
<1>6. h.frame.seq <= produced[t]
  BY <1>4 DEF LanesSound
<1>7. \A q : Fenced(q)' <=> Fenced(q)
  BY DEF Fenced
<1>8. ASSUME NEW q \in Range(legacy'), q.frame.terminal = t, q.frame.seq > n + 1, ~Fenced(q)'
      PROVE  \/ q.frame.seq = (n + 1) + 1
             \/ \E r \in Range(legacy') : r.frame.terminal = t /\ r.frame.seq + 1 = q.frame.seq
  <2>1. q \in Range(legacy) /\ ~Fenced(q) /\ q.frame.seq \in Nat
    BY <1>1, <1>7, <1>8
  <2>2. \E r \in Range(legacy) : r.frame.terminal = t /\ r.frame.seq + 1 = q.frame.seq
    BY <1>8, <2>1 DEF Continues, Unbroken
  <2>3. PICK r \in Range(legacy) : r.frame.terminal = t /\ r.frame.seq + 1 = q.frame.seq
    BY <2>2
  <2>. QED BY <1>5, <2>3
<1>9. Live(t)' => \/ n + 1 = produced'[t]
                  \/ \E q \in Range(legacy') : q.frame.terminal = t /\ q.frame.seq = produced'[t]
                  \/ \E f \in Range(reliable') : Breaks(f, t)
  <2>1. Live(t)' => \/ n = produced[t]
                    \/ \E q \in Range(legacy) : q.frame.terminal = t /\ q.frame.seq = produced[t]
                    \/ \E f \in Range(reliable) : Breaks(f, t)
    BY DEF Continues, Unbroken
  <2>2. n # produced[t]
    BY <1>2, <1>5, <1>6
  <2>. QED BY <1>2, <1>5, <2>1, <2>2
<1>10. n + 1 <= produced'[t]
  BY <1>2, <1>5, <1>6
<1>11. \A q \in Range(legacy') : q.frame.terminal = t => q.frame.seq > n + 1
  BY <1>1, <1>3, <1>5
<1>. QED BY <1>5, <1>8, <1>9, <1>10, <1>11 DEF Continues, Unbroken

\* A frame that enters the priority lane decides what is due.
LEMMA DueAdded ==
  ASSUME TypeOK, LanesSound, NEW m \in QueuedFrames, m.order = nextOrder,
         Range(priority') = Range(priority) \cup {m}, UNCHANGED expected
  PROVE  /\ \A u, e : u # m.frame.terminal /\ Due(u, e)' => Due(u, e)
         /\ \A e : Due(m.frame.terminal, e)'
                     => e = IF m.frame.kind = "result" THEN m.frame.seq + 1 ELSE 0
<1>1. \A q \in Range(priority) : q.order < nextOrder /\ q.order \in Nat
  BY QueuedTyped DEF LanesSound
<1>2. nextOrder \in Nat
  BY DEF LanesSound
<1>3. ASSUME NEW u, NEW e, u # m.frame.terminal, Due(u, e)' PROVE Due(u, e)
  BY <1>3 DEF Due
<1>4. ASSUME NEW e, Due(m.frame.terminal, e)'
      PROVE  e = IF m.frame.kind = "result" THEN m.frame.seq + 1 ELSE 0
  <2>1. PICK q \in Range(priority') :
          /\ q.frame.terminal = m.frame.terminal
          /\ \A r \in Range(priority') : r.frame.terminal = m.frame.terminal => r.order <= q.order
          /\ e = IF q.frame.kind = "result" THEN q.frame.seq + 1 ELSE 0
    BY <1>4 DEF Due
  <2>2. q = m
    BY <1>1, <1>2, <2>1
  <2>. QED BY <2>1, <2>2
<1>. QED BY <1>3, <1>4

\* The priority lane is sent without changing what is due.
LEMMA DueSent ==
  ASSUME TypeOK, LanesSound, NEW h \in QueuedFrames, h.frame.kind \in {"result", "ended"},
         h.frame.terminal \in Terminals, Range(priority) = Range(priority') \cup {h},
         \A q \in Range(priority') : h.order < q.order, expected' = Expect(h.frame)
  PROVE  \A u \in Terminals : \A e : Due(u, e)' => Due(u, e)
<1>. SUFFICES ASSUME NEW u \in Terminals, NEW e, Due(u, e)' PROVE Due(u, e)
  OBVIOUS
<1>1. \A q \in Range(priority) : q.order \in Nat
  BY QueuedTyped
<1>2. /\ expected'[h.frame.terminal] = IF h.frame.kind = "result" THEN h.frame.seq + 1 ELSE 0
      /\ u # h.frame.terminal => expected'[u] = expected[u]
  BY DEF Expect, TypeOK
<1>3. CASE (\A q \in Range(priority') : q.frame.terminal # u) /\ e = expected'[u]
  <2>1. CASE u = h.frame.terminal
    <3>1. /\ h \in Range(priority) /\ e = IF h.frame.kind = "result" THEN h.frame.seq + 1 ELSE 0
          /\ \A r \in Range(priority) : r.frame.terminal = u => r.order <= h.order
      BY <1>1, <1>2, <1>3, <2>1
    <3>. QED BY <2>1, <3>1 DEF Due
  <2>2. CASE u # h.frame.terminal
    BY <1>2, <1>3, <2>2 DEF Due
  <2>. QED BY <2>1, <2>2
<1>4. ASSUME NEW q \in Range(priority'), q.frame.terminal = u,
             \A r \in Range(priority') : r.frame.terminal = u => r.order <= q.order,
             e = IF q.frame.kind = "result" THEN q.frame.seq + 1 ELSE 0
      PROVE  Due(u, e)
  <2>1. \A r \in Range(priority) : r.frame.terminal = u => r.order <= q.order
    BY <1>1, <1>4
  <2>. QED BY <1>4, <2>1 DEF Due
<1>. QED BY <1>3, <1>4 DEF Due

LEMMA StreamsPreserved ==
  ASSUME TypeOK, LanesSound, AttachSound, StreamsSound, TypeOK', LanesSound', AttachSound', [Next]_vars
  PROVE  StreamsSound'
<1>. DEFINE Kept(t, n) == Due(t, n + 1) => Continues(t, n)
            Answering == task = "dispatching" /\ request.answered
<1>0. \A t \in Terminals : produced[t] \in Nat /\ produced[t] <= produced[t]
  BY DEF TypeOK
<1>1. ASSUME NEW t \in Terminals \ attaching, NEW n \in Nat, Undisturbed(t),
             Due(t, n + 1)' => Due(t, n + 1)
      PROVE  Kept(t, n)'
  <2>1. Kept(t, n)
    BY DEF StreamsSound
  <2>. QED BY <1>1, <2>1, ContinuesOn
<1>2. ASSUME Answering, Answering', UNCHANGED request, Undisturbed(request.terminal)
      PROVE  Unbroken(request.terminal, request.snapshot)'
  <2>. PICK t, n : t = request.terminal /\ n = request.snapshot
    OBVIOUS
  <2>1. t \in Terminals /\ n \in Nat /\ Unbroken(t, n) /\ Undisturbed(t)
    BY <1>0, <1>2 DEF AttachSound, StreamsSound, TypeOK
  <2>2. Unbroken(t, n)'
    BY <2>1, ContinuesOn
  <2>. QED BY <1>2, <2>2
<1>3. SUFFICES /\ \A t \in Terminals \ attaching' : \A n \in Nat : Kept(t, n)'
               /\ Answering' => Unbroken(request.terminal, request.snapshot)'
  BY DEF StreamsSound
<1>. HIDE DEF Kept
<1>4. CASE Quiet
  <2>1. ASSUME NEW t \in Terminals \ (attaching' \ attaching) PROVE Undisturbed(t)
    BY <1>0, <1>4, <2>1 DEF Quiet, Undisturbed
  <2>2. ASSUME NEW t \in Terminals \ attaching', NEW n \in Nat PROVE Kept(t, n)'
    <3>1. t \notin attaching /\ (Due(t, n + 1)' => Due(t, n + 1))
      BY <1>4 DEF Quiet, Due
    <3>. QED BY <1>1, <2>1, <3>1
  <2>3. ASSUME Answering', Answering, request' = request
        PROVE  Unbroken(request.terminal, request.snapshot)'
    <3>1. request.terminal \in Terminals /\ request.terminal \in attaching
      BY <2>3 DEF AttachSound, TypeOK
    <3>. QED BY <1>2, <2>1, <2>3, <3>1
  <2>4. ASSUME Snapshot PROVE Unbroken(request.terminal, request.snapshot)'
    <3>. PICK t : t = request.terminal
      OBVIOUS
    <3>1. t \in Terminals /\ request' = [request EXCEPT !.snapshot = produced[t], !.answered = TRUE]
          /\ request \in Requests /\ produced[t] \in 0..MaxSequence
      BY <2>4 DEF Snapshot, AttachSound, TypeOK
    <3>2. request'.terminal = t /\ request'.snapshot = produced[t]
      BY <3>1, RequestTypes
    <3>3. UNCHANGED <<legacy, reliable, produced>>
      BY <1>4 DEF Quiet
    <3>4. \A q \in Range(legacy) : q.frame.seq \in Nat /\ q.frame.seq <= produced[q.frame.terminal]
      BY QueuedTyped DEF LanesSound
    <3>5. Unbroken(t, produced[t])'
      BY <1>0, <3>1, <3>3, <3>4 DEF Unbroken
    <3>. QED BY <3>2, <3>3, <3>5
  <2>. QED BY <1>4, <2>2, <2>3, <2>4 DEF Quiet
<1>5. ASSUME NEW t \in Terminals, Produce(t)
      PROVE  /\ \A u \in Terminals \ attaching' : \A n \in Nat : Kept(u, n)'
             /\ Answering' => Unbroken(request.terminal, request.snapshot)'
  <2>1. /\ produced[t] + 1 \in 1..MaxSequence /\ produced' = [produced EXCEPT ![t] = @ + 1]
        /\ UNCHANGED <<subscribed, attaching, stopped, task, request, expected>>
    BY <1>5, ChunkCases DEF taskVars
  <2>2. \A u \in Terminals : produced[u] <= produced'[u] /\ (u # t => produced'[u] = produced[u])
    BY <1>0, <2>1 DEF TypeOK
  <2>3. CASE ~Live(t) /\ UNCHANGED <<mailboxVars, flow, replayRequired, close>>
    <3>1. \A u : Live(u)' <=> Live(u)
      BY <2>1, <2>3 DEF Live, Refusing
    <3>2. \A u \in Terminals : Undisturbed(u)
      BY <2>2, <2>3, <3>1 DEF Undisturbed, mailboxVars, controlLanes, legacyLane
    <3>3. \A u, e : Due(u, e)' => Due(u, e)
      BY <2>1, <2>3 DEF Due, mailboxVars, controlLanes
    <3>4. request.terminal \in Terminals \/ ~Answering
      BY DEF AttachSound, TypeOK
    <3>. QED BY <1>1, <1>2, <2>1, <3>2, <3>3, <3>4
  <2>4. CASE Live(t) /\ FenceOff(t) /\ UNCHANGED legacy
             /\ (flow' = flow \/ SetFlow(t, Reserve(flow[t], produced[t] + 1)))
    <3>1. PICK f \in Frames :
            /\ f.kind = "fence" /\ f.terminal = t
            /\ \/ PutReliable(f) /\ UNCHANGED close
               \/ close' = "1013" /\ UNCHANGED <<priority, reliable, nextOrder>>
      BY <2>4, FenceCases DEF Live
    <3>2. replayRequired' = replayRequired \cup {t}
      BY <2>4, FenceCases DEF Live
    <3>3. \A g \in Range(reliable) : g \in Range(reliable')
      BY <3>1, LanesPut
    <3>4. ~Live(t)' /\ \A u \in Terminals \ {t} : Live(u)' => Live(u)
      <4>1. DOMAIN flow' \ {t} \subseteq DOMAIN flow
        BY <2>4 DEF SetFlow
      <4>2. close # "none" => close' # "none"
        BY <3>1
      <4>. QED BY <2>1, <3>2, <4>1, <4>2 DEF Live, Refusing
    <3>5. \A u \in Terminals : Undisturbed(u)
      BY <2>2, <2>4, <3>3, <3>4 DEF Undisturbed
    <3>6. \A u, e : Due(u, e)' => Due(u, e)
      <4>1. UNCHANGED <<priority, expected>>
        BY <2>1, <3>1 DEF PutReliable
      <4>. QED BY <4>1 DEF Due
    <3>7. request.terminal \in Terminals \/ ~Answering
      BY DEF AttachSound, TypeOK
    <3>. QED BY <1>1, <1>2, <2>1, <3>5, <3>6, <3>7
  <2>5. CASE Live(t) /\ PutLegacy(Data(t, produced[t] + 1))
             /\ UNCHANGED <<controlLanes, replayRequired, close>>
             /\ (Protocol = 2 => SetFlow(t, Reserve(flow[t], produced[t] + 1)))
             /\ (Protocol # 2 => UNCHANGED flow)
    <3>1. DOMAIN flow' = DOMAIN flow
      BY <2>5 DEF SetFlow, Live
    <3>2. \A u : Live(u)' <=> Live(u)
      BY <2>1, <2>5, <3>1 DEF Live, Refusing
    <3>3. UNCHANGED <<priority, reliable>>
      BY <2>5 DEF controlLanes
    <3>4. PICK f \in Frames : f = Data(t, produced[t] + 1)
      BY <2>1, FrameTypes
    <3>5. Range(legacy') = Range(legacy) \cup {Queued(f)} /\ Queued(f).frame.terminal = t
      BY <2>5, <3>4, LanesPut, QueuedIs DEF Data
    <3>6. \A u \in Terminals \ {t} : Undisturbed(u)
      BY <2>2, <3>2, <3>3, <3>5 DEF Undisturbed
    <3>7. \A u, e : Due(u, e)' => Due(u, e)
      BY <2>1, <3>3 DEF Due
    <3>8. \A n \in Nat : /\ Unbroken(t, n) => Unbroken(t, n)'
                         /\ Continues(t, n) => Continues(t, n)'
      BY <2>1, <2>5, <3>3, ContinuesWith
    <3>9. ASSUME NEW u \in Terminals \ attaching', NEW n \in Nat PROVE Kept(u, n)'
      <4>1. CASE u = t
        <5>1. Kept(t, n)
          BY <2>1, <4>1 DEF StreamsSound, Kept
        <5>. QED BY <3>7, <3>8, <4>1, <5>1 DEF Kept
      <4>2. CASE u # t
        BY <1>1, <2>1, <3>6, <3>7, <4>2
      <4>. QED BY <4>1, <4>2
    <3>10. ASSUME Answering' PROVE Unbroken(request.terminal, request.snapshot)'
      <4>. PICK r, n : r = request.terminal /\ n = request.snapshot
        OBVIOUS
      <4>1. Answering /\ r \in Terminals /\ n \in Nat /\ Unbroken(r, n) /\ UNCHANGED request
        BY <1>0, <2>1, <3>10 DEF AttachSound, StreamsSound, TypeOK
      <4>2. CASE r = t
        BY <3>8, <4>1, <4>2
      <4>3. CASE r # t
        BY <1>2, <2>1, <3>6, <3>10, <4>1, <4>3
      <4>. QED BY <4>2, <4>3
    <3>. QED BY <3>9, <3>10
  <2>. QED BY <1>5, <2>3, <2>4, <2>5, ChunkCases
<1>6. CASE FinishAttach
  <2>. PICK t, n : t = request.terminal /\ n = request.snapshot
    OBVIOUS
  <2>1. /\ t \in Terminals /\ t \in attaching /\ n \in 0..produced[t]
        /\ request' = NoRequest /\ task = "dispatching" /\ request.answered
        /\ UNCHANGED <<produced, subscribed, stopped, expected, replayRequired, reliable>>
    BY <1>6, FinishCases
  <2>2. ~Answering' /\ Unbroken(t, n)
    BY <2>1, RequestTypes DEF StreamsSound
  <2>3. CASE /\ close' = "1013" /\ task' = "exiting"
             /\ UNCHANGED <<priority, legacy, nextOrder, flow, attaching>>
    <3>1. \A u \in Terminals : Undisturbed(u)
      BY <1>0, <2>1, <2>3 DEF Undisturbed, Live, Refusing
    <3>2. \A u, e : Due(u, e)' => Due(u, e)
      BY <2>1, <2>3 DEF Due
    <3>. QED BY <1>1, <2>2, <2>3, <3>1, <3>2
  <2>4. ASSUME NEW f \in Frames, f.kind = "result", f.terminal = t, f.seq = n,
               PutPriority(f), Range(legacy') = {q \in Range(legacy) : ~Superseded(q, t, n)},
               flow' = [flow EXCEPT ![t] = Acknowledge(@, n)],
               attaching' = attaching \ {t}, UNCHANGED close
        PROVE  \A u \in Terminals \ attaching' : \A k \in Nat : Kept(u, k)'
    <3>1. Range(priority') = Range(priority) \cup {Queued(f)} /\ Queued(f) \in QueuedFrames
          /\ Queued(f).frame = f /\ Queued(f).order = nextOrder
      BY <2>4, LanesPut, PutTyped, QueuedIs
    <3>2. /\ \A u, e : u # t /\ Due(u, e)' => Due(u, e)
          /\ \A e : Due(t, e)' => e = n + 1
      BY <2>1, <2>4, <3>1, DueAdded
    <3>3. \A u \in Terminals : Live(u)' => Live(u)
      BY <2>1, <2>4 DEF Live, Refusing
    <3>4. \A u \in Terminals \ {t} : Undisturbed(u)
      BY <1>0, <2>1, <2>4, <3>3 DEF Undisturbed, Superseded
    <3>5. Continues(t, n)'
      BY <2>1, <2>2, <2>4, <3>3, ContinuesAfter
    <3>6. ASSUME NEW u \in Terminals \ attaching', NEW k \in Nat PROVE Kept(u, k)'
      <4>1. CASE u = t
        <5>1. Due(t, k + 1)' => k = n
          BY <2>1, <3>2
        <5>. QED BY <3>5, <4>1, <5>1 DEF Kept
      <4>2. CASE u # t
        BY <1>1, <2>4, <3>2, <3>4, <4>2
      <4>. QED BY <4>1, <4>2
    <3>. QED BY <3>6
  <2>. QED BY <1>6, <2>2, <2>3, <2>4, FinishCases
<1>7. CASE FailAttach
  <2>. PICK t : t = request.terminal
    OBVIOUS
  <2>1. /\ t \in Terminals /\ request' = NoRequest /\ subscribed' = subscribed \ {t}
        /\ UNCHANGED <<produced, stopped, expected, reliable, legacy>>
    BY <1>7, FailCases
  <2>2. ~Answering'
    BY <2>1, RequestTypes
  <2>3. CASE /\ close' = "1013" /\ task' = "exiting"
             /\ UNCHANGED <<priority, nextOrder, flow, attaching, replayRequired>>
    <3>1. \A u \in Terminals : Undisturbed(u)
      BY <1>0, <2>1, <2>3 DEF Undisturbed, Live, Refusing
    <3>2. \A u, e : Due(u, e)' => Due(u, e)
      BY <2>1, <2>3 DEF Due
    <3>. QED BY <1>1, <2>2, <2>3, <3>1, <3>2
  <2>4. ASSUME NEW f \in Frames, f.kind = "ended", f.terminal = t, PutPriority(f),
               flow' = Without(t), replayRequired' = replayRequired \ {t},
               attaching' = attaching \ {t}, UNCHANGED close
        PROVE  \A u \in Terminals \ attaching' : \A k \in Nat : Kept(u, k)'
    <3>1. Range(priority') = Range(priority) \cup {Queued(f)} /\ Queued(f) \in QueuedFrames
          /\ Queued(f).frame = f /\ Queued(f).order = nextOrder
      BY <2>4, LanesPut, PutTyped, QueuedIs
    <3>2. /\ \A u, e : u # t /\ Due(u, e)' => Due(u, e)
          /\ \A e : Due(t, e)' => e = 0
      BY <2>1, <2>4, <3>1, DueAdded
    <3>3. DOMAIN flow' = DOMAIN flow \ {t}
      BY <2>1, <2>4, WithoutTyped
    <3>4. \A u \in Terminals : Live(u)' => Live(u)
      BY <2>1, <2>4, <3>3 DEF Live, Refusing
    <3>5. \A u \in Terminals \ {t} : Undisturbed(u)
      BY <1>0, <2>1, <2>4, <3>4 DEF Undisturbed
    <3>6. ASSUME NEW u \in Terminals \ attaching', NEW k \in Nat PROVE Kept(u, k)'
      <4>1. CASE u = t
        <5>1. ~Due(t, k + 1)'
          BY <3>2
        <5>. QED BY <4>1, <5>1 DEF Kept
      <4>2. CASE u # t
        BY <1>1, <2>4, <3>2, <3>5, <4>2
      <4>. QED BY <4>1, <4>2
    <3>. QED BY <3>6
  <2>. QED BY <1>7, <2>2, <2>3, <2>4, FailCases
<1>8. CASE ForwardEvent \/ Reply
  <2>1. /\ task' \in {"running", "exiting"} /\ (close # "none" => close' # "none")
        /\ UNCHANGED <<produced, subscribed, flow, replayRequired, attaching, stopped, expected, legacy>>
        /\ \/ UNCHANGED <<priority, reliable, nextOrder>>
           \/ \E f \in Frames : f.kind \in {"text", "ended"} /\ PutReliable(f)
    BY <1>8, ReliableCases
  <2>2. \A g \in Range(reliable) : g \in Range(reliable')
    BY <2>1, LanesPut
  <2>3. \A u \in Terminals : Undisturbed(u)
    BY <1>0, <2>1, <2>2 DEF Undisturbed, Live, Refusing
  <2>4. \A u, e : Due(u, e)' => Due(u, e)
    <3>1. UNCHANGED <<priority, expected>>
      BY <2>1 DEF PutReliable
    <3>. QED BY <3>1 DEF Due
  <2>. QED BY <1>1, <2>1, <2>3, <2>4
<1>9. CASE Pop
  <2>1. /\ attaching = {} /\ expected' = Expect(out')
        /\ UNCHANGED <<produced, attaching, task, request>>
        /\ \A t : Live(t)' <=> Live(t)
    BY <1>9, PopCases
  <2>2. ~Answering'
    BY <2>1 DEF AttachSound
  <2>3. ASSUME NEW h \in QueuedFrames, out' = h.frame, h.frame.kind \in {"result", "ended"},
               h.frame.terminal \in Terminals, Range(priority) = Range(priority') \cup {h},
               \A q \in Range(priority') : h.order < q.order, UNCHANGED <<reliable, legacy>>
        PROVE  \A u \in Terminals \ attaching' : \A k \in Nat : Kept(u, k)'
    <3>1. \A u \in Terminals : \A e : Due(u, e)' => Due(u, e)
      BY <2>1, <2>3, DueSent
    <3>2. \A u \in Terminals : Undisturbed(u)
      BY <1>0, <2>1, <2>3 DEF Undisturbed
    <3>. QED BY <1>1, <2>1, <3>1, <3>2
  <2>4. ASSUME NEW h \in QueuedFrames, out' = h.frame, h.frame.kind \in {"text", "fence", "ended"},
               h.frame.kind # "text" => h.frame.terminal \in Terminals,
               Range(reliable) = Range(reliable') \cup {h},
               Range(priority) = {}, UNCHANGED <<priority, legacy>>
        PROVE  \A u \in Terminals \ attaching' : \A k \in Nat : Kept(u, k)'
    <3>1. ASSUME NEW u \in Terminals, Breaks(h, u) PROVE \A k \in Nat : Kept(u, k)'
      <4>1. expected'[u] = 0
        BY <2>1, <2>4, <3>1 DEF Breaks, Expect, TypeOK
      <4>2. \A k \in Nat : ~Due(u, k + 1)'
        BY <2>4, <4>1 DEF Due
      <4>. QED BY <4>2 DEF Kept
    <3>2. ASSUME NEW u \in Terminals, ~Breaks(h, u) PROVE \A k \in Nat : Kept(u, k)'
      <4>1. expected'[u] = expected[u]
        BY <2>1, <2>4, <3>2 DEF Breaks, Expect, TypeOK
      <4>2. Undisturbed(u)
        BY <1>0, <2>1, <2>4, <3>2 DEF Undisturbed
      <4>3. \A e : Due(u, e)' => Due(u, e)
        BY <2>4, <4>1 DEF Due
      <4>. QED BY <1>1, <2>1, <4>2, <4>3
    <3>. QED BY <3>1, <3>2
  <2>5. ASSUME NEW h \in QueuedFrames, out' = h.frame, h.frame.kind = "data",
               h.frame.terminal \in Terminals, Range(legacy) = Range(legacy') \cup {h},
               \A q \in Range(legacy') : h.order < q.order, ~Fenced(h),
               Range(priority) = {}, UNCHANGED <<priority, reliable>>
        PROVE  \A u \in Terminals \ attaching' : \A k \in Nat : Kept(u, k)'
    <3>. PICK t : t = h.frame.terminal
      OBVIOUS
    <3>1. expected' = IF expected[t] # 0 THEN [expected EXCEPT ![t] = h.frame.seq + 1] ELSE expected
      BY <2>1, <2>5 DEF Expect
    <3>2. expected \in [Terminals -> 0..(MaxSequence + 1)] /\ MaxSequence \in Nat
      BY FlowAssumption DEF TypeOK
    <3>3. ASSUME NEW u \in Terminals, u # t PROVE \A k \in Nat : Kept(u, k)'
      <4>1. expected'[u] = expected[u]
        BY <3>1, <3>2, <3>3
      <4>2. Undisturbed(u)
        BY <1>0, <2>1, <2>5, <3>3 DEF Undisturbed
      <4>3. \A e : Due(u, e)' => Due(u, e)
        BY <2>5, <4>1 DEF Due
      <4>. QED BY <1>1, <2>1, <4>2, <4>3
    <3>4. ASSUME NEW k \in Nat, Due(t, k + 1)' PROVE Continues(t, k)'
      <4>1. k + 1 = expected'[t]
        BY <2>5, <3>4 DEF Due
      <4>2. expected[t] # 0
        BY <3>1, <4>1
      <4>3. PICK n \in Nat : expected[t] = n + 1
        <5>1. expected[t] - 1 \in Nat
          BY <2>5, <3>2, <4>2
        <5>. QED BY <2>5, <3>2, <5>1
      <4>4. Due(t, n + 1)
        BY <2>5, <4>3 DEF Due
      <4>5. Continues(t, n)
        BY <2>1, <2>5, <4>4 DEF StreamsSound
      <4>6. h.frame.seq = n + 1 /\ Continues(t, n + 1)'
        BY <2>1, <2>5, <4>5, ContinuesFrom
      <4>7. k = n + 1
        BY <2>5, <3>1, <3>2, <4>1, <4>2, <4>6
      <4>. QED BY <4>6, <4>7
    <3>. QED BY <3>3, <3>4 DEF Kept
  <2>. QED BY <1>9, <2>2, <2>3, <2>4, <2>5, PopCases
<1>. QED BY <1>4, <1>5, <1>6, <1>7, <1>8, <1>9, QuietSteps
-----------------------------------------------------------------------------
(* What a slow client is told, and what its backlog may hold *)

\* The promise for one terminal.
Told(t) ==
  \/ stopped \/ close # "none"
  \/ \E f \in Range(reliable) : f.frame.kind = "fence" /\ f.frame.terminal = t
  \/ /\ t \notin attaching /\ expected[t] = 0
     /\ \A q \in Range(priority) : q.frame.terminal = t => q.frame.kind # "result"

\* It lasts while nothing but the reliable lane grows.
LEMMA ToldOn ==
  ASSUME NEW t, Told(t), stopped \/ close # "none" => stopped' \/ close' # "none",
         \A f \in Range(reliable) : f \in Range(reliable'),
         t \in attaching' => t \in attaching, UNCHANGED <<expected, priority>>
  PROVE  Told(t)'
BY DEF Told

LEMMA ReportedPreserved ==
  ASSUME TypeOK, LanesSound, AttachSound, Reported, TypeOK', [Next]_vars
  PROVE  Reported'
<1>0. \A t \in replayRequired : Told(t) /\ t \in Terminals
  BY DEF Reported, Told, TypeOK
<1>1. SUFFICES \A t \in replayRequired' : Told(t)'
  BY DEF Reported, Told
<1>2. CASE Quiet
  <2>1. ASSUME NEW t \in replayRequired' PROVE Told(t)'
    <3>1. t \in replayRequired /\ (t \in attaching' => t \in attaching)
          /\ (stopped \/ close # "none" => stopped' \/ close' # "none")
          /\ UNCHANGED <<priority, reliable, expected>>
      BY <1>2, <2>1 DEF Quiet
    <3>. QED BY <1>0, <3>1, ToldOn
  <2>. QED BY <2>1
<1>3. ASSUME NEW t \in Terminals, Produce(t) PROVE \A u \in replayRequired' : Told(u)'
  <2>1. UNCHANGED <<attaching, stopped, expected>>
    BY <1>3, ChunkCases
  <2>2. CASE UNCHANGED <<mailboxVars, flow, replayRequired, close>>
    BY <1>0, <2>1, <2>2, ToldOn DEF mailboxVars, controlLanes
  <2>3. CASE Live(t) /\ FenceOff(t) /\ UNCHANGED <<legacy>>
    <3>1. PICK f \in Frames :
            /\ f.kind = "fence" /\ f.terminal = t
            /\ \/ PutReliable(f) /\ UNCHANGED close
               \/ close' = "1013" /\ UNCHANGED <<priority, reliable, nextOrder>>
      BY <2>3, FenceCases DEF Live
    <3>2. replayRequired' = replayRequired \cup {t}
      BY <2>3, FenceCases DEF Live
    <3>3. CASE close' = "1013"
      BY <3>3 DEF Told
    <3>4. CASE PutReliable(f) /\ UNCHANGED close
      <4>1. Range(reliable') = Range(reliable) \cup {Queued(f)} /\ Queued(f).frame = f
            /\ UNCHANGED priority
        BY <3>4, LanesPut, QueuedIs DEF PutReliable
      <4>2. Told(t)'
        BY <3>1, <4>1 DEF Told
      <4>3. \A u \in replayRequired : Told(u)'
        BY <1>0, <2>1, <3>4, <4>1, ToldOn
      <4>. QED BY <3>2, <4>2, <4>3
    <3>. QED BY <3>1, <3>3, <3>4
  <2>4. CASE PutLegacy(Data(t, produced[t] + 1)) /\ UNCHANGED <<controlLanes, replayRequired, close>>
    BY <1>0, <2>1, <2>4, ToldOn DEF controlLanes
  <2>. QED BY <1>3, <2>2, <2>3, <2>4, ChunkCases
<1>4. CASE FinishAttach
  <2>. PICK t, n : t = request.terminal /\ n = request.snapshot
    OBVIOUS
  <2>1. t \in attaching /\ UNCHANGED <<stopped, expected, replayRequired, reliable>>
    BY <1>4, FinishCases
  <2>2. CASE close' = "1013"
    BY <2>2 DEF Told
  <2>3. ASSUME NEW f \in Frames, f.terminal = t, PutPriority(f), attaching' = attaching \ {t},
               UNCHANGED close, NEW u \in replayRequired
        PROVE  Told(u)'
    <3>1. Range(priority') = Range(priority) \cup {Queued(f)} /\ Queued(f).frame = f
      BY <2>3, LanesPut, QueuedIs
    <3>2. Told(u)
      BY <1>0, <2>3
    <3>. QED BY <2>1, <2>3, <3>1, <3>2 DEF Told
  <2>. QED BY <1>4, <2>1, <2>2, <2>3, FinishCases
<1>5. CASE FailAttach
  <2>. PICK t : t = request.terminal
    OBVIOUS
  <2>1. UNCHANGED <<stopped, expected, reliable>>
    BY <1>5, FailCases
  <2>2. CASE close' = "1013"
    BY <2>2 DEF Told
  <2>3. ASSUME NEW f \in Frames, f.terminal = t, PutPriority(f), replayRequired' = replayRequired \ {t},
               attaching' = attaching \ {t}, UNCHANGED close, NEW u \in replayRequired'
        PROVE  Told(u)'
    <3>1. Range(priority') = Range(priority) \cup {Queued(f)} /\ Queued(f).frame = f
      BY <2>3, LanesPut, QueuedIs
    <3>2. Told(u) /\ u # t
      BY <1>0, <2>3
    <3>. QED BY <2>1, <2>3, <3>1, <3>2 DEF Told
  <2>. QED BY <1>5, <2>2, <2>3, FailCases
<1>6. CASE ForwardEvent \/ Reply
  <2>1. /\ close # "none" => close' # "none"
        /\ UNCHANGED <<replayRequired, attaching, stopped, expected>>
        /\ \/ UNCHANGED <<priority, reliable, nextOrder>>
           \/ \E f \in Frames : f.kind \in {"text", "ended"} /\ PutReliable(f)
    BY <1>6, ReliableCases
  <2>2. (\A g \in Range(reliable) : g \in Range(reliable')) /\ UNCHANGED priority
    BY <2>1, LanesPut DEF PutReliable
  <2>. QED BY <1>0, <2>1, <2>2, ToldOn
<1>7. CASE Pop
  <2>1. /\ attaching = {} /\ expected' = Expect(out')
        /\ UNCHANGED <<replayRequired, attaching, close, stopped>>
    BY <1>7, PopCases
  <2>2. ASSUME NEW u \in replayRequired PROVE Told(u)'
    <3>1. Told(u) /\ u \in Terminals
      BY <1>0, <2>2
    <3>2. ASSUME NEW h \in QueuedFrames, out' = h.frame, h.frame.kind \in {"result", "ended"},
                 h.frame.terminal \in Terminals, Range(priority) = Range(priority') \cup {h},
                 UNCHANGED <<reliable, legacy>>
          PROVE  Told(u)'
      <4>1. h \in Range(priority) /\ \A q \in Range(priority') : q \in Range(priority)
        BY <3>2
      <4>2. u # h.frame.terminal => expected'[u] = expected[u]
        BY <2>1, <3>2 DEF Expect, TypeOK
      <4>3. u = h.frame.terminal /\ h.frame.kind # "result" => expected'[u] = 0
        BY <2>1, <3>1, <3>2 DEF Expect, TypeOK
      <4>. QED BY <2>1, <3>1, <3>2, <4>1, <4>2, <4>3 DEF Told
    <3>3. ASSUME NEW h \in QueuedFrames, out' = h.frame, h.frame.kind \in {"text", "fence", "ended"},
                 h.frame.kind # "text" => h.frame.terminal \in Terminals,
                 Range(reliable) = Range(reliable') \cup {h},
                 Range(priority) = {}, UNCHANGED <<priority, legacy>>
          PROVE  Told(u)'
      <4>1. Breaks(h, u) => expected'[u] = 0
        BY <2>1, <3>1, <3>3 DEF Breaks, Expect, TypeOK
      <4>2. ~Breaks(h, u) => expected'[u] = expected[u]
        BY <2>1, <3>1, <3>3 DEF Breaks, Expect, TypeOK
      <4>3. \A f \in Range(reliable) : f.frame.kind = "fence" /\ f.frame.terminal = u =>
              Breaks(h, u) \/ f \in Range(reliable')
        BY <3>3 DEF Breaks
      <4>. QED BY <2>1, <3>1, <3>3, <4>1, <4>2, <4>3 DEF Told
    <3>4. ASSUME NEW h \in QueuedFrames, out' = h.frame, h.frame.kind = "data",
                 UNCHANGED <<priority, reliable>>
          PROVE  Told(u)'
      <4>1. expected[u] = 0 => expected'[u] = 0
        BY <2>1, <3>1, <3>4 DEF Expect, TypeOK
      <4>. QED BY <2>1, <3>1, <3>4, <4>1 DEF Told
    <3>. QED BY <1>7, <3>2, <3>3, <3>4, PopCases
  <2>. QED BY <2>1, <2>2
<1>. QED BY <1>2, <1>3, <1>4, <1>5, <1>6, <1>7, QuietSteps

\* What waits of t past n holds credit.
Holds(t, n) ==
  \A q \in Range(legacy) :
    q.frame.terminal = t /\ q.frame.seq > n => q.frame.seq \in Range(flow[t].sent)

\* It lasts while frames leave the lane and credit is only added.
LEMMA HoldsOn ==
  ASSUME NEW t, NEW n, Holds(t, n),
         \A q \in Range(legacy') : q.frame.terminal = t => q \in Range(legacy),
         Range(flow[t].sent) \subseteq Range(flow'[t].sent)
  PROVE  Holds(t, n)'
BY DEF Holds

LEMMA HoldsAcknowledged ==
  ASSUME TypeOK, NEW t \in DOMAIN flow, NEW n \in 0..MaxSequence, flow'[t] = Acknowledge(flow[t], n),
         \A q \in Range(legacy') : q.frame.terminal = t =>
           /\ q \in Range(legacy)
           /\ q.frame.seq > n /\ q.frame.seq > flow[t].acknowledged => q.frame.seq \in Range(flow[t].sent)
  PROVE  Holds(t, flow[t].acknowledged)'
<1>1. flow[t] \in Flow
  BY DEF TypeOK
<1>2. /\ \A k \in Range(flow[t].sent) : k > n => k \in Range(flow'[t].sent)
      /\ n <= flow[t].acknowledged => flow'[t] = flow[t]
      /\ n > flow[t].acknowledged => flow'[t].acknowledged = n
  BY <1>1, AcknowledgeTyped
<1>3. flow[t].acknowledged \in Nat /\ n \in Nat
  BY <1>1, FlowAssumption DEF Flow
<1>. SUFFICES ASSUME NEW q \in Range(legacy'), q.frame.terminal = t,
                     q.frame.seq > flow'[t].acknowledged
              PROVE  q.frame.seq \in Range(flow'[t].sent)
  BY DEF Holds
<1>4. q \in Range(legacy) /\ q.frame.seq \in Nat
  BY QueuedTyped, FlowAssumption
<1>5. q.frame.seq > n /\ q.frame.seq > flow[t].acknowledged
  BY <1>2, <1>3, <1>4
<1>6. q.frame.seq \in Range(flow[t].sent)
  BY <1>5
<1>. QED BY <1>2, <1>3, <1>5, <1>6

LEMMA CreditedPreserved ==
  ASSUME TypeOK, LanesSound, AttachSound, Credited, TypeOK', AttachSound', [Next]_vars
  PROVE  Credited'
<1>. DEFINE Answering == task = "dispatching" /\ request.answered
            Slow == /\ \A t \in DOMAIN flow \ attaching : Holds(t, flow[t].acknowledged)
                    /\ Answering => Holds(request.terminal, request.snapshot)
<1>. SUFFICES ASSUME Protocol = 2, Slow PROVE Slow'
  BY DEF Credited, Holds
<1>1. CASE Quiet
  <2>1. /\ attaching \subseteq attaching' /\ UNCHANGED <<legacy, produced>>
        /\ \A t \in DOMAIN flow' \ (attaching' \ attaching) :
             /\ t \in DOMAIN flow
             /\ \/ flow'[t] = flow[t]
                \/ \E n \in 0..MaxSequence : task = "running" /\ flow'[t] = Acknowledge(flow[t], n)
    BY <1>1 DEF Quiet
  <2>2. ASSUME NEW t \in DOMAIN flow' \ attaching' PROVE Holds(t, flow[t].acknowledged)'
    <3>1. t \in DOMAIN flow /\ t \notin attaching /\ Holds(t, flow[t].acknowledged)
      BY <2>1, <2>2
    <3>2. CASE flow'[t] = flow[t]
      BY <2>1, <3>1, <3>2 DEF Holds
    <3>3. ASSUME NEW n \in 0..MaxSequence, flow'[t] = Acknowledge(flow[t], n)
          PROVE  Holds(t, flow[t].acknowledged)'
      <4>1. \A q \in Range(legacy') : q.frame.terminal = t =>
              /\ q \in Range(legacy)
              /\ q.frame.seq > flow[t].acknowledged => q.frame.seq \in Range(flow[t].sent)
        BY <2>1, <3>1 DEF Holds
      <4>. QED BY <3>1, <3>3, <4>1, HoldsAcknowledged
    <3>. QED BY <2>1, <2>2, <3>1, <3>2, <3>3
  <2>3. ASSUME Answering', Answering, request' = request
        PROVE  Holds(request.terminal, request.snapshot)'
    <3>. PICK t, n : t = request.terminal /\ n = request.snapshot
      OBVIOUS
    <3>1. t \in attaching /\ t \in DOMAIN flow' /\ task = "dispatching"
      BY <2>1, <2>3 DEF AttachSound, TypeOK
    <3>2. flow'[t] = flow[t] /\ Holds(t, n)
      BY <2>1, <2>3, <3>1
    <3>3. Holds(t, n)'
      BY <2>1, <3>2 DEF Holds
    <3>. QED BY <2>3, <3>3
  <2>4. ASSUME Snapshot PROVE Holds(request.terminal, request.snapshot)'
    <3>. PICK t : t = request.terminal
      OBVIOUS
    <3>1. t \in Terminals /\ request' = [request EXCEPT !.snapshot = produced[t], !.answered = TRUE]
          /\ request \in Requests /\ produced[t] \in 0..MaxSequence
      BY <2>4 DEF Snapshot, AttachSound, TypeOK
    <3>2. request'.terminal = t /\ request'.snapshot = produced[t]
      BY <3>1, RequestTypes
    <3>3. \A q \in Range(legacy) : q.frame.seq \in 0..MaxSequence
                                    /\ q.frame.seq <= produced[q.frame.terminal]
      BY QueuedTyped DEF LanesSound
    <3>4. Holds(t, produced[t])'
      BY <2>1, <3>1, <3>3, FlowAssumption DEF Holds
    <3>. QED BY <2>1, <3>2, <3>4
  <2>. QED BY <1>1, <2>2, <2>3, <2>4 DEF Quiet
<1>2. ASSUME NEW t \in Terminals, Produce(t) PROVE Slow'
  <2>1. /\ produced[t] + 1 \in 1..MaxSequence
        /\ UNCHANGED <<attaching, task, request>>
    BY <1>2, ChunkCases DEF taskVars
  <2>2. CASE UNCHANGED <<mailboxVars, flow, replayRequired, close>>
    BY <2>1, <2>2 DEF Holds, mailboxVars, legacyLane
  <2>3. ASSUME t \in DOMAIN flow, SetFlow(t, Reserve(flow[t], produced[t] + 1))
        PROVE  /\ DOMAIN flow' = DOMAIN flow
               /\ \A u \in DOMAIN flow : /\ flow'[u].acknowledged = flow[u].acknowledged
                                         /\ Range(flow[u].sent) \subseteq Range(flow'[u].sent)
               /\ produced[t] + 1 \in Range(flow'[t].sent)
    <3>1. flow[t] \in Flow
      BY <2>3 DEF TypeOK
    <3>. PICK k \in 1..MaxSequence : k = produced[t] + 1
      BY <2>1
    <3>. PICK f : f = Reserve(flow[t], k)
      OBVIOUS
    <3>2. f \in Flow /\ Range(f.sent) = Range(flow[t].sent) \cup {k} /\ f.acknowledged = flow[t].acknowledged
      BY <3>1, ReserveTyped
    <3>3. SetFlow(t, f)
      BY <2>3
    <3>4. DOMAIN flow' = DOMAIN flow \cup {t} /\ flow'[t] = f
          /\ \A u \in DOMAIN flow' \ {t} : flow'[u] = flow[u]
      BY <3>2, <3>3, SetFlowTyped
    <3>. QED BY <2>3, <3>2, <3>4
  <2>4. ASSUME Live(t), UNCHANGED legacy,
               flow' = flow \/ SetFlow(t, Reserve(flow[t], produced[t] + 1))
        PROVE  Slow'
    <3>1. /\ DOMAIN flow' = DOMAIN flow
          /\ \A u \in DOMAIN flow : /\ flow'[u].acknowledged = flow[u].acknowledged
                                    /\ Range(flow[u].sent) \subseteq Range(flow'[u].sent)
      BY <2>3, <2>4 DEF Live
    <3>2. request.terminal \in DOMAIN flow \/ ~Answering
      BY DEF AttachSound, TypeOK
    <3>. QED BY <2>1, <2>4, <3>1, <3>2 DEF Holds
  <2>5. ASSUME Live(t), PutLegacy(Data(t, produced[t] + 1)),
               SetFlow(t, Reserve(flow[t], produced[t] + 1))
        PROVE  Slow'
    <3>1. /\ DOMAIN flow' = DOMAIN flow
          /\ \A u \in DOMAIN flow : /\ flow'[u].acknowledged = flow[u].acknowledged
                                    /\ Range(flow[u].sent) \subseteq Range(flow'[u].sent)
          /\ produced[t] + 1 \in Range(flow'[t].sent)
      BY <2>3, <2>5 DEF Live
    <3>2. PICK f \in Frames : f = Data(t, produced[t] + 1)
      BY <2>1, FrameTypes
    <3>3. /\ Range(legacy') = Range(legacy) \cup {Queued(f)}
          /\ Queued(f).frame.terminal = t /\ Queued(f).frame.seq = produced[t] + 1
      BY <2>5, <3>2, LanesPut, QueuedIs DEF Data
    <3>4. \A u \in DOMAIN flow : \A n : Holds(u, n) => Holds(u, n)'
      BY <3>1, <3>3 DEF Holds
    <3>5. request.terminal \in DOMAIN flow \/ ~Answering
      BY DEF AttachSound, TypeOK
    <3>6. \A u \in DOMAIN flow' \ attaching' : Holds(u, flow[u].acknowledged)'
      BY <2>1, <3>1, <3>4 DEF Holds
    <3>7. Answering' => Holds(request.terminal, request.snapshot)'
      BY <2>1, <3>4, <3>5
    <3>. QED BY <3>6, <3>7
  <2>. QED BY <1>2, <2>2, <2>4, <2>5, ChunkCases
<1>3. CASE FinishAttach
  <2>. PICK t, n : t = request.terminal /\ n = request.snapshot
    OBVIOUS
  <2>1. /\ t \in DOMAIN flow /\ n \in 0..MaxSequence /\ request' = NoRequest
        /\ task = "dispatching" /\ request.answered
    BY <1>3, FinishCases
  <2>2. ~Answering' /\ Holds(t, n)
    BY <2>1, RequestTypes
  <2>3. CASE UNCHANGED <<legacy, flow, attaching>>
    BY <2>2, <2>3 DEF Holds
  <2>4. ASSUME Range(legacy') = {q \in Range(legacy) : ~Superseded(q, t, n)},
               flow' = [flow EXCEPT ![t] = Acknowledge(@, n)], attaching' = attaching \ {t}
        PROVE  Slow'
    <3>1. /\ DOMAIN flow' = DOMAIN flow /\ flow'[t] = Acknowledge(flow[t], n)
          /\ \A u \in DOMAIN flow' \ {t} : flow'[u] = flow[u]
      BY <2>1, <2>4, AcknowledgedTyped
    <3>2. \A q \in Range(legacy') : q.frame.terminal = t =>
            /\ q \in Range(legacy)
            /\ q.frame.seq > n => q.frame.seq \in Range(flow[t].sent)
      BY <2>2, <2>4 DEF Holds
    <3>3. Holds(t, flow[t].acknowledged)'
      BY <2>1, <3>1, <3>2, HoldsAcknowledged
    <3>4. ASSUME NEW u \in DOMAIN flow' \ attaching', u # t PROVE Holds(u, flow[u].acknowledged)'
      <4>1. u \in DOMAIN flow \ attaching /\ flow'[u] = flow[u]
        BY <2>4, <3>1, <3>4
      <4>2. Holds(u, flow[u].acknowledged)
        BY <4>1
      <4>. QED BY <2>4, <4>1, <4>2 DEF Holds
    <3>. QED BY <2>2, <3>3, <3>4
  <2>. QED BY <1>3, <2>3, <2>4, FinishCases
<1>4. CASE FailAttach
  <2>. PICK t : t = request.terminal
    OBVIOUS
  <2>1. t \in Terminals /\ request' = NoRequest /\ UNCHANGED legacy
    BY <1>4, FailCases
  <2>2. ~Answering'
    BY <2>1, RequestTypes
  <2>3. CASE UNCHANGED <<flow, attaching>>
    BY <2>1, <2>2, <2>3 DEF Holds
  <2>4. CASE flow' = Without(t) /\ attaching' = attaching \ {t}
    <3>1. DOMAIN flow' = DOMAIN flow \ {t} /\ \A u \in DOMAIN flow' : flow'[u] = flow[u]
      BY <2>1, <2>4, WithoutTyped
    <3>. QED BY <2>1, <2>2, <2>4, <3>1 DEF Holds
  <2>. QED BY <1>4, <2>3, <2>4, FailCases
<1>5. CASE ForwardEvent \/ Reply
  <2>1. UNCHANGED <<flow, attaching, legacy>> /\ task' \in {"running", "exiting"}
    BY <1>5, ReliableCases
  <2>. QED BY <2>1 DEF Holds
<1>6. CASE Pop
  <2>1. UNCHANGED <<flow, attaching, task, request>> /\ Range(legacy') \subseteq Range(legacy)
    BY <1>6, PopCases
  <2>. QED BY <2>1 DEF Holds
<1>. QED BY <1>1, <1>2, <1>3, <1>4, <1>5, <1>6, QuietSteps

-----------------------------------------------------------------------------
(* The theorems *)

LEMMA InvInit == Init => ConnInv
<1>. SUFFICES ASSUME Init PROVE ConnInv
  OBVIOUS
<1>1. /\ priority = <<>> /\ reliable = <<>> /\ legacy = <<>> /\ semantic = <<>> /\ nextOrder = 0
      /\ out = NoFrame /\ produced = [t \in Terminals |-> 0] /\ subscribed = {}
      /\ flow = <<>> /\ replayRequired = {} /\ attaching = {} /\ task = "running"
      /\ request = NoRequest /\ expected = [t \in Terminals |-> 0] /\ close = "none"
      /\ stopped = FALSE /\ permit = FALSE /\ notified = FALSE /\ writer = "idle"
  BY DEF Init, MailboxInit
<1>2. \A s : s = <<>> => Range(s) = {} /\ DOMAIN s = {} /\ s \in Seq(QueuedFrames)
  BY DEF Range
<1>3. Range(priority) = {} /\ Range(reliable) = {} /\ Range(legacy) = {} /\ DOMAIN semantic = {}
      /\ DOMAIN flow = {} /\ {priority, reliable, legacy} \subseteq Seq(QueuedFrames)
      /\ DOMAIN priority = {} /\ DOMAIN reliable = {} /\ DOMAIN legacy = {}
  BY <1>1, <1>2
<1>4. 0 \in 0..MaxSequence /\ 0 \in 0..(MaxSequence + 1) /\ MaxSequence \in Nat
  BY FlowAssumption
<1>5. TypeOK
  BY <1>1, <1>3, <1>4 DEF TypeOK
<1>6. LanesSound
  BY <1>1, <1>3 DEF LanesSound, Rising
<1>7. AttachSound
  BY <1>1, RequestTypes DEF AttachSound
<1>8. StreamsSound
  <2>1. \A t \in Terminals : \A n \in Nat : ~Due(t, n + 1)
    BY <1>1, <1>3 DEF Due
  <2>. QED BY <1>1, <2>1 DEF StreamsSound
<1>9. Reported /\ Credited
  BY <1>1, <1>3 DEF Reported, Credited
<1>. QED BY <1>5, <1>6, <1>7, <1>8, <1>9 DEF ConnInv

LEMMA InvNext == ConnInv /\ [Next]_vars => ConnInv'
<1>. SUFFICES ASSUME ConnInv, [Next]_vars PROVE ConnInv'
  OBVIOUS
<1>1. TypeOK /\ LanesSound /\ AttachSound /\ StreamsSound /\ Reported /\ Credited
  BY DEF ConnInv
<1>2. TypeOK'
  BY <1>1, TypePreserved
<1>3. LanesSound' /\ AttachSound'
  BY <1>1, <1>2, LanesPreserved
<1>4. StreamsSound'
  BY <1>1, <1>2, <1>3, StreamsPreserved
<1>5. Reported'
  BY <1>1, <1>2, ReportedPreserved
<1>6. Credited'
  BY <1>1, <1>2, <1>3, CreditedPreserved
<1>. QED BY <1>2, <1>3, <1>4, <1>5, <1>6 DEF ConnInv

LEMMA Invariance == Spec => []ConnInv
BY InvInit, InvNext, PTL DEF Spec

LEMMA InvPromises == ConnInv => OutboundInv
<1>. SUFFICES ASSUME ConnInv PROVE OutboundInv
  OBVIOUS
<1>1. TypeOK /\ Reported /\ Credited
  BY DEF ConnInv
<1>2. FenceReported
  <2>1. reliable \in Seq(QueuedFrames)
    BY <1>1 DEF TypeOK
  <2>2. DOMAIN reliable = 1..Len(reliable)
    BY <2>1
  <2>. QED BY <1>1, <2>2 DEF Reported, FenceReported, Range
<1>3. BacklogHoldsCredit
  <2>. SUFFICES ASSUME Protocol = 2, NEW t \in DOMAIN flow \ attaching, NEW q \in Range(legacy),
                       q.frame.terminal = t, q.frame.seq > flow[t].acknowledged
                PROVE  \E i \in 1..Len(flow[t].sent) : flow[t].sent[i] = q.frame.seq
    BY DEF BacklogHoldsCredit
  <2>1. q.frame.seq \in Range(flow[t].sent)
    BY <1>1 DEF Credited
  <2>2. flow[t].sent \in Seq(1..MaxSequence)
    BY <1>1 DEF TypeOK, Flow
  <2>3. DOMAIN flow[t].sent = 1..Len(flow[t].sent)
    BY <2>2
  <2>. QED BY <2>1, <2>3 DEF Range
<1>. QED BY <1>1, <1>2, <1>3 DEF OutboundInv

\* The connection's promises hold: its types; a terminal whose frames are rejected has told
\* its client or is about to; and what waits for a slow client holds credit.
THEOREM OutboundHolds == Spec => []OutboundInv
BY Invariance, InvPromises, PTL

\* A client that was sent an attach result is sent the terminal's next chunk each time,
\* until it is told that the stream broke (EventHub::emit_terminal, enqueue_attach_result and
\* ConnectionOutbound::next between them lose and repeat nothing silently).
THEOREM NothingSkipped == Spec => NoSilentGap
<1>1. ASSUME ConnInv, [Next]_vars,
             writer = "armed", writer' = "sending", out'.kind = "data"
      PROVE  expected[out'.terminal] \in {0, out'.seq}
  <2>1. TypeOK /\ LanesSound /\ AttachSound /\ StreamsSound
    BY <1>1 DEF ConnInv
  <2>2. Pop
    <3>1. UNCHANGED writer => FALSE
      BY <1>1
    <3>2. ~(UNCHANGED vars)
      BY <3>1 DEF vars, writerVars
    <3>3. Look
      BY <1>1, <3>1, <3>2 DEF Next, Produce, Detach, BeginAttach, ReceiveAck, Snapshot, FinishAttach,
         FailAttach, ForwardEvent, Reply, EnqueueReliable, Close, PeerCloses, Stop, Join, Arm, Park,
         Wake, Sent, WriterEnds, writerVars
    <3>. QED BY <1>1, <3>3 DEF Look, Pop, TakeClose, FindNothing
  <2>3. PICK h \in QueuedFrames :
          /\ out' = h.frame /\ h.frame.terminal \in Terminals
          /\ Range(legacy) = Range(legacy') \cup {h}
          /\ \A q \in Range(legacy') : h.order < q.order
          /\ ~Fenced(h)
          /\ Range(priority) = {} /\ UNCHANGED reliable
    BY <1>1, <2>1, <2>2, PopCases
  <2>. PICK t : t = h.frame.terminal
    OBVIOUS
  <2>4. attaching = {} /\ UNCHANGED produced /\ (Live(t)' => Live(t))
    BY <2>1, <2>2, PopCases
  <2>5. CASE expected[t] # 0
    <3>1. expected[t] \in Nat /\ expected[t] - 1 \in Nat
      BY <2>1, <2>3, <2>5, FlowAssumption DEF TypeOK
    <3>2. PICK n \in Nat : n = expected[t] - 1
      BY <3>1
    <3>3. expected[t] = n + 1
      BY ONLY <3>1, <3>2, n \in Nat
    <3>4. Due(t, n + 1)
      BY <2>3, <3>3 DEF Due
    <3>5. Continues(t, n)
      BY <2>1, <2>3, <2>4, <3>4 DEF StreamsSound
    <3>6. TypeOK'
      BY <1>1, <2>1, TypePreserved
    <3>7. h.frame.seq = n + 1
      BY <2>1, <2>3, <2>4, <3>5, <3>6, ContinuesFrom
    <3>. QED BY <2>3, <3>3, <3>7
  <2>6. CASE expected[t] = 0
    BY <2>3, <2>6
  <2>. QED BY <2>5, <2>6
<1>2. ConnInv /\ [Next]_vars =>
        [writer = "armed" /\ writer' = "sending" /\ out'.kind = "data"
           => expected[out'.terminal] \in {0, out'.seq}]_vars
  BY <1>1
<1>. QED BY <1>2, Invariance, PTL DEF Spec, NoSilentGap
=============================================================================
