------------------------- MODULE EventStreamProofs -------------------------
(***************************************************************************)
(* Theorems about EventStream, for any capacities and bounds: what the      *)
(* client's cursor passes over it has, or knows that it has not.            *)
(***************************************************************************)
EXTENDS EventStream, SequenceTheorems, WellFoundedInduction, TLAPS

(* Events and the messages that carry them *)

\* The events of E that message m makes known or passes over.
Through(E, m) == {n \in E : n.epoch = m.epoch /\ n.seq <= m.seq}

\* Those that the messages of s do.
Passed(E, s) ==
  {n \in E : \E j \in 1..Len(s) : n.epoch = s[j].epoch /\ n.seq <= s[j].seq}

\* Before an event in s comes every earlier one of E, except those in K.
Follows(E, s, K) ==
  \A i \in 1..Len(s) : s[i].kind = "event" =>
    \A n \in E : n.epoch = s[i].epoch /\ n.seq < s[i].seq =>
      \/ n \in K
      \/ \E j \in 1..(i - 1) : n.epoch = s[j].epoch /\ n.seq <= s[j].seq

\* Appending a message: what it passes, and when the sequence stays complete.
LEMMA AppendMessage ==
  ASSUME NEW M, NEW s \in Seq(M), NEW m \in M, NEW E, NEW K
  PROVE  /\ Passed(E, Append(s, m)) = Passed(E, s) \cup Through(E, m)
         /\ /\ Follows(E, s, K)
            /\ m.kind = "event" =>
                 \A n \in E : n.epoch = m.epoch /\ n.seq < m.seq =>
                   n \in K \cup Passed(E, s)
            => Follows(E, Append(s, m), K)
<1> DEFINE t == Append(s, m)
<1>1. /\ Len(s) \in Nat /\ Len(t) = Len(s) + 1 /\ t[Len(s) + 1] = m
      /\ \A i \in 1..Len(s) : t[i] = s[i]
  OBVIOUS
<1>2. Passed(E, t) = Passed(E, s) \cup Through(E, m)
  <2>1. ASSUME NEW n \in Passed(E, t) PROVE n \in Passed(E, s) \cup Through(E, m)
    <3>1. PICK j \in 1..Len(t) : n.epoch = t[j].epoch /\ n.seq <= t[j].seq
      BY <2>1 DEF Passed
    <3>. QED BY <1>1, <2>1, <3>1 DEF Passed, Through
  <2>2. ASSUME NEW n \in Passed(E, s) PROVE n \in Passed(E, t)
    <3>1. PICK j \in 1..Len(s) : n.epoch = s[j].epoch /\ n.seq <= s[j].seq
      BY <2>2 DEF Passed
    <3>2. j \in 1..Len(t) /\ t[j] = s[j]
      BY <1>1
    <3>. QED BY <2>2, <3>1, <3>2 DEF Passed
  <2>3. ASSUME NEW n \in Through(E, m) PROVE n \in Passed(E, t)
    <3>1. Len(s) + 1 \in 1..Len(t)
      BY <1>1
    <3>. QED BY <1>1, <2>3, <3>1 DEF Passed, Through
  <2>. QED BY <2>1, <2>2, <2>3
<1>3. ASSUME Follows(E, s, K),
             m.kind = "event" => \A n \in E : n.epoch = m.epoch /\ n.seq < m.seq =>
               n \in K \cup Passed(E, s)
      PROVE  Follows(E, t, K)
  <2> SUFFICES ASSUME NEW i \in 1..Len(t), t[i].kind = "event",
                      NEW n \in E, n.epoch = t[i].epoch, n.seq < t[i].seq
               PROVE  n \in K \/ \E j \in 1..(i - 1) : n.epoch = t[j].epoch /\ n.seq <= t[j].seq
    BY DEF Follows
  <2>1. CASE i \in 1..Len(s)
    <3>1. n \in K \/ \E j \in 1..(i - 1) : n.epoch = s[j].epoch /\ n.seq <= s[j].seq
      BY <1>1, <1>3, <2>1 DEF Follows
    <3>2. \A j \in 1..(i - 1) : t[j] = s[j]
      BY <1>1, <2>1
    <3>. QED BY <3>1, <3>2
  <2>2. CASE i = Len(s) + 1
    <3>1. n \in K \/ \E j \in 1..Len(s) : n.epoch = s[j].epoch /\ n.seq <= s[j].seq
      BY <1>1, <1>3, <2>2 DEF Passed
    <3>2. i - 1 = Len(s) /\ \A j \in 1..Len(s) : t[j] = s[j]
      BY <1>1, <2>2
    <3>. QED BY <3>1, <3>2
  <2>. QED BY <1>1, <2>1, <2>2
<1>. QED BY <1>2, <1>3

LEMMA AppendPasses ==
  ASSUME NEW M, NEW s \in Seq(M), NEW m \in M, NEW E
  PROVE  Passed(E, Append(s, m)) = Passed(E, s) \cup Through(E, m)
<1>. DEFINE K == {}
<1>. QED BY AppendMessage

\* Taking the first message: it moves from the sequence to what is known.
LEMMA TakeMessage ==
  ASSUME NEW M, NEW s \in Seq(M), s # <<>>, NEW E, NEW K
  PROVE  /\ Passed(E, s) = Through(E, Head(s)) \cup Passed(E, Tail(s))
         /\ Follows(E, s, K) => Follows(E, Tail(s), K \cup Through(E, Head(s)))
         /\ Follows(E, s, K) /\ Head(s).kind = "event" =>
              \A n \in E : n.epoch = Head(s).epoch /\ n.seq < Head(s).seq => n \in K
<1> DEFINE t == Tail(s)
<1>1. /\ Len(s) \in Nat /\ Len(s) >= 1 /\ Len(t) = Len(s) - 1 /\ Head(s) = s[1]
      /\ \A i \in 1..Len(t) : t[i] = s[i + 1]
  OBVIOUS
<1>2. Passed(E, s) = Through(E, Head(s)) \cup Passed(E, t)
  <2>1. ASSUME NEW n \in Passed(E, s) PROVE n \in Through(E, Head(s)) \cup Passed(E, t)
    <3>1. PICK j \in 1..Len(s) : n.epoch = s[j].epoch /\ n.seq <= s[j].seq
      BY <2>1 DEF Passed
    <3>2. CASE j = 1
      BY <1>1, <2>1, <3>1, <3>2 DEF Passed, Through
    <3>3. CASE j # 1
      <4>1. j - 1 \in 1..Len(t) /\ t[j - 1] = s[j]
        BY <1>1, <3>3
      <4>. QED BY <2>1, <3>1, <4>1 DEF Passed
    <3>. QED BY <3>2, <3>3
  <2>2. ASSUME NEW n \in Passed(E, t) PROVE n \in Passed(E, s)
    <3>1. PICK j \in 1..Len(t) : n.epoch = t[j].epoch /\ n.seq <= t[j].seq
      BY <2>2 DEF Passed
    <3>2. j + 1 \in 1..Len(s) /\ t[j] = s[j + 1]
      BY <1>1
    <3>. QED BY <2>2, <3>1, <3>2 DEF Passed
  <2>3. ASSUME NEW n \in Through(E, Head(s)) PROVE n \in Passed(E, s)
    <3>1. 1 \in 1..Len(s)
      BY <1>1
    <3>. QED BY <1>1, <2>3, <3>1 DEF Passed, Through
  <2>. QED BY <2>1, <2>2, <2>3
<1>3. ASSUME Follows(E, s, K) PROVE Follows(E, t, K \cup Through(E, Head(s)))
  <2> SUFFICES ASSUME NEW i \in 1..Len(t), t[i].kind = "event",
                      NEW n \in E, n.epoch = t[i].epoch, n.seq < t[i].seq
               PROVE  \/ n \in K \cup Through(E, Head(s))
                      \/ \E j \in 1..(i - 1) : n.epoch = t[j].epoch /\ n.seq <= t[j].seq
    BY DEF Follows
  <2>1. i + 1 \in 1..Len(s) /\ t[i] = s[i + 1]
    BY <1>1
  <2>2. n \in K \/ \E j \in 1..((i + 1) - 1) : n.epoch = s[j].epoch /\ n.seq <= s[j].seq
    BY <1>3, <2>1 DEF Follows
  <2>3. ASSUME NEW j \in 1..((i + 1) - 1), n.epoch = s[j].epoch, n.seq <= s[j].seq
        PROVE  \/ n \in Through(E, Head(s))
               \/ \E k \in 1..(i - 1) : n.epoch = t[k].epoch /\ n.seq <= t[k].seq
    <3>1. CASE j = 1
      BY <1>1, <2>3, <3>1 DEF Through
    <3>2. CASE j # 1
      <4>1. j - 1 \in 1..(i - 1) /\ t[j - 1] = s[j]
        BY <1>1, <2>1, <3>2
      <4>. QED BY <2>3, <4>1
    <3>. QED BY <3>1, <3>2
  <2>. QED BY <2>2, <2>3
<1>4. ASSUME Follows(E, s, K), Head(s).kind = "event",
             NEW n \in E, n.epoch = Head(s).epoch, n.seq < Head(s).seq
      PROVE  n \in K
  BY <1>1, <1>4 DEF Follows
<1>. QED BY <1>2, <1>3, <1>4

\* Knowing more of a sequence's epoch keeps it complete.
LEMMA KnowMore ==
  ASSUME NEW s, NEW E, NEW K, NEW L, NEW e, Follows(E, s, K),
         \A i \in 1..Len(s) : s[i].epoch = e,
         \A n \in E : n.epoch = e /\ n \in K => n \in L
  PROVE  Follows(E, s, L)
BY DEF Follows

\* A new event later than everything in the sequence keeps it complete.
LEMMA NewEvent ==
  ASSUME NEW s, NEW E, NEW K, NEW x, Follows(E, s, K),
         \A i \in 1..Len(s) : x.epoch = s[i].epoch => ~(x.seq < s[i].seq)
  PROVE  Follows(E \cup {x}, s, K)
BY DEF Follows

LEMMA PassedMonotonic ==
  ASSUME NEW s, NEW E, NEW F, E \subseteq F
  PROVE  Passed(E, s) \subseteq Passed(F, s)
BY DEF Passed

-----------------------------------------------------------------------------
(* The inductive invariant *)

\* The ring holds, in order, every event of this process that it has not dropped.
RingComplete ==
  /\ droppedThrough <= sequence
  /\ \A m \in emitted : m.epoch <= epoch /\ m.epoch >= 1 /\ m.seq >= 1
  /\ \A m \in emitted : m.epoch = epoch => m.seq <= sequence
  /\ \A i \in 1..Len(history) : /\ droppedThrough < history[i]
                                /\ [epoch |-> epoch, seq |-> history[i]] \in emitted
  /\ \A i, j \in 1..Len(history) : i < j => history[i] < history[j]
  /\ \A m \in emitted : m.epoch = epoch =>
       m.seq <= droppedThrough \/ \E i \in 1..Len(history) : history[i] = m.seq

\* The client's cursor belongs to the past of the process it names.
CursorInPast ==
  /\ clientEpoch <= epoch
  /\ clientEpoch = epoch => lastSequence <= sequence
  /\ clientEpoch = 0 => lastSequence = 0
  /\ overtaken <= lastSequence
  /\ cursor <= sequence
  /\ protocol = 1 => epoch = 1 /\ overtaken = 0 /\ status # "connected"

\* What client and task know of each other.
Phases ==
  /\ status = "disconnected" => wire = <<>> /\ socket = "none"
  /\ socket = "none" => receiver = <<>>
  /\ socket \in {"none", "subscribed"} => mailbox = <<>> /\ ~attached
  /\ socket = "subscribed" =>
       wire = <<>> /\ since = lastSequence /\ status = "synchronizing"
  /\ attached => status = "connected"
  /\ status = "connected" /\ socket # "none" => clientEpoch = epoch
  /\ socket \in {"open", "closing"} /\ protocol = 2 /\ status = "synchronizing" =>
       wire # <<>>

\* One message is genuine: of this process unless it is gone, not newer than the
\* hub's counter, and an event was emitted.
Genuine(m) ==
  /\ m.epoch <= epoch /\ m.epoch >= 1
  /\ m.epoch = epoch => m.seq <= sequence
  /\ m.kind = "event" => [epoch |-> m.epoch, seq |-> m.seq] \in emitted
  /\ m.kind = "frame" => status = "connected"

\* The wire holds one connection's messages; its snapshot is the first of them,
\* and its close the last.
WireShape ==
  \A i \in 1..Len(wire) :
    /\ Genuine(wire[i])
    /\ wire[i].epoch = wire[1].epoch
    /\ socket # "none" => wire[i].epoch = epoch
    /\ status = "connected" => wire[i].epoch = clientEpoch
    /\ wire[i].kind = "snapshot" =>
         /\ i = 1 /\ protocol = 2 /\ status = "synchronizing"
         /\ wire[i].epoch = clientEpoch => lastSequence <= wire[i].seq
    /\ protocol = 2 /\ status = "synchronizing" /\ i = 1 =>
         wire[i].kind \in {"snapshot", "close"}
    /\ wire[i].kind = "gap" => protocol = 1 /\ wire[i].floor = wire[i].seq + 1
    /\ wire[i].kind = "close" => i = Len(wire) /\ socket = "none"

QueueShape ==
  /\ \A i \in 1..Len(mailbox) : /\ Genuine(mailbox[i])
                                /\ mailbox[i].epoch = epoch
                                /\ mailbox[i].kind \in {"event", "frame"}
  /\ \A i \in 1..Len(receiver) : /\ Genuine(receiver[i])
                                 /\ receiver[i].epoch = epoch
                                 /\ receiver[i].kind = "event"

\* A frame is newer than the client's cursor and everything sent before it.
FramesAhead ==
  /\ \A i \in 1..Len(wire) : wire[i].kind = "frame" =>
       /\ lastSequence < wire[i].seq
       /\ \A j \in 1..(i - 1) : wire[j].seq < wire[i].seq
  /\ \A i \in 1..Len(mailbox) : mailbox[i].kind = "frame" =>
       /\ lastSequence < mailbox[i].seq
       /\ \A j \in 1..Len(wire) : wire[j].seq < mailbox[i].seq
       /\ \A j \in 1..(i - 1) : mailbox[j].seq < mailbox[i].seq

\* The events of which the client need not hear any more.
Settled ==
  {n \in emitted : n \in covered \/ (n.epoch = clientEpoch /\ n.seq <= overtaken)}

OnWire == Settled \cup Passed(emitted, wire)
Sent == OnWire \cup Passed(emitted, mailbox)
Current == {n \in emitted : n.epoch = epoch}

\* Nothing is missing in what is on its way to the client.
StreamComplete ==
  /\ Follows(emitted, wire, Settled)
  /\ Follows(emitted, mailbox, OnWire)
  /\ socket = "open" /\ ~lagged =>
       /\ Follows(emitted, receiver, Sent)
       /\ Current \subseteq Sent \cup Passed(emitted, receiver)
  /\ socket = "open" /\ protocol = 2 => EmittedThrough(epoch, cursor) \subseteq OnWire

\* NoLostEvent in terms of what is settled.
CursorSettled == EmittedThrough(clientEpoch, lastSequence) \subseteq Settled

StreamInv ==
  /\ TypeOK /\ RingComplete /\ CursorInPast /\ Phases /\ WireShape /\ QueueShape
  /\ FramesAhead /\ StreamComplete /\ CursorSettled
-----------------------------------------------------------------------------
(* The steps of the hub *)

LEMMA MessageTypes ==
  ASSUME NEW n \in Nat, epoch \in Nat
  PROVE  {Event(n), Frame(n), Snapshot(n), Close} \subseteq Messages
BY DEF Event, Frame, Snapshot, Close, Messages

LEMMA MessageFields ==
  ASSUME TypeOK
  PROVE  /\ \A i \in 1..Len(wire) :
              wire[i] \in Messages /\ wire[i].epoch \in Nat /\ wire[i].seq \in Nat
         /\ \A i \in 1..Len(mailbox) :
              mailbox[i] \in Messages /\ mailbox[i].epoch \in Nat /\ mailbox[i].seq \in Nat
         /\ \A i \in 1..Len(receiver) :
              receiver[i] \in Messages /\ receiver[i].epoch \in Nat /\ receiver[i].seq \in Nat
<1>1. \A m \in Messages : m.epoch \in Nat /\ m.seq \in Nat
  BY DEF Messages
<1>. QED BY <1>1 DEF TypeOK

\* The ring after one more event, before and after it is cut to its capacity.
LEMMA RingGrows ==
  ASSUME TypeOK, RingComplete, LimitsAssumption,
         sequence' = sequence + 1, epoch' = epoch,
         history' = Retained(Append(history, sequence + 1)),
         droppedThrough' = DroppedAfter(Append(history, sequence + 1)),
         emitted' = emitted \cup {[epoch |-> epoch, seq |-> sequence + 1]}
  PROVE  /\ RingComplete'
         /\ history' \in Seq(Nat) /\ Len(history') <= HistoryCapacity
         /\ droppedThrough' \in Nat
<1> DEFINE h == Append(history, sequence + 1)
           x == [epoch |-> epoch, seq |-> sequence + 1]
<1>0. /\ sequence \in Nat /\ epoch \in Nat \ {0} /\ droppedThrough \in Nat
      /\ history \in Seq(Nat) /\ Len(history) <= HistoryCapacity
      /\ emitted \subseteq [epoch : Nat, seq : Nat] /\ HistoryCapacity \in Nat
  BY DEF TypeOK, LimitsAssumption
<1>1. /\ h \in Seq(Nat) /\ Len(h) = Len(history) + 1 /\ Len(history) \in Nat
      /\ \A i \in 1..Len(history) : h[i] = history[i]
      /\ h[Len(history) + 1] = sequence + 1
  BY <1>0
<1>2. \A i \in 1..Len(history) : history[i] <= sequence /\ history[i] \in Nat
  <2> SUFFICES ASSUME NEW i \in 1..Len(history)
               PROVE  history[i] <= sequence /\ history[i] \in Nat
    OBVIOUS
  <2>. QED BY <1>0 DEF RingComplete
<1>3. /\ \A i \in 1..Len(h) : /\ droppedThrough < h[i]
                              /\ [epoch |-> epoch, seq |-> h[i]] \in emitted'
      /\ \A i, j \in 1..Len(h) : i < j => h[i] < h[j]
  <2>1. \A i \in 1..Len(h) : i \in 1..Len(history) \/ i = Len(history) + 1
    BY <1>1
  <2>2. ASSUME NEW i \in 1..Len(h)
        PROVE  droppedThrough < h[i] /\ [epoch |-> epoch, seq |-> h[i]] \in emitted'
    <3>1. CASE i \in 1..Len(history)
      BY <1>1, <3>1 DEF RingComplete
    <3>2. CASE i = Len(history) + 1
      BY <1>0, <1>1, <3>2 DEF RingComplete
    <3>. QED BY <2>1, <3>1, <3>2
  <2>3. ASSUME NEW i \in 1..Len(h), NEW j \in 1..Len(h), i < j PROVE h[i] < h[j]
    <3>1. i \in 1..Len(history)
      BY <1>1, <2>3
    <3>2. CASE j \in 1..Len(history)
      BY <1>1, <2>3, <3>1, <3>2 DEF RingComplete
    <3>3. CASE j = Len(history) + 1
      BY <1>0, <1>1, <1>2, <3>1, <3>3
    <3>. QED BY <2>1, <3>2, <3>3
  <2>. QED BY <2>2, <2>3
<1>4. \A m \in emitted' : m.epoch = epoch =>
        m.seq <= droppedThrough \/ \E i \in 1..Len(h) : h[i] = m.seq
  <2> SUFFICES ASSUME NEW m \in emitted', m.epoch = epoch, ~(m.seq <= droppedThrough)
               PROVE  \E i \in 1..Len(h) : h[i] = m.seq
    OBVIOUS
  <2>1. CASE m = x
    <3>1. Len(history) + 1 \in 1..Len(h)
      BY <1>1
    <3>. QED BY <1>1, <2>1, <3>1
  <2>2. CASE m \in emitted
    <3>1. PICK i \in 1..Len(history) : history[i] = m.seq
      BY <2>2 DEF RingComplete
    <3>2. i \in 1..Len(h)
      BY <1>1
    <3>. QED BY <1>1, <3>1, <3>2
  <2>. QED BY <2>1, <2>2
<1>5. /\ \A m \in emitted' : m.epoch <= epoch /\ m.epoch >= 1 /\ m.seq >= 1
      /\ \A m \in emitted' : m.epoch = epoch => m.seq <= sequence + 1
  BY <1>0 DEF RingComplete
<1>a. history' = Retained(h) /\ droppedThrough' = DroppedAfter(h)
  OBVIOUS
<1> HIDE DEF h, x
<1>6. CASE Len(h) <= HistoryCapacity
  <2>1. history' = h /\ droppedThrough' = droppedThrough
    BY <1>0, <1>1, <1>6, <1>a DEF Retained, DroppedAfter
  <2>2. RingComplete'
    <3>1. droppedThrough' <= sequence'
      BY <1>0, <2>1 DEF RingComplete
    <3>2. /\ \A i \in 1..Len(history') : /\ droppedThrough' < history'[i]
                                         /\ [epoch |-> epoch', seq |-> history'[i]] \in emitted'
          /\ \A i, j \in 1..Len(history') : i < j => history'[i] < history'[j]
      BY <1>3, <2>1
    <3>3. \A m \in emitted' : m.epoch = epoch' =>
            m.seq <= droppedThrough' \/ \E i \in 1..Len(history') : history'[i] = m.seq
      BY <1>4, <2>1
    <3>. QED BY <1>5, <3>1, <3>2, <3>3 DEF RingComplete
  <2>. QED BY <1>0, <1>1, <1>6, <2>1, <2>2
<1>7. CASE Len(h) > HistoryCapacity
  <2>1. history' = Tail(h) /\ droppedThrough' = h[1] /\ h[1] \in Nat /\ h # <<>>
    <3>1. h # <<>> /\ h[1] \in Nat
      BY <1>1
    <3>2. Head(h) = h[1]
      BY <1>1, <3>1
    <3>. QED BY <1>7, <1>a, <3>1, <3>2 DEF Retained, DroppedAfter
  <2>2. /\ Tail(h) \in Seq(Nat) /\ Len(Tail(h)) = Len(history)
        /\ \A i \in 1..Len(history) : Tail(h)[i] = h[i + 1]
    BY <1>1, <2>1
  <2>3. h[1] <= sequence + 1
    <3>1. CASE Len(history) = 0
      BY <1>0, <1>1, <3>1
    <3>2. CASE Len(history) # 0
      <4>1. 1 \in 1..Len(history)
        BY <1>1, <3>2
      <4>. QED BY SMTT(30), <1>0, <1>1, <1>2, <4>1
    <3>. QED BY <3>1, <3>2
  <2>4. RingComplete'
    <3>1. \A i \in 1..Len(history) : i + 1 \in 1..Len(h) /\ 1 \in 1..Len(h) /\ 1 < i + 1
      BY <1>1
    <3>2. ASSUME NEW m \in emitted', m.epoch = epoch
          PROVE  m.seq <= h[1] \/ \E i \in 1..Len(history) : Tail(h)[i] = m.seq
      <4>1. CASE m.seq <= droppedThrough
        <5>1. 1 \in 1..Len(h)
          BY <1>1
        <5>2. m.seq \in Nat
          BY <1>0, <3>2
        <5>3. droppedThrough < h[1]
          BY <1>3, <5>1
        <5>. QED BY <1>0, <2>1, <4>1, <5>2, <5>3
      <4>2. CASE \E i \in 1..Len(h) : h[i] = m.seq
        <5>1. PICK i \in 1..Len(h) : h[i] = m.seq
          BY <4>2
        <5>2. CASE i = 1
          BY <2>1, <5>1, <5>2
        <5>3. CASE i # 1
          <6>1. i - 1 \in 1..Len(history) /\ (i - 1) + 1 = i
            BY <1>1, <5>3
          <6>. QED BY <2>2, <5>1, <6>1
        <5>. QED BY <5>2, <5>3
      <4>. QED BY <1>4, <3>2, <4>1, <4>2
    <3>3. \A i \in 1..Len(history) : /\ h[1] < Tail(h)[i]
                                    /\ [epoch |-> epoch, seq |-> Tail(h)[i]] \in emitted'
      BY <1>3, <2>2, <3>1
    <3>4. \A i, j \in 1..Len(history) : i < j => Tail(h)[i] < Tail(h)[j]
      BY <1>3, <2>2, <3>1
    <3>5. history' = Tail(h) /\ droppedThrough' = h[1] /\ Len(Tail(h)) = Len(history)
      BY <2>1, <2>2
    <3>6. \A m \in emitted' : m.epoch = epoch' =>
            m.seq <= droppedThrough' \/ \E i \in 1..Len(history') : history'[i] = m.seq
      BY <3>2, <3>5
    <3>7. \A i \in 1..Len(history') : /\ droppedThrough' < history'[i]
                                     /\ [epoch |-> epoch', seq |-> history'[i]] \in emitted'
      BY <3>3, <3>5
    <3>8. \A i, j \in 1..Len(history') : i < j => history'[i] < history'[j]
      BY <3>4, <3>5
    <3>. QED BY <1>5, <2>3, <3>5, <3>6, <3>7, <3>8 DEF RingComplete
  <2>. QED BY <1>0, <2>1, <2>2, <2>4
<1>. QED BY <1>0, <1>1, <1>6, <1>7
\* What an open or subscribed receiver becomes when the hub broadcasts m.
LEMMA Broadcasts ==
  ASSUME TypeOK, LimitsAssumption, NEW m \in Messages, Broadcast(m)
  PROVE  /\ receiver' \in Seq(Messages) /\ Len(receiver') <= BroadcastCapacity
         /\ lagged' \in BOOLEAN
         /\ \/ /\ socket \notin {"subscribed", "open"}
               /\ receiver' = receiver /\ lagged' = lagged
            \/ /\ socket \in {"subscribed", "open"}
               /\ receiver' = Append(receiver, m) /\ lagged' = lagged
            \/ /\ socket \in {"subscribed", "open"}
               /\ receiver' = Tail(Append(receiver, m)) /\ lagged' = TRUE
         /\ \A i \in 1..Len(receiver') :
              receiver'[i] = m \/ \E j \in 1..Len(receiver) : receiver'[i] = receiver[j]
<1> DEFINE r == Append(receiver, m)
<1>1. /\ receiver \in Seq(Messages) /\ Len(receiver) <= BroadcastCapacity
      /\ lagged \in BOOLEAN /\ BroadcastCapacity \in Nat
  BY DEF TypeOK, LimitsAssumption
<1>2. /\ r \in Seq(Messages) /\ Len(r) = Len(receiver) + 1 /\ r # <<>>
      /\ \A i \in 1..Len(r) : r[i] = m \/ \E j \in 1..Len(receiver) : r[i] = receiver[j]
  <2>1. /\ r \in Seq(Messages) /\ Len(r) = Len(receiver) + 1 /\ r[Len(r)] = m
        /\ \A i \in 1..Len(receiver) : r[i] = receiver[i]
    BY <1>1
  <2>2. \A i \in 1..Len(r) : i = Len(r) \/ i \in 1..Len(receiver)
    BY <1>1, <2>1
  <2>. QED BY <1>1, <2>1, <2>2
<1>3. CASE socket \notin {"subscribed", "open"}
  BY <1>1, <1>3 DEF Broadcast
<1>a. CASE socket \in {"subscribed", "open"}
  <2>1. \/ Len(r) > BroadcastCapacity /\ receiver' = Tail(r) /\ lagged' = TRUE
        \/ ~(Len(r) > BroadcastCapacity) /\ receiver' = r /\ lagged' = lagged
    BY <1>a DEF Broadcast
  <2> HIDE DEF r
  <2>2. /\ Tail(r) \in Seq(Messages) /\ Len(Tail(r)) = Len(r) - 1
        /\ \A i \in 1..Len(Tail(r)) : Tail(r)[i] = r[i + 1] /\ i + 1 \in 1..Len(r)
    BY <1>2
  <2>3. Len(receiver) \in Nat
    BY <1>1
  <2>4. CASE Len(r) > BroadcastCapacity /\ receiver' = Tail(r) /\ lagged' = TRUE
    <3>1. \A i \in 1..Len(receiver') :
            receiver'[i] = m \/ \E j \in 1..Len(receiver) : receiver'[i] = receiver[j]
      BY SMTT(30), <1>2, <2>2, <2>4
    <3>2. Len(receiver') <= BroadcastCapacity
      BY <1>1, <1>2, <2>2, <2>3, <2>4
    <3>. QED BY <1>1, <1>2, <1>a, <2>2, <2>4, <3>1, <3>2 DEF r
  <2>5. CASE ~(Len(r) > BroadcastCapacity) /\ receiver' = r /\ lagged' = lagged
    <3>1. Len(receiver') <= BroadcastCapacity
      BY <1>1, <1>2, <2>3, <2>5
    <3>2. \A i \in 1..Len(receiver') :
            receiver'[i] = m \/ \E j \in 1..Len(receiver) : receiver'[i] = receiver[j]
      BY <1>2, <2>5
    <3>. QED BY <1>1, <1>2, <1>a, <2>5, <3>1, <3>2 DEF r
  <2>. QED BY <2>1, <2>4, <2>5
<1>. QED BY <1>3, <1>a

\* emit adds the newest event of all to the end of the stream.
LEMMA EmitStep ==
  ASSUME StreamInv, LimitsAssumption, Emit
  PROVE  StreamInv'
<1> DEFINE n == sequence + 1
           x == [epoch |-> epoch, seq |-> n]
<1> USE DEF StreamInv
<1>1. /\ sequence' = n /\ n \in Nat /\ epoch' = epoch /\ epoch \in Nat \ {0} /\ sequence \in Nat
      /\ history' = Retained(Append(history, n))
      /\ droppedThrough' = DroppedAfter(Append(history, n))
      /\ emitted' = emitted \cup {x}
      /\ Broadcast(Event(n))
      /\ UNCHANGED <<epoch, restarts, socket, since, cursor, attached, mailbox,
                     wire, clientVars, frames, disconnects, protocol>>
  BY DEF Emit, TypeOK
<1>2. /\ RingComplete'
      /\ history' \in Seq(Nat) /\ Len(history') <= HistoryCapacity
      /\ droppedThrough' \in Nat
  BY <1>1, RingGrows
<1>3. Event(n) \in Messages /\ Event(n) = [kind |-> "event", epoch |-> epoch, seq |-> n]
  BY <1>1, MessageTypes DEF Event
<1>4. /\ receiver' \in Seq(Messages) /\ Len(receiver') <= BroadcastCapacity
      /\ lagged' \in BOOLEAN
      /\ \/ /\ socket \notin {"subscribed", "open"}
            /\ receiver' = receiver /\ lagged' = lagged
         \/ /\ socket \in {"subscribed", "open"}
            /\ receiver' = Append(receiver, Event(n)) /\ lagged' = lagged
         \/ /\ socket \in {"subscribed", "open"}
            /\ receiver' = Tail(Append(receiver, Event(n))) /\ lagged' = TRUE
      /\ \A i \in 1..Len(receiver') :
           receiver'[i] = Event(n) \/ \E j \in 1..Len(receiver) : receiver'[i] = receiver[j]
  BY <1>1, <1>3, Broadcasts
<1> HIDE DEF n, x
<1>5. TypeOK'
  <2>1. x \in [epoch : Nat, seq : Nat]
    BY <1>1 DEF x
  <2>. QED BY <1>1, <1>2, <1>4, <2>1 DEF TypeOK, clientVars
<1>6. CursorInPast'
  BY <1>1 DEF CursorInPast, TypeOK, clientVars, n
<1>7. Phases'
  BY <1>1, <1>4 DEF Phases, clientVars
<1>a. \A e, q \in Nat : e <= epoch /\ (e = epoch => q <= sequence) =>
        (e = epoch => q <= n) /\ ~(e = epoch /\ n < q)
  BY <1>1 DEF n
<1>8. WireShape'
  BY ZenonT(40), <1>1, <1>a, MessageFields DEF WireShape, Genuine, clientVars
<1>9. QueueShape'
  <2>1. \A i \in 1..Len(mailbox) : mailbox[i] \in Messages
    BY DEF TypeOK
  <2>2. \A i \in 1..Len(mailbox') : /\ Genuine(mailbox[i])'
                                   /\ mailbox'[i].epoch = epoch'
                                   /\ mailbox'[i].kind \in {"event", "frame"}
    BY <1>1, <1>a, MessageFields DEF QueueShape, Genuine, clientVars
  <2>3. ASSUME NEW i \in 1..Len(receiver')
        PROVE  /\ Genuine(receiver[i])'
               /\ receiver'[i].epoch = epoch'
               /\ receiver'[i].kind = "event"
    <3>1. CASE receiver'[i] = Event(n)
      BY <1>1, <1>3, <3>1 DEF Genuine, n, x
    <3>2. CASE \E j \in 1..Len(receiver) : receiver'[i] = receiver[j]
      BY ZenonT(40), <1>1, <1>4, <1>a, <3>2, MessageFields DEF QueueShape, Genuine, clientVars
    <3>. QED BY <1>4, <3>1, <3>2
  <2>. QED BY <2>2, <2>3 DEF QueueShape
<1>10. FramesAhead'
  BY <1>1 DEF FramesAhead, clientVars
<1>11. Settled \subseteq Settled'
  BY <1>1 DEF Settled, clientVars
<1>12. /\ OnWire \subseteq OnWire' /\ Sent \subseteq Sent'
       /\ Passed(emitted, receiver) \subseteq Passed(emitted', receiver)
  BY <1>1, <1>11, PassedMonotonic DEF OnWire, Sent
<1>13. Follows(emitted', wire', Settled')
  <2>1. \A i \in 1..Len(wire) : x.epoch = wire[i].epoch => ~(x.seq < wire[i].seq)
    BY <1>1, <1>a, MessageFields DEF WireShape, Genuine, x
  <2>2. Follows(emitted \cup {x}, wire, Settled)
    BY <2>1, NewEvent DEF StreamComplete
  <2>3. \A i \in 1..Len(wire) : wire[i].epoch = wire[1].epoch
    BY DEF WireShape
  <2>. QED BY <1>1, <1>11, <2>2, <2>3, KnowMore
<1>14. Follows(emitted', mailbox', OnWire')
  <2>1. \A i \in 1..Len(mailbox) : x.epoch = mailbox[i].epoch => ~(x.seq < mailbox[i].seq)
    BY <1>1, <1>a, MessageFields DEF QueueShape, Genuine, x
  <2>2. Follows(emitted \cup {x}, mailbox, OnWire)
    BY <2>1, NewEvent DEF StreamComplete
  <2>3. \A i \in 1..Len(mailbox) : mailbox[i].epoch = epoch
    BY DEF QueueShape
  <2>. QED BY <1>1, <1>12, <2>2, <2>3, KnowMore
<1>15. ASSUME socket' = "open", ~lagged'
       PROVE  /\ Follows(emitted', receiver', Sent')
              /\ Current' \subseteq Sent' \cup Passed(emitted', receiver')
  <2>1. socket = "open" /\ ~lagged /\ receiver' = Append(receiver, Event(n))
    BY <1>1, <1>4, <1>15
  <2>2. /\ Follows(emitted, receiver, Sent)
        /\ Current \subseteq Sent \cup Passed(emitted, receiver)
    BY <2>1 DEF StreamComplete
  <2>3. \A i \in 1..Len(receiver) : x.epoch = receiver[i].epoch => ~(x.seq < receiver[i].seq)
    BY <1>1, <1>a, MessageFields DEF QueueShape, Genuine, x
  <2>4. Follows(emitted', receiver, Sent')
    <3>1. \A i \in 1..Len(receiver) : receiver[i].epoch = epoch
      BY DEF QueueShape
    <3>2. Follows(emitted \cup {x}, receiver, Sent)
      BY <2>2, <2>3, NewEvent
    <3>. QED BY <1>1, <1>12, <3>1, <3>2, KnowMore
  <2>5. \A m \in emitted' : m.epoch = epoch /\ m.seq < n =>
          m \in Sent' \cup Passed(emitted', receiver)
    <3>1. x \notin {m \in emitted' : m.seq < n}
      BY <1>1 DEF x
    <3>. QED BY <1>1, <1>12, <2>2, <3>1 DEF Current
  <2>6. receiver \in Seq(Messages)
    BY DEF TypeOK
  <2>7. /\ Passed(emitted', receiver') = Passed(emitted', receiver) \cup Through(emitted', Event(n))
        /\ Follows(emitted', receiver', Sent')
    BY <1>3, <2>1, <2>4, <2>5, <2>6, AppendMessage
  <2>8. x \in Through(emitted', Event(n))
    BY <1>1, <1>3 DEF Through, x
  <2>. QED BY <1>1, <1>12, <2>2, <2>7, <2>8 DEF Current
<1>16. socket' = "open" /\ protocol' = 2 => EmittedThrough(epoch, cursor)' \subseteq OnWire'
  <2>1. EmittedThrough(epoch, cursor)' = EmittedThrough(epoch, cursor)
    BY SMTT(30), <1>1 DEF EmittedThrough, CursorInPast, TypeOK, n, x
  <2>. QED BY <1>1, <1>12, <2>1 DEF StreamComplete
<1>17. CursorSettled'
  <2>1. EmittedThrough(clientEpoch, lastSequence)' = EmittedThrough(clientEpoch, lastSequence)
    BY SMTT(30), <1>1 DEF EmittedThrough, CursorInPast, TypeOK, clientVars, n, x
  <2>. QED BY <1>11, <2>1 DEF CursorSettled
<1>18. StreamComplete'
  BY <1>13, <1>14, <1>15, <1>16 DEF StreamComplete
<1>. QED BY <1>2, <1>5, <1>6, <1>7, <1>8, <1>9, <1>10, <1>17, <1>18
\* emit_terminal adds the newest message of all, ahead of what the receiver holds.
LEMMA EmitTerminalStep ==
  ASSUME StreamInv, LimitsAssumption, EmitTerminal
  PROVE  StreamInv'
<1> DEFINE n == sequence + 1
<1> USE DEF StreamInv
<1>1. /\ sequence' = n /\ n \in Nat /\ epoch \in Nat \ {0} /\ sequence \in Nat /\ frames' \in Nat
      /\ mailbox' = IF socket = "open" /\ attached
                      THEN Append(mailbox, Frame(n)) ELSE mailbox
      /\ UNCHANGED <<epoch, history, droppedThrough, emitted, restarts, socket,
                     since, cursor, receiver, lagged, attached, wire, clientVars,
                     disconnects, protocol>>
  BY SMTT(30) DEF EmitTerminal, TypeOK
<1>2. Frame(n) \in Messages /\ Frame(n) = [kind |-> "frame", epoch |-> epoch, seq |-> n]
  BY <1>1, MessageTypes DEF Frame
<1>3. mailbox \in Seq(Messages)
  BY DEF TypeOK
<1>a. \A e, q \in Nat : e <= epoch /\ (e = epoch => q <= sequence) =>
        (e = epoch => q <= n) /\ (e = epoch => q < n)
  BY <1>1
<1>b. /\ mailbox' \in Seq(Messages)
      /\ \/ mailbox' = mailbox
         \/ /\ socket = "open" /\ attached /\ mailbox' = Append(mailbox, Frame(n))
            /\ Len(mailbox') = Len(mailbox) + 1 /\ Len(mailbox) \in Nat
            /\ mailbox'[Len(mailbox) + 1] = Frame(n)
            /\ \A i \in 1..Len(mailbox) : mailbox'[i] = mailbox[i]
  BY <1>1, <1>2, <1>3
<1>c. attached /\ socket = "open" =>
        status = "connected" /\ clientEpoch = epoch /\ lastSequence <= sequence
  BY DEF Phases, CursorInPast
<1>d. \A q \in Nat : q <= sequence => q <= n
  BY <1>1
<1> HIDE DEF n
<1>4. TypeOK'
  BY <1>1, <1>b DEF TypeOK, clientVars
<1>5. RingComplete'
  <2>1. /\ droppedThrough \in Nat
        /\ \A m \in emitted : m.seq \in Nat
    BY DEF TypeOK
  <2>. QED BY <1>1, <1>d, <2>1 DEF RingComplete
<1>6. CursorInPast'
  <2>1. lastSequence \in Nat /\ cursor \in Nat
    BY DEF TypeOK
  <2>. QED BY <1>1, <1>d, <2>1 DEF CursorInPast, clientVars
<1>7. Phases'
  BY <1>1 DEF Phases, clientVars
<1>8. WireShape'
  BY <1>1, <1>a, MessageFields DEF WireShape, Genuine, clientVars
<1>9. QueueShape'
  <2>1. ASSUME NEW i \in 1..Len(mailbox')
        PROVE  /\ Genuine(mailbox[i])' /\ mailbox'[i].epoch = epoch'
               /\ mailbox'[i].kind \in {"event", "frame"}
    <3>1. CASE i \in 1..Len(mailbox) /\ mailbox'[i] = mailbox[i]
      BY <1>1, <1>a, <3>1, MessageFields DEF QueueShape, Genuine, clientVars
    <3>2. CASE mailbox'[i] = Frame(n) /\ socket = "open" /\ attached
      BY <1>1, <1>2, <1>c, <3>2 DEF Genuine, clientVars
    <3>3. CASE mailbox' = mailbox
      BY <3>1, <3>3
    <3>4. CASE mailbox' # mailbox
      <4>1. i \in 1..Len(mailbox) \/ i = Len(mailbox) + 1
        BY <1>b, <3>4
      <4>. QED BY <1>b, <3>1, <3>2, <3>4, <4>1
    <3>. QED BY <3>3, <3>4
  <2>2. \A i \in 1..Len(receiver') : /\ Genuine(receiver[i])' /\ receiver'[i].epoch = epoch'
                                    /\ receiver'[i].kind = "event"
    BY <1>1, <1>a, MessageFields DEF QueueShape, Genuine, clientVars
  <2>. QED BY <2>1, <2>2 DEF QueueShape
<1>10. FramesAhead'
  <2>1. CASE mailbox' = mailbox
    BY <1>1, <2>1 DEF FramesAhead, clientVars
  <2>2. CASE mailbox' # mailbox
    <3>1. lastSequence < n
      BY <1>1, <1>b, <1>c, <2>2 DEF TypeOK, n
    <3>2. /\ \A j \in 1..Len(wire) : wire[j].seq < n
          /\ \A j \in 1..Len(mailbox) : mailbox[j].seq < n
      BY <1>1, <1>a, <1>b, <2>2, MessageFields DEF WireShape, QueueShape, Genuine
    <3>3. ASSUME NEW i \in 1..Len(mailbox'), mailbox'[i].kind = "frame"
          PROVE  /\ lastSequence' < mailbox'[i].seq
                 /\ \A j \in 1..Len(wire') : wire'[j].seq < mailbox'[i].seq
                 /\ \A j \in 1..(i - 1) : mailbox'[j].seq < mailbox'[i].seq
      <4>1. CASE i \in 1..Len(mailbox)
        <5>1. \A j \in 1..(i - 1) : mailbox'[j] = mailbox[j]
          BY <1>b, <2>2, <4>1
        <5>. QED BY <1>1, <1>b, <2>2, <3>3, <4>1, <5>1 DEF FramesAhead, clientVars
      <4>2. CASE i = Len(mailbox) + 1
        <5>1. mailbox'[i] = Frame(n) /\ \A j \in 1..(i - 1) : j \in 1..Len(mailbox)
          BY <1>b, <2>2, <4>2
        <5>. QED BY SMTT(30), <1>1, <1>2, <1>b, <2>2, <3>1, <3>2, <5>1 DEF clientVars
      <4>3. Len(mailbox) \in Nat /\ Len(mailbox') = Len(mailbox) + 1
        BY <1>b, <2>2
      <4>. QED BY <4>1, <4>2, <4>3
    <3>. QED BY <1>1, <3>3 DEF FramesAhead, clientVars
  <2>. QED BY <2>1, <2>2
<1>11. Settled' = Settled /\ OnWire' = OnWire
  BY <1>1 DEF Settled, OnWire, clientVars
<1>12. Sent \subseteq Sent' /\ Follows(emitted', mailbox', OnWire')
  <2>1. CASE mailbox' = mailbox
    BY <1>1, <1>11, <2>1 DEF Sent, StreamComplete
  <2>2. CASE mailbox' # mailbox
    <3>1. mailbox' = Append(mailbox, Frame(n)) /\ Frame(n).kind # "event"
      BY <1>2, <1>b, <2>2
    <3>2. /\ Passed(emitted, mailbox') = Passed(emitted, mailbox) \cup Through(emitted, Frame(n))
          /\ Follows(emitted, mailbox', OnWire)
      BY <1>2, <1>3, <3>1, AppendMessage DEF StreamComplete
    <3>. QED BY <1>1, <1>11, <3>2 DEF Sent
  <2>. QED BY <2>1, <2>2
<1>13. ASSUME socket' = "open", ~lagged'
       PROVE  /\ Follows(emitted', receiver', Sent')
              /\ Current' \subseteq Sent' \cup Passed(emitted', receiver')
  <2>1. \A i \in 1..Len(receiver) : receiver[i].epoch = epoch
    BY DEF QueueShape
  <2>2. Follows(emitted, receiver, Sent')
    BY <1>1, <1>12, <1>13, <2>1, KnowMore DEF StreamComplete
  <2>. QED BY <1>1, <1>12, <1>13, <2>2 DEF StreamComplete, Current
<1>14. StreamComplete'
  BY <1>1, <1>11, <1>12, <1>13 DEF StreamComplete, EmittedThrough
<1>15. CursorSettled'
  BY <1>1, <1>11 DEF CursorSettled, EmittedThrough, clientVars
<1>. QED BY <1>4, <1>5, <1>6, <1>7, <1>8, <1>9, <1>10, <1>14, <1>15

-----------------------------------------------------------------------------
(* The steps of the socket task *)

\* What depends on the sequences and the client alone.
LEMMA SameStream ==
  ASSUME UNCHANGED <<epoch, emitted, covered, clientEpoch, overtaken, wire, mailbox>>
  PROVE  /\ Settled' = Settled /\ OnWire' = OnWire /\ Sent' = Sent /\ Current' = Current
         /\ Follows(emitted, wire, Settled) => Follows(emitted, wire, Settled)'
         /\ Follows(emitted, mailbox, OnWire) => Follows(emitted, mailbox, OnWire)'
<1>1. Settled' = Settled
  BY DEF Settled
<1>2. OnWire' = OnWire
  BY <1>1 DEF OnWire
<1>3. Sent' = Sent
  BY <1>2 DEF Sent
<1>. QED BY <1>1, <1>2, <1>3 DEF Current

LEMMA SubscribeStep ==
  ASSUME StreamInv, Subscribe
  PROVE  StreamInv'
<1> USE DEF StreamInv
<1>1. /\ status = "disconnected" /\ wire = <<>> /\ socket = "none"
      /\ status' = "synchronizing" /\ socket' = "subscribed"
      /\ since' = lastSequence /\ cursor' = 0
      /\ UNCHANGED <<hubVars, receiver, lagged, attached, mailbox, wire, clientEpoch,
                     lastSequence, covered, overtaken, frames, disconnects, protocol>>
  BY DEF Subscribe
<1>2. mailbox = <<>> /\ receiver = <<>> /\ ~attached
  BY <1>1 DEF Phases
<1>3. TypeOK'
  BY <1>1 DEF TypeOK, hubVars
<1>4. RingComplete'
  BY <1>1 DEF RingComplete, hubVars
<1>5. CursorInPast' /\ Phases'
  BY <1>1, <1>2 DEF CursorInPast, Phases, hubVars, TypeOK
<1>6. WireShape' /\ QueueShape' /\ FramesAhead'
  BY <1>1, <1>2 DEF WireShape, QueueShape, FramesAhead
<1>7. StreamComplete'
  BY <1>1, SameStream DEF StreamComplete, hubVars
<1>8. CursorSettled'
  BY <1>1, SameStream DEF CursorSettled, EmittedThrough, hubVars
<1>. QED BY <1>3, <1>4, <1>5, <1>6, <1>7, <1>8

LEMMA AttachStep ==
  ASSUME StreamInv, Attach
  PROVE  StreamInv'
<1> USE DEF StreamInv
<1>1. /\ socket = "open" /\ status = "connected" /\ attached' = ~attached
      /\ UNCHANGED <<hubVars, socket, since, cursor, receiver, lagged, mailbox,
                     wire, clientVars, frames, disconnects, protocol>>
  BY DEF Attach
<1>2. TypeOK' /\ RingComplete' /\ CursorInPast' /\ Phases'
  BY <1>1 DEF TypeOK, RingComplete, CursorInPast, Phases, hubVars, clientVars
<1>3. WireShape' /\ QueueShape' /\ FramesAhead'
  BY <1>1 DEF WireShape, QueueShape, FramesAhead, Genuine, hubVars, clientVars
<1>4. StreamComplete' /\ CursorSettled'
  BY <1>1, SameStream DEF StreamComplete, CursorSettled, EmittedThrough, hubVars, clientVars
<1>. QED BY <1>2, <1>3, <1>4

\* The snapshot passes everything that was emitted.
LEMMA SendSnapshotStep ==
  ASSUME StreamInv, SendSnapshot
  PROVE  StreamInv'
<1> DEFINE m == Snapshot(sequence)
<1> USE DEF StreamInv
<1>1. /\ protocol = 2 /\ socket = "subscribed" /\ socket' = "open"
      /\ cursor' = sequence /\ wire' = Append(wire, m)
      /\ UNCHANGED <<hubVars, since, receiver, lagged, attached, mailbox,
                     clientVars, frames, disconnects, protocol>>
  BY DEF SendSnapshot
<1>2. /\ wire = <<>> /\ mailbox = <<>> /\ ~attached /\ status = "synchronizing"
      /\ sequence \in Nat /\ epoch \in Nat \ {0}
  BY <1>1 DEF Phases, TypeOK
<1>3. m \in Messages /\ m = [kind |-> "snapshot", epoch |-> epoch, seq |-> sequence]
  BY <1>2, MessageTypes DEF Snapshot
<1> HIDE DEF m
<1>4. wire' = <<m>> /\ Len(wire') = 1 /\ wire'[1] = m /\ wire' \in Seq(Messages)
  BY <1>1, <1>2, <1>3
<1>5. TypeOK' /\ RingComplete' /\ CursorInPast' /\ Phases'
  BY SMTT(30), <1>1, <1>2, <1>4 DEF TypeOK, RingComplete, CursorInPast, Phases, hubVars, clientVars
<1>6. WireShape'
  <2>1. \A i \in 1..Len(wire') : i = 1
    BY <1>4
  <2>2. clientEpoch = epoch => lastSequence <= sequence
    BY DEF CursorInPast
  <2>. QED BY <1>1, <1>2, <1>3, <1>4, <2>1, <2>2 DEF WireShape, Genuine, TypeOK, hubVars, clientVars
<1>7. QueueShape'
  BY <1>1, <1>2 DEF QueueShape, Genuine, hubVars, clientVars
<1>8. FramesAhead'
  <2>1. \A i \in 1..Len(wire') : wire'[i] = m
    BY <1>4
  <2>. QED BY <1>1, <1>2, <1>3, <2>1 DEF FramesAhead
<1>9. Settled' = Settled
  BY <1>1 DEF Settled, hubVars, clientVars
<1>10. Passed(emitted, wire') = Passed(emitted, wire) \cup Through(emitted, m)
  <2>1. wire \in Seq(Messages)
    BY DEF TypeOK
  <2>. QED BY <1>1, <1>3, <2>1, AppendMessage
<1>11. Current \subseteq Through(emitted, m)
  BY <1>3 DEF Current, Through, RingComplete
<1>12. StreamComplete'
  <2>1. Current' \subseteq OnWire' /\ Current' \subseteq Sent' /\ emitted' = emitted /\ Current' = Current
    BY <1>1, <1>10, <1>11 DEF OnWire, Sent, Current, hubVars
  <2>2. Follows(emitted', wire', Settled')
    <3>1. \A i \in 1..Len(wire') : wire'[i].kind # "event"
      BY <1>3, <1>4
    <3>. QED BY <3>1 DEF Follows
  <2>3. Follows(emitted', mailbox', OnWire')
    BY <1>1, <1>2 DEF Follows
  <2>4. Follows(emitted', receiver', Sent')
    <3>1. \A i \in 1..Len(receiver) : receiver[i].epoch = epoch
      BY DEF QueueShape
    <3>. QED BY <1>1, <2>1, <3>1 DEF Follows, Current
  <2>5. EmittedThrough(epoch, cursor)' \subseteq Current'
    BY <1>1 DEF EmittedThrough, Current
  <2>. QED BY <2>1, <2>2, <2>3, <2>4, <2>5 DEF StreamComplete
<1>13. CursorSettled'
  BY <1>1, <1>9 DEF CursorSettled, EmittedThrough, hubVars, clientVars
<1>. QED BY <1>5, <1>6, <1>7, <1>8, <1>12, <1>13
\* The ring splits at `since`.
Before == {pair \in Nat \X Nat : pair[1] < pair[2]}

LEMMA BeforeWellFounded == IsWellFoundedOn(Before, Nat)
BY NatLessThanWellFounded DEF OpToRel, Before

LEMMA RingSplits ==
  ASSUME TypeOK, RingComplete
  PROVE  /\ Skipped \in 0..Len(history)
         /\ \A j \in 1..Len(history) : history[j] > since <=> j > Skipped
<1> DEFINE Newer == {j \in 1..Len(history) : history[j] > since}
<1>0. /\ history \in Seq(Nat) /\ since \in Nat /\ Len(history) \in Nat
      /\ \A j \in 1..Len(history) : history[j] \in Nat
  BY DEF TypeOK
<1>1. \E i \in 0..Len(history) : \A j \in 1..Len(history) : history[j] > since <=> j > i
  <2>1. CASE Newer = {}
    <3>1. Len(history) \in 0..Len(history)
          /\ \A j \in 1..Len(history) : history[j] > since <=> j > Len(history)
      BY <1>0, <2>1
    <3>. QED BY <3>1
  <2>2. CASE Newer # {}
    <3>1. Newer \subseteq Nat
      BY <1>0
    <3>2. PICK i \in Newer : \A j \in Newer : ~(<<j, i>> \in Before)
      <4> HIDE DEF Newer
      <4>. QED BY <2>2, <3>1, BeforeWellFounded, WFMin
    <3>3. \A j \in Newer : i <= j
      <4> SUFFICES ASSUME NEW j \in Newer PROVE i <= j
        OBVIOUS
      <4>1. i \in Nat /\ j \in Nat /\ ~(<<j, i>> \in Before)
        BY <3>1, <3>2
      <4>. QED BY <4>1 DEF Before
    <3>4. ASSUME NEW j \in 1..Len(history) PROVE history[j] > since <=> j > i - 1
      <4>1. CASE j < i
        <5>1. j \notin Newer
          BY <1>0, <3>1, <3>2, <3>3, <4>1
        <5>. QED BY <1>0, <3>2, <4>1, <5>1
      <4>2. CASE j = i
        BY <1>0, <3>2, <4>2
      <4>3. CASE j > i
        <5>1. history[i] < history[j]
          BY <1>0, <3>2, <4>3 DEF RingComplete
        <5>. QED BY <1>0, <3>2, <4>3, <5>1
      <4>. QED BY <1>0, <3>2, <4>1, <4>2, <4>3
    <3>5. i - 1 \in 0..Len(history)
      BY <1>0, <3>2
    <3>. QED BY <3>4, <3>5
  <2>. QED BY <2>1, <2>2
<1>. QED BY <1>1 DEF Skipped

\* What a replay puts on the empty wire: perhaps a notice, then the newer events.
LEMMA ReplayOnWire ==
  ASSUME StreamInv, SendReplay
  PROVE  LET g == Len(GapNotice) IN
         /\ g \in {0, 1} /\ (g = 1 <=> HistoryEvicted)
         /\ ReplayFloor \in 1..(sequence + 1)
         /\ history # <<>> => ReplayFloor = history[1]
         /\ history = <<>> => ReplayFloor = sequence + 1
         /\ wire' \in Seq(Messages) /\ Len(wire') = g + (Len(history) - Skipped)
         /\ g = 1 => wire'[1] = Gap(ReplayFloor - 1)
         /\ \A i \in 1..Len(wire') : i > g =>
              /\ (i - g) + Skipped \in 1..Len(history)
              /\ wire'[i] = Event(history[(i - g) + Skipped])
<1> DEFINE g == Len(GapNotice)
           n == Len(history) - Skipped
           events == [i \in 1..Len(Replayed) |-> Event(Replayed[i])]
<1> USE DEF StreamInv
<1>1. /\ history \in Seq(Nat) /\ Len(history) \in Nat /\ sequence \in Nat /\ epoch \in Nat
      /\ since \in Nat /\ droppedThrough \in Nat
      /\ Skipped \in 0..Len(history) /\ wire = <<>>
      /\ wire' = wire \o GapNotice \o events
  BY RingSplits DEF TypeOK, SendReplay, Phases
<1>2. \A i \in 1..Len(history) : history[i] \in 1..sequence
  <2> SUFFICES ASSUME NEW i \in 1..Len(history) PROVE history[i] \in 1..sequence
    OBVIOUS
  <2>1. history[i] \in Nat
    BY <1>1
  <2>2. [epoch |-> epoch, seq |-> history[i]] \in emitted
    BY DEF RingComplete
  <2>3. history[i] <= sequence /\ history[i] >= 1
    BY <2>2 DEF RingComplete
  <2>. QED BY <1>1, <2>1, <2>3
<1>3. /\ ReplayFloor \in 1..(sequence + 1)
      /\ history # <<>> => ReplayFloor = history[1]
      /\ history = <<>> => ReplayFloor = sequence + 1
  <2>1. CASE history = <<>>
    BY <1>1, <2>1 DEF ReplayFloor
  <2>2. CASE history # <<>>
    <3>1. 1 \in 1..Len(history) /\ Head(history) = history[1]
      BY <1>1, <2>2
    <3>. QED BY <1>1, <1>2, <2>2, <3>1 DEF ReplayFloor
  <2>. QED BY <2>1, <2>2
<1>4. Gap(ReplayFloor - 1) \in Messages
  <2>1. ReplayFloor \in Nat /\ ReplayFloor - 1 \in Nat
    BY <1>1, <1>3
  <2>. QED BY <1>1, <2>1 DEF Gap, Messages
<1>5. /\ GapNotice \in Seq(Messages) /\ g \in {0, 1} /\ (g = 1 <=> HistoryEvicted)
      /\ g = 1 => GapNotice[1] = Gap(ReplayFloor - 1)
  BY <1>4 DEF GapNotice
<1>6. /\ Replayed \in Seq(Nat) /\ Len(Replayed) = n /\ n \in Nat
      /\ \A i \in 1..n : Replayed[i] = history[i + Skipped] /\ i + Skipped \in 1..Len(history)
  BY <1>1 DEF Replayed
<1>7. /\ events \in Seq(Messages) /\ Len(events) = n
      /\ \A i \in 1..n : events[i] = Event(history[i + Skipped])
  <2>1. \A i \in 1..n : Event(Replayed[i]) \in Messages
    BY SMTT(30), <1>1, <1>6, MessageTypes
  <2>2. events = [i \in 1..n |-> Event(Replayed[i])]
    BY <1>6
  <2> HIDE DEF events, n
  <2>. QED BY <1>6, <2>1, <2>2
<1> HIDE DEF events, g, n
<1>8. wire' = GapNotice \o events
  BY <1>1, <1>5, <1>7
<1>9. /\ wire' \in Seq(Messages) /\ Len(wire') = g + n
      /\ \A i \in 1..(g + n) : wire'[i] = IF i <= g THEN GapNotice[i] ELSE events[i - g]
  BY <1>5, <1>7, <1>8, ConcatProperties DEF g
<1>10. g = 1 => wire'[1] = Gap(ReplayFloor - 1)
  BY <1>5, <1>6, <1>9
<1>11. \A i \in 1..Len(wire') : i > g =>
         /\ (i - g) + Skipped \in 1..Len(history)
         /\ wire'[i] = Event(history[(i - g) + Skipped])
  <2> SUFFICES ASSUME NEW i \in 1..Len(wire'), i > g
               PROVE  /\ (i - g) + Skipped \in 1..Len(history)
                      /\ wire'[i] = Event(history[(i - g) + Skipped])
    OBVIOUS
  <2>1. i - g \in 1..n /\ ~(i <= g)
    BY <1>5, <1>6, <1>9
  <2>. QED BY <1>6, <1>7, <1>9, <2>1
<1>. QED BY <1>3, <1>5, <1>9, <1>10, <1>11 DEF g, n
\* The replay passes everything that the client has not settled.
LEMMA SendReplayStep ==
  ASSUME StreamInv, SendReplay
  PROVE  StreamInv'
<1> DEFINE g == Len(GapNotice)
<1> USE DEF StreamInv
<1>1. /\ protocol = 1 /\ socket = "subscribed" /\ socket' = "open"
      /\ covered' = IF since = 0 THEN covered \cup EmittedThrough(epoch, droppedThrough)
                                 ELSE covered
      /\ UNCHANGED <<hubVars, since, cursor, receiver, lagged, attached, mailbox,
                 status, clientEpoch, lastSequence, overtaken, frames, disconnects, protocol>>
  BY DEF SendReplay
<1>2. /\ wire = <<>> /\ mailbox = <<>> /\ ~attached /\ status = "synchronizing"
      /\ since = lastSequence /\ sequence \in Nat /\ epoch = 1 /\ since \in Nat
      /\ overtaken = 0 /\ clientEpoch \in Nat /\ clientEpoch <= epoch
      /\ clientEpoch = 0 => lastSequence = 0
  BY <1>1 DEF Phases, TypeOK, CursorInPast
<1>3. /\ g \in {0, 1} /\ (g = 1 <=> HistoryEvicted)
      /\ ReplayFloor \in 1..(sequence + 1)
      /\ history # <<>> => ReplayFloor = history[1]
      /\ history = <<>> => ReplayFloor = sequence + 1
      /\ wire' \in Seq(Messages) /\ Len(wire') = g + (Len(history) - Skipped)
      /\ g = 1 => wire'[1] = Gap(ReplayFloor - 1)
      /\ \A i \in 1..Len(wire') : i > g =>
           /\ (i - g) + Skipped \in 1..Len(history)
           /\ wire'[i] = Event(history[(i - g) + Skipped])
  BY ReplayOnWire
<1> HIDE DEF g
<1>4. /\ Skipped \in 0..Len(history) /\ Len(history) \in Nat
      /\ \A j \in 1..Len(history) : history[j] > since <=> j > Skipped
      /\ \A j \in 1..Len(history) : history[j] \in Nat
      /\ droppedThrough \in Nat
  BY SMTT(30), RingSplits DEF TypeOK
<1>5. /\ \A i \in 1..Len(wire') : (i = 1 /\ g = 1) \/ i > g
      /\ g = 1 => 1 \in 1..Len(wire')
  BY <1>3, <1>4
<1>6. \A n \in emitted : n.seq \in Nat /\ n.epoch \in Nat /\ n.epoch = 1 /\ n.seq >= 1 /\ n.seq <= sequence
  BY <1>2 DEF RingComplete, TypeOK
<1>7. Settled \subseteq Settled' /\ emitted' = emitted
  BY <1>1 DEF Settled, hubVars
\* Whatever was emitted is settled, noticed or replayed.
<1>8. ASSUME NEW n \in emitted
      PROVE  \/ n \in Settled'
             \/ g = 1 /\ n.seq <= ReplayFloor - 1
             \/ \E h \in 1..Len(history) : h > Skipped /\ history[h] = n.seq
  <2>1. CASE n.seq <= since
    <3>1. clientEpoch = 1 /\ n \in EmittedThrough(clientEpoch, lastSequence)
      BY <1>2, <1>6, <2>1 DEF EmittedThrough
    <3>. QED BY <1>7, <3>1 DEF CursorSettled
  <2>2. CASE n.seq > since /\ n.seq <= droppedThrough
    <3>1. CASE since = 0
      <4>1. n \in covered'
        BY <1>1, <1>2, <1>6, <2>2, <3>1 DEF EmittedThrough
      <4>. QED BY <1>7, <4>1 DEF Settled
    <3>2. CASE since > 0 /\ history = <<>>
      <4>1. HistoryEvicted
        BY <1>2, <1>4, <1>6, <2>2, <3>2 DEF HistoryEvicted
      <4>. QED BY <1>2, <1>3, <1>6, <3>2, <4>1
    <3>3. CASE since > 0 /\ history # <<>>
      <4>1. 1 \in 1..Len(history) /\ Head(history) = history[1] /\ droppedThrough < history[1]
        <5>1. history \in Seq(Nat)
          BY DEF TypeOK
        <5>2. 1 \in 1..Len(history) /\ Head(history) = history[1]
          BY <3>3, <5>1
        <5>. QED BY <5>2 DEF RingComplete
      <4>2. HistoryEvicted
        BY <1>2, <1>4, <1>6, <2>2, <3>3, <4>1 DEF HistoryEvicted
      <4>. QED BY <1>2, <1>3, <1>4, <1>6, <2>2, <3>3, <4>1, <4>2
    <3>. QED BY <1>2, <3>1, <3>2, <3>3
  <2>3. CASE n.seq > since /\ ~(n.seq <= droppedThrough)
    <3>1. PICK h \in 1..Len(history) : history[h] = n.seq
      BY <1>2, <1>6, <2>3 DEF RingComplete
    <3>. QED BY <1>4, <2>3, <3>1
  <2>. QED BY <1>2, <1>6, <2>1, <2>2, <2>3
<1>9. g = 1 => /\ wire'[1] = [kind |-> "gap", epoch |-> 1, seq |-> ReplayFloor - 1, floor |-> ReplayFloor]
               /\ ReplayFloor - 1 \in Nat /\ ReplayFloor - 1 <= sequence
               /\ ReplayFloor = (ReplayFloor - 1) + 1
  BY <1>2, <1>3 DEF Gap
<1>10. \A i \in 1..Len(wire') : i > g =>
         /\ wire'[i] = [kind |-> "event", epoch |-> 1, seq |-> history[(i - g) + Skipped]]
         /\ history[(i - g) + Skipped] \in Nat
         /\ history[(i - g) + Skipped] <= sequence
         /\ [epoch |-> 1, seq |-> history[(i - g) + Skipped]] \in emitted
  <2> SUFFICES ASSUME NEW i \in 1..Len(wire'), i > g
               PROVE  /\ wire'[i] = [kind |-> "event", epoch |-> 1, seq |-> history[(i - g) + Skipped]]
                      /\ history[(i - g) + Skipped] \in Nat
                      /\ history[(i - g) + Skipped] <= sequence
                      /\ [epoch |-> 1, seq |-> history[(i - g) + Skipped]] \in emitted
    OBVIOUS
  <2>1. [epoch |-> 1, seq |-> history[(i - g) + Skipped]] \in emitted
    BY <1>2, <1>3 DEF RingComplete
  <2>2. history[(i - g) + Skipped] <= sequence
    BY <1>6, <2>1
  <2>. QED BY <1>2, <1>3, <1>4, <2>1, <2>2 DEF Event
\* The fields of what is on the wire.
<1>a. g = 1 => /\ wire'[1].kind = "gap" /\ wire'[1].epoch = 1
               /\ wire'[1].seq = ReplayFloor - 1 /\ wire'[1].floor = ReplayFloor
  BY <1>9
<1>b. \A i \in 1..Len(wire') : i > g =>
        /\ wire'[i].kind = "event" /\ wire'[i].epoch = 1
        /\ wire'[i].seq = history[(i - g) + Skipped]
  <2> SUFFICES ASSUME NEW i \in 1..Len(wire'), i > g
               PROVE  /\ wire'[i].kind = "event" /\ wire'[i].epoch = 1
                      /\ wire'[i].seq = history[(i - g) + Skipped]
    OBVIOUS
  <2>1. wire'[i] = [kind |-> "event", epoch |-> 1, seq |-> history[(i - g) + Skipped]]
    BY <1>10
  <2>. QED BY <2>1
<1>11. TypeOK'
  <2>1. covered' \subseteq emitted
    BY <1>1 DEF TypeOK, EmittedThrough
  <2>. QED BY <1>1, <1>3, <2>1 DEF TypeOK, hubVars
<1>12. RingComplete' /\ CursorInPast' /\ Phases'
  BY <1>1, <1>2 DEF RingComplete, CursorInPast, Phases, hubVars
<1>13. WireShape'
  <2>1. /\ epoch' = 1 /\ sequence' = sequence /\ emitted' = emitted /\ protocol' = 1
        /\ status' = "synchronizing" /\ socket' # "none"
    BY <1>1, <1>2 DEF hubVars
  <2>2. ASSUME NEW i \in 1..Len(wire')
        PROVE  /\ wire'[i].epoch = 1 /\ wire'[i].kind \in {"event", "gap"}
               /\ wire'[i].kind = "gap" => wire'[i].floor = wire'[i].seq + 1
               /\ wire'[i].seq <= sequence
               /\ wire'[i].kind = "event" => [epoch |-> 1, seq |-> wire'[i].seq] \in emitted
    <3>1. CASE i = 1 /\ g = 1
      BY <1>9, <1>a, <3>1
    <3>2. CASE i > g
      <4>1. /\ wire'[i].kind = "event" /\ wire'[i].epoch = 1
            /\ wire'[i].seq = history[(i - g) + Skipped]
        BY <1>b, <3>2
      <4>2. /\ history[(i - g) + Skipped] <= sequence
            /\ [epoch |-> 1, seq |-> history[(i - g) + Skipped]] \in emitted
        BY <1>10, <3>2
      <4>. QED BY <4>1, <4>2
    <3>. QED BY <1>5, <3>1, <3>2
  <2>3. \A i \in 1..Len(wire') : wire'[1].epoch = 1
    <3>1. \A i \in 1..Len(wire') : 1 \in 1..Len(wire')
      BY <1>3, <1>4
    <3>. QED BY <2>2, <3>1
  <2>4. ASSUME NEW i \in 1..Len(wire')
        PROVE  wire'[i].kind \notin {"snapshot", "close", "frame"}
    BY <2>2
  <2>5. ASSUME NEW i \in 1..Len(wire')
        PROVE  Genuine(wire[i])'
    <3>1. /\ wire'[i].epoch = 1 /\ wire'[i].seq <= sequence
          /\ wire'[i].kind # "frame"
      <4>1. wire'[i].epoch = 1 /\ wire'[i].seq <= sequence
        BY <2>2
      <4>2. wire'[i].kind # "frame"
        BY <2>4
      <4>. QED BY <4>1, <4>2
    <3>2. wire'[i].kind = "event" =>
            [epoch |-> wire'[i].epoch, seq |-> wire'[i].seq] \in emitted
      BY <2>2
    <3>. QED BY <2>1, <3>1, <3>2 DEF Genuine
  <2> SUFFICES ASSUME NEW i \in 1..Len(wire')
               PROVE  /\ Genuine(wire[i])'
                      /\ wire'[i].epoch = wire'[1].epoch
                      /\ wire'[i].epoch = 1
                      /\ wire'[i].kind \notin {"snapshot", "close"}
                      /\ wire'[i].kind = "gap" => wire'[i].floor = wire'[i].seq + 1
    BY <2>1 DEF WireShape
  <2>. QED BY <2>2, <2>3, <2>4, <2>5
<1>14. QueueShape'
  BY <1>1, <1>2 DEF QueueShape, Genuine, hubVars
<1>15. FramesAhead'
  <2>1. \A i \in 1..Len(wire') : wire'[i].kind # "frame"
    BY <1>5, <1>a, <1>b
  <2>2. mailbox' = <<>> /\ Len(mailbox') = 0
    BY <1>1, <1>2
  <2>. QED BY <2>1, <2>2 DEF FramesAhead
<1>16. Current' \subseteq OnWire' /\ Current' = Current
  <2>1. ASSUME NEW n \in emitted PROVE n \in Settled' \cup Passed(emitted, wire')
    <3>1. CASE g = 1 /\ n.seq <= ReplayFloor - 1
      BY <1>5, <1>6, <1>a, <3>1 DEF Passed
    <3>2. ASSUME NEW h \in 1..Len(history), h > Skipped, history[h] = n.seq
          PROVE  n \in Passed(emitted, wire')
      <4>1. (h - Skipped) + g \in 1..Len(wire') /\ (h - Skipped) + g > g
            /\ (((h - Skipped) + g) - g) + Skipped = h
        BY <1>3, <1>4, <3>2
      <4>2. wire'[(h - Skipped) + g].epoch = 1 /\ wire'[(h - Skipped) + g].seq = n.seq
        BY <1>b, <3>2, <4>1
      <4>. QED BY <1>6, <4>1, <4>2 DEF Passed
    <3>. QED BY <1>8, <3>1, <3>2
  <2>. QED BY <1>1, <1>7, <2>1 DEF Current, OnWire, hubVars
<1>17. Follows(emitted', wire', Settled')
  <2> SUFFICES ASSUME NEW i \in 1..Len(wire'), wire'[i].kind = "event",
                      NEW n \in emitted, n.epoch = wire'[i].epoch, n.seq < wire'[i].seq
               PROVE  \/ n \in Settled'
                      \/ \E j \in 1..(i - 1) : n.epoch = wire'[j].epoch /\ n.seq <= wire'[j].seq
    BY <1>7 DEF Follows
  <2>1. i > g /\ wire'[i].seq = history[(i - g) + Skipped] /\ (i - g) + Skipped \in 1..Len(history)
    BY <1>3, <1>5, <1>a, <1>b
  <2>2. CASE g = 1 /\ n.seq <= ReplayFloor - 1
    <3>1. 1 \in 1..(i - 1)
      BY <2>1, <2>2
    <3>. QED BY <1>6, <1>a, <2>2, <3>1
  <2>3. ASSUME NEW h \in 1..Len(history), h > Skipped, history[h] = n.seq
        PROVE  \E j \in 1..(i - 1) : n.epoch = wire'[j].epoch /\ n.seq <= wire'[j].seq
    <3>1. h < (i - g) + Skipped
      <4>1. CASE h = (i - g) + Skipped
        BY <1>4, <1>6, <2>1, <2>3, <4>1
      <4>2. CASE h > (i - g) + Skipped
        <5>1. history[(i - g) + Skipped] < history[h]
          BY <2>1, <4>2 DEF RingComplete
        <5>. QED BY <1>4, <1>6, <2>1, <2>3, <5>1
      <4>. QED BY <1>4, <2>1, <4>1, <4>2
    <3>2. (h - Skipped) + g \in 1..(i - 1) /\ (h - Skipped) + g \in 1..Len(wire')
          /\ (h - Skipped) + g > g /\ (((h - Skipped) + g) - g) + Skipped = h
      <4>1. g \in {0, 1} /\ Skipped \in Nat /\ h \in Nat /\ h > Skipped
            /\ i \in Nat /\ Len(wire') \in Nat /\ i <= Len(wire')
        BY <1>3, <1>4, <2>3
      <4>2. \A k, l, o, p \in Nat : \A q \in {0, 1} : k > o /\ k < (l - q) + o /\ l <= p =>
              /\ (k - o) + q \in 1..(l - 1) /\ (k - o) + q \in 1..p
              /\ (k - o) + q > q /\ (((k - o) + q) - q) + o = k
        OBVIOUS
      <4>. QED BY <3>1, <4>1, <4>2
    <3>3. wire'[(h - Skipped) + g].epoch = 1 /\ wire'[(h - Skipped) + g].seq = n.seq
      BY <1>b, <2>3, <3>2
    <3>. QED BY <1>6, <3>2, <3>3
  <2>. QED BY <1>8, <2>2, <2>3
<1>18. StreamComplete'
  <2>1. \A i \in 1..Len(receiver) : receiver[i].epoch = epoch
    BY DEF QueueShape
  <2>2. Current' \subseteq Sent' /\ receiver' = receiver /\ epoch' = epoch
    BY <1>1, <1>16 DEF Sent, hubVars
  <2>3. Follows(emitted', receiver', Sent')
    BY <1>7, <1>16, <2>1, <2>2 DEF Follows, Current
  <2>4. Follows(emitted', mailbox', OnWire')
    BY <1>1, <1>2 DEF Follows
  <2>. QED BY <1>1, <1>17, <2>2, <2>3, <2>4 DEF StreamComplete
<1>19. CursorSettled'
  BY <1>1, <1>7 DEF CursorSettled, EmittedThrough, hubVars
<1>. QED BY <1>11, <1>12, <1>13, <1>14, <1>15, <1>18, <1>19

\* The forwarding loop moves the receiver's first message to the mailbox's end.
LEMMA ForwardStep ==
  ASSUME StreamInv, Forward
  PROVE  StreamInv'
<1> DEFINE m == Head(receiver)
<1> USE DEF StreamInv
<1>1. /\ socket = "open" /\ receiver # <<>>
      /\ UNCHANGED <<hubVars, since, cursor, lagged, attached, wire, clientVars,
                     frames, disconnects, protocol>>
      /\ \/ lagged /\ socket' = "closing" /\ receiver' = receiver /\ mailbox' = mailbox
         \/ /\ ~lagged /\ receiver' = Tail(receiver) /\ mailbox' = mailbox
            /\ \/ socket' = socket /\ AlreadySent(m)
               \/ socket' = "closing"
         \/ /\ ~lagged /\ receiver' = Tail(receiver) /\ socket' = socket
            /\ mailbox' = Append(mailbox, m)
  BY DEF Forward
<1>2. /\ receiver \in Seq(Messages) /\ mailbox \in Seq(Messages) /\ m = receiver[1]
      /\ Len(receiver) \in Nat /\ Len(receiver) >= 1 /\ 1 \in 1..Len(receiver)
      /\ Len(receiver) <= BroadcastCapacity
  BY <1>1 DEF TypeOK
<1>3. m \in Messages /\ m.kind = "event" /\ m.epoch = epoch /\ Genuine(m) /\ m.seq \in Nat
  BY <1>2, MessageFields DEF QueueShape
<1>4. /\ Tail(receiver) \in Seq(Messages) /\ Len(Tail(receiver)) = Len(receiver) - 1
      /\ \A i \in 1..Len(Tail(receiver)) :
           Tail(receiver)[i] = receiver[i + 1] /\ i + 1 \in 1..Len(receiver)
  BY <1>1, <1>2
<1>5. /\ receiver' \in Seq(Messages) /\ Len(receiver') <= BroadcastCapacity
      /\ \A i \in 1..Len(receiver') : \E j \in 1..Len(receiver) : receiver'[i] = receiver[j]
  <2>1. LimitsAssumption => BroadcastCapacity \in Nat
    BY DEF LimitsAssumption
  <2>2. CASE receiver' = receiver
    BY <1>2, <2>2
  <2>3. CASE receiver' = Tail(receiver)
    BY <1>2, <1>4, <2>1, <2>3, LimitsAssumption
  <2>. QED BY <1>1, <2>2, <2>3
<1>6. \/ mailbox' = mailbox
      \/ /\ mailbox' = Append(mailbox, m) /\ ~lagged /\ socket' = "open"
         /\ receiver' = Tail(receiver)
  BY <1>1
<1>7. /\ Append(mailbox, m) \in Seq(Messages) /\ Len(Append(mailbox, m)) = Len(mailbox) + 1
      /\ Append(mailbox, m)[Len(mailbox) + 1] = m /\ Len(mailbox) \in Nat
      /\ \A i \in 1..Len(mailbox) : Append(mailbox, m)[i] = mailbox[i]
      /\ \A i \in 1..(Len(mailbox) + 1) : i \in 1..Len(mailbox) \/ i = Len(mailbox) + 1
  BY <1>2, <1>3
<1>8. \A i \in 1..Len(mailbox') :
        \/ i \in 1..Len(mailbox) /\ mailbox'[i] = mailbox[i]
        \/ mailbox'[i] = m
  BY <1>6, <1>7
<1> HIDE DEF m
<1>9. TypeOK'
  <2>1. mailbox' \in Seq(Messages)
    BY <1>2, <1>6, <1>7
  <2>2. socket' \in {"none", "subscribed", "open", "closing"}
    BY <1>1
  <2>. QED BY <1>1, <1>5, <2>1, <2>2 DEF TypeOK, hubVars, clientVars
<1>10. RingComplete' /\ CursorInPast' /\ Phases'
  BY <1>1 DEF RingComplete, CursorInPast, Phases, hubVars, clientVars
<1>11. /\ \A k : Genuine(k) => Genuine(k)'
       /\ epoch' = epoch /\ emitted' = emitted /\ wire' = wire /\ lastSequence' = lastSequence
       /\ socket' # "none" /\ socket # "none"
  BY <1>1 DEF Genuine, hubVars, clientVars
<1>12. WireShape'
  BY <1>1, <1>11 DEF WireShape, Genuine, hubVars, clientVars
<1>13. QueueShape'
  <2>1. ASSUME NEW i \in 1..Len(mailbox')
        PROVE  /\ Genuine(mailbox[i])' /\ mailbox'[i].epoch = epoch'
               /\ mailbox'[i].kind \in {"event", "frame"}
    BY <1>1, <1>3, <1>8, <1>11 DEF QueueShape, Genuine, hubVars, clientVars
  <2>2. ASSUME NEW i \in 1..Len(receiver')
        PROVE  /\ Genuine(receiver[i])' /\ receiver'[i].epoch = epoch'
               /\ receiver'[i].kind = "event"
    BY <1>1, <1>5, <1>11 DEF QueueShape, Genuine, hubVars, clientVars
  <2>. QED BY <2>1, <2>2 DEF QueueShape
<1>14. FramesAhead'
  <2>1. ASSUME NEW i \in 1..Len(mailbox'), mailbox'[i].kind = "frame"
        PROVE  /\ lastSequence < mailbox'[i].seq
               /\ \A j \in 1..Len(wire) : wire[j].seq < mailbox'[i].seq
               /\ \A j \in 1..(i - 1) : mailbox'[j].seq < mailbox'[i].seq
    <3>1. i \in 1..Len(mailbox) /\ mailbox'[i] = mailbox[i]
      BY <1>3, <1>8, <2>1
    <3>2. \A j \in 1..(i - 1) : mailbox'[j] = mailbox[j]
      BY SMTT(30), <1>6, <1>7, <3>1
    <3>. QED BY <2>1, <3>1, <3>2 DEF FramesAhead
  <2>. QED BY <1>11, <2>1 DEF FramesAhead
<1>15. /\ Settled' = Settled /\ OnWire' = OnWire /\ Current' = Current
       /\ EmittedThrough(epoch, cursor)' = EmittedThrough(epoch, cursor)
       /\ EmittedThrough(clientEpoch, lastSequence)' = EmittedThrough(clientEpoch, lastSequence)
  BY <1>1 DEF Settled, OnWire, Current, EmittedThrough, hubVars, clientVars
<1>16. \/ Sent' = Sent /\ mailbox' = mailbox
       \/ /\ Sent' = Sent \cup Through(emitted, m) /\ ~lagged
          /\ mailbox' = Append(mailbox, m)
  <2>1. Passed(emitted, Append(mailbox, m)) = Passed(emitted, mailbox) \cup Through(emitted, m)
    BY <1>2, <1>3, AppendPasses
  <2>. QED BY <1>6, <1>11, <1>15, <2>1 DEF Sent
<1>17. ~lagged => /\ Follows(emitted, receiver, Sent)
                  /\ Current \subseteq Sent \cup Passed(emitted, receiver)
  BY <1>1 DEF StreamComplete
<1>18. Follows(emitted', mailbox', OnWire')
  <2>1. CASE mailbox' = mailbox
    BY <1>11, <1>15, <2>1 DEF StreamComplete
  <2>2. CASE mailbox' = Append(mailbox, m) /\ ~lagged
    <3>1. \A n \in emitted : n.epoch = m.epoch /\ n.seq < m.seq => n \in Sent
      BY <1>1, <1>2, <1>3, <1>17, <2>2, TakeMessage DEF m
    <3>2. \A n \in emitted : n.epoch = m.epoch /\ n.seq < m.seq =>
            n \in OnWire \cup Passed(emitted, mailbox)
      BY <3>1 DEF Sent
    <3>3. Follows(emitted, Append(mailbox, m), OnWire)
      BY <1>2, <1>3, <3>2, AppendMessage DEF StreamComplete
    <3>. QED BY <1>11, <1>15, <2>2, <3>3
  <2>. QED BY <1>16, <2>1, <2>2
<1>19. ASSUME socket' = "open", ~lagged'
       PROVE  /\ Follows(emitted', receiver', Sent')
              /\ Current' \subseteq Sent' \cup Passed(emitted', receiver')
  <2>1. /\ ~lagged /\ receiver' = Tail(receiver)
        /\ AlreadySent(m) \/ mailbox' = Append(mailbox, m)
    BY <1>1, <1>19 DEF m
  <2>2. Through(emitted, m) \subseteq Sent'
    <3>1. CASE AlreadySent(m)
      <4>1. Through(emitted, m) \subseteq EmittedThrough(epoch, cursor)
        <5>1. \A n \in emitted : n.seq \in Nat
          BY DEF TypeOK
        <5>2. m.seq <= cursor /\ cursor \in Nat
          BY <3>1 DEF AlreadySent, TypeOK
        <5>. QED BY <1>3, <5>1, <5>2 DEF Through, EmittedThrough
      <4>2. EmittedThrough(epoch, cursor) \subseteq OnWire
        BY <1>1, <3>1 DEF AlreadySent, StreamComplete
      <4>. QED BY <1>15, <4>1, <4>2 DEF Sent
    <3>2. CASE mailbox' = Append(mailbox, m)
      <4>1. Passed(emitted, Append(mailbox, m)) = Passed(emitted, mailbox) \cup Through(emitted, m)
        BY <1>2, <1>3, AppendPasses
      <4>. QED BY <1>11, <3>2, <4>1 DEF Sent
    <3>. QED BY <2>1, <3>1, <3>2
  <2>3. Sent \subseteq Sent'
    BY <1>16
  <2>4. /\ Passed(emitted, receiver) = Through(emitted, m) \cup Passed(emitted, Tail(receiver))
        /\ Follows(emitted, Tail(receiver), Sent \cup Through(emitted, m))
    BY <1>1, <1>2, <1>17, <2>1, TakeMessage DEF m
  <2>5. Follows(emitted, Tail(receiver), Sent')
    <3>1. \A i \in 1..Len(Tail(receiver)) : Tail(receiver)[i].epoch = epoch
      BY <1>4 DEF QueueShape
    <3>. QED BY <2>2, <2>3, <2>4, <3>1, KnowMore
  <2>. QED BY <1>11, <1>15, <1>17, <2>1, <2>2, <2>3, <2>4, <2>5
<1>20. socket' = "open" /\ protocol' = 2 => EmittedThrough(epoch, cursor)' \subseteq OnWire'
  BY <1>1, <1>15 DEF StreamComplete
<1>21. StreamComplete'
  <2>1. Follows(emitted', wire', Settled')
    BY <1>11, <1>15 DEF StreamComplete
  <2>. QED BY <1>18, <1>19, <1>20, <2>1 DEF StreamComplete
<1>22. CursorSettled'
  BY <1>15 DEF CursorSettled
<1>. QED BY <1>9, <1>10, <1>12, <1>13, <1>14, <1>21, <1>22

\* The writer moves the mailbox's first message to the wire's end.
LEMMA WriteMessageStep ==
  ASSUME StreamInv, mailbox # <<>>, socket \in {"open", "closing"},
         wire' = Append(wire, Head(mailbox)), mailbox' = Tail(mailbox),
         UNCHANGED <<socket, since, cursor, receiver, lagged, attached>>,
         UNCHANGED <<hubVars, clientVars, frames, disconnects, protocol>>
  PROVE  StreamInv'
<1> DEFINE m == Head(mailbox)
<1> USE DEF StreamInv
<1>1. /\ wire \in Seq(Messages) /\ mailbox \in Seq(Messages) /\ m = mailbox[1]
      /\ Len(mailbox) \in Nat /\ 1 \in 1..Len(mailbox) /\ Len(wire) \in Nat
  BY DEF TypeOK
<1>2. m \in Messages /\ m.kind \in {"event", "frame"} /\ m.epoch = epoch /\ Genuine(m)
  BY <1>1, MessageFields DEF QueueShape
<1>3. /\ mailbox' \in Seq(Messages) /\ Len(mailbox') = Len(mailbox) - 1
      /\ \A i \in 1..Len(mailbox') :
           mailbox'[i] = mailbox[i + 1] /\ i + 1 \in 1..Len(mailbox) /\ 1 \in 1..((i + 1) - 1)
  BY <1>1
<1>4. /\ wire' \in Seq(Messages) /\ Len(wire') = Len(wire) + 1 /\ wire'[Len(wire) + 1] = m
      /\ \A i \in 1..Len(wire) : wire'[i] = wire[i] /\ 1 \in 1..Len(wire)
      /\ \A i \in 1..Len(wire') : i \in 1..Len(wire) \/ i = Len(wire) + 1
      /\ wire # <<>> => wire'[1] = wire[1] /\ Len(wire) # 0
      /\ wire = <<>> => Len(wire) = 0
  BY <1>1, <1>2
<1>5. wire' = Append(wire, m) /\ mailbox' = Tail(mailbox) /\ wire' # <<>>
  BY <1>1, <1>4
<1> HIDE DEF m
<1>6. TypeOK'
  BY <1>3, <1>4 DEF TypeOK, hubVars, clientVars
<1>7. RingComplete' /\ CursorInPast'
  BY DEF RingComplete, CursorInPast, hubVars, clientVars
<1>8. Phases'
  BY <1>5 DEF Phases, hubVars, clientVars
<1>9. /\ epoch' = epoch /\ emitted' = emitted /\ lastSequence' = lastSequence
      /\ socket' = socket /\ status' = status /\ protocol' = protocol /\ clientEpoch' = clientEpoch
      /\ receiver' = receiver /\ sequence' = sequence
      /\ status # "disconnected" /\ socket # "none"
  BY DEF hubVars, clientVars, Phases
<1>10. WireShape'
  <2>1. \A i \in 1..Len(wire) : wire[i].epoch = epoch
    BY <1>9 DEF WireShape
  <2>2. \A i \in 1..Len(wire') : wire'[i].epoch = epoch
    BY <1>2, <1>4, <2>1
  <2>3. \A i \in 1..Len(wire') : wire'[i].epoch = wire'[1].epoch
    <3>1. \A i \in 1..Len(wire') : 1 \in 1..Len(wire')
      BY <1>1, <1>4
    <3>. QED BY <2>2, <3>1
  <2>4. status = "connected" => clientEpoch = epoch
    BY <1>9 DEF Phases
  <2>5. ASSUME NEW i \in 1..Len(wire')
        PROVE  /\ Genuine(wire[i])'
               /\ wire'[i].kind = "snapshot" =>
                    /\ i = 1 /\ protocol = 2 /\ status = "synchronizing"
                    /\ wire'[i].epoch = clientEpoch => lastSequence <= wire'[i].seq
               /\ protocol = 2 /\ status = "synchronizing" /\ i = 1 =>
                    wire'[i].kind \in {"snapshot", "close"}
               /\ wire'[i].kind = "gap" => protocol = 1 /\ wire'[i].floor = wire'[i].seq + 1
               /\ wire'[i].kind # "close"
    <3>1. CASE i \in 1..Len(wire)
      BY <1>4, <1>9, <3>1 DEF WireShape, Genuine
    <3>2. CASE i = Len(wire) + 1
      <4>1. wire'[i] = m
        BY <1>4, <3>2
      <4>2. protocol = 2 /\ status = "synchronizing" => i # 1
        BY <1>1, <1>4, <3>2 DEF Phases
      <4>. QED BY <1>2, <1>9, <4>1, <4>2 DEF Genuine
    <3>. QED BY <1>4, <3>1, <3>2
  <2>. QED BY <1>9, <2>2, <2>3, <2>4, <2>5 DEF WireShape
<1>11. QueueShape'
  <2>1. ASSUME NEW i \in 1..Len(mailbox')
        PROVE  /\ Genuine(mailbox[i])' /\ mailbox'[i].epoch = epoch'
               /\ mailbox'[i].kind \in {"event", "frame"}
    BY <1>3, <1>9 DEF QueueShape, Genuine
  <2>2. ASSUME NEW i \in 1..Len(receiver')
        PROVE  /\ Genuine(receiver[i])' /\ receiver'[i].epoch = epoch'
               /\ receiver'[i].kind = "event"
    BY <1>9 DEF QueueShape, Genuine
  <2>. QED BY <2>1, <2>2 DEF QueueShape
<1>12. FramesAhead'
  <2>1. ASSUME NEW i \in 1..Len(wire'), wire'[i].kind = "frame"
        PROVE  lastSequence < wire'[i].seq /\ \A j \in 1..(i - 1) : wire'[j].seq < wire'[i].seq
    <3>1. \A j \in 1..(i - 1) : wire'[j] = wire[j] /\ j \in 1..Len(wire)
      BY <1>1, <1>4
    <3>2. CASE i \in 1..Len(wire)
      BY <1>4, <2>1, <3>1, <3>2 DEF FramesAhead
    <3>3. CASE i = Len(wire) + 1
      BY <1>1, <1>4, <2>1, <3>1, <3>3 DEF FramesAhead
    <3>. QED BY <1>4, <3>2, <3>3
  <2>2. ASSUME NEW i \in 1..Len(mailbox'), mailbox'[i].kind = "frame"
        PROVE  /\ lastSequence < mailbox'[i].seq
               /\ \A j \in 1..Len(wire') : wire'[j].seq < mailbox'[i].seq
               /\ \A j \in 1..(i - 1) : mailbox'[j].seq < mailbox'[i].seq
    <3>1. /\ mailbox'[i] = mailbox[i + 1] /\ i + 1 \in 1..Len(mailbox)
          /\ 1 \in 1..((i + 1) - 1)
      BY <1>3
    <3>2. m.seq < mailbox'[i].seq
      BY <1>1, <2>2, <3>1 DEF FramesAhead
    <3>3. \A j \in 1..(i - 1) : mailbox'[j] = mailbox[j + 1] /\ j + 1 \in 1..((i + 1) - 1)
      BY <1>3
    <3>. QED BY <1>4, <2>2, <3>1, <3>2, <3>3 DEF FramesAhead
  <2>. QED BY <1>9, <2>1, <2>2 DEF FramesAhead
<1>13. /\ Settled' = Settled /\ Current' = Current
       /\ EmittedThrough(epoch, cursor)' = EmittedThrough(epoch, cursor)
       /\ EmittedThrough(clientEpoch, lastSequence)' = EmittedThrough(clientEpoch, lastSequence)
  BY DEF Settled, Current, EmittedThrough, hubVars, clientVars
<1>14. OnWire' = OnWire \cup Through(emitted, m)
  <2>1. wire \in Seq(Messages) /\ m \in Messages
    BY <1>1, <1>2
  <2>2. Passed(emitted, Append(wire, m)) = Passed(emitted, wire) \cup Through(emitted, m)
    BY <2>1, AppendPasses
  <2>. QED BY <1>5, <1>9, <1>13, <2>2 DEF OnWire
<1>15. Passed(emitted, mailbox) = Through(emitted, m) \cup Passed(emitted, mailbox')
  BY <1>1, <1>5, TakeMessage DEF m
<1>16. Sent' = Sent
  BY <1>9, <1>14, <1>15 DEF Sent
<1>17. Follows(emitted', wire', Settled')
  <2>1. m.kind = "event" => \A n \in emitted : n.epoch = m.epoch /\ n.seq < m.seq => n \in OnWire
    BY <1>1, TakeMessage DEF m, StreamComplete
  <2>2. m.kind = "event" => \A n \in emitted : n.epoch = m.epoch /\ n.seq < m.seq =>
          n \in Settled \cup Passed(emitted, wire)
    BY <2>1 DEF OnWire
  <2>3. Follows(emitted, Append(wire, m), Settled)
    BY <1>1, <1>2, <2>2, AppendMessage DEF StreamComplete
  <2>. QED BY <1>5, <1>9, <1>13, <2>3
<1>18. Follows(emitted', mailbox', OnWire')
  <2>1. Follows(emitted, Tail(mailbox), OnWire \cup Through(emitted, m))
    BY <1>1, TakeMessage DEF m, StreamComplete
  <2>. QED BY <1>5, <1>9, <1>14, <2>1
<1>19. StreamComplete'
  <2>1. socket' = "open" /\ ~lagged' =>
          /\ Follows(emitted', receiver', Sent')
          /\ Current' \subseteq Sent' \cup Passed(emitted', receiver')
    BY <1>9, <1>13, <1>16 DEF StreamComplete
  <2>2. socket' = "open" /\ protocol' = 2 => EmittedThrough(epoch, cursor)' \subseteq OnWire'
    BY <1>9, <1>13, <1>14 DEF StreamComplete
  <2>. QED BY <1>17, <1>18, <2>1, <2>2 DEF StreamComplete
<1>20. CursorSettled'
  BY <1>13 DEF CursorSettled
<1>. QED BY <1>6, <1>7, <1>8, <1>10, <1>11, <1>12, <1>19, <1>20

\* The close of a connection goes after everything else on the wire.
LEMMA AppendClose ==
  ASSUME StreamInv, socket # "none"
  PROVE  LET w == Append(wire, Close) IN
         /\ w \in Seq(Messages) /\ Len(w) \in Nat /\ w # <<>>
         /\ \A i \in 1..Len(w) : /\ w[i].epoch = epoch /\ w[1].epoch = epoch /\ Genuine(w[i])
                                 /\ \/ i \in 1..Len(wire) /\ w[i] = wire[i]
                                    \/ i = Len(w) /\ w[i].kind = "close"
         /\ \A i \in 1..Len(w) : w[i].kind # "close" =>
              \A j \in 1..(i - 1) : j \in 1..Len(wire) /\ w[j] = wire[j]
         /\ \A i \in 1..Len(w) : w[i].kind = "close" => i = Len(w)
         /\ Follows(emitted, w, Settled)
<1> DEFINE w == Append(wire, Close)
<1> USE DEF StreamInv
<1>1. /\ wire \in Seq(Messages) /\ epoch \in Nat /\ epoch >= 1 /\ sequence \in Nat
      /\ Close \in Messages
      /\ Close.kind = "close" /\ Close.epoch = epoch /\ Close.seq = 0
  <2>1. epoch \in Nat /\ epoch >= 1 /\ sequence \in Nat /\ wire \in Seq(Messages)
    BY DEF TypeOK
  <2>. QED BY <2>1, MessageTypes DEF Close
<1>2. /\ w \in Seq(Messages) /\ Len(w) = Len(wire) + 1 /\ w[Len(wire) + 1] = Close
      /\ Len(wire) \in Nat
      /\ \A i \in 1..Len(wire) : w[i] = wire[i]
      /\ \A i \in 1..Len(w) : 1 \in 1..Len(w) /\ (i \in 1..Len(wire) \/ i = Len(w))
      /\ w # <<>>
  BY <1>1
<1> HIDE DEF w
<1>3. Genuine(Close)
  BY <1>1 DEF Genuine
<1>4. \A i \in 1..Len(wire) : wire[i].epoch = epoch /\ Genuine(wire[i]) /\ wire[i].kind # "close"
  BY DEF WireShape
<1>5. ASSUME NEW i \in 1..Len(w)
      PROVE  /\ w[i].epoch = epoch /\ Genuine(w[i])
             /\ \/ i \in 1..Len(wire) /\ w[i] = wire[i] /\ w[i].kind # "close"
                \/ i = Len(w) /\ w[i].kind = "close"
  <2>1. CASE i \in 1..Len(wire)
    BY <1>2, <1>4, <2>1
  <2>2. CASE i = Len(w)
    BY <1>1, <1>2, <1>3, <2>2
  <2>. QED BY <1>2, <2>1, <2>2
<1>6. \A i \in 1..Len(w) : w[1].epoch = epoch
  BY <1>2, <1>5
<1>7. \A i \in 1..Len(w) : w[i].kind # "close" =>
        \A j \in 1..(i - 1) : j \in 1..Len(wire) /\ w[j] = wire[j]
  <2> SUFFICES ASSUME NEW i \in 1..Len(w), w[i].kind # "close", NEW j \in 1..(i - 1)
               PROVE  j \in 1..Len(wire) /\ w[j] = wire[j]
    OBVIOUS
  <2>1. i \in 1..Len(wire)
    BY <1>5
  <2>. QED BY <1>2, <2>1
<1>8. Follows(emitted, w, Settled)
  BY <1>1, AppendMessage DEF StreamComplete, w
<1>. QED BY <1>2, <1>5, <1>6, <1>7, <1>8 DEF w

\* After its last message a closing connection sends its close and ends.
LEMMA WriteCloseStep ==
  ASSUME StreamInv, mailbox = <<>>, socket = "closing",
         wire' = Append(wire, Close), TaskEnds,
         UNCHANGED <<hubVars, clientVars, frames, disconnects, protocol>>
  PROVE  StreamInv'
<1> USE DEF StreamInv
<1>1. /\ wire' \in Seq(Messages) /\ Len(wire') \in Nat /\ wire' # <<>>
      /\ \A i \in 1..Len(wire') :
           /\ wire'[i].epoch = epoch /\ wire'[1].epoch = epoch /\ Genuine(wire'[i])
           /\ \/ i \in 1..Len(wire) /\ wire'[i] = wire[i]
              \/ i = Len(wire') /\ wire'[i].kind = "close"
      /\ \A i \in 1..Len(wire') : wire'[i].kind # "close" =>
           \A j \in 1..(i - 1) : j \in 1..Len(wire) /\ wire'[j] = wire[j]
      /\ \A i \in 1..Len(wire') : wire'[i].kind = "close" => i = Len(wire')
      /\ Follows(emitted, wire', Settled)
  BY AppendClose
<1>2. /\ socket' = "none" /\ since' = 0 /\ cursor' = 0 /\ receiver' = <<>>
      /\ lagged' = FALSE /\ attached' = FALSE /\ mailbox' = <<>>
  BY DEF TaskEnds
<1>3. /\ epoch' = epoch /\ sequence' = sequence /\ emitted' = emitted /\ status' = status
      /\ clientEpoch' = clientEpoch /\ lastSequence' = lastSequence /\ protocol' = protocol
      /\ covered' = covered /\ overtaken' = overtaken
      /\ status # "disconnected"
  BY DEF hubVars, clientVars, Phases
<1>4. TypeOK'
  <2>1. <<>> \in Seq(Messages) /\ Len(<<>>) <= BroadcastCapacity
    BY LimitsAssumption DEF LimitsAssumption
  <2>. QED BY <1>1, <1>2, <2>1 DEF TypeOK, hubVars, clientVars
<1>5. RingComplete' /\ CursorInPast'
  <2>1. sequence \in Nat
    BY DEF TypeOK
  <2>. QED BY <1>2, <2>1 DEF RingComplete, CursorInPast, hubVars, clientVars
<1>6. Phases'
  BY <1>1, <1>2, <1>3 DEF Phases
<1>7. WireShape'
  <2>1. status = "connected" => clientEpoch = epoch
    BY DEF Phases
  <2> SUFFICES ASSUME NEW i \in 1..Len(wire')
               PROVE  /\ Genuine(wire'[i])
                      /\ wire'[i].epoch = wire'[1].epoch
                      /\ status = "connected" => wire'[i].epoch = clientEpoch
                      /\ wire'[i].kind = "snapshot" =>
                           /\ i = 1 /\ protocol = 2 /\ status = "synchronizing"
                           /\ wire'[i].epoch = clientEpoch => lastSequence <= wire'[i].seq
                      /\ protocol = 2 /\ status = "synchronizing" /\ i = 1 =>
                           wire'[i].kind \in {"snapshot", "close"}
                      /\ wire'[i].kind = "gap" => protocol = 1 /\ wire'[i].floor = wire'[i].seq + 1
                      /\ wire'[i].kind = "close" => i = Len(wire')
    BY <1>2, <1>3 DEF WireShape, Genuine
  <2>. QED BY <1>1, <2>1 DEF WireShape
<1>8. QueueShape'
  BY <1>2 DEF QueueShape
<1>9. FramesAhead'
  <2>1. ASSUME NEW i \in 1..Len(wire'), wire'[i].kind = "frame"
        PROVE  lastSequence < wire'[i].seq /\ \A j \in 1..(i - 1) : wire'[j].seq < wire'[i].seq
    <3>1. i \in 1..Len(wire) /\ wire'[i] = wire[i] /\ \A j \in 1..(i - 1) : wire'[j] = wire[j]
      BY <1>1, <2>1
    <3>. QED BY <2>1, <3>1 DEF FramesAhead
  <2>. QED BY <1>2, <1>3, <2>1 DEF FramesAhead
<1>10. Settled' = Settled
  BY <1>3 DEF Settled
<1>11. StreamComplete'
  BY SMTT(30), <1>1, <1>2, <1>3, <1>10 DEF StreamComplete, Follows
<1>12. CursorSettled'
  BY <1>3, <1>10 DEF CursorSettled, EmittedThrough
<1>. QED BY <1>4, <1>5, <1>6, <1>7, <1>8, <1>9, <1>11, <1>12

LEMMA WriteStep ==
  ASSUME StreamInv, Write
  PROVE  StreamInv'
BY WriteMessageStep, WriteCloseStep DEF Write

-----------------------------------------------------------------------------
(* The steps of the client, the network and the host process *)

\* The first message on the wire and what is left after it.
LEMMA HeadOfWire ==
  ASSUME StreamInv, wire # <<>>
  PROVE  /\ Len(wire) \in Nat /\ 1 \in 1..Len(wire) /\ Head(wire) = wire[1]
         /\ wire[1].epoch \in Nat /\ wire[1].seq \in Nat
         /\ Tail(wire) \in Seq(Messages) /\ Len(Tail(wire)) = Len(wire) - 1
         /\ \A i \in 1..Len(Tail(wire)) :
              /\ Tail(wire)[i] = wire[i + 1] /\ i + 1 \in 1..Len(wire)
              /\ 1 \in 1..((i + 1) - 1) /\ i + 1 # 1
              /\ \A j \in 1..(i - 1) : /\ Tail(wire)[j] = wire[j + 1]
                                       /\ j + 1 \in 1..((i + 1) - 1)
         /\ socket # "subscribed" /\ status # "disconnected"
         /\ Genuine(wire[1])
<1> USE DEF StreamInv
<1>1. wire \in Seq(Messages)
  BY DEF TypeOK
<1>2. /\ Len(wire) \in Nat /\ 1 \in 1..Len(wire) /\ Head(wire) = wire[1]
      /\ Tail(wire) \in Seq(Messages) /\ Len(Tail(wire)) = Len(wire) - 1
      /\ \A i \in 1..Len(Tail(wire)) :
           /\ Tail(wire)[i] = wire[i + 1] /\ i + 1 \in 1..Len(wire)
           /\ 1 \in 1..((i + 1) - 1) /\ i + 1 # 1
  BY <1>1
<1>3. \A i \in 1..Len(Tail(wire)) : \A j \in 1..(i - 1) :
        Tail(wire)[j] = wire[j + 1] /\ j + 1 \in 1..((i + 1) - 1)
  <2> SUFFICES ASSUME NEW i \in 1..Len(Tail(wire)), NEW j \in 1..(i - 1)
               PROVE  Tail(wire)[j] = wire[j + 1] /\ j + 1 \in 1..((i + 1) - 1)
    OBVIOUS
  <2>1. j \in 1..Len(Tail(wire))
    BY SMTT(30), <1>2
  <2>. QED BY <1>2, <2>1
<1>4. wire[1].epoch \in Nat /\ wire[1].seq \in Nat
  BY SMTT(30), <1>2, MessageFields
<1>5. socket # "subscribed" /\ status # "disconnected" /\ Genuine(wire[1])
  BY <1>2 DEF Phases, WireShape
<1>. QED BY <1>2, <1>3, <1>4, <1>5

\* What a message other than a close makes of the client: unless it is a
\* duplicate it moves the cursor to its number, and everything up to there is
\* settled.
LEMMA ClientAdvances ==
  ASSUME StreamInv, wire # <<>>, Head(wire).kind # "close", emitted' = emitted,
         LET m == Head(wire) IN AcceptSnapshot(m) \/ AcceptEvent(m) \/ AcceptFrame(m)
  PROVE  LET m == wire[1] IN
         /\ clientEpoch' = m.epoch
         /\ \/ lastSequence' = m.seq
            \/ /\ lastSequence' = lastSequence /\ m.seq <= lastSequence
               /\ clientEpoch = m.epoch \/ (lastSequence = 0 /\ m.epoch = epoch)
         /\ \/ status' = "connected"
            \/ status' = "synchronizing" /\ protocol = 1 /\ m.epoch = epoch
         /\ protocol = 1 => status' # "connected" /\ overtaken' = 0
         /\ overtaken' \in Nat /\ overtaken' <= lastSequence'
         /\ covered' \subseteq emitted
         /\ \A n \in emitted : n \in Settled /\ n.epoch = m.epoch => n \in Settled'
         /\ Through(emitted, m) \subseteq Settled'
         /\ CursorSettled'
<1> DEFINE m == wire[1]
<1> USE DEF StreamInv
<1>1. /\ Head(wire) = m /\ m.epoch \in Nat /\ m.seq \in Nat /\ 1 \in 1..Len(wire)
      /\ Genuine(m) /\ status # "disconnected"
  BY HeadOfWire
<1>2. /\ clientEpoch \in Nat /\ lastSequence \in Nat /\ overtaken \in Nat
      /\ overtaken <= lastSequence /\ covered \subseteq emitted
      /\ status \in {"disconnected", "synchronizing", "connected"}
      /\ protocol \in {1, 2} /\ epoch \in Nat
      /\ protocol = 1 => epoch = 1 /\ overtaken = 0 /\ status # "connected"
      /\ clientEpoch <= epoch
      /\ clientEpoch = 0 => lastSequence = 0
  BY ProtocolAssumption DEF TypeOK, CursorInPast, ProtocolAssumption
<1>3. \A n \in emitted : n \in [epoch : Nat, seq : Nat] /\ n.epoch \in Nat /\ n.seq \in Nat
                         /\ n.seq >= 1 /\ n.epoch >= 1
  BY DEF TypeOK, RingComplete
<1>4. m.kind # "snapshot" =>
        \/ status = "connected" /\ clientEpoch = m.epoch
        \/ /\ status = "synchronizing" /\ protocol = 1 /\ m.epoch = epoch /\ overtaken = 0
           /\ m.kind # "frame"
           /\ clientEpoch = m.epoch \/ lastSequence = 0
  <2> SUFFICES ASSUME m.kind # "snapshot"
               PROVE  \/ status = "connected" /\ clientEpoch = m.epoch
                      \/ /\ status = "synchronizing" /\ protocol = 1 /\ m.epoch = epoch /\ overtaken = 0
                         /\ m.kind # "frame"
                         /\ clientEpoch = m.epoch \/ lastSequence = 0
    OBVIOUS
  <2>1. CASE status = "connected"
    BY <1>1, <2>1 DEF WireShape
  <2>2. CASE status = "synchronizing"
    <3>1. protocol = 1
      BY <1>1, <1>2, <2>2 DEF WireShape
    <3>2. m.epoch >= 1 /\ m.epoch <= epoch /\ m.kind # "frame"
      BY <1>1, <2>2 DEF Genuine
    <3>3. epoch = 1 /\ m.epoch = 1 /\ overtaken = 0
      BY <1>1, <1>2, <3>1, <3>2
    <3>4. clientEpoch = 1 \/ clientEpoch = 0
      BY <1>2, <3>3
    <3>. QED BY <1>2, <2>2, <3>1, <3>2, <3>3, <3>4
  <2>. QED BY <1>1, <1>2, <2>1, <2>2
<1> HIDE DEF m
\* Earlier events of the epoch are settled before an event arrives.
<1>5. m.kind = "event" =>
        \A n \in emitted : n.epoch = m.epoch /\ n.seq < m.seq => n \in Settled
  <2>1. wire \in Seq(Messages) /\ Follows(emitted, wire, Settled)
    BY DEF TypeOK, StreamComplete
  <2>. QED BY <1>1, <2>1, TakeMessage
\* Settled in terms of the client's variables.
<1>6. \A n \in emitted :
        n \in Settled' <=> n \in covered' \/ (n.epoch = clientEpoch' /\ n.seq <= overtaken')
  BY DEF Settled
<1>7. \A n \in emitted :
        n \in Settled <=> n \in covered \/ (n.epoch = clientEpoch /\ n.seq <= overtaken)
  BY DEF Settled
<1>8. CASE AcceptSnapshot(m)
  <2>1. /\ m.kind = "snapshot" /\ status' = "connected" /\ clientEpoch' = m.epoch
        /\ lastSequence' = m.seq /\ overtaken' = 0
        /\ covered' = covered \cup EmittedThrough(m.epoch, m.seq)
    BY <1>8 DEF AcceptSnapshot
  <2>2. protocol = 2 /\ (m.epoch = clientEpoch => lastSequence <= m.seq)
    BY <1>1, <2>1 DEF WireShape, m
  <2>3. Through(emitted, m) \subseteq Settled'
    BY <1>6, <2>1 DEF Through, EmittedThrough
  <2>4. ASSUME NEW n \in emitted, n \in Settled, n.epoch = m.epoch PROVE n \in Settled'
    <3>1. CASE n \in covered
      BY <1>6, <2>1, <3>1
    <3>2. CASE n.epoch = clientEpoch /\ n.seq <= overtaken
      <4>1. n.seq <= m.seq
        BY <1>1, <1>2, <1>3, <2>2, <2>4, <3>2
      <4>. QED BY <2>3, <2>4, <4>1 DEF Through
    <3>. QED BY <1>7, <2>4, <3>1, <3>2
  <2>5. CursorSettled'
    BY <2>1, <2>3 DEF CursorSettled, EmittedThrough, Through
  <2>6. covered' \subseteq emitted
    BY <1>2, <2>1 DEF EmittedThrough
  <2>. QED BY <1>1, <2>1, <2>2, <2>3, <2>4, <2>5, <2>6 DEF m
<1>9. CASE AcceptFrame(m)
  <2>1. /\ m.kind = "frame" /\ m.kind # "snapshot"
        /\ UNCHANGED <<status, clientEpoch, covered>>
        /\ Accepts(m) => lastSequence' = m.seq /\ overtaken' = m.seq
    BY <1>9 DEF AcceptFrame
  <2>2. Accepts(m) /\ status = "connected" /\ clientEpoch = m.epoch
    BY <1>1, <1>4, <2>1 DEF FramesAhead, Accepts, m
  <2>3. Through(emitted, m) \subseteq Settled'
    BY <1>6, <2>1, <2>2 DEF Through
  <2>4. ASSUME NEW n \in emitted, n \in Settled, n.epoch = m.epoch PROVE n \in Settled'
    <3>1. CASE n \in covered
      BY <1>6, <2>1, <3>1
    <3>2. CASE n.epoch = clientEpoch /\ n.seq <= overtaken
      <4>1. n.seq <= m.seq
        BY <1>1, <1>2, <1>3, <2>2, <3>2 DEF Accepts
      <4>. QED BY <2>3, <2>4, <4>1 DEF Through
    <3>. QED BY <1>7, <2>4, <3>1, <3>2
  <2>5. CursorSettled'
    BY <2>1, <2>2, <2>3 DEF CursorSettled, EmittedThrough, Through
  <2>. QED BY <1>1, <1>2, <2>1, <2>2, <2>3, <2>4, <2>5 DEF m
<1>10. CASE AcceptEvent(m)
  <2>1. /\ m.kind \in {"event", "gap"} /\ m.kind # "snapshot"
        /\ clientEpoch' = m.epoch /\ status' = status /\ overtaken' = overtaken
    BY <1>10 DEF AcceptEvent
  <2>2. /\ \/ status = "connected"
           \/ status = "synchronizing" /\ protocol = 1 /\ m.epoch = epoch
        /\ \/ clientEpoch = m.epoch
           \/ lastSequence = 0 /\ overtaken = 0 /\ m.epoch = epoch
    BY <1>2, <1>4, <2>1
  <2>3. covered \subseteq covered' =>
          \A n \in emitted : n \in Settled /\ n.epoch = m.epoch => n \in Settled'
    <3> SUFFICES ASSUME covered \subseteq covered', NEW n \in emitted, n \in Settled, n.epoch = m.epoch
                 PROVE  n \in Settled'
      OBVIOUS
    <3>. QED BY <1>6, <1>7, <2>1
  <2>4. CASE Accepts(m)
    <3>1. /\ m.seq > lastSequence /\ lastSequence' = m.seq
          /\ covered' = covered \cup
               IF m.kind = "event" THEN {[epoch |-> m.epoch, seq |-> m.seq]}
                                   ELSE EmittedThrough(m.epoch, m.floor - 1)
      BY <1>10, <2>4 DEF AcceptEvent, Accepts
    <3>2. covered \subseteq covered' /\ covered' \subseteq emitted
      BY <1>1, <1>2, <3>1 DEF EmittedThrough, Genuine
    <3>3. ASSUME NEW n \in emitted, n.epoch = m.epoch, n.seq <= m.seq PROVE n \in Settled'
      <4>1. CASE m.kind = "gap"
        <5>1. m.floor = m.seq + 1
          BY <1>1, <4>1 DEF WireShape, m
        <5>2. m.floor - 1 = m.seq
          BY <1>1, <5>1
        <5>. QED BY <1>6, <3>1, <3>3, <4>1, <5>2 DEF EmittedThrough
      <4>2. CASE m.kind = "event" /\ n.seq < m.seq
        BY <1>5, <2>3, <3>2, <3>3, <4>2
      <4>3. CASE m.kind = "event" /\ n.seq = m.seq
        <5>1. n = [epoch |-> m.epoch, seq |-> m.seq]
          BY <1>3, <3>3, <4>3
        <5>. QED BY <1>6, <3>1, <4>3, <5>1
      <4>. QED BY <1>1, <1>3, <2>1, <3>3, <4>1, <4>2, <4>3
    <3>4. Through(emitted, m) \subseteq Settled'
      BY <3>3 DEF Through
    <3>5. CursorSettled'
      BY <2>1, <3>1, <3>4 DEF CursorSettled, EmittedThrough, Through
    <3>6. overtaken' <= lastSequence'
      BY <1>1, <1>2, <2>1, <3>1
    <3>. QED BY <1>2, <2>1, <2>2, <2>3, <3>1, <3>2, <3>4, <3>5, <3>6 DEF m
  <2>5. CASE ~Accepts(m)
    <3>1. m.seq <= lastSequence /\ lastSequence' = lastSequence /\ covered' = covered
      BY <1>1, <1>2, <1>10, <2>5 DEF AcceptEvent, Accepts
    <3>2. ASSUME NEW n \in emitted, n.epoch = m.epoch, n.seq <= lastSequence PROVE n \in Settled'
      <4>1. clientEpoch = m.epoch
        BY <1>3, <2>2, <3>2
      <4>2. n \in Settled
        BY <3>2, <4>1 DEF CursorSettled, EmittedThrough
      <4>. QED BY <2>3, <3>1, <3>2, <4>2
    <3>3. \A n \in emitted : n.seq <= m.seq => n.seq <= lastSequence
      BY <1>1, <1>2, <1>3, <3>1
    <3>4. Through(emitted, m) \subseteq Settled'
      BY <3>2, <3>3 DEF Through
    <3>5. CursorSettled'
      BY <2>1, <3>1, <3>2 DEF CursorSettled, EmittedThrough
    <3>. QED BY <1>2, <2>1, <2>2, <2>3, <3>1, <3>4, <3>5 DEF m
  <2>. QED BY <2>4, <2>5
<1>. QED BY <1>1, <1>8, <1>9, <1>10

\* The client takes the first message off the wire.
LEMMA ReceiveMessageStep ==
  ASSUME StreamInv, Receive, Head(wire).kind # "close"
  PROVE  StreamInv'
<1> DEFINE m == wire[1]
<1> USE DEF StreamInv
<1>1. /\ wire # <<>> /\ wire' = Tail(wire)
      /\ UNCHANGED <<hubVars, taskVars, frames, disconnects, protocol>>
      /\ AcceptSnapshot(Head(wire)) \/ AcceptEvent(Head(wire)) \/ AcceptFrame(Head(wire))
  BY DEF Receive, AcceptClose
<1>2. /\ epoch' = epoch /\ sequence' = sequence /\ emitted' = emitted /\ socket' = socket
      /\ cursor' = cursor /\ receiver' = receiver /\ lagged' = lagged /\ attached' = attached
      /\ mailbox' = mailbox /\ protocol' = protocol /\ since' = since
  BY <1>1 DEF hubVars, taskVars
<1>3. /\ Len(wire) \in Nat /\ 1 \in 1..Len(wire) /\ Head(wire) = m
      /\ m.epoch \in Nat /\ m.seq \in Nat
      /\ wire' \in Seq(Messages) /\ Len(wire') = Len(wire) - 1
      /\ \A i \in 1..Len(wire') :
           /\ wire'[i] = wire[i + 1] /\ i + 1 \in 1..Len(wire)
           /\ 1 \in 1..((i + 1) - 1) /\ i + 1 # 1
           /\ \A j \in 1..(i - 1) : wire'[j] = wire[j + 1] /\ j + 1 \in 1..((i + 1) - 1)
      /\ socket # "subscribed" /\ status # "disconnected"
      /\ Genuine(m)
  BY <1>1, HeadOfWire
<1>4. /\ clientEpoch' = m.epoch
      /\ \/ lastSequence' = m.seq
         \/ /\ lastSequence' = lastSequence /\ m.seq <= lastSequence
            /\ clientEpoch = m.epoch \/ (lastSequence = 0 /\ m.epoch = epoch)
      /\ \/ status' = "connected"
         \/ status' = "synchronizing" /\ protocol = 1 /\ m.epoch = epoch
      /\ protocol = 1 => status' # "connected" /\ overtaken' = 0
      /\ overtaken' \in Nat /\ overtaken' <= lastSequence'
      /\ covered' \subseteq emitted
      /\ \A n \in emitted : n \in Settled /\ n.epoch = m.epoch => n \in Settled'
      /\ Through(emitted, m) \subseteq Settled'
      /\ CursorSettled'
  BY <1>1, <1>2, ClientAdvances
<1>5. /\ \A i \in 1..Len(wire) : wire[i].epoch = m.epoch
      /\ socket # "none" => m.epoch = epoch
  BY <1>3 DEF WireShape
<1>6. wire \in Seq(Messages) /\ lastSequence \in Nat /\ sequence \in Nat /\ wire' = Tail(wire)
  BY <1>1 DEF TypeOK
<1> HIDE DEF m
<1>7. TypeOK'
  BY <1>1, <1>2, <1>3, <1>4, <1>6 DEF TypeOK, hubVars, taskVars
<1>8. RingComplete'
  BY <1>1 DEF RingComplete, hubVars
<1>9. CursorInPast'
  <2>1. /\ m.epoch <= epoch /\ m.epoch >= 1
        /\ m.epoch = epoch => m.seq <= sequence
    BY <1>3 DEF Genuine
  <2>2. clientEpoch' = epoch' => lastSequence' <= sequence'
    BY <1>2, <1>4, <1>6, <2>1 DEF CursorInPast
  <2>3. clientEpoch' # 0
    BY <1>3, <1>4, <2>1
  <2>. QED BY <1>2, <1>4, <2>1, <2>2, <2>3 DEF CursorInPast
<1>10. Phases'
  <2>1. status' # "disconnected" /\ socket' # "subscribed"
    BY <1>2, <1>3, <1>4
  <2>2. attached' => status' = "connected"
    BY <1>2, <1>4 DEF Phases, CursorInPast
  <2>3. status' = "connected" /\ socket' # "none" => clientEpoch' = epoch'
    BY <1>2, <1>4, <1>5
  <2>4. ~(protocol' = 2 /\ status' = "synchronizing")
    BY <1>2, <1>4
  <2>. QED BY <1>2, <2>1, <2>2, <2>3, <2>4 DEF Phases
<1>12. WireShape'
  <2>1. ASSUME NEW i \in 1..Len(wire')
        PROVE  /\ wire'[i].epoch = m.epoch
               /\ wire'[i].kind # "snapshot"
               /\ wire'[i].kind = "gap" => protocol = 1 /\ wire'[i].floor = wire'[i].seq + 1
               /\ wire'[i].kind = "close" => i = Len(wire') /\ socket = "none"
               /\ Genuine(wire'[i])
    <3>1. wire'[i] = wire[i + 1] /\ i + 1 \in 1..Len(wire) /\ i + 1 # 1
      BY <1>3
    <3>. QED BY <1>3, <1>5, <3>1 DEF WireShape
  <2>2. ASSUME NEW i \in 1..Len(wire') PROVE wire'[1].epoch = m.epoch
    <3>1. 1 \in 1..Len(wire')
      BY <1>3
    <3>. QED BY <2>1, <3>1
  <2>3. ~(protocol' = 2 /\ status' = "synchronizing")
    BY <1>2, <1>4
  <2> SUFFICES ASSUME NEW i \in 1..Len(wire')
               PROVE  /\ Genuine(wire[i])'
                      /\ wire'[i].epoch = wire'[1].epoch
                      /\ socket # "none" => wire'[i].epoch = epoch
                      /\ wire'[i].epoch = clientEpoch'
                      /\ wire'[i].kind # "snapshot"
                      /\ wire'[i].kind = "gap" => protocol = 1 /\ wire'[i].floor = wire'[i].seq + 1
                      /\ wire'[i].kind = "close" => i = Len(wire') /\ socket = "none"
    BY <1>2, <2>3 DEF WireShape
  <2>4. Genuine(wire[i])'
    BY <1>2, <1>4, <2>1 DEF Genuine, CursorInPast
  <2>. QED BY <1>4, <1>5, <2>1, <2>2, <2>4
<1>13. QueueShape'
  <2>1. \A i \in 1..Len(mailbox) : Genuine(mailbox[i])'
    BY <1>2, <1>4 DEF QueueShape, Genuine, CursorInPast
  <2>2. \A i \in 1..Len(receiver) : Genuine(receiver[i])'
    BY <1>2, <1>4 DEF QueueShape, Genuine, CursorInPast
  <2>. QED BY <1>2, <2>1, <2>2 DEF QueueShape
<1>14. FramesAhead'
  <2>1. ASSUME NEW i \in 1..Len(wire'), wire'[i].kind = "frame"
        PROVE  lastSequence' < wire'[i].seq /\ \A j \in 1..(i - 1) : wire'[j].seq < wire'[i].seq
    <3>1. /\ lastSequence < wire[i + 1].seq
          /\ \A j \in 1..((i + 1) - 1) : wire[j].seq < wire[i + 1].seq
      BY <1>3, <2>1 DEF FramesAhead
    <3>2. m.seq < wire[i + 1].seq
      BY <1>3, <3>1 DEF m
    <3>. QED BY <1>3, <1>4, <3>1, <3>2
  <2>2. ASSUME NEW i \in 1..Len(mailbox), mailbox[i].kind = "frame"
        PROVE  /\ lastSequence' < mailbox[i].seq
               /\ \A j \in 1..Len(wire') : wire'[j].seq < mailbox[i].seq
               /\ \A j \in 1..(i - 1) : mailbox[j].seq < mailbox[i].seq
    <3>1. /\ lastSequence < mailbox[i].seq
          /\ \A j \in 1..Len(wire) : wire[j].seq < mailbox[i].seq
          /\ \A j \in 1..(i - 1) : mailbox[j].seq < mailbox[i].seq
      BY <2>2 DEF FramesAhead
    <3>2. m.seq < mailbox[i].seq
      BY <1>3, <3>1 DEF m
    <3>. QED BY <1>3, <1>4, <3>1, <3>2
  <2>. QED BY <1>2, <2>1, <2>2 DEF FramesAhead
<1>15. /\ Passed(emitted, wire) = Through(emitted, m) \cup Passed(emitted, wire')
       /\ Follows(emitted, wire', Settled \cup Through(emitted, m))
  <2>1. wire \in Seq(Messages) /\ wire # <<>> /\ Follows(emitted, wire, Settled)
    BY <1>1, <1>6 DEF StreamComplete
  <2>2. /\ Passed(emitted, wire) = Through(emitted, Head(wire)) \cup Passed(emitted, Tail(wire))
        /\ Follows(emitted, Tail(wire), Settled \cup Through(emitted, Head(wire)))
    BY <2>1, TakeMessage
  <2>. QED BY <1>1, <1>3, <2>2
<1>16. Follows(emitted', wire', Settled')
  <2>1. \A i \in 1..Len(wire') : wire'[i].epoch = m.epoch
    BY <1>3, <1>5
  <2>2. \A n \in emitted : n.epoch = m.epoch /\ n \in Settled \cup Through(emitted, m) =>
          n \in Settled'
    BY <1>4
  <2>. QED BY <1>2, <1>15, <2>1, <2>2, KnowMore
\* While the task lives its events are those of the epoch on the wire.
<1>17. socket # "none" => /\ \A n \in emitted : n.epoch = epoch /\ n \in OnWire => n \in OnWire'
                          /\ \A n \in emitted : n.epoch = epoch /\ n \in Sent => n \in Sent'
  <2>1. socket # "none" => \A n \in emitted : n.epoch = epoch /\ n \in OnWire => n \in OnWire'
    BY <1>2, <1>4, <1>5, <1>15 DEF OnWire
  <2>. QED BY <1>2, <2>1 DEF Sent
<1>18. Follows(emitted', mailbox', OnWire')
  <2>1. CASE mailbox = <<>>
    BY <1>2, <2>1 DEF Follows
  <2>2. CASE mailbox # <<>>
    <3>1. socket # "none" /\ \A i \in 1..Len(mailbox) : mailbox[i].epoch = epoch
      BY <2>2 DEF Phases, QueueShape
    <3>. QED BY <1>2, <1>17, <3>1, KnowMore DEF StreamComplete
  <2>. QED BY <2>1, <2>2
<1>19. ASSUME socket' = "open", ~lagged'
       PROVE  /\ Follows(emitted', receiver', Sent')
              /\ Current' \subseteq Sent' \cup Passed(emitted', receiver')
  <2>1. /\ Follows(emitted, receiver, Sent)
        /\ Current \subseteq Sent \cup Passed(emitted, receiver)
    BY <1>2, <1>19 DEF StreamComplete
  <2>2. socket # "none" /\ \A i \in 1..Len(receiver) : receiver[i].epoch = epoch
    BY <1>2, <1>19 DEF QueueShape
  <2>3. Follows(emitted, receiver, Sent')
    BY <1>17, <2>1, <2>2, KnowMore
  <2>. QED BY <1>2, <1>17, <2>1, <2>2, <2>3 DEF Current
<1>20. socket' = "open" /\ protocol' = 2 => EmittedThrough(epoch, cursor)' \subseteq OnWire'
  <2>1. EmittedThrough(epoch, cursor)' = EmittedThrough(epoch, cursor)
    BY <1>2 DEF EmittedThrough
  <2>2. \A n \in EmittedThrough(epoch, cursor) : n \in emitted /\ n.epoch = epoch
    BY DEF EmittedThrough
  <2>. QED BY <1>2, <1>17, <2>1, <2>2 DEF StreamComplete
<1>21. StreamComplete'
  BY <1>16, <1>18, <1>19, <1>20 DEF StreamComplete
<1>. QED BY <1>4, <1>7, <1>8, <1>9, <1>10, <1>12, <1>13, <1>14, <1>21

\* Whatever ends the connection leaves nothing on its way.
LEMMA ConnectionEnds ==
  ASSUME StreamInv, TypeOK',
         UNCHANGED <<hubVars, clientEpoch, lastSequence, covered, overtaken, protocol>>,
         status' = "disconnected", socket' = "none", wire' = <<>>,
         mailbox' = <<>>, receiver' = <<>>, ~attached', cursor' \in {0, cursor}
  PROVE  StreamInv'
<1> USE DEF StreamInv
<1>1. /\ epoch' = epoch /\ sequence' = sequence /\ emitted' = emitted
      /\ Len(wire') = 0 /\ Len(mailbox') = 0 /\ Len(receiver') = 0
  BY DEF hubVars
<1>2. RingComplete'
  BY DEF RingComplete, hubVars
<1>3. CursorInPast'
  <2>1. sequence \in Nat
    BY DEF TypeOK
  <2>. QED BY <1>1, <2>1 DEF CursorInPast
<1>4. Phases'
  BY DEF Phases
<1>5. WireShape' /\ QueueShape' /\ FramesAhead'
  BY <1>1 DEF WireShape, QueueShape, FramesAhead
<1>6. StreamComplete'
  BY <1>1 DEF StreamComplete, Follows
<1>7. CursorSettled'
  BY <1>1 DEF CursorSettled, Settled, EmittedThrough
<1>. QED BY <1>2, <1>3, <1>4, <1>5, <1>6, <1>7

LEMMA ReceiveCloseStep ==
  ASSUME StreamInv, Receive, Head(wire).kind = "close"
  PROVE  StreamInv'
<1> USE DEF StreamInv
<1>1. /\ wire # <<>> /\ wire' = Tail(wire) /\ status' = "disconnected"
      /\ UNCHANGED <<hubVars, taskVars, frames, disconnects, protocol>>
      /\ UNCHANGED <<clientEpoch, lastSequence, covered, overtaken>>
  BY DEF Receive, AcceptSnapshot, AcceptEvent, AcceptFrame, AcceptClose
<1>2. socket = "none" /\ Len(wire) = 1 /\ Tail(wire) \in Seq(Messages) /\ Len(Tail(wire)) = Len(wire) - 1
  BY <1>1, HeadOfWire DEF WireShape
<1>3. wire' = <<>>
  BY <1>1, <1>2
<1>4. socket' = "none" /\ mailbox' = <<>> /\ receiver' = <<>> /\ ~attached' /\ cursor' = cursor
  BY <1>1, <1>2 DEF Phases, taskVars
<1>5. TypeOK'
  BY <1>1, <1>2 DEF TypeOK, hubVars, taskVars
<1>. QED BY <1>1, <1>3, <1>4, <1>5, ConnectionEnds

LEMMA ReceiveStep ==
  ASSUME StreamInv, Receive
  PROVE  StreamInv'
BY ReceiveMessageStep, ReceiveCloseStep

LEMMA DisconnectStep ==
  ASSUME StreamInv, Disconnect
  PROVE  StreamInv'
<1>1. /\ status' = "disconnected" /\ wire' = <<>> /\ TaskEnds
      /\ disconnects' = disconnects + 1
      /\ UNCHANGED <<hubVars, clientEpoch, lastSequence, covered, overtaken, frames, protocol>>
  BY DEF Disconnect
<1>2. TypeOK'
  <2>1. <<>> \in Seq(Messages) /\ Len(<<>>) <= BroadcastCapacity
    BY LimitsAssumption DEF LimitsAssumption
  <2>2. disconnects \in Nat /\ disconnects' \in Nat /\ {frames, restarts} \subseteq Nat
    BY <1>1 DEF StreamInv, TypeOK
  <2>. QED BY <1>1, <2>1, <2>2 DEF StreamInv, TypeOK, TaskEnds, hubVars
<1>. QED BY <1>1, <1>2, ConnectionEnds DEF TaskEnds

\* The next process begins with an empty hub; what the client holds and what is
\* still on the wire belong to an earlier epoch.
LEMMA RestartStep ==
  ASSUME StreamInv, Restart
  PROVE  StreamInv'
<1> USE DEF StreamInv
<1>1. /\ protocol = 2 /\ epoch' = epoch + 1 /\ sequence' = 0 /\ history' = <<>>
      /\ droppedThrough' = 0 /\ restarts' = restarts + 1
      /\ socket' = "none" /\ since' = 0 /\ cursor' = 0 /\ receiver' = <<>>
      /\ lagged' = FALSE /\ attached' = FALSE /\ mailbox' = <<>>
      /\ wire' = IF socket = "none" THEN wire ELSE Append(wire, Close)
      /\ emitted' = emitted /\ status' = status /\ clientEpoch' = clientEpoch
      /\ lastSequence' = lastSequence /\ covered' = covered /\ overtaken' = overtaken
      /\ UNCHANGED <<frames, disconnects, protocol>>
  BY DEF Restart, TaskEnds, clientVars
<1>2. /\ epoch \in Nat /\ epoch >= 1 /\ clientEpoch <= epoch /\ clientEpoch \in Nat
      /\ \A n \in emitted : n.epoch \in Nat /\ n.epoch <= epoch /\ n.epoch >= 1 /\ n.seq >= 1
  BY DEF TypeOK, CursorInPast, RingComplete
<1>3. /\ wire' \in Seq(Messages)
      /\ \A i \in 1..Len(wire') :
           /\ Genuine(wire'[i]) /\ wire'[i].epoch = wire'[1].epoch
           /\ \/ i \in 1..Len(wire) /\ wire'[i] = wire[i]
              \/ i = Len(wire') /\ wire'[i].kind = "close" /\ socket # "none" /\ wire'[i].epoch = epoch
      /\ \A i \in 1..Len(wire') : wire'[i].kind # "close" =>
           \A j \in 1..(i - 1) : j \in 1..Len(wire) /\ wire'[j] = wire[j]
      /\ \A i \in 1..Len(wire') : wire'[i].kind = "close" => i = Len(wire')
      /\ Follows(emitted, wire', Settled)
      /\ wire' # <<>> => wire # <<>> \/ socket # "none"
  <2>1. CASE socket = "none"
    <3>1. wire \in Seq(Messages) /\ Len(wire) \in Nat
      BY DEF TypeOK
    <3>2. \A i \in 1..Len(wire) : \A j \in 1..(i - 1) : j \in 1..Len(wire)
      BY <3>1
    <3>. QED BY <1>1, <2>1, <3>1, <3>2 DEF WireShape, StreamComplete
  <2>2. CASE socket # "none"
    BY <1>1, <2>2, AppendClose
  <2>. QED BY <2>1, <2>2
<1>4. \A e \in Nat : e <= epoch => e <= epoch' /\ e # epoch'
  BY <1>1, <1>2
<1>5. \A i \in 1..Len(wire') : wire'[i].epoch \in Nat /\ wire'[i].epoch >= 1 /\ wire'[i].epoch <= epoch
  <2> SUFFICES ASSUME NEW i \in 1..Len(wire')
               PROVE  wire'[i].epoch \in Nat /\ wire'[i].epoch >= 1 /\ wire'[i].epoch <= epoch
    OBVIOUS
  <2>1. wire'[i].epoch \in Nat
    BY <1>2, <1>3, MessageFields
  <2>. QED BY <1>3, <2>1 DEF Genuine
<1>6. TypeOK'
  <2>1. <<>> \in Seq(Messages) /\ Len(<<>>) <= BroadcastCapacity /\ Len(<<>>) <= HistoryCapacity
        /\ <<>> \in Seq(Nat)
    BY LimitsAssumption DEF LimitsAssumption
  <2>2. epoch' \in Nat \ {0} /\ restarts' \in Nat
    BY SMTT(30), <1>1, <1>2 DEF TypeOK
  <2>. QED BY <1>1, <1>3, <2>1, <2>2 DEF TypeOK
<1>7. RingComplete'
  <2>1. /\ \A n \in emitted : n.epoch <= epoch' /\ n.epoch # epoch'
        /\ Len(history') = 0
    BY <1>1, <1>2, <1>4
  <2>. QED BY <1>1, <1>2, <2>1 DEF RingComplete
<1>8. CursorInPast'
  BY <1>1, <1>2, <1>4 DEF CursorInPast
<1>9. Phases'
  BY <1>1, <1>3 DEF Phases
<1>10. WireShape'
  <2>1. status = "connected" /\ socket # "none" => clientEpoch = epoch
    BY DEF Phases
  <2>2. ASSUME NEW i \in 1..Len(wire') PROVE Genuine(wire[i])'
    <3>1. /\ wire'[i].epoch <= epoch' /\ wire'[i].epoch >= 1 /\ wire'[i].epoch # epoch'
      BY <1>4, <1>5
    <3>2. /\ wire'[i].kind = "event" => [epoch |-> wire'[i].epoch, seq |-> wire'[i].seq] \in emitted
          /\ wire'[i].kind = "frame" => status = "connected"
      BY <1>3 DEF Genuine
    <3>. QED BY <1>1, <3>1, <3>2 DEF Genuine
  <2> SUFFICES ASSUME NEW i \in 1..Len(wire')
               PROVE  /\ wire'[i].epoch = wire'[1].epoch
                      /\ status = "connected" => wire'[i].epoch = clientEpoch
                      /\ wire'[i].kind = "snapshot" =>
                           /\ i = 1 /\ protocol = 2 /\ status = "synchronizing"
                           /\ wire'[i].epoch = clientEpoch => lastSequence <= wire'[i].seq
                      /\ protocol = 2 /\ status = "synchronizing" /\ i = 1 =>
                           wire'[i].kind \in {"snapshot", "close"}
                      /\ wire'[i].kind = "gap" => protocol = 1 /\ wire'[i].floor = wire'[i].seq + 1
                      /\ wire'[i].kind = "close" => i = Len(wire')
    BY <1>1, <2>2 DEF WireShape
  <2>3. CASE i \in 1..Len(wire) /\ wire'[i] = wire[i]
    BY <1>3, <2>3 DEF WireShape
  <2>4. CASE i = Len(wire') /\ wire'[i].kind = "close" /\ socket # "none" /\ wire'[i].epoch = epoch
    BY <1>3, <2>1, <2>4
  <2>. QED BY <1>3, <2>3, <2>4
<1>11. QueueShape'
  <2>1. Len(mailbox') = 0 /\ Len(receiver') = 0
    BY <1>1
  <2>. QED BY <2>1 DEF QueueShape
<1>12. FramesAhead'
  <2>1. ASSUME NEW i \in 1..Len(wire'), wire'[i].kind = "frame"
        PROVE  lastSequence < wire'[i].seq /\ \A j \in 1..(i - 1) : wire'[j].seq < wire'[i].seq
    <3>1. i \in 1..Len(wire) /\ wire'[i] = wire[i] /\ \A j \in 1..(i - 1) : wire'[j] = wire[j]
      BY <1>3, <2>1
    <3>. QED BY <2>1, <3>1 DEF FramesAhead
  <2>2. Len(mailbox') = 0
    BY <1>1
  <2>. QED BY <1>1, <2>1, <2>2 DEF FramesAhead
<1>13. Settled' = Settled
  BY <1>1 DEF Settled
<1>14. StreamComplete'
  BY <1>1, <1>3, <1>13 DEF StreamComplete, Follows
<1>15. CursorSettled'
  BY <1>1, <1>13 DEF CursorSettled, EmittedThrough
<1>. QED BY <1>6, <1>7, <1>8, <1>9, <1>10, <1>11, <1>12, <1>14, <1>15

-----------------------------------------------------------------------------
(* Theorems *)

LEMMA StreamInit ==
  ASSUME Init
  PROVE  StreamInv
<1>1. /\ epoch = 1 /\ sequence = 0 /\ history = <<>> /\ droppedThrough = 0
      /\ socket = "none" /\ since = 0 /\ cursor = 0
      /\ receiver = <<>> /\ lagged = FALSE /\ attached = FALSE /\ mailbox = <<>> /\ wire = <<>>
      /\ status = "disconnected" /\ clientEpoch = 0 /\ lastSequence = 0
      /\ emitted = {} /\ covered = {} /\ overtaken = 0 /\ protocol \in Protocols
      /\ frames = 0 /\ disconnects = 0 /\ restarts = 0
  BY DEF Init
<1>2. /\ Len(<<>>) = 0 /\ <<>> \in Seq(Messages) /\ <<>> \in Seq(Nat)
      /\ BroadcastCapacity \in Nat /\ HistoryCapacity \in Nat
  BY LimitsAssumption DEF LimitsAssumption
<1>3. TypeOK
  <2>1. /\ history \in Seq(Nat) /\ Len(history) <= HistoryCapacity
        /\ receiver \in Seq(Messages) /\ Len(receiver) <= BroadcastCapacity
        /\ mailbox \in Seq(Messages) /\ wire \in Seq(Messages)
    BY <1>1, <1>2
  <2>2. emitted \subseteq [epoch : Nat, seq : Nat] /\ covered \subseteq emitted
    BY <1>1
  <2>3. /\ epoch \in Nat \ {0} /\ sequence \in Nat /\ droppedThrough \in Nat
        /\ since \in Nat /\ cursor \in Nat
    BY <1>1
  <2>4. lagged \in BOOLEAN /\ attached \in BOOLEAN
    BY <1>1
  <2>5. /\ socket \in {"none", "subscribed", "open", "closing"}
        /\ status \in {"disconnected", "synchronizing", "connected"}
        /\ clientEpoch \in Nat /\ lastSequence \in Nat /\ overtaken \in Nat
        /\ protocol \in Protocols /\ {frames, disconnects, restarts} \subseteq Nat
    BY <1>1
  <2>. QED BY <2>1, <2>2, <2>3, <2>4, <2>5 DEF TypeOK
<1>4. RingComplete /\ CursorInPast /\ Phases
  BY <1>1, <1>2 DEF RingComplete, CursorInPast, Phases
<1>5. WireShape /\ QueueShape /\ FramesAhead
  BY <1>1, <1>2 DEF WireShape, QueueShape, FramesAhead
<1>6. StreamComplete /\ CursorSettled
  BY <1>1, <1>2 DEF StreamComplete, Follows, CursorSettled, EmittedThrough
<1>. QED BY <1>3, <1>4, <1>5, <1>6 DEF StreamInv

LEMMA StreamStutter ==
  ASSUME StreamInv, UNCHANGED vars
  PROVE  StreamInv'
<1>1. /\ Settled' = Settled /\ OnWire' = OnWire /\ Sent' = Sent /\ Current' = Current
  BY SameStream DEF vars, hubVars, taskVars, clientVars
<1>2. TypeOK' /\ RingComplete' /\ CursorInPast' /\ Phases'
  BY DEF StreamInv, TypeOK, RingComplete, CursorInPast, Phases, vars, hubVars, taskVars, clientVars
<1>3. WireShape' /\ QueueShape' /\ FramesAhead'
  BY DEF StreamInv, WireShape, QueueShape, FramesAhead, Genuine, vars, hubVars, taskVars, clientVars
<1>4. StreamComplete' /\ CursorSettled'
  BY <1>1 DEF StreamInv, StreamComplete, CursorSettled, EmittedThrough,
              vars, hubVars, taskVars, clientVars
<1>. QED BY <1>2, <1>3, <1>4 DEF StreamInv

\* The stream from the hub's ring to the client's cursor has no gap that the
\* client does not know of (event_hub.rs emit, server.rs handle_socket,
\* web-transport.ts acceptHostEvent).
THEOREM StreamHolds == Spec => []StreamInv
<1>1. Init => StreamInv
  BY StreamInit
<1>2. StreamInv /\ [Next]_vars => StreamInv'
  BY LimitsAssumption, EmitStep, EmitTerminalStep, SubscribeStep, SendSnapshotStep,
     SendReplayStep, AttachStep, ForwardStep, WriteStep, ReceiveStep, DisconnectStep,
     RestartStep, StreamStutter DEF Next
<1>. QED BY <1>1, <1>2, PTL DEF Spec

\* A client whose cursor is at n has applied, received in a snapshot or been
\* told it missed every metadata event up to n, unless a terminal frame overtook
\* it; and a terminal frame is never rejected as a duplicate.
THEOREM StreamLosesNothing == Spec => []NothingLost
<1>1. StreamInv => NothingLost
  <2> SUFFICES ASSUME StreamInv PROVE NothingLost
    OBVIOUS
  <2>1. NoLostEvent
    <3> SUFFICES ASSUME NEW n \in Owed(clientEpoch, lastSequence) PROVE n \in covered
      BY DEF NoLostEvent
    <3>1. n \in EmittedThrough(clientEpoch, lastSequence) /\ n.seq > overtaken
      BY DEF Owed
    <3>2. n \in Settled /\ n.seq \in Nat /\ overtaken \in Nat
      BY <3>1 DEF StreamInv, CursorSettled, Settled, TypeOK
    <3>. QED BY <3>1, <3>2 DEF Settled
  <2>2. NoRejectedFrame
    <3> SUFFICES ASSUME wire # <<>>, Head(wire).kind = "frame" PROVE Accepts(Head(wire))
      BY DEF NoRejectedFrame
    <3>1. lastSequence < Head(wire).seq
      BY HeadOfWire DEF StreamInv, FramesAhead
    <3>2. lastSequence \in Nat /\ Head(wire).seq \in Nat
      BY HeadOfWire DEF StreamInv, TypeOK
    <3>. QED BY <3>1, <3>2 DEF Accepts
  <2>. QED BY <2>1, <2>2 DEF NothingLost, StreamInv
<1>. QED BY <1>1, StreamHolds, PTL

\* While no frame has moved the cursor, an event that acceptHostEvent rejects is
\* one that the client has.
THEOREM StreamRejectsDuplicates == Spec => []OnlyFramesOvertake
<1>1. StreamInv => OnlyFramesOvertake
  <2> SUFFICES ASSUME StreamInv, overtaken = 0, wire # <<>>, Head(wire).kind = "event",
                      ~Accepts(Head(wire))
               PROVE  [epoch |-> Head(wire).epoch, seq |-> Head(wire).seq] \in covered
    BY DEF OnlyFramesOvertake, RejectsOnlyDuplicates
  <2> DEFINE m == Head(wire)
             x == [epoch |-> m.epoch, seq |-> m.seq]
  <2>1. /\ m = wire[1] /\ m.epoch \in Nat /\ m.seq \in Nat /\ 1 \in 1..Len(wire)
        /\ Genuine(m) /\ status # "disconnected"
    BY HeadOfWire
  <2>2. /\ x \in emitted /\ m.seq >= 1 /\ m.epoch >= 1 /\ m.epoch <= epoch
    <3>1. x \in emitted /\ m.epoch >= 1 /\ m.epoch <= epoch
      BY <2>1 DEF Genuine
    <3>2. x.seq >= 1
      BY <3>1 DEF StreamInv, RingComplete
    <3>. QED BY <3>1, <3>2
  <2>3. m.seq <= lastSequence /\ lastSequence \in Nat /\ clientEpoch \in Nat /\ epoch \in Nat
    BY <2>1 DEF Accepts, StreamInv, TypeOK
  <2>4. clientEpoch = m.epoch
    <3>1. CASE status = "connected"
      BY <2>1, <3>1 DEF StreamInv, WireShape
    <3>2. CASE status = "synchronizing"
      <4>1. protocol # 2
        BY <2>1, <3>2 DEF StreamInv, WireShape
      <4>2. protocol = 1
        BY <4>1, ProtocolAssumption DEF ProtocolAssumption, StreamInv, TypeOK
      <4>3. epoch = 1 /\ clientEpoch <= epoch
        BY <4>2 DEF StreamInv, CursorInPast
      <4>4. clientEpoch = 0 => lastSequence = 0
        BY DEF StreamInv, CursorInPast
      <4>5. clientEpoch # 0
        BY <2>1, <2>2, <2>3, <4>4
      <4>. QED BY <2>1, <2>2, <2>3, <4>3, <4>5
    <3>. QED BY <2>1, <3>1, <3>2 DEF StreamInv, TypeOK
  <2>5. x \in Settled
    BY <2>2, <2>3, <2>4 DEF StreamInv, CursorSettled, EmittedThrough
  <2>6. ~(m.seq <= overtaken)
    BY <2>1, <2>2
  <2>. QED BY <2>5, <2>6 DEF Settled
<1>. QED BY <1>1, StreamHolds, PTL
=============================================================================
