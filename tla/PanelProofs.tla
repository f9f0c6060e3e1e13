----------------------------- MODULE PanelProofs -----------------------------
(* What is proved of a terminal's panel in a page, for any numbers of processes, *)
(* sizes and actions: what is typed reaches its process in order, a panel at rest *)
(* tells the truth about its process, a surface stays where it was placed, and     *)
(* output is acknowledged in order.                                                *)
EXTENDS TerminalPanel, SurfacePlacement, OutputWriter, WellFoundedInduction, TLAPS

-----------------------------------------------------------------------------
(* Keys: sequences of them, and sequences of such chunks.                       *)

Increasing(s) == \A i, j \in DOMAIN s : i < j => s[i] < s[j]
Before(A, B) == \A a \in A, b \in B : a < b
InOrder(chunks) ==
    /\ \A i \in DOMAIN chunks : Increasing(chunks[i])
    /\ \A i, j \in DOMAIN chunks : i < j => Before(ToSet(chunks[i]), ToSet(chunks[j]))
KeysIn(chunks) == UNION {ToSet(chunks[i]) : i \in DOMAIN chunks}

LEMMA Joined ==
  ASSUME NEW s \in Seq(Nat), NEW t \in Seq(Nat)
  PROVE  /\ s \o t \in Seq(Nat)
         /\ ToSet(s \o t) = ToSet(s) \cup ToSet(t)
         /\ Increasing(s) /\ Increasing(t) /\ Before(ToSet(s), ToSet(t)) => Increasing(s \o t)
<1>1. s \o t \in Seq(Nat) /\ Len(s \o t) = Len(s) + Len(t)
  OBVIOUS
<1>2. \A i \in 1..Len(s) + Len(t) : (s \o t)[i] = IF i <= Len(s) THEN s[i] ELSE t[i - Len(s)]
  OBVIOUS
<1>3. DOMAIN (s \o t) = 1..Len(s) + Len(t) /\ DOMAIN s = 1..Len(s) /\ DOMAIN t = 1..Len(t)
  BY <1>1
<1>4. Len(s) \in Nat /\ Len(t) \in Nat
  OBVIOUS
<1>5. ToSet(s \o t) \subseteq ToSet(s) \cup ToSet(t)
  <2>1. SUFFICES ASSUME NEW i \in 1..Len(s) + Len(t) PROVE (s \o t)[i] \in ToSet(s) \cup ToSet(t)
    BY <1>3 DEF ToSet
  <2>2. CASE i <= Len(s)
    <3>1. i \in DOMAIN s /\ (s \o t)[i] = s[i]
      BY <1>2, <1>3, <1>4, <2>2
    <3>. QED BY <3>1 DEF ToSet
  <2>3. CASE i > Len(s)
    <3>1. i - Len(s) \in DOMAIN t
      BY <1>3, <1>4, <2>3
    <3>. QED BY <1>2, <1>4, <2>3, <3>1 DEF ToSet
  <2>. QED BY <1>4, <2>2, <2>3
<1>6. ToSet(s) \subseteq ToSet(s \o t)
  <2>1. \A i \in 1..Len(s) : (s \o t)[i] = s[i] /\ i \in DOMAIN (s \o t)
    BY <1>2, <1>3, <1>4
  <2>. QED BY <1>3, <2>1 DEF ToSet
<1>7. ToSet(t) \subseteq ToSet(s \o t)
  <2>1. SUFFICES ASSUME NEW i \in 1..Len(t) PROVE t[i] \in ToSet(s \o t)
    BY <1>3 DEF ToSet
  <2>2. i + Len(s) \in DOMAIN (s \o t) /\ (s \o t)[i + Len(s)] = t[i]
    BY <1>2, <1>3, <1>4
  <2>. QED BY <2>2 DEF ToSet
<1>8. ASSUME Increasing(s), Increasing(t), Before(ToSet(s), ToSet(t)) PROVE Increasing(s \o t)
  <2>1. SUFFICES ASSUME NEW i \in 1..Len(s) + Len(t), NEW j \in 1..Len(s) + Len(t), i < j
                 PROVE  (s \o t)[i] < (s \o t)[j]
    BY <1>3 DEF Increasing
  <2>2. CASE j <= Len(s)
    <3>1. i \in DOMAIN s /\ j \in DOMAIN s /\ (s \o t)[i] = s[i] /\ (s \o t)[j] = s[j]
      BY <1>2, <1>3, <1>4, <2>1, <2>2
    <3>. QED BY <1>8, <2>1, <3>1 DEF Increasing
  <2>3. CASE i > Len(s)
    <3>1. i - Len(s) \in DOMAIN t /\ j - Len(s) \in DOMAIN t /\ i - Len(s) < j - Len(s)
      BY <1>3, <1>4, <2>1, <2>3
    <3>2. (s \o t)[i] = t[i - Len(s)] /\ (s \o t)[j] = t[j - Len(s)]
      BY <1>2, <1>4, <2>1, <2>3
    <3>. QED BY <1>8, <3>1, <3>2 DEF Increasing
  <2>4. CASE i <= Len(s) /\ j > Len(s)
    <3>1. j - Len(s) \in DOMAIN t /\ i \in DOMAIN s
      BY <1>3, <1>4, <2>4
    <3>2. (s \o t)[i] = s[i] /\ (s \o t)[j] = t[j - Len(s)]
      BY <1>2, <1>4, <2>4
    <3>. QED BY <1>8, <3>1, <3>2 DEF Before, ToSet
  <2>. QED BY <1>4, <2>2, <2>3, <2>4
<1>. QED BY <1>1, <1>5, <1>6, <1>7, <1>8

LEMMA OneMore ==
  ASSUME NEW s \in Seq(Nat), NEW n \in Nat
  PROVE  /\ Append(s, n) \in Seq(Nat)
         /\ ToSet(Append(s, n)) = ToSet(s) \cup {n}
         /\ Increasing(s) /\ Before(ToSet(s), {n}) => Increasing(Append(s, n))
<1>1. Append(s, n) = s \o <<n>> /\ <<n>> \in Seq(Nat)
  OBVIOUS
<1>2. ToSet(<<n>>) = {n} /\ Increasing(<<n>>)
  BY DEF ToSet, Increasing
<1>. QED BY <1>1, <1>2, Joined

(* The first chunk goes, ...                                                    *)
LEMMA FirstChunk ==
  ASSUME NEW chunks \in Seq(Seq(Nat)), chunks # <<>>
  PROVE  /\ Head(chunks) \in Seq(Nat) /\ Tail(chunks) \in Seq(Seq(Nat))
         /\ KeysIn(chunks) = ToSet(Head(chunks)) \cup KeysIn(Tail(chunks))
         /\ InOrder(chunks) => /\ Increasing(Head(chunks)) /\ InOrder(Tail(chunks))
                               /\ Before(ToSet(Head(chunks)), KeysIn(Tail(chunks)))
<1>1. /\ Head(chunks) = chunks[1] /\ 1 \in DOMAIN chunks /\ DOMAIN chunks = 1..Len(chunks)
      /\ Tail(chunks) \in Seq(Seq(Nat)) /\ Len(chunks) \in Nat
      /\ DOMAIN Tail(chunks) = 1..Len(chunks) - 1
      /\ \A i \in DOMAIN Tail(chunks) : Tail(chunks)[i] = chunks[i + 1]
  OBVIOUS
<1>2. \A i \in DOMAIN Tail(chunks) : i + 1 \in DOMAIN chunks /\ 1 < i + 1
  BY <1>1
<1>3. \A i \in DOMAIN chunks : i = 1 \/ (i - 1 \in DOMAIN Tail(chunks) /\ Tail(chunks)[i - 1] = chunks[i])
  BY <1>1
<1>4. KeysIn(chunks) \subseteq ToSet(Head(chunks)) \cup KeysIn(Tail(chunks))
  BY <1>1, <1>3 DEF KeysIn
<1>5. ToSet(Head(chunks)) \cup KeysIn(Tail(chunks)) \subseteq KeysIn(chunks)
  BY <1>1, <1>2 DEF KeysIn
<1>6. ASSUME InOrder(chunks)
      PROVE  /\ Increasing(Head(chunks)) /\ InOrder(Tail(chunks))
             /\ Before(ToSet(Head(chunks)), KeysIn(Tail(chunks)))
  <2>1. Increasing(Head(chunks)) /\ \A i \in DOMAIN Tail(chunks) : Increasing(Tail(chunks)[i])
    BY <1>1, <1>2, <1>6 DEF InOrder
  <2>2. \A i \in DOMAIN Tail(chunks) : Before(ToSet(Head(chunks)), ToSet(Tail(chunks)[i]))
    BY <1>1, <1>2, <1>6 DEF InOrder
  <2>3. \A i, j \in DOMAIN Tail(chunks) : i < j => Before(ToSet(Tail(chunks)[i]), ToSet(Tail(chunks)[j]))
    <3>1. \A i, j \in DOMAIN Tail(chunks) : i < j => i + 1 < j + 1
      BY <1>1
    <3>. QED BY <1>1, <1>2, <1>6, <3>1 DEF InOrder
  <2>. QED BY <2>1, <2>2, <2>3 DEF InOrder, Before, KeysIn
<1>. QED BY <1>1, <1>4, <1>5, <1>6

(* ... and another one comes last.                                              *)
LEMMA LastChunk ==
  ASSUME NEW chunks \in Seq(Seq(Nat)), NEW c \in Seq(Nat)
  PROVE  /\ Append(chunks, c) \in Seq(Seq(Nat))
         /\ KeysIn(Append(chunks, c)) = KeysIn(chunks) \cup ToSet(c)
         /\ InOrder(chunks) /\ Increasing(c) /\ Before(KeysIn(chunks), ToSet(c))
               => InOrder(Append(chunks, c))
<1> DEFINE longer == Append(chunks, c)
<1>1. /\ longer \in Seq(Seq(Nat)) /\ Len(chunks) \in Nat /\ DOMAIN chunks = 1..Len(chunks)
      /\ DOMAIN longer = 1..Len(chunks) + 1 /\ longer[Len(chunks) + 1] = c
      /\ \A i \in DOMAIN chunks : longer[i] = chunks[i]
  OBVIOUS
<1>. HIDE DEF longer
<1>2. \A i \in DOMAIN longer : i = Len(chunks) + 1 \/ i \in DOMAIN chunks
  BY <1>1
<1>3. \A i \in DOMAIN chunks : i \in DOMAIN longer /\ i < Len(chunks) + 1
  BY <1>1
<1>4. Len(chunks) + 1 \in DOMAIN longer
  BY <1>1
<1>5. KeysIn(longer) = KeysIn(chunks) \cup ToSet(c)
  BY <1>1, <1>2, <1>3, <1>4 DEF KeysIn
<1>6. ASSUME InOrder(chunks), Increasing(c), Before(KeysIn(chunks), ToSet(c)) PROVE InOrder(longer)
  <2>1. \A i \in DOMAIN longer : Increasing(longer[i])
    BY <1>1, <1>2, <1>6 DEF InOrder
  <2>2. ASSUME NEW i \in DOMAIN longer, NEW j \in DOMAIN longer, i < j
        PROVE  Before(ToSet(longer[i]), ToSet(longer[j]))
    <3>1. i \in DOMAIN chunks
      BY <1>1, <1>2, <2>2
    <3>2. CASE j \in DOMAIN chunks
      BY <1>1, <1>6, <2>2, <3>1, <3>2 DEF InOrder
    <3>3. CASE j = Len(chunks) + 1
      <4>1. ToSet(longer[i]) \subseteq KeysIn(chunks)
        BY <1>1, <3>1 DEF KeysIn
      <4>. QED BY <1>1, <1>6, <3>3, <4>1 DEF Before
    <3>. QED BY <1>2, <3>2, <3>3
  <2>. QED BY <2>1, <2>2 DEF InOrder
<1>. QED BY <1>1, <1>5, <1>6 DEF longer

-----------------------------------------------------------------------------
(* The keys of one process on their way: what it got, what is on the socket, in  *)
(* a call, in the writer's chain and batch, and what waits for the session.      *)

Lined(A, B, C, D, E, F) ==
    /\ Before(A, B \cup C \cup D \cup E \cup F)
    /\ Before(B, C \cup D \cup E \cup F)
    /\ Before(C, D \cup E \cup F)
    /\ Before(D, E \cup F)
    /\ Before(E, F)

LEMMA LinedReads ==
  ASSUME NEW A \in SUBSET Nat, NEW B \in SUBSET Nat, NEW C \in SUBSET Nat, NEW D \in SUBSET Nat,
         NEW E \in SUBSET Nat, NEW F \in SUBSET Nat, NEW X \in SUBSET Nat,
         Lined(A, X \cup B, C, D, E, F), Before(X, B)
  PROVE  Lined(A \cup X, B, C, D, E, F) /\ Lined(A, B, C, D, E, F)
BY DEF Lined, Before

LEMMA LinedServes ==
  ASSUME NEW A \in SUBSET Nat, NEW B \in SUBSET Nat, NEW C \in SUBSET Nat, NEW D \in SUBSET Nat,
         NEW E \in SUBSET Nat, NEW F \in SUBSET Nat, NEW X \in SUBSET Nat,
         Lined(A, B, X, D, E, F)
  PROVE  Lined(A, B, {}, D, E, F) /\ (B = {} => Lined(A \cup X, B, {}, D, E, F))
BY DEF Lined, Before

LEMMA LinedBreaks ==
  ASSUME NEW A \in SUBSET Nat, NEW B \in SUBSET Nat, NEW C \in SUBSET Nat, NEW D \in SUBSET Nat,
         NEW E \in SUBSET Nat, NEW F \in SUBSET Nat,
         Lined(A, B, C, D, E, F)
  PROVE  Lined(A, {}, C, D, E, F)
BY DEF Lined, Before

LEMMA LinedSends ==
  ASSUME NEW A \in SUBSET Nat, NEW B \in SUBSET Nat, NEW C \in SUBSET Nat, NEW D \in SUBSET Nat,
         NEW E \in SUBSET Nat, NEW F \in SUBSET Nat, NEW X \in SUBSET Nat,
         Lined(A, B, {}, X \cup D, E, F), Before(X, D)
  PROVE  Lined(A, B \cup X, {}, D, E, F) /\ (B = {} => Lined(A, B, X, D, E, F))
BY DEF Lined, Before

LEMMA LinedFlushes ==
  ASSUME NEW A \in SUBSET Nat, NEW B \in SUBSET Nat, NEW C \in SUBSET Nat, NEW D \in SUBSET Nat,
         NEW E \in SUBSET Nat, NEW F \in SUBSET Nat,
         Lined(A, B, C, D, E, F)
  PROVE  /\ Lined(A, B, C, D \cup E, {}, F) /\ Lined(A, B, C, D, E, {})
         /\ Lined(A, B, C, D \cup (E \cup F), {}, {})
BY DEF Lined, Before

LEMMA LinedTypes ==
  ASSUME NEW A \in SUBSET Nat, NEW B \in SUBSET Nat, NEW C \in SUBSET Nat, NEW D \in SUBSET Nat,
         NEW E \in SUBSET Nat, NEW F \in SUBSET Nat, NEW X \in SUBSET Nat,
         Lined(A, B, C, D, E, F), Before(A \cup B \cup C \cup D \cup E \cup F, X)
  PROVE  Lined(A, B, C, D, E, F \cup X) /\ (F = {} => Lined(A, B, C, D, E \cup X, F))
BY DEF Lined, Before

Keyed(g, W, C, T, b, d) ==
    /\ g \in Seq(Nat) /\ W \in Seq(Seq(Nat)) /\ C \in SUBSET Seq(Nat)
    /\ T \in Seq(Seq(Nat)) /\ b \in Seq(Nat) /\ d \in Seq(Nat)
Held(C) == UNION {ToSet(c) : c \in C}
Flow(g, W, C, T, b, d) ==
    /\ Keyed(g, W, C, T, b, d)
    /\ Increasing(g) /\ InOrder(W) /\ (\A c \in C : Increasing(c))
    /\ InOrder(T) /\ Increasing(b) /\ Increasing(d)
    /\ Lined(ToSet(g), KeysIn(W), Held(C), KeysIn(T), ToSet(b), ToSet(d))
AllKeys(g, W, C, T, b, d) ==
    ToSet(g) \cup KeysIn(W) \cup Held(C) \cup KeysIn(T) \cup ToSet(b) \cup ToSet(d)

LEMMA KeysAreNumbers ==
  ASSUME NEW g, NEW W, NEW C, NEW T, NEW b, NEW d, Keyed(g, W, C, T, b, d)
  PROVE  /\ ToSet(g) \in SUBSET Nat /\ KeysIn(W) \in SUBSET Nat /\ Held(C) \in SUBSET Nat
         /\ KeysIn(T) \in SUBSET Nat /\ ToSet(b) \in SUBSET Nat /\ ToSet(d) \in SUBSET Nat
<1>1. \A s \in Seq(Nat) : ToSet(s) \in SUBSET Nat
  BY DEF ToSet
<1>2. \A s \in Seq(Seq(Nat)) : \A i \in DOMAIN s : s[i] \in Seq(Nat)
  OBVIOUS
<1>. QED BY <1>1, <1>2 DEF Keyed, KeysIn, Held

(* The host reads the first request on the socket, ...                           *)
LEMMA FlowReads ==
  ASSUME NEW g, NEW W, NEW C, NEW T, NEW b, NEW d, Flow(g, W, C, T, b, d), W # <<>>
  PROVE  /\ Flow(g \o Head(W), Tail(W), C, T, b, d) /\ Flow(g, Tail(W), C, T, b, d)
         /\ AllKeys(g \o Head(W), Tail(W), C, T, b, d) \subseteq AllKeys(g, W, C, T, b, d)
         /\ AllKeys(g, Tail(W), C, T, b, d) \subseteq AllKeys(g, W, C, T, b, d)
<1>0. Keyed(g, W, C, T, b, d)
  BY DEF Flow
<1>1. /\ Head(W) \in Seq(Nat) /\ Tail(W) \in Seq(Seq(Nat))
      /\ KeysIn(W) = ToSet(Head(W)) \cup KeysIn(Tail(W))
      /\ Increasing(Head(W)) /\ InOrder(Tail(W)) /\ Before(ToSet(Head(W)), KeysIn(Tail(W)))
  BY FirstChunk DEF Flow, Keyed
<1>2. Keyed(g, Tail(W), C, T, b, d)
  BY <1>0, <1>1 DEF Keyed
<1>3. Before(ToSet(g), ToSet(Head(W)))
  BY <1>1 DEF Flow, Lined, Before
<1>4. /\ g \o Head(W) \in Seq(Nat) /\ ToSet(g \o Head(W)) = ToSet(g) \cup ToSet(Head(W))
      /\ Increasing(g \o Head(W))
  BY <1>0, <1>1, <1>3, Joined DEF Flow, Keyed
<1>5. ToSet(Head(W)) \in SUBSET Nat
  BY <1>0, <1>1, KeysAreNumbers
<1>6. /\ Lined(ToSet(g \o Head(W)), KeysIn(Tail(W)), Held(C), KeysIn(T), ToSet(b), ToSet(d))
      /\ Lined(ToSet(g), KeysIn(Tail(W)), Held(C), KeysIn(T), ToSet(b), ToSet(d))
  <2>1. Lined(ToSet(g), ToSet(Head(W)) \cup KeysIn(Tail(W)), Held(C), KeysIn(T), ToSet(b), ToSet(d))
    BY <1>1 DEF Flow
  <2>2. /\ ToSet(g) \in SUBSET Nat /\ Held(C) \in SUBSET Nat /\ KeysIn(T) \in SUBSET Nat
        /\ ToSet(b) \in SUBSET Nat /\ ToSet(d) \in SUBSET Nat
    BY <1>0, KeysAreNumbers
  <2>3. KeysIn(Tail(W)) \in SUBSET Nat
    BY <1>2, KeysAreNumbers
  <2>4. /\ Lined(ToSet(g) \cup ToSet(Head(W)), KeysIn(Tail(W)), Held(C), KeysIn(T), ToSet(b), ToSet(d))
        /\ Lined(ToSet(g), KeysIn(Tail(W)), Held(C), KeysIn(T), ToSet(b), ToSet(d))
    BY <1>1, <1>5, <2>1, <2>2, <2>3, LinedReads
  <2>. QED BY <1>4, <2>4
<1>. QED BY <1>1, <1>2, <1>4, <1>6 DEF Flow, Keyed, AllKeys

(* ... or the call that is made while nothing is there, which may fail as well.    *)
LEMMA FlowServes ==
  ASSUME NEW g, NEW W, NEW c, NEW T, NEW b, NEW d, Flow(g, W, {c}, T, b, d)
  PROVE  /\ KeysIn(W) = {} => Flow(g \o c, W, {}, T, b, d)
         /\ Flow(g, W, {}, T, b, d)
         /\ AllKeys(g \o c, W, {}, T, b, d) \subseteq AllKeys(g, W, {c}, T, b, d)
         /\ AllKeys(g, W, {}, T, b, d) \subseteq AllKeys(g, W, {c}, T, b, d)
<1>0. Keyed(g, W, {c}, T, b, d) /\ c \in Seq(Nat) /\ Increasing(c)
  BY DEF Flow, Keyed
<1>1. Held({c}) = ToSet(c) /\ Held({}) = {}
  BY DEF Held
<1>2. Keyed(g, W, {}, T, b, d)
  BY <1>0 DEF Keyed
<1>3. Before(ToSet(g), ToSet(c))
  BY <1>1 DEF Flow, Lined, Before
<1>4. g \o c \in Seq(Nat) /\ ToSet(g \o c) = ToSet(g) \cup ToSet(c) /\ Increasing(g \o c)
  BY <1>0, <1>3, Joined DEF Flow, Keyed
<1>5. ToSet(c) \in SUBSET Nat
  BY <1>0, <1>1, KeysAreNumbers
<1>6. Lined(ToSet(g), KeysIn(W), ToSet(c), KeysIn(T), ToSet(b), ToSet(d))
  BY <1>1 DEF Flow
<1>7. /\ Lined(ToSet(g), KeysIn(W), Held({}), KeysIn(T), ToSet(b), ToSet(d))
      /\ KeysIn(W) = {} => Lined(ToSet(g \o c), KeysIn(W), Held({}), KeysIn(T), ToSet(b), ToSet(d))
  <2>1. /\ ToSet(g) \in SUBSET Nat /\ KeysIn(W) \in SUBSET Nat /\ KeysIn(T) \in SUBSET Nat
        /\ ToSet(b) \in SUBSET Nat /\ ToSet(d) \in SUBSET Nat
    BY <1>0, KeysAreNumbers
  <2>2. /\ Lined(ToSet(g), KeysIn(W), {}, KeysIn(T), ToSet(b), ToSet(d))
        /\ KeysIn(W) = {} => Lined(ToSet(g) \cup ToSet(c), KeysIn(W), {}, KeysIn(T), ToSet(b), ToSet(d))
    BY <1>5, <1>6, <2>1, LinedServes
  <2>. QED BY <1>1, <1>4, <2>2
<1>. QED BY <1>0, <1>1, <1>2, <1>4, <1>6, <1>7 DEF Flow, Keyed, AllKeys

(* Nothing but empty chunks: a request that carries no keys of this process.       *)
LEMMA FlowPads ==
  ASSUME NEW g, NEW W, NEW C, NEW T, NEW b, NEW d, Flow(g, W, C, T, b, d)
  PROVE  /\ Flow(g, Append(W, <<>>), C, T, b, d)
         /\ AllKeys(g, Append(W, <<>>), C, T, b, d) = AllKeys(g, W, C, T, b, d)
<1>1. <<>> \in Seq(Nat) /\ ToSet(<<>>) = {} /\ Increasing(<<>>)
  BY DEF ToSet, Increasing
<1>2. Before(KeysIn(W), ToSet(<<>>))
  BY <1>1 DEF Before
<1>3. /\ Append(W, <<>>) \in Seq(Seq(Nat)) /\ InOrder(Append(W, <<>>))
      /\ KeysIn(Append(W, <<>>)) = KeysIn(W)
  BY <1>1, <1>2, LastChunk DEF Flow, Keyed
<1>. QED BY <1>3 DEF Flow, Keyed, AllKeys

(* The socket is lost.                                                           *)
LEMMA FlowBreaks ==
  ASSUME NEW g, NEW W, NEW C, NEW T, NEW b, NEW d, Flow(g, W, C, T, b, d)
  PROVE  Flow(g, <<>>, C, T, b, d) /\ AllKeys(g, <<>>, C, T, b, d) \subseteq AllKeys(g, W, C, T, b, d)
<1>1. <<>> \in Seq(Seq(Nat)) /\ KeysIn(<<>>) = {} /\ InOrder(<<>>)
  BY DEF KeysIn, InOrder
<1>2. Lined(ToSet(g), {}, Held(C), KeysIn(T), ToSet(b), ToSet(d))
  BY KeysAreNumbers, LinedBreaks DEF Flow
<1>. QED BY <1>1, <1>2 DEF Flow, Keyed, AllKeys

(* The writer's chain sends its first chunk, over the socket or in a call.         *)
LEMMA FlowSends ==
  ASSUME NEW g, NEW W, NEW T, NEW b, NEW d, Flow(g, W, {}, T, b, d), T # <<>>
  PROVE  /\ Flow(g, Append(W, Head(T)), {}, Tail(T), b, d)
         /\ AllKeys(g, Append(W, Head(T)), {}, Tail(T), b, d) \subseteq AllKeys(g, W, {}, T, b, d)
         /\ KeysIn(W) = {} => Flow(g, W, {Head(T)}, Tail(T), b, d)
         /\ AllKeys(g, W, {Head(T)}, Tail(T), b, d) \subseteq AllKeys(g, W, {}, T, b, d)
<1>0. Keyed(g, W, {}, T, b, d)
  BY DEF Flow
<1>1. /\ Head(T) \in Seq(Nat) /\ Tail(T) \in Seq(Seq(Nat))
      /\ KeysIn(T) = ToSet(Head(T)) \cup KeysIn(Tail(T))
      /\ Increasing(Head(T)) /\ InOrder(Tail(T)) /\ Before(ToSet(Head(T)), KeysIn(Tail(T)))
  BY FirstChunk DEF Flow, Keyed
<1>2. Held({}) = {} /\ Held({Head(T)}) = ToSet(Head(T))
  BY DEF Held
<1>3. Before(KeysIn(W), ToSet(Head(T)))
  BY <1>1 DEF Flow, Lined, Before
<1>4. /\ Append(W, Head(T)) \in Seq(Seq(Nat)) /\ InOrder(Append(W, Head(T)))
      /\ KeysIn(Append(W, Head(T))) = KeysIn(W) \cup ToSet(Head(T))
  BY <1>0, <1>1, <1>3, LastChunk DEF Flow, Keyed
<1>5. Keyed(g, W, {}, Tail(T), b, d) /\ ToSet(Head(T)) \in SUBSET Nat
  BY <1>0, <1>1, KeysAreNumbers DEF Keyed
<1>6. Lined(ToSet(g), KeysIn(W), {}, ToSet(Head(T)) \cup KeysIn(Tail(T)), ToSet(b), ToSet(d))
  BY <1>1, <1>2 DEF Flow
<1>7. /\ Lined(ToSet(g), KeysIn(W) \cup ToSet(Head(T)), {}, KeysIn(Tail(T)), ToSet(b), ToSet(d))
      /\ KeysIn(W) = {} => Lined(ToSet(g), KeysIn(W), ToSet(Head(T)), KeysIn(Tail(T)), ToSet(b), ToSet(d))
  BY <1>0, <1>1, <1>5, <1>6, KeysAreNumbers, LinedSends
<1>8. Flow(g, Append(W, Head(T)), {}, Tail(T), b, d)
  BY <1>0, <1>1, <1>2, <1>4, <1>7 DEF Flow, Keyed
<1>9. KeysIn(W) = {} => Flow(g, W, {Head(T)}, Tail(T), b, d)
  BY <1>0, <1>1, <1>2, <1>7 DEF Flow, Keyed
<1>. QED BY <1>1, <1>2, <1>4, <1>8, <1>9 DEF AllKeys

(* A microtask flushes the batch to the chain; the session is there and takes what *)
(* waited for it as well; or what waited is given up.                             *)
LEMMA FlowFlushed ==
  ASSUME NEW g, NEW W, NEW C, NEW T, NEW b, NEW d, Flow(g, W, C, T, b, d)
  PROVE  /\ Flow(g, W, C, Append(T, b), <<>>, d)
         /\ AllKeys(g, W, C, Append(T, b), <<>>, d) = AllKeys(g, W, C, T, b, d)
<1>0. Keyed(g, W, C, T, b, d) /\ <<>> \in Seq(Nat) /\ ToSet(<<>>) = {} /\ Increasing(<<>>)
  BY DEF Flow, ToSet, Increasing
<1>1. Before(KeysIn(T), ToSet(b))
  BY DEF Flow, Lined, Before
<1>2. /\ Append(T, b) \in Seq(Seq(Nat)) /\ InOrder(Append(T, b))
      /\ KeysIn(Append(T, b)) = KeysIn(T) \cup ToSet(b)
  BY <1>0, <1>1, LastChunk DEF Flow, Keyed
<1>3. Lined(ToSet(g), KeysIn(W), Held(C), KeysIn(T) \cup ToSet(b), {}, ToSet(d))
  BY <1>0, KeysAreNumbers, LinedFlushes DEF Flow
<1>4. Flow(g, W, C, Append(T, b), <<>>, d)
  BY <1>0, <1>2, <1>3 DEF Flow, Keyed
<1>. QED BY <1>0, <1>2, <1>4 DEF AllKeys

LEMMA FlowAttached ==
  ASSUME NEW g, NEW W, NEW C, NEW T, NEW b, NEW d, Flow(g, W, C, T, b, d)
  PROVE  /\ Flow(g, W, C, Append(T, b \o d), <<>>, <<>>)
         /\ AllKeys(g, W, C, Append(T, b \o d), <<>>, <<>>) = AllKeys(g, W, C, T, b, d)
<1>0. Keyed(g, W, C, T, b, d) /\ <<>> \in Seq(Nat) /\ ToSet(<<>>) = {} /\ Increasing(<<>>)
  BY DEF Flow, ToSet, Increasing
<1>1. Before(KeysIn(T), ToSet(b)) /\ Before(KeysIn(T), ToSet(d)) /\ Before(ToSet(b), ToSet(d))
  BY DEF Flow, Lined, Before
<1>2. b \o d \in Seq(Nat) /\ ToSet(b \o d) = ToSet(b) \cup ToSet(d) /\ Increasing(b \o d)
  BY <1>0, <1>1, Joined DEF Flow, Keyed
<1>3. Before(KeysIn(T), ToSet(b \o d))
  BY <1>1, <1>2 DEF Before
<1>4. /\ Append(T, b \o d) \in Seq(Seq(Nat)) /\ InOrder(Append(T, b \o d))
      /\ KeysIn(Append(T, b \o d)) = KeysIn(T) \cup (ToSet(b) \cup ToSet(d))
  BY <1>0, <1>2, <1>3, LastChunk DEF Flow, Keyed
<1>5. Lined(ToSet(g), KeysIn(W), Held(C), KeysIn(T) \cup (ToSet(b) \cup ToSet(d)), {}, {})
  BY <1>0, KeysAreNumbers, LinedFlushes DEF Flow
<1>6. Flow(g, W, C, Append(T, b \o d), <<>>, <<>>)
  BY <1>0, <1>4, <1>5 DEF Flow, Keyed
<1>. QED BY <1>0, <1>4, <1>6 DEF AllKeys

LEMMA FlowGivenUp ==
  ASSUME NEW g, NEW W, NEW C, NEW T, NEW b, NEW d, Flow(g, W, C, T, b, d)
  PROVE  /\ Flow(g, W, C, T, b, <<>>)
         /\ AllKeys(g, W, C, T, b, <<>>) \subseteq AllKeys(g, W, C, T, b, d)
<1>0. Keyed(g, W, C, T, b, d) /\ <<>> \in Seq(Nat) /\ ToSet(<<>>) = {} /\ Increasing(<<>>)
  BY DEF Flow, ToSet, Increasing
<1>1. Lined(ToSet(g), KeysIn(W), Held(C), KeysIn(T), ToSet(b), {})
  BY <1>0, KeysAreNumbers, LinedFlushes DEF Flow
<1>2. Flow(g, W, C, T, b, <<>>)
  BY <1>0, <1>1 DEF Flow, Keyed
<1>. QED BY <1>0, <1>2 DEF AllKeys

(* A new key is larger than all others.                                          *)
LEMMA FlowTypes ==
  ASSUME NEW g, NEW W, NEW C, NEW T, NEW b, NEW d, Flow(g, W, C, T, b, d),
         NEW n \in Nat, Before(AllKeys(g, W, C, T, b, d), {n})
  PROVE  /\ Flow(g, W, C, T, b, Append(d, n))
         /\ AllKeys(g, W, C, T, b, Append(d, n)) = AllKeys(g, W, C, T, b, d) \cup {n}
         /\ d = <<>> => Flow(g, W, C, T, b \o <<n>>, d)
         /\ AllKeys(g, W, C, T, b \o <<n>>, d) = AllKeys(g, W, C, T, b, d) \cup {n}
<1>0. /\ Keyed(g, W, C, T, b, d) /\ ToSet(<<>>) = {}
      /\ Append(b, n) = b \o <<n>>
  <2>1. b \in Seq(Nat) /\ Keyed(g, W, C, T, b, d)
    BY DEF Flow, Keyed
  <2>2. Append(b, n) = b \o <<n>>
    BY <2>1
  <2>. QED BY <2>1, <2>2 DEF ToSet
<1>1. Before(ToSet(b), {n}) /\ Before(ToSet(d), {n})
  BY DEF AllKeys, Before
<1>2. /\ Append(d, n) \in Seq(Nat) /\ ToSet(Append(d, n)) = ToSet(d) \cup {n} /\ Increasing(Append(d, n))
  BY <1>0, <1>1, OneMore DEF Flow, Keyed
<1>3. /\ b \o <<n>> \in Seq(Nat) /\ ToSet(b \o <<n>>) = ToSet(b) \cup {n} /\ Increasing(b \o <<n>>)
  BY <1>0, <1>1, OneMore DEF Flow, Keyed
<1>4. Lined(ToSet(g), KeysIn(W), Held(C), KeysIn(T), ToSet(b), ToSet(d))
  BY DEF Flow
<1>5. /\ Lined(ToSet(g), KeysIn(W), Held(C), KeysIn(T), ToSet(b), ToSet(d) \cup {n})
      /\ ToSet(d) = {} => Lined(ToSet(g), KeysIn(W), Held(C), KeysIn(T), ToSet(b) \cup {n}, ToSet(d))
  <2>1. Before(ToSet(g) \cup KeysIn(W) \cup Held(C) \cup KeysIn(T) \cup ToSet(b) \cup ToSet(d), {n})
    BY DEF AllKeys
  <2>2. {n} \in SUBSET Nat
    OBVIOUS
  <2>. QED BY <1>0, <1>4, <2>1, <2>2, KeysAreNumbers, LinedTypes
<1>6. Flow(g, W, C, T, b, Append(d, n))
  BY <1>0, <1>2, <1>5 DEF Flow, Keyed
<1>7. d = <<>> => Flow(g, W, C, T, b \o <<n>>, d)
  BY <1>0, <1>3, <1>5 DEF Flow, Keyed
<1>. QED BY <1>2, <1>3, <1>6, <1>7 DEF AllKeys

-----------------------------------------------------------------------------
(* The inductive invariant.                                                      *)

Message == [kind : {"exit"}, pty : Procs]
             \cup [kind : {"update"}, pty : Procs, status : {"running", "exited"}]
Request == [kind : {"write"}, pty : Procs, what : Seq(Nat)]
             \cup [kind : {"resize"}, pty : Procs, what : Nat]
Call == [kind : {"write"}, pty : Procs, what : Seq(Nat), answered : BOOLEAN]
          \cup [kind : {"resize"}, pty : Procs, what : Nat, answered : BOOLEAN]
Writer == [open : BOOLEAN, batch : Seq(Nat), tail : Seq(Seq(Nat)), waits : BOOLEAN]
Panel == [pty : Procs, phase : {"surface", "asked", "replaying", "connected", "over"},
          answer : {"none", "gone", "running", "exited"},
          display : {"running", "exited", "failed"}, pending : Seq(Nat),
          resizing : {"no", "due", "waits"}, sent : Nat, queued : BOOLEAN]

PanelTypes ==
    /\ host \in [n : Procs, up : BOOLEAN, got : [Procs -> Seq(Nat)], size : [Procs -> Nat]]
    /\ news \in Seq(Message) /\ socket \in BOOLEAN
    /\ wire \in Seq(Request) /\ old = <<>> /\ calls \in SUBSET Call
    /\ panel \in Panel /\ writers \in [Procs -> Writer]
    /\ size \in Nat /\ typed \in [Procs -> Seq(Nat)] /\ acts \in Nat

(* The chunk of one process that a request carries, those that are on the socket,  *)
(* and the one in a call.                                                        *)
ChunkOf(request, p) == IF request.kind = "write" /\ request.pty = p THEN request.what ELSE <<>>
Chunks(q, p) == [i \in DOMAIN q |-> ChunkOf(q[i], p)]
WritesOf(some, p) == {c \in some : c.kind = "write" /\ c.pty = p}
Called(some, p) == {c.what : c \in {d \in WritesOf(some, p) : ~d.answered}}
Pended(p) == IF panel.pty = p THEN panel.pending ELSE <<>>

(* A writer that waits for its one call has nothing on the socket; nobody has while *)
(* it is closed; what waits for a session waits for an open writer no more.        *)
OneWay ==
    /\ ~socket => wire = <<>>
    /\ \A p \in Procs :
        /\ \A c, d \in WritesOf(calls, p) : c = d
        /\ WritesOf(calls, p) # {} => writers[p].waits
        /\ writers[p].waits => KeysIn(Chunks(wire, p)) = {}
    /\ writers[panel.pty].open => panel.pending = <<>>

FlowTo(p) == Flow(host.got[p], Chunks(wire, p), Called(calls, p), writers[p].tail, writers[p].batch, Pended(p))
KeysTo(p) == AllKeys(host.got[p], Chunks(wire, p), Called(calls, p), writers[p].tail, writers[p].batch, Pended(p))
FlowsInOrder ==
    \A p \in Procs :
        /\ FlowTo(p) /\ KeysTo(p) \subseteq ToSet(typed[p])
        /\ \A n \in ToSet(typed[p]) : n <= acts

PanelInv == PanelTypes /\ OneWay /\ FlowsInOrder

LEMMA ChunksMove ==
  ASSUME NEW q \in Seq(Request), NEW p \in Procs
  PROVE  /\ Chunks(q, p) \in Seq(Seq(Nat))
         /\ q # <<>> => /\ Chunks(q, p) # <<>> /\ Head(Chunks(q, p)) = ChunkOf(Head(q), p)
                        /\ Chunks(Tail(q), p) = Tail(Chunks(q, p))
         /\ \A r \in Request : Chunks(Append(q, r), p) = Append(Chunks(q, p), ChunkOf(r, p))
<1>1. \A r \in Request : ChunkOf(r, p) \in Seq(Nat)
  BY DEF ChunkOf, Request
<1>2. /\ DOMAIN q = 1..Len(q) /\ Len(q) \in Nat /\ \A i \in DOMAIN q : q[i] \in Request
  OBVIOUS
<1>3. /\ Chunks(q, p) = [i \in 1..Len(q) |-> ChunkOf(q[i], p)]
      /\ \A i \in 1..Len(q) : ChunkOf(q[i], p) \in Seq(Nat)
  BY <1>1, <1>2 DEF Chunks
<1>4. Chunks(q, p) \in Seq(Seq(Nat)) /\ Len(Chunks(q, p)) = Len(q)
  BY <1>2, <1>3
<1>5. ASSUME q # <<>>
      PROVE  /\ Chunks(q, p) # <<>> /\ Head(Chunks(q, p)) = ChunkOf(Head(q), p)
             /\ Chunks(Tail(q), p) = Tail(Chunks(q, p))
  <2>1. /\ Len(q) >= 1 /\ Tail(q) \in Seq(Request) /\ Len(Tail(q)) = Len(q) - 1 /\ Head(q) = q[1]
        /\ \A i \in 1..Len(q) - 1 : Tail(q)[i] = q[i + 1]
    BY <1>2, <1>5
  <2>2. Chunks(Tail(q), p) = [i \in 1..Len(q) - 1 |-> ChunkOf(q[i + 1], p)]
    BY <2>1 DEF Chunks
  <2>3. Chunks(q, p) # <<>> /\ Head(Chunks(q, p)) = Chunks(q, p)[1]
    BY <1>2, <1>4, <2>1
  <2>4. /\ Tail(Chunks(q, p)) \in Seq(Seq(Nat)) /\ Len(Tail(Chunks(q, p))) = Len(q) - 1
        /\ \A i \in 1..Len(q) - 1 : Tail(Chunks(q, p))[i] = Chunks(q, p)[i + 1]
    BY <1>4, <2>3
  <2>5. \A i \in 1..Len(q) - 1 : Chunks(q, p)[i + 1] = ChunkOf(q[i + 1], p) /\ i + 1 \in 1..Len(q)
    BY <1>2, <1>3
  <2>6. Tail(Chunks(q, p)) = [i \in 1..Len(q) - 1 |-> Tail(Chunks(q, p))[i]]
    <3>1. \A t \in Seq(Seq(Nat)) : DOMAIN t = 1..Len(t) /\ t = [i \in DOMAIN t |-> t[i]]
      OBVIOUS
    <3>. QED BY <1>2, <2>4, <3>1
  <2>7. Tail(Chunks(q, p)) = [i \in 1..Len(q) - 1 |-> ChunkOf(q[i + 1], p)]
    BY <2>4, <2>5, <2>6
  <2>. QED BY <1>2, <1>3, <2>1, <2>2, <2>3, <2>7
<1>6. ASSUME NEW r \in Request PROVE Chunks(Append(q, r), p) = Append(Chunks(q, p), ChunkOf(r, p))
  <2>1. /\ Append(q, r) \in Seq(Request) /\ DOMAIN Append(q, r) = 1..Len(q) + 1
        /\ Append(q, r)[Len(q) + 1] = r /\ \A i \in 1..Len(q) : Append(q, r)[i] = q[i]
    BY <1>2
  <2> DEFINE longer == Append(Chunks(q, p), ChunkOf(r, p))
  <2>2. /\ DOMAIN longer = 1..Len(q) + 1 /\ longer[Len(q) + 1] = ChunkOf(r, p)
        /\ \A i \in 1..Len(q) : longer[i] = Chunks(q, p)[i]
        /\ longer \in Seq(Seq(Nat)) /\ Len(longer) = Len(q) + 1
    BY <1>1, <1>4
  <2>. HIDE DEF longer
  <2>3. longer = [i \in 1..Len(q) + 1 |-> longer[i]]
    BY <1>2, <2>2
  <2>4. \A i \in 1..Len(q) + 1 : i = Len(q) + 1 \/ i \in 1..Len(q)
    BY <1>2
  <2>5. \A i \in 1..Len(q) + 1 : longer[i] = ChunkOf(Append(q, r)[i], p)
    BY <1>3, <2>1, <2>2, <2>4
  <2>6. Chunks(Append(q, r), p) = [i \in 1..Len(q) + 1 |-> ChunkOf(Append(q, r)[i], p)]
    BY <2>1 DEF Chunks
  <2>7. Chunks(Append(q, r), p) = longer
    BY <2>3, <2>5, <2>6
  <2>. QED BY <2>7 DEF longer
<1>. QED BY <1>4, <1>5, <1>6

(* A step that types nothing: the flows after it carry no keys but those before.   *)
LEMMA TypesNothing ==
  ASSUME PanelInv, PanelTypes', OneWay', \A p \in Procs : FlowTo(p)' /\ KeysTo(p)' \subseteq KeysTo(p),
         UNCHANGED typed, acts' = acts \/ acts' = acts + 1
  PROVE  PanelInv'
<1>1. acts \in Nat /\ typed \in [Procs -> Seq(Nat)]
  BY DEF PanelInv, PanelTypes
<1>2. \A p \in Procs : ToSet(typed[p]) \in SUBSET Nat
  BY <1>1 DEF ToSet
<1>3. FlowsInOrder'
  BY <1>1, <1>2 DEF PanelInv, FlowsInOrder
<1>. QED BY <1>3 DEF PanelInv

(* A step that leaves the keys where they are.                                    *)
LEMMA MovesNothing ==
  ASSUME PanelInv, PanelTypes', host'.got = host.got, UNCHANGED <<wire, calls, writers, typed>>,
         panel'.pty = panel.pty, panel'.pending = panel.pending, socket' \/ ~socket,
         acts' = acts \/ acts' = acts + 1
  PROVE  PanelInv'
<1>1. OneWay'
  BY DEF PanelInv, OneWay
<1>2. \A p \in Procs : FlowTo(p)' = FlowTo(p) /\ KeysTo(p)' = KeysTo(p)
  BY DEF FlowTo, KeysTo, Pended
<1>3. \A p \in Procs : FlowTo(p)
  BY DEF PanelInv, FlowsInOrder
<1>. QED BY <1>1, <1>2, <1>3, TypesNothing

-----------------------------------------------------------------------------
(* The steps.                                                                    *)

LEMMA PanelInitially == PanelInit => PanelInv
<1>. SUFFICES ASSUME PanelInit PROVE PanelInv
  OBVIOUS
<1>1. 1 \in Procs /\ 0 \in Nat /\ 1 \in Nat
  BY PanelBounds DEF Procs
<1>2. /\ host = [n |-> 1, up |-> TRUE, got |-> [p \in Procs |-> <<>>], size |-> [p \in Procs |-> 0]]
      /\ panel = Instance(1, "running") /\ writers = [p \in Procs |-> NoWriter]
      /\ typed = [p \in Procs |-> <<>>]
  BY DEF PanelInit
<1>3. host \in [n : Procs, up : BOOLEAN, got : [Procs -> Seq(Nat)], size : [Procs -> Nat]]
  <2>1. [p \in Procs |-> <<>>] \in [Procs -> Seq(Nat)] /\ [p \in Procs |-> 0] \in [Procs -> Nat]
    OBVIOUS
  <2>. QED BY <1>1, <1>2, <2>1
<1>4. panel \in Panel /\ NoWriter \in Writer
  BY <1>1, <1>2 DEF Instance, Panel, NoWriter, Writer
<1>5. PanelTypes
  BY <1>1, <1>2, <1>3, <1>4 DEF PanelInit, PanelTypes
<1>6. /\ KeysIn(<<>>) = {} /\ ToSet(<<>>) = {} /\ Increasing(<<>>) /\ InOrder(<<>>)
      /\ <<>> \in Seq(Nat) /\ <<>> \in Seq(Seq(Nat)) /\ Held({}) = {}
  BY DEF KeysIn, ToSet, Increasing, InOrder, Held
<1>7. \A p \in Procs : /\ Chunks(wire, p) = <<>> /\ Called(calls, p) = {} /\ WritesOf(calls, p) = {}
                       /\ Pended(p) = <<>> /\ writers[p].tail = <<>> /\ writers[p].batch = <<>>
                       /\ host.got[p] = <<>> /\ typed[p] = <<>> /\ ~writers[p].open
  BY <1>2 DEF PanelInit, Chunks, Called, WritesOf, Pended, Instance, NoWriter
<1>8. OneWay
  BY <1>4, <1>6, <1>7 DEF OneWay, PanelInit, Panel
<1>9. Flow(<<>>, <<>>, {}, <<>>, <<>>, <<>>) /\ AllKeys(<<>>, <<>>, {}, <<>>, <<>>, <<>>) = {}
  BY <1>6 DEF Flow, Keyed, AllKeys, Lined, Before
<1>10. FlowsInOrder
  BY <1>6, <1>7, <1>9 DEF FlowsInOrder, FlowTo, KeysTo
<1>. QED BY <1>5, <1>8, <1>10 DEF PanelInv

(* What the host does with a request: the process it names gets its keys, or not.  *)
LEMMA Carries ==
  ASSUME PanelTypes, NEW r \in Request \cup Call
  PROVE  /\ Carried(host, r) \in [n : Procs, up : BOOLEAN, got : [Procs -> Seq(Nat)], size : [Procs -> Nat]]
         /\ \A p \in Procs : Carried(host, r).got[p] \in {host.got[p], host.got[p] \o ChunkOf(r, p)}
<1>1. /\ host \in [n : Procs, up : BOOLEAN, got : [Procs -> Seq(Nat)], size : [Procs -> Nat]]
      /\ r.pty \in Procs
      /\ r.kind = "write" => r.what \in Seq(Nat)
      /\ r.kind # "write" => r.what \in Nat
  BY DEF PanelTypes, Request, Call
<1>2. CASE host.n # r.pty \/ ~host.up
  BY <1>1, <1>2 DEF Carried
<1>3. CASE host.n = r.pty /\ host.up /\ r.kind = "write"
  <2>1. Carried(host, r) = [host EXCEPT !.got[r.pty] = @ \o r.what]
    BY <1>3 DEF Carried
  <2>2. host.got[r.pty] \o r.what \in Seq(Nat)
    BY <1>1, <1>3
  <2>3. \A p \in Procs : p # r.pty => Carried(host, r).got[p] = host.got[p]
    BY <1>1, <2>1
  <2>4. Carried(host, r).got[r.pty] = host.got[r.pty] \o ChunkOf(r, r.pty)
    <3>1. ChunkOf(r, r.pty) = r.what
      BY <1>3 DEF ChunkOf
    <3>2. Carried(host, r).got = [host.got EXCEPT ![r.pty] = host.got[r.pty] \o r.what]
      BY <1>1, <2>1
    <3>. QED BY <1>1, <3>1, <3>2
  <2>5. Carried(host, r) \in [n : Procs, up : BOOLEAN, got : [Procs -> Seq(Nat)], size : [Procs -> Nat]]
    BY <1>1, <2>1, <2>2
  <2>. QED BY <2>3, <2>4, <2>5
<1>4. CASE host.n = r.pty /\ host.up /\ r.kind # "write"
  BY <1>1, <1>4 DEF Carried
<1>. QED BY <1>2, <1>3, <1>4

LEMMA ReadsKeep == PanelInv /\ HostReads => PanelInv'
<1>. SUFFICES ASSUME PanelInv, HostReads PROVE PanelInv'
  OBVIOUS
<1>0. PanelTypes /\ OneWay /\ FlowsInOrder
  BY DEF PanelInv
<1>1. /\ wire # <<>> /\ host' = Carried(host, Head(wire)) /\ wire' = Tail(wire)
      /\ UNCHANGED <<news, socket, old, calls, panel, writers, size, typed, bounds>>
  BY DEF HostReads
<1>2. Head(wire) \in Request /\ Tail(wire) \in Seq(Request) /\ wire \in Seq(Request)
  BY <1>0, <1>1 DEF PanelTypes
<1>3. /\ host' \in [n : Procs, up : BOOLEAN, got : [Procs -> Seq(Nat)], size : [Procs -> Nat]]
      /\ \A p \in Procs : host'.got[p] \in {host.got[p], host.got[p] \o ChunkOf(Head(wire), p)}
  BY <1>0, <1>1, <1>2, Carries
<1>4. PanelTypes'
  BY <1>0, <1>1, <1>2, <1>3 DEF PanelTypes, bounds
<1>5. \A p \in Procs : /\ Chunks(wire, p) # <<>> /\ Head(Chunks(wire, p)) = ChunkOf(Head(wire), p)
                       /\ Chunks(wire', p) = Tail(Chunks(wire, p)) /\ Chunks(wire, p) \in Seq(Seq(Nat))
  BY <1>1, <1>2, ChunksMove
<1>6. \A p \in Procs : KeysIn(Chunks(wire', p)) \subseteq KeysIn(Chunks(wire, p))
  BY <1>5, FirstChunk
<1>7. OneWay'
  BY <1>0, <1>1, <1>6 DEF OneWay
<1>8. ASSUME NEW p \in Procs PROVE FlowTo(p)' /\ KeysTo(p)' \subseteq KeysTo(p)
  <2>1. /\ Flow(host.got[p], Chunks(wire, p), Called(calls, p), writers[p].tail, writers[p].batch, Pended(p))
        /\ Pended(p)' = Pended(p)
    BY <1>0, <1>1 DEF FlowsInOrder, FlowTo, Pended
  <2>2. /\ Flow(host'.got[p], Tail(Chunks(wire, p)), Called(calls, p), writers[p].tail, writers[p].batch, Pended(p))
        /\ AllKeys(host'.got[p], Tail(Chunks(wire, p)), Called(calls, p), writers[p].tail, writers[p].batch, Pended(p))
               \subseteq KeysTo(p)
    <3>1. /\ Flow(host.got[p] \o ChunkOf(Head(wire), p), Tail(Chunks(wire, p)), Called(calls, p), writers[p].tail,
                  writers[p].batch, Pended(p))
          /\ Flow(host.got[p], Tail(Chunks(wire, p)), Called(calls, p), writers[p].tail, writers[p].batch, Pended(p))
          /\ AllKeys(host.got[p] \o ChunkOf(Head(wire), p), Tail(Chunks(wire, p)), Called(calls, p), writers[p].tail,
                     writers[p].batch, Pended(p)) \subseteq KeysTo(p)
          /\ AllKeys(host.got[p], Tail(Chunks(wire, p)), Called(calls, p), writers[p].tail, writers[p].batch, Pended(p))
                 \subseteq KeysTo(p)
      <4>1. Chunks(wire, p) # <<>> /\ Head(Chunks(wire, p)) = ChunkOf(Head(wire), p)
        BY <1>5
      <4>. QED BY <2>1, <4>1, FlowReads DEF KeysTo
    <3>2. CASE host'.got[p] = host.got[p]
      BY <3>1, <3>2
    <3>3. CASE host'.got[p] = host.got[p] \o ChunkOf(Head(wire), p)
      BY <3>1, <3>3
    <3>. QED BY <1>3, <3>2, <3>3
  <2>. QED BY <1>1, <1>5, <2>1, <2>2 DEF FlowTo, KeysTo
<1>. QED BY <1>1, <1>4, <1>7, <1>8, TypesNothing DEF bounds

(* A call is carried out or fails: then it is answered.                           *)
Answered(c) == (calls \ {c}) \cup {[c EXCEPT !.answered = TRUE]}

LEMMA AnswersKeep ==
  ASSUME PanelInv, NEW c \in calls, ~c.answered, calls' = Answered(c),
         host' \in {host, Carried(host, c)},
         UNCHANGED <<news, socket, wire, old, panel, writers, size, typed, acts>>
  PROVE  PanelInv'
<1>0. PanelTypes /\ OneWay /\ FlowsInOrder
  BY DEF PanelInv
<1>1. c \in Call /\ calls \in SUBSET Call
  BY <1>0 DEF PanelTypes
<1>2. /\ [c EXCEPT !.answered = TRUE] \in Call
      /\ [c EXCEPT !.answered = TRUE].kind = c.kind /\ [c EXCEPT !.answered = TRUE].pty = c.pty
      /\ [c EXCEPT !.answered = TRUE].answered
  BY <1>1 DEF Call
<1>3. /\ host' \in [n : Procs, up : BOOLEAN, got : [Procs -> Seq(Nat)], size : [Procs -> Nat]]
      /\ \A p \in Procs : host'.got[p] \in {host.got[p], host.got[p] \o ChunkOf(c, p)}
  BY <1>0, <1>1, Carries DEF PanelTypes
<1>4. PanelTypes'
  BY <1>0, <1>1, <1>2, <1>3 DEF PanelTypes, Answered
<1>5. ASSUME NEW p \in Procs
      PROVE  /\ c \in WritesOf(calls, p) =>
                   WritesOf(calls', p) = {[c EXCEPT !.answered = TRUE]} /\ Called(calls', p) = {}
             /\ c \notin WritesOf(calls, p) =>
                   WritesOf(calls', p) = WritesOf(calls, p) /\ Called(calls', p) = Called(calls, p)
             /\ c \in WritesOf(calls, p) => Called(calls, p) = {ChunkOf(c, p)}
             /\ c \notin WritesOf(calls, p) => ChunkOf(c, p) = <<>>
  <2>1. \A d \in WritesOf(calls, p) : c \in WritesOf(calls, p) => d = c
    BY <1>0 DEF OneWay
  <2>2. c \in WritesOf(calls, p) => WritesOf(calls', p) = {[c EXCEPT !.answered = TRUE]}
    BY <1>2, <2>1 DEF Answered, WritesOf
  <2>3. c \notin WritesOf(calls, p) => WritesOf(calls', p) = WritesOf(calls, p)
    BY <1>2 DEF Answered, WritesOf
  <2>4. c \in WritesOf(calls, p) => Called(calls', p) = {}
    BY <1>2, <2>2 DEF Called
  <2>5. c \in WritesOf(calls, p) => WritesOf(calls, p) = {c}
    BY <2>1
  <2>6. c \in WritesOf(calls, p) => Called(calls, p) = {c.what} /\ ChunkOf(c, p) = c.what
    BY <2>5 DEF Called, ChunkOf, WritesOf
  <2>7. c \notin WritesOf(calls, p) => ChunkOf(c, p) = <<>>
    BY DEF ChunkOf, WritesOf
  <2>. QED BY <2>2, <2>3, <2>4, <2>6, <2>7 DEF Called
<1>6. OneWay'
  <2>1. ASSUME NEW p \in Procs
        PROVE  /\ \A d, e \in WritesOf(calls', p) : d = e
               /\ WritesOf(calls', p) # {} => writers[p].waits
               /\ writers[p].waits => KeysIn(Chunks(wire, p)) = {}
    BY <1>0, <1>5 DEF OneWay
  <2>. QED BY <1>0, <2>1 DEF OneWay
<1>7. ASSUME NEW p \in Procs PROVE FlowTo(p)' /\ KeysTo(p)' \subseteq KeysTo(p)
  <2>1. /\ Flow(host.got[p], Chunks(wire, p), Called(calls, p), writers[p].tail, writers[p].batch, Pended(p))
        /\ Pended(p)' = Pended(p) /\ host.got[p] \in Seq(Nat)
    BY <1>0 DEF FlowsInOrder, FlowTo, Pended, PanelTypes
  <2>2. CASE c \in WritesOf(calls, p)
    <3>1. KeysIn(Chunks(wire, p)) = {}
      BY <1>0, <2>2 DEF OneWay
    <3>2. Flow(host.got[p], Chunks(wire, p), {ChunkOf(c, p)}, writers[p].tail, writers[p].batch, Pended(p))
      BY <1>5, <2>1, <2>2
    <3>3. /\ Flow(host'.got[p], Chunks(wire, p), {}, writers[p].tail, writers[p].batch, Pended(p))
          /\ AllKeys(host'.got[p], Chunks(wire, p), {}, writers[p].tail, writers[p].batch, Pended(p)) \subseteq
                AllKeys(host.got[p], Chunks(wire, p), {ChunkOf(c, p)}, writers[p].tail, writers[p].batch, Pended(p))
      <4>1. /\ Flow(host.got[p] \o ChunkOf(c, p), Chunks(wire, p), {}, writers[p].tail, writers[p].batch, Pended(p))
            /\ Flow(host.got[p], Chunks(wire, p), {}, writers[p].tail, writers[p].batch, Pended(p))
            /\ AllKeys(host.got[p] \o ChunkOf(c, p), Chunks(wire, p), {}, writers[p].tail, writers[p].batch, Pended(p)) \subseteq
                  AllKeys(host.got[p], Chunks(wire, p), {ChunkOf(c, p)}, writers[p].tail, writers[p].batch, Pended(p))
            /\ AllKeys(host.got[p], Chunks(wire, p), {}, writers[p].tail, writers[p].batch, Pended(p)) \subseteq
                  AllKeys(host.got[p], Chunks(wire, p), {ChunkOf(c, p)}, writers[p].tail, writers[p].batch, Pended(p))
        BY <3>1, <3>2, FlowServes
      <4>2. CASE host'.got[p] = host.got[p]
        BY <4>1, <4>2
      <4>3. CASE host'.got[p] = host.got[p] \o ChunkOf(c, p)
        BY <4>1, <4>3
      <4>. QED BY <1>3, <4>2, <4>3
    <3>. QED BY <1>5, <2>1, <2>2, <3>3 DEF FlowTo, KeysTo
  <2>3. CASE c \notin WritesOf(calls, p)
    <3>1. host'.got[p] = host.got[p]
      <4>1. host.got[p] \o <<>> = host.got[p]
        BY <2>1
      <4>. QED BY <1>3, <1>5, <2>3, <4>1
    <3>. QED BY <1>5, <2>1, <2>3, <3>1 DEF FlowTo, KeysTo
  <2>. QED BY <2>2, <2>3
<1>. QED BY <1>4, <1>6, <1>7, TypesNothing

LEMMA ServesKeep ==
  ASSUME PanelInv, NEW c \in calls, HostServes(c) \/ CallFails(c)
  PROVE  PanelInv'
<1>1. ~c.answered /\ calls' = Answered(c) /\ host' \in {host, Carried(host, c)}
  BY DEF HostServes, CallFails, Answered
<1>2. UNCHANGED <<news, socket, wire, old, panel, writers, size, typed, acts>>
  BY DEF HostServes, CallFails, bounds
<1>. QED BY <1>1, <1>2, AnswersKeep

LEMMA MessagesTyped ==
  ASSUME NEW p \in Procs
  PROVE  /\ [kind |-> "exit", pty |-> p] \in Message
         /\ [kind |-> "update", pty |-> p, status |-> "exited"] \in Message
         /\ [kind |-> "update", pty |-> p, status |-> "running"] \in Message
BY DEF Message

LEMMA EndsKeep == PanelInv /\ (Exit \/ Restart \/ Reconnect) => PanelInv'
<1>. SUFFICES ASSUME PanelInv, Exit \/ Restart \/ Reconnect PROVE PanelInv'
  OBVIOUS
<1>0. /\ PanelTypes /\ host.n \in Procs /\ news \in Seq(Message)
      /\ host \in [n : Procs, up : BOOLEAN, got : [Procs -> Seq(Nat)], size : [Procs -> Nat]]
  BY DEF PanelInv, PanelTypes
<1>1. CASE Exit
  <2>1. Ended(host.n) \in Seq(Message)
    <3>1. \A a, b \in Message : <<a, b>> \in Seq(Message)
      OBVIOUS
    <3>. QED BY <1>0, <3>1, MessagesTyped DEF Ended
  <2>2. news' \in Seq(Message)
    BY <1>0, <1>1, <2>1 DEF Exit, Tell
  <2>3. /\ host' = [host EXCEPT !.up = FALSE]
        /\ UNCHANGED <<socket, wire, old, calls, panel, writers, size, typed, acts>>
    BY <1>1 DEF Exit, links, bounds
  <2>4. PanelTypes' /\ host'.got = host.got
    BY <1>0, <2>2, <2>3 DEF PanelTypes
  <2>. QED BY <2>3, <2>4, MovesNothing DEF PanelInv
<1>2. CASE Restart
  <2>1. host.n + 1 \in Procs
    BY <1>0, <1>2, PanelBounds DEF Restart, Procs
  <2>2. <<[kind |-> "exit", pty |-> host.n],
          [kind |-> "update", pty |-> host.n + 1, status |-> "running"]>> \in Seq(Message)
    <3>1. \A a, b \in Message : <<a, b>> \in Seq(Message)
      OBVIOUS
    <3>. QED BY <1>0, <2>1, <3>1, MessagesTyped
  <2>3. news' \in Seq(Message)
    BY <1>0, <1>2, <2>2 DEF Restart, Tell
  <2>4. /\ host' = [host EXCEPT !.n = host.n + 1, !.up = TRUE]
        /\ UNCHANGED <<socket, wire, old, calls, panel, writers, size, typed, acts>>
    BY <1>2 DEF Restart, links, bounds
  <2>5. host' \in [n : Procs, up : BOOLEAN, got : [Procs -> Seq(Nat)], size : [Procs -> Nat]] /\ host'.got = host.got
    BY <1>0, <2>1, <2>4
  <2>6. PanelTypes'
    BY <1>0, <2>3, <2>4, <2>5 DEF PanelTypes
  <2>. QED BY <2>4, <2>5, <2>6, MovesNothing
<1>3. CASE Reconnect
  <2>1. news' \in Seq(Message)
    <3>1. \A a \in Message : <<a>> \in Seq(Message)
      OBVIOUS
    <3>. QED BY <1>0, <1>3, <3>1, MessagesTyped DEF Reconnect
  <2>2. /\ socket' = TRUE
        /\ UNCHANGED <<host, wire, old, calls, panel, writers, size, typed, acts>>
    BY <1>3 DEF Reconnect, bounds
  <2>3. PanelTypes'
    BY <1>0, <2>1, <2>2 DEF PanelTypes
  <2>. QED BY <2>2, <2>3, MovesNothing
<1>. QED BY <1>1, <1>2, <1>3

LEMMA BreaksKeep ==
  ASSUME PanelInv, Disconnect, "late" \notin PanelRaces
  PROVE  PanelInv'
<1>0. PanelTypes /\ OneWay /\ FlowsInOrder
  BY DEF PanelInv
<1>1. /\ socket' = FALSE /\ wire' = <<>> /\ news' = <<>>
      /\ UNCHANGED <<host, calls, writers, size, typed, acts>>
  BY DEF Disconnect
<1>2. old' = <<>>
  <2>1. PICK k \in {0} : old' = old \o SubSeq(wire, 1, k)
    BY DEF Disconnect
  <2>2. SubSeq(wire, 1, 0) = <<>>
    BY <1>0 DEF PanelTypes
  <2>. QED BY <1>0, <2>1, <2>2 DEF PanelTypes
<1>3. panel' \in Panel /\ panel'.pty = panel.pty /\ panel'.pending = panel.pending
  BY <1>0 DEF Disconnect, PanelTypes, Panel
<1>4. PanelTypes'
  <2>1. <<>> \in Seq(Message) /\ <<>> \in Seq(Request)
    OBVIOUS
  <2>. QED BY <1>0, <1>1, <1>2, <1>3, <2>1 DEF PanelTypes
<1>5. \A p \in Procs : Chunks(wire', p) = <<>> /\ KeysIn(Chunks(wire', p)) = {}
  BY <1>1 DEF Chunks, KeysIn
<1>6. OneWay'
  BY <1>0, <1>1, <1>3, <1>5 DEF OneWay
<1>7. ASSUME NEW p \in Procs PROVE FlowTo(p)' /\ KeysTo(p)' \subseteq KeysTo(p)
  <2>1. /\ Flow(host.got[p], Chunks(wire, p), Called(calls, p), writers[p].tail, writers[p].batch, Pended(p))
        /\ Pended(p)' = Pended(p)
    BY <1>0, <1>3 DEF FlowsInOrder, FlowTo, Pended
  <2>2. /\ Flow(host.got[p], <<>>, Called(calls, p), writers[p].tail, writers[p].batch, Pended(p))
        /\ AllKeys(host.got[p], <<>>, Called(calls, p), writers[p].tail, writers[p].batch, Pended(p)) \subseteq KeysTo(p)
    BY <2>1, FlowBreaks DEF KeysTo
  <2>. QED BY <1>1, <1>5, <2>1, <2>2 DEF FlowTo, KeysTo
<1>. QED BY <1>1, <1>4, <1>6, <1>7, TypesNothing

LEMMA ResizedTyped ==
  ASSUME PanelTypes, size' \in Nat, NEW p \in Panel
  PROVE  /\ Resized(p) \in Panel /\ Resized(p).pty = p.pty /\ Resized(p).pending = p.pending
         /\ Settle(p) \in Panel /\ Settle(p).pty = p.pty /\ Settle(p).pending = p.pending
<1>. DEFINE Due(n) == [p EXCEPT !.resizing = "due", !.sent = n, !.queued = FALSE]
<1>1. \A n \in Nat : Due(n) \in Panel /\ Due(n).pty = p.pty /\ Due(n).pending = p.pending
  BY DEF Panel
<1>2. /\ [p EXCEPT !.queued = TRUE] \in Panel /\ [p EXCEPT !.resizing = "no"] \in Panel
      /\ [p EXCEPT !.queued = TRUE].pty = p.pty /\ [p EXCEPT !.queued = TRUE].pending = p.pending
      /\ [p EXCEPT !.resizing = "no"].pty = p.pty /\ [p EXCEPT !.resizing = "no"].pending = p.pending
  BY DEF Panel
<1>3. Resized(p) \in {p, [p EXCEPT !.queued = TRUE], Due(size')}
  BY DEF Resized
<1>4. [[p EXCEPT !.resizing = "no"] EXCEPT !.resizing = "due", !.sent = size, !.queued = FALSE] = Due(size)
  BY DEF Panel
<1>5. Settle(p) \in {[p EXCEPT !.resizing = "no"], Due(size)}
  BY <1>4 DEF Settle
<1>6. size \in Nat /\ size' \in Nat
  BY DEF PanelTypes
<1>. HIDE DEF Due
<1>. QED BY <1>1, <1>2, <1>3, <1>5, <1>6

(* Answers to sizes, phases of the instance, and another size of the surface.       *)
LEMMA PhasesKeep ==
  PanelInv /\ (SurfaceReady \/ HostAttaches \/ Layout) => PanelInv'
<1>. SUFFICES ASSUME PanelInv, SurfaceReady \/ HostAttaches \/ Layout PROVE PanelInv'
  OBVIOUS
<1>0. PanelTypes /\ panel \in Panel /\ size \in Nat /\ acts \in Nat
  BY DEF PanelInv, PanelTypes
<1>1. CASE SurfaceReady
  <2>1. /\ panel' \in Panel /\ panel'.pty = panel.pty /\ panel'.pending = panel.pending
        /\ UNCHANGED <<host, news, socket, wire, old, calls, writers, size, typed, acts>>
    BY <1>0, <1>1 DEF SurfaceReady, Panel, links, bounds
  <2>. QED BY <1>0, <2>1, MovesNothing DEF PanelTypes
<1>2. CASE HostAttaches
  <2>1. PICK answer \in {"gone", "running", "exited"} :
             panel' = [panel EXCEPT !.phase = "replaying", !.answer = answer]
    BY <1>2 DEF HostAttaches
  <2>2. /\ panel' \in Panel /\ panel'.pty = panel.pty /\ panel'.pending = panel.pending
        /\ UNCHANGED <<host, news, socket, wire, old, calls, writers, size, typed, acts>>
    BY <1>0, <1>2, <2>1 DEF HostAttaches, Panel, links, bounds
  <2>. QED BY <1>0, <2>2, MovesNothing DEF PanelTypes
<1>3. CASE Layout
  <2>1. size' \in Nat /\ acts' = acts + 1 /\ acts' \in Nat
    BY <1>0, <1>3, PanelBounds DEF Layout
  <2>2. panel' \in Panel /\ panel'.pty = panel.pty /\ panel'.pending = panel.pending
    BY <1>0, <1>3, <2>1, ResizedTyped DEF Layout
  <2>3. UNCHANGED <<host, news, socket, wire, old, calls, writers, typed>>
    BY <1>3 DEF Layout, links
  <2>. QED BY <1>0, <2>1, <2>2, <2>3, MovesNothing DEF PanelTypes
<1>. QED BY <1>1, <1>2, <1>3

(* What a panel sends goes last on the socket, or is a call that is waited for.     *)
LEMMA SizesKeep == PanelInv /\ (ResizeSends \/ ResizeAnswered) => PanelInv'
<1>. SUFFICES ASSUME PanelInv, ResizeSends \/ ResizeAnswered PROVE PanelInv'
  OBVIOUS
<1>0. PanelTypes /\ OneWay /\ FlowsInOrder /\ panel \in Panel /\ size \in Nat /\ wire \in Seq(Request)
  BY DEF PanelInv, PanelTypes
<1>1. UNCHANGED <<host, news, socket, old, writers, size, typed, acts>>
  BY DEF ResizeSends, ResizeAnswered, bounds
<1>2. panel' \in Panel /\ panel'.pty = panel.pty /\ panel'.pending = panel.pending
  <2>1. /\ Settle(panel) \in Panel /\ Settle(panel).pty = panel.pty /\ Settle(panel).pending = panel.pending
    BY <1>0, <1>1, ResizedTyped
  <2>2. LET w == [panel EXCEPT !.resizing = "waits"] IN
        w \in Panel /\ w.pty = panel.pty /\ w.pending = panel.pending
    BY <1>0 DEF Panel
  <2>3. panel' \in {panel, Settle(panel), [panel EXCEPT !.resizing = "waits"]}
    BY DEF ResizeSends, ResizeAnswered
  <2>. QED BY <1>0, <2>1, <2>2, <2>3
<1> DEFINE request == [kind |-> "resize", pty |-> panel.pty, what |-> panel.sent]
<1>3. request \in Request /\ \A p \in Procs : ChunkOf(request, p) = <<>>
  BY <1>0 DEF Panel, Request, ChunkOf
<1>4. /\ wire' = wire \/ (wire' = Append(wire, request) /\ socket)
      /\ \A c \in calls' \ calls : c.kind = "resize" /\ c \in Call
      /\ \A c \in calls \ calls' : c.kind = "resize"
  <2>1. CASE ResizeSends
    <3>1. /\ panel.pty \in Procs /\ panel.sent \in Nat
      BY <1>0 DEF Panel
    <3>2. [kind |-> "resize", pty |-> panel.pty, what |-> panel.sent, answered |-> FALSE] \in Call
      BY <3>1 DEF Call
    <3>3. CASE socket
      <4>1. wire' = Append(wire, request) /\ calls' = calls
        BY <2>1, <3>3 DEF ResizeSends, Send
      <4>. QED BY <3>3, <4>1
    <3>4. CASE ~socket
      <4> DEFINE call == [kind |-> "resize", pty |-> panel.pty, what |-> panel.sent, answered |-> FALSE]
      <4>1. wire' = wire /\ calls' = calls \cup {call}
        BY <2>1, <3>4 DEF ResizeSends, Send
      <4>2. call \in Call /\ call.kind = "resize"
        BY <3>2
      <4>. HIDE DEF call
      <4>. QED BY <4>1, <4>2
    <3>. QED BY <3>3, <3>4
  <2>2. CASE ResizeAnswered
    BY <2>2 DEF ResizeAnswered
  <2>. QED BY <2>1, <2>2
<1>. HIDE DEF request
<1>5. PanelTypes'
  <2>1. wire' \in Seq(Request)
    BY <1>0, <1>3, <1>4
  <2>2. calls' \in SUBSET Call
    BY <1>0, <1>4 DEF PanelTypes
  <2>. QED BY <1>0, <1>1, <1>2, <2>1, <2>2 DEF PanelTypes
<1>6. \A p \in Procs : WritesOf(calls', p) = WritesOf(calls, p) /\ Called(calls', p) = Called(calls, p)
  <2>1. \A p \in Procs : WritesOf(calls', p) = WritesOf(calls, p)
    BY <1>4 DEF WritesOf
  <2>. QED BY <2>1 DEF Called
<1>7. \A p \in Procs : Chunks(wire', p) \in {Chunks(wire, p), Append(Chunks(wire, p), <<>>)}
  BY <1>0, <1>3, <1>4, ChunksMove
<1>8. ASSUME NEW p \in Procs
      PROVE FlowTo(p)' /\ KeysTo(p)' \subseteq KeysTo(p) /\ KeysIn(Chunks(wire', p)) = KeysIn(Chunks(wire, p))
  <2>1. /\ Flow(host.got[p], Chunks(wire, p), Called(calls, p), writers[p].tail, writers[p].batch, Pended(p))
        /\ Pended(p)' = Pended(p)
    BY <1>0, <1>2 DEF FlowsInOrder, FlowTo, Pended
  <2>2. /\ Flow(host.got[p], Append(Chunks(wire, p), <<>>), Called(calls, p), writers[p].tail, writers[p].batch, Pended(p))
        /\ AllKeys(host.got[p], Append(Chunks(wire, p), <<>>), Called(calls, p), writers[p].tail, writers[p].batch, Pended(p))
               = KeysTo(p)
    BY <2>1, FlowPads DEF KeysTo
  <2>3. KeysIn(Append(Chunks(wire, p), <<>>)) = KeysIn(Chunks(wire, p))
    <3>1. <<>> \in Seq(Nat) /\ ToSet(<<>>) = {} /\ Chunks(wire, p) \in Seq(Seq(Nat))
      BY <1>0, ChunksMove DEF ToSet
    <3>. QED BY <3>1, LastChunk
  <2>4. CASE Chunks(wire', p) = Chunks(wire, p)
    BY <1>1, <1>6, <2>1, <2>4 DEF FlowTo, KeysTo
  <2>5. CASE Chunks(wire', p) = Append(Chunks(wire, p), <<>>)
    BY <1>1, <1>6, <2>1, <2>2, <2>3, <2>5 DEF FlowTo, KeysTo
  <2>. QED BY <1>7, <2>4, <2>5
<1>9. OneWay'
  <2>1. ~socket' => wire' = <<>>
    BY <1>0, <1>1, <1>4 DEF OneWay
  <2>2. ASSUME NEW p \in Procs
        PROVE  /\ \A d, e \in WritesOf(calls', p) : d = e
               /\ WritesOf(calls', p) # {} => writers'[p].waits
               /\ writers'[p].waits => KeysIn(Chunks(wire', p)) = {}
    BY <1>0, <1>1, <1>6, <1>8 DEF OneWay
  <2>. QED BY <1>0, <1>1, <1>2, <2>1, <2>2 DEF OneWay
<1>. QED BY <1>1, <1>5, <1>8, <1>9, TypesNothing

LEMMA SendsKeep ==
  ASSUME PanelInv, NEW p \in Procs, InputSends(p)
  PROVE  PanelInv'
<1>0. /\ PanelTypes /\ OneWay /\ FlowsInOrder /\ wire \in Seq(Request) /\ calls \in SUBSET Call
      /\ writers \in [Procs -> Writer] /\ writers[p].tail \in Seq(Seq(Nat))
  BY DEF PanelInv, PanelTypes, Writer
<1>1. /\ writers[p].tail # <<>> /\ ~writers[p].waits /\ Send("write", p, Head(writers[p].tail))
      /\ writers' = [writers EXCEPT ![p].tail = Tail(@), ![p].waits = ~socket]
      /\ UNCHANGED <<host, news, socket, old, panel, size, typed, acts>>
  BY DEF InputSends, bounds
<1> DEFINE chunk == Head(writers[p].tail)
           request == [kind |-> "write", pty |-> p, what |-> chunk]
           call == [kind |-> "write", pty |-> p, what |-> chunk, answered |-> FALSE]
<1>2. /\ chunk \in Seq(Nat) /\ Tail(writers[p].tail) \in Seq(Seq(Nat))
      /\ request \in Request /\ call \in Call
  BY <1>0, <1>1 DEF Request, Call
<1>3. /\ writers' \in [Procs -> Writer] /\ writers'[p].tail = Tail(writers[p].tail)
      /\ writers'[p].batch = writers[p].batch /\ writers'[p].open = writers[p].open
      /\ writers'[p].waits = ~socket
      /\ \A q \in Procs \ {p} : writers'[q] = writers[q]
  <2>1. writers' = [writers EXCEPT ![p] = [writers[p] EXCEPT !.tail = Tail(writers[p].tail), !.waits = ~socket]]
    BY <1>0, <1>1
  <2>2. /\ [writers[p] EXCEPT !.tail = Tail(writers[p].tail), !.waits = ~socket] \in Writer
        /\ socket \in BOOLEAN
    BY <1>0, <1>2 DEF Writer, PanelTypes
  <2>. QED BY <1>0, <2>1, <2>2 DEF Writer
<1>4. \A q \in Procs : ChunkOf(request, q) = IF q = p THEN chunk ELSE <<>>
  BY DEF ChunkOf
<1>5. socket => wire' = Append(wire, request) /\ calls' = calls
  BY <1>1 DEF Send
<1>6. ~socket => wire' = wire /\ calls' = calls \cup {call}
  BY <1>1 DEF Send
<1>7. /\ ~socket => wire = <<>>
      /\ WritesOf(calls, p) = {} /\ Called(calls, p) = {}
  <2>1. WritesOf(calls, p) = {} /\ (~socket => wire = <<>>)
    BY <1>0, <1>1 DEF OneWay
  <2>. QED BY <2>1 DEF Called
<1>8. \A q \in Procs : q # p => WritesOf(calls', q) = WritesOf(calls, q) /\ Called(calls', q) = Called(calls, q)
  <2>1. \A q \in Procs : q # p => WritesOf(calls', q) = WritesOf(calls, q)
    BY <1>5, <1>6 DEF WritesOf, PanelTypes
  <2>. QED BY <2>1 DEF Called
<1>9. ~socket => WritesOf(calls', p) = {call} /\ Called(calls', p) = {chunk}
  <2>1. ~socket => WritesOf(calls', p) = {call}
    BY <1>6, <1>7 DEF WritesOf
  <2>2. ~call.answered /\ call.what = chunk
    OBVIOUS
  <2>. HIDE DEF call, chunk
  <2>. QED BY <2>1, <2>2 DEF Called
<1>. HIDE DEF chunk, request, call
<1>10. PanelTypes'
  <2>1. wire' \in Seq(Request)
    <3>1. Append(wire, request) \in Seq(Request)
      BY <1>0, <1>2
    <3>. QED BY <1>0, <1>5, <1>6, <3>1
  <2>2. calls' \in SUBSET Call
    BY <1>0, <1>2, <1>5, <1>6
  <2>. QED BY <1>0, <1>1, <1>3, <2>1, <2>2 DEF PanelTypes
<1>11. \A q \in Procs : /\ Chunks(wire, q) \in Seq(Seq(Nat))
                        /\ socket => Chunks(wire', q) = Append(Chunks(wire, q), ChunkOf(request, q))
                        /\ ~socket => Chunks(wire', q) = Chunks(wire, q) /\ KeysIn(Chunks(wire, q)) = {}
  <2>1. \A q \in Procs : Chunks(<<>>, q) = <<>> /\ KeysIn(<<>>) = {}
    BY DEF Chunks, KeysIn
  <2>2. ASSUME NEW q \in Procs
        PROVE  /\ Chunks(wire, q) \in Seq(Seq(Nat))
               /\ Chunks(Append(wire, request), q) = Append(Chunks(wire, q), ChunkOf(request, q))
    BY <1>0, <1>2, ChunksMove
  <2>. QED BY <1>5, <1>6, <1>7, <2>1, <2>2
<1>12. ASSUME NEW q \in Procs PROVE FlowTo(q)' /\ KeysTo(q)' \subseteq KeysTo(q)
  <2>1. /\ Flow(host.got[q], Chunks(wire, q), Called(calls, q), writers[q].tail, writers[q].batch, Pended(q))
        /\ Pended(q)' = Pended(q)
    BY <1>0, <1>1 DEF FlowsInOrder, FlowTo, Pended
  <2>2. CASE q = p
    <3>1. Flow(host.got[p], Chunks(wire, p), {}, writers[p].tail, writers[p].batch, Pended(p))
      BY <1>7, <2>1, <2>2
    <3>2. /\ Flow(host.got[p], Append(Chunks(wire, p), chunk), {}, Tail(writers[p].tail), writers[p].batch, Pended(p))
          /\ AllKeys(host.got[p], Append(Chunks(wire, p), chunk), {}, Tail(writers[p].tail), writers[p].batch, Pended(p))
                \subseteq AllKeys(host.got[p], Chunks(wire, p), {}, writers[p].tail, writers[p].batch, Pended(p))
          /\ KeysIn(Chunks(wire, p)) = {} =>
                Flow(host.got[p], Chunks(wire, p), {chunk}, Tail(writers[p].tail), writers[p].batch, Pended(p))
          /\ AllKeys(host.got[p], Chunks(wire, p), {chunk}, Tail(writers[p].tail), writers[p].batch, Pended(p))
                \subseteq AllKeys(host.got[p], Chunks(wire, p), {}, writers[p].tail, writers[p].batch, Pended(p))
      BY <1>1, <3>1, FlowSends DEF chunk
    <3>3. CASE socket
      <4>1. /\ Chunks(wire', p) = Append(Chunks(wire, p), chunk) /\ Called(calls', p) = {}
        BY <1>4, <1>5, <1>7, <1>11, <3>3
      <4>. QED BY <1>1, <1>3, <1>7, <2>1, <2>2, <3>2, <4>1 DEF FlowTo, KeysTo
    <3>4. CASE ~socket
      <4>1. /\ Chunks(wire', p) = Chunks(wire, p) /\ Called(calls', p) = {chunk} /\ KeysIn(Chunks(wire, p)) = {}
        BY <1>9, <1>11, <3>4
      <4>. QED BY <1>1, <1>3, <1>7, <2>1, <2>2, <3>2, <4>1 DEF FlowTo, KeysTo
    <3>. QED BY <3>3, <3>4
  <2>3. CASE q # p
    <3>1. /\ Flow(host.got[q], Append(Chunks(wire, q), <<>>), Called(calls, q), writers[q].tail, writers[q].batch, Pended(q))
          /\ AllKeys(host.got[q], Append(Chunks(wire, q), <<>>), Called(calls, q), writers[q].tail, writers[q].batch, Pended(q))
                = KeysTo(q)
      BY <2>1, FlowPads DEF KeysTo
    <3>2. Chunks(wire', q) \in {Chunks(wire, q), Append(Chunks(wire, q), <<>>)}
      BY <1>4, <1>11, <2>3
    <3>3. CASE Chunks(wire', q) = Chunks(wire, q)
      BY <1>1, <1>3, <1>8, <2>1, <2>3, <3>3 DEF FlowTo, KeysTo
    <3>4. CASE Chunks(wire', q) = Append(Chunks(wire, q), <<>>)
      BY <1>1, <1>3, <1>8, <2>1, <2>3, <3>1, <3>4 DEF FlowTo, KeysTo
    <3>. QED BY <3>2, <3>3, <3>4
  <2>. QED BY <2>2, <2>3
<1>13. OneWay'
  <2>1. ~socket' => wire' = <<>>
    BY <1>1, <1>6, <1>7
  <2>2. ASSUME NEW q \in Procs
        PROVE  /\ \A d, e \in WritesOf(calls', q) : d = e
               /\ WritesOf(calls', q) # {} => writers'[q].waits
               /\ writers'[q].waits => KeysIn(Chunks(wire', q)) = {}
    <3>1. CASE q = p /\ socket
      <4>1. WritesOf(calls', p) = {} /\ ~writers'[p].waits
        BY <1>3, <1>5, <1>7, <3>1
      <4>. QED BY <3>1, <4>1
    <3>2. CASE q = p /\ ~socket
      BY <1>3, <1>9, <1>11, <3>2
    <3>3. CASE q # p
      <4>1. KeysIn(Chunks(wire', q)) = KeysIn(Chunks(wire, q))
        <5>1. <<>> \in Seq(Nat) /\ ToSet(<<>>) = {} /\ Chunks(wire, q) \in Seq(Seq(Nat))
          BY <1>11 DEF ToSet
        <5>2. KeysIn(Append(Chunks(wire, q), <<>>)) = KeysIn(Chunks(wire, q))
          BY <5>1, LastChunk
        <5>. QED BY <1>4, <1>11, <3>3, <5>2
      <4>. QED BY <1>0, <1>3, <1>8, <3>3, <4>1 DEF OneWay
    <3>. QED BY <3>1, <3>2, <3>3
  <2>3. writers'[panel'.pty].open => panel'.pending = <<>>
    <3>1. panel'.pty \in Procs /\ panel' = panel
      BY <1>0, <1>1 DEF PanelTypes, Panel
    <3>. QED BY <1>0, <1>3, <3>1 DEF OneWay
  <2>. QED BY <2>1, <2>2, <2>3 DEF OneWay
<1>. QED BY <1>1, <1>10, <1>12, <1>13, TypesNothing

LEMMA AnsweredKeep == PanelInv /\ InputAnswered => PanelInv'
<1>. SUFFICES ASSUME PanelInv, InputAnswered PROVE PanelInv'
  OBVIOUS
<1>0. PanelTypes /\ OneWay /\ FlowsInOrder /\ calls \in SUBSET Call /\ writers \in [Procs -> Writer]
  BY DEF PanelInv, PanelTypes
<1>1. PICK c \in calls : /\ c.kind = "write" /\ c.answered /\ calls' = calls \ {c}
                         /\ writers' = [writers EXCEPT ![c.pty].waits = FALSE]
  BY DEF InputAnswered
<1>2. UNCHANGED <<host, news, socket, wire, old, panel, size, typed, acts>>
  BY DEF InputAnswered, bounds
<1>3. c.pty \in Procs
  BY <1>0 DEF Call
<1>4. /\ writers' \in [Procs -> Writer]
      /\ \A q \in Procs : /\ writers'[q].tail = writers[q].tail /\ writers'[q].batch = writers[q].batch
                          /\ writers'[q].open = writers[q].open
                          /\ writers'[q].waits = (IF q = c.pty THEN FALSE ELSE writers[q].waits)
  <2>1. writers' = [writers EXCEPT ![c.pty] = [writers[c.pty] EXCEPT !.waits = FALSE]]
    BY <1>0, <1>1, <1>3
  <2>2. [writers[c.pty] EXCEPT !.waits = FALSE] \in Writer
    BY <1>0, <1>3 DEF Writer
  <2>. QED BY <1>0, <1>3, <2>1, <2>2 DEF Writer
<1>5. \A q \in Procs : /\ q # c.pty => WritesOf(calls', q) = WritesOf(calls, q)
                       /\ q = c.pty => WritesOf(calls', q) = {} /\ WritesOf(calls, q) = {c}
  BY <1>0, <1>1 DEF WritesOf, OneWay
<1>6. \A q \in Procs : Called(calls', q) = Called(calls, q)
  <2>1. \A q \in Procs : q # c.pty => Called(calls', q) = Called(calls, q)
    BY <1>5 DEF Called
  <2>2. Called(calls', c.pty) = {} /\ Called(calls, c.pty) = {}
    BY <1>1, <1>3, <1>5 DEF Called
  <2>. QED BY <2>1, <2>2
<1>7. PanelTypes'
  BY <1>0, <1>1, <1>2, <1>4 DEF PanelTypes
<1>8. OneWay'
  <2>1. panel.pty \in Procs
    BY <1>0 DEF PanelTypes, Panel
  <2>2. ASSUME NEW q \in Procs
        PROVE  /\ \A d, e \in WritesOf(calls', q) : d = e
               /\ WritesOf(calls', q) # {} => writers'[q].waits
               /\ writers'[q].waits => KeysIn(Chunks(wire', q)) = {}
    <3>1. /\ \A d, e \in WritesOf(calls, q) : d = e
          /\ WritesOf(calls, q) # {} => writers[q].waits
          /\ writers[q].waits => KeysIn(Chunks(wire, q)) = {}
      BY <1>0 DEF OneWay
    <3>2. CASE q = c.pty
      BY <1>2, <1>4, <1>5, <3>1, <3>2
    <3>3. CASE q # c.pty
      BY <1>2, <1>4, <1>5, <3>1, <3>3
    <3>. QED BY <3>2, <3>3
  <2>. QED BY <1>0, <1>2, <1>4, <2>1, <2>2 DEF OneWay
<1>9. ASSUME NEW q \in Procs PROVE FlowTo(q)' /\ KeysTo(q)' \subseteq KeysTo(q)
  <2>1. FlowTo(q) /\ Pended(q)' = Pended(q)
    BY <1>0, <1>2 DEF FlowsInOrder, Pended
  <2>. QED BY <1>2, <1>4, <1>6, <2>1 DEF FlowTo, KeysTo
<1>. QED BY <1>2, <1>7, <1>8, <1>9, TypesNothing

(* A step on the writer of one process, and on what waits for its session.          *)
LEMMA WriterSteps ==
  ASSUME PanelInv, NEW p \in Procs, NEW w \in Writer, writers' = [writers EXCEPT ![p] = w],
         w.waits = writers[p].waits,
         UNCHANGED <<host, socket, wire, old, calls, size, typed, acts>>,
         news' \in Seq(Message), panel' \in Panel,
         w.open /\ panel'.pty = p => panel'.pending = <<>>,
         panel'.pty # p => panel'.pending = <<>> \/ UNCHANGED panel,
         \A q \in Procs \ {p} : Pended(q)' \in {Pended(q), <<>>},
         Flow(host.got[p], Chunks(wire, p), Called(calls, p), w.tail, w.batch, Pended(p)'),
         AllKeys(host.got[p], Chunks(wire, p), Called(calls, p), w.tail, w.batch, Pended(p)') \subseteq KeysTo(p)
  PROVE  PanelInv'
<1>0. PanelTypes /\ OneWay /\ FlowsInOrder /\ writers \in [Procs -> Writer]
  BY DEF PanelInv, PanelTypes
<1>1. writers' \in [Procs -> Writer] /\ writers'[p] = w /\ \A q \in Procs \ {p} : writers'[q] = writers[q]
  BY <1>0
<1>2. PanelTypes'
  BY <1>0, <1>1 DEF PanelTypes
<1>3. OneWay'
  <2>1. writers'[panel'.pty].open => panel'.pending = <<>>
    BY <1>0, <1>1 DEF OneWay, Panel
  <2>. QED BY <1>0, <1>1, <2>1 DEF OneWay
<1>4. ASSUME NEW q \in Procs PROVE FlowTo(q)' /\ KeysTo(q)' \subseteq KeysTo(q)
  <2>1. Flow(host.got[q], Chunks(wire, q), Called(calls, q), writers[q].tail, writers[q].batch, Pended(q))
    BY <1>0 DEF FlowsInOrder, FlowTo
  <2>2. CASE q = p
    BY <1>1, <2>2 DEF FlowTo, KeysTo
  <2>3. CASE q # p
    <3>1. /\ Flow(host.got[q], Chunks(wire, q), Called(calls, q), writers[q].tail, writers[q].batch, <<>>)
          /\ AllKeys(host.got[q], Chunks(wire, q), Called(calls, q), writers[q].tail, writers[q].batch, <<>>)
                \subseteq KeysTo(q)
      BY <2>1, FlowGivenUp DEF KeysTo
    <3>2. CASE Pended(q)' = Pended(q)
      BY <1>1, <2>1, <2>3, <3>2 DEF FlowTo, KeysTo
    <3>3. CASE Pended(q)' = <<>>
      BY <1>1, <2>3, <3>1, <3>3 DEF FlowTo, KeysTo
    <3>. QED BY <2>3, <3>2, <3>3
  <2>. QED BY <2>2, <2>3
<1>. QED BY <1>2, <1>3, <1>4, TypesNothing

(* flush: nothing, or the batch goes last on the chain.                            *)
LEMMA Flushes ==
  ASSUME NEW w \in Writer, NEW g, NEW W, NEW C, NEW d, Flow(g, W, C, w.tail, w.batch, d)
  PROVE  /\ Flushed(w) \in Writer /\ Flushed(w).waits = w.waits /\ Flushed(w).open = w.open
         /\ Flow(g, W, C, Flushed(w).tail, Flushed(w).batch, d)
         /\ AllKeys(g, W, C, Flushed(w).tail, Flushed(w).batch, d) = AllKeys(g, W, C, w.tail, w.batch, d)
<1>1. CASE w.batch = <<>>
  BY <1>1 DEF Flushed
<1>2. CASE w.batch # <<>>
  <2>1. Flushed(w) = [w EXCEPT !.batch = <<>>, !.tail = Append(w.tail, w.batch)]
    BY <1>2 DEF Flushed, Writer
  <2>2. Append(w.tail, w.batch) \in Seq(Seq(Nat)) /\ <<>> \in Seq(Nat)
    BY DEF Writer
  <2>3. /\ Flushed(w) \in Writer /\ Flushed(w).waits = w.waits /\ Flushed(w).open = w.open
        /\ Flushed(w).tail = Append(w.tail, w.batch) /\ Flushed(w).batch = <<>>
    BY <2>1, <2>2 DEF Writer
  <2>4. /\ Flow(g, W, C, Append(w.tail, w.batch), <<>>, d)
        /\ AllKeys(g, W, C, Append(w.tail, w.batch), <<>>, d) = AllKeys(g, W, C, w.tail, w.batch, d)
    <3>1. PICK T : T = w.tail
      OBVIOUS
    <3>2. PICK b : b = w.batch
      OBVIOUS
    <3>3. Flow(g, W, C, T, b, d)
      BY <3>1, <3>2
    <3>4. /\ Flow(g, W, C, Append(T, b), <<>>, d)
          /\ AllKeys(g, W, C, Append(T, b), <<>>, d) = AllKeys(g, W, C, T, b, d)
      BY <3>3, FlowFlushed
    <3>. QED BY <3>1, <3>2, <3>4
  <2>. QED BY <2>3, <2>4
<1>. QED BY <1>1, <1>2

LEMMA MicrotasksKeep ==
  ASSUME PanelInv, NEW p \in Procs, Microtask(p)
  PROVE  PanelInv'
<1>0. /\ PanelTypes /\ OneWay /\ FlowsInOrder /\ writers[p] \in Writer /\ panel \in Panel
      /\ FlowTo(p)
  BY DEF PanelInv, PanelTypes, FlowsInOrder
<1>1. /\ writers' = [writers EXCEPT ![p] = Flushed(writers[p])]
      /\ UNCHANGED <<host, news, socket, wire, old, calls, panel, size, typed, acts>>
  BY DEF Microtask, links, bounds
<1>2. /\ Flushed(writers[p]) \in Writer /\ Flushed(writers[p]).waits = writers[p].waits
      /\ Flushed(writers[p]).open = writers[p].open
      /\ Flow(host.got[p], Chunks(wire, p), Called(calls, p), Flushed(writers[p]).tail, Flushed(writers[p]).batch, Pended(p))
      /\ AllKeys(host.got[p], Chunks(wire, p), Called(calls, p), Flushed(writers[p]).tail, Flushed(writers[p]).batch, Pended(p)) = KeysTo(p)
  BY <1>0, Flushes DEF FlowTo, KeysTo
<1>3. \A q \in Procs : Pended(q)' = Pended(q)
  BY <1>1 DEF Pended
<1>4. writers[panel.pty].open => panel.pending = <<>>
  BY <1>0 DEF OneWay
<1>. QED BY <1>0, <1>1, <1>2, <1>3, <1>4, WriterSteps DEF PanelTypes

LEMMA AttachesKeep == PanelInv /\ AttachDone => PanelInv'
<1>. SUFFICES ASSUME PanelInv, AttachDone PROVE PanelInv'
  OBVIOUS
<1>p. PICK p \in Procs : p = panel.pty
  <2>. QED BY DEF PanelInv, PanelTypes, Panel
<1> DEFINE w == writers[p]
           took == Enqueued([w EXCEPT !.open = TRUE], panel.pending)
<1>0. /\ PanelTypes /\ OneWay /\ FlowsInOrder /\ panel \in Panel /\ p \in Procs /\ w \in Writer
      /\ writers \in [Procs -> Writer] /\ panel.pending \in Seq(Nat)
  BY <1>p DEF PanelInv, PanelTypes, Panel
<1>1. UNCHANGED <<host, news, socket, wire, old, calls, size, typed, acts>>
  BY <1>p DEF AttachDone, links, bounds
<1>2. CASE panel.answer # "running"
  <2>1. panel' \in Panel /\ panel'.pty = panel.pty /\ panel'.pending = panel.pending /\ UNCHANGED writers
    BY <1>0, <1>2 DEF AttachDone, Panel
  <2>2. PanelTypes'
    BY <1>0, <1>1, <2>1 DEF PanelTypes
  <2>. QED BY <1>0, <1>1, <2>1, <2>2, MovesNothing DEF PanelTypes
<1>3. CASE panel.answer = "running"
  <2>1. /\ panel' = Connected(panel)
        /\ writers' = [writers EXCEPT ![p] = Flushed(took)]
    BY <1>p, <1>0, <1>3 DEF AttachDone
  <2>2. panel' \in Panel /\ panel'.pty = p /\ panel'.pending = <<>>
    <3> DEFINE ready == [panel EXCEPT !.phase = "connected", !.display = "running", !.pending = <<>>]
    <3>1. ready \in Panel /\ ready.pty = p /\ ready.pending = <<>>
      <4>1. <<>> \in Seq(Nat)
        OBVIOUS
      <4>. QED BY <1>p, <1>0, <4>1 DEF Panel
    <3>2. panel' = Resized(ready) /\ size' \in Nat
      BY <1>0, <1>1, <2>1 DEF Connected, PanelTypes
    <3>. HIDE DEF ready
    <3>. QED BY <1>0, <3>1, <3>2, ResizedTyped
  <2>3. /\ took \in Writer /\ took.waits = w.waits /\ took.tail = w.tail /\ took.open
        /\ took.batch = w.batch \o panel.pending
    <3>1. w.batch \o panel.pending \in Seq(Nat)
      BY <1>0 DEF Writer
    <3>2. took = [w EXCEPT !.open = TRUE, !.batch = w.batch \o panel.pending]
      BY <1>0 DEF Enqueued, Writer
    <3>. QED BY <1>0, <3>1, <3>2 DEF Writer
  <2>4. Flow(host.got[p], Chunks(wire, p), Called(calls, p), w.tail, w.batch, panel.pending)
    BY <1>p, <1>0 DEF FlowsInOrder, FlowTo, Pended
  <2>5. KeysTo(p) = AllKeys(host.got[p], Chunks(wire, p), Called(calls, p), w.tail, w.batch, panel.pending)
    BY <1>p DEF KeysTo, Pended
  <2>6. CASE took.batch = <<>>
    <3>1. w.batch = <<>> /\ panel.pending = <<>> /\ Flushed(took) = took
      <4>1. \A s, t \in Seq(Nat) : s \o t = <<>> => s = <<>> /\ t = <<>>
        OBVIOUS
      <4>2. w.batch \in Seq(Nat)
        BY <1>0 DEF Writer
      <4>. QED BY <1>0, <2>3, <2>6, <4>1, <4>2 DEF Flushed
    <3>2. Pended(p)' = <<>> /\ \A q \in Procs \ {p} : Pended(q)' = Pended(q)
      BY <1>p, <2>2 DEF Pended
    <3>3. news' \in Seq(Message)
      BY <1>0, <1>1 DEF PanelTypes
    <3>4. took.waits = writers[p].waits /\ writers' = [writers EXCEPT ![p] = took]
      BY <2>1, <2>3, <3>1
    <3>5. /\ Flow(host.got[p], Chunks(wire, p), Called(calls, p), took.tail, took.batch, Pended(p)')
          /\ AllKeys(host.got[p], Chunks(wire, p), Called(calls, p), took.tail, took.batch, Pended(p)') \subseteq KeysTo(p)
      <4>. HIDE DEF took, w
      <4>. QED BY <2>3, <2>4, <2>5, <2>6, <3>1, <3>2
    <3>6. took \in Writer /\ p \in Procs
      BY <1>0, <2>3
    <3>7. took.open /\ panel'.pty = p => panel'.pending = <<>>
      BY <2>2
    <3>8. panel'.pty # p => panel'.pending = <<>> \/ UNCHANGED panel
      BY <2>2
    <3>. HIDE DEF took, w
    <3>. QED BY <1>1, <2>2, <3>2, <3>3, <3>4, <3>5, <3>6, <3>7, <3>8, WriterSteps
  <2>7. CASE took.batch # <<>>
    <3>1. Flushed(took) = [took EXCEPT !.batch = <<>>, !.tail = Append(took.tail, took.batch)]
      BY <2>7 DEF Flushed
    <3>2. Append(took.tail, took.batch) \in Seq(Seq(Nat)) /\ <<>> \in Seq(Nat)
      BY <2>3 DEF Writer
    <3>3. /\ Flushed(took) \in Writer /\ Flushed(took).waits = w.waits
          /\ Flushed(took).tail = Append(w.tail, w.batch \o panel.pending) /\ Flushed(took).batch = <<>>
      <4>. HIDE DEF took
      <4>. QED BY <2>3, <3>1, <3>2 DEF Writer
    <3>4. /\ Flow(host.got[p], Chunks(wire, p), Called(calls, p), Append(w.tail, w.batch \o panel.pending), <<>>, <<>>)
          /\ AllKeys(host.got[p], Chunks(wire, p), Called(calls, p), Append(w.tail, w.batch \o panel.pending), <<>>, <<>>)
                = KeysTo(p)
      <4>. HIDE DEF w, took
      <4>. QED BY <2>4, <2>5, FlowAttached
    <3>5. Pended(p)' = <<>> /\ \A q \in Procs \ {p} : Pended(q)' = Pended(q)
      BY <1>p, <2>2 DEF Pended
    <3>6. news' \in Seq(Message)
      BY <1>0, <1>1 DEF PanelTypes
    <3> DEFINE sent == Flushed(took)
    <3>7. sent \in Writer /\ sent.waits = writers[p].waits /\ writers' = [writers EXCEPT ![p] = sent] /\ p \in Procs
      BY <1>0, <2>1, <3>3
    <3>8. /\ Flow(host.got[p], Chunks(wire, p), Called(calls, p), sent.tail, sent.batch, Pended(p)')
          /\ AllKeys(host.got[p], Chunks(wire, p), Called(calls, p), sent.tail, sent.batch, Pended(p)') \subseteq KeysTo(p)
      <4>. HIDE DEF took, w
      <4>. QED BY <3>3, <3>4, <3>5
    <3>9. sent.open /\ panel'.pty = p => panel'.pending = <<>>
      BY <2>2
    <3>10. panel'.pty # p => panel'.pending = <<>> \/ UNCHANGED panel
      BY <2>2
    <3>. HIDE DEF sent, took, w
    <3>. QED BY <1>1, <2>2, <3>5, <3>6, <3>7, <3>8, <3>9, <3>10, WriterSteps
  <2>. QED BY <2>6, <2>7
<1>. QED BY <1>2, <1>3

LEMMA NewsKeeps == PanelInv /\ News => PanelInv'
<1>. SUFFICES ASSUME PanelInv, News PROVE PanelInv'
  OBVIOUS
<1>p. PICK p \in Procs : p = panel.pty
  <2>. QED BY DEF PanelInv, PanelTypes, Panel
<1> DEFINE w == writers[p]
           m == Head(news)
<1>0. /\ PanelTypes /\ OneWay /\ FlowsInOrder /\ panel \in Panel /\ p \in Procs /\ w \in Writer
      /\ writers \in [Procs -> Writer]
  BY <1>p DEF PanelInv, PanelTypes, Panel
<1>1. /\ news # <<>> /\ news' = Tail(news)
      /\ UNCHANGED <<host, socket, wire, old, calls, size, typed, acts>>
  BY <1>p DEF News, links, bounds
<1>2. m \in Message /\ news' \in Seq(Message)
  BY <1>0, <1>1 DEF PanelTypes
<1>3. CASE m.kind = "exit" \/ m.pty = p
  <2>1. UNCHANGED writers /\ panel' \in {panel, [panel EXCEPT !.display = "exited"]}
    BY <1>p, <1>3 DEF News
  <2>2. panel' \in Panel /\ panel'.pty = panel.pty /\ panel'.pending = panel.pending
    BY <1>0, <2>1 DEF Panel
  <2>3. PanelTypes'
    BY <1>0, <1>1, <1>2, <2>1, <2>2 DEF PanelTypes
  <2>. QED BY <1>0, <1>1, <2>1, <2>2, <2>3, MovesNothing DEF PanelTypes
<1>4. CASE m.kind # "exit" /\ m.pty # p
  <2>1. /\ panel' = Instance(m.pty, m.status)
        /\ writers' = [writers EXCEPT ![p] = [Flushed(w) EXCEPT !.open = FALSE]]
    BY <1>p, <1>0, <1>4 DEF News
  <2>2. m.pty \in Procs /\ m.status \in {"running", "exited"}
    BY <1>2, <1>4 DEF Message
  <2>3. panel' \in Panel /\ panel'.pty # p /\ panel'.pending = <<>>
    BY <1>4, <2>1, <2>2 DEF Instance, Panel
  <2> DEFINE shut == [Flushed(w) EXCEPT !.open = FALSE]
  <2>4. Flow(host.got[p], Chunks(wire, p), Called(calls, p), w.tail, w.batch, Pended(p))
    BY <1>0 DEF FlowsInOrder, FlowTo
  <2>5. /\ Flushed(w) \in Writer /\ Flushed(w).waits = w.waits
        /\ Flow(host.got[p], Chunks(wire, p), Called(calls, p), Flushed(w).tail, Flushed(w).batch, Pended(p))
        /\ AllKeys(host.got[p], Chunks(wire, p), Called(calls, p), Flushed(w).tail, Flushed(w).batch, Pended(p)) = KeysTo(p)
    BY <1>0, <2>4, Flushes DEF KeysTo
  <2>6. /\ shut \in Writer /\ shut.waits = w.waits /\ ~shut.open
        /\ shut.tail = Flushed(w).tail /\ shut.batch = Flushed(w).batch
    BY <2>5 DEF Writer
  <2>. HIDE DEF shut
  <2>7. /\ Flow(host.got[p], Chunks(wire, p), Called(calls, p), shut.tail, shut.batch, <<>>)
        /\ AllKeys(host.got[p], Chunks(wire, p), Called(calls, p), shut.tail, shut.batch, <<>>) \subseteq KeysTo(p)
    BY <2>5, <2>6, FlowGivenUp
  <2>8. \A q \in Procs : Pended(q)' = <<>>
    BY <2>3 DEF Pended
  <2>. HIDE DEF w, m
  <2>. QED BY <1>0, <1>1, <1>2, <2>1, <2>3, <2>6, <2>7, <2>8, WriterSteps DEF w, shut
<1>. QED BY <1>3, <1>4

LEMMA TypingKeeps == PanelInv /\ Type => PanelInv'
<1>. SUFFICES ASSUME PanelInv, Type PROVE PanelInv'
  OBVIOUS
<1>p. PICK p \in Procs : p = panel.pty
  <2>. QED BY DEF PanelInv, PanelTypes, Panel
<1> DEFINE w == writers[p]
           n == acts + 1
<1>0. /\ PanelTypes /\ OneWay /\ FlowsInOrder /\ panel \in Panel /\ p \in Procs /\ w \in Writer
      /\ writers \in [Procs -> Writer] /\ acts \in Nat /\ typed \in [Procs -> Seq(Nat)]
      /\ panel.pending \in Seq(Nat)
  BY <1>p DEF PanelInv, PanelTypes, Panel
<1>1. /\ acts' = n /\ n \in Nat /\ typed' = [typed EXCEPT ![p] = Append(typed[p], n)]
      /\ UNCHANGED <<host, news, socket, wire, old, calls, size>>
  BY <1>p, <1>0 DEF Type, links
<1>2. /\ typed' \in [Procs -> Seq(Nat)] /\ ToSet(typed'[p]) = ToSet(typed[p]) \cup {n}
      /\ \A q \in Procs \ {p} : typed'[q] = typed[q]
  <2>1. Append(typed[p], n) \in Seq(Nat) /\ ToSet(Append(typed[p], n)) = ToSet(typed[p]) \cup {n}
    BY <1>0, <1>1, OneMore
  <2>. QED BY <1>0, <1>1, <2>1
<1>3. \A q \in Procs : ToSet(typed[q]) \in SUBSET Nat /\ \A k \in ToSet(typed[q]) : k <= acts
  BY <1>0 DEF ToSet, FlowsInOrder
<1>4. /\ Flow(host.got[p], Chunks(wire, p), Called(calls, p), w.tail, w.batch, panel.pending)
      /\ KeysTo(p) = AllKeys(host.got[p], Chunks(wire, p), Called(calls, p), w.tail, w.batch, panel.pending)
  BY <1>p, <1>0 DEF FlowsInOrder, FlowTo, KeysTo, Pended
<1>5. Before(KeysTo(p), {n})
  BY <1>0, <1>3 DEF FlowsInOrder, Before
<1>6. /\ Flow(host.got[p], Chunks(wire, p), Called(calls, p), w.tail, w.batch, Append(panel.pending, n))
      /\ AllKeys(host.got[p], Chunks(wire, p), Called(calls, p), w.tail, w.batch, Append(panel.pending, n))
            = KeysTo(p) \cup {n}
      /\ panel.pending = <<>> =>
            Flow(host.got[p], Chunks(wire, p), Called(calls, p), w.tail, w.batch \o <<n>>, panel.pending)
      /\ AllKeys(host.got[p], Chunks(wire, p), Called(calls, p), w.tail, w.batch \o <<n>>, panel.pending)
            = KeysTo(p) \cup {n}
  BY <1>1, <1>4, <1>5, FlowTypes
<1>7. /\ panel' \in Panel /\ panel'.pty = p /\ writers' \in [Procs -> Writer]
      /\ \A q \in Procs \ {p} : writers'[q] = writers[q]
      /\ writers'[p].waits = w.waits /\ writers'[p].open = w.open /\ writers'[p].tail = w.tail
      /\ w.open => panel'.pending = panel.pending /\ writers'[p].batch = w.batch \o <<n>>
      /\ ~w.open => panel'.pending = Append(panel.pending, n) /\ writers'[p].batch = w.batch
  <2>1. CASE w.open
    <3>1. writers' = [writers EXCEPT ![p] = Enqueued(w, <<n>>)] /\ panel' = panel
      BY <1>0, <1>1, <2>1 DEF Type
    <3>2. Enqueued(w, <<n>>) = [w EXCEPT !.batch = w.batch \o <<n>>] /\ w.batch \o <<n>> \in Seq(Nat)
      BY <1>0, <1>1 DEF Enqueued, Writer
    <3>3. /\ Enqueued(w, <<n>>) \in Writer /\ Enqueued(w, <<n>>).waits = w.waits /\ Enqueued(w, <<n>>).open = w.open
          /\ Enqueued(w, <<n>>).tail = w.tail /\ Enqueued(w, <<n>>).batch = w.batch \o <<n>>
      BY <1>0, <3>2 DEF Writer
    <3>. QED BY <1>p, <1>0, <2>1, <3>1, <3>3
  <2>2. CASE ~w.open
    <3>1. panel' = [panel EXCEPT !.pending = Append(panel.pending, n)] /\ writers' = writers
      BY <1>0, <1>1, <2>2 DEF Type
    <3>2. Append(panel.pending, n) \in Seq(Nat)
      BY <1>0, <1>1
    <3>. QED BY <1>p, <1>0, <2>2, <3>1, <3>2 DEF Panel
  <2>. QED BY <2>1, <2>2
<1>8. PanelTypes'
  BY <1>0, <1>1, <1>2, <1>7 DEF PanelTypes
<1>9. OneWay'
  BY <1>p, <1>0, <1>1, <1>7 DEF OneWay
<1>10. Pended(p)' = panel'.pending /\ \A q \in Procs \ {p} : Pended(q)' = Pended(q)
  BY <1>p, <1>7 DEF Pended
<1>11. FlowTo(p)' /\ KeysTo(p)' \subseteq KeysTo(p) \cup {n}
  <2>. HIDE DEF n
  <2>1. CASE w.open
    <3>1. panel.pending = <<>>
      BY <1>p, <1>0, <2>1 DEF OneWay
    <3>. QED BY <1>1, <1>6, <1>7, <1>10, <2>1, <3>1 DEF FlowTo, KeysTo
  <2>2. CASE ~w.open
    BY <1>1, <1>6, <1>7, <1>10, <2>2 DEF FlowTo, KeysTo
  <2>. QED BY <2>1, <2>2
<1>12. \A q \in Procs \ {p} : FlowTo(q)' /\ KeysTo(q)' = KeysTo(q)
  <2>1. \A q \in Procs : FlowTo(q)
    BY <1>0 DEF FlowsInOrder
  <2>. QED BY <1>1, <1>7, <1>10, <2>1 DEF FlowTo, KeysTo
<1>13. FlowsInOrder'
  <2>1. ASSUME NEW q \in Procs
        PROVE  FlowTo(q)' /\ KeysTo(q)' \subseteq ToSet(typed'[q]) /\ \A k \in ToSet(typed'[q]) : k <= acts'
    <3>1. KeysTo(q) \subseteq ToSet(typed[q])
      BY <1>0 DEF FlowsInOrder
    <3>2. \A k \in ToSet(typed[q]) : k <= n
      BY <1>0, <1>3
    <3>3. CASE q = p
      <4>. HIDE DEF n
      <4>1. ToSet(typed'[q]) = ToSet(typed[q]) \cup {n}
        BY <1>2, <3>3
      <4>2. \A k \in ToSet(typed'[q]) : k <= acts'
        BY <1>1, <3>2, <4>1
      <4>. QED BY <1>11, <3>1, <3>3, <4>1, <4>2
    <3>4. CASE q # p
      BY <1>1, <1>2, <1>12, <3>1, <3>2, <3>4
    <3>. QED BY <3>3, <3>4
  <2>. QED BY <2>1 DEF FlowsInOrder
<1>. QED BY <1>8, <1>9, <1>13 DEF PanelInv

LEMMA PanelKeeps ==
  ASSUME PanelInv, [PanelNext]_panelVars, "late" \notin PanelRaces
  PROVE  PanelInv'
<1>1. CASE UNCHANGED panelVars
  <2>1. UNCHANGED <<host, news, socket, wire, old, calls, panel, writers, size, typed, acts>>
    BY <1>1 DEF panelVars
  <2>. QED BY <2>1, MovesNothing DEF PanelInv, PanelTypes
<1>2. CASE HostReadsLate
  BY <1>2 DEF HostReadsLate, PanelInv, PanelTypes
<1>3. CASE \E call \in calls : HostServes(call) \/ CallFails(call)
  BY <1>3, ServesKeep
<1>4. CASE \E p \in Procs : Microtask(p) \/ InputSends(p)
  BY <1>4, MicrotasksKeep, SendsKeep
<1>. QED
  BY <1>1, <1>2, <1>3, <1>4, ReadsKeep, EndsKeep, BreaksKeep, PhasesKeep, SizesKeep, AnsweredKeep,
     AttachesKeep, NewsKeeps, TypingKeeps DEF PanelNext, PanelSteady

(* What a process gets is what was typed at it, in that order and once, over socket, *)
(* calls, lost connections and changes of process; unless the host still reads from  *)
(* a lost socket after it has served newer calls.                                  *)
THEOREM InputArrivesInOrder ==
  ASSUME "late" \notin PanelRaces
  PROVE  PanelSpec => []InputInOrder
<1>1. PanelInv => InputInOrder
  <2>. SUFFICES ASSUME PanelInv, NEW p \in Procs
                PROVE  /\ ToSet(host.got[p]) \subseteq ToSet(typed[p])
                       /\ \A i, j \in DOMAIN host.got[p] : i < j => host.got[p][i] < host.got[p][j]
    BY DEF InputInOrder
  <2>1. FlowTo(p) /\ KeysTo(p) \subseteq ToSet(typed[p])
    BY DEF PanelInv, FlowsInOrder
  <2>. QED BY <2>1 DEF FlowTo, KeysTo, Flow, AllKeys, Increasing
<1>. QED BY <1>1, PanelInitially, PanelKeeps, PTL DEF PanelSpec

-----------------------------------------------------------------------------
(* What the panel and the host agree on at rest.                                *)

(* A process that has ended.                                                    *)
Over(p) == p < host.n \/ (p = host.n /\ ~host.up)
Status == IF host.up THEN "running" ELSE "exited"

(* The news only speak of later and later processes, and say of none that it ended *)
(* unless it did; the last of them is the present state, which the panel has when   *)
(* there are none.                                                               *)
Told(m) ==
    /\ panel.pty <= m.pty /\ m.pty <= host.n
    /\ m.kind = "exit" => Over(m.pty)
    /\ m.kind = "update" /\ m.status = "exited" => Over(m.pty)
Shown ==
    /\ panel.pty = host.n
    /\ panel.phase = "connected" /\ ~host.up => panel.display = "exited"
    /\ panel.phase = "replaying" /\ panel.answer = "running" => host.up
NewsTrue ==
    /\ ~socket => news = <<>>
    /\ \A i \in DOMAIN news : Told(news[i])
    /\ \A i, j \in DOMAIN news : i < j => news[i].pty <= news[j].pty
    /\ news # <<>> => news[Len(news)] = [kind |-> "update", pty |-> host.n, status |-> Status]
    /\ socket /\ news = <<>> => Shown
DisplayTrue ==
    /\ panel.pty <= host.n
    /\ panel.phase = "connected" /\ panel.display = "exited" => Over(panel.pty)
    /\ panel.phase # "over" => panel.display # "failed"
    /\ panel.phase = "over" => panel.display # "running"

(* What was typed is on its way, has arrived, or was given up.                    *)
KeysKept ==
    /\ panel.phase = "connected" => writers[panel.pty].open
    /\ \A p \in Procs : ToSet(typed[p]) \subseteq KeysTo(p) \cup lost.keys

(* The requests that carry a size of one process.                                *)
Sizes(q, p) == {i \in DOMAIN q : q[i].kind = "resize" /\ q[i].pty = p}
SizeCalls(some, p) == {c \in some : c.kind = "resize" /\ c.pty = p}

(* The instance has sent its size once at a time in a call, one after the other on  *)
(* the socket; the last size it sent is the one its host has or gets, or was lost.   *)
SizesPast ==
    \A p \in Procs : p > panel.pty => Sizes(wire, p) = {} /\ SizeCalls(calls, p) = {}
SizesSent ==
    /\ panel.phase # "connected" => panel.resizing = "no" /\ panel.sent = 0 /\ Sizes(wire, panel.pty) = {}
    /\ SizeCalls(calls, panel.pty) # {} => panel.resizing = "waits"
    /\ panel.resizing = "waits" => Sizes(wire, panel.pty) = {}
    /\ \A c, d \in SizeCalls(calls, panel.pty) : c = d /\ c.what = panel.sent
    /\ panel.resizing # "due" =>
         \A i \in Sizes(wire, panel.pty) : (\A j \in Sizes(wire, panel.pty) : j <= i) => wire[i].what = panel.sent
    /\ panel.phase = "connected" /\ panel.resizing = "no" => panel.sent = size
SizeArrives ==
    panel.resizing # "due" /\ panel.sent # 0 /\ ~Over(panel.pty) =>
        \/ lost.size
        \/ Sizes(wire, panel.pty) # {}
        \/ \E c \in SizeCalls(calls, panel.pty) : ~c.answered
        \/ host.size[panel.pty] = panel.sent

Lost == [keys : SUBSET Nat, size : BOOLEAN]
NewsInv == NewsTrue /\ DisplayTrue
SizesInv == SizesPast /\ SizesSent /\ SizeArrives
AgreeInv == PanelInv /\ NewsInv /\ lost \in Lost /\ KeysKept /\ SizesInv

(* What the panel is shown.                                                      *)

LEMMA NewsFrame ==
  ASSUME NewsInv, UNCHANGED <<socket, news>>, host'.n = host.n, host'.up = host.up,
         panel'.pty = panel.pty, panel'.phase = panel.phase, panel'.answer = panel.answer,
         panel'.display = panel.display
  PROVE  NewsInv'
BY DEF NewsInv, NewsTrue, DisplayTrue, Told, Shown, Over, Status

\* A request leaves the host's process alone.
LEMMA CarriedProcess ==
  ASSUME PanelTypes, NEW r \in Request \cup Call
  PROVE  Carried(host, r).n = host.n /\ Carried(host, r).up = host.up
<1>1. host \in [n : Procs, up : BOOLEAN, got : [Procs -> Seq(Nat)], size : [Procs -> Nat]]
  BY DEF PanelTypes
<1>. QED BY <1>1 DEF Carried

LEMMA SizesShowNothing ==
  ASSUME PanelTypes, size' \in Nat, NEW p \in Panel
  PROVE  /\ Resized(p).phase = p.phase /\ Resized(p).answer = p.answer /\ Resized(p).display = p.display
         /\ Settle(p).phase = p.phase /\ Settle(p).answer = p.answer /\ Settle(p).display = p.display
BY DEF Resized, Settle, Panel

LEMMA QuietNews ==
  ASSUME PanelInv, NewsInv,
         \/ HostReads \/ (\E c \in calls : HostServes(c) \/ CallFails(c)) \/ ResizeSends \/ ResizeAnswered
         \/ (\E p \in Procs : Microtask(p) \/ InputSends(p)) \/ InputAnswered \/ Type \/ Layout
         \/ UNCHANGED panelVars
  PROVE  NewsInv'
<1>0. /\ PanelTypes /\ panel \in Panel /\ wire \in Seq(Request) /\ calls \in SUBSET Call /\ size \in Nat
  BY DEF PanelInv, PanelTypes
<1>1. UNCHANGED <<socket, news>>
  BY DEF HostReads, HostServes, CallFails, ResizeSends, ResizeAnswered, Microtask, InputSends, InputAnswered,
         Type, Layout, links, bounds, panelVars
<1>2. host'.n = host.n /\ host'.up = host.up
  <2>1. CASE HostReads
    <3>1. Head(wire) \in Request /\ host' = Carried(host, Head(wire))
      BY <1>0, <2>1 DEF HostReads
    <3>. QED BY <1>0, <3>1, CarriedProcess
  <2>2. CASE \E c \in calls : HostServes(c)
    <3>1. PICK c \in calls : host' = Carried(host, c)
      BY <2>2 DEF HostServes
    <3>. QED BY <1>0, <3>1, CarriedProcess
  <2>3. CASE UNCHANGED host
    BY <2>3
  <2>. QED
    BY <2>1, <2>2, <2>3 DEF CallFails, ResizeSends, ResizeAnswered, Microtask, InputSends, InputAnswered,
       Type, Layout, links, bounds, panelVars
<1>3. /\ panel'.pty = panel.pty /\ panel'.phase = panel.phase /\ panel'.answer = panel.answer
      /\ panel'.display = panel.display
  <2>1. CASE panel' = panel
    BY <2>1
  <2>2. CASE ResizeSends \/ ResizeAnswered
    <3>1. size' \in Nat /\ panel' \in {panel, Settle(panel), [panel EXCEPT !.resizing = "waits"]}
      BY <1>0, <2>2 DEF ResizeSends, ResizeAnswered
    <3>2. LET w == [panel EXCEPT !.resizing = "waits"] IN
          w.pty = panel.pty /\ w.phase = panel.phase /\ w.answer = panel.answer /\ w.display = panel.display
      BY <1>0 DEF Panel
    <3>3. LET w == Settle(panel) IN
          w.pty = panel.pty /\ w.phase = panel.phase /\ w.answer = panel.answer /\ w.display = panel.display
      BY <1>0, <3>1, SizesShowNothing, ResizedTyped
    <3>. QED BY <3>1, <3>2, <3>3
  <2>3. CASE Layout
    <3>1. size' \in Nat /\ panel' = Resized(panel)
      BY <1>0, <2>3, PanelBounds DEF Layout
    <3>. QED BY <1>0, <3>1, SizesShowNothing, ResizedTyped
  <2>4. CASE Type
    BY <1>0, <2>4 DEF Type, Panel
  <2>. QED
    BY <2>1, <2>2, <2>3, <2>4 DEF HostReads, HostServes, CallFails, Microtask, InputSends, InputAnswered,
       links, bounds, panelVars
<1>. QED BY <1>1, <1>2, <1>3, NewsFrame

\* The instance goes on.
LEMMA PhasesNews ==
  ASSUME PanelInv, NewsInv, SurfaceReady \/ HostAttaches \/ AttachDone
  PROVE  NewsInv'
<1>0. /\ PanelTypes /\ panel \in Panel /\ size \in Nat
  BY DEF PanelInv, PanelTypes
<1>1. UNCHANGED <<socket, news, host>>
  BY DEF SurfaceReady, HostAttaches, AttachDone, links
<1>2. CASE SurfaceReady
  <2>1. /\ panel.phase = "surface" /\ panel'.pty = panel.pty /\ panel'.phase = "asked"
        /\ panel'.display = panel.display
    BY <1>0, <1>2 DEF SurfaceReady, Panel
  <2>. QED BY <1>1, <2>1 DEF NewsInv, NewsTrue, DisplayTrue, Told, Shown, Over, Status
<1>3. CASE HostAttaches
  <2>1. /\ panel.phase = "asked" /\ panel'.pty = panel.pty /\ panel'.phase = "replaying"
        /\ panel'.display = panel.display /\ (panel'.answer = "running" => host.up)
    BY <1>0, <1>3 DEF HostAttaches, Panel
  <2>. QED BY <1>1, <2>1 DEF NewsInv, NewsTrue, DisplayTrue, Told, Shown, Over, Status
<1>4. CASE AttachDone /\ panel.answer = "running"
  <2> DEFINE ready == [panel EXCEPT !.phase = "connected", !.display = "running", !.pending = <<>>]
  <2>1. /\ ready \in Panel /\ ready.pty = panel.pty /\ ready.phase = "connected" /\ ready.display = "running"
    <3>1. <<>> \in Seq(Nat)
      OBVIOUS
    <3>. QED BY <1>0, <3>1 DEF Panel
  <2>2. panel' = Resized(ready) /\ size' \in Nat /\ panel.phase = "replaying"
    BY <1>0, <1>4 DEF AttachDone, Connected
  <2>. HIDE DEF ready
  <2>3. panel'.pty = panel.pty /\ panel'.phase = "connected" /\ panel'.display = "running"
    BY <1>0, <2>1, <2>2, ResizedTyped, SizesShowNothing
  <2>. QED BY <1>1, <1>4, <2>2, <2>3 DEF NewsInv, NewsTrue, DisplayTrue, Told, Shown, Over, Status
<1>5. CASE AttachDone /\ panel.answer # "running"
  <2>1. /\ panel'.pty = panel.pty /\ panel'.phase = "over" /\ panel'.display \in {"failed", "exited"}
    BY <1>0, <1>5 DEF AttachDone, Panel
  <2>. QED BY <1>1, <2>1 DEF NewsInv, NewsTrue, DisplayTrue, Told, Shown, Over, Status
<1>. QED BY <1>2, <1>3, <1>4, <1>5

\* The process ends, or another takes its place; the socket is lost and found.
LEMMA TwoMore ==
  ASSUME NEW s \in Seq(Message), NEW a \in Message, NEW b \in Message
  PROVE  /\ DOMAIN (s \o <<a, b>>) = 1..Len(s) + 2 /\ Len(s \o <<a, b>>) = Len(s) + 2
         /\ \A i \in DOMAIN s : (s \o <<a, b>>)[i] = s[i]
         /\ (s \o <<a, b>>)[Len(s) + 1] = a /\ (s \o <<a, b>>)[Len(s) + 2] = b
         /\ DOMAIN s = 1..Len(s) /\ Len(s) \in Nat /\ s \o <<a, b>> # <<>>
OBVIOUS

LEMMA EndsNews ==
  ASSUME PanelInv, NewsInv, Exit \/ Restart
  PROVE  NewsInv'
<1>0. /\ PanelTypes /\ panel \in Panel /\ news \in Seq(Message) /\ host.n \in Procs /\ host.n \in Nat
      /\ host \in [n : Procs, up : BOOLEAN, got : [Procs -> Seq(Nat)], size : [Procs -> Nat]]
      /\ panel.pty \in Nat /\ socket \in BOOLEAN
  BY DEF PanelInv, PanelTypes, Panel, Procs
<1>1. UNCHANGED <<socket, panel>>
  BY DEF Exit, Restart, links
<1>2. PICK n \in Procs, up \in BOOLEAN :
        /\ host'.n = n /\ host'.up = up
        /\ (n = host.n /\ ~up) \/ (n = host.n + 1 /\ up)
  <2>1. Exit => host'.n = host.n /\ host'.up = FALSE
    BY <1>0 DEF Exit
  <2>2. Restart => host.n + 1 \in Procs /\ host'.n = host.n + 1 /\ host'.up = TRUE
    BY <1>0, PanelBounds DEF Restart, Procs
  <2>. QED BY <1>0, <2>1, <2>2
<1>3. \A p \in Nat : Over(p) => Over(p)'
  BY <1>0, <1>2 DEF Over
<1>4. \A p \in Nat : p = host.n => Over(p)'
  BY <1>0, <1>2 DEF Over
<1>5. n \in Nat /\ host.n <= n
  BY <1>0, <1>2
<1>6. DisplayTrue'
  BY <1>0, <1>1, <1>2, <1>3, <1>5 DEF NewsInv, DisplayTrue
<1>7. CASE ~socket
  <2>1. news' = news
    BY <1>7 DEF Exit, Restart, Tell
  <2>2. news = <<>>
    BY <1>7 DEF NewsInv, NewsTrue
  <2>. QED BY <1>1, <1>6, <1>7, <2>1, <2>2 DEF NewsInv, NewsTrue
<1>8. CASE socket
  <2>1. PICK a \in Message, b \in Message :
          /\ news' = news \o <<a, b>> /\ a.pty = host.n /\ a.kind = "exit"
          /\ b = [kind |-> "update", pty |-> n, status |-> IF up THEN "running" ELSE "exited"]
    <3>1. CASE Exit
      <4>1. news' = news \o Ended(host.n) /\ n = host.n /\ ~up
        BY <1>0, <1>2, <1>8, <3>1 DEF Exit, Tell
      <4>. QED BY <1>0, <4>1, MessagesTyped DEF Ended
    <3>2. CASE Restart
      <4>1. n = host.n + 1 /\ up
        BY <1>0, <1>2, <3>2 DEF Restart
      <4>2. news' = news \o <<[kind |-> "exit", pty |-> host.n],
                              [kind |-> "update", pty |-> n, status |-> "running"]>>
        BY <1>8, <3>2, <4>1 DEF Restart, Tell
      <4>. QED BY <1>0, <4>1, <4>2, MessagesTyped
    <3>. QED BY <3>1, <3>2
  <2>2. /\ DOMAIN news' = 1..Len(news) + 2 /\ Len(news') = Len(news) + 2
        /\ \A i \in DOMAIN news : news'[i] = news[i]
        /\ news'[Len(news) + 1] = a /\ news'[Len(news) + 2] = b
        /\ DOMAIN news = 1..Len(news) /\ Len(news) \in Nat /\ news' # <<>>
    BY <1>0, <2>1, TwoMore
  <2>3. b.pty = n /\ b.kind = "update" /\ (b.status = "exited" => ~up)
    BY <2>1
  <2>4. ASSUME NEW i \in DOMAIN news', NEW m \in Message, m = news'[i] PROVE Told(m)'
    <3>1. CASE i \in DOMAIN news
      <4>1. m = news[i]
        BY <2>2, <2>4, <3>1
      <4>2. Told(m)
        BY <3>1, <4>1 DEF NewsInv, NewsTrue
      <4>3. m.pty \in Nat
        BY DEF Message, Procs
      <4>. QED BY <1>0, <1>1, <1>2, <1>3, <1>5, <4>1, <4>2, <4>3 DEF Told
    <3>2. CASE i = Len(news) + 1
      <4>1. a.kind # "update"
        BY <2>1
      <4>2. m = a
        BY <2>2, <2>4, <3>2
      <4>3. Over(m.pty)'
        BY <1>0, <1>4, <2>1, <4>2
      <4>. QED BY <1>0, <1>1, <1>2, <1>5, <2>1, <4>1, <4>2, <4>3 DEF Told, NewsInv, DisplayTrue
    <3>3. CASE i = Len(news) + 2
      <4>1. ~up => Over(n)'
        BY <1>2 DEF Over
      <4>2. panel.pty <= n
        BY <1>0, <1>5 DEF NewsInv, DisplayTrue
      <4>3. m = b
        BY <2>2, <2>4, <3>3
      <4>. QED BY <1>1, <1>2, <1>5, <2>3, <4>1, <4>2, <4>3 DEF Told
    <3>. QED BY <2>2, <3>1, <3>2, <3>3
  <2>5. ASSUME NEW i \in DOMAIN news', NEW j \in DOMAIN news', i < j PROVE news'[i].pty <= news'[j].pty
    <3>1. \A k \in DOMAIN news : news'[k].pty \in Nat /\ news'[k].pty <= host.n
      <4>1. \A k \in DOMAIN news : news[k] \in Message
        BY <1>0
      <4>. QED BY <2>2, <4>1 DEF NewsInv, NewsTrue, Told, Message, Procs
    <3>2. CASE j \in DOMAIN news
      <4>1. i \in DOMAIN news
        BY <2>2, <2>5, <3>2
      <4>. QED BY <2>2, <2>5, <3>2, <4>1 DEF NewsInv, NewsTrue
    <3>3. CASE j = Len(news) + 1
      <4>1. i \in DOMAIN news
        BY <2>2, <2>5, <3>3
      <4>. QED BY <2>1, <2>2, <3>1, <3>3, <4>1
    <3>4. CASE j = Len(news) + 2
      <4>1. i \in DOMAIN news \/ i = Len(news) + 1
        BY <2>2, <2>5, <3>4
      <4>. QED BY <1>0, <1>5, <2>1, <2>2, <2>3, <3>1, <3>4, <4>1
    <3>. QED BY <2>2, <3>2, <3>3, <3>4
  <2>6. NewsTrue'
    <3>1. \A i \in DOMAIN news' : news'[i] \in Message
      BY <1>0, <2>1, <2>2
    <3>2. (\A i \in DOMAIN news : Told(news[i]))'
      BY <2>4, <3>1 DEF Told
    <3>3. news'[Len(news')] = [kind |-> "update", pty |-> n, status |-> IF up THEN "running" ELSE "exited"]
      BY <2>1, <2>2
    <3>. QED BY <1>1, <1>2, <1>8, <2>2, <2>5, <3>2, <3>3 DEF NewsTrue, Status
  <2>. QED BY <1>6, <2>6 DEF NewsInv
<1>. QED BY <1>0, <1>7, <1>8

LEMMA SocketNews ==
  ASSUME PanelInv, NewsInv, Disconnect \/ Reconnect
  PROVE  NewsInv'
<1>0. /\ PanelTypes /\ panel \in Panel /\ host.n \in Nat /\ panel.pty \in Nat
  BY DEF PanelInv, PanelTypes, Panel, Procs
<1>1. CASE Disconnect
  <2>1. ~socket' /\ news' = <<>> /\ UNCHANGED host
    BY <1>1 DEF Disconnect
  <2>2. panel'.pty = panel.pty /\ (panel' = panel \/ (panel'.phase = "over" /\ panel'.display = "failed"))
    BY <1>0, <1>1 DEF Disconnect, Panel
  <2>. QED BY <2>1, <2>2 DEF NewsInv, NewsTrue, DisplayTrue, Told, Over
<1>2. CASE Reconnect
  <2>1. UNCHANGED <<host, panel>> /\ socket'
    BY <1>2 DEF Reconnect
  <2>2. PICK m : m = [kind |-> "update", pty |-> host.n, status |-> Status] /\ news' = <<m>>
    BY <1>2 DEF Reconnect, Status
  <2>3. DOMAIN news' = {1} /\ Len(news') = 1 /\ news'[1] = m /\ news' # <<>>
    BY <2>2
  <2>4. Told(m)'
    BY <1>0, <2>1, <2>2 DEF NewsInv, DisplayTrue, Told, Over, Status
  <2>. QED BY <2>1, <2>2, <2>3, <2>4 DEF NewsInv, NewsTrue, DisplayTrue, Over, Status
<1>. QED BY <1>1, <1>2

LEMMA ReadNews ==
  ASSUME PanelInv, NewsInv, News, PanelRaces = {}
  PROVE  NewsInv'
<1>0. /\ PanelTypes /\ panel \in Panel /\ news \in Seq(Message) /\ host.n \in Nat /\ panel.pty \in Nat
  BY DEF PanelInv, PanelTypes, Panel, Procs
<1>1. /\ news # <<>> /\ news' = Tail(news) /\ UNCHANGED <<host, socket>>
  BY DEF News, links
<1>2. PICK m \in Message : m = Head(news) /\ m = news[1]
  BY <1>0, <1>1
<1>3. /\ DOMAIN news = 1..Len(news) /\ Len(news) \in Nat /\ Len(news') = Len(news) - 1
      /\ DOMAIN news' = 1..Len(news) - 1 /\ \A i \in DOMAIN news' : news'[i] = news[i + 1]
      /\ 1 \in DOMAIN news /\ (news' = <<>> <=> Len(news) = 1)
  <2>1. /\ DOMAIN news = 1..Len(news) /\ Len(news) \in Nat /\ Len(news) >= 1 /\ news' \in Seq(Message)
    BY <1>0, <1>1
  <2>2. /\ Len(news') = Len(news) - 1 /\ DOMAIN news' = 1..Len(news')
        /\ \A i \in 1..Len(news) - 1 : news'[i] = news[i + 1]
    BY <1>0, <1>1
  <2>3. news' = <<>> <=> Len(news') = 0
    BY <2>1
  <2>. QED BY <2>1, <2>2, <2>3
<1>4. Told(m) /\ m.pty \in Nat
  BY <1>2, <1>3 DEF NewsInv, NewsTrue, Message, Procs
<1>5. \A i \in DOMAIN news' : i + 1 \in DOMAIN news /\ Told(news'[i]) /\ m.pty <= news'[i].pty
  <2>1. \A i \in DOMAIN news' : i + 1 \in DOMAIN news /\ 1 < i + 1
    BY <1>3
  <2>. QED BY <1>2, <1>3, <2>1 DEF NewsInv, NewsTrue
<1>6. \A i, j \in DOMAIN news' : i < j => news'[i].pty <= news'[j].pty
  <2>1. \A i, j \in DOMAIN news' : i < j => i + 1 < j + 1
    BY <1>3
  <2>. QED BY <1>3, <1>5, <2>1 DEF NewsInv, NewsTrue
<1>7. /\ news' # <<>> => news'[Len(news')] = [kind |-> "update", pty |-> host.n, status |-> Status]
      /\ news' = <<>> => m = [kind |-> "update", pty |-> host.n, status |-> Status]
  <2>1. news[Len(news)] = [kind |-> "update", pty |-> host.n, status |-> Status]
    BY <1>1 DEF NewsInv, NewsTrue
  <2>2. news' # <<>> => Len(news') \in DOMAIN news' /\ Len(news') + 1 = Len(news)
    BY <1>3
  <2>. QED BY <1>2, <1>3, <2>1, <2>2
<1>8. panel'.pty \in Nat /\ panel'.pty \in {panel.pty, m.pty} /\ (socket /\ news' = <<>> => Shown')
      /\ DisplayTrue'
  <2>1. CASE m.kind = "exit"
    <3>1. panel' = IF panel.phase = "connected" /\ panel.pty = m.pty THEN [panel EXCEPT !.display = "exited"] ELSE panel
      BY <1>2, <2>1 DEF News
    <3>2. news' # <<>>
      BY <1>7, <2>1
    <3>3. /\ panel'.pty = panel.pty /\ panel'.phase = panel.phase
          /\ panel'.display = panel.display
             \/ (panel.phase = "connected" /\ panel.pty = m.pty /\ panel'.display = "exited")
      BY <1>0, <3>1 DEF Panel
    <3>. QED BY <1>0, <1>1, <1>4, <2>1, <3>2, <3>3 DEF NewsInv, DisplayTrue, Told, Over
  <2>2. CASE m.kind # "exit" /\ m.pty = panel.pty
    <3>1. /\ panel.phase = "replaying" /\ panel.answer = "running" => m.status # "exited"
          /\ panel' = IF m.status = "exited" THEN [panel EXCEPT !.display = "exited"] ELSE panel
      BY <1>2, <2>2 DEF News
    <3>2. /\ panel'.pty = panel.pty /\ panel'.phase = panel.phase /\ panel'.answer = panel.answer
          /\ panel'.display = IF m.status = "exited" THEN "exited" ELSE panel.display
      BY <1>0, <3>1 DEF Panel
    <3>3. m.kind = "update" /\ m.status \in {"running", "exited"}
      BY <2>2 DEF Message
    <3>4. DisplayTrue'
      BY <1>0, <1>1, <1>4, <2>2, <3>2, <3>3 DEF NewsInv, DisplayTrue, Told, Over
    <3>5. ASSUME socket, news' = <<>> PROVE Shown'
      <4>1. m = [kind |-> "update", pty |-> host.n, status |-> Status]
        BY <1>7, <3>5
      <4>2. m.pty = host.n /\ m.status = Status
        BY <4>1
      <4>. QED BY <1>1, <2>2, <3>1, <3>2, <4>2 DEF Shown, Status
    <3>. QED BY <1>0, <3>2, <3>4, <3>5
  <2>3. CASE m.kind # "exit" /\ m.pty # panel.pty
    <3>1. panel' = Instance(m.pty, m.status) /\ m.status \in {"running", "exited"}
      BY <1>2, <2>3 DEF News, Message
    <3>2. panel'.pty = m.pty /\ panel'.phase = "surface" /\ panel'.display = m.status
      BY <3>1 DEF Instance
    <3>3. m.pty <= host.n
      BY <1>4 DEF Told
    <3>. QED BY <1>1, <1>4, <1>7, <3>1, <3>2, <3>3 DEF Shown, DisplayTrue
  <2>. QED BY <2>1, <2>2, <2>3
<1>9. (\A i \in DOMAIN news : Told(news[i]))'
  <2>1. \A i \in DOMAIN news' : panel'.pty <= news'[i].pty
    BY <1>4, <1>5, <1>8 DEF Told
  <2>. QED BY <1>1, <1>5, <2>1 DEF Told, Over
<1>. QED BY <1>1, <1>6, <1>7, <1>8, <1>9 DEF NewsInv, NewsTrue, Status

(* Every key typed is somewhere.                                                 *)

\* Sets of keys by where they are; what a step must show of each process.
Under(p) == KeysIn(Chunks(wire, p)) \cup Held(Called(calls, p))
Queued(p) == KeysIn(writers[p].tail) \cup ToSet(writers[p].batch)

LEMMA KeyPlaces ==
  ASSUME NEW p \in Procs
  PROVE  KeysTo(p) = ToSet(host.got[p]) \cup Under(p) \cup Queued(p) \cup ToSet(Pended(p))
BY DEF KeysTo, AllKeys, Under, Queued

LEMMA KeysStep ==
  ASSUME KeysKept, UNCHANGED typed, lost.keys \subseteq lost'.keys,
         panel'.phase = "connected" => writers'[panel'.pty].open,
         \A p \in Procs :
            ToSet(host.got[p]) \cup Under(p) \cup Queued(p) \cup ToSet(Pended(p)) \subseteq
              ToSet(host'.got[p]) \cup Under(p)' \cup Queued(p)' \cup ToSet(Pended(p)') \cup lost'.keys
  PROVE  KeysKept'
<1>1. \A p \in Procs : KeysTo(p) \subseteq KeysTo(p)' \cup lost'.keys
  BY DEF KeysTo, AllKeys, Under, Queued
<1>. QED BY <1>1 DEF KeysKept

LEMMA KeysFrame ==
  ASSUME KeysKept, host'.got = host.got, UNCHANGED <<wire, calls, writers, typed>>,
         lost.keys \subseteq lost'.keys,
         panel'.pty = panel.pty, panel'.pending = panel.pending,
         panel'.phase = "connected" => panel.phase = "connected" \/ writers[panel.pty].open
  PROVE  KeysKept'
BY DEF KeysKept, KeysTo, Pended

LEMMA CarriedKeys ==
  ASSUME PanelTypes, lost \in Lost, NEW r \in Request \cup Call
  PROVE  /\ GivenUp(host, r) \in Lost /\ lost.keys \subseteq GivenUp(host, r).keys
         /\ \A p \in Procs : /\ ToSet(host.got[p]) \subseteq ToSet(Carried(host, r).got[p])
                             /\ ToSet(ChunkOf(r, p)) \subseteq ToSet(Carried(host, r).got[p]) \cup GivenUp(host, r).keys
<1>1. /\ host \in [n : Procs, up : BOOLEAN, got : [Procs -> Seq(Nat)], size : [Procs -> Nat]]
      /\ r.pty \in Procs
      /\ r.kind = "write" => r.what \in Seq(Nat)
  BY DEF PanelTypes, Request, Call
<1>2. Keys(r) \in SUBSET Nat /\ \A p \in Procs : ToSet(ChunkOf(r, p)) \subseteq Keys(r)
  BY <1>1 DEF Keys, ChunkOf, ToSet
<1>3. CASE host.n # r.pty \/ ~host.up
  <2>1. Carried(host, r) = host /\ GivenUp(host, r) = [lost EXCEPT !.keys = lost.keys \cup Keys(r)]
    BY <1>3 DEF Carried, GivenUp
  <2>2. GivenUp(host, r) \in Lost /\ GivenUp(host, r).keys = lost.keys \cup Keys(r)
    BY <1>2, <2>1 DEF Lost
  <2>. QED BY <1>2, <2>1, <2>2
<1>4. CASE host.n = r.pty /\ host.up
  <2>1. GivenUp(host, r) \in Lost /\ GivenUp(host, r).keys = lost.keys
    BY <1>4 DEF GivenUp, Lost
  <2>2. ASSUME NEW p \in Procs
        PROVE  ToSet(host.got[p]) \cup ToSet(ChunkOf(r, p)) \subseteq ToSet(Carried(host, r).got[p])
    <3>1. PICK g \in Seq(Nat) : g = host.got[p]
      BY <1>1
    <3>2. CASE r.kind = "write" /\ r.pty = p
      <4>1. Carried(host, r) = [host EXCEPT !.got[p] = host.got[p] \o r.what] /\ ChunkOf(r, p) = r.what
        BY <1>4, <3>2 DEF Carried, ChunkOf
      <4>2. Carried(host, r).got[p] = g \o r.what
        <5>1. Carried(host, r).got = [host.got EXCEPT ![p] = host.got[p] \o r.what]
          BY <1>1, <4>1
        <5>. QED BY <1>1, <3>1, <5>1
      <4>3. ToSet(g \o r.what) = ToSet(g) \cup ToSet(r.what)
        BY <1>1, <3>1, <3>2, Joined
      <4>. QED BY <3>1, <4>1, <4>2, <4>3
    <3>3. CASE ~(r.kind = "write" /\ r.pty = p)
      <4>1. ToSet(ChunkOf(r, p)) = {}
        BY <3>3 DEF ChunkOf, ToSet
      <4>2. Carried(host, r).got[p] = host.got[p]
        BY <1>1, <1>4, <3>3 DEF Carried
      <4>. QED BY <4>1, <4>2
    <3>. QED BY <3>2, <3>3
  <2>. QED BY <2>1, <2>2
<1>. QED BY <1>3, <1>4

LEMMA WireKeys ==
  ASSUME wire \in Seq(Request), NEW p \in Procs
  PROVE  /\ wire # <<>> => KeysIn(Chunks(wire, p)) = ToSet(ChunkOf(Head(wire), p)) \cup KeysIn(Chunks(Tail(wire), p))
         /\ \A r \in Request : KeysIn(Chunks(Append(wire, r), p)) = KeysIn(Chunks(wire, p)) \cup ToSet(ChunkOf(r, p))
<1>1. PICK q \in Seq(Seq(Nat)) : q = Chunks(wire, p)
  BY ChunksMove
<1>2. ASSUME wire # <<>>
      PROVE  KeysIn(Chunks(wire, p)) = ToSet(ChunkOf(Head(wire), p)) \cup KeysIn(Chunks(Tail(wire), p))
  <2>1. q # <<>> /\ Head(q) = ChunkOf(Head(wire), p) /\ Chunks(Tail(wire), p) = Tail(q)
    BY <1>1, <1>2, ChunksMove
  <2>2. KeysIn(q) = ToSet(Head(q)) \cup KeysIn(Tail(q))
    BY <2>1, FirstChunk
  <2>. QED BY <1>1, <2>1, <2>2
<1>3. ASSUME NEW r \in Request
      PROVE  KeysIn(Chunks(Append(wire, r), p)) = KeysIn(Chunks(wire, p)) \cup ToSet(ChunkOf(r, p))
  <2>1. ChunkOf(r, p) \in Seq(Nat)
    BY DEF ChunkOf, Request
  <2>2. Chunks(Append(wire, r), p) = Append(q, ChunkOf(r, p))
    BY <1>1, ChunksMove
  <2>. QED BY <1>1, <2>1, <2>2, LastChunk
<1>. QED BY <1>2, <1>3

\* The writers' queues lose nothing when a batch goes to the chain.
LEMMA FlushKeeps ==
  ASSUME NEW w \in Writer
  PROVE  /\ Flushed(w).open = w.open
         /\ KeysIn(w.tail) \cup ToSet(w.batch) = KeysIn(Flushed(w).tail) \cup ToSet(Flushed(w).batch)
<1>1. CASE w.batch = <<>>
  BY <1>1 DEF Flushed
<1>2. CASE w.batch # <<>>
  <2>1. Flushed(w) = [w EXCEPT !.batch = <<>>, !.tail = Append(w.tail, w.batch)]
    BY <1>2 DEF Flushed, Writer
  <2>2. Flushed(w).tail = Append(w.tail, w.batch) /\ Flushed(w).batch = <<>> /\ Flushed(w).open = w.open
    BY <2>1 DEF Writer
  <2>3. PICK T \in Seq(Seq(Nat)), b \in Seq(Nat) : T = w.tail /\ b = w.batch
    BY DEF Writer
  <2>4. KeysIn(Append(T, b)) = KeysIn(T) \cup ToSet(b)
    BY LastChunk
  <2>5. ToSet(<<>>) = {}
    BY DEF ToSet
  <2>. QED BY <2>2, <2>3, <2>4, <2>5
<1>. QED BY <1>1, <1>2

\* Requests are carried out, given up, or lost with the socket.
LEMMA HostKeys ==
  ASSUME PanelInv, lost \in Lost, KeysKept,
         HostReads \/ (\E c \in calls : HostServes(c) \/ CallFails(c))
  PROVE  KeysKept' /\ lost' \in Lost
<1>0. /\ PanelTypes /\ wire \in Seq(Request) /\ calls \in SUBSET Call
  BY DEF PanelInv, PanelTypes
<1>1. UNCHANGED <<panel, writers, typed>>
  BY DEF HostReads, HostServes, CallFails, bounds
<1>2. /\ \A p \in Procs : Queued(p)' = Queued(p) /\ Pended(p)' = Pended(p)
      /\ panel'.phase = "connected" => writers'[panel'.pty].open
  BY <1>1 DEF Queued, Pended, KeysKept
<1>3. CASE HostReads
  <2>1. /\ wire # <<>> /\ wire' = Tail(wire) /\ host' = Carried(host, Head(wire)) /\ lost' = GivenUp(host, Head(wire))
        /\ calls' = calls
    BY <1>3 DEF HostReads
  <2>2. Head(wire) \in Request
    BY <1>0, <2>1
  <2>3. /\ lost' \in Lost /\ lost.keys \subseteq lost'.keys
        /\ \A p \in Procs : /\ ToSet(host.got[p]) \subseteq ToSet(host'.got[p])
                            /\ ToSet(ChunkOf(Head(wire), p)) \subseteq ToSet(host'.got[p]) \cup lost'.keys
    BY <1>0, <2>1, <2>2, CarriedKeys
  <2>4. \A p \in Procs : Under(p) \subseteq Under(p)' \cup ToSet(ChunkOf(Head(wire), p))
    BY <1>0, <2>1, WireKeys DEF Under
  <2>. QED BY <1>1, <1>2, <2>3, <2>4, KeysStep
<1>4. CASE \E c \in calls : HostServes(c) \/ CallFails(c)
  <2>1. PICK c \in calls : HostServes(c) \/ CallFails(c)
    BY <1>4
  <2>2. calls' = (calls \ {c}) \cup {[c EXCEPT !.answered = TRUE]} /\ wire' = wire /\ ~c.answered
    BY <2>1 DEF HostServes, CallFails
  <2>3. /\ lost' \in Lost /\ lost.keys \subseteq lost'.keys
        /\ \A p \in Procs : /\ ToSet(host.got[p]) \subseteq ToSet(host'.got[p])
                            /\ ToSet(ChunkOf(c, p)) \subseteq ToSet(host'.got[p]) \cup lost'.keys
    <3>1. CASE HostServes(c)
      BY <1>0, <3>1, CarriedKeys DEF HostServes
    <3>2. CASE CallFails(c)
      <4>1. Keys(c) \in SUBSET Nat /\ \A p \in Procs : ToSet(ChunkOf(c, p)) \subseteq Keys(c)
        BY <1>0 DEF Keys, ChunkOf, ToSet, Call
      <4>2. /\ lost' = [keys |-> lost.keys \cup Keys(c), size |-> lost.size \/ c.kind = "resize"]
            /\ host' = host
        BY <3>2 DEF CallFails
      <4>3. lost' \in Lost /\ lost'.keys = lost.keys \cup Keys(c)
        BY <4>1, <4>2 DEF Lost
      <4>. QED BY <4>1, <4>2, <4>3
    <3>. QED BY <2>1, <3>1, <3>2
  <2>4. \A p \in Procs : Held(Called(calls, p)) \subseteq Held(Called(calls', p)) \cup ToSet(ChunkOf(c, p))
    <3>1. ASSUME NEW p \in Procs, NEW d \in WritesOf(calls, p), ~d.answered
          PROVE  d.what \in Called(calls', p) \/ d.what = ChunkOf(c, p)
      <4>1. CASE d = c
        BY <3>1, <4>1 DEF WritesOf, ChunkOf
      <4>2. CASE d # c
        BY <2>2, <3>1, <4>2 DEF WritesOf, Called
      <4>. QED BY <4>1, <4>2
    <3>2. \A p \in Procs : \A x \in Called(calls, p) : x \in Called(calls', p) \/ x = ChunkOf(c, p)
      BY <3>1 DEF Called
    <3>. QED BY <3>2 DEF Held
  <2>5. \A p \in Procs : Under(p) \subseteq Under(p)' \cup ToSet(ChunkOf(c, p))
    BY <2>2, <2>4 DEF Under
  <2>. QED BY <1>1, <1>2, <2>3, <2>5, KeysStep
<1>. QED BY <1>3, <1>4

LEMMA BreakKeys ==
  ASSUME PanelInv, lost \in Lost, KeysKept, Disconnect, PanelRaces = {}
  PROVE  KeysKept' /\ lost' \in Lost
<1>0. /\ PanelTypes /\ wire \in Seq(Request) /\ panel \in Panel
  BY DEF PanelInv, PanelTypes
<1>1. /\ wire' = <<>> /\ UNCHANGED <<host, calls, writers, typed>>
      /\ panel'.pty = panel.pty /\ panel'.pending = panel.pending
      /\ panel'.phase = "connected" => panel.phase = "connected"
  BY <1>0 DEF Disconnect, Panel
<1>2. lost' = [keys |-> lost.keys \cup UNION {Keys(wire[i]) : i \in DOMAIN wire},
               size |-> lost.size \/ \E i \in DOMAIN wire : wire[i].kind = "resize"]
  <2>1. PICK cut \in {SubSeq(wire, k + 1, Len(wire)) : k \in {0}} :
          lost' = [keys |-> lost.keys \cup UNION {Keys(cut[i]) : i \in DOMAIN cut},
                  size |-> lost.size \/ \E i \in DOMAIN cut : cut[i].kind = "resize"]
    <3>1. PICK k \in {0} :
            lost' = [keys |-> lost.keys \cup UNION {Keys(SubSeq(wire, k + 1, Len(wire))[i]) : i \in DOMAIN SubSeq(wire, k + 1, Len(wire))},
                     size |-> lost.size \/ \E i \in DOMAIN SubSeq(wire, k + 1, Len(wire)) : SubSeq(wire, k + 1, Len(wire))[i].kind = "resize"]
      BY DEF Disconnect
    <3>. QED BY <3>1
  <2>2. cut = wire
    BY <1>0, <2>1
  <2>. QED BY <2>1, <2>2
<1>3. \A i \in DOMAIN wire : Keys(wire[i]) \in SUBSET Nat
  <2>1. \A i \in DOMAIN wire : wire[i] \in Request
    BY <1>0
  <2>. QED BY <2>1 DEF Keys, Request, ToSet
<1>4. lost' \in Lost /\ lost'.keys = lost.keys \cup UNION {Keys(wire[i]) : i \in DOMAIN wire}
  BY <1>2, <1>3 DEF Lost
<1>5. ASSUME NEW p \in Procs PROVE KeysIn(Chunks(wire, p)) \subseteq lost'.keys
  <2>1. \A i \in DOMAIN wire : ToSet(ChunkOf(wire[i], p)) \subseteq Keys(wire[i])
    BY DEF Keys, ChunkOf, ToSet
  <2>. QED BY <1>4, <2>1 DEF KeysIn, Chunks
<1>6. \A p \in Procs : /\ Under(p) \subseteq Under(p)' \cup lost'.keys
                       /\ Queued(p)' = Queued(p) /\ Pended(p)' = Pended(p)
  BY <1>1, <1>5 DEF Under, Queued, Pended
<1>7. panel'.phase = "connected" => writers'[panel'.pty].open
  BY <1>1 DEF KeysKept
<1>. QED BY <1>1, <1>4, <1>6, <1>7, KeysStep

\* What the panel sends, and its answers.
LEMMA SendKeys ==
  ASSUME PanelInv, lost \in Lost, KeysKept, ResizeSends \/ ResizeAnswered \/ InputAnswered
  PROVE  KeysKept' /\ lost' \in Lost
<1>0. /\ PanelTypes /\ OneWay /\ wire \in Seq(Request) /\ calls \in SUBSET Call /\ panel \in Panel /\ size \in Nat
      /\ writers \in [Procs -> Writer]
  BY DEF PanelInv, PanelTypes
<1>1. UNCHANGED <<host, typed, lost>>
  BY DEF ResizeSends, ResizeAnswered, InputAnswered, bounds
<1>2. \A c \in calls \ calls' : c.kind = "write" => c.answered
  <2>1. ResizeSends => calls \subseteq calls'
    BY DEF ResizeSends, Send
  <2>. QED BY <2>1 DEF ResizeAnswered, InputAnswered
<1>3. \A p \in Procs : Called(calls, p) \subseteq Called(calls', p)
  BY <1>2 DEF Called, WritesOf
<1>4. \A p \in Procs : KeysIn(Chunks(wire, p)) \subseteq KeysIn(Chunks(wire', p))
  <2>1. panel.pty \in Procs /\ panel.sent \in Nat
    BY <1>0 DEF Panel
  <2>2. [kind |-> "resize", pty |-> panel.pty, what |-> panel.sent] \in Request
    BY <2>1 DEF Request
  <2>3. wire' \in {wire, Append(wire, [kind |-> "resize", pty |-> panel.pty, what |-> panel.sent])}
    BY DEF ResizeSends, Send, ResizeAnswered, InputAnswered
  <2>. QED BY <1>0, <2>2, <2>3, WireKeys
<1>5. \A p \in Procs : Under(p) \subseteq Under(p)'
  BY <1>3, <1>4 DEF Under, Held
<1>6. /\ panel'.pty = panel.pty /\ panel'.pending = panel.pending /\ panel'.phase = panel.phase
  <2>1. InputAnswered => panel' = panel
    BY DEF InputAnswered
  <2>2. ResizeSends \/ ResizeAnswered => size' \in Nat /\ panel' \in {panel, Settle(panel), [panel EXCEPT !.resizing = "waits"]}
    BY <1>0 DEF ResizeSends, ResizeAnswered
  <2>3. LET w == [panel EXCEPT !.resizing = "waits"] IN
          w.pty = panel.pty /\ w.phase = panel.phase /\ w.pending = panel.pending
    BY <1>0 DEF Panel
  <2>4. size' \in Nat => LET w == Settle(panel) IN
          w.pty = panel.pty /\ w.phase = panel.phase /\ w.pending = panel.pending
    BY <1>0, SizesShowNothing, ResizedTyped
  <2>. QED BY <2>1, <2>2, <2>3, <2>4
<1>7. \A p \in Procs : writers'[p].tail = writers[p].tail /\ writers'[p].batch = writers[p].batch
                         /\ writers'[p].open = writers[p].open
  <2>1. CASE writers' = writers
    BY <2>1
  <2>2. CASE InputAnswered
    <3>1. PICK q \in Procs : writers' = [writers EXCEPT ![q].waits = FALSE]
      BY <1>0, <2>2 DEF InputAnswered, Call
    <3>2. \A p \in Procs : writers'[p] \in {writers[p], [writers[p] EXCEPT !.waits = FALSE]}
      BY <1>0, <3>1
    <3>. QED BY <1>0, <3>2 DEF Writer
  <2>. QED BY <2>1, <2>2 DEF ResizeSends, ResizeAnswered
<1>8. \A p \in Procs : Queued(p)' = Queued(p) /\ Pended(p)' = Pended(p)
  BY <1>6, <1>7 DEF Queued, Pended
<1>9. panel'.phase = "connected" => writers'[panel'.pty].open
  BY <1>0, <1>6, <1>7 DEF KeysKept, Panel
<1>. QED BY <1>1, <1>5, <1>8, <1>9, KeysStep

LEMMA WriterSends ==
  ASSUME PanelInv, lost \in Lost, KeysKept, NEW p \in Procs, InputSends(p)
  PROVE  KeysKept' /\ lost' \in Lost
<1>0. /\ PanelTypes /\ wire \in Seq(Request) /\ calls \in SUBSET Call /\ panel.pty \in Procs
      /\ writers \in [Procs -> Writer]
  BY DEF PanelInv, PanelTypes, Panel
<1>1. PICK T \in Seq(Seq(Nat)) : T = writers[p].tail /\ T # <<>>
  BY <1>0 DEF InputSends, Writer
<1>2. Head(T) \in Seq(Nat) /\ KeysIn(T) = ToSet(Head(T)) \cup KeysIn(Tail(T))
  BY <1>1, FirstChunk
<1>3. PICK chunk \in Seq(Nat) : chunk = Head(T)
  BY <1>2
<1>4. PICK request \in Request, call \in Call :
        /\ request = [kind |-> "write", pty |-> p, what |-> chunk]
        /\ call = [kind |-> "write", pty |-> p, what |-> chunk, answered |-> FALSE]
  BY DEF Request, Call
<1>5. /\ UNCHANGED <<host, panel, typed, lost>>
      /\ \/ wire' = Append(wire, request) /\ calls' = calls
         \/ wire' = wire /\ calls' = calls \cup {call}
  BY <1>1, <1>3, <1>4 DEF InputSends, Send, bounds
<1>6. \A q \in Procs : /\ writers'[q].open = writers[q].open /\ writers'[q].batch = writers[q].batch
                       /\ q # p => writers'[q].tail = writers[q].tail
                       /\ q = p => writers'[q].tail = Tail(T)
  <2>1. writers' = [writers EXCEPT ![p] = [writers[p] EXCEPT !.tail = Tail(T), !.waits = ~socket]]
    BY <1>0, <1>1 DEF InputSends
  <2>. QED BY <1>0, <2>1 DEF Writer
<1>7. \A q \in Procs : Under(q) \subseteq Under(q)'
  <2>1. \A q \in Procs : KeysIn(Chunks(wire, q)) \subseteq KeysIn(Chunks(wire', q))
    BY <1>0, <1>5, WireKeys
  <2>2. \A q \in Procs : Called(calls, q) \subseteq Called(calls', q)
    BY <1>5 DEF Called, WritesOf
  <2>. QED BY <2>1, <2>2 DEF Under, Held
<1>8. ToSet(chunk) \subseteq Under(p)'
  <2>1. CASE wire' = Append(wire, request)
    <3>1. ChunkOf(request, p) = chunk
      BY <1>4 DEF ChunkOf
    <3>. QED BY <1>0, <2>1, <3>1, WireKeys DEF Under
  <2>2. CASE calls' = calls \cup {call}
    <3>1. call \in WritesOf(calls', p) /\ ~call.answered /\ call.what = chunk
      BY <1>4, <2>2 DEF WritesOf
    <3>2. chunk \in Called(calls', p)
      BY <3>1 DEF Called
    <3>. QED BY <3>2 DEF Under, Held
  <2>. QED BY <1>5, <2>1, <2>2
<1>9. \A q \in Procs : Queued(q) \subseteq Queued(q)' \cup Under(q)' /\ Pended(q)' = Pended(q)
  <2>1. \A q \in Procs : q # p => Queued(q)' = Queued(q)
    BY <1>6 DEF Queued
  <2>2. Queued(p) \subseteq Queued(p)' \cup Under(p)'
    BY <1>1, <1>2, <1>3, <1>6, <1>8 DEF Queued
  <2>. QED BY <1>5, <2>1, <2>2 DEF Pended
<1>10. panel'.phase = "connected" => writers'[panel'.pty].open
  BY <1>0, <1>5, <1>6 DEF KeysKept
<1>. QED BY <1>5, <1>7, <1>9, <1>10, KeysStep

\* One writer takes what it is given; what waits for a session is sent or given up.
LEMMA WriterKeys ==
  ASSUME PanelInv, lost \in Lost, lost' \in Lost, KeysKept, NEW p \in Procs, NEW w,
         writers' = [writers EXCEPT ![p] = w],
         UNCHANGED <<host, wire, calls, typed>>, lost.keys \subseteq lost'.keys,
         KeysIn(writers[p].tail) \cup ToSet(writers[p].batch) \subseteq KeysIn(w.tail) \cup ToSet(w.batch),
         \A q \in Procs : ToSet(Pended(q)) \subseteq ToSet(Pended(q)') \cup Queued(q)' \cup lost'.keys,
         panel'.phase = "connected" =>
           panel'.pty = panel.pty /\ (IF p = panel.pty THEN w.open ELSE panel.phase = "connected")
  PROVE  KeysKept'
<1>1. writers'[p] = w /\ \A q \in Procs \ {p} : writers'[q] = writers[q]
  BY DEF PanelInv, PanelTypes
<1>2. \A q \in Procs : Under(q)' = Under(q) /\ Queued(q) \subseteq Queued(q)'
  BY <1>1 DEF Under, Queued
<1>3. panel.pty \in Procs
  BY DEF PanelInv, PanelTypes, Panel
<1>4. panel'.phase = "connected" => writers'[panel'.pty].open
  BY <1>1, <1>3 DEF KeysKept
<1>. QED BY <1>2, <1>4, KeysStep

LEMMA FlushKeys ==
  ASSUME PanelInv, lost \in Lost, KeysKept, NEW p \in Procs, Microtask(p)
  PROVE  KeysKept' /\ lost' \in Lost
<1>0. writers[p] \in Writer
  BY DEF PanelInv, PanelTypes
<1>1. PICK w : w = Flushed(writers[p]) /\ writers' = [writers EXCEPT ![p] = w]
  BY DEF Microtask
<1>2. UNCHANGED <<host, wire, calls, panel, typed, lost>>
  BY DEF Microtask, links
<1>3. /\ w.open = writers[p].open
      /\ KeysIn(writers[p].tail) \cup ToSet(writers[p].batch) = KeysIn(w.tail) \cup ToSet(w.batch)
  BY <1>0, <1>1, FlushKeeps
<1>4. \A q \in Procs : Pended(q)' = Pended(q)
  BY <1>2 DEF Pended
<1>5. panel'.phase = "connected" =>
           panel'.pty = panel.pty /\ (IF p = panel.pty THEN w.open ELSE panel.phase = "connected")
  BY <1>2, <1>3 DEF KeysKept
<1>. QED BY <1>1, <1>2, <1>3, <1>4, <1>5, WriterKeys

LEMMA AttachKeys ==
  ASSUME PanelInv, lost \in Lost, KeysKept, AttachDone
  PROVE  KeysKept' /\ lost' \in Lost
<1>p. PICK p \in Procs : p = panel.pty
  BY DEF PanelInv, PanelTypes, Panel
<1>0. /\ PanelTypes /\ panel \in Panel /\ writers[p] \in Writer /\ size \in Nat
  BY DEF PanelInv, PanelTypes
<1>1. UNCHANGED <<host, wire, calls, typed, lost, size>>
  BY DEF AttachDone, links
<1>2. CASE panel.answer # "running"
  <2>1. UNCHANGED writers /\ panel'.pty = panel.pty /\ panel'.pending = panel.pending /\ panel'.phase = "over"
    BY <1>0, <1>2 DEF AttachDone, Panel
  <2>. QED BY <1>1, <2>1, KeysFrame
<1>3. CASE panel.answer = "running"
  <2>1. PICK took : took = Enqueued([writers[p] EXCEPT !.open = TRUE], panel.pending)
    OBVIOUS
  <2>2. PICK b \in Seq(Nat), d \in Seq(Nat) : b = writers[p].batch /\ d = panel.pending
    BY <1>0 DEF Writer, Panel
  <2>3. took \in Writer /\ took.open /\ took.tail = writers[p].tail /\ took.batch = b \o d
    <3>1. took = [writers[p] EXCEPT !.open = TRUE, !.batch = b \o d] /\ b \o d \in Seq(Nat)
      BY <1>0, <2>1, <2>2 DEF Enqueued, Writer
    <3>. QED BY <1>0, <3>1 DEF Writer
  <2>4. PICK w : w = Flushed(took) /\ writers' = [writers EXCEPT ![p] = w]
    BY <1>p, <1>3, <2>1 DEF AttachDone
  <2>5. w.open /\ KeysIn(w.tail) \cup ToSet(w.batch) = KeysIn(writers[p].tail) \cup ToSet(b \o d)
    BY <2>3, <2>4, FlushKeeps
  <2>6. ToSet(b \o d) = ToSet(b) \cup ToSet(d)
    BY Joined
  <2>7. panel'.pty = p
    <3> DEFINE ready == [panel EXCEPT !.phase = "connected", !.display = "running", !.pending = <<>>]
    <3>1. ready \in Panel /\ ready.pty = p
      <4>1. <<>> \in Seq(Nat)
        OBVIOUS
      <4>. QED BY <1>p, <1>0, <4>1 DEF Panel
    <3>2. panel' = Resized(ready) /\ size' \in Nat
      BY <1>0, <1>1, <1>3 DEF AttachDone, Connected
    <3>. HIDE DEF ready
    <3>. QED BY <1>0, <3>1, <3>2, ResizedTyped
  <2>8. writers'[p] = w
    BY <2>4 DEF PanelInv, PanelTypes
  <2>9. ASSUME NEW q \in Procs PROVE ToSet(Pended(q)) \subseteq ToSet(Pended(q)') \cup Queued(q)' \cup lost'.keys
    <3>1. CASE q = p
      BY <1>p, <2>2, <2>5, <2>6, <2>8, <3>1 DEF Pended, Queued
    <3>2. CASE q # p
      <4>1. ToSet(Pended(q)) = {}
        BY <1>p, <3>2 DEF Pended, ToSet
      <4>. QED BY <4>1
    <3>. QED BY <3>1, <3>2
  <2>. QED BY <1>p, <1>1, <2>2, <2>4, <2>5, <2>6, <2>7, <2>9, WriterKeys
<1>. QED BY <1>2, <1>3

LEMMA NewsKeys ==
  ASSUME PanelInv, lost \in Lost, KeysKept, News
  PROVE  KeysKept' /\ lost' \in Lost
<1>p. PICK p \in Procs : p = panel.pty
  BY DEF PanelInv, PanelTypes, Panel
<1>0. /\ PanelTypes /\ panel \in Panel /\ writers[p] \in Writer /\ news \in Seq(Message)
  BY DEF PanelInv, PanelTypes
<1>1. /\ UNCHANGED <<host, wire, calls, typed>> /\ news # <<>>
  BY DEF News, links
<1>2. PICK m : m = Head(news)
  OBVIOUS
<1>3. CASE m.kind = "exit" \/ m.pty = panel.pty
  <2>1. UNCHANGED <<writers, lost>> /\ panel' \in {panel, [panel EXCEPT !.display = "exited"]}
    BY <1>2, <1>3 DEF News
  <2>2. panel'.pty = panel.pty /\ panel'.pending = panel.pending /\ panel'.phase = panel.phase
    BY <1>0, <2>1 DEF Panel
  <2>. QED BY <1>1, <2>1, <2>2, KeysFrame
<1>4. CASE m.kind # "exit" /\ m.pty # panel.pty
  <2>1. /\ panel' = Instance(m.pty, m.status)
        /\ writers' = [writers EXCEPT ![p] = [Flushed(writers[p]) EXCEPT !.open = FALSE]]
        /\ lost' = [keys |-> lost.keys \cup ToSet(panel.pending), size |-> FALSE]
    BY <1>p, <1>2, <1>4 DEF News
  <2>2. PICK w : w = [Flushed(writers[p]) EXCEPT !.open = FALSE]
    OBVIOUS
  <2>3. w.tail = Flushed(writers[p]).tail /\ w.batch = Flushed(writers[p]).batch
    BY <1>0, <2>2 DEF Flushed, Writer
  <2>4. KeysIn(writers[p].tail) \cup ToSet(writers[p].batch) = KeysIn(w.tail) \cup ToSet(w.batch)
    BY <1>0, <2>3, FlushKeeps
  <2>5. panel'.phase = "surface"
    BY <2>1 DEF Instance
  <2>6. lost' \in Lost /\ lost'.keys = lost.keys \cup ToSet(panel.pending)
    <3>1. ToSet(panel.pending) \in SUBSET Nat
      <4>1. PICK d \in Seq(Nat) : d = panel.pending
        BY <1>0 DEF Panel
      <4>. QED BY <4>1 DEF ToSet
    <3>. QED BY <2>1, <3>1 DEF Lost
  <2>7. \A q \in Procs : ToSet(Pended(q)) \subseteq lost'.keys
    BY <2>6 DEF Pended, ToSet
  <2>. QED BY <1>1, <2>1, <2>2, <2>4, <2>5, <2>6, <2>7, WriterKeys
<1>. QED BY <1>3, <1>4

LEMMA TypedKeys ==
  ASSUME PanelInv, lost \in Lost, KeysKept, Type
  PROVE  KeysKept' /\ lost' \in Lost
<1>p. PICK p \in Procs : p = panel.pty
  BY DEF PanelInv, PanelTypes, Panel
<1>0. /\ PanelTypes /\ panel \in Panel /\ writers \in [Procs -> Writer] /\ typed \in [Procs -> Seq(Nat)] /\ acts \in Nat
  BY DEF PanelInv, PanelTypes
<1>1. PICK n \in Nat : n = acts' /\ n = acts + 1
  BY <1>0 DEF Type
<1>2. /\ UNCHANGED <<host, wire, calls, lost>> /\ typed' = [typed EXCEPT ![p] = Append(typed[p], n)]
  BY <1>p, <1>1 DEF Type, links
<1>3. \A q \in Procs : /\ q # p => typed'[q] = typed[q]
                       /\ q = p => ToSet(typed'[q]) = ToSet(typed[q]) \cup {n}
  <2>1. PICK s \in Seq(Nat) : s = typed[p]
    BY <1>0
  <2>2. typed'[p] = Append(s, n) /\ ToSet(Append(s, n)) = ToSet(s) \cup {n}
    BY <1>0, <1>2, <2>1, OneMore
  <2>. QED BY <1>0, <1>2, <2>1, <2>2
<1>4. PICK b \in Seq(Nat), d \in Seq(Nat) : b = writers[p].batch /\ d = panel.pending
  BY <1>0 DEF Writer, Panel
<1>5. /\ ToSet(b \o <<n>>) = ToSet(b) \cup {n} /\ ToSet(Append(d, n)) = ToSet(d) \cup {n}
  <2>1. b \o <<n>> = Append(b, n)
    OBVIOUS
  <2>. QED BY <2>1, OneMore
<1>6. /\ panel'.pty = panel.pty /\ panel'.phase = panel.phase
      /\ \A q \in Procs : /\ writers'[q].open = writers[q].open /\ writers'[q].tail = writers[q].tail
                          /\ q # p => writers'[q].batch = writers[q].batch
      /\ ToSet(writers[p].batch) \cup ToSet(panel.pending) \cup {n} \subseteq ToSet(writers'[p].batch) \cup ToSet(panel'.pending)
  <2>1. CASE writers[p].open
    <3>1. panel' = panel /\ writers' = [writers EXCEPT ![p] = [writers[p] EXCEPT !.batch = b \o <<n>>]]
      BY <1>p, <1>0, <1>1, <1>4, <2>1 DEF Type, Enqueued
    <3>2. \A q \in Procs : writers'[q] = IF q = p THEN [writers[p] EXCEPT !.batch = b \o <<n>>] ELSE writers[q]
      BY <1>0, <3>1
    <3>3. LET w == [writers[p] EXCEPT !.batch = b \o <<n>>] IN
            w.open = writers[p].open /\ w.tail = writers[p].tail /\ w.batch = b \o <<n>>
      BY <1>0 DEF Writer
    <3>. QED BY <1>4, <1>5, <3>1, <3>2, <3>3
  <2>2. CASE ~writers[p].open
    <3>1. writers' = writers /\ panel' = [panel EXCEPT !.pending = Append(d, n)]
      BY <1>p, <1>1, <1>4, <2>2 DEF Type
    <3>2. panel'.pty = panel.pty /\ panel'.phase = panel.phase /\ panel'.pending = Append(d, n)
      BY <1>0, <3>1 DEF Panel
    <3>. QED BY <1>4, <1>5, <3>1, <3>2
  <2>. QED BY <2>1, <2>2
<1>7. \A q \in Procs : q # p => KeysTo(q)' = KeysTo(q)
  BY <1>p, <1>2, <1>6 DEF KeysTo, Pended
<1>8. KeysTo(p) \cup {n} \subseteq KeysTo(p)'
  BY <1>p, <1>2, <1>6 DEF KeysTo, AllKeys, Pended
<1>9. panel'.phase = "connected" => writers'[panel'.pty].open
  BY <1>p, <1>6 DEF KeysKept
<1>. QED BY <1>2, <1>3, <1>7, <1>8, <1>9 DEF KeysKept

\* Steps that move no key.
LEMMA QuietKeys ==
  ASSUME PanelInv, lost \in Lost, KeysKept,
         SurfaceReady \/ HostAttaches \/ Layout \/ Exit \/ Restart \/ Reconnect \/ UNCHANGED panelVars
  PROVE  KeysKept' /\ lost' \in Lost
<1>0. /\ PanelTypes /\ panel \in Panel /\ size \in Nat
      /\ host \in [n : Procs, up : BOOLEAN, got : [Procs -> Seq(Nat)], size : [Procs -> Nat]]
  BY DEF PanelInv, PanelTypes
<1>1. UNCHANGED <<wire, calls, writers, typed, lost>>
  BY DEF SurfaceReady, HostAttaches, Layout, Exit, Restart, Reconnect, panelVars, links
<1>2. host'.got = host.got
  BY <1>0 DEF SurfaceReady, HostAttaches, Layout, Exit, Restart, Reconnect, panelVars
<1>3. /\ panel'.pty = panel.pty /\ panel'.pending = panel.pending
      /\ panel'.phase = "connected" => panel.phase = "connected"
  <2>1. CASE panel' = panel
    BY <2>1
  <2>2. CASE SurfaceReady \/ HostAttaches
    BY <1>0, <2>2 DEF SurfaceReady, HostAttaches, Panel
  <2>3. CASE Layout
    <3>1. size' \in Nat /\ panel' = Resized(panel)
      BY <1>0, <2>3, PanelBounds DEF Layout
    <3>. QED BY <1>0, <3>1, SizesShowNothing, ResizedTyped
  <2>. QED BY <2>1, <2>2, <2>3 DEF Exit, Restart, Reconnect, panelVars
<1>. QED BY <1>1, <1>2, <1>3, KeysFrame

(* The size of the surface.                                                      *)

\* A step that neither sends a size nor lets one arrive; the process may end.
LEMMA SizesFrame ==
  ASSUME PanelInv, SizesInv, UNCHANGED size, host'.size = host.size, lost'.size = lost.size,
         Over(panel.pty) => Over(panel.pty)',
         panel'.pty = panel.pty, panel'.resizing = panel.resizing, panel'.sent = panel.sent,
         panel'.phase = "connected" <=> panel.phase = "connected",
         \A p \in Procs : /\ Sizes(wire', p) = Sizes(wire, p)
                          /\ \A i \in Sizes(wire, p) : wire'[i] = wire[i]
                          /\ SizeCalls(calls', p) \subseteq SizeCalls(calls, p)
                          /\ p = panel.pty => SizeCalls(calls', p) = SizeCalls(calls, p)
  PROVE  SizesInv'
<1>1. panel.pty \in Procs
  BY DEF PanelInv, PanelTypes, Panel
<1>2. SizesPast'
  BY <1>1 DEF SizesInv, SizesPast
<1>3. SizesSent'
  BY <1>1 DEF SizesInv, SizesSent
<1>4. SizeArrives'
  BY <1>1 DEF SizesInv, SizeArrives
<1>. QED BY <1>2, <1>3, <1>4 DEF SizesInv

LEMMA QuietSizes ==
  ASSUME PanelInv, lost \in Lost, SizesInv,
         \/ SurfaceReady \/ HostAttaches \/ Exit \/ Restart \/ Reconnect \/ Type \/ UNCHANGED panelVars
         \/ \E p \in Procs : Microtask(p)
         \/ AttachDone /\ panel.answer # "running"
         \/ News /\ (Head(news).kind = "exit" \/ Head(news).pty = panel.pty)
  PROVE  SizesInv'
<1>0. /\ PanelTypes /\ panel \in Panel /\ host.n \in Nat /\ panel.pty \in Nat
      /\ host \in [n : Procs, up : BOOLEAN, got : [Procs -> Seq(Nat)], size : [Procs -> Nat]]
  BY DEF PanelInv, PanelTypes, Panel, Procs
<1>1. UNCHANGED <<wire, calls, lost, size>>
  BY DEF SurfaceReady, HostAttaches, Exit, Restart, Reconnect, Type, panelVars, Microtask, AttachDone, News, links
<1>2. /\ panel'.pty = panel.pty /\ panel'.resizing = panel.resizing /\ panel'.sent = panel.sent
      /\ panel'.phase = "connected" <=> panel.phase = "connected"
  <2>1. CASE panel' = panel
    BY <2>1
  <2>2. CASE SurfaceReady \/ HostAttaches
    BY <1>0, <2>2 DEF SurfaceReady, HostAttaches, Panel
  <2>3. CASE Type
    BY <1>0, <2>3 DEF Type, Panel
  <2>4. CASE AttachDone /\ panel.answer # "running"
    BY <1>0, <2>4 DEF AttachDone, Panel
  <2>5. CASE News /\ (Head(news).kind = "exit" \/ Head(news).pty = panel.pty)
    <3>1. panel' \in {panel, [panel EXCEPT !.display = "exited"]}
      BY <2>5 DEF News
    <3>. QED BY <1>0, <3>1 DEF Panel
  <2>. QED BY <2>1, <2>2, <2>3, <2>4, <2>5 DEF Exit, Restart, Reconnect, panelVars, Microtask
<1>3. host'.size = host.size /\ (Over(panel.pty) => Over(panel.pty)')
  <2>1. CASE host' = host
    BY <1>2, <2>1 DEF Over
  <2>2. CASE Exit
    BY <1>0, <1>2, <2>2 DEF Exit, Over
  <2>3. CASE Restart
    BY <1>0, <1>2, <2>3 DEF Restart, Over
  <2>. QED BY <2>1, <2>2, <2>3 DEF SurfaceReady, HostAttaches, Reconnect, Type, panelVars, Microtask, AttachDone, News
<1>. QED BY <1>1, <1>2, <1>3, SizesFrame

\* Requests at both ends of the socket.
LEMMA WireSizes ==
  ASSUME wire \in Seq(Request), NEW p \in Procs, wire # <<>>
  PROVE  /\ 1 \in DOMAIN wire /\ wire[1] = Head(wire) /\ Head(wire) \in Request
         /\ \A i \in Sizes(Tail(wire), p) : i \in Nat /\ i + 1 \in Sizes(wire, p) /\ Tail(wire)[i] = wire[i + 1]
         /\ \A i \in Sizes(wire, p) : i \in Nat /\ i >= 1 /\ (i # 1 => i - 1 \in Sizes(Tail(wire), p))
<1>0. /\ DOMAIN wire = 1..Len(wire) /\ Len(wire) \in Nat
  OBVIOUS
<1>1. /\ Len(wire) >= 1 /\ Head(wire) = wire[1] /\ wire[1] \in Request
      /\ DOMAIN Tail(wire) = 1..Len(wire) - 1 /\ \A i \in 1..Len(wire) - 1 : Tail(wire)[i] = wire[i + 1]
  BY <1>0
<1>2. \A i \in 1..Len(wire) - 1 : i \in Nat /\ i + 1 \in 1..Len(wire)
  BY <1>0
<1>3. \A i \in 1..Len(wire) : i \in Nat /\ i >= 1 /\ (i # 1 => i - 1 \in 1..Len(wire) - 1 /\ (i - 1) + 1 = i)
  BY <1>0
<1>4. \A i \in Sizes(Tail(wire), p) : i \in Nat /\ i + 1 \in Sizes(wire, p) /\ Tail(wire)[i] = wire[i + 1]
  BY <1>0, <1>1, <1>2 DEF Sizes
<1>5. \A i \in Sizes(wire, p) : i \in Nat /\ i >= 1 /\ (i # 1 => i - 1 \in Sizes(Tail(wire), p))
  BY <1>0, <1>1, <1>3 DEF Sizes
<1>6. 1 \in DOMAIN wire
  BY <1>0, <1>1
<1>. QED BY <1>1, <1>4, <1>5, <1>6

OneSent(q, r, p) ==
    /\ \A i \in Sizes(wire, p) : i \in Nat /\ i \in Sizes(q, p) /\ q[i] = wire[i] /\ i < Len(wire) + 1
    /\ \A i \in Sizes(q, p) : i \in Sizes(wire, p) \/ i = Len(wire) + 1
    /\ Len(wire) + 1 \in Nat /\ q[Len(wire) + 1] = r
    /\ Len(wire) + 1 \in Sizes(q, p) <=> (r.kind = "resize" /\ r.pty = p)
LEMMA SentSizes ==
  ASSUME wire \in Seq(Request), NEW p \in Procs, NEW r \in Request, NEW q \in Seq(Request), q = Append(wire, r)
  PROVE  OneSent(q, r, p)
<1>0. /\ DOMAIN wire = 1..Len(wire) /\ Len(wire) \in Nat
  OBVIOUS
<1>1. /\ DOMAIN q = 1..Len(wire) + 1 /\ q[Len(wire) + 1] = r /\ \A i \in 1..Len(wire) : q[i] = wire[i]
  BY <1>0
<1>2. /\ \A i \in 1..Len(wire) : i \in Nat /\ i \in 1..Len(wire) + 1 /\ i < Len(wire) + 1
      /\ \A i \in 1..Len(wire) + 1 : i \in 1..Len(wire) \/ i = Len(wire) + 1
      /\ Len(wire) + 1 \in 1..Len(wire) + 1 /\ Len(wire) + 1 \in Nat
  BY <1>0
<1>. QED BY <1>0, <1>1, <1>2 DEF Sizes, OneSent

\* What the host does with a size, and with what is none.
LEMMA CarriedSizes ==
  ASSUME PanelTypes, lost \in Lost, DisplayTrue, NEW r \in Request \cup Call, r.kind = "resize" => r.pty <= panel.pty
  PROVE  /\ r.kind = "resize" /\ r.pty = panel.pty /\ ~Over(panel.pty) => Carried(host, r).size[panel.pty] = r.what
         /\ ~(r.kind = "resize" /\ r.pty = panel.pty) /\ ~Over(panel.pty) =>
               Carried(host, r).size = host.size /\ GivenUp(host, r).size = lost.size
<1>0. /\ host \in [n : Procs, up : BOOLEAN, got : [Procs -> Seq(Nat)], size : [Procs -> Nat]]
      /\ panel.pty \in Procs /\ panel.pty \in Nat /\ host.n \in Nat /\ panel.pty <= host.n
      /\ r.kind \in {"write", "resize"} /\ r.pty \in Procs
  <2>1. r.kind \in {"write", "resize"} /\ r.pty \in Procs
    BY DEF Request, Call
  <2>2. /\ host \in [n : Procs, up : BOOLEAN, got : [Procs -> Seq(Nat)], size : [Procs -> Nat]]
        /\ panel.pty \in Procs /\ host.n \in Procs /\ panel.pty <= host.n
    BY DEF PanelTypes, Panel, DisplayTrue
  <2>3. Procs \subseteq Nat
    BY DEF Procs
  <2>. QED BY <2>1, <2>2, <2>3
<1>. SUFFICES ASSUME ~Over(panel.pty)
              PROVE  /\ r.kind = "resize" /\ r.pty = panel.pty => Carried(host, r).size[panel.pty] = r.what
                     /\ ~(r.kind = "resize" /\ r.pty = panel.pty) =>
                           Carried(host, r).size = host.size /\ GivenUp(host, r).size = lost.size
  OBVIOUS
<1>1. host.n = panel.pty /\ host.up
  BY <1>0 DEF Over
<1>2. CASE r.kind = "resize" /\ r.pty = panel.pty
  <2>1. Carried(host, r) = [host EXCEPT !.size[panel.pty] = r.what]
    BY <1>1, <1>2 DEF Carried
  <2>. QED BY <1>0, <1>2, <2>1
<1>3. CASE r.pty # panel.pty
  BY <1>1, <1>3 DEF Carried, GivenUp, Lost
<1>4. CASE r.kind = "write" /\ r.pty = panel.pty
  BY <1>0, <1>1, <1>4 DEF Carried, GivenUp
<1>. QED BY <1>0, <1>2, <1>3, <1>4

\* The last request on the socket is the first one, or is still the last one.
LEMMA ReadSizes ==
  ASSUME PanelInv, lost \in Lost, NewsInv, SizesInv, HostReads
  PROVE  SizesInv'
<1>0. /\ PanelTypes /\ panel \in Panel /\ wire \in Seq(Request) /\ panel.pty \in Procs /\ DisplayTrue
      /\ SizesPast /\ SizesSent /\ SizeArrives /\ panel.pty \in Nat
  BY DEF PanelInv, PanelTypes, Panel, NewsInv, SizesInv, Procs
<1>1. /\ wire # <<>> /\ wire' = Tail(wire) /\ UNCHANGED <<calls, panel, size>>
      /\ host' = Carried(host, Head(wire)) /\ lost' = GivenUp(host, Head(wire))
  BY DEF HostReads
<1>2. PICK p \in Procs : p = panel.pty
  BY <1>0
<1>3. \A q \in Procs :
        /\ 1 \in DOMAIN wire /\ wire[1] = Head(wire) /\ Head(wire) \in Request
        /\ \A i \in Sizes(wire', q) : i \in Nat /\ i + 1 \in Sizes(wire, q) /\ wire'[i] = wire[i + 1]
        /\ \A i \in Sizes(wire, q) : i \in Nat /\ i >= 1 /\ (i # 1 => i - 1 \in Sizes(wire', q))
  BY <1>0, <1>1, WireSizes
<1>4. PICK r \in Request : r = Head(wire) /\ r = wire[1]
  BY <1>2, <1>3
<1>5. r.kind = "resize" => r.pty <= panel.pty
  <2>1. r.kind = "resize" => 1 \in Sizes(wire, r.pty)
    BY <1>2, <1>3, <1>4 DEF Sizes
  <2>2. r.pty \in Procs /\ r.pty \in Nat
    BY DEF Request, Procs
  <2>. QED BY <1>0, <2>1, <2>2 DEF SizesPast
<1>6. Over(panel.pty)' = Over(panel.pty)
  BY <1>0, <1>1, <1>4, CarriedProcess DEF Over
<1>7. SizesPast'
  BY <1>0, <1>1, <1>3 DEF SizesPast
<1>8. SizesSent'
  <2>1. Sizes(wire, p) = {} => Sizes(wire', p) = {}
    BY <1>3
  <2>2. ASSUME panel.resizing # "due", NEW i \in Sizes(wire', p), \A j \in Sizes(wire', p) : j <= i
        PROVE  wire'[i].what = panel.sent
    <3>1. i \in Nat /\ i + 1 \in Sizes(wire, p) /\ wire'[i] = wire[i + 1]
      BY <1>3, <2>2
    <3>2. ASSUME NEW j \in Sizes(wire, p) PROVE j <= i + 1
      <4>1. j \in Nat /\ (j # 1 => j - 1 \in Sizes(wire', p))
        BY <1>3, <3>2
      <4>. QED BY <2>2, <3>1, <4>1
    <3>. QED BY <1>0, <1>2, <2>2, <3>1, <3>2 DEF SizesSent
  <2>. QED BY <1>0, <1>1, <1>2, <2>1, <2>2 DEF SizesSent
<1>9. SizeArrives'
  <2>. SUFFICES ASSUME panel.resizing # "due", panel.sent # 0, ~Over(p), ~lost'.size, Sizes(wire', p) = {},
                       \A c \in SizeCalls(calls, p) : c.answered
                PROVE  host'.size[p] = panel.sent
    BY <1>1, <1>2, <1>6 DEF SizeArrives
  <2>1. CASE r.kind = "resize" /\ r.pty = p
    <3>1. 1 \in Sizes(wire, p) /\ \A j \in Sizes(wire, p) : j = 1
      BY <1>3, <1>4, <2>1 DEF Sizes
    <3>2. r.what = panel.sent
      BY <1>0, <1>2, <1>4, <3>1 DEF SizesSent
    <3>. QED BY <1>0, <1>1, <1>2, <1>4, <1>5, <2>1, <3>2, CarriedSizes
  <2>2. CASE ~(r.kind = "resize" /\ r.pty = p)
    <3>1. Sizes(wire, p) = {}
      <4>1. 1 \notin Sizes(wire, p)
        BY <1>4, <2>2 DEF Sizes
      <4>. QED BY <1>3, <4>1
    <3>2. host'.size = host.size /\ lost'.size = lost.size
      BY <1>0, <1>1, <1>2, <1>4, <1>5, <2>2, CarriedSizes
    <3>. QED BY <1>0, <1>2, <3>1, <3>2 DEF SizeArrives
  <2>. QED BY <2>1, <2>2
<1>. QED BY <1>7, <1>8, <1>9 DEF SizesInv

\* The one call with a size is carried out, or fails.
LEMMA ServedSizes ==
  ASSUME PanelInv, lost \in Lost, NewsInv, SizesInv, NEW c \in calls, HostServes(c) \/ CallFails(c)
  PROVE  SizesInv'
<1>0. /\ PanelTypes /\ panel \in Panel /\ calls \in SUBSET Call /\ panel.pty \in Procs /\ DisplayTrue
      /\ SizesPast /\ SizesSent /\ SizeArrives /\ panel.pty \in Nat
  BY DEF PanelInv, PanelTypes, Panel, NewsInv, SizesInv, Procs
<1>1. /\ ~c.answered /\ calls' = (calls \ {c}) \cup {[c EXCEPT !.answered = TRUE]}
      /\ UNCHANGED <<wire, panel, size>>
  BY DEF HostServes, CallFails, bounds
<1>2. PICK d \in Call : /\ d = [c EXCEPT !.answered = TRUE] /\ d.kind = c.kind /\ d.pty = c.pty /\ d.what = c.what
                        /\ d.answered
  <2>1. c \in Call
    BY <1>0
  <2>2. [c EXCEPT !.answered = TRUE] \in Call
    BY <2>1 DEF Call
  <2>3. LET d == [c EXCEPT !.answered = TRUE] IN
        d.kind = c.kind /\ d.pty = c.pty /\ d.what = c.what /\ d.answered
    BY <2>1 DEF Call
  <2>. QED BY <2>2, <2>3
<1>3. PICK p \in Procs : p = panel.pty
  BY <1>0
<1>4. c.kind = "resize" => c.pty <= panel.pty
  <2>1. c.kind = "resize" => c \in SizeCalls(calls, c.pty)
    BY DEF SizeCalls
  <2>2. c.pty \in Procs /\ c.pty \in Nat
    BY <1>0 DEF Call, Procs
  <2>. QED BY <1>0, <2>1, <2>2 DEF SizesPast
<1>5. \A q \in Procs : /\ c \in SizeCalls(calls, q) => d \in SizeCalls(calls', q)
                       /\ \A e \in SizeCalls(calls', q) : (e = d /\ c \in SizeCalls(calls, q)) \/ (e \in SizeCalls(calls, q) /\ e # c)
                       /\ \A e \in SizeCalls(calls, q) : e = c \/ e \in SizeCalls(calls', q)
  BY <1>1, <1>2 DEF SizeCalls
<1>6. Over(panel.pty)' = Over(panel.pty)
  BY <1>0, <1>1, CarriedProcess DEF Over, HostServes, CallFails
<1>7. SizesPast'
  BY <1>0, <1>1, <1>5 DEF SizesPast
<1>8. SizesSent'
  <2>1. \A e, f \in SizeCalls(calls', p) : e = f /\ e.what = panel.sent
    BY <1>0, <1>2, <1>3, <1>5 DEF SizesSent
  <2>2. SizeCalls(calls', p) # {} => panel.resizing = "waits"
    BY <1>0, <1>3, <1>5 DEF SizesSent
  <2>. QED BY <1>0, <1>1, <1>3, <2>1, <2>2 DEF SizesSent
<1>9. SizeArrives'
  <2>. SUFFICES ASSUME panel.resizing # "due", panel.sent # 0, ~Over(p), ~lost'.size, Sizes(wire, p) = {},
                       \A e \in SizeCalls(calls', p) : e.answered
                PROVE  host'.size[p] = panel.sent
    BY <1>1, <1>3, <1>6 DEF SizeArrives
  <2>1. CASE c \in SizeCalls(calls, p)
    <3>1. c.kind = "resize" /\ c.pty = p /\ c.what = panel.sent
      BY <1>0, <1>3, <2>1 DEF SizeCalls, SizesSent
    <3>2. ~CallFails(c)
      <4>. SUFFICES ASSUME CallFails(c) PROVE FALSE
        OBVIOUS
      <4>1. lost' = [keys |-> lost.keys \cup Keys(c), size |-> lost.size \/ c.kind = "resize"]
        BY DEF CallFails
      <4>2. lost'.size = (lost.size \/ c.kind = "resize")
        BY ONLY <4>1
      <4>. QED BY <3>1, <4>2
    <3>3. host' = Carried(host, c)
      BY <3>2 DEF HostServes
    <3>. QED BY <1>0, <1>3, <1>4, <3>1, <3>3, CarriedSizes
  <2>2. CASE c \notin SizeCalls(calls, p)
    <3>1. ~(c.kind = "resize" /\ c.pty = p)
      BY <2>2 DEF SizeCalls
    <3>2. host'.size = host.size /\ lost'.size = lost.size
      <4>1. CASE HostServes(c)
        BY <1>0, <1>3, <1>4, <3>1, <4>1, CarriedSizes DEF HostServes
      <4>2. CASE CallFails(c)
        <5>1. lost' = [keys |-> lost.keys \cup Keys(c), size |-> lost.size \/ c.kind = "resize"] /\ host' = host
          BY <4>2 DEF CallFails
        <5>2. lost'.size = (lost.size \/ c.kind = "resize") /\ lost.size \in BOOLEAN
          BY <5>1 DEF Lost
        <5>. QED BY <5>1, <5>2
      <4>. QED BY <4>1, <4>2
    <3>3. \A e \in SizeCalls(calls, p) : e.answered
      BY <1>5, <2>2
    <3>. QED BY <1>0, <1>3, <3>2, <3>3 DEF SizeArrives
  <2>. QED BY <2>1, <2>2
<1>. QED BY <1>7, <1>8, <1>9 DEF SizesInv

LEMMA BreakSizes ==
  ASSUME PanelInv, lost \in Lost, SizesInv, Disconnect, PanelRaces = {}
  PROVE  SizesInv'
<1>0. /\ PanelTypes /\ wire \in Seq(Request) /\ panel \in Panel /\ panel.pty \in Procs
      /\ SizesPast /\ SizesSent /\ SizeArrives
  BY DEF PanelInv, PanelTypes, Panel, SizesInv
<1>1. /\ wire' = <<>> /\ UNCHANGED <<host, calls, size>>
      /\ panel'.pty = panel.pty /\ panel'.resizing = panel.resizing /\ panel'.sent = panel.sent
      /\ panel'.phase = "connected" <=> panel.phase = "connected"
  BY <1>0 DEF Disconnect, Panel
<1>2. lost'.size = (lost.size \/ \E i \in DOMAIN wire : wire[i].kind = "resize")
  <2>1. PICK cut \in {SubSeq(wire, k + 1, Len(wire)) : k \in {0}} :
          lost' = [keys |-> lost.keys \cup UNION {Keys(cut[i]) : i \in DOMAIN cut},
                   size |-> lost.size \/ \E i \in DOMAIN cut : cut[i].kind = "resize"]
    <3>1. PICK k \in {0} :
            lost' = [keys |-> lost.keys \cup UNION {Keys(SubSeq(wire, k + 1, Len(wire))[i]) : i \in DOMAIN SubSeq(wire, k + 1, Len(wire))},
                     size |-> lost.size \/ \E i \in DOMAIN SubSeq(wire, k + 1, Len(wire)) : SubSeq(wire, k + 1, Len(wire))[i].kind = "resize"]
      BY DEF Disconnect
    <3>. QED BY <3>1
  <2>2. cut = wire
    BY <1>0, <2>1
  <2>. QED BY <2>1, <2>2
<1>3. \A p \in Procs : Sizes(wire', p) = {} /\ (Sizes(wire, p) # {} => lost'.size) /\ (lost.size => lost'.size)
  <2>1. \A p \in Procs : Sizes(wire', p) = {}
    BY <1>1 DEF Sizes
  <2>2. \A p \in Procs : Sizes(wire, p) # {} => \E i \in DOMAIN wire : wire[i].kind = "resize"
    BY DEF Sizes
  <2>3. (\E i \in DOMAIN wire : wire[i].kind = "resize") => lost'.size
    BY <1>2, Zenon
  <2>4. lost.size => lost'.size
    BY <1>2, Zenon
  <2>. QED BY ONLY <2>1, <2>2, <2>3, <2>4
<1>4. SizesPast' /\ SizesSent'
  BY <1>0, <1>1, <1>3 DEF SizesPast, SizesSent
<1>5. SizeArrives'
  BY <1>0, <1>1, <1>3 DEF SizeArrives, Over
<1>. QED BY <1>4, <1>5 DEF SizesInv

\* Keys are no sizes.
LEMMA WritesSizes ==
  ASSUME PanelInv, lost \in Lost, SizesInv, InputAnswered \/ \E p \in Procs : InputSends(p)
  PROVE  SizesInv'
<1>0. /\ PanelTypes /\ wire \in Seq(Request) /\ calls \in SUBSET Call /\ panel.pty \in Procs
      /\ writers \in [Procs -> Writer]
  BY DEF PanelInv, PanelTypes, Panel
<1>1. UNCHANGED <<host, panel, size, lost>>
  BY DEF InputAnswered, InputSends, bounds
<1>2. CASE InputAnswered
  <2>1. wire' = wire /\ \A p \in Procs : SizeCalls(calls', p) = SizeCalls(calls, p)
    BY <1>2 DEF InputAnswered, SizeCalls
  <2>2. Over(panel.pty) => Over(panel.pty)'
    BY <1>1 DEF Over
  <2>. QED BY <1>1, <2>1, <2>2, SizesFrame
<1>3. CASE \E p \in Procs : InputSends(p)
  <2>1. PICK p \in Procs : InputSends(p)
    BY <1>3
  <2>2. PICK chunk \in Seq(Nat) : chunk = Head(writers[p].tail) /\ Send("write", p, chunk)
    <3>1. PICK T \in Seq(Seq(Nat)) : T = writers[p].tail /\ T # <<>>
      BY <1>0, <2>1 DEF InputSends, Writer
    <3>2. Head(T) \in Seq(Nat)
      BY <3>1
    <3>. QED BY <2>1, <3>1, <3>2 DEF InputSends
  <2>3. PICK request \in Request, call \in Call :
        /\ request = [kind |-> "write", pty |-> p, what |-> chunk]
        /\ call = [kind |-> "write", pty |-> p, what |-> chunk, answered |-> FALSE]
    BY DEF Request, Call
  <2>4. /\ wire' = wire \/ wire' = Append(wire, request)
        /\ calls' = calls \/ calls' = calls \cup {call}
    BY <2>2, <2>3 DEF Send
  <2>5. request.kind # "resize" /\ call.kind # "resize"
    BY <2>3
  <2>6. \A q \in Procs : SizeCalls(calls', q) = SizeCalls(calls, q)
    BY <2>4, <2>5 DEF SizeCalls
  <2>7. \A q \in Procs : Sizes(wire', q) = Sizes(wire, q) /\ \A i \in Sizes(wire, q) : wire'[i] = wire[i]
    <3>1. CASE wire' = wire
      BY <3>1
    <3>2. CASE wire' = Append(wire, request)
      <4>0. wire \in Seq(Request) /\ Append(wire, request) \in Seq(Request)
        BY <1>0
      <4>1. PICK to \in Seq(Request) : wire' = to /\ to = Append(wire, request)
        BY <3>2, <4>0, Zenon
      <4>2. ASSUME NEW q \in Procs
            PROVE  /\ \A i \in Sizes(wire, q) : i \in Sizes(to, q) /\ to[i] = wire[i]
                   /\ \A i \in Sizes(to, q) : i \in Sizes(wire, q) \/ i = Len(wire) + 1
                   /\ Len(wire) + 1 \notin Sizes(to, q)
        <5>1. OneSent(to, request, q)
          BY <4>0, <4>1, SentSizes
        <5>. QED BY <2>5, <5>1 DEF OneSent
      <4>3. \A q \in Procs : Sizes(to, q) = Sizes(wire, q) /\ \A i \in Sizes(wire, q) : to[i] = wire[i]
        BY <4>2
      <4>. QED BY <4>1, <4>3
    <3>. QED BY <2>4, <3>1, <3>2
  <2>8. Over(panel.pty) => Over(panel.pty)'
    BY <1>1 DEF Over
  <2>. QED BY <1>1, <2>6, <2>7, <2>8, SizesFrame
<1>. QED BY <1>2, <1>3

LEMMA Settled ==
  ASSUME NEW w, panel \in Panel, w = Settle(panel)
  PROVE  /\ w.pty = panel.pty /\ w.phase = panel.phase /\ w.resizing \in {"no", "due"}
         /\ w.resizing = "no" => w.sent = panel.sent /\ panel.sent = size
BY DEF Settle, Panel

LEMMA SendSizes ==
  ASSUME PanelInv, lost \in Lost, SizesInv, ResizeSends
  PROVE  SizesInv'
<1>0. /\ PanelTypes /\ OneWay /\ panel \in Panel /\ wire \in Seq(Request) /\ calls \in SUBSET Call
      /\ panel.pty \in Procs /\ panel.sent \in Nat /\ SizesPast /\ SizesSent /\ SizeArrives /\ panel.pty \in Nat
  BY DEF PanelInv, PanelTypes, Panel, SizesInv, Procs
<1>1. /\ panel.resizing = "due" /\ Send("resize", panel.pty, panel.sent)
      /\ panel' = IF socket THEN Settle(panel) ELSE [panel EXCEPT !.resizing = "waits"]
      /\ UNCHANGED <<host, size, lost>>
  BY DEF ResizeSends
<1>2. PICK p \in Procs : p = panel.pty
  BY <1>0
<1>3. panel.phase = "connected" /\ SizeCalls(calls, p) = {}
  BY <1>0, <1>1, <1>2 DEF SizesSent
<1>4. CASE socket
  <2>1. PICK r \in Request : r = [kind |-> "resize", pty |-> p, what |-> panel.sent]
    BY <1>0, <1>2 DEF Request
  <2>2. wire' = Append(wire, r) /\ calls' = calls /\ wire' \in Seq(Request)
    BY <1>0, <1>1, <1>2, <1>4, <2>1 DEF Send
  <2>3. /\ panel'.pty = panel.pty /\ panel'.phase = panel.phase /\ panel'.resizing \in {"no", "due"}
        /\ panel'.resizing = "no" => panel'.sent = panel.sent /\ panel.sent = size
    BY <1>0, <1>1, <1>4, Settled
  <2>4. \A q \in Procs :
          /\ \A i \in Sizes(wire, q) : i \in Nat /\ i \in Sizes(wire', q) /\ wire'[i] = wire[i] /\ i < Len(wire) + 1
          /\ \A i \in Sizes(wire', q) : i \in Sizes(wire, q) \/ i = Len(wire) + 1
          /\ Len(wire) + 1 \in Nat /\ wire'[Len(wire) + 1] = r
          /\ Len(wire) + 1 \in Sizes(wire', q) <=> (r.kind = "resize" /\ r.pty = q)
    <3>1. PICK to \in Seq(Request) : wire' = to /\ to = Append(wire, r)
      BY <2>2
    <3>2. \A q \in Procs : OneSent(to, r, q)
      BY <1>0, <3>1, SentSizes
    <3>. QED BY <3>1, <3>2 DEF OneSent
  <2>5. SizesPast'
    <3>1. ASSUME NEW q \in Procs, q > panel.pty PROVE Sizes(wire', q) = {}
      <4>1. Sizes(wire, q) = {} /\ r.pty # q
        BY <1>0, <1>2, <2>1, <3>1 DEF SizesPast
      <4>. QED BY <2>4, <4>1
    <3>. QED BY <1>0, <2>2, <2>3, <3>1 DEF SizesPast
  <2>6. Len(wire) + 1 \in Sizes(wire', p)
    BY <2>1, <2>4
  <2>7. SizesSent'
    <3>1. ASSUME NEW i \in Sizes(wire', p), \A j \in Sizes(wire', p) : j <= i
          PROVE  wire'[i].what = panel.sent
      <4>1. i = Len(wire) + 1
        <5>1. Len(wire) + 1 <= i /\ ((i \in Nat /\ i < Len(wire) + 1) \/ i = Len(wire) + 1)
          BY <2>4, <2>6, <3>1
        <5>2. Len(wire) \in Nat
          BY <1>0
        <5>. QED BY <5>1, <5>2
      <4>. QED BY <2>1, <2>4, <4>1
    <3>. QED BY <1>1, <1>2, <1>3, <2>2, <2>3, <3>1 DEF SizesSent
  <2>8. SizeArrives'
    BY <1>2, <2>3, <2>6 DEF SizeArrives
  <2>. QED BY <2>5, <2>7, <2>8 DEF SizesInv
<1>5. CASE ~socket
  <2>1. PICK call \in Call : call = [kind |-> "resize", pty |-> p, what |-> panel.sent, answered |-> FALSE]
    BY <1>0, <1>2 DEF Call
  <2>2. wire' = wire /\ calls' = calls \cup {call} /\ wire = <<>>
    BY <1>0, <1>1, <1>2, <1>5, <2>1 DEF Send, OneWay
  <2>3. /\ panel'.pty = panel.pty /\ panel'.phase = panel.phase /\ panel'.resizing = "waits"
        /\ panel'.sent = panel.sent
    BY <1>0, <1>1, <1>5 DEF Panel
  <2>4. \A q \in Procs : /\ Sizes(wire', q) = {}
                         /\ q # p => SizeCalls(calls', q) = SizeCalls(calls, q)
                         /\ q = p => SizeCalls(calls', q) = {call}
    BY <1>3, <2>1, <2>2 DEF Sizes, SizeCalls
  <2>5. call.what = panel.sent /\ ~call.answered
    BY <2>1
  <2>6. SizesPast'
    BY <1>0, <1>2, <2>3, <2>4 DEF SizesPast
  <2>7. SizesSent'
    BY <1>2, <1>3, <2>3, <2>4, <2>5 DEF SizesSent
  <2>8. SizeArrives'
    BY <1>2, <2>3, <2>4, <2>5 DEF SizeArrives
  <2>. QED BY <2>6, <2>7, <2>8 DEF SizesInv
<1>. QED BY <1>4, <1>5

LEMMA AnswerSizes ==
  ASSUME PanelInv, lost \in Lost, SizesInv, ResizeAnswered
  PROVE  SizesInv'
<1>0. /\ PanelTypes /\ panel \in Panel /\ calls \in SUBSET Call
      /\ panel.pty \in Procs /\ SizesPast /\ SizesSent /\ SizeArrives
  BY DEF PanelInv, PanelTypes, Panel, SizesInv
<1>1. PICK c \in calls :
        /\ c.kind = "resize" /\ c.answered /\ calls' = calls \ {c}
        /\ panel' = IF c.pty = panel.pty /\ panel.resizing = "waits" THEN Settle(panel) ELSE panel
  BY DEF ResizeAnswered
<1>2. UNCHANGED <<host, wire, size, lost>>
  BY DEF ResizeAnswered
<1>3. panel'.pty = panel.pty => (Over(panel.pty) => Over(panel.pty)')
  BY <1>2 DEF Over
<1>4. PICK p \in Procs : p = panel.pty
  BY <1>0
<1>5. CASE c.pty # p
  <2>1. panel' = panel
    BY <1>1, <1>4, <1>5
  <2>2. \A q \in Procs : /\ SizeCalls(calls', q) \subseteq SizeCalls(calls, q)
                         /\ q = p => SizeCalls(calls', q) = SizeCalls(calls, q)
    BY <1>1, <1>5 DEF SizeCalls
  <2>. QED BY <1>2, <1>3, <1>4, <2>1, <2>2, SizesFrame
<1>6. CASE c.pty = p
  <2>1. c \in SizeCalls(calls, p)
    BY <1>1, <1>6 DEF SizeCalls
  <2>2. /\ panel.resizing = "waits" /\ panel.phase = "connected" /\ Sizes(wire, p) = {}
        /\ \A d \in SizeCalls(calls, p) : d = c
    BY <1>0, <1>4, <2>1 DEF SizesSent
  <2>3. /\ \A q \in Procs : SizeCalls(calls', q) \subseteq SizeCalls(calls, q)
        /\ SizeCalls(calls', p) = {}
    BY <1>1, <2>2 DEF SizeCalls
  <2>4. panel' = Settle(panel)
    BY <1>1, <1>4, <1>6, <2>2
  <2>5. /\ panel'.pty = panel.pty /\ panel'.phase = panel.phase /\ panel'.resizing \in {"no", "due"}
        /\ panel'.resizing = "no" => panel'.sent = panel.sent /\ panel.sent = size
    BY <1>0, <2>4, Settled
  <2>6. SizesPast'
    BY <1>0, <1>2, <2>3, <2>5 DEF SizesPast
  <2>7. SizesSent'
    BY <1>2, <1>4, <2>2, <2>3, <2>5 DEF SizesSent
  <2>8. SizeArrives'
    BY <1>0, <1>1, <1>2, <1>4, <2>2, <2>5 DEF SizeArrives, Over
  <2>. QED BY <2>6, <2>7, <2>8 DEF SizesInv
<1>. QED BY <1>5, <1>6

\* The surface is measured, the instance connects, or another one comes.
LEMMA ResizedWhere ==
  ASSUME NEW s \in Panel, NEW w, w = Resized(s)
  PROVE  /\ w.pty = s.pty /\ w.phase = s.phase
         /\ (s.phase # "connected" \/ size' = 0) => w = s
         /\ s.phase = "connected" /\ size' # 0 /\ s.resizing # "no" => w.resizing = s.resizing /\ w.sent = s.sent
         /\ s.phase = "connected" /\ size' # 0 /\ s.resizing = "no" => w.resizing = "due" /\ w.sent = size'
BY DEF Resized, Panel

LEMMA LayoutSizes ==
  ASSUME PanelInv, lost \in Lost, SizesInv, Layout
  PROVE  SizesInv'
<1>0. /\ PanelTypes /\ panel \in Panel /\ panel.pty \in Procs /\ SizesPast /\ SizesSent /\ SizeArrives
  BY DEF PanelInv, PanelTypes, Panel, SizesInv
<1>1. /\ size' # 0 /\ panel' = Resized(panel) /\ UNCHANGED <<host, wire, calls, lost>>
  BY PanelBounds DEF Layout, links
<1>2. /\ panel'.pty = panel.pty /\ panel'.phase = panel.phase
      /\ panel.phase # "connected" => panel' = panel
      /\ panel.phase = "connected" /\ panel.resizing # "no" => panel'.resizing = panel.resizing /\ panel'.sent = panel.sent
      /\ panel.phase = "connected" /\ panel.resizing = "no" => panel'.resizing = "due" /\ panel'.sent = size'
  BY <1>0, <1>1, ResizedWhere
<1>3. SizesPast'
  BY <1>0, <1>1, <1>2 DEF SizesPast
<1>4. CASE panel.phase # "connected"
  BY <1>0, <1>1, <1>2, <1>3, <1>4 DEF SizesInv, SizesSent, SizeArrives, Over
<1>5. CASE panel.phase = "connected" /\ panel.resizing # "no"
  BY <1>0, <1>1, <1>2, <1>3, <1>5 DEF SizesInv, SizesSent, SizeArrives, Over
<1>6. CASE panel.phase = "connected" /\ panel.resizing = "no"
  BY <1>0, <1>1, <1>2, <1>3, <1>6 DEF SizesInv, SizesSent, SizeArrives, Over
<1>. QED BY <1>4, <1>5, <1>6

LEMMA AttachSizes ==
  ASSUME PanelInv, lost \in Lost, SizesInv, AttachDone, panel.answer = "running"
  PROVE  SizesInv'
<1>0. /\ PanelTypes /\ panel \in Panel /\ panel.pty \in Procs /\ SizesPast /\ SizesSent
  BY DEF PanelInv, PanelTypes, Panel, SizesInv
<1>1. /\ panel.phase = "replaying" /\ panel' = Connected(panel) /\ UNCHANGED <<host, wire, calls, lost, size>>
  BY DEF AttachDone, links
<1>2. PICK s \in Panel : /\ s.pty = panel.pty /\ s.phase = "connected" /\ s.resizing = panel.resizing
                         /\ s.sent = panel.sent /\ panel' = Resized(s)
  <2> DEFINE ready == [panel EXCEPT !.phase = "connected", !.display = "running", !.pending = <<>>]
  <2>1. /\ ready \in Panel /\ ready.pty = panel.pty /\ ready.phase = "connected" /\ ready.resizing = panel.resizing
        /\ ready.sent = panel.sent
    <3>1. <<>> \in Seq(Nat)
      OBVIOUS
    <3>. QED BY <1>0, <3>1 DEF Panel
  <2>2. panel' = Resized(ready)
    BY <1>1 DEF Connected
  <2>. HIDE DEF ready
  <2>. QED BY <2>1, <2>2
<1>3. /\ panel'.pty = s.pty /\ panel'.phase = s.phase
      /\ size' = 0 => panel' = s
      /\ size' # 0 /\ s.resizing = "no" => panel'.resizing = "due" /\ panel'.sent = size'
  BY <1>2, ResizedWhere
<1>4. /\ panel.resizing = "no" /\ panel.sent = 0 /\ Sizes(wire, panel.pty) = {}
      /\ SizeCalls(calls, panel.pty) = {}
  BY <1>0, <1>1 DEF SizesSent
<1>5. /\ panel'.pty = panel.pty /\ panel'.phase = "connected"
      /\ \/ panel'.resizing = "due"
         \/ (panel'.resizing = "no" /\ panel'.sent = 0 /\ size' = 0)
  BY <1>2, <1>3, <1>4
<1>6. SizesPast' /\ SizesSent' /\ SizeArrives'
  BY <1>0, <1>1, <1>4, <1>5 DEF SizesPast, SizesSent, SizeArrives
<1>. QED BY <1>6 DEF SizesInv

LEMMA NextSizes ==
  ASSUME PanelInv, lost \in Lost, NewsInv, SizesInv, News, Head(news).kind # "exit", Head(news).pty # panel.pty
  PROVE  SizesInv'
<1>0. /\ PanelTypes /\ panel.pty \in Nat /\ SizesPast /\ news \in Seq(Message) /\ news # <<>>
  <2>1. news # <<>>
    BY DEF News
  <2>2. PanelTypes /\ panel.pty \in Procs /\ SizesPast /\ news \in Seq(Message)
    BY DEF PanelInv, PanelTypes, Panel, SizesInv
  <2>3. Procs \subseteq Nat
    BY DEF Procs
  <2>. QED BY ONLY <2>1, <2>2, <2>3
<1>1. PICK m \in Message : m = Head(news) /\ m = news[1] /\ 1 \in DOMAIN news
  BY <1>0
<1>2. panel' = Instance(m.pty, m.status) /\ UNCHANGED <<wire, calls>>
  BY <1>1 DEF News, links
<1>3. m.pty \in Procs /\ m.pty \in Nat /\ m.pty > panel.pty
  <2>1. Told(m)
    BY <1>1 DEF NewsInv, NewsTrue
  <2>2. m.pty \in Procs /\ m.pty \in Nat
    BY DEF Message, Procs
  <2>. QED BY <1>0, <1>1, <2>1, <2>2 DEF Told
<1>4. panel'.pty = m.pty /\ panel'.phase = "surface" /\ panel'.resizing = "no" /\ panel'.sent = 0
  BY <1>2 DEF Instance
<1>5. Sizes(wire', m.pty) = {} /\ SizeCalls(calls', m.pty) = {}
  BY <1>0, <1>2, <1>3 DEF SizesPast
<1>6. SizesPast'
  BY <1>0, <1>2, <1>3, <1>4 DEF SizesPast, Procs
<1>. QED BY <1>4, <1>5, <1>6 DEF SizesInv, SizesSent, SizeArrives

LEMMA AgreeInitially == PanelInit => AgreeInv
<1>. SUFFICES ASSUME PanelInit PROVE AgreeInv
  OBVIOUS
<1>1. PanelInv /\ panel.pty \in Procs
  BY PanelInitially DEF PanelInv, PanelTypes, Panel
<1>2. /\ host.n = 1 /\ host.up = TRUE /\ news = <<>> /\ wire = <<>> /\ calls = {}
      /\ panel.pty = 1 /\ panel.phase = "surface" /\ panel.display = "running" /\ panel.resizing = "no"
      /\ panel.sent = 0 /\ \A p \in Procs : typed[p] = <<>>
  BY DEF PanelInit, Instance
<1>3. lost \in Lost
  BY DEF PanelInit, Lost
<1>4. NewsInv
  BY <1>2 DEF NewsInv, NewsTrue, DisplayTrue, Shown
<1>5. KeysKept
  BY <1>2 DEF KeysKept, ToSet
<1>6. \A p \in Procs : Sizes(wire, p) = {} /\ SizeCalls(calls, p) = {}
  BY <1>2 DEF Sizes, SizeCalls
<1>7. SizesInv
  BY <1>1, <1>2, <1>6 DEF SizesInv, SizesPast, SizesSent, SizeArrives
<1>. QED BY <1>1, <1>3, <1>4, <1>5, <1>7 DEF AgreeInv

LEMMA AgreeKeeps ==
  ASSUME AgreeInv, [PanelNext]_panelVars, PanelRaces = {}
  PROVE  AgreeInv'
<1>0. PanelInv /\ NewsInv /\ lost \in Lost /\ KeysKept /\ SizesInv
  BY DEF AgreeInv
<1>1. PanelInv'
  BY <1>0, PanelKeeps
<1>2. \/ HostReads \/ (\E c \in calls : HostServes(c) \/ CallFails(c)) \/ Reconnect \/ ResizeSends
      \/ ResizeAnswered \/ (\E p \in Procs : Microtask(p) \/ InputSends(p)) \/ InputAnswered
      \/ SurfaceReady \/ HostAttaches \/ AttachDone \/ News \/ Exit \/ Restart \/ Disconnect
      \/ Type \/ Layout \/ UNCHANGED panelVars
  <2>1. ~HostReadsLate
    BY <1>0 DEF HostReadsLate, PanelInv, PanelTypes
  <2>. QED BY <2>1 DEF PanelNext, PanelSteady
<1>3. NewsInv'
  <2>1. CASE \/ HostReads \/ (\E c \in calls : HostServes(c) \/ CallFails(c)) \/ ResizeSends \/ ResizeAnswered
             \/ (\E p \in Procs : Microtask(p) \/ InputSends(p)) \/ InputAnswered \/ Type \/ Layout
             \/ UNCHANGED panelVars
    BY <1>0, <2>1, QuietNews
  <2>. QED BY <1>0, <1>2, <2>1, PhasesNews, EndsNews, SocketNews, ReadNews
<1>4. KeysKept' /\ lost' \in Lost
  <2>1. CASE \E p \in Procs : Microtask(p) \/ InputSends(p)
    BY <1>0, <2>1, FlushKeys, WriterSends
  <2>. QED BY <1>0, <1>2, <2>1, HostKeys, BreakKeys, SendKeys, AttachKeys, NewsKeys, TypedKeys, QuietKeys
<1>5. SizesInv'
  <2>1. CASE \E c \in calls : HostServes(c) \/ CallFails(c)
    BY <1>0, <2>1, ServedSizes
  <2>2. CASE \E p \in Procs : Microtask(p) \/ InputSends(p)
    BY <1>0, <2>2, QuietSizes, WritesSizes
  <2>3. CASE AttachDone
    BY <1>0, <2>3, QuietSizes, AttachSizes
  <2>4. CASE News
    BY <1>0, <2>4, QuietSizes, NextSizes
  <2>5. CASE \/ SurfaceReady \/ HostAttaches \/ Exit \/ Restart \/ Reconnect \/ Type \/ UNCHANGED panelVars
    BY <1>0, <2>5, QuietSizes
  <2>. QED BY <1>0, <1>2, <2>1, <2>2, <2>3, <2>4, <2>5, ReadSizes, BreakSizes, WritesSizes, SendSizes,
              AnswerSizes, LayoutSizes
<1>. QED BY <1>1, <1>3, <1>4, <1>5 DEF AgreeInv

LEMMA RestAgrees ==
  ASSUME AgreeInv, AtRest
  PROVE  /\ panel.pty = host.n
         /\ panel.phase = "connected" =>
              /\ panel.display = IF host.up THEN "running" ELSE "exited"
              /\ ToSet(typed[host.n]) = ToSet(host.got[host.n]) \cup (lost.keys \cap ToSet(typed[host.n]))
              /\ host.up /\ size # 0 => host.size[host.n] = size \/ lost.size
         /\ panel.phase = "over" => panel.display \in {"exited", "failed"}
<1>0. /\ PanelInv /\ NewsInv /\ KeysKept /\ SizesInv /\ panel \in Panel /\ host.n \in Procs /\ host.n \in Nat
      /\ wire = <<>> /\ calls = {} /\ socket /\ news = <<>> /\ panel.resizing = "no"
      /\ host.up \in BOOLEAN
  BY DEF AgreeInv, PanelInv, PanelTypes, AtRest, Procs
<1>1. PICK n \in Procs : n = host.n
  BY <1>0
<1>2. panel.pty = n
  BY <1>0, <1>1 DEF NewsInv, NewsTrue, Shown
<1>3. ASSUME panel.phase = "connected"
      PROVE  panel.display = IF host.up THEN "running" ELSE "exited"
  <2>1. panel.display \in {"running", "exited", "failed"} /\ panel.display # "failed"
    BY <1>0, <1>3 DEF Panel, NewsInv, DisplayTrue
  <2>2. ~host.up => panel.display = "exited"
    BY <1>0, <1>3 DEF NewsInv, NewsTrue, Shown
  <2>3. panel.display = "exited" => ~host.up
    BY <1>0, <1>1, <1>2, <1>3 DEF NewsInv, DisplayTrue, Over
  <2>. QED BY <2>1, <2>2, <2>3
<1>4. ASSUME panel.phase = "connected"
      PROVE  ToSet(typed[n]) = ToSet(host.got[n]) \cup (lost.keys \cap ToSet(typed[n]))
  <2>1. panel.pending = <<>>
    BY <1>0, <1>4 DEF KeysKept, PanelInv, OneWay
  <2>2. ToSet(Pended(n)) = {}
    BY <1>2, <2>1 DEF Pended, ToSet
  <2>3. Under(n) = {}
    BY <1>0 DEF Under, Chunks, KeysIn, Called, WritesOf, Held
  <2>4. Queued(n) = {}
    BY <1>0 DEF Queued, AtRest, KeysIn, ToSet
  <2>5. KeysTo(n) = ToSet(host.got[n])
    BY <2>2, <2>3, <2>4, KeyPlaces
  <2>6. ToSet(host.got[n]) \subseteq ToSet(typed[n]) /\ ToSet(typed[n]) \subseteq ToSet(host.got[n]) \cup lost.keys
    BY <1>0, <2>5 DEF PanelInv, FlowsInOrder, KeysKept
  <2>. QED BY <2>6
<1>5. ASSUME panel.phase = "connected", host.up, size # 0
      PROVE  host.size[n] = size \/ lost.size
  <2>1. panel.sent = size /\ panel.sent # 0
    BY <1>0, <1>5 DEF SizesInv, SizesSent
  <2>2. ~Over(n) /\ Sizes(wire, n) = {} /\ SizeCalls(calls, n) = {}
    BY <1>0, <1>1, <1>5 DEF Over, Sizes, SizeCalls
  <2>. QED BY <1>0, <1>2, <2>1, <2>2 DEF SizesInv, SizeArrives
<1>6. panel.phase = "over" => panel.display \in {"exited", "failed"}
  BY <1>0 DEF Panel, NewsInv, DisplayTrue
<1>. QED BY <1>1, <1>2, <1>3, <1>4, <1>5, <1>6

(* Where the two races are excluded, a window whose panel has nothing left to do    *)
(* shows the terminal's present process and whether it runs, and the process has    *)
(* the size of the surface and every key typed at it, but for what the code gave    *)
(* up: it was lost with the socket or with a call, or typed where nothing was       *)
(* connected (TerminalPanel.tsx; terminal-input-writer.ts).  The news, which only   *)
(* speak of later processes, end with the present state; a key is in one of the      *)
(* places on its way to the host; and the last size sent is the host's or gets       *)
(* there, since a call with a size is awaited before the next one is sent.          *)
THEOREM PanelTellsTruth ==
  ASSUME PanelRaces = {}
  PROVE  PanelSpec => []PanelAgrees
<1>1. AgreeInv => PanelAgrees
  BY RestAgrees DEF PanelAgrees
<1>. QED BY <1>1, AgreeInitially, AgreeKeeps, PTL DEF PanelSpec

-----------------------------------------------------------------------------
(* Where the surface of a terminal is.                                          *)

Slot == {"detail", "kept", "dock", "zoom"}
Screen == [mobile : BOOLEAN, open : BOOLEAN, focused : BOOLEAN, zoomed : BOOLEAN,
           overlay : BOOLEAN, chosen : BOOLEAN, retained : BOOLEAN, leaving : BOOLEAN]

(* A small screen is that of an open window; a chosen terminal is retained, and so *)
(* is one that slides out, which is not chosen.                                   *)
Proper(s) ==
    /\ s \in Screen
    /\ s.mobile => s.open
    /\ ~s.mobile => ~s.chosen /\ ~s.retained /\ ~s.leaving
    /\ s.chosen => s.retained /\ ~s.leaving
    /\ s.leaving => s.retained

SlotsFit ==
    /\ DOMAIN slots = MountedOn(screen)
    /\ \A slot \in DOMAIN slots : slots[slot] \in [visible : {slot # "kept"}, focused : BOOLEAN]
    /\ "zoom" \in DOMAIN slots => slots["zoom"] = [visible |-> TRUE, focused |-> TRUE]

(* Of two slots one subscribed before the other; a zoom that stayed mounted on a    *)
(* small screen is the first, a view that slides out comes before the kept one, and *)
(* the slot that is looked at and was not passed by comes last.                     *)
HeardInv ==
    /\ \A a, b \in MountedOn(screen) : a # b => (<<a, b>> \in heard <=> <<b, a>> \notin heard)
    /\ screen.mobile => \A slot \in MountedOn(screen) :
           "zoom" \in MountedOn(screen) /\ slot # "zoom" => <<"zoom", slot>> \in heard
    /\ screen.leaving => <<"detail", "kept">> \in heard
    /\ OnScreen(screen) # "none" /\ ~passedBy =>
           \A slot \in MountedOn(screen) : slot # OnScreen(screen) => <<slot, OnScreen(screen)>> \in heard

ReplayInv ==
    /\ replay \in [attach : {"none", "running", "hidden"}, paused : BOOLEAN, earlier : BOOLEAN]
    /\ replay.paused => replay.attach = "hidden"
    /\ replay.attach # "none" => Exists
    /\ passedBy \in BOOLEAN

Surfaces == [at : {"none", "home"} \cup Slot, shown : BOOLEAN]
SurfaceInv == surface \in Surfaces /\ (surface.at = "none" => surface = NoSurface)
PlacementInv == Proper(screen) /\ SlotsFit /\ HeardInv /\ ReplayInv /\ SurfaceInv /\ Placed

LEMMA Tree ==
  /\ DOMAIN TreeOrder = Slot
  /\ TreeOrder["detail"] = 1 /\ TreeOrder["kept"] = 2 /\ TreeOrder["dock"] = 3 /\ TreeOrder["zoom"] = 4
BY DEF TreeOrder, Slot

LEMMA Mounts ==
  ASSUME NEW s, Proper(s)
  PROVE  /\ MountedOn(s) \subseteq Slot
         /\ "detail" \in MountedOn(s) <=> s.mobile /\ (s.chosen \/ s.leaving)
         /\ "kept" \in MountedOn(s) <=> s.mobile /\ s.retained /\ ~s.chosen
         /\ "dock" \in MountedOn(s) <=> ~s.mobile /\ s.open
         /\ "zoom" \in MountedOn(s) <=> s.open /\ s.zoomed
         /\ OnScreen(s) \in {"none", "detail", "dock", "zoom"}
         /\ OnScreen(s) = "none" <=> IF s.mobile THEN ~s.chosen ELSE ~s.open
         /\ OnScreen(s) = "detail" <=> s.mobile /\ s.chosen
         /\ OnScreen(s) = "dock" <=> ~s.mobile /\ s.open /\ ~s.zoomed
         /\ OnScreen(s) = "zoom" <=> ~s.mobile /\ s.open /\ s.zoomed
         /\ OnScreen(s) # "none" => OnScreen(s) \in MountedOn(s)
         /\ Active(s) = (OnScreen(s) # "none")
<1>1. MountedOn(s) \subseteq Slot
  BY Tree DEF MountedOn
<1>2. /\ "detail" \in MountedOn(s) <=> s.mobile /\ (s.chosen \/ s.leaving)
      /\ "kept" \in MountedOn(s) <=> s.mobile /\ s.retained /\ ~s.chosen
      /\ "dock" \in MountedOn(s) <=> ~s.mobile /\ s.open
      /\ "zoom" \in MountedOn(s) <=> s.open /\ s.zoomed
  BY Tree DEF MountedOn, Slot
<1>3. /\ OnScreen(s) \in {"none", "detail", "dock", "zoom"}
      /\ OnScreen(s) = "none" <=> IF s.mobile THEN ~s.chosen ELSE ~s.open
      /\ OnScreen(s) = "detail" <=> s.mobile /\ s.chosen
      /\ OnScreen(s) = "dock" <=> ~s.mobile /\ s.open /\ ~s.zoomed
      /\ OnScreen(s) = "zoom" <=> ~s.mobile /\ s.open /\ s.zoomed
  BY DEF OnScreen, Proper, Screen
<1>4. OnScreen(s) # "none" => OnScreen(s) \in MountedOn(s)
  BY <1>2, <1>3
<1>5. Active(s) = (OnScreen(s) # "none")
  BY <1>3 DEF Active, Proper, Screen
<1>. QED BY <1>1, <1>2, <1>3, <1>4, <1>5

LEMMA LastOfOne ==
  ASSUME NEW slot \in Slot
  PROVE  LastOf({slot}) = slot
BY Tree DEF LastOf, Slot

LEMMA LastOfZoomed == LastOf({"dock", "zoom"}) = "zoom"
<1>1. \A slot \in {"dock", "zoom"} :
         (\A other \in {"dock", "zoom"} : TreeOrder[other] <= TreeOrder[slot]) <=> slot = "zoom"
  BY Tree
<1>. QED BY <1>1 DEF LastOf

(* The last to have subscribed is one; it is the slot that is looked at unless that *)
(* was passed by, and one that is not looked at while none is.                      *)
LEMMA LatestHeard ==
  ASSUME Proper(screen), SlotsFit, HeardInv, DOMAIN slots # {}
  PROVE  /\ Latest \in DOMAIN slots
         /\ OnScreen(screen) # "none" /\ ~passedBy => Latest = OnScreen(screen)
         /\ OnScreen(screen) = "none" => Latest \in {"kept", "zoom"}
<1> DEFINE LastHeard(slot) == \A other \in DOMAIN slots \ {slot} : <<other, slot>> \in heard
<1>0. DOMAIN slots = MountedOn(screen) /\ DOMAIN slots \subseteq Slot
  BY Mounts DEF SlotsFit
<1>1. \E slot \in DOMAIN slots : LastHeard(slot)
  <2>1. CASE screen.mobile
    <3>1. DOMAIN slots \subseteq {"detail", "kept", "zoom"}
      BY <1>0, <2>1, Mounts DEF Slot
    <3>2. CASE "kept" \in DOMAIN slots
      <4>1. "detail" \in DOMAIN slots => screen.leaving
        BY <1>0, <3>2, Mounts
      <4>2. "zoom" \in DOMAIN slots => <<"zoom", "kept">> \in heard
        BY <1>0, <2>1, <3>2 DEF HeardInv
      <4>3. "detail" \in DOMAIN slots => <<"detail", "kept">> \in heard
        BY <1>0, <4>1 DEF HeardInv
      <4>4. LastHeard("kept")
        BY <3>1, <4>2, <4>3
      <4>. QED BY <3>2, <4>4
    <3>3. CASE "kept" \notin DOMAIN slots /\ "detail" \in DOMAIN slots
      <4>1. "zoom" \in DOMAIN slots => <<"zoom", "detail">> \in heard
        BY <1>0, <2>1, <3>3 DEF HeardInv
      <4>2. LastHeard("detail")
        BY <3>1, <3>3, <4>1
      <4>. QED BY <3>3, <4>2
    <3>4. CASE "kept" \notin DOMAIN slots /\ "detail" \notin DOMAIN slots
      <4>1. DOMAIN slots = {"zoom"}
        BY <3>1, <3>4
      <4>. QED BY <4>1
    <3>. QED BY <3>2, <3>3, <3>4
  <2>2. CASE ~screen.mobile
    <3>1. DOMAIN slots \subseteq {"dock", "zoom"}
      BY <1>0, <2>2, Mounts DEF Slot, Proper
    <3>2. CASE "dock" \in DOMAIN slots /\ "zoom" \in DOMAIN slots
      <4>1. <<"dock", "zoom">> \in heard \/ <<"zoom", "dock">> \in heard
        BY <1>0, <3>2 DEF HeardInv
      <4>. QED BY <3>1, <3>2, <4>1
    <3>. QED BY <3>1, <3>2
  <2>. QED BY <2>1, <2>2
<1>2. Latest \in DOMAIN slots /\ LastHeard(Latest)
  BY <1>1 DEF Latest
<1>3. ASSUME NEW a \in DOMAIN slots, NEW b \in DOMAIN slots, LastHeard(a), LastHeard(b) PROVE a = b
  BY <1>0, <1>3 DEF HeardInv
<1>4. ASSUME OnScreen(screen) # "none", ~passedBy PROVE Latest = OnScreen(screen)
  <2>1. OnScreen(screen) \in DOMAIN slots
    BY <1>0, <1>4, Mounts
  <2>2. LastHeard(OnScreen(screen))
    BY <1>0, <1>4 DEF HeardInv
  <2>. QED BY <1>2, <1>3, <2>1, <2>2
<1>5. ASSUME OnScreen(screen) = "none" PROVE Latest \in {"kept", "zoom"}
  <2>1. Latest \notin {"dock"}
    BY <1>0, <1>2, <1>5, Mounts
  <2>2. ASSUME Latest = "detail" PROVE FALSE
    <3>1. "kept" \in DOMAIN slots /\ screen.leaving /\ "detail" \in DOMAIN slots
      BY <1>0, <1>2, <1>5, <2>2, Mounts DEF Proper
    <3>2. <<"kept", "detail">> \in heard
      BY <1>2, <2>2, <3>1
    <3>. QED BY <1>0, <3>1, <3>2 DEF HeardInv
  <2>. QED BY <1>0, <1>2, <2>1, <2>2 DEF Slot
<1>. QED BY <1>2, <1>4, <1>5

(* The props of the slots of a screen, and which slots keep theirs.               *)
LEMMA Props ==
  ASSUME Proper(screen), SlotsFit, NEW s, Proper(s), s.leaving => screen.chosen \/ screen.leaving
  PROVE  /\ DOMAIN SlotsOn(s) = MountedOn(s)
         /\ \A slot \in MountedOn(s) : SlotsOn(s)[slot] \in [visible : {slot # "kept"}, focused : BOOLEAN]
         /\ "zoom" \in MountedOn(s) => SlotsOn(s)["zoom"] = [visible |-> TRUE, focused |-> TRUE]
         /\ s.leaving => "detail" \in DOMAIN slots /\ slots["detail"] = SlotsOn(s)["detail"]
<1>0. /\ DOMAIN SlotsOn(s) = MountedOn(s)
      /\ \A slot \in MountedOn(s) : SlotsOn(s)[slot] = PropsOf(s, slot)
  BY DEF SlotsOn
<1>1. s.leaving => /\ "detail" \in DOMAIN slots
                   /\ slots["detail"] \in [visible : {TRUE}, focused : BOOLEAN]
  <2>1. s.leaving => "detail" \in MountedOn(screen)
    BY Mounts DEF Proper
  <2>2. {"detail" # "kept"} = {TRUE}
    OBVIOUS
  <2>. QED BY <2>1, <2>2 DEF SlotsFit
<1>2. s.leaving => slots["detail"] = PropsOf(s, "detail")
  BY <1>1 DEF PropsOf
<1>3. "detail" \in MountedOn(s) <=> s.mobile /\ (s.chosen \/ s.leaving)
  BY Mounts
<1>4. PropsOf(s, "zoom") = [visible |-> TRUE, focused |-> TRUE]
  BY DEF PropsOf
<1>5. \A slot \in MountedOn(s) : PropsOf(s, slot) \in [visible : {slot # "kept"}, focused : BOOLEAN]
  <2>1. MountedOn(s) \subseteq Slot
    BY Mounts
  <2>2. ASSUME NEW slot \in Slot
        PROVE  PropsOf(s, slot) \in [visible : {slot # "kept"}, focused : BOOLEAN]
    <3>1. CASE slot = "detail"
      BY <1>1, <3>1 DEF PropsOf, Proper, Screen
    <3>2. CASE slot = "kept"
      BY <3>2 DEF PropsOf
    <3>3. CASE slot = "dock"
      BY <3>3 DEF PropsOf, Proper, Screen
    <3>4. CASE slot = "zoom"
      <4>1. PropsOf(s, slot) \in [visible : {TRUE}, focused : BOOLEAN]
        <5>1. PropsOf(s, slot) = [visible |-> TRUE, focused |-> TRUE]
          BY <1>4, <3>4
        <5>. QED BY ONLY <5>1
      <4>2. {slot # "kept"} = {TRUE}
        BY <3>4
      <4>. QED BY ONLY <4>1, <4>2
    <3>. QED BY <3>1, <3>2, <3>3, <3>4 DEF Slot
  <2>. QED BY <2>1, <2>2
<1>6. s.leaving => SlotsOn(s)["detail"] = PropsOf(s, "detail")
  BY <1>0, <1>3 DEF Proper
<1>7. "zoom" \in MountedOn(s) => SlotsOn(s)["zoom"] = [visible |-> TRUE, focused |-> TRUE]
  BY <1>0, <1>4
<1>8. \A slot \in MountedOn(s) : SlotsOn(s)[slot] \in [visible : {slot # "kept"}, focused : BOOLEAN]
  BY <1>0, <1>5
<1>. QED BY <1>0, <1>1, <1>2, <1>6, <1>7, <1>8

(* Whether a slot keeps its props.                                                 *)
Kept(s, slot) == slot \in DOMAIN slots /\ slot \in DOMAIN SlotsOn(s) /\ slots[slot] = SlotsOn(s)[slot]
Fresh(s) == {slot \in DOMAIN SlotsOn(s) : ~Kept(s, slot)}
Freed(s) == IF surface.at \in DOMAIN slots /\ ~Kept(s, surface.at) THEN Release(surface) ELSE surface
Taken(s) == IF Fresh(s) = {} THEN Freed(s)
            ELSE Acquire(Freed(s), LastOf(Fresh(s)), SlotsOn(s)[LastOf(Fresh(s))].visible)

LEMMA CommitIs ==
  ASSUME NEW s, Commit(s)
  PROVE  /\ screen' = s /\ slots' = SlotsOn(s) /\ replay' = replay
         /\ heard' = {p \in MountedOn(s) \X MountedOn(s) :
                         IF Kept(s, p[1]) THEN Kept(s, p[2]) => p \in heard
                         ELSE ~Kept(s, p[2]) /\ TreeOrder[p[1]] < TreeOrder[p[2]]}
         /\ surface' = IF Taken(s) # NoSurface /\ Active(s) # Active(screen)
                       THEN [Taken(s) EXCEPT !.shown = Active(s) /\ ~replay.paused] ELSE Taken(s)
         /\ passedBy' = /\ OnScreen(s) # "none" /\ Kept(s, OnScreen(s))
                        /\ passedBy \/ Fresh(s) # {} \/ OnScreen(screen) # OnScreen(s)
BY DEF Commit, Kept, Fresh, Freed, Taken

(* Commits from one proper screen to another: what slides out was looked at or slid *)
(* out before, and a small screen is zoomed if the large one was.                   *)
Moves(s) ==
    /\ Proper(s)
    /\ s.leaving => screen.chosen \/ screen.leaving
    /\ s.mobile => s.zoomed = screen.zoomed /\ screen.open

(* Which effects a commit runs.                                                    *)
LEMMA Effects ==
  ASSUME Proper(screen), SlotsFit, NEW s, Moves(s)
  PROVE  /\ s.mobile /\ "zoom" \in MountedOn(s) => Kept(s, "zoom")
         /\ s.leaving => Kept(s, "detail")
         /\ Fresh(s) \subseteq MountedOn(s)
         /\ \A slot \in MountedOn(s) : slot \in Fresh(s) <=> ~Kept(s, slot)
         /\ \A slot : Kept(s, slot) => slot \in MountedOn(s) /\ slot \in MountedOn(screen)
         /\ OnScreen(s) = "none" => Fresh(s) \subseteq {"kept"}
         /\ OnScreen(s) # "none" /\ ~Kept(s, OnScreen(s)) => LastOf(Fresh(s)) = OnScreen(s)
<1>1. Proper(s) /\ DOMAIN SlotsOn(s) = MountedOn(s) /\ DOMAIN slots = MountedOn(screen)
  BY Props DEF Moves, SlotsFit
<1>2. s.mobile /\ "zoom" \in MountedOn(s) => Kept(s, "zoom")
  <2>1. s.mobile /\ "zoom" \in MountedOn(s) => "zoom" \in MountedOn(screen)
    BY <1>1, Mounts DEF Moves
  <2>. QED BY <1>1, <2>1, Props DEF Moves, SlotsFit, Kept
<1>3. s.leaving => Kept(s, "detail")
  <2>1. s.leaving => "detail" \in MountedOn(s)
    BY <1>1, Mounts DEF Proper
  <2>. QED BY <1>1, <2>1, Props DEF Moves, Kept
<1>4. /\ Fresh(s) \subseteq MountedOn(s)
      /\ \A slot \in MountedOn(s) : slot \in Fresh(s) <=> ~Kept(s, slot)
      /\ \A slot : Kept(s, slot) => slot \in MountedOn(s) /\ slot \in MountedOn(screen)
  BY <1>1 DEF Fresh, Kept
<1>5. ASSUME OnScreen(s) = "none" PROVE Fresh(s) \subseteq {"kept"}
  <2>1. ASSUME NEW slot \in Fresh(s) PROVE slot = "kept"
    <3>1. slot \in MountedOn(s) /\ slot \in Slot /\ ~Kept(s, slot)
      BY <1>1, <1>4, Mounts
    <3>2. slot # "dock"
      BY <1>1, <1>5, <3>1, Mounts
    <3>3. slot # "detail"
      BY <1>1, <1>3, <1>5, <3>1, Mounts
    <3>4. slot # "zoom"
      BY <1>1, <1>2, <1>5, <3>1, Mounts
    <3>. QED BY <3>1, <3>2, <3>3, <3>4 DEF Slot
  <2>. QED BY <2>1
<1>6. ASSUME OnScreen(s) # "none", ~Kept(s, OnScreen(s)) PROVE LastOf(Fresh(s)) = OnScreen(s)
  <2>1. OnScreen(s) \in Fresh(s)
    BY <1>1, <1>4, <1>6, Mounts
  <2>2. CASE OnScreen(s) = "detail"
    <3>1. Fresh(s) = {"detail"}
      <4>1. "dock" \notin Fresh(s) /\ "kept" \notin Fresh(s)
        BY <1>1, <1>4, <2>2, Mounts
      <4>2. "zoom" \notin Fresh(s)
        BY <1>1, <1>2, <1>4, <2>2, Mounts
      <4>. QED BY <1>1, <1>4, <2>1, <2>2, <4>1, <4>2, Mounts DEF Slot
    <3>. QED BY <2>2, <3>1, LastOfOne DEF Slot
  <2>3. CASE OnScreen(s) = "dock"
    <3>1. "detail" \notin Fresh(s) /\ "kept" \notin Fresh(s) /\ "zoom" \notin Fresh(s)
      BY <1>1, <1>4, <2>3, Mounts
    <3>2. Fresh(s) = {"dock"}
      BY <1>1, <1>4, <2>1, <2>3, <3>1, Mounts DEF Slot
    <3>. QED BY <2>3, <3>2, LastOfOne DEF Slot
  <2>4. CASE OnScreen(s) = "zoom"
    <3>1. "detail" \notin Fresh(s) /\ "kept" \notin Fresh(s)
      BY <1>1, <1>4, <2>4, Mounts
    <3>2. Fresh(s) = {"zoom"} \/ Fresh(s) = {"dock", "zoom"}
      BY <1>1, <1>4, <2>1, <2>4, <3>1, Mounts DEF Slot
    <3>. QED BY <2>4, <3>2, LastOfOne, LastOfZoomed DEF Slot
  <2>. QED BY <1>1, <1>6, <2>2, <2>3, <2>4, Mounts
<1>. QED BY <1>2, <1>3, <1>4, <1>5, <1>6

(* Which slot subscribed before which after a commit.                              *)
LEMMA HeardKeeps ==
  ASSUME Proper(screen), SlotsFit, HeardInv, NEW s, Moves(s), Commit(s)
  PROVE  HeardInv'
<1>0. /\ screen' = s /\ Proper(s) /\ MountedOn(s) \subseteq Slot
      /\ heard' = {p \in MountedOn(s) \X MountedOn(s) :
                         IF Kept(s, p[1]) THEN Kept(s, p[2]) => p \in heard
                         ELSE ~Kept(s, p[2]) /\ TreeOrder[p[1]] < TreeOrder[p[2]]}
      /\ passedBy' = /\ OnScreen(s) # "none" /\ Kept(s, OnScreen(s))
                     /\ passedBy \/ Fresh(s) # {} \/ OnScreen(screen) # OnScreen(s)
  BY CommitIs, Mounts DEF Moves
<1>1. ASSUME NEW a \in MountedOn(s), NEW b \in MountedOn(s)
      PROVE  <<a, b>> \in heard' <=> IF Kept(s, a) THEN Kept(s, b) => <<a, b>> \in heard
                                     ELSE ~Kept(s, b) /\ TreeOrder[a] < TreeOrder[b]
  BY <1>0
<1>2. ASSUME NEW a \in MountedOn(s), NEW b \in MountedOn(s), a # b
      PROVE  <<a, b>> \in heard' <=> <<b, a>> \notin heard'
  <2>1. CASE Kept(s, a) /\ Kept(s, b)
    <3>1. <<a, b>> \in heard <=> <<b, a>> \notin heard
      BY <1>2, <2>1, Effects DEF HeardInv
    <3>. QED BY <1>1, <2>1, <3>1
  <2>2. CASE ~Kept(s, a) /\ ~Kept(s, b)
    <3>1. TreeOrder[a] < TreeOrder[b] <=> ~(TreeOrder[b] < TreeOrder[a])
      BY <1>0, <1>2, Tree DEF Slot
    <3>. QED BY <1>1, <2>2, <3>1
  <2>. QED BY <1>1, <2>1, <2>2
<1>3. ASSUME s.mobile, NEW slot \in MountedOn(s), "zoom" \in MountedOn(s), slot # "zoom"
      PROVE  <<"zoom", slot>> \in heard'
  <2>1. Kept(s, "zoom")
    BY <1>3, Effects
  <2>2. ASSUME Kept(s, slot) PROVE <<"zoom", slot>> \in heard
    <3>1. slot \in MountedOn(screen) /\ "zoom" \in MountedOn(screen)
      BY <2>1, <2>2, Effects
    <3>2. slot \in {"detail", "kept"}
      BY <1>0, <1>3, Mounts DEF Slot
    <3>3. screen.mobile
      BY <3>1, <3>2, Mounts
    <3>. QED BY <1>3, <3>1, <3>3 DEF HeardInv
  <2>. QED BY <1>1, <1>3, <2>1, <2>2
<1>4. ASSUME s.leaving PROVE <<"detail", "kept">> \in heard'
  <2>1. "detail" \in MountedOn(s) /\ "kept" \in MountedOn(s) /\ Kept(s, "detail")
    BY <1>0, <1>4, Effects, Mounts DEF Proper
  <2>2. ASSUME Kept(s, "kept") PROVE <<"detail", "kept">> \in heard
    <3>1. "detail" \in MountedOn(screen) /\ "kept" \in MountedOn(screen)
      BY <2>1, <2>2, Effects
    <3>. QED BY <3>1, Mounts DEF HeardInv
  <2>. QED BY <1>1, <2>1, <2>2
<1>5. ASSUME OnScreen(s) # "none", ~passedBy', NEW slot \in MountedOn(s), slot # OnScreen(s)
      PROVE  <<slot, OnScreen(s)>> \in heard'
  <2>1. PICK t \in MountedOn(s) : t = OnScreen(s)
    BY <1>0, <1>5, Mounts
  <2>2. CASE Kept(s, t)
    <3>1. ~passedBy /\ Fresh(s) = {} /\ OnScreen(screen) = t
      BY <1>0, <1>5, <2>1, <2>2
    <3>2. Kept(s, slot)
      BY <1>5, <3>1, Effects
    <3>3. slot \in MountedOn(screen) /\ t \in MountedOn(screen)
      BY <2>2, <3>2, Effects
    <3>4. <<slot, t>> \in heard
      BY <1>5, <2>1, <3>1, <3>3 DEF HeardInv
    <3>. QED BY <1>1, <2>1, <3>2, <3>4
  <2>3. CASE ~Kept(s, t)
    <3>1. CASE Kept(s, slot)
      BY <1>1, <2>1, <2>3, <3>1
    <3>2. CASE ~Kept(s, slot)
      <4>1. TreeOrder[slot] < TreeOrder[t]
        <5>1. CASE t = "detail"
          <6>1. s.mobile /\ s.chosen
            BY <1>0, <2>1, <5>1, Mounts
          <6>2. slot = "zoom"
            BY <1>0, <1>5, <2>1, <5>1, <6>1, Mounts DEF Slot
          <6>. QED BY <3>2, <6>1, <6>2, Effects
        <5>2. CASE t = "dock"
          BY <1>0, <1>5, <2>1, <5>2, Mounts DEF Slot
        <5>3. CASE t = "zoom"
          BY <1>0, <1>5, <2>1, <5>3, Tree DEF Slot
        <5>. QED BY <1>0, <1>5, <2>1, <5>1, <5>2, <5>3, Mounts
      <4>. QED BY <1>1, <2>1, <2>3, <3>2, <4>1
    <3>. QED BY <3>1, <3>2
  <2>. QED BY <2>2, <2>3
<1>. QED BY <1>0, <1>2, <1>3, <1>4, <1>5 DEF HeardInv

LEMMA SlotsKeep ==
  ASSUME Proper(screen), SlotsFit, NEW s, Moves(s), Commit(s)
  PROVE  Proper(screen)' /\ SlotsFit'
<1>1. screen' = s /\ slots' = SlotsOn(s)
  BY CommitIs
<1>. QED BY <1>1, Props DEF Moves, SlotsFit

(* A commit: the slot that is looked at then runs its effect, which takes the       *)
(* surface, or kept it all the while, or is passed by.                              *)
LEMMA CommitKeeps ==
  ASSUME PlacementInv, NEW s, Moves(s), Commit(s)
  PROVE  PlacementInv'
<1>0. /\ Proper(screen) /\ SlotsFit /\ HeardInv /\ ReplayInv /\ SurfaceInv /\ Placed
      /\ Proper(s)
  BY DEF PlacementInv, Moves
<1>1. Proper(screen)' /\ SlotsFit' /\ HeardInv'
  BY <1>0, SlotsKeep, HeardKeeps
<1>2. /\ screen' = s /\ replay' = replay
      /\ surface' = IF Taken(s) # NoSurface /\ Active(s) # Active(screen)
                    THEN [Taken(s) EXCEPT !.shown = Active(s) /\ ~replay.paused] ELSE Taken(s)
      /\ passedBy' = /\ OnScreen(s) # "none" /\ Kept(s, OnScreen(s))
                     /\ passedBy \/ Fresh(s) # {} \/ OnScreen(screen) # OnScreen(s)
  BY CommitIs
<1>3. /\ Active(s) = (OnScreen(s) # "none") /\ Active(screen) = (OnScreen(screen) # "none")
      /\ replay.paused \in BOOLEAN /\ passedBy' \in BOOLEAN
      /\ replay.paused => replay.attach = "hidden"
  BY <1>0, <1>2, Mounts DEF ReplayInv
<1>4. /\ Freed(s) \in Surfaces /\ (Freed(s) = NoSurface <=> surface = NoSurface)
      /\ Freed(s).at = "none" => Freed(s) = NoSurface
      /\ Freed(s) = surface \/ Freed(s) = [at |-> "home", shown |-> FALSE]
      /\ Kept(s, surface.at) => Freed(s) = surface
  <2>1. "none" \notin DOMAIN slots
    BY <1>0, Mounts DEF SlotsFit, Slot
  <2>2. surface \in Surfaces /\ (surface.at = "none" <=> surface = NoSurface)
    BY <1>0 DEF SurfaceInv, NoSurface
  <2>. QED BY <2>1, <2>2 DEF Freed, Release, NoSurface, Surfaces
<1>5. PICK took \in Surfaces :
          /\ took = Taken(s) /\ (took.at = "none" => took = NoSurface)
          /\ took = NoSurface <=> surface = NoSurface
          /\ Fresh(s) = {} => took = Freed(s)
          /\ took.shown => OnScreen(s) # "none" \/ (took.at = surface.at /\ surface.shown)
          /\ OnScreen(s) # "none" /\ ~Kept(s, OnScreen(s)) /\ took # NoSurface =>
                took.at = OnScreen(s) /\ took.shown
  <2>1. CASE Fresh(s) = {}
    <3>1. Taken(s) = Freed(s)
      BY <2>1 DEF Taken
    <3>2. OnScreen(s) # "none" => Kept(s, OnScreen(s))
      BY <1>0, <2>1, Effects, Mounts
    <3>. QED BY <1>4, <2>1, <3>1, <3>2
  <2>2. CASE Fresh(s) # {}
    <3>1. PICK l : l = LastOf(Fresh(s))
      OBVIOUS
    <3>2. Taken(s) = IF surface = NoSurface THEN NoSurface ELSE [at |-> l, shown |-> SlotsOn(s)[l].visible]
      BY <1>4, <2>2, <3>1 DEF Taken, Acquire
    <3>3. l \in Fresh(s) /\ l \in MountedOn(s) /\ l \in Slot
      <4>1. Fresh(s) \subseteq Slot
        BY <1>0, Effects, Mounts
      <4>2. \E slot \in Fresh(s) : \A other \in Fresh(s) : TreeOrder[other] <= TreeOrder[slot]
        <5>1. CASE "zoom" \in Fresh(s)
          BY <4>1, <5>1, Tree DEF Slot
        <5>2. CASE "zoom" \notin Fresh(s) /\ "dock" \in Fresh(s)
          BY <4>1, <5>2, Tree DEF Slot
        <5>3. CASE "zoom" \notin Fresh(s) /\ "dock" \notin Fresh(s) /\ "kept" \in Fresh(s)
          BY <4>1, <5>3, Tree DEF Slot
        <5>4. CASE Fresh(s) = {"detail"}
          BY <5>4, Tree DEF Slot
        <5>. QED BY <2>2, <4>1, <5>1, <5>2, <5>3, <5>4 DEF Slot
      <4>3. l \in Fresh(s)
        BY <3>1, <4>2 DEF LastOf
      <4>. QED BY <1>0, <4>1, <4>3, Effects
    <3>4. SlotsOn(s)[l].visible = (l # "kept")
      BY <1>0, <3>3, Props DEF Moves
    <3>5. OnScreen(s) = "none" => l = "kept"
      BY <1>0, <3>3, Effects
    <3>6. OnScreen(s) # "none" /\ ~Kept(s, OnScreen(s)) => l = OnScreen(s) /\ l # "kept"
      BY <1>0, <3>1, Effects, Mounts
    <3>7. CASE surface = NoSurface
      BY <1>4, <2>2, <3>2, <3>7 DEF NoSurface, Surfaces
    <3>8. CASE surface # NoSurface
      <4>1. Taken(s) = [at |-> l, shown |-> (l # "kept")]
        BY <3>2, <3>4, <3>8
      <4>2. PICK r \in Surfaces : r = Taken(s) /\ r.at = l /\ r.shown = (l # "kept")
        <5>1. PICK shows \in BOOLEAN : shows = (l # "kept")
          OBVIOUS
        <5>2. Taken(s) = [at |-> l, shown |-> shows]
          BY ONLY <4>1, <5>1
        <5>3. Taken(s) \in Surfaces /\ Taken(s).at = l /\ Taken(s).shown = shows
          BY <3>3, <5>2 DEF Surfaces
        <5>. QED BY ONLY <5>1, <5>3
      <4>3. r.at # "none" /\ r # NoSurface
        BY <3>3, <4>2 DEF Slot, NoSurface
      <4>4. OnScreen(s) # "none" /\ ~Kept(s, OnScreen(s)) => r.at = OnScreen(s) /\ r.shown
        BY <3>6, <4>2
      <4>5. r.shown => OnScreen(s) # "none"
        BY <3>5, <4>2
      <4>. QED BY ONLY <2>2, <3>8, <4>2, <4>3, <4>4, <4>5
    <3>. QED BY <3>7, <3>8
  <2>. QED BY <2>1, <2>2
<1>6. \/ surface' = took /\ (took = NoSurface \/ Active(s) = Active(screen))
      \/ /\ took # NoSurface /\ Active(s) # Active(screen)
         /\ surface' = [took EXCEPT !.shown = Active(s) /\ ~replay.paused]
  BY <1>2, <1>5
<1>7. PICK now \in Surfaces :
          /\ now = surface' /\ now.at = took.at /\ (now = NoSurface <=> took = NoSurface)
          /\ now.shown = took.shown \/ now.shown = (Active(s) /\ ~replay.paused)
          /\ now.shown = took.shown \/ (took # NoSurface /\ Active(s) # Active(screen))
          /\ Active(screen) /\ ~Active(s) /\ now # NoSurface => ~now.shown
          /\ Active(s) = Active(screen) => now = took
  <2>1. CASE surface' = took /\ (took = NoSurface \/ Active(s) = Active(screen))
    BY <1>3, <2>1
  <2>2. CASE /\ took # NoSurface /\ Active(s) # Active(screen)
             /\ surface' = [took EXCEPT !.shown = Active(s) /\ ~replay.paused]
    <3>1. PICK shows \in BOOLEAN : shows = (Active(s) /\ ~replay.paused)
      BY <1>3
    <3>2. surface' = [took EXCEPT !.shown = shows]
      BY <2>2, <3>1
    <3>3. /\ surface' \in Surfaces /\ surface'.at = took.at /\ surface'.shown = shows
          /\ took.at # "none" /\ surface' # NoSurface
      BY <1>5, <2>2, <3>2 DEF Surfaces, NoSurface
    <3>4. Active(screen) /\ ~Active(s) => ~shows
      BY <3>1
    <3>5. surface'.shown = (Active(s) /\ ~replay.paused)
      BY <3>1, <3>3
    <3>. QED BY ONLY <2>2, <3>1, <3>3, <3>4, <3>5
  <2>. QED BY <1>6, <2>1, <2>2
<1>8. SurfaceInv'
  BY <1>5, <1>7 DEF SurfaceInv, NoSurface
<1>9. ReplayInv'
  BY <1>0, <1>2, <1>3, <1>5, <1>7 DEF ReplayInv, Exists
<1>10. ASSUME OnScreen(s) = "none", now # NoSurface, now.shown PROVE now.at = "zoom"
  <2>1. ~Active(s) /\ ~Active(screen)
    BY <1>3, <1>7, <1>10
  <2>2. took.shown /\ surface # NoSurface
    BY <1>5, <1>7, <1>10, <2>1
  <2>3. took.at = surface.at /\ surface.shown
    BY <1>5, <1>10, <2>2
  <2>4. OnScreen(screen) = "none"
    BY <1>3, <2>1
  <2>. QED BY <1>0, <1>7, <2>2, <2>3, <2>4 DEF Placed, Exists
<1>11. ASSUME OnScreen(s) # "none", now # NoSurface, ~passedBy'
       PROVE  now.at = OnScreen(s) /\ (now.shown \/ replay.attach = "hidden")
  <2>1. CASE Kept(s, OnScreen(s))
    <3>1. ~passedBy /\ Fresh(s) = {} /\ OnScreen(screen) = OnScreen(s)
      BY <1>2, <1>11, <2>1
    <3>2. surface # NoSurface
      BY <1>5, <1>7, <1>11
    <3>3. surface.at = OnScreen(s) /\ (surface.shown \/ replay.attach = "hidden")
      BY <1>0, <1>11, <3>1, <3>2 DEF Placed, Exists
    <3>4. took = surface
      BY <1>4, <1>5, <2>1, <3>1, <3>3
    <3>5. Active(s) = Active(screen)
      BY <1>3, <3>1
    <3>. QED BY <1>7, <3>3, <3>4, <3>5
  <2>2. CASE ~Kept(s, OnScreen(s))
    <3>1. took.at = OnScreen(s) /\ took.shown
      BY <1>5, <1>7, <1>11, <2>2
    <3>2. now.shown \/ replay.attach = "hidden"
      <4>1. Active(s)
        BY <1>3, <1>11
      <4>2. now.shown = took.shown \/ now.shown = ~replay.paused
        BY <1>7, <4>1
      <4>. QED BY <1>3, <3>1, <4>2
    <3>. QED BY <1>7, <3>1, <3>2
  <2>. QED BY <2>1, <2>2
<1>12. Placed'
  BY <1>2, <1>7, <1>10, <1>11 DEF Placed, Exists
<1>. QED BY <1>1, <1>8, <1>9, <1>12 DEF PlacementInv

LEMMA PlacementInitially == PlacementInit => PlacementInv
<1>. SUFFICES ASSUME PlacementInit PROVE PlacementInv
  OBVIOUS
<1>1. Proper(screen)
  BY DEF PlacementInit, Proper, Screen
<1>2. MountedOn(screen) = {} /\ OnScreen(screen) = "none"
  BY <1>1, Mounts DEF PlacementInit, Slot
<1>3. SlotsFit /\ HeardInv
  BY <1>2 DEF SlotsFit, HeardInv, PlacementInit
<1>4. ReplayInv /\ SurfaceInv /\ Placed
  BY DEF ReplayInv, SurfaceInv, Surfaces, Placed, Exists, NoSurface, PlacementInit
<1>. QED BY <1>1, <1>3, <1>4 DEF PlacementInv

(* The surface comes, goes, or is hidden and shown by its panel's replay.           *)
LEMMA SurfaceKeeps ==
  ASSUME PlacementInv,
         Register \/ Unregister \/ AttachStarts \/ HistoryReplaces \/ AttachEnds \/ EarlierEnds
  PROVE  PlacementInv'
<1>0. /\ Proper(screen) /\ SlotsFit /\ HeardInv /\ ReplayInv /\ SurfaceInv /\ Placed
      /\ UNCHANGED <<screen, slots, heard, passedBy>>
  BY DEF PlacementInv, Register, Unregister, AttachStarts, HistoryReplaces, AttachEnds, EarlierEnds
<1>1. Proper(screen)' /\ SlotsFit' /\ HeardInv'
  BY <1>0 DEF SlotsFit, HeardInv
<1>2. /\ Active(screen) \in BOOLEAN /\ Active(screen) = (OnScreen(screen) # "none")
      /\ OnScreen(screen) \in {"none", "detail", "dock", "zoom"}
  BY <1>0, Mounts
<1>3. CASE Register
  <2> DEFINE made == [at |-> "home", shown |-> Active(screen)]
  <2>1. /\ surface' = IF DOMAIN slots = {} THEN made ELSE Acquire(made, Latest, slots[Latest].visible)
        /\ replay' = replay /\ surface = NoSurface
    BY <1>3 DEF Register, Exists
  <2>2. made # NoSurface /\ made \in Surfaces
    BY <1>2 DEF NoSurface, Surfaces
  <2>3. CASE DOMAIN slots = {}
    <3>1. OnScreen(screen) = "none"
      BY <1>0, <2>3, Mounts DEF SlotsFit
    <3>2. surface' = [at |-> "home", shown |-> FALSE]
      BY <1>2, <2>1, <2>3, <3>1
    <3>3. /\ surface' \in Surfaces /\ surface'.at = "home" /\ surface'.shown = FALSE
          /\ surface' # NoSurface
      BY <3>2 DEF Surfaces, NoSurface
    <3>4. SurfaceInv' /\ ReplayInv'
      BY <1>0, <2>1, <3>3 DEF SurfaceInv, ReplayInv, Exists
    <3>5. Placed'
      BY <1>0, <3>1, <3>3 DEF Placed
    <3>. QED BY <1>1, <3>4, <3>5 DEF PlacementInv
  <2>4. CASE DOMAIN slots # {}
    <3>1. /\ Latest \in DOMAIN slots /\ Latest \in Slot
          /\ OnScreen(screen) # "none" /\ ~passedBy => Latest = OnScreen(screen)
          /\ OnScreen(screen) = "none" => Latest \in {"kept", "zoom"}
      BY <1>0, <2>4, LatestHeard, Mounts DEF SlotsFit
    <3>2. slots[Latest].visible = (Latest # "kept")
      BY <1>0, <3>1 DEF SlotsFit
    <3>3. surface' = [at |-> Latest, shown |-> (Latest # "kept")]
      <4>. HIDE DEF made
      <4>. QED BY <2>1, <2>2, <2>4, <3>2 DEF Acquire
    <3>4. surface' \in Surfaces /\ surface'.at = Latest /\ surface'.shown = (Latest # "kept")
      BY <3>1, <3>3 DEF Surfaces
    <3>5. SurfaceInv' /\ ReplayInv'
      BY <1>0, <2>1, <3>1, <3>4 DEF SurfaceInv, ReplayInv, Exists, NoSurface, Slot
    <3>6. Placed'
      BY <1>0, <1>2, <3>1, <3>4 DEF Placed
    <3>. QED BY <1>1, <3>5, <3>6 DEF PlacementInv
  <2>. QED BY <2>3, <2>4
<1>4. CASE Unregister
  <2>1. surface' = NoSurface /\ replay'.attach = "none" /\ replay'.paused = FALSE /\ replay'.earlier \in BOOLEAN
    BY <1>0, <1>4 DEF Unregister, ReplayInv
  <2>2. replay' \in [attach : {"none", "running", "hidden"}, paused : BOOLEAN, earlier : BOOLEAN]
    BY <1>0, <1>4 DEF Unregister, ReplayInv
  <2>3. SurfaceInv' /\ Placed' /\ ReplayInv'
    BY <1>0, <2>1, <2>2 DEF SurfaceInv, Surfaces, Placed, ReplayInv, Exists, NoSurface
  <2>. QED BY <1>1, <2>3 DEF PlacementInv
<1>5. CASE AttachStarts \/ EarlierEnds
  <2>1. /\ surface' = surface
        /\ replay' \in [attach : {"none", "running", "hidden"}, paused : BOOLEAN, earlier : BOOLEAN]
        /\ replay'.paused => replay'.attach = "hidden"
        /\ replay'.attach # "none" => Exists
        /\ replay.attach = "hidden" => replay'.attach = "hidden"
    BY <1>0, <1>5 DEF AttachStarts, EarlierEnds, ReplayInv
  <2>2. SurfaceInv' /\ Placed' /\ ReplayInv'
    BY <1>0, <2>1 DEF SurfaceInv, Placed, ReplayInv, Exists
  <2>. QED BY <1>1, <2>2 DEF PlacementInv
<1>6. CASE HistoryReplaces
  <2>1. /\ replay.attach = "running" /\ surface # NoSurface /\ surface' = [surface EXCEPT !.shown = FALSE]
        /\ replay' = [replay EXCEPT !.attach = "hidden", !.paused = TRUE]
    BY <1>0, <1>6 DEF HistoryReplaces, ReplayInv, Exists
  <2>2. /\ surface' \in Surfaces /\ surface'.at = surface.at /\ surface'.shown = FALSE
        /\ surface.at # "none" /\ surface' # NoSurface
    BY <1>0, <2>1 DEF SurfaceInv, Surfaces, NoSurface
  <2>3. SurfaceInv' /\ ReplayInv' /\ replay'.attach = "hidden"
    BY <1>0, <2>1, <2>2 DEF SurfaceInv, ReplayInv, Exists
  <2>4. Placed'
    BY <1>0, <2>1, <2>2, <2>3 DEF Placed, Exists
  <2>. QED BY <1>1, <2>3, <2>4 DEF PlacementInv
<1>7. CASE AttachEnds
  <2>1. /\ surface # NoSurface /\ surface' = [surface EXCEPT !.shown = Active(screen)]
        /\ replay' = [replay EXCEPT !.attach = "none", !.paused = FALSE]
    BY <1>0, <1>7 DEF AttachEnds, ReplayInv, Exists
  <2>2. /\ surface' \in Surfaces /\ surface'.at = surface.at /\ surface'.shown = Active(screen)
        /\ surface.at # "none" /\ surface' # NoSurface
    BY <1>0, <1>2, <2>1 DEF SurfaceInv, Surfaces, NoSurface
  <2>3. SurfaceInv' /\ ReplayInv'
    BY <1>0, <2>1, <2>2 DEF SurfaceInv, ReplayInv, Exists
  <2>4. Placed'
    BY <1>0, <1>2, <2>1, <2>2 DEF Placed, Exists
  <2>. QED BY <1>1, <2>3, <2>4 DEF PlacementInv
<1>. QED BY <1>3, <1>4, <1>5, <1>6, <1>7

(* What the user does is a commit of another proper screen.                        *)
LEMMA UsersKeep ==
  ASSUME PlacementInv,
         Switch \/ Refocus \/ Overlay \/ Zoom \/ Narrow \/ Widen \/ Choose \/ Back \/ SlidOut \/ Forget
  PROVE  PlacementInv'
<1>0. Proper(screen) /\ screen \in Screen
  BY DEF PlacementInv, Proper
<1>1. CASE Switch
  <2>1. PICK f \in BOOLEAN : Commit([screen EXCEPT !.open = ~screen.open, !.focused = f])
    BY <1>1 DEF Switch
  <2>2. PICK s \in Screen : s = [screen EXCEPT !.open = ~screen.open, !.focused = f]
    BY <1>0 DEF Screen
  <2>3. Moves(s)
    BY <1>0, <1>1, <2>2 DEF Switch, Moves, Proper, Screen
  <2>. QED BY <2>1, <2>2, <2>3, CommitKeeps
<1>2. CASE Refocus \/ Overlay \/ Zoom
  <2>1. PICK s \in Screen : /\ \/ s = [screen EXCEPT !.focused = ~screen.focused]
                               \/ s = [screen EXCEPT !.overlay = ~screen.overlay]
                               \/ ~screen.mobile /\ s = [screen EXCEPT !.zoomed = ~screen.zoomed, !.focused = TRUE]
                            /\ Commit(s)
    BY <1>0, <1>2 DEF Refocus, Overlay, Zoom, Screen
  <2>2. Moves(s)
    BY <1>0, <2>1 DEF Moves, Proper, Screen
  <2>. QED BY <2>1, <2>2, CommitKeeps
<1>3. CASE Narrow
  <2>1. PICK c \in BOOLEAN : Commit([screen EXCEPT !.mobile = TRUE, !.chosen = c, !.retained = c])
    BY <1>3 DEF Narrow
  <2>2. PICK s \in Screen : s = [screen EXCEPT !.mobile = TRUE, !.chosen = c, !.retained = c]
    BY <1>0 DEF Screen
  <2>3. Moves(s)
    BY <1>0, <1>3, <2>2 DEF Narrow, Moves, Proper, Screen
  <2>. QED BY <2>1, <2>2, <2>3, CommitKeeps
<1>4. CASE Widen
  <2>1. PICK s \in Screen : /\ s = [screen EXCEPT !.mobile = FALSE, !.chosen = FALSE, !.retained = FALSE, !.leaving = FALSE]
                            /\ Commit(s)
    BY <1>0, <1>4 DEF Widen, Screen
  <2>2. Moves(s)
    BY <1>0, <1>4, <2>1 DEF Widen, Moves, Proper, Screen
  <2>. QED BY <2>1, <2>2, CommitKeeps
<1>5. CASE Choose \/ Back
  <2>1. PICK s \in Screen : /\ \/ s = [screen EXCEPT !.chosen = TRUE, !.retained = TRUE, !.leaving = FALSE]
                               \/ screen.chosen /\ s = [screen EXCEPT !.chosen = FALSE, !.leaving = TRUE]
                            /\ screen.mobile /\ Commit(s)
    BY <1>0, <1>5 DEF Choose, Back, Screen
  <2>2. Moves(s)
    BY <1>0, <2>1 DEF Moves, Proper, Screen
  <2>. QED BY <2>1, <2>2, CommitKeeps
<1>6. CASE SlidOut \/ Forget
  <2>1. PICK s \in Screen : /\ \/ s = [screen EXCEPT !.leaving = FALSE]
                               \/ ~screen.chosen /\ ~screen.leaving /\ s = [screen EXCEPT !.retained = FALSE]
                            /\ Commit(s)
    BY <1>0, <1>6 DEF SlidOut, Forget, Screen
  <2>2. Moves(s)
    BY <1>0, <1>6, <2>1 DEF SlidOut, Forget, Moves, Proper, Screen
  <2>. QED BY <2>1, <2>2, CommitKeeps
<1>. QED BY <1>1, <1>2, <1>3, <1>4, <1>5, <1>6

(* The surface is in the slot the user looks at and draws there once no replay hides *)
(* it, and does not while its terminal is not looked at: over every order of          *)
(* mounting, zooms, sliding views, breakpoints, attaches and ends of attaches, until  *)
(* the slot is passed by and until its effect then runs again.                       *)
THEOREM SurfaceStaysPlaced == PlacementSpec => []Placed
<1>1. PlacementInv /\ [PlacementNext]_placementVars => PlacementInv'
  <2>. SUFFICES ASSUME PlacementInv, [PlacementNext]_placementVars PROVE PlacementInv'
    OBVIOUS
  <2>1. CASE UNCHANGED placementVars
    BY <2>1 DEF placementVars, PlacementInv, Proper, SlotsFit, HeardInv, ReplayInv, SurfaceInv, Placed, Exists
  <2>. QED BY <2>1, SurfaceKeeps, UsersKeep DEF PlacementNext
<1>2. PlacementInv => Placed
  BY DEF PlacementInv
<1>. QED BY <1>1, <1>2, PlacementInitially, PTL DEF PlacementSpec

-----------------------------------------------------------------------------
(* Output of a terminal.                                                        *)

\* A set of natural numbers has a least one.
EarlierId == {pair \in Nat \X Nat : pair[1] < pair[2]}

LEMMA EarlierWellFounded == IsWellFoundedOn(EarlierId, Nat)
BY NatLessThanWellFounded DEF OpToRel, EarlierId

Piece == [n : Nat, end : Nat, ack : BOOLEAN]
Queue == [live : Seq(Piece), start : Nat, raf : BOOLEAN, micro : BOOLEAN, flood : BOOLEAN, gap : BOOLEAN,
          writes : Seq(SUBSET Nat), shed : SUBSET Nat]
Posted(sets) == UNION {sets[i] : i \in DOMAIN sets}

(* What waits comes after all that was acknowledged or will be, and so does what   *)
(* was shed; nothing was shed unless the gap is known.                            *)
InLine(w, top) ==
    /\ w \in Queue
    /\ \A i, j \in DOMAIN w.live : i < j => w.live[i].n < w.live[j].n /\ w.live[i].end < w.live[j].end
    /\ \A i \in DOMAIN w.live : w.start < w.live[i].end /\ w.live[i].n <= top
    /\ \A n \in consumed \cup Posted(w.writes) :
         n \in 0..top /\ (\A i \in DOMAIN w.live : n < w.live[i].n) /\ (\A m \in w.shed : n < m)
    /\ \A m \in w.shed : m <= top
    /\ ~w.gap => w.shed = {}
Once(w) == ~(w.raf /\ w.micro)
Tended(w, top) ==
    /\ InLine(w, top) /\ Once(w) /\ Waiting(w) <= MaxPending
    /\ w.live # <<>> => w.raf \/ w.micro
Calm(w) == w.live = <<>> /\ w.shed = {} /\ ~w.gap
OutputInv ==
    /\ pieces \in Nat /\ consumed \in SUBSET Nat /\ {clock, off, asking, replaying} \subseteq BOOLEAN
    /\ Tended(Now, pieces) /\ liveBytes = Waiting(Now)
    /\ replaying /\ ~asking => Calm(Now)

LEMMA LeastIs ==
  ASSUME NEW S \in SUBSET Nat, S # {}
  PROVE  Min(S) \in S /\ \A k \in S : Min(S) <= k
<1>1. PICK n \in S : \A k \in S : ~(<<k, n>> \in EarlierId)
  BY EarlierWellFounded, WFMin
<1>2. \A k \in S : n <= k
  <2>. SUFFICES ASSUME NEW k \in S PROVE n <= k
    OBVIOUS
  <2>1. <<k, n>> \in Nat \X Nat /\ k \in Nat /\ n \in Nat
    OBVIOUS
  <2>2. ~(k < n)
    BY <1>1, <2>1 DEF EarlierId
  <2>. QED BY <2>1, <2>2
<1>. QED BY <1>2 DEF Min

LEMMA MostIs ==
  ASSUME NEW N \in Nat, NEW S \in SUBSET (0..N), S # {}
  PROVE  Max(S) \in S /\ \A k \in S : k <= Max(S)
<1> DEFINE Left == {N - k : k \in S}
<1>1. Left \in SUBSET Nat /\ Left # {}
  <2>1. \A k \in S : N - k \in Nat
    OBVIOUS
  <2>2. PICK k \in S : TRUE
    OBVIOUS
  <2>3. N - k \in Left
    BY <2>2
  <2>. QED BY <2>1, <2>3
<1>2. PICK n \in Left : \A k \in Left : ~(<<k, n>> \in EarlierId)
  <2> HIDE DEF Left
  <2>. QED BY <1>1, EarlierWellFounded, WFMin
<1>3. PICK m \in S : n = N - m
  OBVIOUS
<1>4. \A k \in S : k <= m
  <2>. SUFFICES ASSUME NEW k \in S PROVE k <= m
    OBVIOUS
  <2>1. N - k \in Left /\ N - k \in Nat /\ n \in Nat
    BY <1>1
  <2>2. ~(N - k < n)
    BY <1>2, <2>1 DEF EarlierId
  <2>. QED BY <1>3, <2>1, <2>2
<1>. QED BY <1>4 DEF Max

\* Parts of a sequence.
LEMMA FirstPieces ==
  ASSUME NEW s \in Seq(Piece), NEW k \in 0..Len(s)
  PROVE  /\ SubSeq(s, 1, k) \in Seq(Piece) /\ DOMAIN SubSeq(s, 1, k) = 1..k
         /\ \A i \in 1..k : i \in DOMAIN s /\ SubSeq(s, 1, k)[i] = s[i]
OBVIOUS

LEMMA LastPieces ==
  ASSUME NEW s \in Seq(Piece), NEW k \in 0..Len(s)
  PROVE  /\ SubSeq(s, k + 1, Len(s)) \in Seq(Piece) /\ Len(SubSeq(s, k + 1, Len(s))) = Len(s) - k
         /\ DOMAIN SubSeq(s, k + 1, Len(s)) = 1..Len(s) - k
         /\ \A i \in 1..Len(s) - k : i + k \in DOMAIN s /\ SubSeq(s, k + 1, Len(s))[i] = s[i + k]
OBVIOUS

LEMMA Places ==
  ASSUME NEW top, NEW w, InLine(w, top)
  PROVE  /\ DOMAIN w.live = 1..Len(w.live) /\ Len(w.live) \in Nat
         /\ End(w) \in Nat /\ Waiting(w) \in Nat /\ w.start <= End(w)
         /\ \A k \in 0..Len(w.live) : StartAfter(w, k) \in Nat /\ w.start <= StartAfter(w, k) /\ StartAfter(w, k) <= End(w)
         /\ \A k \in 0..Len(w.live) : k < Len(w.live) => StartAfter(w, k) < End(w)
         /\ \A j, k \in 0..Len(w.live) : j < k => StartAfter(w, j) < StartAfter(w, k)
         /\ StartAfter(w, Len(w.live)) = End(w) /\ StartAfter(w, 0) = w.start
         /\ w.live = <<>> <=> Len(w.live) = 0
<1>0. w.live \in Seq(Piece) /\ w.start \in Nat
  BY DEF InLine, Queue
<1>1. DOMAIN w.live = 1..Len(w.live) /\ Len(w.live) \in Nat /\ (w.live = <<>> <=> Len(w.live) = 0)
  BY <1>0
<1>2. \A i \in DOMAIN w.live : w.live[i].end \in Nat /\ w.start < w.live[i].end
  <2>1. \A i \in DOMAIN w.live : w.live[i] \in Piece
    BY <1>0, <1>1
  <2>. QED BY <2>1 DEF InLine, Piece
<1>3. \A i, j \in DOMAIN w.live : i < j => w.live[i].end < w.live[j].end
  BY DEF InLine
<1>4. /\ StartAfter(w, 0) = w.start
      /\ \A k \in 1..Len(w.live) : StartAfter(w, k) = w.live[k].end
      /\ \A k \in 0..Len(w.live) : k = 0 \/ k \in 1..Len(w.live)
  BY <1>1 DEF StartAfter
<1>5. \A j, k \in 0..Len(w.live) : j < k => StartAfter(w, j) < StartAfter(w, k)
  <2>. SUFFICES ASSUME NEW j \in 0..Len(w.live), NEW k \in 0..Len(w.live), j < k
                PROVE  StartAfter(w, j) < StartAfter(w, k)
    OBVIOUS
  <2>1. k \in 1..Len(w.live) /\ (j = 0 \/ j \in 1..Len(w.live))
    BY <1>1
  <2>. QED BY <1>1, <1>2, <1>3, <1>4, <2>1
<1>6. StartAfter(w, Len(w.live)) = End(w)
  BY <1>0, <1>1, <1>4 DEF End, Last
<1>7. \A k \in 0..Len(w.live) : StartAfter(w, k) \in Nat /\ w.start <= StartAfter(w, k)
  BY <1>0, <1>1, <1>2, <1>4
<1>8. End(w) \in Nat /\ w.start <= End(w)
  BY <1>1, <1>6, <1>7
<1>9. \A k \in 0..Len(w.live) : k < Len(w.live) => StartAfter(w, k) < End(w)
  BY <1>1, <1>5, <1>6
<1>10. \A k \in 0..Len(w.live) : StartAfter(w, k) <= End(w)
  BY <1>1, <1>6, <1>7, <1>8, <1>9
<1>11. Waiting(w) \in Nat
  BY <1>0, <1>8 DEF Waiting
<1>. QED BY <1>1, <1>4, <1>5, <1>6, <1>7, <1>8, <1>9, <1>10, <1>11

\* Only what is due changes.
LEMMA OnlyTiming ==
  ASSUME NEW top, NEW w, InLine(w, top), NEW u \in Queue,
         u.live = w.live, u.start = w.start, u.gap = w.gap, u.writes = w.writes, u.shed = w.shed
  PROVE  InLine(u, top) /\ Waiting(u) = Waiting(w)
BY DEF InLine, Waiting, End

\* The limit holds after it, and only what had not been acknowledged is shed.
LEMMA Sheds ==
  ASSUME NEW top \in Nat, NEW w, InLine(w, top), w.live # <<>>
  PROVE  /\ InLine(ShedOldest(w), top) /\ ShedOldest(w).live # <<>>
         /\ Waiting(ShedOldest(w)) <= MaxPending
         /\ ShedOldest(w).raf = w.raf /\ ShedOldest(w).micro = w.micro
         /\ Waiting(w) <= MaxPending => ShedOldest(w).gap = w.gap /\ ShedOldest(w).shed = w.shed
<1> DEFINE fits(k) == End(w) - StartAfter(w, k) <= MaxPending
           K == {k \in 0..Len(w.live) - 1 : fits(k) \/ k = Len(w.live) - 1}
           kept(k) == SubSeq(w.live, k + 1, Len(w.live))
           v == ShedOldest(w)
<1>0. w \in Queue /\ w.live \in Seq(Piece) /\ w.start \in Nat /\ Len(w.live) \in Nat /\ Len(w.live) > 0
  BY Places DEF InLine, Queue
<1>1. K \in SUBSET Nat /\ Len(w.live) - 1 \in K
  BY <1>0
<1>2. PICK drop \in K : drop = Min(K) /\ \A k \in K : drop <= k
  <2> HIDE DEF K
  <2>1. K # {}
    BY <1>1
  <2>. QED BY <1>1, <2>1, LeastIs
<1>3. drop \in 0..Len(w.live) /\ drop < Len(w.live) /\ drop \in Nat /\ (fits(drop) \/ drop = Len(w.live) - 1)
  <2> HIDE DEF fits
  <2>1. drop \in 0..Len(w.live) - 1 /\ (fits(drop) \/ drop = Len(w.live) - 1)
    BY ONLY <1>2
  <2>. QED BY ONLY <1>0, <2>1
<1>4. MaxPending \in Nat /\ MaxPending > 0
  BY ONLY OutputBounds
<1>5. /\ kept(drop) \in Seq(Piece) /\ Len(kept(drop)) = Len(w.live) - drop
      /\ DOMAIN kept(drop) = 1..Len(w.live) - drop
      /\ \A i \in 1..Len(w.live) - drop : i + drop \in DOMAIN w.live /\ kept(drop)[i] = w.live[i + drop]
  BY <1>0, <1>3, LastPieces
<1>6. /\ SubSeq(w.live, 1, drop) \in Seq(Piece) /\ DOMAIN SubSeq(w.live, 1, drop) = 1..drop
      /\ \A i \in 1..drop : i \in DOMAIN w.live /\ SubSeq(w.live, 1, drop)[i] = w.live[i]
  BY <1>0, <1>3, FirstPieces
<1>7. \A i \in DOMAIN w.live : w.live[i] \in Piece
  BY <1>0, Places
<1>8. v = [w EXCEPT
          !.live = IF fits(drop) THEN kept(drop) ELSE <<[kept(drop)[1] EXCEPT !.ack = FALSE]>>,
          !.start = IF fits(drop) THEN StartAfter(w, drop) ELSE End(w) - MaxPending,
          !.gap = @ \/ drop > 0 \/ ~fits(drop),
          !.shed = @ \union Numbers(SubSeq(w.live, 1, drop)) \union (IF fits(drop) THEN {} ELSE {kept(drop)[1].n})]
  BY <1>2 DEF ShedOldest
<1>9. /\ v.live = IF fits(drop) THEN kept(drop) ELSE <<[kept(drop)[1] EXCEPT !.ack = FALSE]>>
      /\ v.start = IF fits(drop) THEN StartAfter(w, drop) ELSE End(w) - MaxPending
      /\ v.gap = (w.gap \/ drop > 0 \/ ~fits(drop))
      /\ v.shed = w.shed \union Numbers(SubSeq(w.live, 1, drop)) \union (IF fits(drop) THEN {} ELSE {kept(drop)[1].n})
      /\ v.raf = w.raf /\ v.micro = w.micro /\ v.flood = w.flood /\ v.writes = w.writes
      /\ v = [live |-> v.live, start |-> v.start, raf |-> v.raf, micro |-> v.micro, flood |-> v.flood, gap |-> v.gap,
              writes |-> v.writes, shed |-> v.shed]
  <2> HIDE DEF v, fits, kept
  <2>. QED BY <1>0, <1>8 DEF Queue
<1> HIDE DEF v, K, kept
<1>10. \A m \in v.shed : m \in w.shed \/ \E i \in DOMAIN w.live : m = w.live[i].n
  <2>1. \A m \in Numbers(SubSeq(w.live, 1, drop)) : \E i \in DOMAIN w.live : m = w.live[i].n
    BY <1>6 DEF Numbers
  <2>2. 1 + drop \in DOMAIN w.live /\ kept(drop)[1] = w.live[1 + drop]
    BY <1>0, <1>3, <1>5
  <2>. QED BY <1>9, <2>1, <2>2
<1>11. Len(w.live) - drop > 0 /\ StartAfter(w, drop) \in Nat /\ End(w) \in Nat
  BY <1>0, <1>3, Places
<1>12. ~v.gap => v.shed = {}
  <2>. SUFFICES ASSUME ~v.gap PROVE v.shed = {}
    OBVIOUS
  <2>1. w.gap \in BOOLEAN
    BY <1>0 DEF Queue
  <2>2. ~w.gap /\ ~(drop > 0) /\ fits(drop)
    <3> HIDE DEF fits
    <3>. QED BY ONLY ~v.gap, <1>9, <2>1
  <2>3. drop = 0
    BY ONLY <1>3, <2>2
  <2>4. Numbers(SubSeq(w.live, 1, drop)) = {}
    BY <1>6, <2>3 DEF Numbers
  <2>5. w.shed = {}
    BY <2>2 DEF InLine
  <2>. QED BY <1>9, <2>2, <2>4, <2>5
<1>13. Waiting(w) <= MaxPending => v.gap = w.gap /\ v.shed = w.shed
  <2>. SUFFICES ASSUME Waiting(w) <= MaxPending PROVE v.gap = w.gap /\ v.shed = w.shed
    OBVIOUS
  <2>1. StartAfter(w, 0) = w.start
    BY Places
  <2>2. fits(0) /\ 0 \in 0..Len(w.live) - 1
    BY <1>0, <2>1 DEF Waiting
  <2>3. drop = 0 /\ fits(drop)
    <3>1. 0 \in K
      BY <2>2 DEF K
    <3>2. drop <= 0
      BY ONLY <1>2, <3>1
    <3>3. drop = 0
      BY ONLY <1>3, <3>2
    <3>. QED BY <2>2, <3>3
  <2>4. Numbers(SubSeq(w.live, 1, drop)) = {}
    BY <1>6, <2>3 DEF Numbers
  <2>5. w.gap \in BOOLEAN
    BY <1>0 DEF Queue
  <2>. QED BY <1>9, <2>3, <2>4, <2>5
<1>14. v.shed \in SUBSET Nat /\ v.gap \in BOOLEAN
  BY <1>0, <1>7, <1>9, <1>10 DEF Queue, Piece
<1>15. \A n \in consumed \cup Posted(w.writes) : n \in 0..top /\ \A m \in v.shed : n < m
  BY <1>10 DEF InLine
<1>16. \A m \in v.shed : m <= top
  BY <1>10 DEF InLine
<1>17. CASE fits(drop)
  <2>1. v.live = kept(drop) /\ v.start = StartAfter(w, drop)
    BY <1>9, <1>17
  <2>2. v \in Queue
    BY <1>0, <1>5, <1>9, <1>11, <1>14, <2>1 DEF Queue
  <2>3. \A i \in DOMAIN v.live : /\ i \in Nat /\ i > 0 /\ i + drop \in DOMAIN w.live
                                 /\ v.live[i] = w.live[i + drop] /\ drop < i + drop
    BY <1>3, <1>5, <2>1
  <2>4. \A i, j \in DOMAIN v.live : i < j => v.live[i].n < v.live[j].n /\ v.live[i].end < v.live[j].end
    <3>. SUFFICES ASSUME NEW i \in DOMAIN v.live, NEW j \in DOMAIN v.live, i < j
                  PROVE  v.live[i].n < v.live[j].n /\ v.live[i].end < v.live[j].end
      OBVIOUS
    <3>1. i + drop < j + drop
      BY <1>3, <2>3
    <3>. QED BY <2>3, <3>1 DEF InLine
  <2>5. \A i \in DOMAIN v.live : v.start < v.live[i].end /\ v.live[i].n <= top
    <3>. SUFFICES ASSUME NEW i \in DOMAIN v.live PROVE v.start < v.live[i].end /\ v.live[i].n <= top
      OBVIOUS
    <3>1. i + drop \in 0..Len(w.live) /\ i + drop # 0 /\ drop < i + drop
      BY <1>0, <1>3, <2>3, Places
    <3>2. StartAfter(w, drop) < StartAfter(w, i + drop)
      BY <1>3, <3>1, Places
    <3>3. StartAfter(w, i + drop) = w.live[i + drop].end
      BY <3>1 DEF StartAfter
    <3>. QED BY <2>1, <2>3, <3>2, <3>3 DEF InLine
  <2>6. \A n \in consumed \cup Posted(w.writes) : \A i \in DOMAIN v.live : n < v.live[i].n
    BY <2>3 DEF InLine
  <2>7. InLine(v, top)
    BY <1>9, <1>12, <1>15, <1>16, <2>2, <2>4, <2>5, <2>6 DEF InLine
  <2>8. Len(kept(drop)) \in DOMAIN kept(drop) /\ kept(drop) # <<>>
    BY <1>5, <1>0, <1>3, <1>11
  <2>9. Last(v.live) = w.live[Len(w.live)]
    BY <1>0, <1>3, <1>5, <1>11, <2>1 DEF Last
  <2>10. End(v) = End(w)
    BY <1>0, <2>1, <2>8, <2>9 DEF End, Last
  <2>11. Waiting(v) <= MaxPending
    BY <1>17, <2>1, <2>10 DEF Waiting
  <2>. QED BY <1>9, <1>13, <2>1, <2>7, <2>8, <2>11 DEF v
<1>18. CASE ~fits(drop)
  <2>1. drop = Len(w.live) - 1
    BY <1>3, <1>18
  <2>2. kept(drop)[1] = w.live[Len(w.live)] /\ Len(w.live) \in DOMAIN w.live
    BY <1>0, <1>5, <2>1
  <2> DEFINE p == [w.live[Len(w.live)] EXCEPT !.ack = FALSE]
  <2>3. v.live = <<p>> /\ v.start = End(w) - MaxPending
    BY <1>9, <1>18, <2>2
  <2>4. p \in Piece /\ p.n = w.live[Len(w.live)].n /\ p.end = w.live[Len(w.live)].end
    BY <1>7, <2>2 DEF Piece
  <2>5. p.end = End(w)
    BY <1>0, <2>4 DEF End, Last
  <2> HIDE DEF p
  <2>6. v.start \in Nat /\ v.start < p.end
    BY <1>4, <1>11, <1>18, <2>3, <2>5
  <2>7. v.live \in Seq(Piece) /\ DOMAIN v.live = {1} /\ v.live[1] = p /\ v.live # <<>>
    BY <2>3, <2>4
  <2>8. v \in Queue
    BY <1>0, <1>9, <1>14, <2>6, <2>7 DEF Queue
  <2>9. InLine(v, top)
    <3>1. \A n \in consumed \cup Posted(v.writes) : \A i \in DOMAIN v.live : n < v.live[i].n
      BY <1>9, <2>2, <2>4, <2>7 DEF InLine
    <3>2. \A i \in DOMAIN v.live : v.start < v.live[i].end /\ v.live[i].n <= top
      BY <2>2, <2>4, <2>6, <2>7 DEF InLine
    <3>3. \A i, j \in DOMAIN v.live : ~(i < j)
      BY <2>7
    <3>. QED BY <1>9, <1>12, <1>15, <1>16, <2>8, <3>1, <3>2, <3>3 DEF InLine
  <2>10. End(v) = End(w)
    BY <2>3, <2>5, <2>7 DEF End, Last
  <2>11. Waiting(v) <= MaxPending
    BY <1>4, <1>11, <2>3, <2>10 DEF Waiting
  <2>. QED BY <1>9, <1>13, <2>7, <2>9, <2>11 DEF v
<1>. QED BY <1>17, <1>18

\* A flush takes the oldest and acknowledges them, unless older ones were shed.
LEMMA Takes ==
  ASSUME NEW top \in Nat, NEW w, InLine(w, top), NEW limit \in Nat
  PROVE  /\ InLine(TakePending(w, limit), top)
         /\ Waiting(TakePending(w, limit)) <= Waiting(w)
         /\ limit >= Waiting(w) => TakePending(w, limit).live = <<>>
         /\ TakePending(w, limit).raf = w.raf /\ TakePending(w, limit).micro = w.micro
         /\ TakePending(w, limit).gap = w.gap /\ TakePending(w, limit).shed = w.shed
<1> DEFINE K == {k \in 0..Len(w.live) : StartAfter(w, k) <= w.start + limit}
           rest(k) == SubSeq(w.live, k + 1, Len(w.live))
           done(k) == Consumed(SubSeq(w.live, 1, k), w.gap)
           v == TakePending(w, limit)
<1>0. w \in Queue /\ w.live \in Seq(Piece) /\ w.start \in Nat /\ Len(w.live) \in Nat /\ w.writes \in Seq(SUBSET Nat)
  BY Places DEF InLine, Queue
<1>1. K \in SUBSET (0..Len(w.live)) /\ 0 \in K
  BY <1>0, Places
<1>2. PICK whole \in K : whole = Max(K) /\ \A k \in K : k <= whole
  <2> HIDE DEF K
  <2>1. K # {}
    BY <1>1
  <2>. QED BY <1>0, <1>1, <2>1, MostIs
<1>3. whole \in 0..Len(w.live) /\ whole \in Nat /\ StartAfter(w, whole) <= w.start + limit
  <2>1. whole \in 0..Len(w.live) /\ StartAfter(w, whole) <= w.start + limit
    BY ONLY <1>2
  <2>. QED BY ONLY <1>0, <2>1
<1>4. /\ rest(whole) \in Seq(Piece) /\ Len(rest(whole)) = Len(w.live) - whole
      /\ DOMAIN rest(whole) = 1..Len(w.live) - whole
      /\ \A i \in 1..Len(w.live) - whole : i + whole \in DOMAIN w.live /\ rest(whole)[i] = w.live[i + whole]
  BY <1>0, <1>3, LastPieces
<1>5. /\ SubSeq(w.live, 1, whole) \in Seq(Piece) /\ DOMAIN SubSeq(w.live, 1, whole) = 1..whole
      /\ \A i \in 1..whole : i \in DOMAIN w.live /\ SubSeq(w.live, 1, whole)[i] = w.live[i]
  BY <1>0, <1>3, FirstPieces
<1>6. \A i \in DOMAIN w.live : w.live[i] \in Piece
  BY <1>0, Places
<1>7. v = [w EXCEPT !.live = rest(whole),
                    !.start = IF whole = Len(w.live) THEN StartAfter(w, whole) ELSE w.start + limit,
                    !.writes = Append(@, done(whole))]
  BY <1>2 DEF TakePending
<1>8. /\ v.live = rest(whole)
      /\ v.start = IF whole = Len(w.live) THEN StartAfter(w, whole) ELSE w.start + limit
      /\ v.writes = Append(w.writes, done(whole))
      /\ v.raf = w.raf /\ v.micro = w.micro /\ v.flood = w.flood /\ v.gap = w.gap /\ v.shed = w.shed
      /\ v = [live |-> v.live, start |-> v.start, raf |-> v.raf, micro |-> v.micro, flood |-> v.flood, gap |-> v.gap,
              writes |-> v.writes, shed |-> v.shed]
  <2> HIDE DEF v, rest, done
  <2>. QED BY <1>0, <1>7 DEF Queue
<1>9. \A n \in done(whole) : w.gap = FALSE /\ \E i \in 1..whole : i \in DOMAIN w.live /\ n = w.live[i].n
  <2>1. w.gap \in BOOLEAN
    BY <1>0 DEF Queue
  <2>. QED BY <1>5, <2>1 DEF Consumed
<1> HIDE DEF v, K, rest, done
<1>10. done(whole) \in SUBSET Nat
  BY <1>6, <1>9 DEF Piece
<1>11. v.writes \in Seq(SUBSET Nat) /\ \A n \in Posted(v.writes) : n \in Posted(w.writes) \/ n \in done(whole)
  BY <1>0, <1>8, <1>10 DEF Posted
<1>12. StartAfter(w, whole) \in Nat /\ End(w) \in Nat /\ w.start <= StartAfter(w, whole)
  BY <1>3, Places
<1>13. v.start \in Nat /\ v.start >= w.start
  BY <1>0, <1>8, <1>12
<1>14. v \in Queue
  BY <1>0, <1>4, <1>8, <1>11, <1>13 DEF Queue
<1>15. \A i \in DOMAIN v.live : /\ i \in Nat /\ i > 0 /\ i + whole \in DOMAIN w.live
                               /\ v.live[i] = w.live[i + whole] /\ whole < i + whole
  BY <1>3, <1>4, <1>8
<1>16. \A i, j \in DOMAIN v.live : i < j => v.live[i].n < v.live[j].n /\ v.live[i].end < v.live[j].end
  <2>. SUFFICES ASSUME NEW i \in DOMAIN v.live, NEW j \in DOMAIN v.live, i < j
                PROVE  v.live[i].n < v.live[j].n /\ v.live[i].end < v.live[j].end
    OBVIOUS
  <2>1. i + whole < j + whole
    BY <1>3, <1>15
  <2>. QED BY <1>15, <2>1 DEF InLine
<1>17. \A i \in DOMAIN v.live : v.start < v.live[i].end /\ v.live[i].n <= top
  <2>. SUFFICES ASSUME NEW i \in DOMAIN v.live PROVE v.start < v.live[i].end /\ v.live[i].n <= top
    OBVIOUS
  <2>1. i + whole \in 0..Len(w.live) /\ i + whole # 0 /\ whole < i + whole /\ whole # Len(w.live)
    BY <1>0, <1>3, <1>15, Places
  <2>2. i + whole \notin K
    BY <1>2, <1>3, <2>1
  <2>3. StartAfter(w, i + whole) \in Nat /\ ~(StartAfter(w, i + whole) <= w.start + limit)
    BY <2>1, <2>2, Places DEF K
  <2>4. StartAfter(w, i + whole) = w.live[i + whole].end
    BY <2>1 DEF StartAfter
  <2>. QED BY <1>0, <1>8, <1>15, <2>1, <2>3, <2>4 DEF InLine
<1>18. \A n \in consumed \cup Posted(v.writes) :
         n \in 0..top /\ (\A i \in DOMAIN v.live : n < v.live[i].n) /\ (\A m \in v.shed : n < m)
  <2>1. CASE done(whole) = {}
    BY <1>8, <1>11, <1>15, <2>1 DEF InLine
  <2>2. CASE done(whole) # {}
    <3>1. w.gap = FALSE /\ w.shed = {}
      BY <1>9, <2>2 DEF InLine
    <3>2. \A n \in done(whole) : n \in 0..top
      <4>1. \A n \in done(whole) : n <= top
        BY <1>9 DEF InLine
      <4>. QED BY <1>10, <4>1
    <3>3. \A n \in done(whole) : \A i \in DOMAIN v.live : n < v.live[i].n
      <4>. SUFFICES ASSUME NEW n \in done(whole), NEW i \in DOMAIN v.live PROVE n < v.live[i].n
        OBVIOUS
      <4>1. PICK j \in 1..whole : j \in DOMAIN w.live /\ n = w.live[j].n
        BY <1>9
      <4>2. j < i + whole
        BY <1>3, <1>15
      <4>. QED BY <1>15, <4>1, <4>2 DEF InLine
    <3>. QED BY <1>8, <1>11, <1>15, <3>1, <3>2, <3>3 DEF InLine
  <2>. QED BY <2>1, <2>2
<1>19. InLine(v, top)
  BY <1>8, <1>14, <1>16, <1>17, <1>18 DEF InLine
<1>20. End(v) = End(w)
  <2>1. CASE whole = Len(w.live)
    <3>1. v.live = <<>> /\ v.start = End(w)
      BY <1>4, <1>8, <2>1, Places
    <3>. QED BY <3>1 DEF End
  <2>2. CASE whole # Len(w.live)
    <3>1. Len(v.live) > 0 /\ v.live[Len(v.live)] = w.live[Len(w.live)] /\ w.live # <<>> /\ v.live # <<>>
      BY <1>0, <1>3, <1>4, <1>8, <2>2
    <3>. QED BY <3>1 DEF End, Last
  <2>. QED BY <2>1, <2>2
<1>21. Waiting(v) <= Waiting(w)
  BY <1>0, <1>12, <1>13, <1>20 DEF Waiting
<1>22. limit >= Waiting(w) => v.live = <<>>
  <2>. SUFFICES ASSUME limit >= Waiting(w) PROVE v.live = <<>>
    OBVIOUS
  <2>1. StartAfter(w, Len(w.live)) <= w.start + limit /\ Len(w.live) \in 0..Len(w.live)
    BY <1>0, <1>12, Places DEF Waiting
  <2>2. whole = Len(w.live)
    BY <1>0, <1>2, <1>3, <2>1 DEF K
  <2>. QED BY <1>4, <1>8, <2>2
<1>. QED BY <1>8, <1>19, <1>21, <1>22 DEF v

\* What waits gets a frame or a microtask.
LEMMA Schedules ==
  ASSUME NEW top, NEW w, InLine(w, top), Once(w), Waiting(w) <= MaxPending
  PROVE  Tended(ScheduleNext(w), top) /\ ScheduleNext(w).gap = w.gap /\ ScheduleNext(w).shed = w.shed
<1> DEFINE v == ScheduleNext(w)
<1>0. w \in Queue
  BY DEF InLine
<1>1. /\ v \in Queue /\ v.live = w.live /\ v.start = w.start /\ v.gap = w.gap /\ v.writes = w.writes /\ v.shed = w.shed
      /\ Once(v) /\ (v.raf \/ v.micro)
  BY <1>0 DEF ScheduleNext, ScheduleRaf, ScheduleMicro, Queue, Once
<1> HIDE DEF v
<1>2. InLine(v, top) /\ Waiting(v) = Waiting(w)
  BY <1>1, OnlyTiming
<1>3. Tended(v, top)
  BY <1>1, <1>2 DEF Tended
<1>. QED BY <1>1, <1>3 DEF v

\* Nothing waits in an empty queue.
LEMMA Nothing ==
  ASSUME NEW top, NEW w, InLine(w, top), w.live = <<>>
  PROVE  Waiting(w) = 0
BY DEF InLine, Queue, Waiting, End

LEMMA FlushesNow ==
  ASSUME NEW top \in Nat, NEW w, InLine(w, top), Waiting(w) <= MaxPending, NEW limit \in Nat
  PROVE  Tended(FlushNow(w, limit), top) /\ (Calm(w) => Calm(FlushNow(w, limit)))
<1> DEFINE idle == [w EXCEPT !.raf = FALSE, !.micro = FALSE]
           taken == TakePending(idle, limit)
<1>0. w \in Queue
  BY DEF InLine
<1>1. /\ idle \in Queue /\ idle.live = w.live /\ idle.start = w.start /\ idle.gap = w.gap /\ idle.writes = w.writes
      /\ idle.shed = w.shed /\ idle.raf = FALSE /\ idle.micro = FALSE
  BY <1>0 DEF Queue
<1> HIDE DEF idle
<1>2. InLine(idle, top) /\ Waiting(idle) = Waiting(w)
  BY <1>1, OnlyTiming
<1>3. CASE w.live = <<>>
  <2> DEFINE v == [idle EXCEPT !.flood = FALSE]
  <2>1. FlushNow(w, limit) = v
    BY <1>3 DEF FlushNow, idle
  <2>2. /\ v \in Queue /\ v.live = w.live /\ v.start = w.start /\ v.gap = w.gap /\ v.writes = w.writes
        /\ v.shed = w.shed /\ v.raf = FALSE /\ v.micro = FALSE
    BY <1>1 DEF Queue
  <2> HIDE DEF v
  <2>3. InLine(v, top) /\ Waiting(v) = Waiting(w)
    BY <2>2, OnlyTiming
  <2>. QED BY <1>3, <2>1, <2>2, <2>3 DEF Tended, Once, Calm
<1>4. CASE w.live # <<>>
  <2>1. FlushNow(w, limit) = LeftOver(taken)
    BY <1>4 DEF FlushNow, idle
  <2>2. /\ InLine(taken, top) /\ Waiting(taken) <= Waiting(idle)
        /\ taken.raf = FALSE /\ taken.micro = FALSE
    BY <1>1, <1>2, Takes
  <2>3. Waiting(taken) \in Nat /\ Waiting(w) \in Nat /\ taken \in Queue
    BY <2>2, Places DEF InLine
  <2> HIDE DEF taken
  <2>4. Waiting(taken) <= MaxPending /\ Once(taken)
    BY <1>2, <2>2, <2>3, OutputBounds DEF Once
  <2>5. CASE taken.live # <<>>
    BY <1>4, <2>1, <2>2, <2>4, <2>5, Schedules DEF LeftOver, Calm
  <2>6. CASE taken.live = <<>>
    <3> DEFINE v == [taken EXCEPT !.flood = FALSE]
    <3>1. LeftOver(taken) = v
      BY <2>6 DEF LeftOver
    <3>2. /\ v \in Queue /\ v.live = taken.live /\ v.start = taken.start /\ v.gap = taken.gap
          /\ v.writes = taken.writes /\ v.shed = taken.shed /\ v.raf = FALSE /\ v.micro = FALSE
      BY <2>2, <2>3 DEF Queue
    <3> HIDE DEF v
    <3>3. InLine(v, top) /\ Waiting(v) = Waiting(taken)
      BY <2>2, <3>2, OnlyTiming
    <3>. QED BY <1>4, <2>1, <2>4, <2>6, <3>1, <3>2, <3>3 DEF Tended, Once, Calm
  <2>. QED BY <2>5, <2>6
<1>. QED BY <1>3, <1>4

LEMMA FlushesAll ==
  ASSUME NEW top \in Nat, NEW w, InLine(w, top)
  PROVE  /\ Tended(FlushAll(w), top) /\ FlushAll(w).live = <<>>
         /\ FlushAll(w).gap = w.gap /\ FlushAll(w).shed = w.shed
<1> DEFINE idle == [w EXCEPT !.raf = FALSE, !.micro = FALSE]
           taken == TakePending(idle, Waiting(w))
<1>0. w \in Queue
  BY DEF InLine
<1>1. /\ idle \in Queue /\ idle.live = w.live /\ idle.start = w.start /\ idle.gap = w.gap /\ idle.writes = w.writes
      /\ idle.shed = w.shed /\ idle.raf = FALSE /\ idle.micro = FALSE
  BY <1>0 DEF Queue
<1> HIDE DEF idle
<1>2. InLine(idle, top) /\ Waiting(idle) = Waiting(w) /\ Waiting(w) \in Nat
  BY <1>1, OnlyTiming, Places
<1>3. CASE w.live = <<>>
  <2>1. FlushAll(w) = idle
    BY <1>3 DEF FlushAll, idle
  <2>2. Waiting(idle) <= MaxPending
    BY <1>1, <1>2, <1>3, Nothing, OutputBounds
  <2>. QED BY <1>1, <1>2, <1>3, <2>1, <2>2 DEF Tended, Once
<1>4. CASE w.live # <<>>
  <2> DEFINE v == [taken EXCEPT !.flood = FALSE]
  <2>1. FlushAll(w) = v
    BY <1>4 DEF FlushAll, idle
  <2>2. /\ InLine(taken, top) /\ taken.live = <<>>
        /\ taken.raf = FALSE /\ taken.micro = FALSE /\ taken.gap = w.gap /\ taken.shed = w.shed
    <3>1. Waiting(w) >= Waiting(idle)
      BY <1>2
    <3>2. /\ InLine(taken, top) /\ taken.live = <<>>
          /\ taken.raf = idle.raf /\ taken.micro = idle.micro /\ taken.gap = idle.gap /\ taken.shed = idle.shed
      BY <1>2, <3>1, Takes
    <3>. QED BY <1>1, <3>2
  <2> HIDE DEF taken
  <2>3. /\ v \in Queue /\ v.live = taken.live /\ v.start = taken.start /\ v.gap = taken.gap
        /\ v.writes = taken.writes /\ v.shed = taken.shed /\ v.raf = FALSE /\ v.micro = FALSE
    BY <2>2 DEF Queue, InLine
  <2> HIDE DEF v
  <2>4. InLine(v, top)
    BY <2>2, <2>3, OnlyTiming
  <2>5. Waiting(v) <= MaxPending
    BY <2>2, <2>3, <2>4, Nothing, OutputBounds
  <2>. QED BY <2>1, <2>2, <2>3, <2>4, <2>5 DEF Tended, Once
<1>. QED BY <1>3, <1>4

\* What waited, and what was known of it, is gone.
LEMMA Discards ==
  ASSUME NEW top, NEW w, InLine(w, top)
  PROVE  Tended(DiscardPending(w), top) /\ Calm(DiscardPending(w))
<1> DEFINE v == DiscardPending(w)
<1>0. w \in Queue
  BY DEF InLine
<1>1. /\ v \in Queue /\ v.live = <<>> /\ v.start = w.start /\ v.gap = FALSE /\ v.writes = w.writes /\ v.shed = {}
      /\ v.raf = FALSE /\ v.micro = FALSE
  <2> DEFINE a == [w EXCEPT !.live = <<>>, !.raf = FALSE, !.micro = FALSE]
             b == [a EXCEPT !.flood = FALSE, !.gap = FALSE, !.shed = {}]
  <2>1. v = b
    BY DEF DiscardPending
  <2>2. <<>> \in Seq(Piece)
    OBVIOUS
  <2>3. a \in Queue /\ a.live = <<>> /\ a.start = w.start /\ a.writes = w.writes /\ a.raf = FALSE /\ a.micro = FALSE
    <3> DEFINE c == [w EXCEPT !.live = <<>>]
    <3>1. c \in Queue /\ c.live = <<>> /\ c.start = w.start /\ c.writes = w.writes
      BY <1>0, <2>2 DEF Queue
    <3>2. a = [c EXCEPT !.raf = FALSE, !.micro = FALSE]
      OBVIOUS
    <3> HIDE DEF c, a
    <3>. QED BY <3>1, <3>2 DEF Queue
  <2> HIDE DEF a, v
  <2>4. b \in Queue /\ b.live = a.live /\ b.start = a.start /\ b.writes = a.writes /\ b.raf = a.raf /\ b.micro = a.micro
        /\ b.gap = FALSE /\ b.shed = {}
    BY <2>3 DEF Queue
  <2> HIDE DEF b
  <2>. QED BY <2>1, <2>3, <2>4
<1> HIDE DEF v
<1>2. InLine(v, top)
  BY <1>1 DEF InLine
<1>3. Waiting(v) <= MaxPending
  BY <1>1, <1>2, Nothing, OutputBounds
<1>. QED BY <1>1, <1>2, <1>3 DEF v, Tended, Once, Calm

\* A new piece comes last.
LEMMA Enqueues ==
  ASSUME NEW w, pieces \in Nat, Tended(w, pieces), NEW bytes \in Nat \ {0}
  PROVE  /\ Tended(Enqueue(w, bytes), pieces + 1)
         /\ Calm(w) /\ bytes <= MaxPending => ~Enqueue(w, bytes).gap /\ Enqueue(w, bytes).shed = {}
<1> DEFINE p == [n |-> pieces + 1, end |-> End(w) + bytes, ack |-> TRUE]
           u == [w EXCEPT !.live = Append(@, p)]
<1>0. InLine(w, pieces) /\ w \in Queue /\ w.live \in Seq(Piece) /\ Once(w)
  BY DEF Tended, InLine, Queue
<1>1. End(w) \in Nat /\ w.start \in Nat /\ w.start <= End(w)
  BY <1>0, Places DEF Queue
<1>2. p \in Piece /\ p.n = pieces + 1 /\ p.end = End(w) + bytes
  BY <1>1 DEF Piece
<1> HIDE DEF p
<1>3. /\ u.live = Append(w.live, p) /\ u.start = w.start /\ u.raf = w.raf /\ u.micro = w.micro /\ u.gap = w.gap
      /\ u.writes = w.writes /\ u.shed = w.shed /\ u \in Queue
  <2>1. Append(w.live, p) \in Seq(Piece)
    BY <1>0, <1>2
  <2>. QED BY <1>0, <2>1 DEF Queue
<1> HIDE DEF u
<1>4. /\ DOMAIN u.live = 1..Len(w.live) + 1 /\ Len(w.live) \in Nat /\ u.live[Len(w.live) + 1] = p
      /\ \A i \in 1..Len(w.live) : i \in DOMAIN w.live /\ u.live[i] = w.live[i]
      /\ u.live # <<>> /\ Last(u.live) = p
  <2>1. /\ Len(u.live) = Len(w.live) + 1 /\ Len(w.live) \in Nat
        /\ DOMAIN u.live = 1..Len(w.live) + 1 /\ u.live[Len(w.live) + 1] = p
        /\ \A i \in 1..Len(w.live) : i \in DOMAIN w.live /\ u.live[i] = w.live[i]
    BY <1>0, <1>2, <1>3
  <2>2. u.live # <<>>
    BY <2>1
  <2>. QED BY <2>1, <2>2 DEF Last
<1>5. \A i \in DOMAIN u.live : i \in 1..Len(w.live) \/ i = Len(w.live) + 1
  BY <1>4
<1>6. \A i \in 1..Len(w.live) : /\ w.live[i].n \in Nat /\ w.live[i].n < pieces + 1
                                /\ w.live[i].end \in Nat /\ w.live[i].end < p.end
  <2>. SUFFICES ASSUME NEW i \in 1..Len(w.live)
                PROVE  w.live[i].n \in Nat /\ w.live[i].n < pieces + 1 /\ w.live[i].end \in Nat /\ w.live[i].end < p.end
    OBVIOUS
  <2>1. i \in DOMAIN w.live /\ w.live[i].n \in Nat /\ w.live[i].end \in Nat /\ w.live[i].n <= pieces
    <3>1. i \in DOMAIN w.live /\ w.live[i] \in Piece
      BY <1>0, <1>4
    <3>. QED BY <1>0, <3>1 DEF Piece, InLine
  <2>2. StartAfter(w, i) = w.live[i].end /\ StartAfter(w, i) <= End(w)
    BY <1>0, <1>4, Places DEF StartAfter
  <2>. QED BY <1>1, <1>2, <2>1, <2>2
<1>7. InLine(u, pieces + 1)
  <2>1. \A i, j \in DOMAIN u.live : i < j => u.live[i].n < u.live[j].n /\ u.live[i].end < u.live[j].end
    <3>. SUFFICES ASSUME NEW i \in DOMAIN u.live, NEW j \in DOMAIN u.live, i < j
                  PROVE  u.live[i].n < u.live[j].n /\ u.live[i].end < u.live[j].end
      OBVIOUS
    <3>1. i \in 1..Len(w.live)
      BY <1>4
    <3>2. CASE j = Len(w.live) + 1
      BY <1>2, <1>4, <1>6, <3>1, <3>2
    <3>3. CASE j \in 1..Len(w.live)
      BY <1>0, <1>4, <3>1, <3>3 DEF InLine
    <3>. QED BY <1>5, <3>2, <3>3
  <2>2. \A i \in DOMAIN u.live : u.start < u.live[i].end /\ u.live[i].n <= pieces + 1
    <3>. SUFFICES ASSUME NEW i \in DOMAIN u.live PROVE u.start < u.live[i].end /\ u.live[i].n <= pieces + 1
      OBVIOUS
    <3>1. CASE i = Len(w.live) + 1
      BY <1>1, <1>2, <1>3, <1>4, <3>1
    <3>2. CASE i \in 1..Len(w.live)
      BY <1>0, <1>3, <1>4, <1>6, <3>2 DEF InLine
    <3>. QED BY <1>5, <3>1, <3>2
  <2>3. \A n \in consumed \cup Posted(u.writes) :
          n \in 0..pieces + 1 /\ (\A i \in DOMAIN u.live : n < u.live[i].n) /\ (\A m \in u.shed : n < m)
    <3>. SUFFICES ASSUME NEW n \in consumed \cup Posted(u.writes)
                  PROVE  n \in 0..pieces + 1 /\ (\A i \in DOMAIN u.live : n < u.live[i].n) /\ (\A m \in u.shed : n < m)
      OBVIOUS
    <3>1. n \in 0..pieces /\ (\A i \in DOMAIN w.live : n < w.live[i].n) /\ (\A m \in w.shed : n < m)
      BY <1>0, <1>3 DEF InLine
    <3>2. n \in Nat /\ n \in 0..pieces + 1
      BY <3>1
    <3>3. \A i \in DOMAIN u.live : n < u.live[i].n
      BY <1>2, <1>4, <1>5, <3>1, <3>2
    <3>. QED BY <1>3, <3>1, <3>2, <3>3
  <2>4. \A m \in u.shed : m <= pieces + 1
    BY <1>0, <1>3 DEF InLine, Queue
  <2>5. ~u.gap => u.shed = {}
    BY <1>0, <1>3 DEF InLine
  <2>. QED BY <1>3, <2>1, <2>2, <2>3, <2>4, <2>5 DEF InLine
<1> DEFINE v == ShedOldest(u)
<1>8. /\ InLine(v, pieces + 1) /\ v.live # <<>> /\ Waiting(v) <= MaxPending /\ v.raf = w.raf /\ v.micro = w.micro
      /\ Waiting(u) <= MaxPending => v.gap = w.gap /\ v.shed = w.shed
  <2>1. pieces + 1 \in Nat /\ u.live # <<>>
    BY <1>4
  <2>2. /\ InLine(v, pieces + 1) /\ v.live # <<>> /\ Waiting(v) <= MaxPending /\ v.raf = u.raf /\ v.micro = u.micro
        /\ Waiting(u) <= MaxPending => v.gap = u.gap /\ v.shed = u.shed
    BY <1>7, <2>1, Sheds
  <2> HIDE DEF v
  <2>. QED BY <1>3, <2>2
<1>9. Enqueue(w, bytes) = ScheduleNext(v)
  BY DEF Enqueue, u, p
<1> HIDE DEF v
<1>10. Once(v)
  BY <1>0, <1>8 DEF Once
<1>11. Tended(ScheduleNext(v), pieces + 1) /\ ScheduleNext(v).gap = v.gap /\ ScheduleNext(v).shed = v.shed
  BY <1>8, <1>10, Schedules
<1>12. Calm(w) /\ bytes <= MaxPending => Waiting(u) <= MaxPending
  <2>. SUFFICES ASSUME Calm(w), bytes <= MaxPending PROVE Waiting(u) <= MaxPending
    OBVIOUS
  <2>1. End(w) = w.start
    BY DEF Calm, End
  <2>2. End(u) = w.start + bytes
    BY <1>2, <1>4, <2>1 DEF End
  <2>. QED BY <1>1, <1>3, <2>2 DEF Waiting
<1>. QED BY <1>8, <1>9, <1>11, <1>12 DEF Calm

LEMMA Replays ==
  ASSUME NEW w, pieces \in Nat, Tended(w, pieces), Calm(w)
  PROVE  Tended(EnqueueReplay(w), pieces + 1) /\ Calm(EnqueueReplay(w))
<1> DEFINE v == EnqueueReplay(w)
<1>0. w \in Queue /\ w.writes \in Seq(SUBSET Nat)
  BY DEF Tended, InLine, Queue
<1>1. {pieces + 1} \in SUBSET Nat
  OBVIOUS
<1>2. /\ v \in Queue /\ v.live = w.live /\ v.start = w.start /\ v.gap = w.gap /\ v.shed = w.shed
      /\ v.raf = w.raf /\ v.micro = w.micro /\ v.writes = Append(w.writes, {pieces + 1})
  <2>1. Append(w.writes, {pieces + 1}) \in Seq(SUBSET Nat)
    BY <1>0, <1>1
  <2>. QED BY <1>0, <2>1 DEF EnqueueReplay, Queue
<1> HIDE DEF v
<1>3. \A n \in Posted(v.writes) : n \in Posted(w.writes) \/ n = pieces + 1
  BY <1>0, <1>2 DEF Posted
<1>4. \A n \in consumed \cup Posted(w.writes) : n \in 0..pieces
  BY DEF Tended, InLine
<1>5. v.live = <<>> /\ v.shed = {} /\ ~v.gap
  BY <1>2 DEF Calm
<1>6. InLine(v, pieces + 1)
  <2>1. \A n \in consumed \cup Posted(v.writes) : n \in 0..pieces + 1
    BY <1>3, <1>4
  <2>2. DOMAIN v.live = {}
    BY <1>5
  <2>3. /\ \A i, j \in DOMAIN v.live : i < j => v.live[i].n < v.live[j].n /\ v.live[i].end < v.live[j].end
        /\ \A i \in DOMAIN v.live : v.start < v.live[i].end /\ v.live[i].n <= pieces + 1
        /\ \A n : \A i \in DOMAIN v.live : n < v.live[i].n
    BY <2>2
  <2>. QED BY <1>2, <1>5, <2>1, <2>3 DEF InLine
<1>7. Waiting(v) <= MaxPending
  BY <1>5, <1>6, Nothing, OutputBounds
<1>. QED BY <1>2, <1>5, <1>6, <1>7 DEF v, Tended, Once, Calm

\* What a function of the writer leaves is the next state.
LEMMA Becoming ==
  ASSUME NEW top, NEW w, Tended(w, top), Becomes(w), consumed' = consumed, pieces' = top
  PROVE  /\ Tended(Now, pieces)' /\ (liveBytes = Waiting(Now))'
         /\ Calm(w) => Calm(Now)'
<1> DEFINE W == [live |-> live', start |-> start', raf |-> raf', micro |-> micro', flood |-> flood', gap |-> gapSeen',
                 writes |-> writes', shed |-> shed']
<1>0. w \in Queue /\ InLine(w, top)
  BY DEF Tended, InLine
<1>1. /\ live' = w.live /\ start' = (IF w.live = <<>> THEN 0 ELSE w.start) /\ liveBytes' = Waiting(w)
      /\ raf' = w.raf /\ micro' = w.micro /\ flood' = w.flood
      /\ gapSeen' = w.gap /\ writes' = w.writes /\ shed' = w.shed
  BY DEF Becomes
<1>2. PICK v : v = W
  OBVIOUS
<1>3. /\ v.live = w.live /\ v.start = (IF w.live = <<>> THEN 0 ELSE w.start)
      /\ v.raf = w.raf /\ v.micro = w.micro /\ v.gap = w.gap /\ v.writes = w.writes /\ v.shed = w.shed
      /\ v \in Queue
  BY <1>0, <1>1, <1>2 DEF Queue
<1>4. InLine(v, top) /\ Waiting(v) = Waiting(w)
  <2>1. CASE w.live # <<>>
    BY <1>0, <1>3, <2>1, OnlyTiming
  <2>2. CASE w.live = <<>>
    <3>1. InLine(v, top)
      BY <1>0, <1>3, <2>2 DEF InLine
    <3>. QED BY <1>0, <1>3, <2>2, <3>1, Nothing
  <2>. QED BY <2>1, <2>2
<1>5. Tended(v, top)
  BY <1>3, <1>4 DEF Tended, Once
<1>6. Now' = v
  BY <1>2 DEF Now
<1>7. Waiting(Now)' = Waiting(v) /\ (Once(Now)' <=> Once(v)) /\ (Calm(Now)' <=> Calm(v))
  BY <1>6 DEF Waiting, End, Once, Calm
<1>8. InLine(Now, pieces)'
  BY <1>4, <1>6 DEF InLine, Posted
<1>9. Tended(Now, pieces)'
  BY <1>5, <1>6, <1>7, <1>8 DEF Tended
<1>10. Calm(w) => Calm(v)
  BY <1>3 DEF Calm
<1>. QED BY <1>1, <1>4, <1>7, <1>9, <1>10

LEMMA OutputStarts == OutputInit => OutputInv
<1>. SUFFICES ASSUME OutputInit PROVE OutputInv
  OBVIOUS
<1>1. PICK w : w = Now
  OBVIOUS
<1>2. /\ w.live = <<>> /\ w.start = 0 /\ w.raf = FALSE /\ w.micro = FALSE /\ w.gap = FALSE /\ w.writes = <<>>
      /\ w.shed = {} /\ w \in Queue
  <2>1. <<>> \in Seq(Piece) /\ <<>> \in Seq(SUBSET Nat) /\ {} \in SUBSET Nat
    OBVIOUS
  <2>. QED BY <1>1, <2>1 DEF Now, OutputInit, Queue
<1>3. Posted(w.writes) = {}
  BY <1>2 DEF Posted
<1>4. InLine(w, pieces)
  BY <1>2, <1>3 DEF InLine, OutputInit
<1>5. Waiting(w) = 0
  BY <1>2, <1>4, Nothing
<1>6. Tended(w, pieces)
  BY <1>2, <1>4, <1>5, OutputBounds DEF Tended, Once
<1>. QED BY <1>1, <1>5, <1>6 DEF OutputInv, OutputInit

LEMMA ReceivesLive ==
  ASSUME OutputInv, NEW bytes \in PieceSizes, ReceiveLive(bytes)
  PROVE  OutputInv'
<1>1. PICK w : w = Now
  OBVIOUS
<1>2. PICK v : v = Enqueue(w, bytes)
  OBVIOUS
<1>3. pieces \in Nat /\ Tended(w, pieces) /\ bytes \in Nat \ {0}
  BY <1>1, OutputBounds DEF OutputInv
<1>4. Tended(v, pieces + 1)
  BY <1>2, <1>3, Enqueues
<1>5. Becomes(v)
  BY <1>1, <1>2 DEF ReceiveLive
<1>6. consumed' = consumed /\ pieces' = pieces + 1 /\ replaying' = FALSE
  BY DEF ReceiveLive, Receives
<1>7. Tended(Now, pieces)' /\ (liveBytes = Waiting(Now))'
  BY <1>4, <1>5, <1>6, Becoming
<1>8. UNCHANGED <<clock, off, asking>>
  BY DEF ReceiveLive
<1>9. (pieces \in Nat /\ consumed \in SUBSET Nat /\ {clock, off, asking, replaying} \subseteq BOOLEAN)'
  <2>1. consumed \in SUBSET Nat /\ clock \in BOOLEAN /\ off \in BOOLEAN /\ asking \in BOOLEAN
    BY DEF OutputInv
  <2>2. pieces' \in Nat
    BY <1>3, <1>6
  <2>. QED BY ONLY <1>6, <1>8, <2>1, <2>2
<1>10. (replaying /\ ~asking => Calm(Now))'
  BY <1>6
<1>. QED BY <1>7, <1>9, <1>10 DEF OutputInv

LEMMA ReceivesReplay ==
  ASSUME OutputInv, NEW bytes \in Pages, NEW truncated \in BOOLEAN, NEW answers \in BOOLEAN,
         ReceiveReplay(bytes, truncated, answers)
  PROVE  OutputInv'
<1>1. PICK w : w = Now
  OBVIOUS
<1>2. PICK begun : begun = IF replaying THEN w ELSE DiscardPending(w)
  OBVIOUS
<1>3. PICK clean : clean = IF truncated THEN FlushAll(begun) ELSE begun
  OBVIOUS
<1>4. pieces \in Nat /\ Tended(w, pieces) /\ InLine(w, pieces) /\ bytes \in Nat \ {0} /\ bytes <= MaxPending
  BY <1>1, OutputBounds DEF OutputInv, Pages, Tended
<1>5. Tended(begun, pieces) /\ InLine(begun, pieces) /\ (~asking => Calm(begun))
  BY <1>1, <1>2, <1>4, Discards DEF OutputInv, Tended
<1>6. Tended(clean, pieces) /\ (~asking => Calm(clean))
  BY <1>3, <1>4, <1>5, FlushesAll DEF Calm
<1>7. PICK last : last = IF answers THEN FlushAll(Enqueue(clean, bytes))
                         ELSE IF asking THEN Enqueue(clean, bytes)
                         ELSE FlushAll(EnqueueReplay(clean))
  OBVIOUS
<1>8. pieces + 1 \in Nat
  BY <1>4
<1>9. /\ Tended(Enqueue(clean, bytes), pieces + 1) /\ InLine(Enqueue(clean, bytes), pieces + 1)
      /\ ~asking => ~Enqueue(clean, bytes).gap /\ Enqueue(clean, bytes).shed = {}
  BY <1>4, <1>6, Enqueues DEF Tended
<1>10. ~asking => /\ Tended(EnqueueReplay(clean), pieces + 1) /\ InLine(EnqueueReplay(clean), pieces + 1)
                  /\ Calm(EnqueueReplay(clean))
  BY <1>4, <1>6, Replays DEF Tended
<1>11. Tended(last, pieces + 1) /\ (~asking => Calm(last))
  <2>1. CASE answers
    BY <1>7, <1>8, <1>9, <2>1, FlushesAll DEF Calm
  <2>2. CASE ~answers /\ asking
    BY <1>7, <1>9, <2>2
  <2>3. CASE ~answers /\ ~asking
    BY <1>7, <1>8, <1>10, <2>3, FlushesAll DEF Calm
  <2>. QED BY <2>1, <2>2, <2>3
<1>12. Becomes(last)
  BY <1>1, <1>2, <1>3, <1>7 DEF ReceiveReplay
<1>13. consumed' = consumed /\ pieces' = pieces + 1 /\ replaying' = TRUE /\ asking' = asking
  BY DEF ReceiveReplay, Receives
<1>14. Tended(Now, pieces)' /\ (liveBytes = Waiting(Now))' /\ (Calm(last) => Calm(Now)')
  BY <1>11, <1>12, <1>13, Becoming
<1>. QED BY <1>4, <1>11, <1>13, <1>14 DEF OutputInv, ReceiveReplay

LEMMA OutputDrops ==
  ASSUME OutputInv, RecoveryRequired
  PROVE  OutputInv'
<1>1. PICK w : w = Now
  OBVIOUS
<1>2. PICK v : v = DiscardPending(w)
  OBVIOUS
<1>3. pieces \in Nat /\ InLine(w, pieces)
  BY <1>1 DEF OutputInv, Tended
<1>4. Tended(v, pieces) /\ Calm(v)
  BY <1>2, <1>3, Discards
<1>5. Becomes(v)
  BY <1>1, <1>2 DEF RecoveryRequired
<1>6. consumed' = consumed /\ pieces' = pieces
  BY DEF RecoveryRequired
<1>7. Tended(Now, pieces)' /\ (liveBytes = Waiting(Now))' /\ Calm(Now)'
  BY <1>4, <1>5, <1>6, Becoming
<1>. QED BY <1>3, <1>6, <1>7 DEF OutputInv, RecoveryRequired

\* A frame or a microtask.
LEMMA OutputFlushes ==
  ASSUME OutputInv, FrameFires \/ MicrotaskRuns
  PROVE  OutputInv'
<1>1. PICK w : w = Now
  OBVIOUS
<1>2. PICK due : due = IF FrameFires THEN [w EXCEPT !.raf = FALSE] ELSE [w EXCEPT !.micro = FALSE]
  OBVIOUS
<1>3. PICK v : v = FlushNow(due, PerFlush)
  OBVIOUS
<1>4. pieces \in Nat /\ InLine(w, pieces) /\ Waiting(w) <= MaxPending /\ w \in Queue /\ PerFlush \in Nat
  BY <1>1, OutputBounds DEF OutputInv, Tended, InLine
<1>5. /\ due \in Queue /\ due.live = w.live /\ due.start = w.start /\ due.gap = w.gap /\ due.writes = w.writes
      /\ due.shed = w.shed
  BY <1>2, <1>4 DEF Queue
<1>6. InLine(due, pieces) /\ Waiting(due) = Waiting(w)
  BY <1>4, <1>5, OnlyTiming
<1>7. Tended(v, pieces) /\ (Calm(due) => Calm(v))
  BY <1>3, <1>4, <1>6, FlushesNow
<1>8. Becomes(v)
  <2>1. CASE FrameFires
    BY <1>1, <1>2, <1>3, <2>1 DEF FrameFires
  <2>2. CASE ~FrameFires
    BY <1>1, <1>2, <1>3, <2>2 DEF MicrotaskRuns
  <2>. QED BY <2>1, <2>2
<1>9. consumed' = consumed /\ UNCHANGED <<clock, off, asking, replaying, pieces>>
  BY DEF FrameFires, MicrotaskRuns
<1>10. Tended(Now, pieces)' /\ (liveBytes = Waiting(Now))' /\ (Calm(v) => Calm(Now)')
  BY <1>7, <1>8, <1>9, Becoming
<1>11. Calm(w) => Calm(v)
  BY <1>5, <1>7 DEF Calm
<1>. QED BY <1>1, <1>4, <1>9, <1>10, <1>11 DEF OutputInv

LEMMA OutputParsed ==
  ASSUME OutputInv, Parsed
  PROVE  OutputInv'
<1>1. PICK w : w = Now
  OBVIOUS
<1>2. PICK v : v = [w EXCEPT !.writes = Tail(@)]
  OBVIOUS
<1>3. pieces \in Nat /\ Tended(w, pieces) /\ InLine(w, pieces) /\ w \in Queue /\ w.writes = writes
  BY <1>1 DEF OutputInv, Tended, InLine, Now
<1>4. writes \in Seq(SUBSET Nat) /\ writes # <<>>
  BY <1>3 DEF Queue, Parsed
<1>5. Tail(writes) \in Seq(SUBSET Nat) /\ Head(writes) = writes[1] /\ 1 \in DOMAIN writes
  BY <1>4
<1>6. \A i \in DOMAIN Tail(writes) : i + 1 \in DOMAIN writes /\ Tail(writes)[i] = writes[i + 1]
  BY <1>4
<1>7. /\ v \in Queue /\ v.live = w.live /\ v.start = w.start /\ v.gap = w.gap /\ v.writes = Tail(writes)
      /\ v.shed = w.shed /\ v.raf = w.raf /\ v.micro = w.micro
  BY <1>2, <1>3, <1>5 DEF Queue
<1>8. Head(writes) \subseteq Posted(w.writes) /\ Posted(v.writes) \subseteq Posted(w.writes)
  BY <1>3, <1>5, <1>6, <1>7 DEF Posted
<1>9. consumed' \cup Posted(v.writes) \subseteq consumed \cup Posted(w.writes)
  BY <1>8 DEF Parsed
<1>10. Now' = v
  <2>1. v = [live |-> v.live, start |-> v.start, raf |-> v.raf, micro |-> v.micro, flood |-> v.flood, gap |-> v.gap,
             writes |-> v.writes, shed |-> v.shed] /\ v.flood = w.flood
    BY <1>2, <1>3, <1>7 DEF Queue
  <2>. QED BY <1>1, <1>7, <2>1 DEF Now, Parsed
<1>11. InLine(Now, pieces)'
  <2>1. pieces' = pieces
    BY DEF Parsed
  <2>2. Posted(Now.writes)' = Posted(v.writes)
    BY <1>10 DEF Posted
  <2>. QED BY <1>3, <1>7, <1>9, <1>10, <2>1, <2>2 DEF InLine
<1>12. Waiting(v) = Waiting(w)
  BY <1>7 DEF Waiting, End
<1>13. Tended(Now, pieces)'
  BY <1>3, <1>7, <1>10, <1>11, <1>12 DEF Tended, Once, Waiting, End
<1>14. (liveBytes = Waiting(Now))'
  BY <1>1, <1>10, <1>12 DEF Waiting, End, Parsed, OutputInv
<1>15. Calm(w) => Calm(Now)'
  BY <1>7, <1>10 DEF Calm
<1>16. consumed' \in SUBSET Nat
  BY <1>9, <1>3 DEF InLine
<1>. QED BY <1>1, <1>3, <1>13, <1>14, <1>15, <1>16 DEF OutputInv, Parsed

LEMMA OutputTurns ==
  ASSUME OutputInv, ShowOrHide \/ UNCHANGED outputVars
  PROVE  OutputInv'
<1>1. Now' = Now /\ consumed' = consumed /\ pieces' = pieces /\ liveBytes' = liveBytes
  BY DEF ShowOrHide, outputVars, Now
<1>2. PICK w : w = Now
  OBVIOUS
<1>3. Tended(w, pieces) /\ liveBytes = Waiting(w)
  BY <1>2 DEF OutputInv
<1>4. InLine(Now, pieces)'
  BY <1>1, <1>2, <1>3 DEF Tended, InLine, Posted
<1>5. Tended(Now, pieces)' /\ (liveBytes = Waiting(Now))'
  BY <1>1, <1>2, <1>3, <1>4 DEF Tended, Once, Waiting, End
<1>6. Calm(Now) => Calm(Now)'
  BY <1>1 DEF Calm
<1>7. asking' = asking /\ replaying' = replaying /\ off' = off /\ (clock' = clock \/ clock' = ~clock)
  BY DEF ShowOrHide, outputVars
<1>8. (pieces \in Nat /\ consumed \in SUBSET Nat /\ {clock, off, asking, replaying} \subseteq BOOLEAN)'
  BY <1>1, <1>7 DEF OutputInv
<1>9. (replaying /\ ~asking => Calm(Now))'
  BY <1>6, <1>7 DEF OutputInv
<1>. QED BY <1>5, <1>8, <1>9 DEF OutputInv

LEMMA OutputDisposes ==
  ASSUME OutputInv, DisposeOutput
  PROVE  OutputInv'
<1>1. PICK w : w = Now
  OBVIOUS
<1>2. PICK u : u = FlushAll(w)
  OBVIOUS
<1>3. PICK v : v = [u EXCEPT !.live = <<>>]
  OBVIOUS
<1>4. pieces \in Nat /\ InLine(w, pieces)
  BY <1>1 DEF OutputInv, Tended
<1>5. Tended(u, pieces) /\ u.live = <<>> /\ u.gap = w.gap /\ u.shed = w.shed
  BY <1>2, <1>4, FlushesAll
<1>6. v = u
  BY <1>3, <1>5 DEF Tended, InLine, Queue
<1>7. Becomes(v)
  BY <1>1, <1>2, <1>3 DEF DisposeOutput
<1>8. consumed' = consumed /\ UNCHANGED <<clock, asking, replaying, pieces>> /\ off' = TRUE
  BY DEF DisposeOutput
<1>9. Tended(Now, pieces)' /\ (liveBytes = Waiting(Now))' /\ (Calm(v) => Calm(Now)')
  BY <1>5, <1>6, <1>7, <1>8, Becoming
<1>10. Calm(w) => Calm(v)
  BY <1>5, <1>6 DEF Calm
<1>. QED BY <1>1, <1>4, <1>8, <1>9, <1>10 DEF OutputInv

LEMMA OutputStep ==
  ASSUME OutputInv, [OutputNext]_outputVars
  PROVE  OutputInv'
BY ReceivesLive, ReceivesReplay, OutputDrops, OutputFlushes, OutputParsed, OutputTurns, OutputDisposes
   DEF OutputNext, OutputSteady

LEMMA OutputInOrder == OutputInv => AckedInOrder
<1>. SUFFICES ASSUME OutputInv PROVE AckedInOrder
  OBVIOUS
<1>1. PICK w : w = Now
  OBVIOUS
<1>2. /\ w.live = live /\ w.writes = writes /\ w.shed = shed /\ w.raf = raf /\ w.micro = micro
  BY <1>1 DEF Now
<1>3. Tended(w, pieces) /\ InLine(w, pieces) /\ liveBytes = Waiting(w)
  BY <1>1 DEF OutputInv, Tended
<1>4. \A n \in consumed \cup Posted(writes) : \A m \in shed : n < m
  BY <1>2, <1>3 DEF InLine
<1>5. \A i \in DOMAIN writes : writes[i] \subseteq Posted(writes)
  BY DEF Posted
<1>6. liveBytes <= MaxPending /\ (liveBytes > 0 => raf \/ micro)
  <2>1. CASE live = <<>>
    BY <1>2, <1>3, <2>1, Nothing, OutputBounds
  <2>2. CASE live # <<>>
    BY <1>2, <1>3, <2>2 DEF Tended
  <2>. QED BY <2>1, <2>2
<1>7. ~(raf /\ micro)
  BY <1>2, <1>3 DEF Tended, Once
<1>. QED BY <1>4, <1>5, <1>6, <1>7 DEF AckedInOrder

(* Of a terminal's output a piece is acknowledged only if all before it went to  *)
(* the parser; the queue stays below its limit, and whatever waits in it has a   *)
(* frame or a microtask to come for it, never both (terminal-output-writer.ts,    *)
(* TerminalPanel.tsx onData).                                                   *)
THEOREM OutputIsAcknowledgedInOrder == OutputSpec => []AckedInOrder
<1>1. OutputInv /\ [OutputNext]_outputVars => OutputInv'
  BY OutputStep
<1>. QED BY <1>1, OutputStarts, OutputInOrder, PTL DEF OutputSpec
=============================================================================
