------------------------- MODULE TerminalHostProofs -------------------------
(***************************************************************************)
(* Theorems about TerminalHost, for any numbers of clients, terminals and   *)
(* faults and any capacities: the limit of the map is kept unless creates   *)
(* overlap or a call has failed, what lives can be reached, what is dead is *)
(* removed, and the exit is the last word on a terminal.                    *)
(***************************************************************************)
EXTENDS TerminalHost, FiniteSetTheorems, TLAPS

(* The inductive invariant *)

\* What a caller whose command is in a lane may be waiting for.
Stage(kind) == IF kind = "close" THEN {"closing"} ELSE {"evicting", "disposing"}

\* A request names a terminal from the moment it has found one; what it is about
\* to remove has ended.
CallSound(k) ==
  /\ k.at \in {"idle", "full", "inspecting", "admitted"} => k.terminal = NoTerminal
  /\ k.at # "inspecting" => k.left = {}
  /\ k.at \in {"evict", "evicting", "disposing", "closing"} =>
       k.terminal \in Terminals /\ owner[k.terminal] # "none"
  /\ k.at \in {"evicted", "done", "closed"} =>
       /\ k.terminal \in Terminals
       /\ owner[k.terminal] = "stopped" /\ child[k.terminal] = "dead"

CallsSound == \A c \in Requesters : CallSound(call[c])

\* Of a command in a lane somebody awaits the answer, and of no other, or a call on
\* that terminal has failed.
CommandSound(t, i) ==
  LET m == urgent[t][i] IN
  /\ m.waited => \E s \in Stage(m.kind) : call[m.caller] = At(s, t)
  /\ m.waited => \A j \in DOMAIN urgent[t] :
       urgent[t][j].waited /\ urgent[t][j].caller = m.caller => i = j
  /\ ~m.waited => t \in failed

LanesAgree == \A t \in Terminals : \A i \in DOMAIN urgent[t] : CommandSound(t, i)

\* Nothing is known of a terminal before it is created, ...
Fresh ==
  \A t \in Terminals : owner[t] = "none" =>
    /\ t \notin entries /\ child[t] = "none" /\ ~disposed[t] /\ ~exitObserved[t]
    /\ last[t] = "output"

\* ... and afterwards what was published fits what its owner knows.
Lives ==
  \A t \in Terminals :
    /\ Alive(t) => t \in entries
    /\ ~Alive(t) => urgent[t] = <<>>
    /\ owner[t] = "waiting" => ~outputOpen[t] /\ exitObserved[t] /\ ~disposed[t]
    /\ last[t] = "exit" => ~outputOpen[t]
    /\ last[t] = "disposal" => disposed[t]
    /\ child[t] = "none" => owner[t] = "none"

\* The exit is observed once, so that there is one timer.
OneTimer ==
  \A t \in Terminals :
    /\ t \in timers => call[t] = Idle
    /\ ~exitObserved[t] \/ owner[t] = "waiting" => t \notin timers /\ call[t] = Idle

\* The entries that count against the limit.
Counted == {t \in entries : owner[t] # "stopped"}

\* A create that is past the check has room: the terminal it evicts does not count,
\* and nobody else inserts meanwhile.
Room ==
  ~overlapped =>
    /\ \A c, d \in Callers : Creating(c) /\ Creating(d) => c = d
    /\ failed = {} =>
         /\ Cardinality(Counted) <= MaxEntries
         /\ \A c \in Callers : Creating(c) /\ call[c].at \notin {"full", "inspecting"} =>
              Cardinality(Counted \ {call[c].terminal}) < MaxEntries

LifeInv ==
  /\ TypeOK /\ CallsSound /\ LanesAgree /\ Fresh /\ Lives /\ OneTimer /\ Room
  /\ ChildrenReachable /\ NoOrphan /\ ArchiveClosed

-----------------------------------------------------------------------------
(* Facts about the state and about lanes *)

LEMMA Fields ==
  ASSUME TypeOK
  PROVE  /\ \A t \in Terminals :
              /\ owner[t] \in {"none", "running", "waiting", "stopped"}
              /\ child[t] \in {"none", "alive", "dead"}
              /\ urgent[t] \in Seq(Commands) /\ Len(urgent[t]) <= LaneCapacity
              /\ output[t] \in Seq({"data", "eof"}) /\ Len(output[t]) <= OutputCapacity
              /\ \A i \in DOMAIN urgent[t] : urgent[t][i] \in Commands
         /\ \A c \in Requesters : call[c] \in Calls
         /\ NoTerminal \notin Terminals
BY DEF TypeOK, NoTerminal, Terminals

LEMMA CallFields ==
  /\ Idle.at = "idle" /\ Idle.terminal = NoTerminal /\ Idle.left = {} /\ Idle \in Calls
  /\ \A s, t : At(s, t).at = s /\ At(s, t).terminal = t /\ At(s, t).left = {}
  /\ \A t \in Terminals \cup {NoTerminal} :
       \A s \in {"idle", "full", "inspecting", "evict", "evicting", "evicted", "admitted",
                 "disposing", "done", "closing", "closed"} : At(s, t) \in Calls
  /\ At("idle", NoTerminal) = Idle
BY DEF Idle, At, Calls

LEMMA GivenUpFields ==
  ASSUME NEW s
  PROVE  /\ GivenUp(s) \in Calls /\ GivenUp(s).at \in {"idle", "admitted"}
         /\ GivenUp(s).terminal = NoTerminal /\ GivenUp(s).left = {}
         /\ s # "evicting" => GivenUp(s) = Idle
         /\ s = "evicting" => GivenUp(s) = At("admitted", NoTerminal)
         /\ CallSound(GivenUp(s)) /\ CallSound(GivenUp(s))'
BY CallFields DEF GivenUp, CallSound

\* The first command of a lane and those behind it.
LEMMA Lane ==
  ASSUME NEW M, NEW s \in Seq(M), s # <<>>
  PROVE  /\ Head(s) = s[1] /\ 1 \in DOMAIN s /\ Head(s) \in M
         /\ Tail(s) \in Seq(M) /\ Len(Tail(s)) = Len(s) - 1
         /\ \A i \in DOMAIN Tail(s) : Tail(s)[i] = s[i + 1] /\ i + 1 \in DOMAIN s /\ i + 1 # 1
OBVIOUS

LEMMA Appended ==
  ASSUME NEW M, NEW s \in Seq(M), NEW m \in M
  PROVE  /\ Append(s, m) \in Seq(M) /\ Len(Append(s, m)) = Len(s) + 1
         /\ \A i \in DOMAIN s : Append(s, m)[i] = s[i] /\ i \in DOMAIN Append(s, m)
         /\ \A i \in DOMAIN Append(s, m) : i \in DOMAIN s \/ (i = Len(s) + 1 /\ Append(s, m)[i] = m)
OBVIOUS

LEMMA DesertedLane ==
  ASSUME NEW s \in Seq(Commands), NEW c
  PROVE  /\ Deserted(s, c) \in Seq(Commands) /\ Len(Deserted(s, c)) = Len(s)
         /\ DOMAIN Deserted(s, c) = DOMAIN s
         /\ \A i \in DOMAIN s :
              /\ Deserted(s, c)[i].kind = s[i].kind /\ Deserted(s, c)[i].caller = s[i].caller
              /\ Deserted(s, c)[i].waited <=> s[i].waited /\ s[i].caller # c
<1> DEFINE d(i) == [s[i] EXCEPT !.waited = @ /\ s[i].caller # c]
<1>1. \A i \in DOMAIN s : /\ d(i) \in Commands
                          /\ d(i).kind = s[i].kind /\ d(i).caller = s[i].caller
                          /\ d(i).waited <=> s[i].waited /\ s[i].caller # c
  <2> SUFFICES ASSUME NEW i \in DOMAIN s
               PROVE  /\ d(i) \in Commands
                      /\ d(i).kind = s[i].kind /\ d(i).caller = s[i].caller
                      /\ d(i).waited <=> s[i].waited /\ s[i].caller # c
    OBVIOUS
  <2>1. s[i] \in Commands
    OBVIOUS
  <2>. QED BY <2>1 DEF Commands
<1>2. Deserted(s, c) = [i \in 1..Len(s) |-> d(i)]
  BY DEF Deserted
<1> HIDE DEF d
<1>. QED BY <1>1, <1>2

LEMMA CountedSets ==
  ASSUME TypeOK, BoundsAssumption
  PROVE  /\ IsFiniteSet(Counted) /\ IsFiniteSet(entries) /\ Cardinality(entries) \in Nat
         /\ \A S \in SUBSET Terminals :
              /\ IsFiniteSet(S) /\ Cardinality(S) \in Nat
              /\ \A T \in SUBSET S : Cardinality(T) <= Cardinality(S)
<1>1. IsFiniteSet(Terminals)
  BY FS_Interval DEF Terminals, BoundsAssumption
<1>2. \A S \in SUBSET Terminals : IsFiniteSet(S) /\ Cardinality(S) \in Nat
  BY <1>1, FS_Subset, FS_CardinalityType
<1>3. \A S \in SUBSET Terminals : \A T \in SUBSET S : Cardinality(T) <= Cardinality(S)
  BY <1>2, FS_Subset
<1>4. Counted \in SUBSET Terminals /\ entries \in SUBSET Terminals
  BY DEF Counted, TypeOK
<1>. QED BY <1>2, <1>3, <1>4
-----------------------------------------------------------------------------
(* What a step keeps *)

LEMMA LanesKept ==
  ASSUME TypeOK, LanesAgree, urgent' = urgent, failed \subseteq failed',
         \A c \in Requesters : Waiting(c) => call'[c] = call[c]
  PROVE  LanesAgree'
<1>. SUFFICES ASSUME NEW t \in Terminals, NEW i \in DOMAIN urgent[t]
              PROVE  CommandSound(t, i)'
  BY DEF LanesAgree
<1>. DEFINE m == urgent[t][i]
<1>1. m \in Commands /\ m.caller \in Requesters /\ m.waited \in BOOLEAN
      /\ m.kind \in {"dispose", "close"}
  BY Fields DEF Commands
<1>2. CommandSound(t, i)
  BY DEF LanesAgree
<1>3. m.waited => call'[m.caller] = call[m.caller]
  <2>. SUFFICES ASSUME m.waited PROVE Waiting(m.caller)
    BY <1>1
  <2>1. PICK s \in Stage(m.kind) : call[m.caller] = At(s, t)
    BY <1>2 DEF CommandSound
  <2>. QED BY <2>1, CallFields DEF Stage, Waiting
<1>. QED BY <1>2, <1>3 DEF CommandSound

LEMMA OrphansKept ==
  ASSUME NoOrphan,
         \A t \in entries' : owner'[t] = "stopped" /\ t \notin failed' =>
           t \in entries /\ owner[t] = "stopped" /\ t \notin failed,
         \A c \in Requesters : call[c].at \in {"evicted", "done", "closed"} => call'[c] = call[c]
  PROVE  NoOrphan'
<1>. SUFFICES ASSUME NEW t \in entries', owner'[t] = "stopped", t \notin failed'
              PROVE  Removing(t)'
  BY DEF NoOrphan
<1>1. PICK c \in Requesters : call[c].terminal = t /\ call[c].at \in {"evicted", "done", "closed"}
  BY DEF NoOrphan, Removing
<1>. QED BY <1>1 DEF Removing

LEMMA RoomKept ==
  ASSUME TypeOK, BoundsAssumption, CapacityAssumption, Room, overlapped' = overlapped,
         failed \subseteq failed', Counted' \subseteq Counted,
         \A c \in Callers : Creating(c)' =>
           /\ Creating(c)
           /\ call'[c].at \notin {"full", "inspecting"} /\ failed' = {} =>
                /\ call[c].at \notin {"full", "inspecting"}
                /\ Counted' \ {call'[c].terminal} \subseteq Counted \ {call[c].terminal}
  PROVE  Room'
<1>. SUFFICES ASSUME ~overlapped
              PROVE  /\ \A c, d \in Callers : Creating(c)' /\ Creating(d)' => c = d
                     /\ failed' = {} =>
                          /\ Cardinality(Counted') <= MaxEntries
                          /\ \A c \in Callers : Creating(c)' /\ call'[c].at \notin {"full", "inspecting"} =>
                               Cardinality(Counted' \ {call'[c].terminal}) < MaxEntries
  BY DEF Room
<1>1. \A c, d \in Callers : Creating(c)' /\ Creating(d)' => c = d
  BY DEF Room
<1>2. ASSUME failed' = {}
      PROVE  /\ Cardinality(Counted') <= MaxEntries
             /\ \A c \in Callers : Creating(c)' /\ call'[c].at \notin {"full", "inspecting"} =>
                  Cardinality(Counted' \ {call'[c].terminal}) < MaxEntries
  <2>1. /\ Cardinality(Counted) <= MaxEntries
        /\ \A c \in Callers : Creating(c) /\ call[c].at \notin {"full", "inspecting"} =>
             Cardinality(Counted \ {call[c].terminal}) < MaxEntries
    BY <1>2 DEF Room
  <2>2. Counted \in SUBSET Terminals /\ MaxEntries \in Nat
    BY DEF Counted, TypeOK, CapacityAssumption
  <2>3. Cardinality(Counted') <= Cardinality(Counted)
        /\ Cardinality(Counted) \in Nat /\ Cardinality(Counted') \in Nat
    BY <2>2, CountedSets
  <2>4. ASSUME NEW c \in Callers, Creating(c)', call'[c].at \notin {"full", "inspecting"}
        PROVE  Cardinality(Counted' \ {call'[c].terminal}) < MaxEntries
    <3>. PICK S, T : S = Counted \ {call[c].terminal} /\ T = Counted' \ {call'[c].terminal}
      OBVIOUS
    <3>1. T \subseteq S /\ S \subseteq Terminals /\ Cardinality(S) < MaxEntries
      BY <1>2, <2>1, <2>2, <2>4
    <3>2. Cardinality(T) <= Cardinality(S) /\ Cardinality(S) \in Nat /\ Cardinality(T) \in Nat
      BY <3>1, CountedSets
    <3>. QED BY <2>2, <3>1, <3>2
  <2>. QED BY <2>1, <2>2, <2>3, <2>4
<1>. QED BY <1>1, <1>2

\* A step that leaves alone the map, the requests and their lanes.
LEMMA MapKept ==
  ASSUME LifeInv, BoundsAssumption, CapacityAssumption,
         UNCHANGED <<entries, owner, child, urgent, call, failed, overlapped>>
  PROVE  /\ CallsSound' /\ LanesAgree' /\ Room' /\ ChildrenReachable' /\ NoOrphan'
         /\ \A t \in Terminals : Alive(t)' = Alive(t)
<1>1. CallsSound' /\ ChildrenReachable'
  BY DEF LifeInv, CallsSound, CallSound, ChildrenReachable
<1>2. LanesAgree'
  BY LanesKept DEF LifeInv
<1>3. NoOrphan'
  BY OrphansKept DEF LifeInv
<1>4. Counted' = Counted
  BY DEF Counted
<1>5. Room'
  BY <1>4, RoomKept DEF LifeInv, Creating
<1>. QED BY <1>1, <1>2, <1>3, <1>5 DEF Alive

\* A request of a client that is not in a lane and removes nothing goes on or ends.
LEMMA CallMoved ==
  ASSUME LifeInv, CallersAssumption, NEW c \in Callers, NEW k \in Calls,
         call' = [call EXCEPT ![c] = k], CallSound(k)',
         call[c].at \in {"idle", "full", "inspecting", "evict", "admitted"},
         UNCHANGED <<entries, processVars, ownerVars, urgent, timers, published, failed>>
  PROVE  /\ CallsSound' /\ LanesAgree' /\ ChildrenReachable' /\ NoOrphan' /\ ArchiveClosed'
         /\ Fresh' /\ Lives' /\ OneTimer' /\ Counted' = Counted
         /\ call' \in [Requesters -> Calls]
         /\ \A d \in Requesters \ {c} : call'[d] = call[d]
         /\ call'[c] = k
<1>. USE DEF processVars, ownerVars, published
<1>1. /\ call \in [Requesters -> Calls] /\ c \in Requesters /\ c \notin Terminals
      /\ \A d \in Requesters \ {c} : call'[d] = call[d]
      /\ call'[c] = k /\ call' \in [Requesters -> Calls]
  BY DEF LifeInv, TypeOK, Requesters, CallersAssumption, Terminals
<1>2. CallsSound'
  BY <1>1 DEF LifeInv, CallsSound, CallSound
<1>3. LanesAgree'
  BY <1>1, LanesKept DEF LifeInv, Waiting
<1>4. NoOrphan'
  BY <1>1, OrphansKept DEF LifeInv
<1>5. ChildrenReachable' /\ ArchiveClosed' /\ Fresh' /\ Lives' /\ Counted' = Counted
  BY DEF LifeInv, ChildrenReachable, ArchiveClosed, Fresh, Lives, Alive, Counted
<1>6. OneTimer'
  BY <1>1 DEF LifeInv, OneTimer, Requesters
<1>. QED BY <1>1, <1>2, <1>3, <1>4, <1>5, <1>6
-----------------------------------------------------------------------------
(* The steps of a create *)

LEMMA CreateKeeps ==
  ASSUME LifeInv, CallersAssumption, BoundsAssumption, CapacityAssumption,
         NEW c \in Callers, Create(c)
  PROVE  LifeInv'
<1>. PICK k : k = At(IF AtCapacity THEN "full" ELSE "admitted", NoTerminal)
  OBVIOUS
<1>1. /\ call[c] = Idle /\ call' = [call EXCEPT ![c] = k]
      /\ overlapped' = (overlapped \/ \E other \in Callers : Creating(other))
      /\ UNCHANGED <<entries, processVars, ownerVars, urgent, timers, published, failed, faults>>
  BY DEF Create
<1>2. k \in Calls /\ CallSound(k)' /\ k.at \in {"full", "admitted"} /\ k.terminal = NoTerminal
      /\ (AtCapacity => k.at = "full")
  BY CallFields DEF CallSound
<1>3. /\ CallsSound' /\ LanesAgree' /\ ChildrenReachable' /\ NoOrphan' /\ ArchiveClosed'
      /\ Fresh' /\ Lives' /\ OneTimer' /\ Counted' = Counted
      /\ call' \in [Requesters -> Calls]
      /\ \A d \in Requesters \ {c} : call'[d] = call[d]
      /\ call'[c] = k
  <2>1. call[c].at = "idle"
    BY <1>1, CallFields
  <2>2. UNCHANGED <<entries, processVars, ownerVars, urgent, timers, published, failed>>
    BY <1>1
  <2>3. call' = [call EXCEPT ![c] = k]
    BY <1>1
  <2>. QED BY ONLY LifeInv, CallersAssumption, c \in Callers, <1>2, <2>1, <2>2, <2>3, CallMoved
<1>4. TypeOK'
  BY <1>1, <1>3 DEF LifeInv, TypeOK, processVars, ownerVars, published
<1>5. Room'
  <2>. SUFFICES ASSUME ~overlapped'
                PROVE  /\ \A d, e \in Callers : Creating(d)' /\ Creating(e)' => d = e
                       /\ failed' = {} =>
                            /\ Cardinality(Counted') <= MaxEntries
                            /\ \A d \in Callers : Creating(d)' /\ call'[d].at \notin {"full", "inspecting"} =>
                                 Cardinality(Counted' \ {call'[d].terminal}) < MaxEntries
    BY DEF Room
  <2>1. ~overlapped /\ \A d \in Callers : ~Creating(d)
    BY <1>1 DEF LifeInv, TypeOK
  <2>2. \A d \in Callers : Creating(d)' => d = c
    BY <1>3, <2>1 DEF Creating, Requesters
  <2>3. failed' = {} => Cardinality(Counted') <= MaxEntries
    BY <1>1, <1>3, <2>1 DEF LifeInv, Room
  <2>4. ASSUME k.at \notin {"full", "inspecting"}
        PROVE  Cardinality(Counted' \ {k.terminal}) < MaxEntries
    <3>1. Counted' \ {k.terminal} \subseteq entries /\ entries \subseteq Terminals
      BY <1>2, <1>3 DEF Counted, LifeInv, TypeOK
    <3>2. ~(Cardinality(entries) >= MaxEntries)
      BY <1>2, <2>4 DEF AtCapacity
    <3>3. /\ Cardinality(Counted' \ {k.terminal}) <= Cardinality(entries)
          /\ Cardinality(Counted' \ {k.terminal}) \in Nat /\ Cardinality(entries) \in Nat
      <4>. PICK S : S = Counted' \ {k.terminal}
        OBVIOUS
      <4>. QED BY <3>1, CountedSets DEF LifeInv
    <3>. QED BY <3>2, <3>3 DEF CapacityAssumption
  <2>. QED BY <1>3, <2>2, <2>3, <2>4
<1>. QED BY <1>3, <1>4, <1>5 DEF LifeInv

LEMMA ListIdsKeeps ==
  ASSUME LifeInv, CallersAssumption, BoundsAssumption, CapacityAssumption,
         NEW c \in Callers, ListIds(c)
  PROVE  LifeInv'
<1>. PICK k : k = [at |-> "inspecting", terminal |-> NoTerminal, left |-> entries]
  OBVIOUS
<1>1. /\ call[c].at = "full" /\ call' = [call EXCEPT ![c] = k]
      /\ UNCHANGED <<entries, processVars, ownerVars, urgent, timers, overlapped, published,
                     failed, faults>>
  BY DEF ListIds
<1>2. k \in Calls /\ CallSound(k)' /\ k.at = "inspecting"
  BY DEF LifeInv, TypeOK, Calls, CallSound
<1>3. /\ CallsSound' /\ LanesAgree' /\ ChildrenReachable' /\ NoOrphan' /\ ArchiveClosed'
      /\ Fresh' /\ Lives' /\ OneTimer' /\ Counted' = Counted
      /\ call' \in [Requesters -> Calls]
      /\ \A d \in Requesters \ {c} : call'[d] = call[d]
      /\ call'[c] = k
  BY <1>1, <1>2, CallMoved
<1>4. TypeOK'
  BY <1>1, <1>3 DEF LifeInv, TypeOK, processVars, ownerVars, published
<1>5. Room'
  <2>1. \A d \in Callers : Creating(d)' =>
          Creating(d) /\ (call'[d].at \notin {"full", "inspecting"} => d # c /\ call'[d] = call[d])
    BY <1>1, <1>2, <1>3 DEF Creating, Requesters
  <2>. QED BY <1>1, <1>3, <2>1, RoomKept DEF LifeInv
<1>. QED BY <1>3, <1>4, <1>5 DEF LifeInv

LEMMA InspectKeeps ==
  ASSUME LifeInv, CallersAssumption, BoundsAssumption, CapacityAssumption,
         NEW c \in Callers, Inspect(c)
  PROVE  LifeInv'
<1>. USE DEF processVars, ownerVars, published
<1>1. call[c] \in Calls /\ c \in Requesters
  BY Fields DEF LifeInv, Requesters
<1>2. PICK k : /\ call' = [call EXCEPT ![c] = k] /\ k \in Calls
               /\ CallSound(k)'
               /\ \/ k = Idle
                  \/ k.at = "inspecting"
                  \/ \E t \in Counted : k = At("evict", t)
  <2>1. CASE call' = [call EXCEPT ![c] = Idle]
    BY <2>1, CallFields DEF CallSound
  <2>2. CASE \E t \in call[c].left : call' = [call EXCEPT ![c] =
                IF owner[t] = "running" /\ status[t] = "exited"
                  THEN At("evict", t) ELSE [call[c] EXCEPT !.left = @ \ {t}]]
    <3>1. PICK t \in call[c].left : call' = [call EXCEPT ![c] =
                IF owner[t] = "running" /\ status[t] = "exited"
                  THEN At("evict", t) ELSE [call[c] EXCEPT !.left = @ \ {t}]]
      BY <2>2
    <3>2. t \in Terminals
      BY <1>1 DEF Calls
    <3>3. CASE owner[t] = "running" /\ status[t] = "exited"
      <4>1. t \in Counted
        BY <3>2, <3>3 DEF LifeInv, Lives, Alive, Counted
      <4>2. owner'[t] = "running"
        BY <3>3 DEF Inspect
      <4>. PICK k : k = At("evict", t)
        OBVIOUS
      <4>3. k \in Calls /\ k.at = "evict" /\ k.terminal = t /\ k.left = {}
        BY <3>2, CallFields
      <4>4. CallSound(k)'
        BY <3>2, <4>2, <4>3 DEF CallSound
      <4>5. call' = [call EXCEPT ![c] = k]
        BY <3>1, <3>3
      <4>. QED BY <4>1, <4>3, <4>4, <4>5
    <3>4. CASE ~(owner[t] = "running" /\ status[t] = "exited")
      <4>. PICK k : k = [call[c] EXCEPT !.left = @ \ {t}]
        OBVIOUS
      <4>1. call[c].at = "inspecting" /\ call[c].terminal = NoTerminal
        BY <1>1 DEF Inspect, LifeInv, CallsSound, CallSound
      <4>2. k \in Calls /\ k.at = "inspecting" /\ k.terminal = NoTerminal
        BY <1>1, <4>1 DEF Calls
      <4>. QED BY <3>1, <3>4, <4>2 DEF CallSound
    <3>. QED BY <3>3, <3>4
  <2>. QED BY <2>1, <2>2 DEF Inspect
<1>3. /\ call[c].at = "inspecting"
      /\ UNCHANGED <<entries, processVars, ownerVars, urgent, timers, overlapped, published,
                     failed, faults>>
  BY DEF Inspect
<1>4. /\ CallsSound' /\ LanesAgree' /\ ChildrenReachable' /\ NoOrphan' /\ ArchiveClosed'
      /\ Fresh' /\ Lives' /\ OneTimer' /\ Counted' = Counted
      /\ call' \in [Requesters -> Calls]
      /\ \A d \in Requesters \ {c} : call'[d] = call[d]
      /\ call'[c] = k
  BY <1>2, <1>3, CallMoved
<1>5. TypeOK'
  BY <1>3, <1>4 DEF LifeInv, TypeOK
<1>6. Room'
  <2>1. CASE \E t \in Counted : k = At("evict", t)
    <3>1. PICK t \in Counted : k.at = "evict" /\ k.terminal = t
      BY <2>1, CallFields
    <3>. SUFFICES ASSUME ~overlapped
                  PROVE  /\ \A d, e \in Callers : Creating(d)' /\ Creating(e)' => d = e
                         /\ failed = {} =>
                              /\ Cardinality(Counted) <= MaxEntries
                              /\ \A d \in Callers : Creating(d)' /\ call'[d].at \notin {"full", "inspecting"} =>
                                   Cardinality(Counted \ {call'[d].terminal}) < MaxEntries
      BY <1>3, <1>4 DEF Room
    <3>2. Creating(c) /\ \A d \in Callers : Creating(d)' => Creating(d)
      BY <1>3, <1>4 DEF Creating, Requesters
    <3>3. \A d, e \in Callers : Creating(d) /\ Creating(e) => d = e
      BY DEF LifeInv, Room
    <3>4. ASSUME failed = {}
          PROVE  Cardinality(Counted) <= MaxEntries /\ Cardinality(Counted \ {t}) < MaxEntries
      <4>1. Cardinality(Counted) <= MaxEntries
        BY <3>4 DEF LifeInv, Room
      <4>2. Cardinality(Counted \ {t}) = Cardinality(Counted) - 1
        BY CountedSets, FS_RemoveElement DEF LifeInv
      <4>3. Cardinality(Counted) \in Nat
        BY CountedSets, FS_CardinalityType DEF LifeInv
      <4>. QED BY <4>1, <4>2, <4>3 DEF CapacityAssumption
    <3>. QED BY <1>4, <3>1, <3>2, <3>3, <3>4
  <2>2. CASE k = Idle \/ k.at = "inspecting"
    <3>1. \A d \in Callers : Creating(d)' =>
            Creating(d) /\ (call'[d].at \notin {"full", "inspecting"} => d # c /\ call'[d] = call[d])
      BY <1>3, <1>4, <2>2, CallFields DEF Creating, Requesters
    <3>. QED BY <1>3, <1>4, <3>1, RoomKept DEF LifeInv
  <2>. QED BY <1>2, <2>1, <2>2
<1>. QED BY <1>4, <1>5, <1>6 DEF LifeInv

LEMMA SpawnFailsKeeps ==
  ASSUME LifeInv, CallersAssumption, BoundsAssumption, CapacityAssumption,
         NEW c \in Callers, SpawnFails(c)
  PROVE  LifeInv'
<1>1. /\ call[c].at = "admitted" /\ call' = [call EXCEPT ![c] = Idle] /\ faults' = faults + 1
      /\ UNCHANGED <<entries, processVars, ownerVars, urgent, timers, overlapped, published, failed>>
  BY DEF SpawnFails
<1>2. CallSound(Idle)'
  BY CallFields DEF CallSound
<1>3. /\ CallsSound' /\ LanesAgree' /\ ChildrenReachable' /\ NoOrphan' /\ ArchiveClosed'
      /\ Fresh' /\ Lives' /\ OneTimer' /\ Counted' = Counted
      /\ call' \in [Requesters -> Calls]
      /\ \A d \in Requesters \ {c} : call'[d] = call[d]
      /\ call'[c] = Idle
  BY <1>1, <1>2, CallFields, CallMoved
<1>4. TypeOK'
  BY <1>1, <1>3 DEF LifeInv, TypeOK, processVars, ownerVars, published
<1>5. Room'
  <2>1. \A d \in Callers : Creating(d)' => d # c /\ call'[d] = call[d] /\ Creating(d)
    BY <1>3, CallFields DEF Creating, Requesters
  <2>. QED BY <1>1, <1>3, <2>1, RoomKept DEF LifeInv
<1>. QED BY <1>3, <1>4, <1>5 DEF LifeInv
LEMMA InsertKeeps ==
  ASSUME LifeInv, CallersAssumption, BoundsAssumption, CapacityAssumption,
         NEW c \in Callers, Insert(c)
  PROVE  LifeInv'
<1>. PICK t \in Unused :
       /\ child' = [child EXCEPT ![t] = "alive"]
       /\ \/ /\ entries' = entries \cup {t}
             /\ owner' = [owner EXCEPT ![t] = "running"]
             /\ UNCHANGED <<pty, failed, faults>>
          \/ /\ faults' = faults + 1
             /\ entries' \in {entries, entries \cup {t}}
             /\ owner' = [owner EXCEPT ![t] = "stopped"]
             /\ pty' = [pty EXCEPT ![t] = "closed"]
             /\ failed' = failed \cup {t}
  BY DEF Insert
<1>1. /\ call[c].at = "admitted" /\ call' = [call EXCEPT ![c] = Idle]
      /\ UNCHANGED <<output, outputOpen, exitObserved, status, disposed,
                     urgent, timers, overlapped, last, closed>>
  BY DEF Insert, published
<1>2. /\ t \in Terminals /\ owner[t] = "none" /\ t \notin entries /\ child[t] = "none"
      /\ ~disposed[t] /\ ~exitObserved[t] /\ last[t] = "output" /\ urgent[t] = <<>>
  BY DEF Unused, LifeInv, Fresh, Lives, Alive
<1>3. /\ owner \in [Terminals -> {"none", "running", "waiting", "stopped"}]
      /\ child \in [Terminals -> {"none", "alive", "dead"}]
      /\ call \in [Requesters -> Calls] /\ c \in Requesters /\ c \notin Terminals
  BY DEF LifeInv, TypeOK, Requesters, CallersAssumption, Terminals
<1>4. /\ \A u \in Terminals \ {t} : owner'[u] = owner[u] /\ child'[u] = child[u]
      /\ child'[t] = "alive"
      /\ \/ owner'[t] = "running" /\ failed' = failed /\ entries' = entries \cup {t}
         \/ owner'[t] = "stopped" /\ failed' = failed \cup {t}
      /\ entries \subseteq entries' /\ entries' \subseteq entries \cup {t}
      /\ owner' \in [Terminals -> {"none", "running", "waiting", "stopped"}]
      /\ child' \in [Terminals -> {"none", "alive", "dead"}]
      /\ pty' \in [Terminals -> {"open", "closed"}] /\ faults' \in Nat
      /\ call' \in [Requesters -> Calls] /\ call'[c] = Idle
      /\ \A d \in Requesters \ {c} : call'[d] = call[d]
  <2>. pty \in [Terminals -> {"open", "closed"}] /\ faults \in Nat
    BY DEF LifeInv, TypeOK
  <2>1. CASE owner' = [owner EXCEPT ![t] = "running"] /\ entries' = entries \cup {t}
             /\ UNCHANGED <<pty, failed, faults>>
    BY <1>1, <1>2, <1>3, <2>1, CallFields
  <2>2. CASE /\ owner' = [owner EXCEPT ![t] = "stopped"] /\ failed' = failed \cup {t}
             /\ faults' = faults + 1 /\ entries' \in {entries, entries \cup {t}}
             /\ pty' = [pty EXCEPT ![t] = "closed"]
    BY <1>1, <1>2, <1>3, <2>2, CallFields
  <2>. QED BY <2>1, <2>2
<1>5. TypeOK'
  BY <1>1, <1>2, <1>4 DEF LifeInv, TypeOK
<1>6. CallsSound'
  <2>. SUFFICES ASSUME NEW d \in Requesters PROVE CallSound(call[d])'
    BY DEF CallsSound
  <2>1. CASE d = c
    BY <1>4, <2>1, CallFields DEF CallSound
  <2>2. CASE d # c
    <3>1. call'[d] = call[d] /\ CallSound(call[d])
      BY <1>4, <2>2 DEF LifeInv, CallsSound
    <3>2. \A u \in Terminals : owner[u] # "none" => owner'[u] = owner[u] /\ child'[u] = child[u]
      BY <1>2, <1>4
    <3>. QED BY <3>1, <3>2 DEF CallSound
  <2>. QED BY <2>1, <2>2
<1>7. LanesAgree'
  <2>1. \A d \in Requesters : Waiting(d) => call'[d] = call[d]
    BY <1>1, <1>4 DEF Waiting
  <2>2. failed \subseteq failed'
    BY <1>4
  <2>. QED BY <1>1, <2>1, <2>2, LanesKept DEF LifeInv
<1>8. Fresh'
  BY <1>1, <1>4 DEF LifeInv, Fresh
<1>9. Lives'
  <2>. SUFFICES ASSUME NEW u \in Terminals
                PROVE  /\ Alive(u)' => u \in entries'
                       /\ ~Alive(u)' => urgent'[u] = <<>>
                       /\ owner'[u] = "waiting" => ~outputOpen'[u] /\ exitObserved'[u] /\ ~disposed'[u]
                       /\ last'[u] = "exit" => ~outputOpen'[u]
                       /\ last'[u] = "disposal" => disposed'[u]
                       /\ child'[u] = "none" => owner'[u] = "none"
    BY DEF Lives
  <2>1. CASE u = t
    BY <1>1, <1>2, <1>4, <2>1 DEF Alive
  <2>2. CASE u # t
    BY <1>1, <1>4, <2>2 DEF LifeInv, Lives, Alive
  <2>. QED BY <2>1, <2>2
<1>10. OneTimer'
  <2>1. \A u \in Terminals : call'[u] = call[u]
    BY <1>3, <1>4 DEF Requesters
  <2>2. \A u \in Terminals : owner'[u] = "waiting" => owner[u] = "waiting"
    BY <1>4
  <2>. QED BY <1>1, <2>1, <2>2 DEF LifeInv, OneTimer
<1>11. ChildrenReachable'
  BY <1>4 DEF LifeInv, ChildrenReachable
<1>12. NoOrphan'
  <2>1. \A u \in entries' : owner'[u] = "stopped" /\ u \notin failed' =>
           u \in entries /\ owner[u] = "stopped" /\ u \notin failed
    BY <1>4 DEF LifeInv, TypeOK
  <2>2. \A d \in Requesters : call[d].at \in {"evicted", "done", "closed"} => call'[d] = call[d]
    BY <1>1, <1>4
  <2>. QED BY <2>1, <2>2, OrphansKept DEF LifeInv
<1>13. ArchiveClosed'
  BY <1>1, <1>2, <1>4 DEF LifeInv, ArchiveClosed
<1>14. Room'
  <2>. SUFFICES ASSUME ~overlapped
                PROVE  /\ \A d \in Callers : ~Creating(d)'
                       /\ failed' = {} => Cardinality(Counted') <= MaxEntries
    BY <1>1 DEF Room
  <2>1. \A d \in Callers : Creating(d) => d = c
    BY <1>1 DEF LifeInv, Room, Creating
  <2>2. \A d \in Callers : ~Creating(d)'
    BY <1>4, <2>1, CallFields DEF Creating, Requesters
  <2>3. ASSUME failed' = {} PROVE Cardinality(Counted') <= MaxEntries
    <3>1. failed = {} /\ Creating(c) /\ call[c].terminal = NoTerminal
      BY <1>1, <1>3, <1>4, <2>3 DEF Creating, LifeInv, CallsSound, CallSound
    <3>2. Cardinality(Counted \ {NoTerminal}) < MaxEntries
      BY <1>1, <3>1 DEF LifeInv, Room
    <3>3. Counted \ {NoTerminal} = Counted
      BY DEF Counted, LifeInv, TypeOK, Terminals, NoTerminal
    <3>4. Counted' = Counted \cup {t} /\ t \notin Counted
      BY <1>2, <1>4, <2>3 DEF Counted, LifeInv, TypeOK
    <3>5. Cardinality(Counted') = Cardinality(Counted) + 1 /\ Cardinality(Counted) \in Nat
      BY <3>4, CountedSets, FS_AddElement, FS_CardinalityType DEF LifeInv
    <3>. QED BY <3>2, <3>3, <3>5 DEF CapacityAssumption
  <2>. QED BY <2>2, <2>3
<1>. QED BY <1>5, <1>6, <1>7, <1>8, <1>9, <1>10, <1>11, <1>12, <1>13, <1>14 DEF LifeInv

-----------------------------------------------------------------------------
(* Children, output and exits *)

LEMMA ChildExitsKeeps ==
  ASSUME LifeInv, BoundsAssumption, CapacityAssumption, NEW t \in Terminals, ChildExits(t)
  PROVE  LifeInv'
<1>1. /\ child[t] = "alive" /\ child' = [child EXCEPT ![t] = "dead"]
      /\ UNCHANGED <<entries, pty, output, ownerVars, urgent, timers, overlapped, call,
                     published, failed, faults>>
  BY DEF ChildExits
<1>2. /\ child \in [Terminals -> {"none", "alive", "dead"}]
      /\ child'[t] = "dead" /\ \A u \in Terminals \ {t} : child'[u] = child[u]
      /\ child' \in [Terminals -> {"none", "alive", "dead"}]
  BY <1>1 DEF LifeInv, TypeOK
<1>3. TypeOK'
  BY <1>1, <1>2 DEF LifeInv, TypeOK, ownerVars, published
<1>4. CallsSound'
  BY <1>1, <1>2 DEF LifeInv, CallsSound, CallSound, ownerVars
<1>5. LanesAgree'
  BY <1>1, LanesKept DEF LifeInv, ownerVars
<1>6. Fresh' /\ Lives'
  <2>1. \A u \in Terminals : child'[u] = "none" <=> child[u] = "none"
    BY <1>1, <1>2
  <2>. QED BY <1>1, <2>1 DEF LifeInv, Fresh, Lives, Alive, ownerVars, published
<1>7. OneTimer' /\ ArchiveClosed'
  BY <1>1 DEF LifeInv, OneTimer, ArchiveClosed, ownerVars, published
<1>8. ChildrenReachable'
  BY <1>1, <1>2 DEF LifeInv, ChildrenReachable, ownerVars
<1>9. NoOrphan'
  BY <1>1, OrphansKept DEF LifeInv, ownerVars
<1>10. Room'
  BY <1>1, RoomKept DEF LifeInv, Counted, Creating, ownerVars
<1>. QED BY <1>3, <1>4, <1>5, <1>6, <1>7, <1>8, <1>9, <1>10 DEF LifeInv

LEMMA ReadKeeps ==
  ASSUME LifeInv, BoundsAssumption, CapacityAssumption, NEW t \in Terminals, Read(t)
  PROVE  LifeInv'
<1>1. PICK x \in {"data", "eof"} : output' = [output EXCEPT ![t] = Append(@, x)]
  BY DEF Read
<1>2. /\ Len(output[t]) < OutputCapacity
      /\ pty' = pty \/ pty' = [pty EXCEPT ![t] = "closed"]
      /\ UNCHANGED <<entries, child, ownerVars, urgent, timers, overlapped, call, published,
                     failed, faults>>
  BY DEF Read
<1>3. /\ output' \in [Terminals -> Seq({"data", "eof"})]
      /\ \A u \in Terminals : Len(output'[u]) <= OutputCapacity
      /\ pty' \in [Terminals -> {"open", "closed"}]
  <2>1. output \in [Terminals -> Seq({"data", "eof"})] /\ pty \in [Terminals -> {"open", "closed"}]
        /\ \A u \in Terminals : Len(output[u]) <= OutputCapacity
    BY DEF LifeInv, TypeOK
  <2>2. Append(output[t], x) \in Seq({"data", "eof"}) /\ Len(Append(output[t], x)) <= OutputCapacity
    BY <1>2, <2>1, Appended DEF CapacityAssumption
  <2>. QED BY <1>1, <1>2, <2>1, <2>2
<1>4. TypeOK'
  BY <1>2, <1>3 DEF LifeInv, TypeOK, ownerVars, published
<1>5. /\ CallsSound' /\ LanesAgree' /\ Room' /\ ChildrenReachable' /\ NoOrphan'
  BY <1>2, MapKept DEF ownerVars
<1>6. Fresh' /\ Lives' /\ OneTimer' /\ ArchiveClosed'
  BY <1>2 DEF LifeInv, Fresh, Lives, Alive, OneTimer, ArchiveClosed, ownerVars, published
<1>. QED BY <1>4, <1>5, <1>6 DEF LifeInv
LEMMA ProcessKeeps ==
  ASSUME LifeInv, BoundsAssumption, CapacityAssumption, NEW t \in Terminals, Process(t)
  PROVE  LifeInv' /\ \A u \in Terminals : last'[u] # last[u] => last[u] = "output"
<1>1. /\ owner[t] = "running" /\ outputOpen[t] /\ output[t] # <<>>
      /\ output' = [output EXCEPT ![t] = Tail(@)]
      /\ UNCHANGED <<entries, child, pty, owner, exitObserved, status, disposed,
                     urgent, timers, overlapped, call, closed, failed, faults>>
  BY DEF Process
<1>2. \/ outputOpen' = [outputOpen EXCEPT ![t] = FALSE] /\ last' = last
      \/ ~disposed[t] /\ last' = [last EXCEPT ![t] = "output"] /\ outputOpen' = outputOpen
      \/ last' = last /\ outputOpen' = outputOpen
  BY DEF Process
<1>3. /\ outputOpen \in [Terminals -> BOOLEAN]
      /\ last \in [Terminals -> {"output", "exit", "disposal"}]
      /\ output \in [Terminals -> Seq({"data", "eof"})]
      /\ \A u \in Terminals : Len(output[u]) <= OutputCapacity
  BY DEF LifeInv, TypeOK
<1>4. /\ outputOpen' \in [Terminals -> BOOLEAN]
      /\ last' \in [Terminals -> {"output", "exit", "disposal"}]
      /\ \A u \in Terminals : outputOpen'[u] => outputOpen[u]
      /\ \A u \in Terminals : last'[u] # last[u] => u = t /\ last'[u] = "output" /\ ~disposed[t]
  BY <1>2, <1>3
<1>5. output' \in [Terminals -> Seq({"data", "eof"})] /\ \A u \in Terminals : Len(output'[u]) <= OutputCapacity
  <2>1. Tail(output[t]) \in Seq({"data", "eof"}) /\ Len(Tail(output[t])) <= OutputCapacity
    BY <1>1, <1>3, Lane DEF CapacityAssumption
  <2>. QED BY <1>1, <1>3, <2>1
<1>6. TypeOK'
  BY <1>1, <1>4, <1>5 DEF LifeInv, TypeOK
<1>7. /\ CallsSound' /\ LanesAgree' /\ Room' /\ ChildrenReachable' /\ NoOrphan'
  BY <1>1, MapKept
<1>8. Fresh' /\ OneTimer'
  BY <1>1, <1>4 DEF LifeInv, Fresh, OneTimer
<1>9. Lives'
  BY <1>1, <1>4 DEF LifeInv, Lives, Alive
<1>10. ArchiveClosed'
  BY <1>1, <1>4 DEF LifeInv, ArchiveClosed
<1>11. last[t] = "output" \/ last'[t] = last[t]
  BY <1>1, <1>3, <1>4 DEF LifeInv, Lives
<1>. QED BY <1>4, <1>6, <1>7, <1>8, <1>9, <1>10, <1>11 DEF LifeInv

LEMMA ObserveKeeps ==
  ASSUME LifeInv, BoundsAssumption, CapacityAssumption, NEW t \in Terminals, Observe(t)
  PROVE  LifeInv'
<1>1. /\ owner[t] = "running" /\ ~outputOpen[t] /\ ~exitObserved[t]
      /\ exitObserved' = [exitObserved EXCEPT ![t] = TRUE]
      /\ owner' = [owner EXCEPT ![t] = IF disposed[t] THEN "running" ELSE "waiting"]
      /\ UNCHANGED <<entries, processVars, outputOpen, status, disposed, urgent,
                     timers, overlapped, call, published, failed, faults>>
  BY DEF Observe
<1>2. /\ owner \in [Terminals -> {"none", "running", "waiting", "stopped"}]
      /\ exitObserved \in [Terminals -> BOOLEAN]
  BY DEF LifeInv, TypeOK
<1>3. /\ owner' \in [Terminals -> {"none", "running", "waiting", "stopped"}]
      /\ exitObserved' \in [Terminals -> BOOLEAN]
      /\ exitObserved'[t] /\ \A u \in Terminals \ {t} : exitObserved'[u] = exitObserved[u]
      /\ owner'[t] \in {"running", "waiting"} /\ (owner'[t] = "waiting" => ~disposed[t])
      /\ \A u \in Terminals \ {t} : owner'[u] = owner[u]
  BY <1>1, <1>2
<1>4. TypeOK'
  BY <1>1, <1>3 DEF LifeInv, TypeOK, processVars, published
<1>5. \A u \in Terminals : /\ owner'[u] = "stopped" <=> owner[u] = "stopped"
                           /\ owner'[u] = "none" <=> owner[u] = "none"
                           /\ Alive(u)' <=> Alive(u)
  BY <1>1, <1>3 DEF Alive
<1>6. CallsSound'
  BY <1>1, <1>5 DEF LifeInv, CallsSound, CallSound, processVars
<1>7. LanesAgree'
  BY <1>1, LanesKept DEF LifeInv
<1>8. Fresh'
  BY <1>1, <1>3, <1>5 DEF LifeInv, Fresh, processVars, published
<1>9. Lives'
  BY <1>1, <1>3, <1>5 DEF LifeInv, Lives, processVars, published
<1>10. OneTimer'
  BY <1>1, <1>3 DEF LifeInv, OneTimer
<1>11. ChildrenReachable' /\ ArchiveClosed'
  BY <1>1, <1>5 DEF LifeInv, ChildrenReachable, ArchiveClosed, processVars, published
<1>12. NoOrphan'
  <2>1. \A u \in entries' : owner'[u] = "stopped" /\ u \notin failed' =>
           u \in entries /\ owner[u] = "stopped" /\ u \notin failed
    BY <1>1, <1>5 DEF LifeInv, TypeOK
  <2>. QED BY <1>1, <2>1, OrphansKept DEF LifeInv
<1>13. Room'
  <2>1. Counted' = Counted
    BY <1>1, <1>5 DEF Counted, LifeInv, TypeOK
  <2>. QED BY <1>1, <2>1, RoomKept DEF LifeInv, Creating
<1>. QED BY <1>4, <1>6, <1>7, <1>8, <1>9, <1>10, <1>11, <1>12, <1>13 DEF LifeInv

LEMMA ExitKeeps ==
  ASSUME LifeInv, BoundsAssumption, CapacityAssumption, NEW t \in Terminals, Exit(t)
  PROVE  LifeInv' /\ \A u \in Terminals : last'[u] # last[u] => last[u] = "output"
<1>1. /\ owner[t] = "waiting" /\ child[t] = "dead"
      /\ owner' = [owner EXCEPT ![t] = "running"]
      /\ status' = [status EXCEPT ![t] = "exited"]
      /\ last' = [last EXCEPT ![t] = "exit"]
      /\ closed' = closed \cup {t} /\ timers' = timers \cup {t}
      /\ UNCHANGED <<entries, processVars, outputOpen, exitObserved, disposed,
                     urgent, overlapped, call, failed, faults>>
  BY DEF Exit
<1>2. /\ owner \in [Terminals -> {"none", "running", "waiting", "stopped"}]
      /\ last \in [Terminals -> {"output", "exit", "disposal"}]
      /\ status \in [Terminals -> {"running", "exited"}]
  BY DEF LifeInv, TypeOK
<1>3. /\ owner' \in [Terminals -> {"none", "running", "waiting", "stopped"}]
      /\ last' \in [Terminals -> {"output", "exit", "disposal"}]
      /\ status' \in [Terminals -> {"running", "exited"}]
      /\ owner'[t] = "running" /\ \A u \in Terminals \ {t} : owner'[u] = owner[u]
      /\ last'[t] = "exit" /\ \A u \in Terminals \ {t} : last'[u] = last[u]
  BY <1>1, <1>2
<1>4. TypeOK'
  BY <1>1, <1>3 DEF LifeInv, TypeOK, processVars
<1>5. \A u \in Terminals : /\ owner'[u] = "stopped" <=> owner[u] = "stopped"
                           /\ owner'[u] = "none" <=> owner[u] = "none"
                           /\ Alive(u)' <=> Alive(u)
  BY <1>1, <1>3 DEF Alive
<1>6. CallsSound'
  BY <1>1, <1>5 DEF LifeInv, CallsSound, CallSound, processVars
<1>7. LanesAgree'
  BY <1>1, LanesKept DEF LifeInv
<1>8. ~outputOpen[t] /\ exitObserved[t] /\ ~disposed[t] /\ t \notin timers /\ call[t] = Idle
  BY <1>1 DEF LifeInv, Lives, OneTimer
<1>9. Fresh'
  BY <1>1, <1>3, <1>5 DEF LifeInv, Fresh, processVars
<1>10. Lives'
  BY <1>1, <1>3, <1>5, <1>8 DEF LifeInv, Lives, processVars
<1>11. OneTimer'
  BY <1>1, <1>3, <1>8 DEF LifeInv, OneTimer
<1>12. ChildrenReachable'
  BY <1>1, <1>5 DEF LifeInv, ChildrenReachable, processVars
<1>13. ArchiveClosed'
  BY <1>1, <1>3, <1>5 DEF LifeInv, ArchiveClosed
<1>14. NoOrphan'
  <2>1. \A u \in entries' : owner'[u] = "stopped" /\ u \notin failed' =>
           u \in entries /\ owner[u] = "stopped" /\ u \notin failed
    BY <1>1, <1>5 DEF LifeInv, TypeOK
  <2>. QED BY <1>1, <2>1, OrphansKept DEF LifeInv
<1>15. Room'
  <2>1. Counted' = Counted
    BY <1>1, <1>5 DEF Counted, LifeInv, TypeOK
  <2>. QED BY <1>1, <2>1, RoomKept DEF LifeInv, Creating
<1>16. \A u \in Terminals : last'[u] # last[u] => last[u] = "output"
  <2>1. last[t] \in {"output", "exit"}
    BY <1>2, <1>8 DEF LifeInv, Lives
  <2>. QED BY <1>3, <2>1
<1>. QED BY <1>4, <1>6, <1>7, <1>9, <1>10, <1>11, <1>12, <1>13, <1>14, <1>15, <1>16 DEF LifeInv
-----------------------------------------------------------------------------
(* Commands for an owner *)

\* A command that somebody waits for is of somebody who waits for that terminal.
LEMMA CommandCaller ==
  ASSUME TypeOK, LanesAgree, NEW t \in Terminals, NEW i \in DOMAIN urgent[t]
  PROVE  /\ urgent[t][i] \in Commands /\ urgent[t][i].caller \in Requesters
         /\ CommandSound(t, i)
         /\ urgent[t][i].waited =>
              /\ Waiting(urgent[t][i].caller) /\ call[urgent[t][i].caller].terminal = t
              /\ call[urgent[t][i].caller].left = {}
<1>1. urgent[t][i] \in Commands /\ urgent[t][i].caller \in Requesters /\ CommandSound(t, i)
  BY Fields DEF LanesAgree, Commands
<1>2. ASSUME urgent[t][i].waited
      PROVE  /\ Waiting(urgent[t][i].caller) /\ call[urgent[t][i].caller].terminal = t
             /\ call[urgent[t][i].caller].left = {}
  <2>1. PICK s \in Stage(urgent[t][i].kind) : call[urgent[t][i].caller] = At(s, t)
    BY <1>1, <1>2 DEF CommandSound
  <2>. QED BY <2>1, CallFields DEF Stage, Waiting
<1>. QED BY <1>1, <1>2

LEMMA SentKeepsLanes ==
  ASSUME LifeInv, NEW c \in Requesters, NEW t \in Terminals, NEW kind \in {"dispose", "close"},
         NEW next \in Stage(kind), ~Waiting(c),
         Len(urgent[t]) < LaneCapacity, LaneCapacity \in Nat,
         urgent' = [urgent EXCEPT ![t] =
             Append(@, [kind |-> kind, caller |-> c, waited |-> TRUE])],
         call'[c] = At(next, t), \A d \in Requesters \ {c} : call'[d] = call[d],
         failed' = failed
  PROVE  /\ LanesAgree' /\ urgent' \in [Terminals -> Seq(Commands)]
         /\ \A u \in Terminals : Len(urgent'[u]) <= LaneCapacity
         /\ \A u \in Terminals \ {t} : urgent'[u] = urgent[u]
<1>. PICK m : m = [kind |-> kind, caller |-> c, waited |-> TRUE]
  OBVIOUS
<1>. PICK s : s = urgent[t]
  OBVIOUS
<1>1. m \in Commands /\ m.kind = kind /\ m.caller = c /\ m.waited
  BY DEF Commands
<1>2. /\ urgent \in [Terminals -> Seq(Commands)]
      /\ \A u \in Terminals : Len(urgent[u]) <= LaneCapacity
      /\ s \in Seq(Commands)
  BY DEF LifeInv, TypeOK
<1>3. /\ Append(s, m) \in Seq(Commands) /\ Len(Append(s, m)) = Len(s) + 1
      /\ \A i \in DOMAIN s : Append(s, m)[i] = s[i] /\ i \in DOMAIN Append(s, m)
      /\ \A i \in DOMAIN Append(s, m) : i \in DOMAIN s \/ (i = Len(s) + 1 /\ Append(s, m)[i] = m)
  <2>1. m \in Commands
    BY <1>1
  <2>2. s \in Seq(Commands)
    BY <1>2
  <2>. QED BY ONLY <2>1, <2>2, Appended
<1>4. /\ urgent' \in [Terminals -> Seq(Commands)] /\ urgent'[t] = Append(s, m)
      /\ \A u \in Terminals \ {t} : urgent'[u] = urgent[u]
  BY <1>2, <1>3
<1>5. \A u \in Terminals : Len(urgent'[u]) <= LaneCapacity
  BY <1>2, <1>3, <1>4
<1>6. \A u \in Terminals : \A i \in DOMAIN urgent[u] :
        /\ CommandSound(u, i) /\ urgent[u][i].caller \in Requesters
        /\ urgent[u][i].waited =>
             urgent[u][i].caller # c /\ call'[urgent[u][i].caller] = call[urgent[u][i].caller]
  BY CommandCaller DEF LifeInv
<1>7. LanesAgree'
  <2>. SUFFICES ASSUME NEW u \in Terminals, NEW i \in DOMAIN urgent'[u]
                PROVE  CommandSound(u, i)'
    BY DEF LanesAgree
  <2>1. CASE u # t
    BY <1>4, <1>6, <2>1 DEF CommandSound
  <2>2. CASE u = t /\ i \in DOMAIN s
    <3>1. urgent'[t][i] = s[i] /\ CommandSound(t, i)
      BY <1>3, <1>4, <1>6, <2>2
    <3>2. s[i].waited => call'[s[i].caller] = call[s[i].caller] /\ s[i].caller # c
      BY <1>6, <2>2
    <3>3. \A j \in DOMAIN urgent'[t] : \/ j \in DOMAIN s /\ urgent'[t][j] = s[j]
                                       \/ urgent'[t][j].caller = c
      BY <1>1, <1>3, <1>4
    <3>. QED BY <2>2, <3>1, <3>2, <3>3 DEF CommandSound
  <2>3. CASE u = t /\ i \notin DOMAIN s
    <3>1. urgent'[t][i] = m /\ i = Len(s) + 1
      BY <1>3, <1>4, <2>3
    <3>2. \A j \in DOMAIN urgent'[t] : urgent'[t][j].waited /\ urgent'[t][j].caller = c => j = Len(s) + 1
      BY <1>3, <1>4, <1>6
    <3>. QED BY <1>1, <2>3, <3>1, <3>2 DEF CommandSound
  <2>. QED BY <2>1, <2>2, <2>3
<1>. QED BY <1>4, <1>5, <1>7

LEMMA RequestKeeps ==
  ASSUME LifeInv, CallersAssumption, BoundsAssumption, CapacityAssumption,
         NEW c \in Requesters, NEW t, NEW kind \in {"dispose", "close"},
         NEW next \in Stage(kind), Request(c, t, kind, next), overlapped' = overlapped,
         \/ call[c] = Idle /\ next # "evicting"
         \/ call[c].at = "evict" /\ call[c].terminal = t /\ next = "evicting",
         timers' \subseteq timers,
         c \in Terminals => c \notin timers' /\ exitObserved[c] /\ owner[c] # "waiting"
  PROVE  LifeInv' /\ UNCHANGED last
<1>1. /\ t \in entries
      /\ UNCHANGED <<entries, child, pty, output, owner, outputOpen, exitObserved, status,
                     disposed, last, closed, faults>>
  BY DEF Request, processVars, ownerVars, published
<1>2. t \in Terminals /\ owner[t] \in {"running", "waiting", "stopped"}
  BY <1>1, Fields DEF LifeInv, TypeOK, Fresh
<1>3. PICK k : /\ call' = [call EXCEPT ![c] = k]
               /\ \/ /\ k = At(next, t) /\ Alive(t) /\ Len(urgent[t]) < LaneCapacity
                     /\ urgent' = [urgent EXCEPT ![t] =
                          Append(@, [kind |-> kind, caller |-> c, waited |-> TRUE])]
                     /\ failed' = failed
                  \/ /\ k = GivenUp(next) /\ urgent' = urgent
                     /\ failed' = IF Alive(t) THEN failed \cup {t} ELSE failed
  BY DEF Request
<1>4. next \in {"evicting", "disposing", "closing"}
  BY DEF Stage
<1>5. k \in Calls /\ CallSound(k)' /\ failed \subseteq failed' /\ failed' \subseteq Terminals
  <2>1. k = At(next, t) => k \in Calls /\ CallSound(k)'
    BY <1>1, <1>2, <1>4, CallFields DEF CallSound
  <2>. QED BY <1>2, <1>3, <2>1, GivenUpFields DEF LifeInv, TypeOK
<1>6. /\ call' \in [Requesters -> Calls] /\ call'[c] = k
      /\ \A d \in Requesters \ {c} : call'[d] = call[d]
  BY <1>3, <1>5 DEF LifeInv, TypeOK
<1>7. call[c].at \in {"idle", "evict"}
  BY CallFields
<1>8. /\ LanesAgree' /\ urgent' \in [Terminals -> Seq(Commands)]
      /\ \A u \in Terminals : Len(urgent'[u]) <= LaneCapacity
      /\ \A u \in Terminals \ {t} : urgent'[u] = urgent[u]
      /\ ~Alive(t) => urgent'[t] = urgent[t]
  <2>1. CASE urgent' = urgent
    <3>1. LanesAgree'
      BY <1>5, <1>6, <1>7, <2>1, LanesKept DEF LifeInv, Waiting
    <3>. QED BY <2>1, <3>1 DEF LifeInv, TypeOK
  <2>2. CASE /\ k = At(next, t) /\ Alive(t) /\ Len(urgent[t]) < LaneCapacity
             /\ urgent' = [urgent EXCEPT ![t] =
                  Append(@, [kind |-> kind, caller |-> c, waited |-> TRUE])]
             /\ failed' = failed
    <3>1. ~Waiting(c) /\ LaneCapacity \in Nat
      BY <1>7 DEF Waiting, CapacityAssumption
    <3>. QED BY ONLY LifeInv, c \in Requesters, <1>2, kind \in {"dispose", "close"},
                     next \in Stage(kind), <1>6, <2>2, <3>1, SentKeepsLanes
  <2>. QED BY <1>3, <2>1, <2>2
<1>9. TypeOK'
  BY <1>1, <1>5, <1>6, <1>8 DEF LifeInv, TypeOK
<1>10. CallsSound'
  BY <1>1, <1>5, <1>6 DEF LifeInv, CallsSound, CallSound
<1>11. Fresh' /\ ArchiveClosed'
  BY <1>1 DEF LifeInv, Fresh, ArchiveClosed
<1>12. Lives'
  BY <1>1, <1>8 DEF LifeInv, Lives, Alive
<1>13. OneTimer'
  BY <1>1, <1>6 DEF LifeInv, OneTimer, Requesters
<1>14. ChildrenReachable'
  BY <1>1, <1>5 DEF LifeInv, ChildrenReachable
<1>15. NoOrphan'
  <2>1. \A d \in Requesters : call[d].at \in {"evicted", "done", "closed"} => call'[d] = call[d]
    BY <1>6, <1>7
  <2>. QED BY <1>1, <1>5, <2>1, OrphansKept DEF LifeInv
<1>16. Room'
  <2>1. Counted' = Counted
    BY <1>1 DEF Counted
  <2>2. \A d \in Callers \ {c} : call'[d] = call[d]
    BY <1>6 DEF Requesters
  <2>3. ASSUME c \in Callers, Creating(c)'
        PROVE  /\ Creating(c)
               /\ call'[c].at \notin {"full", "inspecting"} /\ failed' = {} =>
                    /\ call[c].at \notin {"full", "inspecting"}
                    /\ Counted' \ {call'[c].terminal} \subseteq Counted \ {call[c].terminal}
    <3>1. next = "evicting"
      BY <1>3, <1>4, <1>6, <2>3, CallFields, GivenUpFields DEF Creating
    <3>2. call[c].at = "evict" /\ call[c].terminal = t
      BY <3>1, CallFields
    <3>3. k = At("evicting", t) \/ (Alive(t) => failed' # {})
      BY <1>3, <3>1
    <3>4. ~Alive(t) => t \notin Counted
      BY <1>2 DEF Alive, Counted
    <3>. QED BY <1>6, <2>1, <3>2, <3>3, <3>4, CallFields DEF Creating
  <2>. QED BY <1>5, <2>1, <2>2, <2>3, RoomKept DEF LifeInv, Creating
<1>. QED BY <1>1, <1>8, <1>9, <1>10, <1>11, <1>12, <1>13, <1>14, <1>15, <1>16 DEF LifeInv

LEMMA EvictKeeps ==
  ASSUME LifeInv, CallersAssumption, BoundsAssumption, CapacityAssumption,
         NEW c \in Callers, Evict(c)
  PROVE  LifeInv' /\ UNCHANGED last
<1>. DEFINE t == call[c].terminal
<1>1. call[c].at = "evict" /\ timers' = timers /\ overlapped' = overlapped
  BY DEF Evict
<1>2. c \in Requesters /\ c \notin Terminals
  BY DEF Requesters, CallersAssumption, Terminals
<1>3. CASE t \in entries
  <2>1. Request(c, t, "dispose", "evicting") /\ "evicting" \in Stage("dispose")
    BY <1>3 DEF Evict, Stage
  <2>. QED BY ONLY LifeInv, CallersAssumption, BoundsAssumption, CapacityAssumption,
                   <1>1, <1>2, <2>1, RequestKeeps
<1>4. CASE t \notin entries
  <2>1. /\ call' = [call EXCEPT ![c] = At("admitted", NoTerminal)]
        /\ UNCHANGED <<entries, processVars, ownerVars, urgent, published, failed, faults>>
    BY <1>4 DEF Evict
  <2>2. At("admitted", NoTerminal) \in Calls /\ CallSound(At("admitted", NoTerminal))'
    BY CallFields DEF CallSound
  <2>3. /\ CallsSound' /\ LanesAgree' /\ ChildrenReachable' /\ NoOrphan' /\ ArchiveClosed'
        /\ Fresh' /\ Lives' /\ OneTimer' /\ Counted' = Counted
        /\ call' \in [Requesters -> Calls]
        /\ \A d \in Requesters \ {c} : call'[d] = call[d]
        /\ call'[c] = At("admitted", NoTerminal)
    BY <1>1, <2>1, <2>2, CallMoved
  <2>4. TypeOK'
    BY <1>1, <2>1, <2>3 DEF LifeInv, TypeOK, processVars, ownerVars, published
  <2>5. \A d \in Callers : Creating(d)' =>
          /\ Creating(d)
          /\ call'[d].at \notin {"full", "inspecting"} /\ failed' = {} =>
               /\ call[d].at \notin {"full", "inspecting"}
               /\ Counted' \ {call'[d].terminal} \subseteq Counted \ {call[d].terminal}
    <3>1. t \notin Counted
      BY <1>4 DEF Counted
    <3>. QED BY <1>1, <2>3, <3>1, CallFields DEF Creating, Requesters
  <2>6. Room'
    BY <1>1, <2>1, <2>3, <2>5, RoomKept DEF LifeInv
  <2>. QED BY <2>1, <2>3, <2>4, <2>6 DEF LifeInv, published
<1>. QED BY <1>3, <1>4

LEMMA AskedKeeps ==
  ASSUME LifeInv, CallersAssumption, BoundsAssumption, CapacityAssumption,
         NEW c \in Callers, NEW t \in Terminals, Dispose(c, t) \/ Close(c, t)
  PROVE  LifeInv' /\ UNCHANGED last
<1>1. c \in Requesters /\ c \notin Terminals /\ call[c] = Idle
      /\ timers' = timers /\ overlapped' = overlapped
  BY DEF Requesters, CallersAssumption, Terminals, Dispose, Close
<1>2. CASE Dispose(c, t)
  <2>1. Request(c, t, "dispose", "disposing") /\ "disposing" \in Stage("dispose")
        /\ "disposing" # "evicting"
    BY <1>2 DEF Dispose, Stage
  <2>. QED BY ONLY LifeInv, CallersAssumption, BoundsAssumption, CapacityAssumption,
                   <1>1, <2>1, RequestKeeps
<1>3. CASE Close(c, t)
  <2>1. Request(c, t, "close", "closing") /\ "closing" \in Stage("close")
        /\ "closing" # "evicting"
    BY <1>3 DEF Close, Stage
  <2>. QED BY ONLY LifeInv, CallersAssumption, BoundsAssumption, CapacityAssumption,
                   <1>1, <2>1, RequestKeeps
<1>. QED BY <1>2, <1>3

LEMMA ExpireKeeps ==
  ASSUME LifeInv, CallersAssumption, BoundsAssumption, CapacityAssumption,
         NEW t \in Terminals, Expire(t)
  PROVE  LifeInv' /\ UNCHANGED last
<1>1. /\ t \in timers /\ timers' = timers \ {t} /\ overlapped' = overlapped
      /\ call[t] = Idle /\ exitObserved[t] /\ owner[t] # "waiting" /\ t \in Requesters
  BY DEF Expire, LifeInv, OneTimer, Requesters
<1>2. CASE t \in entries /\ owner[t] = "running"
  <2>1. Request(t, t, "dispose", "disposing") /\ "disposing" \in Stage("dispose")
        /\ "disposing" # "evicting"
    BY <1>2 DEF Expire, Stage
  <2>2. timers' \subseteq timers /\ t \notin timers'
    BY <1>1
  <2>. QED BY ONLY LifeInv, CallersAssumption, BoundsAssumption, CapacityAssumption,
                   <1>1, <2>1, <2>2, RequestKeeps
<1>3. CASE ~(t \in entries /\ owner[t] = "running")
  <2>1. UNCHANGED <<entries, processVars, ownerVars, urgent, call, published, failed, faults>>
    BY <1>3 DEF Expire
  <2>2. TypeOK' /\ OneTimer'
    BY <1>1, <2>1 DEF LifeInv, TypeOK, OneTimer, processVars, ownerVars, published
  <2>3. /\ CallsSound' /\ LanesAgree' /\ Room' /\ ChildrenReachable' /\ NoOrphan'
    BY <1>1, <2>1, MapKept DEF processVars, ownerVars
  <2>4. Fresh' /\ Lives' /\ ArchiveClosed'
    BY <2>1 DEF LifeInv, Fresh, Lives, Alive, ArchiveClosed, processVars, ownerVars, published
  <2>. QED BY <2>1, <2>2, <2>3, <2>4 DEF LifeInv, published
<1>. QED BY <1>2, <1>3

LEMMA TimeOutKeeps ==
  ASSUME LifeInv, CallersAssumption, BoundsAssumption, CapacityAssumption,
         NEW c \in Requesters, TimeOut(c)
  PROVE  LifeInv' /\ UNCHANGED last
<1>. PICK t : t = call[c].terminal
  OBVIOUS
<1>. PICK k : k = GivenUp(call[c].at)
  OBVIOUS
<1>1. /\ Waiting(c) /\ urgent' = [urgent EXCEPT ![t] = Deserted(@, c)]
      /\ call' = [call EXCEPT ![c] = k]
      /\ failed' = failed \cup {t} /\ faults' = faults + 1
      /\ UNCHANGED <<entries, child, pty, output, owner, outputOpen, exitObserved, status,
                     disposed, timers, overlapped, last, closed>>
  BY DEF TimeOut, processVars, ownerVars, published
<1>2. t \in Terminals /\ call[c].at \in {"evicting", "disposing", "closing"}
  BY <1>1 DEF Waiting, LifeInv, CallsSound, CallSound
<1>3. k \in Calls /\ CallSound(k)' /\ k.at \in {"idle", "admitted"} /\ k.terminal = NoTerminal
      /\ (k.at = "admitted" => call[c].at = "evicting")
  BY GivenUpFields, CallFields
<1>4. /\ call' \in [Requesters -> Calls] /\ call'[c] = k
      /\ \A d \in Requesters \ {c} : call'[d] = call[d]
  BY <1>1, <1>3 DEF LifeInv, TypeOK
<1>5. /\ Deserted(urgent[t], c) \in Seq(Commands) /\ Len(Deserted(urgent[t], c)) = Len(urgent[t])
      /\ DOMAIN Deserted(urgent[t], c) = DOMAIN urgent[t]
      /\ \A i \in DOMAIN urgent[t] :
           /\ Deserted(urgent[t], c)[i].kind = urgent[t][i].kind
           /\ Deserted(urgent[t], c)[i].caller = urgent[t][i].caller
           /\ Deserted(urgent[t], c)[i].waited <=> urgent[t][i].waited /\ urgent[t][i].caller # c
  BY <1>2, Fields, DesertedLane, SMTT(30) DEF LifeInv
<1>6. /\ urgent' \in [Terminals -> Seq(Commands)]
      /\ \A u \in Terminals : Len(urgent'[u]) <= LaneCapacity
      /\ urgent'[t] = Deserted(urgent[t], c)
      /\ \A u \in Terminals \ {t} : urgent'[u] = urgent[u]
  BY <1>1, <1>2, <1>5 DEF LifeInv, TypeOK
<1>7. TypeOK'
  BY <1>1, <1>2, <1>4, <1>6 DEF LifeInv, TypeOK
<1>8. CallsSound'
  BY <1>1, <1>3, <1>4 DEF LifeInv, CallsSound, CallSound
<1>9. LanesAgree'
  <2>. SUFFICES ASSUME NEW u \in Terminals, NEW i \in DOMAIN urgent'[u]
                PROVE  CommandSound(u, i)'
    BY DEF LanesAgree
  <2>1. DOMAIN urgent'[u] = DOMAIN urgent[u]
    BY <1>5, <1>6
  <2>2. /\ CommandSound(u, i)
        /\ urgent[u][i].waited => call[urgent[u][i].caller].terminal = u
    BY <2>1, CommandCaller DEF LifeInv
  <2>3. CASE u # t
    <3>1. urgent[u][i].waited => call'[urgent[u][i].caller] = call[urgent[u][i].caller]
      BY <1>4, <2>1, <2>2, <2>3, CommandCaller DEF LifeInv
    <3>. QED BY <1>1, <1>6, <2>1, <2>2, <2>3, <3>1 DEF CommandSound
  <2>4. CASE u = t
    <3>1. urgent'[t][i].waited => call'[urgent[t][i].caller] = call[urgent[t][i].caller]
      BY <1>4, <1>5, <1>6, <2>1, <2>4, CommandCaller DEF LifeInv
    <3>2. /\ \A j \in DOMAIN urgent[t] :
               /\ urgent'[t][j].kind = urgent[t][j].kind
               /\ urgent'[t][j].caller = urgent[t][j].caller
               /\ urgent'[t][j].waited => urgent[t][j].waited
          /\ t \in failed' /\ DOMAIN urgent'[t] = DOMAIN urgent[t]
      BY <1>1, <1>5, <1>6
    <3>3. i \in DOMAIN urgent[t] /\ CommandSound(t, i)
      BY <2>1, <2>2, <2>4
    <3>. QED BY ONLY <2>4, <3>1, <3>2, <3>3 DEF CommandSound
  <2>. QED BY <2>3, <2>4
<1>10. Fresh' /\ ArchiveClosed'
  BY <1>1 DEF LifeInv, Fresh, ArchiveClosed
<1>11. Lives'
  <2>1. urgent[t] = <<>> => urgent'[t] = <<>>
    BY <1>5, <1>6
  <2>. QED BY <1>1, <1>6, <2>1 DEF LifeInv, Lives, Alive
<1>12. OneTimer'
  <2>1. call[c] # Idle
    BY <1>2, CallFields
  <2>. QED BY <1>1, <1>4, <2>1 DEF LifeInv, OneTimer, Requesters
<1>13. ChildrenReachable'
  BY <1>1 DEF LifeInv, ChildrenReachable
<1>14. NoOrphan'
  BY <1>1, <1>2, <1>4, OrphansKept DEF LifeInv
<1>15. Room'
  <2>1. failed' # {} /\ Counted' = Counted
    BY <1>1 DEF Counted
  <2>2. \A d \in Callers : Creating(d)' => Creating(d)
    BY <1>2, <1>3, <1>4 DEF Creating, Requesters
  <2>. QED BY <1>1, <2>1, <2>2, RoomKept DEF LifeInv
<1>. QED BY <1>1, <1>7, <1>8, <1>9, <1>10, <1>11, <1>12, <1>13, <1>14, <1>15 DEF LifeInv

LEMMA RemoveKeeps ==
  ASSUME LifeInv, CallersAssumption, BoundsAssumption, CapacityAssumption,
         NEW c \in Requesters, Remove(c)
  PROVE  LifeInv' /\ UNCHANGED last
<1>. PICK t : t = call[c].terminal
  OBVIOUS
<1>. PICK k : k = IF call[c].at = "evicted" THEN At("admitted", NoTerminal) ELSE Idle
  OBVIOUS
<1>1. /\ call[c].at \in {"evicted", "done", "closed"}
      /\ entries' = entries \ {t} /\ closed' \in {closed, closed \cup {t}}
      /\ call' = [call EXCEPT ![c] = k]
      /\ UNCHANGED <<child, pty, output, owner, outputOpen, exitObserved, status, disposed,
                     urgent, timers, overlapped, last, failed, faults>>
  BY DEF Remove, processVars, ownerVars
<1>2. t \in Terminals /\ owner[t] = "stopped" /\ child[t] = "dead"
  BY <1>1 DEF LifeInv, CallsSound, CallSound
<1>3. k \in Calls /\ CallSound(k)' /\ k.at \in {"idle", "admitted"} /\ k.terminal = NoTerminal
      /\ (k.at = "admitted" => call[c].at = "evicted")
  BY CallFields DEF CallSound
<1>4. /\ call' \in [Requesters -> Calls] /\ call'[c] = k
      /\ \A d \in Requesters \ {c} : call'[d] = call[d]
  BY <1>1, <1>3 DEF LifeInv, TypeOK
<1>5. TypeOK'
  BY <1>1, <1>2, <1>4 DEF LifeInv, TypeOK
<1>6. CallsSound'
  BY <1>1, <1>3, <1>4 DEF LifeInv, CallsSound, CallSound
<1>7. LanesAgree'
  BY <1>1, <1>4, LanesKept DEF LifeInv, Waiting
<1>8. Fresh' /\ Lives' /\ ArchiveClosed'
  BY <1>1, <1>2 DEF LifeInv, Fresh, Lives, Alive, ArchiveClosed
<1>9. OneTimer'
  <2>1. call[c] # Idle
    BY <1>1, CallFields
  <2>. QED BY <1>1, <1>4, <2>1 DEF LifeInv, OneTimer, Requesters
<1>10. ChildrenReachable'
  BY <1>1, <1>2 DEF LifeInv, ChildrenReachable
<1>11. NoOrphan'
  <2>. SUFFICES ASSUME NEW u \in entries', owner'[u] = "stopped", u \notin failed'
                PROVE  Removing(u)'
    BY DEF NoOrphan
  <2>1. PICK d \in Requesters : call[d].terminal = u /\ call[d].at \in {"evicted", "done", "closed"}
    BY <1>1 DEF LifeInv, NoOrphan, Removing
  <2>2. d # c
    BY <1>1, <2>1
  <2>. QED BY <1>4, <2>1, <2>2 DEF Removing
<1>12. Room'
  <2>1. Counted' = Counted /\ t \notin Counted
    BY <1>1, <1>2 DEF Counted
  <2>2. \A d \in Callers : Creating(d)' =>
          /\ Creating(d)
          /\ call'[d].at \notin {"full", "inspecting"} /\ failed' = {} =>
               /\ call[d].at \notin {"full", "inspecting"}
               /\ Counted' \ {call'[d].terminal} \subseteq Counted \ {call[d].terminal}
    BY <1>3, <1>4, <2>1 DEF Creating, Requesters
  <2>. QED BY <1>1, <2>1, <2>2, RoomKept DEF LifeInv
<1>. QED BY <1>1, <1>5, <1>6, <1>7, <1>8, <1>9, <1>10, <1>11, <1>12 DEF LifeInv
-----------------------------------------------------------------------------
(* The owner's answers *)

LEMMA AnsweredFields ==
  /\ Answered["evicting"] = "evicted" /\ Answered["disposing"] = "done"
  /\ Answered["closing"] = "closed"
BY DEF Answered

LEMMA RefusedKeeps ==
  ASSUME LifeInv, CallersAssumption, BoundsAssumption, CapacityAssumption, NEW t \in Terminals,
         owner[t] = "running", urgent[t] # <<>>, Head(urgent[t]).kind = "close",
         urgent' = [urgent EXCEPT ![t] = Tail(@)],
         call' = Replied(Head(urgent[t]), FALSE),
         UNCHANGED <<entries, child, pty, output, owner, outputOpen, exitObserved, status,
                     timers, overlapped, closed>>,
         \/ UNCHANGED <<disposed, last, failed, faults>>
         \/ /\ disposed' = [disposed EXCEPT ![t] = TRUE]
            /\ last' = [last EXCEPT ![t] = "disposal"]
            /\ failed' = failed \cup {t} /\ faults' = faults + 1
  PROVE  LifeInv' /\ \A u \in Terminals : last'[u] # last[u] => last'[u] = "disposal"
<1>. PICK s : s = urgent[t]
  OBVIOUS
<1>1. /\ s \in Seq(Commands) /\ s # <<>> /\ Len(s) <= LaneCapacity
      /\ urgent \in [Terminals -> Seq(Commands)]
  BY DEF LifeInv, TypeOK
<1>2. /\ Head(s) = s[1] /\ 1 \in DOMAIN s /\ Head(s) \in Commands
      /\ Tail(s) \in Seq(Commands) /\ Len(Tail(s)) = Len(s) - 1
      /\ \A i \in DOMAIN Tail(s) : Tail(s)[i] = s[i + 1] /\ i + 1 \in DOMAIN s /\ i + 1 # 1
  BY ONLY <1>1, Lane
<1>. PICK m : m = s[1]
  OBVIOUS
<1>3. /\ m \in Commands /\ m.caller \in Requesters /\ m.kind = "close" /\ CommandSound(t, 1)
      /\ m = urgent[t][1] /\ call' = Replied(m, FALSE)
  BY <1>2, CommandCaller DEF LifeInv
<1>4. /\ m.waited => /\ call[m.caller].at = "closing" /\ call[m.caller].terminal = t
                     /\ GivenUp(call[m.caller].at) = Idle
      /\ Idle.at = "idle" /\ Idle \in Calls
  <2>1. m.waited => call[m.caller] = At("closing", t)
    BY <1>3 DEF CommandSound, Stage
  <2>. QED BY <2>1, CallFields, GivenUpFields
<1>5. /\ call' \in [Requesters -> Calls]
      /\ \A d \in Requesters : call'[d] = call[d] \/ (m.waited /\ d = m.caller /\ call'[d] = Idle)
  <2>1. CASE ~m.waited
    BY <1>3, <2>1 DEF Replied, LifeInv, TypeOK
  <2>2. CASE m.waited
    <3>1. call' = [call EXCEPT ![m.caller] = Idle]
      BY ONLY <1>3, <1>4, <2>2 DEF Replied
    <3>2. call \in [Requesters -> Calls]
      BY DEF LifeInv, TypeOK
    <3>. QED BY ONLY <1>3, <1>4, <2>2, <3>1, <3>2
  <2>. QED BY <2>1, <2>2
<1>6. /\ urgent' \in [Terminals -> Seq(Commands)] /\ urgent'[t] = Tail(s)
      /\ \A u \in Terminals \ {t} : urgent'[u] = urgent[u]
      /\ \A u \in Terminals : Len(urgent'[u]) <= LaneCapacity
  <2>1. Len(Tail(s)) <= LaneCapacity
    BY <1>1, <1>2 DEF CapacityAssumption
  <2>. QED BY <1>1, <1>2, <2>1 DEF LifeInv, TypeOK
<1>7. /\ disposed \in [Terminals -> BOOLEAN] /\ last \in [Terminals -> {"output", "exit", "disposal"}]
      /\ faults \in Nat /\ failed \subseteq Terminals
  BY DEF LifeInv, TypeOK
<1>8. /\ disposed' \in [Terminals -> BOOLEAN] /\ last' \in [Terminals -> {"output", "exit", "disposal"}]
      /\ faults' \in Nat /\ failed \subseteq failed' /\ failed' \subseteq Terminals
      /\ \A u \in Terminals \ {t} : disposed'[u] = disposed[u] /\ last'[u] = last[u]
      /\ disposed[t] => disposed'[t]
      /\ last'[t] = last[t] \/ (last'[t] = "disposal" /\ disposed'[t])
  <2>1. CASE UNCHANGED <<disposed, last, failed, faults>>
    BY <1>7, <2>1
  <2>2. CASE /\ disposed' = [disposed EXCEPT ![t] = TRUE]
             /\ last' = [last EXCEPT ![t] = "disposal"]
             /\ failed' = failed \cup {t} /\ faults' = faults + 1
    BY <1>7, <2>2
  <2>. QED BY <2>1, <2>2
<1>9. TypeOK'
  <2>1. /\ entries' \subseteq Terminals /\ timers' \subseteq Terminals /\ closed' \subseteq Terminals
        /\ owner' \in [Terminals -> {"none", "running", "waiting", "stopped"}]
        /\ child' \in [Terminals -> {"none", "alive", "dead"}]
        /\ pty' \in [Terminals -> {"open", "closed"}]
        /\ output' \in [Terminals -> Seq({"data", "eof"})]
        /\ status' \in [Terminals -> {"running", "exited"}]
        /\ outputOpen' \in [Terminals -> BOOLEAN] /\ exitObserved' \in [Terminals -> BOOLEAN]
        /\ \A u \in Terminals : Len(output'[u]) <= OutputCapacity
        /\ overlapped' \in BOOLEAN
    BY DEF LifeInv, TypeOK
  <2>. QED BY ONLY <1>5, <1>6, <1>8, <2>1 DEF TypeOK
<1>10. CallsSound'
  <2>1. CallSound(Idle)'
    BY CallFields DEF CallSound
  <2>2. \A d \in Requesters : CallSound(call[d]) => (CallSound(call[d])' \/ call'[d] # call[d])
    BY DEF CallSound
  <2>. QED BY <1>5, <2>1, <2>2 DEF LifeInv, CallsSound, CallSound
<1>11. LanesAgree'
  <2>. SUFFICES ASSUME NEW u \in Terminals, NEW i \in DOMAIN urgent'[u]
                PROVE  CommandSound(u, i)'
    BY DEF LanesAgree
  <2>1. CASE u # t
    <3>1. i \in DOMAIN urgent[u] /\ urgent'[u] = urgent[u]
      BY <1>6, <2>1
    <3>2. CommandSound(u, i) /\ urgent[u][i].caller \in Requesters
          /\ (urgent[u][i].waited => call[urgent[u][i].caller].terminal = u)
      BY <3>1, CommandCaller DEF LifeInv
    <3>3. urgent[u][i].waited => call'[urgent[u][i].caller] = call[urgent[u][i].caller]
      BY ONLY <1>4, <1>5, <2>1, <3>2
    <3>. QED BY <1>8, <3>1, <3>2, <3>3, ZenonT(60) DEF CommandSound
  <2>2. CASE u = t
    <3>1. /\ i + 1 \in DOMAIN urgent[t] /\ urgent'[t][i] = urgent[t][i + 1] /\ i + 1 # 1
          /\ \A j \in DOMAIN urgent'[t] : j + 1 \in DOMAIN urgent[t] /\ urgent'[t][j] = urgent[t][j + 1]
          /\ DOMAIN urgent'[t] \subseteq Nat
      BY <1>2, <1>6, <2>2
    <3>2. /\ CommandSound(t, i + 1) /\ urgent[t][i + 1].caller \in Requesters
          /\ urgent[t][i + 1] \in Commands
      BY <3>1, CommandCaller DEF LifeInv
    <3>3. urgent[t][i + 1].waited => ~(m.waited /\ urgent[t][i + 1].caller = m.caller)
      BY <1>2, <1>3, <3>1, <3>2 DEF CommandSound
    <3>4. urgent[t][i + 1].waited =>
            call'[urgent[t][i + 1].caller] = call[urgent[t][i + 1].caller]
      BY <1>5, <3>2, <3>3
    <3>5. \A j \in DOMAIN urgent'[t] : i + 1 = j + 1 => i = j
      BY <2>2, <3>1
    <3>6. \A j \in DOMAIN urgent'[t] :
            urgent[t][i + 1].waited /\ urgent'[t][j].waited
              /\ urgent'[t][j].caller = urgent[t][i + 1].caller => i = j
      BY ONLY <3>1, <3>2, <3>5 DEF CommandSound
    <3>7. /\ urgent[t][i + 1].waited =>
               \E x \in Stage(urgent[t][i + 1].kind) : call[urgent[t][i + 1].caller] = At(x, t)
          /\ ~urgent[t][i + 1].waited => t \in failed'
      BY ONLY <1>8, <3>2 DEF CommandSound
    <3>. QED BY ONLY <2>2, <3>1, <3>4, <3>6, <3>7 DEF CommandSound
  <2>. QED BY <2>1, <2>2
<1>12. Fresh'
  <2>. SUFFICES ASSUME NEW u \in Terminals, owner[u] = "none"
                PROVE  /\ u \notin entries /\ child[u] = "none" /\ ~disposed'[u] /\ ~exitObserved[u]
                       /\ last'[u] = "output"
    BY DEF Fresh
  <2>. QED BY <1>8 DEF LifeInv, Fresh
<1>13. Lives'
  <2>1. \A u \in Terminals : /\ last'[u] = "exit" => last[u] = "exit"
                             /\ last'[u] = "disposal" => last[u] = "disposal" \/ disposed'[u]
                             /\ disposed[u] => disposed'[u]
                             /\ owner[u] = "waiting" => disposed'[u] = disposed[u]
                             /\ ~Alive(u) => urgent'[u] = urgent[u]
    BY <1>6, <1>8 DEF Alive
  <2>. QED BY <2>1 DEF LifeInv, Lives, Alive
<1>14. OneTimer'
  <2>1. \A u \in Terminals : call[u] = Idle => call'[u] = Idle
    BY <1>5 DEF Requesters
  <2>. QED BY <2>1 DEF LifeInv, OneTimer
<1>15. ChildrenReachable' /\ ArchiveClosed'
  <2>1. \A u \in Terminals : owner[u] = "stopped" /\ disposed'[u] => disposed[u]
    BY <1>8
  <2>2. \A u \in Terminals : last'[u] = "exit" => last[u] = "exit"
    BY <1>8
  <2>. QED BY <1>8, <2>1, <2>2 DEF LifeInv, ChildrenReachable, ArchiveClosed
<1>16. \A d \in Requesters : call[d].at # "closing" => call'[d] = call[d]
  BY ONLY <1>4, <1>5
<1>17. NoOrphan'
  BY <1>8, <1>16, OrphansKept DEF LifeInv
<1>18. Room'
  <2>1. \A d \in Callers : Creating(d)' => call'[d] = call[d]
    BY <1>5, CallFields DEF Creating, Requesters
  <2>2. Counted' = Counted
    BY DEF Counted
  <2>. QED BY <1>8, <2>1, <2>2, RoomKept DEF LifeInv, Creating
<1>. QED BY <1>8, <1>9, <1>10, <1>11, <1>12, <1>13, <1>14, <1>15, <1>17, <1>18 DEF LifeInv
\* Whoever waited for the owner that stops gets an answer or an error.
LEMMA StoppedCallers ==
  ASSUME LifeInv, NEW t \in Terminals, NEW granted \in BOOLEAN, urgent[t] # <<>>,
         Stopped(t, Head(urgent[t]), granted)
  PROVE  /\ call' \in [Requesters -> Calls]
         /\ \A d \in Requesters :
              \/ call'[d] = call[d]
              \/ /\ Waiting(d) /\ call[d].terminal = t
                 /\ call'[d] = GivenUp(call[d].at)
              \/ /\ Waiting(d) /\ call[d].terminal = t /\ granted
                 /\ call'[d].at \in {"evicted", "done", "closed"} /\ call'[d].terminal = t
                 /\ call'[d].left = {} /\ (call'[d].at = "evicted" => call[d].at = "evicting")
         /\ granted => \/ t \in failed
                       \/ \E d \in Requesters : /\ call'[d].at \in {"evicted", "done", "closed"}
                                                /\ call'[d].terminal = t
<1>. PICK s : s = urgent[t]
  OBVIOUS
<1>1. s \in Seq(Commands) /\ s # <<>>
  BY Fields DEF LifeInv
<1>2. /\ Head(s) = s[1] /\ 1 \in DOMAIN s
      /\ \A i \in DOMAIN Tail(s) : Tail(s)[i] = s[i + 1] /\ i + 1 \in DOMAIN s /\ i + 1 # 1
  BY ONLY <1>1, Lane
<1>m. PICK m : m = s[1]
  OBVIOUS
<1>3. /\ m \in Commands /\ m.caller \in Requesters /\ CommandSound(t, 1) /\ m = urgent[t][1]
      /\ m = Head(urgent[t])
      /\ m.waited => /\ Waiting(m.caller) /\ call[m.caller].terminal = t
                     /\ call[m.caller].left = {}
  BY <1>m, <1>2, CommandCaller DEF LifeInv
<1>d. PICK dropped : dropped = {i \in DOMAIN Tail(s) : Tail(s)[i].waited}
  OBVIOUS
<1>c. PICK callers : callers = {Tail(s)[i].caller : i \in dropped}
  OBVIOUS
<1>4. call' = [d \in Requesters |-> IF d \in callers THEN GivenUp(call[d].at)
                                    ELSE Replied(m, granted)[d]]
  BY <1>3, <1>d, <1>c DEF Stopped
<1>5. \A d \in callers : Waiting(d) /\ call[d].terminal = t /\ ~(m.waited /\ d = m.caller)
  <2>. SUFFICES ASSUME NEW i \in dropped
                PROVE  /\ Waiting(Tail(s)[i].caller) /\ call[Tail(s)[i].caller].terminal = t
                       /\ ~(m.waited /\ Tail(s)[i].caller = m.caller)
    BY <1>c
  <2>1. /\ i \in DOMAIN Tail(s) /\ Tail(s)[i] = urgent[t][i + 1] /\ urgent[t][i + 1].waited
        /\ i + 1 \in DOMAIN urgent[t] /\ i + 1 # 1
    BY <1>2, <1>d
  <2>2. Waiting(urgent[t][i + 1].caller) /\ call[urgent[t][i + 1].caller].terminal = t
    BY <2>1, CommandCaller DEF LifeInv
  <2>3. ~(m.waited /\ urgent[t][i + 1].caller = m.caller)
    BY ONLY <1>3, <2>1 DEF CommandSound
  <2>. QED BY <2>1, <2>2, <2>3
<1>6. call \in [Requesters -> Calls]
  BY DEF LifeInv, TypeOK
<1>7. \A d \in Requesters : call[d] \in Calls
  BY <1>6
<1>k. PICK k : k = IF granted THEN At(Answered[call[m.caller].at], t) ELSE GivenUp(call[m.caller].at)
  OBVIOUS
<1>8. m.waited =>
        /\ Replied(m, granted) = [call EXCEPT ![m.caller] = k]
        /\ k \in Calls
        /\ granted => /\ k.at \in {"evicted", "done", "closed"} /\ k.terminal = t /\ k.left = {}
                      /\ k.at = "evicted" => call[m.caller].at = "evicting"
        /\ ~granted => k = GivenUp(call[m.caller].at)
  <2>. SUFFICES ASSUME m.waited
                PROVE  /\ Replied(m, granted) = [call EXCEPT ![m.caller] = k]
                       /\ k \in Calls
                       /\ granted => /\ k.at \in {"evicted", "done", "closed"} /\ k.terminal = t
                                     /\ k.left = {}
                                     /\ k.at = "evicted" => call[m.caller].at = "evicting"
                       /\ ~granted => k = GivenUp(call[m.caller].at)
    OBVIOUS
  <2>1. /\ call[m.caller].at \in {"evicting", "disposing", "closing"}
        /\ call[m.caller].terminal = t
    BY <1>3 DEF Waiting
  <2>2. Replied(m, granted) = [call EXCEPT ![m.caller] = k]
    BY ONLY <1>k, <1>3, <1>6, <2>1, m.waited, granted \in BOOLEAN DEF Replied
  <2>a. PICK a : a = Answered[call[m.caller].at]
    OBVIOUS
  <2>3. a \in {"evicted", "done", "closed"} /\ (a = "evicted" => call[m.caller].at = "evicting")
    BY ONLY <2>1, <2>a, AnsweredFields
  <2>4. /\ At(a, t) \in Calls /\ At(a, t).at = a /\ At(a, t).terminal = t /\ At(a, t).left = {}
    BY <2>3, CallFields
  <2>5. CASE granted
    BY ONLY <1>k, <2>a, <2>2, <2>3, <2>4, <2>5
  <2>6. CASE ~granted
    <3>1. k = GivenUp(call[m.caller].at) /\ k \in Calls
      BY <1>k, <2>6, GivenUpFields
    <3>. QED BY ONLY <2>2, <2>6, <3>1
  <2>. QED BY ONLY <2>5, <2>6, granted \in BOOLEAN
<1>9. \A d \in Requesters : d \in callers => call'[d] = GivenUp(call[d].at)
  BY <1>4
<1>10. \A d \in Requesters : d \notin callers => call'[d] = IF m.waited /\ d = m.caller THEN k ELSE call[d]
  <2>1. CASE m.waited
    <3>1. Replied(m, granted) = [call EXCEPT ![m.caller] = k]
      BY ONLY <1>8, <2>1, ZenonT(30)
    <3>2. m.caller \in Requesters
      BY <1>3
    <3>. QED BY ONLY <1>4, <1>6, <2>1, <3>1, <3>2
  <2>2. CASE ~m.waited
    <3>1. Replied(m, granted) = call
      BY <2>2 DEF Replied
    <3>. QED BY ONLY <1>4, <2>2, <3>1
  <2>. QED BY <2>1, <2>2
<1>11. call' \in [Requesters -> Calls]
  <2>1. \A d \in Requesters : d \in callers => call'[d] \in Calls
    <3>1. \A x : GivenUp(x) \in Calls
      BY ONLY GivenUpFields, ZenonT(30)
    <3>. QED BY ONLY <1>9, <3>1
  <2>2. m.waited => k \in Calls
    BY <1>8
  <2>3. \A d \in Requesters : d \notin callers => call'[d] \in Calls
    BY ONLY <1>7, <1>10, <2>2
  <2>4. \A d \in Requesters : call'[d] \in Calls
    BY ONLY <2>1, <2>3
  <2>. QED BY ONLY <1>4, <2>4
<1>12. ASSUME NEW d \in Requesters
       PROVE  \/ call'[d] = call[d]
              \/ /\ Waiting(d) /\ call[d].terminal = t
                 /\ call'[d] = GivenUp(call[d].at)
              \/ /\ Waiting(d) /\ call[d].terminal = t /\ granted
                 /\ call'[d].at \in {"evicted", "done", "closed"} /\ call'[d].terminal = t
                 /\ call'[d].left = {} /\ (call'[d].at = "evicted" => call[d].at = "evicting")
  <2>1. CASE d \in callers
    BY <1>5, <1>9, <2>1
  <2>2. CASE d \notin callers
    <3>1. CASE m.waited /\ d = m.caller
      BY <1>3, <1>8, <1>10, <2>2, <3>1
    <3>2. CASE ~(m.waited /\ d = m.caller)
      BY <1>10, <2>2, <3>2
    <3>. QED BY <3>1, <3>2
  <2>. QED BY <2>1, <2>2
<1>13. ASSUME granted, t \notin failed
       PROVE  \E d \in Requesters : /\ call'[d].at \in {"evicted", "done", "closed"}
                                    /\ call'[d].terminal = t
  <2>1. m.waited
    BY <1>3, <1>13 DEF CommandSound
  <2>2. m.caller \notin callers
    BY <1>5, <2>1
  <2>3. call'[m.caller] = k
    BY <1>3, <1>10, <2>1, <2>2
  <2>. QED BY <1>3, <1>8, <1>13, <2>1, <2>3
<1>. QED BY <1>11, <1>12, <1>13

LEMMA StoppedKeeps ==
  ASSUME LifeInv, BoundsAssumption, CapacityAssumption,
         NEW t \in Terminals, NEW granted \in BOOLEAN, owner[t] = "running", urgent[t] # <<>>,
         Stopped(t, Head(urgent[t]), granted), Kill(t, granted),
         disposed' = [disposed EXCEPT ![t] = TRUE], last' = [last EXCEPT ![t] = "disposal"],
         closed' = closed \cup {t}, failed' = IF granted THEN failed ELSE failed \cup {t},
         UNCHANGED <<entries, timers, overlapped>>
  PROVE  LifeInv' /\ \A u \in Terminals : last'[u] # last[u] => last'[u] = "disposal"
<1>1. /\ call' \in [Requesters -> Calls]
      /\ \A d \in Requesters :
           \/ call'[d] = call[d]
           \/ /\ Waiting(d) /\ call[d].terminal = t
              /\ call'[d] = GivenUp(call[d].at)
           \/ /\ Waiting(d) /\ call[d].terminal = t /\ granted
              /\ call'[d].at \in {"evicted", "done", "closed"} /\ call'[d].terminal = t
              /\ call'[d].left = {} /\ (call'[d].at = "evicted" => call[d].at = "evicting")
      /\ granted => \/ t \in failed
                    \/ \E d \in Requesters : /\ call'[d].at \in {"evicted", "done", "closed"}
                                             /\ call'[d].terminal = t
  BY ONLY LifeInv, t \in Terminals, granted \in BOOLEAN, urgent[t] # <<>>,
          Stopped(t, Head(urgent[t]), granted), StoppedCallers
<1>2. /\ owner' = [owner EXCEPT ![t] = "stopped"] /\ urgent' = [urgent EXCEPT ![t] = <<>>]
      /\ output' = [output EXCEPT ![t] = <<>>] /\ pty' = [pty EXCEPT ![t] = "closed"]
      /\ outputOpen' = [outputOpen EXCEPT ![t] = FALSE]
      /\ exitObserved' = [exitObserved EXCEPT ![t] = TRUE]
      /\ status' = [status EXCEPT ![t] = "exited"]
  BY DEF Stopped
<1>3. /\ child' \in [Terminals -> {"none", "alive", "dead"}] /\ faults' \in Nat
      /\ \A u \in Terminals \ {t} : child'[u] = child[u]
      /\ granted => child'[t] = "dead"
      /\ child'[t] # "none"
  <2>1. /\ child \in [Terminals -> {"none", "alive", "dead"}] /\ faults \in Nat
    BY DEF LifeInv, TypeOK
  <2>2. \/ child' = child /\ faults' = faults /\ child[t] = "dead"
        \/ child' = [child EXCEPT ![t] = "dead"] /\ faults' = faults
        \/ child' = child /\ faults' = faults + 1 /\ child[t] = "alive" /\ ~granted
    BY DEF Kill
  <2>. QED BY ONLY <2>1, <2>2, t \in Terminals
<1>4. /\ \A u \in Terminals \ {t} :
           /\ owner'[u] = owner[u] /\ urgent'[u] = urgent[u] /\ output'[u] = output[u]
           /\ outputOpen'[u] = outputOpen[u] /\ exitObserved'[u] = exitObserved[u]
           /\ disposed'[u] = disposed[u] /\ last'[u] = last[u]
      /\ owner'[t] = "stopped" /\ urgent'[t] = <<>> /\ output'[t] = <<>> /\ ~outputOpen'[t]
      /\ exitObserved'[t] /\ disposed'[t] /\ last'[t] = "disposal"
  BY <1>2 DEF LifeInv, TypeOK
<1>5. failed \subseteq failed' /\ failed' \subseteq Terminals /\ (granted \/ t \in failed')
  BY DEF LifeInv, TypeOK
<1>6. TypeOK'
  <2>1. /\ owner' \in [Terminals -> {"none", "running", "waiting", "stopped"}]
        /\ pty' \in [Terminals -> {"open", "closed"}]
        /\ status' \in [Terminals -> {"running", "exited"}]
        /\ {outputOpen', exitObserved', disposed'} \subseteq [Terminals -> BOOLEAN]
        /\ last' \in [Terminals -> {"output", "exit", "disposal"}]
        /\ closed' \subseteq Terminals /\ entries' \subseteq Terminals /\ timers' \subseteq Terminals
        /\ overlapped' \in BOOLEAN
    BY <1>2 DEF LifeInv, TypeOK
  <2>2. /\ output' \in [Terminals -> Seq({"data", "eof"})]
        /\ urgent' \in [Terminals -> Seq(Commands)]
    BY <1>2 DEF LifeInv, TypeOK
  <2>3. \A u \in Terminals : Len(urgent'[u]) <= LaneCapacity /\ Len(output'[u]) <= OutputCapacity
    BY <1>4, Fields DEF LifeInv, CapacityAssumption
  <2>. QED BY ONLY <1>1, <1>3, <1>5, <2>1, <2>2, <2>3 DEF TypeOK
<1>7. CallsSound'
  <2>. SUFFICES ASSUME NEW d \in Requesters PROVE CallSound(call[d])'
    BY DEF CallsSound
  <2>1. CASE call'[d] = call[d]
    <3>1. CallSound(call[d])
      BY DEF LifeInv, CallsSound
    <3>. QED BY <1>3, <1>4, <2>1, <3>1 DEF CallSound
  <2>2. CASE call'[d] = GivenUp(call[d].at)
    BY ONLY <2>2, GivenUpFields DEF CallSound
  <2>3. CASE /\ granted /\ call'[d].at \in {"evicted", "done", "closed"}
             /\ call'[d].terminal = t /\ call'[d].left = {}
    BY <1>3, <1>4, <2>3 DEF CallSound
  <2>. QED BY <1>1, <2>1, <2>2, <2>3
<1>8. LanesAgree'
  <2>. SUFFICES ASSUME NEW u \in Terminals, NEW i \in DOMAIN urgent'[u]
                PROVE  CommandSound(u, i)'
    BY DEF LanesAgree
  <2>1. u # t /\ urgent'[u] = urgent[u] /\ i \in DOMAIN urgent[u]
    BY <1>4
  <2>2. CommandSound(u, i) /\ urgent[u][i].caller \in Requesters
        /\ (urgent[u][i].waited => call[urgent[u][i].caller].terminal = u)
    BY <2>1, CommandCaller DEF LifeInv
  <2>3. urgent[u][i].waited => call'[urgent[u][i].caller] = call[urgent[u][i].caller]
    BY ONLY <1>1, <2>1, <2>2
  <2>. QED BY <1>5, <2>1, <2>2, <2>3 DEF CommandSound
<1>9. Fresh' /\ ArchiveClosed'
  BY <1>3, <1>4 DEF LifeInv, Fresh, ArchiveClosed
<1>10. Lives'
  BY <1>3, <1>4 DEF LifeInv, Lives, Alive
<1>11. OneTimer'
  <2>1. \A u \in Terminals : call[u] = Idle => call'[u] = Idle
    <3>1. \A d \in Requesters : call[d] = Idle => ~Waiting(d)
      BY CallFields DEF Waiting
    <3>. QED BY <1>1, <3>1 DEF Requesters
  <2>2. OneTimer /\ timers' = timers
    BY DEF LifeInv
  <2>. QED BY ONLY <1>4, <2>1, <2>2, owner[t] = "running" DEF OneTimer
<1>12. ChildrenReachable'
  BY <1>3, <1>4, <1>5 DEF LifeInv, ChildrenReachable
<1>13. NoOrphan'
  <2>. SUFFICES ASSUME NEW u \in entries, owner'[u] = "stopped", u \notin failed'
                PROVE  Removing(u)'
    BY DEF NoOrphan
  <2>1. CASE u = t
    BY <1>1, <1>5, <2>1 DEF Removing
  <2>2. CASE u # t
    <3>1. u \in Terminals /\ owner[u] = "stopped" /\ u \notin failed
      BY <1>4, <1>5, <2>2 DEF LifeInv, TypeOK
    <3>2. PICK d \in Requesters : /\ call[d].terminal = u
                                  /\ call[d].at \in {"evicted", "done", "closed"}
      BY <3>1 DEF LifeInv, NoOrphan, Removing
    <3>3. call'[d] = call[d]
      BY ONLY <1>1, <3>2, <2>2
    <3>. QED BY <3>2, <3>3 DEF Removing
  <2>. QED BY <2>1, <2>2
<1>14. Room'
  <2>1. Counted' = Counted \ {t}
    BY <1>4 DEF Counted, LifeInv, TypeOK
  <2>2. ASSUME NEW c \in Callers, Creating(c)'
        PROVE  /\ Creating(c)
               /\ call'[c].at \notin {"full", "inspecting"} /\ failed' = {} =>
                    /\ call[c].at \notin {"full", "inspecting"}
                    /\ Counted' \ {call'[c].terminal} \subseteq Counted \ {call[c].terminal}
    <3>1. c \in Requesters
      BY DEF Requesters
    <3>2. CASE call'[c] = call[c]
      BY <2>1, <2>2, <3>2 DEF Creating
    <3>3. CASE Waiting(c) /\ call[c].terminal = t /\ call'[c] = GivenUp(call[c].at)
      <4>1. call[c].at = "evicting"
        BY <2>2, <3>3, GivenUpFields, CallFields DEF Creating
      <4>. QED BY <2>1, <3>3, <4>1 DEF Creating
    <3>4. CASE /\ Waiting(c) /\ call[c].terminal = t
               /\ call'[c].at \in {"evicted", "done", "closed"}
               /\ (call'[c].at = "evicted" => call[c].at = "evicting")
      BY <2>1, <2>2, <3>4 DEF Creating
    <3>. QED BY <1>1, <3>1, <3>2, <3>3, <3>4
  <2>3. \A c \in Callers : Creating(c)' =>
          /\ Creating(c)
          /\ call'[c].at \notin {"full", "inspecting"} /\ failed' = {} =>
               /\ call[c].at \notin {"full", "inspecting"}
               /\ Counted' \ {call'[c].terminal} \subseteq Counted \ {call[c].terminal}
    BY <2>2
  <2>. QED BY <1>5, <2>1, <2>3, RoomKept DEF LifeInv
<1>. QED BY <1>4, <1>6, <1>7, <1>8, <1>9, <1>10, <1>11, <1>12, <1>13, <1>14 DEF LifeInv
LEMMA ServeKeeps ==
  ASSUME LifeInv, CallersAssumption, BoundsAssumption, CapacityAssumption,
         NEW t \in Terminals, Serve(t)
  PROVE  LifeInv' /\ \A u \in Terminals : last'[u] # last[u] => last'[u] = "disposal"
<1>. DEFINE m == Head(urgent[t])
<1>1. owner[t] = "running" /\ urgent[t] # <<>> /\ UNCHANGED <<entries, timers, overlapped>>
      /\ (HandleDispose(t, m) \/ HandleClose(t, m))
  BY DEF Serve
<1>. HIDE DEF m
<1>2. CASE HandleDispose(t, m)
  <2>1. PICK killed \in BOOLEAN :
          /\ Kill(t, killed) /\ Stopped(t, m, killed)
          /\ failed' = IF killed THEN failed ELSE failed \cup {t}
    BY <1>2 DEF HandleDispose
  <2>2. /\ disposed' = [disposed EXCEPT ![t] = TRUE] /\ last' = [last EXCEPT ![t] = "disposal"]
        /\ closed' = closed \cup {t}
    BY <1>2 DEF HandleDispose
  <2>3. Stopped(t, Head(urgent[t]), killed)
    BY <2>1 DEF m
  <2>. QED BY ONLY LifeInv, BoundsAssumption, CapacityAssumption, t \in Terminals,
                   killed \in BOOLEAN, <1>1, <2>1, <2>2, <2>3, StoppedKeeps
<1>3. CASE HandleClose(t, m)
  <2>1. m.kind = "close"
    BY <1>3 DEF HandleClose
  <2>2. CASE /\ urgent' = [urgent EXCEPT ![t] = Tail(@)] /\ call' = Replied(m, FALSE)
             /\ UNCHANGED <<child, pty, output, owner, outputOpen, exitObserved,
                            status, closed>>
             /\ \/ UNCHANGED <<disposed, last, failed, faults>>
                \/ /\ disposed' = [disposed EXCEPT ![t] = TRUE]
                   /\ last' = [last EXCEPT ![t] = "disposal"]
                   /\ failed' = failed \cup {t} /\ faults' = faults + 1
    <3>1. Head(urgent[t]).kind = "close" /\ call' = Replied(Head(urgent[t]), FALSE)
      BY <2>1, <2>2 DEF m
    <3>2. UNCHANGED <<entries, child, pty, output, owner, outputOpen, exitObserved, status,
                      timers, overlapped, closed>>
      BY <1>1, <2>2
    <3>. QED BY ONLY LifeInv, CallersAssumption, BoundsAssumption, CapacityAssumption,
                     t \in Terminals, <1>1, <2>2, <3>1, <3>2, RefusedKeeps
  <2>3. CASE /\ Kill(t, TRUE) /\ Stopped(t, m, TRUE) /\ closed' = closed \cup {t}
             /\ disposed' = [disposed EXCEPT ![t] = TRUE]
             /\ last' = [last EXCEPT ![t] = "disposal"] /\ failed' = failed
    <3>1. Stopped(t, Head(urgent[t]), TRUE) /\ failed' = IF TRUE THEN failed ELSE failed \cup {t}
      BY <2>3 DEF m
    <3>. QED BY ONLY LifeInv, BoundsAssumption, CapacityAssumption, t \in Terminals,
                     TRUE \in BOOLEAN, <1>1, <2>3, <3>1, StoppedKeeps
  <2>4. Kill(t, FALSE) => child' = child /\ faults' = faults + 1
    BY DEF Kill
  <2>. QED BY <1>3, <2>2, <2>3, <2>4 DEF HandleClose
<1>. QED BY <1>1, <1>2, <1>3
-----------------------------------------------------------------------------
(* The theorems *)

LEMMA InitHolds ==
  ASSUME CallersAssumption, CapacityAssumption, Init
  PROVE  LifeInv
<1>. USE CallFields DEF Init
<1>1. TypeOK
  <2>1. /\ urgent \in [Terminals -> Seq(Commands)] /\ output \in [Terminals -> Seq({"data", "eof"})]
        /\ LaneCapacity \in Nat /\ OutputCapacity \in Nat /\ Len(<<>>) = 0
    BY DEF CapacityAssumption
  <2>2. \A t \in Terminals : Len(urgent[t]) <= LaneCapacity /\ Len(output[t]) <= OutputCapacity
    BY <2>1
  <2>3. call \in [Requesters -> Calls]
    OBVIOUS
  <2>. QED BY <2>1, <2>2, <2>3 DEF TypeOK
<1>2. CallsSound /\ LanesAgree /\ Fresh /\ Lives /\ OneTimer
  BY DEF CallsSound, CallSound, LanesAgree, Fresh, Lives, Alive, OneTimer, Requesters
<1>3. Room
  <2>1. Counted = {} /\ Cardinality(Counted) = 0
    BY FS_EmptySet DEF Counted
  <2>2. \A c \in Callers : ~Creating(c)
    BY DEF Creating, Requesters
  <2>. QED BY <2>1, <2>2 DEF Room, CapacityAssumption
<1>4. ChildrenReachable /\ NoOrphan /\ ArchiveClosed
  BY DEF ChildrenReachable, NoOrphan, ArchiveClosed
<1>. QED BY <1>1, <1>2, <1>3, <1>4 DEF LifeInv

\* Every step keeps the invariant, and none says a word after an exit but the
\* disposal.
LEMMA StepKeeps ==
  ASSUME LifeInv, CallersAssumption, BoundsAssumption, CapacityAssumption, [Next]_vars
  PROVE  /\ LifeInv'
         /\ \A u \in Terminals : last'[u] # last[u] => last[u] = "output" \/ last'[u] = "disposal"
<1>. DEFINE Silent == \A u \in Terminals :
                        last'[u] # last[u] => last[u] = "output" \/ last'[u] = "disposal"
<1>1. ASSUME NEW c \in Callers, Create(c) PROVE LifeInv' /\ Silent
  BY <1>1, CreateKeeps DEF Create, published
<1>2. ASSUME NEW c \in Callers, Inspect(c) PROVE LifeInv' /\ Silent
  BY <1>2, InspectKeeps DEF Inspect, published
<1>18. ASSUME NEW c \in Callers, ListIds(c) PROVE LifeInv' /\ Silent
  BY <1>18, ListIdsKeeps DEF ListIds, published
<1>3. ASSUME NEW c \in Callers, Evict(c) PROVE LifeInv' /\ Silent
  BY <1>3, EvictKeeps
<1>4. ASSUME NEW c \in Callers, Insert(c) PROVE LifeInv' /\ Silent
  BY <1>4, InsertKeeps DEF Insert, published
<1>5. ASSUME NEW c \in Callers, SpawnFails(c) PROVE LifeInv' /\ Silent
  BY <1>5, SpawnFailsKeeps DEF SpawnFails, published
<1>6. ASSUME NEW c \in Callers, NEW t \in Terminals, Dispose(c, t) \/ Close(c, t)
      PROVE  LifeInv' /\ Silent
  BY <1>6, AskedKeeps
<1>7. ASSUME NEW c \in Requesters, TimeOut(c) PROVE LifeInv' /\ Silent
  BY <1>7, TimeOutKeeps
<1>8. ASSUME NEW c \in Requesters, Remove(c) PROVE LifeInv' /\ Silent
  BY <1>8, RemoveKeeps
<1>9. ASSUME NEW t \in Terminals, Expire(t) PROVE LifeInv' /\ Silent
  BY <1>9, ExpireKeeps
<1>10. ASSUME NEW t \in Terminals, ChildExits(t) PROVE LifeInv' /\ Silent
  BY <1>10, ChildExitsKeeps DEF ChildExits, published
<1>11. ASSUME NEW t \in Terminals, Read(t) PROVE LifeInv' /\ Silent
  BY <1>11, ReadKeeps DEF Read, published
<1>12. ASSUME NEW t \in Terminals, Process(t) PROVE LifeInv' /\ Silent
  BY <1>12, ProcessKeeps
<1>13. ASSUME NEW t \in Terminals, Observe(t) PROVE LifeInv' /\ Silent
  BY <1>13, ObserveKeeps DEF Observe, published
<1>14. ASSUME NEW t \in Terminals, Exit(t) PROVE LifeInv' /\ Silent
  BY <1>14, ExitKeeps
<1>15. ASSUME NEW t \in Terminals, Serve(t) PROVE LifeInv' /\ Silent
  BY <1>15, ServeKeeps
<1>16. ASSUME UNCHANGED vars PROVE LifeInv' /\ Silent
  <2>1. UNCHANGED <<entries, processVars, ownerVars, urgent, timers, call, published, failed,
                    overlapped, faults>>
    BY <1>16 DEF vars
  <2>2. /\ CallsSound' /\ LanesAgree' /\ Room' /\ ChildrenReachable' /\ NoOrphan'
        /\ \A t \in Terminals : Alive(t)' = Alive(t)
    BY <2>1, MapKept DEF processVars, ownerVars
  <2>3. TypeOK'
    BY <2>1 DEF LifeInv, TypeOK, processVars, ownerVars, published
  <2>4. Fresh' /\ Lives' /\ OneTimer' /\ ArchiveClosed'
    BY <2>1 DEF LifeInv, Fresh, Lives, Alive, OneTimer, ArchiveClosed, processVars, ownerVars,
                published
  <2>. QED BY <2>1, <2>2, <2>3, <2>4 DEF LifeInv, published
<1>. HIDE DEF Silent
<1>17. LifeInv' /\ Silent
  BY ONLY [Next]_vars, <1>1, <1>2, <1>3, <1>4, <1>5, <1>6, <1>7, <1>8, <1>9, <1>10, <1>11,
          <1>12, <1>13, <1>14, <1>15, <1>16, <1>18 DEF Next
<1>. QED BY <1>17 DEF Silent

THEOREM HostHolds == Spec => []LifeInv
<1>. USE CallersAssumption, CapacityAssumption, BoundsAssumption
<1>1. Init => LifeInv
  BY InitHolds
<1>2. LifeInv /\ [Next]_vars => LifeInv'
  BY StepKeeps
<1>. QED BY <1>1, <1>2, PTL DEF Spec

\* The map's limit holds unless creates overlap or a call has failed, a child that
\* lives can be reached, an entry whose owner has stopped is being removed, and an
\* archive that nobody writes to any more has been closed: whatever callers, owners,
\* timers and children do, in any order (create, request, authorize_and_dispose).
THEOREM HostIsSound == Spec => []HostInv
<1>1. LifeInv => HostInv
  <2>. SUFFICES ASSUME LifeInv PROVE EntriesBounded
    BY DEF LifeInv, HostInv
  <2>1. SUFFICES ASSUME ~overlapped, failed = {} PROVE ~(Cardinality(Counted) > MaxEntries)
    BY DEF EntriesBounded, Counted
  <2>2. Cardinality(Counted) <= MaxEntries
    BY <2>1 DEF LifeInv, Room
  <2>3. Cardinality(Counted) \in Nat /\ MaxEntries \in Nat
    BY CountedSets, BoundsAssumption, CapacityAssumption DEF LifeInv, TypeOK, Counted
  <2>. QED BY <2>2, <2>3
<1>. QED BY <1>1, HostHolds, PTL

\* Nothing is published of a terminal after its exit but its disposal, and nothing
\* after that: the owner observes the exit once, after the last of the output, and
\* a command it refuses or a kill that fails never reopens what was said
\* (process_terminal_output, observe_terminal_exit, TerminalCommand::Dispose).
THEOREM ExitsLast == Spec => ExitIsLast
<1>1. LifeInv /\ [Next]_vars =>
        [\A t \in Terminals : last'[t] # last[t] => last[t] = "output" \/ last'[t] = "disposal"]_vars
  BY StepKeeps, CallersAssumption, CapacityAssumption, BoundsAssumption
<1>. QED BY <1>1, HostHolds, PTL DEF Spec, ExitIsLast
=============================================================================
