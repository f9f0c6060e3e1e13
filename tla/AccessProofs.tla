----------------------------- MODULE AccessProofs -----------------------------
(* Who may do what on the host, and how a client reaches it: terminal control for  *)
(* any connections, principals, commands and lease lifetime, paired devices for any *)
(* devices, requests and limits of the maps, then the browser's realtime connection, *)
(* its client of several servers and its copy of the host's catalogue for any       *)
(* sessions, windows, terminals and orders.  They share no state.                   *)
EXTENDS MuxStore, TerminalControl, DeviceAuth, WebTransport, MultiServer, FiniteSetTheorems, SequenceTheorems, WellFoundedInduction, TLAPS

-----------------------------------------------------------------------------
(* Terminal control.                                                            *)

(* Facts about sets of leases *)

\* A set of leases has an oldest one: lease ids are natural numbers.
EarlierId == {pair \in Nat \X Nat : pair[1] < pair[2]}

LEMMA EarlierWellFounded == IsWellFoundedOn(EarlierId, Nat)
BY NatLessThanWellFounded DEF OpToRel, EarlierId

LEMMA OldestLease ==
  ASSUME NEW S \in SUBSET Lease, S # {}
  PROVE  Oldest(S) \in S
<1> DEFINE Ids == {l.id : l \in S}
<1>1. Ids \subseteq Nat /\ Ids # {}
  BY DEF Lease, LeaseIds
<1>2. PICK n \in Ids : \A k \in Ids : ~(<<k, n>> \in EarlierId)
  <2> HIDE DEF Ids
  <2>. QED BY <1>1, EarlierWellFounded, WFMin
<1>3. \A k \in Ids : ~(k < n)
  BY <1>1, <1>2 DEF EarlierId
<1>4. PICK l \in S : l.id = n
  OBVIOUS
<1>5. \A m \in S : l.id <= m.id
  <2> SUFFICES ASSUME NEW m \in S PROVE l.id <= m.id
    OBVIOUS
  <2>1. m.id \in Ids /\ m.id \in Nat /\ l.id \in Nat
    BY DEF Lease, LeaseIds
  <2>. QED BY <1>3, <1>4, <2>1
<1>. QED BY <1>5 DEF Oldest

\* The first lease of a set: none of an empty set, one of the set otherwise.
LEMMA FirstLease ==
  ASSUME NEW S \in SUBSET Lease
  PROVE  /\ First(S) \in Nat
         /\ S = {} => First(S) = NoLease
         /\ S # {} => \E l \in S : l.id = First(S)
         /\ S # {} => First(S) # NoLease
BY OldestLease DEF First, Lease, LeaseIds, NoLease

\* Renewing changes expiry times only, so it keeps who holds what.
LEMMA RenewedLeases ==
  ASSUME NEW S \in SUBSET Lease, NEW id, now \in Nat, BoundsAssumption
  PROVE  /\ RenewLease(S, id) \in SUBSET Lease
         /\ \A l \in RenewLease(S, id) : \E m \in S :
              /\ l.id = m.id /\ l.generation = m.generation
              /\ l.principal = m.principal /\ l.connection = m.connection
         /\ \A m \in S : \E l \in RenewLease(S, id) : l.id = m.id
         /\ RenewLease(S, id) = {} <=> S = {}
<1> DEFINE f(l) == IF l.id = id THEN [l EXCEPT !.expires = now + TTL] ELSE l
<1>1. RenewLease(S, id) = {f(l) : l \in S}
  BY DEF RenewLease
<1>2. \A l \in S : /\ f(l) \in Lease
                   /\ f(l).id = l.id /\ f(l).generation = l.generation
                   /\ f(l).principal = l.principal
                   /\ f(l).connection = l.connection
  BY DEF Lease, BoundsAssumption
<1> HIDE DEF f
<1>. QED BY <1>1, <1>2

LEMMA RenewedHolders ==
  ASSUME NEW S \in SUBSET Lease, NEW id, now \in Nat, BoundsAssumption,
         NoSharedHolder(S)
  PROVE  NoSharedHolder(RenewLease(S, id))
<1> DEFINE f(l) == IF l.id = id THEN [l EXCEPT !.expires = now + TTL] ELSE l
<1>1. RenewLease(S, id) = {f(l) : l \in S}
  BY DEF RenewLease
<1>2. \A l \in S : f(l).principal = l.principal /\ f(l).connection = l.connection
  BY DEF Lease
<1> HIDE DEF f
<1>. QED BY <1>1, <1>2 DEF NoSharedHolder

\* A new lease is a lease of the generation and the holder it is minted for.
LEMMA MintedLease ==
  ASSUME NEW p \in Principals, NEW c \in Connections, NEW g \in Nat,
         now \in Nat, minted \in Nat, BoundsAssumption
  PROVE  /\ NewLease(p, c, g) \in Lease
         /\ NewLease(p, c, g).id = minted + 1
         /\ NewLease(p, c, g).generation = g
         /\ NewLease(p, c, g).principal = p
         /\ NewLease(p, c, g).connection = c
         /\ minted + 1 # NoLease
BY DEF NewLease, Lease, LeaseIds, NoLease, BoundsAssumption

\* What a purge leaves: a primary exactly if a live writer is left, and then
\* one of them.
LEMMA PrimaryPurged ==
  ASSUME writers \in SUBSET Lease, primary \in Nat
  PROVE  /\ PrimaryAfterPurge \in Nat
         /\ PrimaryOf(Live(writers), PrimaryAfterPurge)
<1>1. Live(writers) \in SUBSET Lease
  BY DEF Live
<1>2. CASE WithId(Live(writers), primary) # {}
  BY <1>1, <1>2 DEF PrimaryAfterPurge, PrimaryOf, WithId, Lease, LeaseIds, NoLease
<1>3. CASE WithId(Live(writers), primary) = {}
  BY <1>1, <1>3, FirstLease DEF PrimaryAfterPurge, PrimaryOf, WithId
<1>. QED BY <1>2, <1>3

-----------------------------------------------------------------------------
(* The inductive invariant, and what every change of the leases keeps *)

LeaseInv ==
  /\ now \in Nat
  /\ writers \in SUBSET Lease
  /\ observers \in SUBSET Lease
  /\ primary \in Nat
  /\ leaseGeneration \in Nat
  /\ minted \in Nat
  /\ PrimaryIsWriter
  /\ WritersShareGeneration
  /\ OneLeasePerHolder

LeaseStep ==
  /\ LeaseInv'
  /\ leaseGeneration' >= leaseGeneration
  /\ HandoverRaises

\* Fewer holders share no lease either.
LEMMA FewerHolders ==
  ASSUME NEW S, NEW R \in SUBSET S, NoSharedHolder(S)
  PROVE  NoSharedHolder(R)
BY DEF NoSharedHolder

LEMMA PurgeStep ==
  ASSUME LeaseInv, now' = now, Purge, UNCHANGED <<leaseGeneration, minted>>
  PROVE  LeaseStep
<1>1. Live(writers) \in SUBSET writers /\ Live(observers) \in SUBSET observers
  BY DEF Live
<1>2. PrimaryAfterPurge \in Nat /\ PrimaryOf(Live(writers), PrimaryAfterPurge)
  BY PrimaryPurged DEF LeaseInv
<1>3. PrimaryIsWriter' /\ WritersShareGeneration'
  BY <1>1, <1>2 DEF Purge, LeaseInv, PrimaryIsWriter, PrimaryOf, WithId,
                    WritersShareGeneration
<1>4. OneLeasePerHolder'
  BY <1>1, FewerHolders DEF Purge, LeaseInv, OneLeasePerHolder
<1>5. HandoverRaises
  BY <1>1 DEF Purge, HandoverRaises, WithId
<1>. QED BY <1>1, <1>2, <1>3, <1>4, <1>5 DEF LeaseStep, LeaseInv, Purge

\* Renewing some writer, some observer, or neither, after the purge.
LEMMA RenewStep ==
  ASSUME LeaseInv, BoundsAssumption, now' = now, NEW id, NEW id2,
         writers' \in {Live(writers), RenewLease(Live(writers), id)},
         observers' \in {Live(observers), RenewLease(Live(observers), id2)},
         primary' = PrimaryAfterPurge,
         UNCHANGED <<leaseGeneration, minted>>
  PROVE  LeaseStep
<1>1. /\ Live(writers) \in SUBSET writers /\ Live(observers) \in SUBSET observers
      /\ Live(writers) \in SUBSET Lease /\ Live(observers) \in SUBSET Lease
  BY DEF Live, LeaseInv
<1>2. PrimaryAfterPurge \in Nat /\ PrimaryOf(Live(writers), PrimaryAfterPurge)
  BY PrimaryPurged DEF LeaseInv
<1>3. /\ writers' \in SUBSET Lease /\ observers' \in SUBSET Lease
      /\ \A l \in writers' : \E m \in writers :
           l.id = m.id /\ l.generation = m.generation
      /\ \A m \in Live(writers) : \E l \in writers' : l.id = m.id
      /\ writers' = {} <=> Live(writers) = {}
  BY <1>1, RenewedLeases DEF LeaseInv
<1>4. PrimaryIsWriter' /\ WritersShareGeneration'
  BY <1>2, <1>3 DEF LeaseInv, PrimaryIsWriter, PrimaryOf, WithId,
                    WritersShareGeneration
<1>5. OneLeasePerHolder'
  <2>1. NoSharedHolder(Live(writers)) /\ NoSharedHolder(Live(observers))
    BY <1>1, FewerHolders DEF LeaseInv, OneLeasePerHolder
  <2>. QED BY <1>1, <2>1, RenewedHolders DEF LeaseInv, OneLeasePerHolder
<1>6. HandoverRaises
  BY <1>3 DEF HandoverRaises, WithId
<1>. QED BY <1>2, <1>3, <1>4, <1>5, <1>6 DEF LeaseStep, LeaseInv

LEMMA AcquireNewWriterStep ==
  ASSUME LeaseInv, BoundsAssumption, now' = now,
         NEW p \in Principals, NEW c \in Connections, AcquireNewWriter(p, c)
  PROVE  LeaseStep /\ \E l \in writers' : l \in Held(writers', p, c)
<1>1. /\ Live(writers) \in SUBSET writers
      /\ observers' \in SUBSET observers
  BY DEF Live, AcquireNewWriter
<1>2. PrimaryAfterPurge \in Nat /\ PrimaryOf(Live(writers), PrimaryAfterPurge)
  BY PrimaryPurged DEF LeaseInv
<1>3. /\ leaseGeneration' \in Nat /\ leaseGeneration' >= leaseGeneration
      /\ Live(writers) = {} => leaseGeneration' = leaseGeneration + 1
      /\ Live(writers) # {} => leaseGeneration' = leaseGeneration
      /\ minted' \in Nat
  BY <1>2 DEF AcquireNewWriter, LeaseInv, PrimaryOf
<1> DEFINE new == NewLease(p, c, leaseGeneration')
<1>4. /\ writers' = Live(writers) \cup {new}
      /\ new \in Lease /\ new.id = minted + 1
      /\ new.generation = leaseGeneration'
      /\ new.principal = p /\ new.connection = c
      /\ minted + 1 # NoLease
  BY <1>3, MintedLease DEF AcquireNewWriter, LeaseInv
<1> HIDE DEF new
<1>5. PrimaryIsWriter'
  BY <1>2, <1>4 DEF AcquireNewWriter, PrimaryIsWriter, PrimaryOf, WithId
<1>6. WritersShareGeneration'
  BY <1>1, <1>3, <1>4 DEF LeaseInv, WritersShareGeneration
<1>7. OneLeasePerHolder'
  <2>1. NoSharedHolder(Live(writers)) /\ NoSharedHolder(observers')
    BY <1>1, FewerHolders DEF LeaseInv, OneLeasePerHolder
  <2>2. \A l \in Live(writers) : ~(l.principal = p /\ l.connection = c)
    BY DEF AcquireNewWriter, Held
  <2>. QED BY <1>4, <2>1, <2>2 DEF OneLeasePerHolder, NoSharedHolder
<1>8. HandoverRaises
  BY <1>1, <1>3, <1>4 DEF HandoverRaises, WithId, LeaseInv
<1>9. new \in Held(writers', p, c)
  BY <1>4 DEF Held
<1>. QED
  BY <1>1, <1>2, <1>3, <1>4, <1>5, <1>6, <1>7, <1>8, <1>9
  DEF LeaseStep, LeaseInv, AcquireNewWriter, Held

LEMMA AcquireNewObserverStep ==
  ASSUME LeaseInv, BoundsAssumption, now' = now,
         NEW p \in Principals, NEW c \in Connections, AcquireNewObserver(p, c)
  PROVE  LeaseStep
<1>1. Live(writers) \in SUBSET writers /\ Live(observers) \in SUBSET observers
  BY DEF Live
<1>2. PrimaryAfterPurge \in Nat /\ PrimaryOf(Live(writers), PrimaryAfterPurge)
  BY PrimaryPurged DEF LeaseInv
<1>3. /\ NewLease(p, c, leaseGeneration) \in Lease
      /\ NewLease(p, c, leaseGeneration).principal = p
      /\ NewLease(p, c, leaseGeneration).connection = c
  BY MintedLease DEF LeaseInv
<1>4. PrimaryIsWriter' /\ WritersShareGeneration'
  BY <1>1, <1>2 DEF AcquireNewObserver, LeaseInv, PrimaryIsWriter, PrimaryOf,
                    WithId, WritersShareGeneration
<1>5. OneLeasePerHolder'
  <2>1. NoSharedHolder(Live(writers)) /\ NoSharedHolder(Live(observers))
    BY <1>1, FewerHolders DEF LeaseInv, OneLeasePerHolder
  <2>2. \A l \in Live(observers) : ~(l.principal = p /\ l.connection = c)
    BY DEF AcquireNewObserver, Held
  <2>. QED BY <1>3, <2>1, <2>2
           DEF AcquireNewObserver, OneLeasePerHolder, NoSharedHolder
<1>6. HandoverRaises
  BY <1>1 DEF AcquireNewObserver, HandoverRaises, WithId
<1>. QED BY <1>1, <1>2, <1>3, <1>4, <1>5, <1>6
         DEF AcquireNewObserver, LeaseStep, LeaseInv

LEMMA TakeoverStep ==
  ASSUME LeaseInv, BoundsAssumption, now' = now,
         NEW p \in Principals, NEW c \in Connections, ForceTakeover(p, c),
         observers' \in SUBSET observers
  PROVE  LeaseStep
<1>1. /\ leaseGeneration' = leaseGeneration + 1
      /\ leaseGeneration' \in Nat /\ minted' \in Nat
  BY DEF ForceTakeover, LeaseInv
<1> DEFINE new == NewLease(p, c, leaseGeneration')
<1>2. /\ writers' = {new}
      /\ new \in Lease /\ new.id = minted + 1
      /\ new.generation = leaseGeneration'
      /\ minted + 1 # NoLease
  BY <1>1, MintedLease DEF ForceTakeover, LeaseInv
<1> HIDE DEF new
<1>3. PrimaryIsWriter' /\ WritersShareGeneration'
  BY <1>2 DEF ForceTakeover, PrimaryIsWriter, PrimaryOf, WithId,
              WritersShareGeneration
<1>4. OneLeasePerHolder'
  <2>1. NoSharedHolder(observers')
    BY FewerHolders DEF LeaseInv, OneLeasePerHolder
  <2>. QED BY <1>2, <2>1 DEF OneLeasePerHolder, NoSharedHolder
<1>5. HandoverRaises
  BY <1>1 DEF HandoverRaises, LeaseInv
<1>. QED BY <1>1, <1>2, <1>3, <1>4, <1>5
         DEF ForceTakeover, LeaseStep, LeaseInv

LEMMA ReleaseStep ==
  ASSUME LeaseInv, NEW c, NEW id, Release(c, id)
  PROVE  LeaseStep
<1>1. /\ writers' \in SUBSET writers /\ observers' \in SUBSET observers
      /\ writers' \in SUBSET Lease
      /\ UNCHANGED <<now, leaseGeneration, minted>>
  BY DEF Release, LeaseInv
<1>2. primary' \in Nat /\ PrimaryIsWriter'
  <2>1. CASE primary = id
    BY <1>1, <2>1, FirstLease DEF Release, PrimaryIsWriter, PrimaryOf, WithId
  <2>2. CASE primary # id
    BY <1>1, <2>2 DEF Release, LeaseInv, PrimaryIsWriter, PrimaryOf, WithId
  <2>. QED BY <2>1, <2>2
<1>3. WritersShareGeneration'
  BY <1>1 DEF LeaseInv, WritersShareGeneration
<1>4. OneLeasePerHolder'
  BY <1>1, FewerHolders DEF LeaseInv, OneLeasePerHolder
<1>5. HandoverRaises
  BY <1>1 DEF HandoverRaises, WithId
<1>. QED BY <1>1, <1>2, <1>3, <1>4, <1>5 DEF LeaseStep, LeaseInv

LEMMA ReleaseConnectionStep ==
  ASSUME LeaseInv, BoundsAssumption, NEW c, ReleaseConnection(c)
  PROVE  LeaseStep
<1> DEFINE gone == OfConnection(Live(writers), c)
           w == Live(writers) \ gone
           o == Live(observers) \ OfConnection(Live(observers), c)
           heir == Oldest(o)
           promoted == NewLease(heir.principal, heir.connection, leaseGeneration')
<1>1. /\ w \in SUBSET writers /\ o \in SUBSET observers
      /\ w \in SUBSET Lease /\ o \in SUBSET Lease
      /\ now' = now
  BY DEF ReleaseConnection, Live, LeaseInv
<1>2. CASE gone # {} /\ w = {} /\ o # {}
  <2>1. /\ minted' = minted + 1
        /\ leaseGeneration' = leaseGeneration + 1
        /\ writers' = {promoted}
        /\ observers' = o \ {heir}
        /\ primary' = minted + 1
    BY <1>2 DEF ReleaseConnection
  <2>2. heir \in Lease
    <3> HIDE DEF o
    <3>. QED BY <1>1, <1>2, OldestLease
  <2>3. /\ leaseGeneration' \in Nat /\ minted' \in Nat
        /\ heir.principal \in Principals /\ heir.connection \in Connections
    BY <2>1, <2>2 DEF LeaseInv, Lease
  <2>4. /\ promoted \in Lease /\ promoted.id = minted + 1
        /\ promoted.generation = leaseGeneration' /\ minted + 1 # NoLease
    <3> HIDE DEF heir
    <3>. QED BY <2>3, MintedLease DEF LeaseInv
  <2> HIDE DEF promoted, heir
  <2>5. PrimaryIsWriter' /\ WritersShareGeneration'
    BY <2>1, <2>4 DEF PrimaryIsWriter, PrimaryOf, WithId, WritersShareGeneration
  <2>6. OneLeasePerHolder'
    <3>1. observers' \in SUBSET observers
      BY <1>1, <2>1
    <3>2. NoSharedHolder(observers')
      BY <3>1, FewerHolders DEF LeaseInv, OneLeasePerHolder
    <3>. QED BY <2>1, <3>2 DEF OneLeasePerHolder, NoSharedHolder
  <2>7. HandoverRaises
    BY <2>1 DEF HandoverRaises, LeaseInv
  <2>. QED BY <1>1, <2>1, <2>3, <2>4, <2>5, <2>6, <2>7 DEF LeaseStep, LeaseInv
<1>3. CASE ~(gone # {} /\ w = {} /\ o # {})
  <2>1. /\ writers' = w /\ observers' = o
        /\ primary' = IF WithId(w, PrimaryAfterPurge) # {}
                      THEN PrimaryAfterPurge ELSE First(w)
        /\ UNCHANGED <<leaseGeneration, minted>>
    BY <1>3 DEF ReleaseConnection
  <2>2. PrimaryAfterPurge \in Nat /\ PrimaryOf(Live(writers), PrimaryAfterPurge)
    BY PrimaryPurged DEF LeaseInv
  <2> HIDE DEF w, o
  <2>3. primary' \in Nat /\ PrimaryIsWriter'
    <3>1. CASE WithId(w, PrimaryAfterPurge) # {}
      BY <1>1, <2>1, <2>2, <3>1
      DEF PrimaryIsWriter, PrimaryOf, WithId, Lease, LeaseIds, NoLease
    <3>2. CASE WithId(w, PrimaryAfterPurge) = {}
      BY <1>1, <2>1, <3>2, FirstLease DEF PrimaryIsWriter, PrimaryOf, WithId
    <3>. QED BY <3>1, <3>2
  <2>4. WritersShareGeneration'
    BY <1>1, <2>1 DEF LeaseInv, WritersShareGeneration
  <2>5. OneLeasePerHolder'
    BY <1>1, <2>1, FewerHolders DEF LeaseInv, OneLeasePerHolder
  <2>6. HandoverRaises
    BY <1>1, <2>1 DEF HandoverRaises, WithId
  <2>. QED BY <1>1, <2>1, <2>3, <2>4, <2>5, <2>6 DEF LeaseStep, LeaseInv
<1>. QED BY <1>2, <1>3

LEMMA TransferStep ==
  ASSUME LeaseInv, BoundsAssumption, ConnectionsAssumption,
         NEW c \in Connections, NEW id, NEW target \in Connections,
         Transfer(c, id, target)
  PROVE  LeaseStep
<1>1. PrincipalOf[c] \in Principals /\ now' = now
  BY DEF ConnectionsAssumption, Transfer
<1>2. CASE ForceTakeover(PrincipalOf[c], target) /\ observers' \in SUBSET observers
  BY <1>1, <1>2, TakeoverStep
<1>3. CASE Purge /\ UNCHANGED <<leaseGeneration, minted>>
  BY <1>1, <1>3, PurgeStep
<1>4. Live(observers) \in SUBSET observers
  BY DEF Live
<1>. QED BY <1>2, <1>3, <1>4 DEF Transfer

LEMMA AcquireLeaseStep ==
  ASSUME LeaseInv, BoundsAssumption, ConnectionsAssumption,
         NEW c \in Connections, AcquireLease(c)
  PROVE  LeaseStep
<1> DEFINE p == PrincipalOf[c]
<1>1. p \in Principals /\ now' = now
  BY DEF ConnectionsAssumption, AcquireLease
<1> HIDE DEF p
<1>2. CASE AcquireHeldWriter(p, c)
  BY <1>1, <1>2, RenewStep DEF AcquireHeldWriter
<1>3. CASE AcquireNewWriter(p, c)
  BY <1>1, <1>3, AcquireNewWriterStep
<1>4. CASE AcquireHeldObserver(p, c)
  BY <1>1, <1>4, RenewStep DEF AcquireHeldObserver
<1>5. CASE AcquireNewObserver(p, c)
  BY <1>1, <1>5, AcquireNewObserverStep
<1>. QED BY <1>2, <1>3, <1>4, <1>5
         DEF AcquireLease, AcquireWriter, AcquireObserver, p

-----------------------------------------------------------------------------
(* The specification *)

IndInv ==
  /\ TypeOK
  /\ LeaseInv
  /\ appliedGeneration <= leaseGeneration

Step ==
  /\ IndInv'
  /\ appliedGeneration' >= appliedGeneration
  /\ HandoverRaises

LEMMA RememberedCommands ==
  ASSUME commandIds \in Seq(Commands), Len(commandIds) <= MaxCommandIds,
         BoundsAssumption, NEW k \in Commands
  PROVE  /\ Remember(k) \in Seq(Commands)
         /\ Len(Remember(k)) <= MaxCommandIds
BY DEF Remember, BoundsAssumption

\* Steps that change leases only.
LEMMA LeaseOnlyStep ==
  ASSUME IndInv, LeaseStep,
         UNCHANGED <<now, registered, commandIds, historyVars>>
  PROVE  Step
BY DEF IndInv, LeaseStep, LeaseInv, TypeOK, Step, historyVars

LEMMA MutateFencedStep ==
  ASSUME IndInv, BoundsAssumption, NEW c \in Connections,
         NEW fence \in Fence, MutateFenced(c, fence)
  PROVE  Step
<1>1. now' = now /\ registered' = registered
  BY DEF MutateFenced
<1>2. CASE AcceptFenced(c, fence)
  <2>1. LeaseStep
    BY <1>1, <1>2, RenewStep DEF AcceptFenced, IndInv
  <2>2. fence.generation = leaseGeneration
    BY <1>2 DEF AcceptFenced, Authorized, Held, WithId, Live, IndInv, LeaseInv,
                WritersShareGeneration
  <2>3. fence.command \in Commands
    BY DEF Fence
  <2>4. commandIds' \in Seq(Commands) /\ Len(commandIds') <= MaxCommandIds
    BY <1>2, <2>3, RememberedCommands DEF AcceptFenced, IndInv, TypeOK
  <2>5. /\ accepted' \in Seq(Commands)
        /\ appliedGeneration' = leaseGeneration
        /\ leaseGeneration' = leaseGeneration
    BY <1>2, <2>2, <2>3 DEF AcceptFenced, IndInv, TypeOK
  <2>. QED BY <1>1, <2>1, <2>4, <2>5
           DEF Step, IndInv, LeaseStep, LeaseInv, TypeOK
<1>3. CASE RejectFenced(c, fence)
  <2>1. LeaseStep
    <3>1. CASE fence.epoch = Epoch
      BY <1>1, <1>3, <3>1, PurgeStep DEF RejectFenced, IndInv
    <3>2. CASE fence.epoch # Epoch
      BY <1>1, <1>3, <3>2
      DEF RejectFenced, IndInv, LeaseStep, LeaseInv, HandoverRaises, WithId,
          PrimaryIsWriter, PrimaryOf, WritersShareGeneration, OneLeasePerHolder,
          NoSharedHolder
    <3>. QED BY <3>1, <3>2
  <2>. QED BY <1>1, <1>3, <2>1, LeaseOnlyStep DEF RejectFenced
<1>. QED BY <1>2, <1>3 DEF MutateFenced

LEMMA MutateUnfencedStep ==
  ASSUME IndInv, BoundsAssumption, ConnectionsAssumption,
         NEW c \in Connections, MutateUnfenced(c)
  PROVE  Step
<1> DEFINE p == PrincipalOf[c]
<1>1. /\ p \in Principals
      /\ UNCHANGED <<now, registered, commandIds, accepted>>
  BY DEF ConnectionsAssumption, MutateUnfenced, AuthorizeUnfenced
<1> HIDE DEF p
<1>2. LeaseStep /\ \E l \in writers' : l \in Held(writers', p, c)
  <2>1. CASE Held(Live(writers), p, c) # {} /\ Purge
             /\ UNCHANGED <<leaseGeneration, minted>>
    BY <1>1, <2>1, PurgeStep DEF IndInv, Purge, Held
  <2>2. CASE AcquireNewWriter(p, c)
    BY <1>1, <2>2, AcquireNewWriterStep DEF IndInv
  <2>. QED BY <2>1, <2>2 DEF MutateUnfenced, AuthorizeUnfenced, p
<1>3. appliedGeneration' = (CHOOSE l \in Held(writers', p, c) : TRUE).generation
  BY DEF MutateUnfenced, AuthorizeUnfenced, p
<1>4. (CHOOSE l \in Held(writers', p, c) : TRUE) \in writers'
  BY <1>2 DEF Held
<1>5. appliedGeneration' = leaseGeneration'
  BY <1>2, <1>3, <1>4 DEF LeaseStep, LeaseInv, WritersShareGeneration
<1>. QED BY <1>1, <1>2, <1>5 DEF Step, IndInv, LeaseStep, LeaseInv, TypeOK

LEMMA UnregisterStep ==
  ASSUME IndInv, BoundsAssumption, Unregister
  PROVE  Step
<1>1. LeaseInv' /\ HandoverRaises
  BY DEF Unregister, IndInv, LeaseInv, HandoverRaises, PrimaryIsWriter, PrimaryOf,
         WithId, WritersShareGeneration, OneLeasePerHolder, NoSharedHolder, NoLease
<1>2. commandIds' \in Seq(Commands) /\ Len(commandIds') <= MaxCommandIds
  BY DEF Unregister, BoundsAssumption
<1>3. /\ registered' \in BOOLEAN
      /\ UNCHANGED <<now, leaseGeneration, minted, accepted, appliedGeneration>>
  BY DEF Unregister, historyVars
<1>. QED BY <1>1, <1>2, <1>3 DEF Step, IndInv, TypeOK, LeaseInv

LEMMA UnchangedLeases ==
  ASSUME IndInv, BoundsAssumption, now' \in 0..MaxNow,
         UNCHANGED <<registered, leaseVars, commandIds, historyVars>>
  PROVE  Step
BY DEF Step, IndInv, TypeOK, LeaseInv, HandoverRaises, leaseVars, historyVars,
       PrimaryIsWriter, PrimaryOf, WithId, WritersShareGeneration,
       OneLeasePerHolder, NoSharedHolder, Lease, BoundsAssumption

LEMMA InitInv ==
  ASSUME Init, BoundsAssumption
  PROVE  IndInv
BY DEF Init, IndInv, TypeOK, LeaseInv, PrimaryIsWriter, PrimaryOf, WithId,
       WritersShareGeneration, OneLeasePerHolder, NoSharedHolder, NoLease,
       BoundsAssumption

LEMMA NextStep ==
  ASSUME IndInv, [Next]_vars, BoundsAssumption, ConnectionsAssumption
  PROVE  Step
<1>1. ASSUME NEW c \in Connections, AcquireLease(c) PROVE Step
  BY <1>1, AcquireLeaseStep, LeaseOnlyStep DEF AcquireLease, IndInv
<1>2. ASSUME NEW c \in Connections, NEW id, Renew(c, id) PROVE Step
  <2>1. LeaseStep
    BY <1>2, RenewStep DEF Renew, IndInv
  <2>. QED BY <1>2, <2>1, LeaseOnlyStep DEF Renew
<1>3. ASSUME NEW c \in Connections, NEW id, Release(c, id) PROVE Step
  BY <1>3, ReleaseStep, LeaseOnlyStep DEF Release, IndInv
<1>4. ASSUME NEW c \in Connections, ReleaseConnection(c) PROVE Step
  BY <1>4, ReleaseConnectionStep, LeaseOnlyStep DEF ReleaseConnection, IndInv
<1>5. ASSUME NEW c \in Connections, Takeover(c) PROVE Step
  <2>1. PrincipalOf[c] \in Principals
    BY DEF ConnectionsAssumption
  <2>2. LeaseStep
    BY <1>5, <2>1, TakeoverStep DEF Takeover, IndInv
  <2>. QED BY <1>5, <2>2, LeaseOnlyStep DEF Takeover
<1>6. ASSUME NEW c \in Connections, NEW id, NEW target \in Connections,
             Transfer(c, id, target)
      PROVE  Step
  BY <1>6, TransferStep, LeaseOnlyStep DEF Transfer, IndInv
<1>7. ASSUME NEW c \in Connections, NEW fence \in Fence, MutateFenced(c, fence)
      PROVE  Step
  BY <1>7, MutateFencedStep
<1>8. ASSUME NEW c \in Connections, MutateUnfenced(c) PROVE Step
  BY <1>8, MutateUnfencedStep
<1>9. CASE ListLeases
  BY <1>9, PurgeStep, LeaseOnlyStep DEF ListLeases, IndInv
<1>10. CASE Unregister
  BY <1>10, UnregisterStep
<1>11. CASE SetClock
  BY <1>11, UnchangedLeases DEF SetClock
<1>12. CASE UNCHANGED vars
  BY <1>12, UnchangedLeases DEF vars, IndInv, TypeOK
<1>. QED
  BY <1>1, <1>2, <1>3, <1>4, <1>5, <1>6, <1>7, <1>8, <1>9, <1>10, <1>11, <1>12
  DEF Next

LEMMA Invariance == Spec => []IndInv
<1>1. Init => IndInv
  BY InitInv, BoundsAssumption
<1>2. IndInv /\ [Next]_vars => IndInv'
  BY NextStep, BoundsAssumption, ConnectionsAssumption DEF Step
<1>. QED BY <1>1, <1>2, PTL DEF Spec

\* Every reachable state has its type, and the registry never remembers more
\* than MAX_COMMAND_IDS commands.
THEOREM TypeCorrect == Spec => []TypeOK
<1>1. IndInv => TypeOK
  BY DEF IndInv
<1>. QED BY <1>1, Invariance, PTL

\* The registry of leases is consistent after any sequence of acquisitions,
\* renewals, releases, disconnects, takeovers, transfers and expiries.
THEOREM LeaseSafety == Spec => []LeasesAgree
<1>1. IndInv => LeasesAgree
  BY DEF IndInv, LeaseInv, LeasesAgree
<1>. QED BY <1>1, Invariance, PTL

\* No mutation of an earlier generation is applied after one of a later one.
THEOREM FencingOrder == Spec => MutationsInGenerationOrder
<1>1. IndInv /\ [Next]_vars => [appliedGeneration' >= appliedGeneration]_vars
  BY NextStep, BoundsAssumption, ConnectionsAssumption DEF Step
<1>. QED BY <1>1, Invariance, PTL DEF Spec, MutationsInGenerationOrder

\* Replacing all writers raises the generation.
THEOREM HandoverFences == Spec => HandoverRaisesGeneration
<1>1. IndInv /\ [Next]_vars => [HandoverRaises]_vars
  BY NextStep, BoundsAssumption, ConnectionsAssumption DEF Step
<1>. QED BY <1>1, Invariance, PTL DEF Spec, HandoverRaisesGeneration

-----------------------------------------------------------------------------
(* The command window: the remembered ids are the last accepted ones *)

Window ==
  /\ Len(commandIds) <= MaxCommandIds
  /\ Len(commandIds) <= Len(accepted)
  /\ Len(commandIds) < MaxCommandIds => Len(commandIds) = Len(accepted)
  /\ \A i \in 1..Len(commandIds) :
       commandIds[i] = accepted[Len(accepted) - Len(commandIds) + i]

WindowInv ==
  /\ commandIds \in Seq(Commands)
  /\ accepted \in Seq(Commands)
  /\ registered => Window
  /\ NoReplayWithinWindow

LEMMA LastOrBefore ==
  ASSUME NEW n \in Nat, NEW j \in 1..(n + 1)
  PROVE  j <= n \/ j = n + 1
OBVIOUS

\* What a full window holds after another element.
LEMMA Shifted ==
  ASSUME NEW T, NEW s \in Seq(T), NEW x \in T, Len(s) >= 1
  PROVE  /\ Tail(Append(s, x)) \in Seq(T) /\ Len(Tail(Append(s, x))) = Len(s)
         /\ \A i \in 1..(Len(s) - 1) : Tail(Append(s, x))[i] = s[i + 1]
         /\ Tail(Append(s, x))[Len(s)] = x
<1>0. Append(s, x) \in Seq(T)
  OBVIOUS
<1>1. PICK t \in Seq(T) : t = Append(s, x)
  BY <1>0, Zenon
<1>2. /\ Len(s) \in Nat /\ Len(t) = Len(s) + 1 /\ t[Len(s) + 1] = x
      /\ \A i \in 1..Len(s) : t[i] = s[i]
  BY <1>1
<1>3. Tail(t) \in Seq(T) /\ Len(Tail(t)) = Len(s) /\ \A i \in 1..Len(s) : Tail(t)[i] = t[i + 1]
  BY <1>2
<1>. QED BY <1>1, <1>2, <1>3

LEMMA AcceptKeepsWindow ==
  ASSUME commandIds \in Seq(Commands), accepted \in Seq(Commands),
         Window, NoReplayWithinWindow, BoundsAssumption,
         NEW k \in Commands, ~Remembered(k),
         commandIds' = Remember(k), accepted' = Append(accepted, k)
  PROVE  /\ commandIds' \in Seq(Commands) /\ accepted' \in Seq(Commands)
         /\ Window' /\ NoReplayWithinWindow'
<1> DEFINE n == Len(accepted)  m == Len(commandIds)
<1>0. n \in Nat /\ m \in Nat /\ m <= MaxCommandIds
  BY DEF Window, BoundsAssumption
<1>1. /\ n \in Nat /\ m \in Nat /\ MaxCommandIds \in Nat \ {0}
      /\ m <= MaxCommandIds /\ m <= n
      /\ m < MaxCommandIds => m = n
      /\ \A i \in 1..m : commandIds[i] = accepted[n - m + i]
  BY DEF Window, BoundsAssumption
<1>2. /\ accepted' \in Seq(Commands) /\ Len(accepted') = n + 1
      /\ \A i \in 1..n : accepted'[i] = accepted[i]
      /\ accepted'[n + 1] = k
  OBVIOUS
<1>3. \A i \in 1..n : accepted[i] = k => i <= n - m
  <2> SUFFICES ASSUME NEW i \in 1..n, accepted[i] = k, i > n - m
               PROVE  FALSE
    BY <1>1
  <2>1. i - (n - m) \in 1..m /\ n - m + (i - (n - m)) = i
    BY <1>1
  <2>2. commandIds[i - (n - m)] = k
    BY <1>1, <2>1
  <2>. QED BY <2>1, <2>2 DEF Remembered
<1>4. NoReplayWithinWindow'
  <2> SUFFICES ASSUME NEW i \in 1..(n + 1), NEW j \in 1..(n + 1), i < j,
                      accepted'[i] = accepted'[j]
               PROVE  j - i > MaxCommandIds
    BY <1>1, <1>2 DEF NoReplayWithinWindow
  <2>1. CASE j <= n
    <3>1. i \in DOMAIN accepted /\ j \in DOMAIN accepted /\ accepted[i] = accepted[j]
      BY <1>1, <1>2, <2>1
    <3>. QED BY <3>1 DEF NoReplayWithinWindow
  <2>2. CASE j = n + 1
    <3>1. i \in 1..n /\ i <= n - m
      BY <1>1, <1>2, <1>3, <2>2
    <3>. QED BY <1>1, <2>2, <3>1
  <2>3. j <= n \/ j = n + 1
    BY <1>0, LastOrBefore
  <2>. QED BY <2>1, <2>2, <2>3
<1>5. CASE m < MaxCommandIds
  <2>1. commandIds' = Append(commandIds, k)
    BY <1>1, <1>5 DEF Remember
  <2>2. m = n /\ Len(commandIds') = n + 1
    BY <1>1, <1>5, <2>1
  <2>3. \A i \in 1..(n + 1) : commandIds'[i] = accepted'[i]
    <3>1. \A i \in 1..n : commandIds[i] = accepted[i]
      BY <1>1, <2>2
    <3>. QED BY <1>0, <1>2, <2>1, <2>2, <3>1
  <2>4. Window'
    BY <1>0, <1>2, <1>5, <2>2, <2>3 DEF Window
  <2>. QED BY <1>2, <1>4, <2>1, <2>4
<1>6. CASE m = MaxCommandIds
  <2>1. commandIds' = Tail(Append(commandIds, k))
    BY <1>1, <1>6 DEF Remember
  <2>2. /\ commandIds' \in Seq(Commands) /\ Len(commandIds') = m
        /\ \A i \in 1..(m - 1) : commandIds'[i] = commandIds[i + 1]
        /\ commandIds'[m] = k
    <3>1. m >= 1
      BY <1>1, <1>6
    <3>. QED BY <2>1, <3>1, Shifted
  <2>3. \A i \in 1..m : commandIds'[i] = accepted'[(n + 1) - m + i]
    <3> SUFFICES ASSUME NEW i \in 1..m
                 PROVE  commandIds'[i] = accepted'[(n + 1) - m + i]
      OBVIOUS
    <3>1. CASE i = m
      <4>1. (n + 1) - m + i = n + 1
        BY <1>0, <3>1
      <4>. QED BY <1>2, <2>2, <3>1, <4>1
    <3>2. CASE i < m
      <4>1. i \in 1..(m - 1) /\ i + 1 \in 1..m
        BY <1>1, <3>2
      <4>2. commandIds[i + 1] = accepted[n - m + (i + 1)]
        BY <1>1, <4>1
      <4>3. n - m + (i + 1) = (n + 1) - m + i /\ (n + 1) - m + i \in 1..n
        BY <1>1, <4>1
      <4>. QED BY <1>2, <2>2, <4>1, <4>2, <4>3
    <3>3. i = m \/ i < m
      BY <1>0
    <3>. QED BY <3>1, <3>2, <3>3
  <2>4. /\ Len(commandIds') <= MaxCommandIds
        /\ Len(commandIds') <= Len(accepted')
        /\ ~(Len(commandIds') < MaxCommandIds)
    BY <1>1, <1>2, <1>6, <2>2
  <2>5. Window'
    BY <1>2, <2>2, <2>3, <2>4 DEF Window
  <2>. QED BY <1>2, <1>4, <2>2, <2>5
<1>. QED BY <1>1, <1>5, <1>6

LEMMA WindowStep ==
  ASSUME WindowInv, BoundsAssumption, [Next]_vars
  PROVE  WindowInv'
<1>1. CASE UNCHANGED <<registered, commandIds, accepted>>
  BY <1>1 DEF WindowInv, Window, NoReplayWithinWindow
<1>2. CASE Unregister
  BY <1>2 DEF Unregister, WindowInv, NoReplayWithinWindow, historyVars
<1>3. ASSUME NEW c \in Connections, NEW fence \in Fence, AcceptFenced(c, fence),
             registered, registered' = registered
      PROVE  WindowInv'
  <2>1. fence.command \in Commands
    BY DEF Fence
  <2>2. /\ ~Remembered(fence.command)
        /\ commandIds' = Remember(fence.command)
        /\ accepted' = Append(accepted, fence.command)
    BY <1>3 DEF AcceptFenced, Authorized
  <2>3. Window
    BY <1>3 DEF WindowInv
  <2>4. /\ commandIds' \in Seq(Commands) /\ accepted' \in Seq(Commands)
        /\ Window' /\ NoReplayWithinWindow'
    BY <2>1, <2>2, <2>3, AcceptKeepsWindow DEF WindowInv
  <2>. QED BY <2>4 DEF WindowInv
<1>4. CASE UNCHANGED vars
  BY <1>1, <1>4 DEF vars, historyVars
<1>. QED
  BY <1>1, <1>2, <1>3, <1>4
  DEF Next, AcquireLease, Renew, Release, ReleaseConnection, Takeover, Transfer,
      MutateFenced, RejectFenced, MutateUnfenced, AuthorizeUnfenced, ListLeases,
      SetClock, historyVars

\* A command id is never accepted twice within MAX_COMMAND_IDS acceptances.
THEOREM CommandsOnce == Spec => []NoReplayWithinWindow
<1>1. Init => WindowInv
  BY BoundsAssumption DEF Init, WindowInv, Window, NoReplayWithinWindow, BoundsAssumption
<1>2. WindowInv /\ [Next]_vars => WindowInv'
  BY WindowStep, BoundsAssumption
<1>3. WindowInv => NoReplayWithinWindow
  BY DEF WindowInv
<1>. QED BY <1>1, <1>2, <1>3, PTL DEF Spec

-----------------------------------------------------------------------------
(* Paired devices: a code pairs one device, a challenge has one heir, the maps keep *)
(* to their limits and a revoked device is not served.                            *)

-----------------------------------------------------------------------------
(* Queues of keys.                                                              *)

LEMMA LeastOf ==
  ASSUME NEW S \in SUBSET Nat, S # {}
  PROVE  Min(S) \in S /\ \A y \in S : Min(S) <= y
<1>. DEFINE Lower == OpToRel(<, Nat)
<1>1. IsWellFoundedOn(Lower, Nat)
  BY NatLessThanWellFounded
<1>2. PICK n \in S : \A k \in S : ~(<<k, n>> \in Lower)
  <2>. HIDE DEF Lower
  <2>. QED BY <1>1, WFMin
<1>3. \A k \in S : ~(k < n)
  BY <1>2 DEF OpToRel
<1>4. \A k \in S : n <= k
  BY <1>3
<1>. QED BY <1>4 DEF Min

LEMMA QueueFinite ==
  ASSUME NEW T, NEW order \in Seq(T)
  PROVE  IsFiniteSet(ToSet(order))
<1>. DEFINE f == [i \in 1..Len(order) |-> order[i]]
<1>1. Len(order) \in Nat /\ DOMAIN order = 1..Len(order)
  OBVIOUS
<1>2. f \in Surjection(1..Len(order), ToSet(order))
  BY <1>1 DEF Surjection, ToSet
<1>3. IsFiniteSet(1..Len(order))
  BY <1>1, FS_Interval
<1>. HIDE DEF f
<1>. QED BY <1>2, <1>3, FS_Surjection

LEMMA AppendToSet ==
  ASSUME NEW T, NEW order \in Seq(T), NEW e \in T
  PROVE  Append(order, e) \in Seq(T) /\ ToSet(Append(order, e)) = ToSet(order) \cup {e}
<1>1. Len(order) \in Nat /\ DOMAIN order = 1..Len(order)
  OBVIOUS
<1>2. /\ Append(order, e) \in Seq(T) /\ Len(Append(order, e)) = Len(order) + 1
      /\ DOMAIN Append(order, e) = 1..Len(order) + 1
      /\ \A i \in 1..Len(order) : Append(order, e)[i] = order[i]
      /\ Append(order, e)[Len(order) + 1] = e
  BY AppendProperties
<1>3. 1..Len(order) + 1 = (1..Len(order)) \cup {Len(order) + 1}
  BY <1>1
<1>4. ToSet(Append(order, e)) = {Append(order, e)[i] : i \in (1..Len(order)) \cup {Len(order) + 1}}
  BY <1>2, <1>3 DEF ToSet
<1>. QED BY <1>1, <1>2, <1>4 DEF ToSet

(* Dropping stops where few enough keys are left, and the rest of the queue names *)
(* them all.                                                                    *)
LEMMA DropsEnough ==
  ASSUME NEW T, NEW order \in Seq(T), NEW keys, keys \subseteq ToSet(order), NEW max \in Nat
  PROVE  LET n == Drops(order, keys, max) IN
         /\ n \in 0..Len(order)
         /\ IsFiniteSet(keys \ Dropped(order, n)) /\ Cardinality(keys \ Dropped(order, n)) <= max
         /\ keys \ Dropped(order, n) \subseteq ToSet(After(order, n))
         /\ After(order, n) \in Seq(T)
<1>. DEFINE n == Drops(order, keys, max)
            enough == {k \in 0..Len(order) : Cardinality(keys \ {order[i] : i \in 1..k}) <= max}
<1>1. Len(order) \in Nat /\ DOMAIN order = 1..Len(order)
  OBVIOUS
<1>2. keys \ {order[i] : i \in 1..Len(order)} = {}
  BY <1>1 DEF ToSet
<1>3. Len(order) \in enough
  <2>1. Cardinality(keys \ {order[i] : i \in 1..Len(order)}) = 0
    BY <1>2, FS_EmptySet
  <2>. QED BY <1>1, <2>1
<1>4. n = Min(enough)
  BY <1>3 DEF Drops
<1>5. enough \subseteq Nat
  BY <1>1
<1>6. n \in enough
  <2>. HIDE DEF n, enough
  <2>. QED BY <1>3, <1>4, <1>5, LeastOf
<1>7. n \in 0..Len(order) /\ Cardinality(keys \ Dropped(order, n)) <= max
  <2>. HIDE DEF n
  <2>. QED BY <1>6 DEF Dropped
<1>. HIDE DEF n, enough
<1>8. IsFiniteSet(keys \ Dropped(order, n))
  <2>1. keys \ Dropped(order, n) \in SUBSET ToSet(order)
    OBVIOUS
  <2>. QED BY <2>1, QueueFinite, FS_Subset
<1>9. After(order, n) \in Seq(T)
  BY <1>1, <1>7 DEF After
<1>10. keys \ Dropped(order, n) \subseteq ToSet(After(order, n))
  <2>. SUFFICES ASSUME NEW x \in keys \ Dropped(order, n) PROVE x \in ToSet(After(order, n))
    OBVIOUS
  <2>1. PICK i \in 1..Len(order) : order[i] = x
    BY <1>1 DEF ToSet
  <2>2. ~(i <= n)
    BY <1>7, <2>1 DEF Dropped
  <2>3. /\ i - n \in 1..Len(order) - n
        /\ After(order, n)[i - n] = order[i]
        /\ Len(After(order, n)) = Len(order) - n
    <3>1. i \in Nat /\ n \in Nat /\ i > n /\ i <= Len(order)
      BY <1>1, <1>7, <2>1, <2>2
    <3>2. /\ Len(SubSeq(order, n + 1, Len(order))) = Len(order) - n
          /\ \A j \in 1..Len(order) - n : SubSeq(order, n + 1, Len(order))[j] = order[j + n]
      <4>1. n + 1 \in 1..Len(order) + 1 /\ Len(order) \in (n + 1) - 1..Len(order)
        BY <1>1, <3>1
      <4>2. /\ Len(SubSeq(order, n + 1, Len(order))) = (Len(order) - (n + 1)) + 1
            /\ \A j \in 1..(Len(order) - (n + 1)) + 1 : SubSeq(order, n + 1, Len(order))[j] = order[(n + 1) + j - 1]
        BY <4>1, SubSeqProperties
      <4>3. (Len(order) - (n + 1)) + 1 = Len(order) - n /\ \A j \in Nat : (n + 1) + j - 1 = j + n
        BY <1>1, <3>1
      <4>4. ASSUME NEW j \in 1..Len(order) - n
            PROVE  SubSeq(order, n + 1, Len(order))[j] = order[j + n]
        <5>1. j \in 1..(Len(order) - (n + 1)) + 1 /\ j \in Nat
          BY <4>3
        <5>2. SubSeq(order, n + 1, Len(order))[j] = order[(n + 1) + j - 1]
          BY ONLY <4>2, <5>1
        <5>. QED BY ONLY <4>3, <5>1, <5>2
      <4>5. Len(SubSeq(order, n + 1, Len(order))) = Len(order) - n
        BY ONLY <4>2, <4>3
      <4>. QED BY <4>4, <4>5
    <3>3. i - n \in 1..Len(order) - n /\ (i - n) + n = i
      BY <1>1, <3>1
    <3>. QED BY <3>2, <3>3 DEF After
  <2>. QED BY <1>9, <2>1, <2>3 DEF ToSet
<1>. QED BY <1>7, <1>8, <1>9, <1>10 DEF n

(* Entries with keys of their own are as many as their keys.                     *)
LEMMA AsManyAsKeys ==
  ASSUME NEW S, NEW K, IsFiniteSet(K), NEW f \in [S -> K],
         \A x, y \in S : f[x] = f[y] => x = y
  PROVE  IsFiniteSet(S) /\ Cardinality(S) <= Cardinality(K)
<1>1. f \in Injection(S, K)
  BY DEF Injection, IsInjective
<1>. QED BY <1>1, FS_Injection

-----------------------------------------------------------------------------
(* The invariant.                                                               *)

Ops == {"pair", "challenge", "authenticate", "session", "rotate", "revoke"}
Ats == {"lookup", "consume", "insert", "issue", "take", "row", "open", "check", "remove", "retain"}
Request == [op : Ops, at : Ats, device : Devices, item : Nat, revoked : BOOLEAN]

MapTypes ==
    /\ challenges \in SUBSET [nonce : Nat, device : Devices] /\ challengeOrder \in Seq(Nat)
    /\ sessions \in SUBSET [token : Nat, device : Devices, root : Nat] /\ sessionOrder \in Seq(Nat)
    /\ failures \in [Keys -> Nat] /\ failureOrder \in Seq(Keys)
    /\ IsFiniteSet(challenges) /\ IsFiniteSet(sessions)
AuthTypes ==
    /\ code \in [Codes -> {"none", "offered", "used", "expired"}]
    /\ device \in [Devices -> [state : {"unknown", "paired", "revoked"}, code : Codes \cup {0}]]
    /\ MapTypes
    /\ handler \in [Handlers -> {Free} \cup Request]
    /\ issued \in [nonce : Nat, token : Nat]

(* A code that is being used, or was, is used up; one request and one device use *)
(* it.                                                                          *)
Pairs(h) == handler[h].op = "pair" /\ handler[h].at = "insert"
CodesSound ==
    /\ \A h \in Handlers : Before(h, "pair", "consume") => handler[h].item \in Codes
    /\ \A h \in Handlers : Pairs(h) => handler[h].item \in Codes /\ code[handler[h].item] = "used"
    /\ \A g, h \in Handlers : Pairs(g) /\ Pairs(h) /\ handler[g].item = handler[h].item => g = h
    /\ \A h \in Handlers, d \in Devices : Pairs(h) => device[d].code # handler[h].item
    /\ \A d \in Devices : device[d].code # 0 => code[device[d].code] = "used"
    /\ OneDevicePerCode

(* A challenge has one heir: itself, a request that took it or a token that came *)
(* of it, or the session.                                                       *)
Heir(h) ==
    \/ handler[h].op = "authenticate" /\ handler[h].at \in {"row", "open"}
    \/ handler[h].op = "rotate" /\ handler[h].at \in {"row", "insert"}
HeirsSound ==
    /\ \A x \in challenges : x.nonce <= issued.nonce
    /\ \A x \in sessions : x.token <= issued.token /\ x.root <= issued.nonce
    /\ \A h \in Handlers : Heir(h) => handler[h].item <= issued.nonce
    /\ \A x, y \in challenges : x.nonce = y.nonce => x = y
    /\ \A x, y \in sessions : x.token = y.token => x = y
    /\ OneHeir
    /\ \A g, h \in Handlers : Heir(g) /\ Heir(h) /\ handler[g].item = handler[h].item => g = h
    /\ \A h \in Handlers : Heir(h) => /\ \A x \in challenges : x.nonce # handler[h].item
                                      /\ \A x \in sessions : x.root # handler[h].item
    /\ \A x \in challenges, y \in sessions : x.nonce # y.root

(* Who may yet record a failure under a key has passed its limit.                *)
May(h, k) ==
    \/ k = "pair" /\ handler[h].op = "pair" /\ handler[h].at \in {"lookup", "consume"}
    \/ k = handler[h].device /\ handler[h].op = "authenticate" /\ handler[h].at \in {"take", "row"}
Waiting(k) == {h \in Handlers : May(h, k)}
FailuresCounted ==
    \A k \in Keys : failures[k] + Cardinality(Waiting(k)) <= FailureLimit + Cardinality(Handlers) - 1

RevokedKnown ==
    /\ \A h \in Handlers : handler[h].revoked => device[handler[h].device].state = "revoked"
    /\ ~late

AuthInv ==
    AuthTypes /\ CodesSound /\ HeirsSound /\ MapsBounded /\ FailuresCounted /\ RevokedKnown

-----------------------------------------------------------------------------
(* What the operations on the maps do.                                          *)

LEMMA AddChallengeKeeps ==
  ASSUME DeviceLimits, MapTypes, issued \in [nonce : Nat, token : Nat],
         \A x \in challenges : x.nonce <= issued.nonce /\ x.nonce \in ToSet(challengeOrder),
         \A x, y \in challenges : x.nonce = y.nonce => x = y,
         NEW d \in Devices, AddChallenge(d)
  PROVE  LET new == [nonce |-> issued.nonce + 1, device |-> d] IN
         /\ issued' = [nonce |-> issued.nonce + 1, token |-> issued.token]
         /\ challenges' \subseteq challenges \cup {new}
         /\ challengeOrder' \in Seq(Nat)
         /\ IsFiniteSet(challenges')
         /\ Cardinality(challenges') <= MaxChallenges
         /\ \A x \in challenges' : x.nonce \in ToSet(challengeOrder')
<1>. DEFINE n == issued.nonce + 1
            new == [nonce |-> n, device |-> d]
            all == challenges \cup {new}
            order == Append(challengeOrder, n)
            keys == {x.nonce : x \in all}
            k == Drops(order, keys, MaxChallenges)
<1>1. /\ issued' = [issued EXCEPT !.nonce = n]
      /\ challenges' = {x \in all : x.nonce \notin Dropped(order, k)}
      /\ challengeOrder' = After(order, k)
  BY DEF AddChallenge
<1>2. n \in Nat /\ order \in Seq(Nat) /\ ToSet(order) = ToSet(challengeOrder) \cup {n}
  <2>1. n \in Nat /\ challengeOrder \in Seq(Nat)
    BY DEF MapTypes
  <2>. HIDE DEF n
  <2>. QED BY <2>1, AppendToSet
<1>3. keys \subseteq ToSet(order)
  BY <1>2
<1>4. MaxChallenges \in Nat
  BY DEF DeviceLimits
<1>5. \A x, y \in all : x.nonce = y.nonce => x = y
  BY DEF MapTypes
<1>. HIDE DEF n, all, order, keys, k
<1>6. /\ IsFiniteSet(keys \ Dropped(order, k)) /\ Cardinality(keys \ Dropped(order, k)) <= MaxChallenges
      /\ keys \ Dropped(order, k) \subseteq ToSet(After(order, k))
      /\ After(order, k) \in Seq(Nat)
  BY <1>2, <1>3, <1>4, DropsEnough DEF k
<1>. DEFINE f == [x \in challenges' |-> x.nonce]
<1>7. f \in [challenges' -> keys \ Dropped(order, k)]
  BY <1>1 DEF keys
<1>8. \A x, y \in challenges' : f[x] = f[y] => x = y
  BY <1>1, <1>5
<1>. HIDE DEF f
<1>9. IsFiniteSet(challenges') /\ Cardinality(challenges') <= Cardinality(keys \ Dropped(order, k))
  BY <1>6, <1>7, <1>8, AsManyAsKeys
<1>10. Cardinality(challenges') <= MaxChallenges
  BY <1>4, <1>6, <1>9, FS_CardinalityType
<1>11. \A x \in challenges' : x.nonce \in ToSet(challengeOrder')
  BY <1>1, <1>6 DEF keys
<1>. QED BY <1>1, <1>6, <1>9, <1>10, <1>11 DEF all, n, new

LEMMA AddSessionKeeps ==
  ASSUME DeviceLimits, MapTypes, issued \in [nonce : Nat, token : Nat],
         \A x \in sessions : x.token <= issued.token /\ x.token \in ToSet(sessionOrder),
         \A x, y \in sessions : x.token = y.token => x = y,
         NEW d \in Devices, NEW root \in Nat, AddSession(d, root)
  PROVE  LET new == [token |-> issued.token + 1, device |-> d, root |-> root] IN
         /\ issued' = [nonce |-> issued.nonce, token |-> issued.token + 1]
         /\ sessions' \subseteq sessions \cup {new}
         /\ sessionOrder' \in Seq(Nat)
         /\ IsFiniteSet(sessions')
         /\ Cardinality(sessions') <= MaxDeviceSessions
         /\ \A x \in sessions' : x.token \in ToSet(sessionOrder')
<1>. DEFINE t == issued.token + 1
            new == [token |-> t, device |-> d, root |-> root]
            all == sessions \cup {new}
            order == Append(sessionOrder, t)
            keys == {x.token : x \in all}
            k == Drops(order, keys, MaxDeviceSessions)
<1>1. /\ issued' = [issued EXCEPT !.token = t]
      /\ sessions' = {x \in all : x.token \notin Dropped(order, k)}
      /\ sessionOrder' = After(order, k)
  BY DEF AddSession
<1>2. t \in Nat /\ order \in Seq(Nat) /\ ToSet(order) = ToSet(sessionOrder) \cup {t}
  <2>1. t \in Nat /\ sessionOrder \in Seq(Nat)
    BY DEF MapTypes
  <2>. HIDE DEF t
  <2>. QED BY <2>1, AppendToSet
<1>3. keys \subseteq ToSet(order)
  BY <1>2
<1>4. MaxDeviceSessions \in Nat
  BY DEF DeviceLimits
<1>5. \A x, y \in all : x.token = y.token => x = y
  BY DEF MapTypes
<1>. HIDE DEF t, all, order, keys, k
<1>6. /\ IsFiniteSet(keys \ Dropped(order, k)) /\ Cardinality(keys \ Dropped(order, k)) <= MaxDeviceSessions
      /\ keys \ Dropped(order, k) \subseteq ToSet(After(order, k))
      /\ After(order, k) \in Seq(Nat)
  BY <1>2, <1>3, <1>4, DropsEnough DEF k
<1>. DEFINE f == [x \in sessions' |-> x.token]
<1>7. f \in [sessions' -> keys \ Dropped(order, k)]
  BY <1>1 DEF keys
<1>8. \A x, y \in sessions' : f[x] = f[y] => x = y
  BY <1>1, <1>5
<1>. HIDE DEF f
<1>9. IsFiniteSet(sessions') /\ Cardinality(sessions') <= Cardinality(keys \ Dropped(order, k))
  BY <1>6, <1>7, <1>8, AsManyAsKeys
<1>10. Cardinality(sessions') <= MaxDeviceSessions
  BY <1>4, <1>6, <1>9, FS_CardinalityType
<1>11. \A x \in sessions' : x.token \in ToSet(sessionOrder')
  BY <1>1, <1>6 DEF keys
<1>. QED BY <1>1, <1>6, <1>9, <1>10, <1>11 DEF all, t, new

(* The clean-up of the failures ends, and at the limit.                          *)
LEMMA RecordFailureKeeps ==
  ASSUME DeviceLimits, MapTypes, \A x \in Keys : failures[x] > 0 => x \in ToSet(failureOrder), ~spins,
         NEW k \in Keys, RecordFailure(k)
  PROVE  /\ failures' \in [Keys -> Nat] /\ failureOrder' \in Seq(Keys)
         /\ \A x \in Keys : failures'[x] > 0 => x \in ToSet(failureOrder')
         /\ \A x \in Keys : failures'[x] <= IF x = k THEN failures[x] + 1 ELSE failures[x]
         /\ ~spins'
<1>. DEFINE count == [failures EXCEPT ![k] = @ + 1]
            order == Append(failureOrder, k)
            keys == {x \in Keys : count[x] > 0}
            n == Drops(order, keys, MaxFailureKeys)
            left == [x \in Keys |-> IF x \in Dropped(order, n) THEN 0 ELSE count[x]]
<1>1. /\ failures' = left /\ failureOrder' = After(order, n)
      /\ spins' = (spins \/ Cardinality({x \in Keys : left[x] > 0}) > MaxFailureKeys)
  BY DEF RecordFailure
<1>2. order \in Seq(Keys) /\ ToSet(order) = ToSet(failureOrder) \cup {k}
  BY AppendToSet DEF MapTypes
<1>3. count \in [Keys -> Nat] /\ \A x \in Keys : count[x] = IF x = k THEN failures[x] + 1 ELSE failures[x]
  BY DEF MapTypes
<1>4. keys \subseteq ToSet(order)
  BY <1>2, <1>3
<1>5. MaxFailureKeys \in Nat
  BY DEF DeviceLimits
<1>. HIDE DEF order, keys, n, count
<1>6. /\ IsFiniteSet(keys \ Dropped(order, n)) /\ Cardinality(keys \ Dropped(order, n)) <= MaxFailureKeys
      /\ keys \ Dropped(order, n) \subseteq ToSet(After(order, n))
      /\ After(order, n) \in Seq(Keys)
  BY <1>2, <1>4, <1>5, DropsEnough DEF n
<1>7. {x \in Keys : left[x] > 0} = keys \ Dropped(order, n)
  BY <1>3 DEF keys
<1>8. left \in [Keys -> Nat] /\ \A x \in Keys : left[x] <= count[x]
  BY <1>3
<1>9. ~(Cardinality({x \in Keys : left[x] > 0}) > MaxFailureKeys)
  <2>1. Cardinality(keys \ Dropped(order, n)) \in Nat
    BY <1>6, FS_CardinalityType
  <2>. DEFINE positive == {x \in Keys : left[x] > 0}
              rest == keys \ Dropped(order, n)
  <2>2. positive = rest
    BY <1>7
  <2>3. Cardinality(rest) <= MaxFailureKeys /\ Cardinality(rest) \in Nat
    BY <1>6, <2>1
  <2>. HIDE DEF positive, rest
  <2>4. ~(Cardinality(positive) > MaxFailureKeys)
    BY <1>5, <2>2, <2>3
  <2>. QED BY <2>4 DEF positive
<1>. HIDE DEF left
<1>10. \A x \in Keys : failures'[x] > 0 => x \in ToSet(failureOrder')
  BY <1>1, <1>6, <1>7
<1>11. \A x \in Keys : failures'[x] <= IF x = k THEN failures[x] + 1 ELSE failures[x]
  BY <1>1, <1>3, <1>8
<1>. QED BY <1>1, <1>6, <1>8, <1>9, <1>10, <1>11

(* A handler that is busy has a request; what a step leaves it with.             *)
LEMMA Busy ==
  ASSUME AuthTypes, NEW h \in Handlers, handler[h].op # "none" \/ handler[h].at # "idle" \/ handler[h] # Free
  PROVE  handler[h] \in Request /\ handler[h] # Free /\ handler[h].device \in Devices /\ handler[h].device \in Keys
BY DEF AuthTypes, Free, Request, Keys

Others(h) == \A g \in Handlers \ {h} : handler'[g] = handler[g]

LEMMA Ends ==
  ASSUME AuthTypes, NEW h \in Handlers, End(h)
  PROVE  handler' \in [Handlers -> {Free} \cup Request] /\ handler'[h] = Free /\ Others(h)
BY DEF AuthTypes, End, Others

LEMMA Goes ==
  ASSUME AuthTypes, NEW h \in Handlers, handler[h].op # "none" \/ handler[h].at # "idle", NEW at \in Ats, Goto(h, at)
  PROVE  /\ handler' \in [Handlers -> {Free} \cup Request] /\ Others(h)
         /\ handler'[h] = [op |-> handler[h].op, at |-> at, device |-> handler[h].device,
                           item |-> handler[h].item, revoked |-> handler[h].revoked]
<1>1. handler[h] \in Request /\ handler[h] # Free
  BY Busy
<1>2. handler'[h] = [handler[h] EXCEPT !.at = at] /\ Others(h) /\ DOMAIN handler' = Handlers
  BY DEF AuthTypes, Goto, Others
<1>3. handler'[h] = [op |-> handler[h].op, at |-> at, device |-> handler[h].device,
                     item |-> handler[h].item, revoked |-> handler[h].revoked]
  BY <1>1, <1>2 DEF Request
<1>4. handler'[h] \in Request
  BY <1>1, <1>3 DEF Request
<1>5. handler' \in [Handlers -> {Free} \cup Request]
  BY <1>4 DEF AuthTypes, Goto
<1>. QED BY <1>2, <1>3, <1>5

LEMMA Begins ==
  ASSUME AuthTypes, NEW h \in Handlers, NEW op \in Ops, NEW at \in Ats \cup {"idle"}, NEW d, NEW item \in Nat,
         at # "idle" => d \in Devices, Begin(h, op, at, d, item)
  PROVE  /\ handler[h] = Free
         /\ handler' \in [Handlers -> {Free} \cup Request] /\ Others(h)
         /\ handler'[h] = IF at = "idle" THEN Free
                          ELSE [op |-> op, at |-> at, device |-> d, item |-> item,
                                revoked |-> device[d].state = "revoked"]
<1>1. handler[h] = Free
  BY DEF Begin
<1>2. CASE at = "idle"
  BY <1>1, <1>2 DEF Begin, AuthTypes, Others
<1>3. CASE at # "idle"
  <2>. DEFINE r == [op |-> op, at |-> at, device |-> d, item |-> item,
                    revoked |-> d \in Devices /\ device[d].state = "revoked"]
  <2>1. handler' = [handler EXCEPT ![h] = r]
    BY <1>3 DEF Begin
  <2>2. r \in Request /\ r = [op |-> op, at |-> at, device |-> d, item |-> item,
                              revoked |-> device[d].state = "revoked"]
    BY <1>3 DEF Request
  <2>. HIDE DEF r
  <2>. QED BY <1>1, <1>3, <2>1, <2>2 DEF AuthTypes, Others
<1>. QED BY <1>2, <1>3

-----------------------------------------------------------------------------
(* What of the invariant a step keeps that does little.                          *)

LEMMA CodesKept ==
  ASSUME CodesSound, UNCHANGED <<code, device>>, NEW h \in Handlers, Others(h),
         handler'[h].op # "pair" \/ handler'[h].at \notin {"consume", "insert"}
  PROVE  CodesSound'
BY DEF CodesSound, Pairs, Before, Others, OneDevicePerCode

LEMMA HeirsKept ==
  ASSUME AuthTypes, HeirsSound, challenges' \subseteq challenges, sessions' \subseteq sessions, UNCHANGED issued,
         NEW h \in Handlers, Others(h), Heir(h)' => Heir(h) /\ handler'[h].item = handler[h].item
  PROVE  HeirsSound'
<1>1. \A g \in Handlers : Heir(g)' => Heir(g) /\ handler'[g].item = handler[g].item
  BY DEF Others, Heir
<1>. HIDE DEF Others
<1>2. /\ \A x \in challenges' : x.nonce <= issued'.nonce
      /\ \A x \in sessions' : x.token <= issued'.token /\ x.root <= issued'.nonce
      /\ \A x, y \in challenges' : x.nonce = y.nonce => x = y
      /\ \A x, y \in sessions' : x.token = y.token => x = y
      /\ OneHeir'
      /\ \A x \in challenges', y \in sessions' : x.nonce # y.root
  BY DEF HeirsSound, OneHeir
<1>3. /\ \A g \in Handlers : Heir(g)' => handler'[g].item <= issued'.nonce
      /\ \A f, g \in Handlers : Heir(f)' /\ Heir(g)' /\ handler'[f].item = handler'[g].item => f = g
      /\ \A g \in Handlers : Heir(g)' => /\ \A x \in challenges' : x.nonce # handler'[g].item
                                         /\ \A x \in sessions' : x.root # handler'[g].item
  BY <1>1 DEF HeirsSound
<1>. QED BY <1>2, <1>3 DEF HeirsSound

LEMMA MapsShrink ==
  ASSUME DeviceLimits, AuthTypes, MapsBounded, challenges' \subseteq challenges, sessions' \subseteq sessions,
         UNCHANGED <<challengeOrder, sessionOrder>>
  PROVE  /\ challenges' \in SUBSET [nonce : Nat, device : Devices] /\ IsFiniteSet(challenges')
         /\ sessions' \in SUBSET [token : Nat, device : Devices, root : Nat] /\ IsFiniteSet(sessions')
         /\ Cardinality(challenges') <= MaxChallenges /\ Cardinality(sessions') <= MaxDeviceSessions
         /\ \A x \in challenges' : x.nonce \in ToSet(challengeOrder')
         /\ \A x \in sessions' : x.token \in ToSet(sessionOrder')
<1>1. /\ IsFiniteSet(challenges') /\ Cardinality(challenges') <= Cardinality(challenges)
      /\ IsFiniteSet(sessions') /\ Cardinality(sessions') <= Cardinality(sessions)
  BY FS_Subset DEF AuthTypes, MapTypes
<1>2. Cardinality(challenges) \in Nat /\ Cardinality(challenges') \in Nat
      /\ Cardinality(sessions) \in Nat /\ Cardinality(sessions') \in Nat
  BY <1>1, FS_CardinalityType DEF AuthTypes, MapTypes
<1>3. MaxChallenges \in Nat /\ MaxDeviceSessions \in Nat
  BY DEF DeviceLimits
<1>4. Cardinality(challenges') <= MaxChallenges /\ Cardinality(sessions') <= MaxDeviceSessions
  BY <1>1, <1>2, <1>3 DEF MapsBounded
<1>5. /\ \A x \in challenges' : x.nonce \in ToSet(challengeOrder')
      /\ \A x \in sessions' : x.token \in ToSet(sessionOrder')
  BY DEF MapsBounded
<1>. QED BY <1>1, <1>4, <1>5 DEF AuthTypes, MapTypes

LEMMA MapsKept ==
  ASSUME DeviceLimits, AuthTypes, MapsBounded, challenges' \subseteq challenges, sessions' \subseteq sessions,
         failures' \in [Keys -> Nat], \A k \in Keys : failures'[k] <= failures[k],
         UNCHANGED <<challengeOrder, sessionOrder, failureOrder, spins>>
  PROVE  MapsBounded' /\ MapTypes'
<1>1. \A k \in Keys : failures'[k] > 0 => failures[k] > 0
  BY DEF AuthTypes, MapTypes
<1>2. \A k \in Keys : failures'[k] > 0 => k \in ToSet(failureOrder')
  BY <1>1 DEF MapsBounded
<1>. QED BY <1>2, MapsShrink DEF AuthTypes, MapTypes, MapsBounded

LEMMA WaitingFinite ==
  ASSUME DeviceLimits, NEW k
  PROVE  /\ IsFiniteSet(Waiting(k)) /\ Cardinality(Waiting(k)) \in Nat
         /\ Cardinality(Waiting(k)) <= Cardinality(Handlers) /\ Cardinality(Handlers) \in Nat
<1>1. Waiting(k) \in SUBSET Handlers /\ IsFiniteSet(Handlers)
  BY DEF Waiting, DeviceLimits
<1>. QED BY <1>1, FS_Subset, FS_CardinalityType

LEMMA FewerWait ==
  ASSUME DeviceLimits, NEW k, NEW h \in Handlers, Others(h), May(h, k)' => May(h, k)
  PROVE  /\ Cardinality(Waiting(k)') <= Cardinality(Waiting(k))
         /\ Cardinality(Waiting(k)') \in Nat /\ Cardinality(Waiting(k)) \in Nat
         /\ May(h, k) /\ ~May(h, k)' => Cardinality(Waiting(k)') + 1 <= Cardinality(Waiting(k))
<1>1. IsFiniteSet(Waiting(k)) /\ Cardinality(Waiting(k)) \in Nat
  BY WaitingFinite
<1>2. Waiting(k)' \in SUBSET Waiting(k)
  BY DEF Waiting, Others, May
<1>3. IsFiniteSet(Waiting(k)') /\ Cardinality(Waiting(k)') <= Cardinality(Waiting(k))
  BY <1>1, <1>2, FS_Subset
<1>4. ASSUME May(h, k), ~May(h, k)' PROVE Cardinality(Waiting(k)') + 1 <= Cardinality(Waiting(k))
  <2>1. h \in Waiting(k) /\ h \notin Waiting(k)'
    BY <1>4 DEF Waiting
  <2>. DEFINE was == Waiting(k)  is == Waiting(k)'
  <2>2. h \in was /\ h \notin is /\ is \subseteq was /\ IsFiniteSet(was) /\ IsFiniteSet(is)
    BY <1>1, <1>2, <1>3, <2>1
  <2>. HIDE DEF was, is
  <2>3. is # was /\ Cardinality(is) <= Cardinality(was) /\ (Cardinality(was) = Cardinality(is) => was = is)
    BY <2>2, FS_Subset
  <2>4. Cardinality(is) \in Nat /\ Cardinality(was) \in Nat
    BY <2>2, FS_CardinalityType
  <2>5. Cardinality(is) + 1 <= Cardinality(was)
    BY <2>3, <2>4
  <2>. QED BY <2>5 DEF was, is
<1>5. Cardinality(Waiting(k)') \in Nat
  BY <1>3, FS_CardinalityType
<1>. QED BY <1>1, <1>3, <1>4, <1>5

LEMMA CountKept ==
  ASSUME DeviceLimits, AuthTypes, FailuresCounted, failures' \in [Keys -> Nat],
         \A k \in Keys : failures'[k] <= failures[k],
         NEW h \in Handlers, Others(h), \A k \in Keys : May(h, k)' => May(h, k)
  PROVE  FailuresCounted'
<1>. SUFFICES ASSUME NEW k \in Keys
              PROVE  failures'[k] + Cardinality(Waiting(k)') <= FailureLimit + Cardinality(Handlers) - 1
  BY DEF FailuresCounted
<1>1. /\ Cardinality(Waiting(k)') <= Cardinality(Waiting(k))
      /\ Cardinality(Waiting(k)') \in Nat /\ Cardinality(Waiting(k)) \in Nat
  BY FewerWait
<1>2. failures[k] \in Nat /\ failures'[k] \in Nat /\ failures'[k] <= failures[k]
  BY DEF AuthTypes, MapTypes
<1>3. FailureLimit \in Nat /\ Cardinality(Handlers) \in Nat
  BY FS_CardinalityType DEF DeviceLimits
<1>4. failures[k] + Cardinality(Waiting(k)) <= FailureLimit + Cardinality(Handlers) - 1
  BY DEF FailuresCounted
<1>. QED BY <1>1, <1>2, <1>3, <1>4

(* A request that began under the limit is counted from then on.                 *)
LEMMA CountBegins ==
  ASSUME DeviceLimits, AuthTypes, FailuresCounted, UNCHANGED failures,
         NEW h \in Handlers, Others(h), \A k \in Keys : May(h, k)' => ~Limited(k)
  PROVE  FailuresCounted'
<1>. SUFFICES ASSUME NEW k \in Keys
              PROVE  failures'[k] + Cardinality(Waiting(k)') <= FailureLimit + Cardinality(Handlers) - 1
  BY DEF FailuresCounted
<1>1. CASE May(h, k)'
  <2>1. Waiting(k)' \in SUBSET Handlers /\ IsFiniteSet(Handlers)
    BY DEF Waiting, DeviceLimits
  <2>2. Cardinality(Waiting(k)') <= Cardinality(Handlers) /\ Cardinality(Waiting(k)') \in Nat
    BY <2>1, FS_Subset, FS_CardinalityType
  <2>3. FailureLimit \in Nat /\ Cardinality(Handlers) \in Nat /\ failures[k] \in Nat
    BY FS_CardinalityType DEF DeviceLimits, AuthTypes, MapTypes
  <2>4. ~(failures[k] >= FailureLimit)
    BY <1>1 DEF Limited
  <2>. QED BY <2>2, <2>3, <2>4
<1>2. CASE ~May(h, k)'
  <2>1. /\ Cardinality(Waiting(k)') <= Cardinality(Waiting(k))
        /\ Cardinality(Waiting(k)') \in Nat /\ Cardinality(Waiting(k)) \in Nat
    BY <1>2, FewerWait
  <2>2. FailureLimit \in Nat /\ Cardinality(Handlers) \in Nat /\ failures[k] \in Nat
    BY FS_CardinalityType DEF DeviceLimits, AuthTypes, MapTypes
  <2>3. failures[k] + Cardinality(Waiting(k)) <= FailureLimit + Cardinality(Handlers) - 1
    BY DEF FailuresCounted
  <2>. QED BY <2>1, <2>2, <2>3
<1>. QED BY <1>1, <1>2

(* A failure is recorded by a request that then is counted no more.              *)
LEMMA CountRecords ==
  ASSUME DeviceLimits, AuthTypes, FailuresCounted, failures' \in [Keys -> Nat],
         NEW f \in Keys, \A k \in Keys : failures'[k] <= IF k = f THEN failures[k] + 1 ELSE failures[k],
         NEW h \in Handlers, Others(h), handler'[h] = Free, May(h, f)
  PROVE  FailuresCounted'
<1>. SUFFICES ASSUME NEW k \in Keys
              PROVE  failures'[k] + Cardinality(Waiting(k)') <= FailureLimit + Cardinality(Handlers) - 1
  BY DEF FailuresCounted
<1>0. ~May(h, k)'
  BY DEF May, Free
<1>1. /\ Cardinality(Waiting(k)') <= Cardinality(Waiting(k))
      /\ Cardinality(Waiting(k)') \in Nat /\ Cardinality(Waiting(k)) \in Nat
      /\ k = f => Cardinality(Waiting(k)') + 1 <= Cardinality(Waiting(k))
  BY <1>0, FewerWait
<1>2. /\ failures[k] \in Nat /\ failures'[k] \in Nat
      /\ failures'[k] <= IF k = f THEN failures[k] + 1 ELSE failures[k]
  BY DEF AuthTypes, MapTypes
<1>3. FailureLimit \in Nat /\ Cardinality(Handlers) \in Nat
  BY FS_CardinalityType DEF DeviceLimits
<1>4. failures[k] + Cardinality(Waiting(k)) <= FailureLimit + Cardinality(Handlers) - 1
  BY DEF FailuresCounted
<1>. QED BY <1>1, <1>2, <1>3, <1>4

LEMMA RevokedKept ==
  ASSUME AuthTypes, RevokedKnown, ~late',
         \A d \in Devices : device[d].state = "revoked" => device'[d].state = "revoked",
         NEW h \in Handlers, Others(h),
         \/ handler'[h] = Free
         \/ handler'[h].revoked => device'[handler'[h].device].state = "revoked"
  PROVE  RevokedKnown'
<1>. SUFFICES ASSUME NEW g \in Handlers, handler'[g].revoked
              PROVE  device'[handler'[g].device].state = "revoked"
  BY DEF RevokedKnown
<1>1. CASE g = h
  BY <1>1 DEF Free
<1>2. CASE g # h
  <2>1. handler'[g] = handler[g] /\ handler[g].revoked
    BY <1>2 DEF Others
  <2>2. handler[g].device \in Devices /\ device[handler[g].device].state = "revoked"
    BY <2>1 DEF RevokedKnown, AuthTypes, Free, Request
  <2>. QED BY <2>1, <2>2
<1>. QED BY <1>1, <1>2

LEMMA TypesKept ==
  ASSUME AuthTypes, MapTypes', UNCHANGED <<code, device>>,
         handler' \in [Handlers -> {Free} \cup Request], issued' \in [nonce : Nat, token : Nat]
  PROVE  AuthTypes'
BY DEF AuthTypes, Codes

(* A step of a request that gives nothing to anybody.                            *)
LEMMA Moves ==
  ASSUME DeviceLimits, AuthInv, UNCHANGED <<code, device, challengeOrder, sessionOrder, failureOrder, spins, issued>>,
         challenges' \subseteq challenges, sessions' \subseteq sessions,
         failures' \in [Keys -> Nat], \A k \in Keys : failures'[k] <= failures[k],
         NEW h \in Handlers, Others(h), handler' \in [Handlers -> {Free} \cup Request],
         CodesSound' \/ handler'[h].op # "pair" \/ handler'[h].at \notin {"consume", "insert"},
         HeirsSound' \/ (Heir(h)' => Heir(h) /\ handler'[h].item = handler[h].item),
         FailuresCounted', ~late',
         \/ handler'[h] = Free
         \/ handler'[h].revoked => device'[handler'[h].device].state = "revoked"
  PROVE  AuthInv'
<1>1. MapsBounded' /\ MapTypes'
  BY MapsKept DEF AuthInv
<1>2. AuthTypes'
  <2>1. issued' \in [nonce : Nat, token : Nat]
    BY DEF AuthInv, AuthTypes
  <2>. QED BY <1>1, <2>1, TypesKept DEF AuthInv
<1>3. CodesSound'
  BY CodesKept DEF AuthInv
<1>4. HeirsSound'
  BY HeirsKept DEF AuthInv
<1>5. RevokedKnown'
  BY RevokedKept DEF AuthInv
<1>. QED BY <1>1, <1>2, <1>3, <1>4, <1>5 DEF AuthInv

(* A request that fails and is counted.                                          *)
LEMMA Fails ==
  ASSUME DeviceLimits, AuthInv, UNCHANGED <<code, device, challengeOrder, sessions, sessionOrder, issued, late>>,
         challenges' \subseteq challenges,
         NEW h \in Handlers, NEW k \in Keys, May(h, k), End(h), RecordFailure(k)
  PROVE  AuthInv'
<1>0. AuthTypes /\ MapTypes /\ MapsBounded /\ ~spins /\ ~late
      /\ \A x \in Keys : failures[x] > 0 => x \in ToSet(failureOrder)
  BY DEF AuthInv, AuthTypes, MapsBounded, RevokedKnown
<1>1. handler' \in [Handlers -> {Free} \cup Request] /\ handler'[h] = Free /\ Others(h)
  BY <1>0, Ends
<1>2. /\ failures' \in [Keys -> Nat] /\ failureOrder' \in Seq(Keys)
      /\ \A x \in Keys : failures'[x] > 0 => x \in ToSet(failureOrder')
      /\ \A x \in Keys : failures'[x] <= IF x = k THEN failures[x] + 1 ELSE failures[x]
      /\ ~spins'
  BY <1>0, RecordFailureKeeps
<1>3. sessions' \subseteq sessions
  OBVIOUS
<1>4. MapsBounded' /\ MapTypes'
  BY <1>0, <1>2, <1>3, MapsShrink DEF MapTypes, MapsBounded
<1>5. AuthTypes'
  <2>1. issued' \in [nonce : Nat, token : Nat]
    BY <1>0 DEF AuthTypes
  <2>. QED BY <1>0, <1>1, <1>4, <2>1, TypesKept
<1>6. CodesSound'
  <2>1. handler'[h].op # "pair"
    BY <1>1 DEF Free
  <2>. QED BY <1>1, <2>1, CodesKept DEF AuthInv
<1>7. HeirsSound'
  <2>1. ~Heir(h)'
    BY <1>1 DEF Heir, Free
  <2>. QED BY <1>1, <1>3, <2>1, HeirsKept DEF AuthInv
<1>8. FailuresCounted'
  BY <1>0, <1>1, <1>2, CountRecords DEF AuthInv
<1>9. RevokedKnown'
  BY <1>0, <1>1, RevokedKept DEF AuthInv
<1>. QED BY <1>4, <1>5, <1>6, <1>7, <1>8, <1>9 DEF AuthInv

-----------------------------------------------------------------------------
(* The actions.                                                                 *)

LEMMA AuthInitially ==
  ASSUME DeviceLimits, AuthInit
  PROVE  AuthInv
<1>1. IsFiniteSet(challenges) /\ Cardinality(challenges) = 0 /\ IsFiniteSet(sessions) /\ Cardinality(sessions) = 0
  BY FS_EmptySet DEF AuthInit
<1>2. AuthTypes
  BY <1>1 DEF AuthInit, AuthTypes, MapTypes
<1>3. CodesSound
  BY DEF AuthInit, CodesSound, Before, Pairs, Free, OneDevicePerCode
<1>4. HeirsSound
  BY DEF AuthInit, HeirsSound, Heir, Free, OneHeir
<1>5. MapsBounded
  BY <1>1 DEF AuthInit, MapsBounded, DeviceLimits
<1>6. FailuresCounted
  <2>. SUFFICES ASSUME NEW k \in Keys
                PROVE  failures[k] + Cardinality(Waiting(k)) <= FailureLimit + Cardinality(Handlers) - 1
    BY DEF FailuresCounted
  <2>1. Waiting(k) = {}
    BY DEF Waiting, May, AuthInit, Free
  <2>2. Cardinality(Waiting(k)) = 0
    BY <2>1, FS_EmptySet
  <2>3. FailureLimit \in Nat \ {0} /\ Cardinality(Handlers) \in Nat
    BY FS_CardinalityType DEF DeviceLimits
  <2>. QED BY <2>2, <2>3 DEF AuthInit
<1>7. RevokedKnown
  BY DEF AuthInit, RevokedKnown, Free
<1>. QED BY <1>2, <1>3, <1>4, <1>5, <1>6, <1>7 DEF AuthInv

LEMMA CreatesCode ==
  ASSUME DeviceLimits, AuthInv, NEW c \in Codes, CreatePairingCode(c)
  PROVE  AuthInv'
<1>1. /\ code[c] = "none" /\ code' = [code EXCEPT ![c] = "offered"]
      /\ UNCHANGED <<device, maps, handler, issued, late, spins>>
  BY DEF CreatePairingCode
<1>2. AuthTypes'
  BY <1>1 DEF AuthInv, AuthTypes, MapTypes, maps
<1>3. CodesSound'
  <2>1. \A x \in Codes : code[x] = "used" => code'[x] = "used"
    BY <1>1 DEF AuthInv, AuthTypes
  <2>2. /\ \A h \in Handlers : Pairs(h)' = Pairs(h) /\ Before(h, "pair", "consume")' = Before(h, "pair", "consume")
        /\ UNCHANGED <<handler, device>>
    BY <1>1 DEF Pairs, Before
  <2>3. \A d \in Devices : device[d].code # 0 => device[d].code \in Codes
    BY DEF AuthInv, AuthTypes
  <2>. QED BY <2>1, <2>2, <2>3 DEF AuthInv, CodesSound, OneDevicePerCode
<1>4. HeirsSound'
  BY <1>1 DEF AuthInv, HeirsSound, Heir, OneHeir, maps
<1>5. MapsBounded'
  BY <1>1 DEF AuthInv, MapsBounded, maps
<1>6. FailuresCounted'
  BY <1>1 DEF AuthInv, FailuresCounted, Waiting, May, maps
<1>7. RevokedKnown'
  BY <1>1 DEF AuthInv, RevokedKnown
<1>. QED BY <1>2, <1>3, <1>4, <1>5, <1>6, <1>7 DEF AuthInv

(* A request that begins: under the limit, with no code and no challenge yet.    *)
LEMMA BeginsSoundly ==
  ASSUME DeviceLimits, AuthInv, UNCHANGED <<code, device, maps, issued, late, spins>>,
         NEW h \in Handlers, NEW op \in Ops, NEW at \in {"idle", "lookup", "issue", "take", "check"},
         NEW d, NEW item \in Nat, at # "idle" => d \in Devices,
         op = "pair" /\ at # "idle" => ~Limited("pair"),
         op = "authenticate" /\ at # "idle" => ~Limited(d),
         Begin(h, op, at, d, item)
  PROVE  AuthInv'
<1>1. /\ handler[h] = Free
      /\ handler' \in [Handlers -> {Free} \cup Request] /\ Others(h)
      /\ handler'[h] = IF at = "idle" THEN Free
                       ELSE [op |-> op, at |-> at, device |-> d, item |-> item,
                             revoked |-> device[d].state = "revoked"]
  <2>1. at \in Ats \cup {"idle"}
    BY DEF Ats
  <2>. QED BY <2>1, Begins DEF AuthInv
<1>2. handler'[h].op # "pair" \/ handler'[h].at \notin {"consume", "insert"}
  BY <1>1 DEF Free
<1>3. ~Heir(h)'
  BY <1>1 DEF Heir, Free
<1>4. \A k \in Keys : May(h, k)' => ~Limited(k)
  <2>1. CASE at = "idle"
    BY <1>1, <2>1 DEF May, Free
  <2>2. CASE at # "idle"
    <3>1. handler'[h].op = op /\ handler'[h].device = d
      BY <1>1, <2>2
    <3>. QED BY <2>2, <3>1 DEF May
  <2>. QED BY <2>1, <2>2
<1>5. FailuresCounted'
  BY <1>1, <1>4, CountBegins DEF AuthInv, maps
<1>6. handler'[h] = Free \/ (handler'[h].revoked => device'[handler'[h].device].state = "revoked")
  <2>1. CASE at # "idle"
    <3>1. handler'[h].revoked = (device[d].state = "revoked") /\ handler'[h].device = d
      BY <1>1, <2>1
    <3>. QED BY <3>1
  <2>. QED BY <1>1, <2>1
<1>7. ~late'
  BY DEF AuthInv, RevokedKnown
<1>8. failures' \in [Keys -> Nat] /\ \A k \in Keys : failures'[k] <= failures[k]
  BY DEF AuthInv, AuthTypes, MapTypes, maps
<1>9. /\ challenges' \subseteq challenges /\ sessions' \subseteq sessions
      /\ UNCHANGED <<code, device, challengeOrder, sessionOrder, failureOrder, spins, issued>>
  BY DEF maps
<1>. QED BY <1>1, <1>2, <1>3, <1>5, <1>6, <1>7, <1>8, <1>9, Moves

LEMMA PairBegins ==
  ASSUME DeviceLimits, AuthInv, NEW h \in Handlers, PairBegin(h)
  PROVE  AuthInv'
<1>1. PICK d \in Devices, c \in Codes \cup {0} :
        Begin(h, "pair", IF Limited("pair") THEN "idle" ELSE "lookup", d, c)
  BY DEF PairBegin
<1>2. UNCHANGED <<code, device, maps, issued, late, spins>>
  BY DEF PairBegin
<1>. DEFINE at == IF Limited("pair") THEN "idle" ELSE "lookup"
<1>3. at \in {"idle", "lookup", "issue", "take", "check"} /\ c \in Nat /\ "pair" \in Ops
      /\ (at # "idle" => ~Limited("pair"))
  BY DEF Codes, Ops
<1>4. Begin(h, "pair", at, d, c)
  BY <1>1
<1>. HIDE DEF at
<1>. QED BY <1>2, <1>3, <1>4, BeginsSoundly

LEMMA ChallengeBegins ==
  ASSUME DeviceLimits, AuthInv, NEW h \in Handlers, ChallengeBegin(h)
  PROVE  AuthInv'
<1>1. PICK d \in Devices :
        Begin(h, "challenge", IF device[d].state = "paired" THEN "issue" ELSE "idle", d, 0)
  BY DEF ChallengeBegin
<1>2. UNCHANGED <<code, device, maps, issued, late, spins>>
  BY DEF ChallengeBegin
<1>. DEFINE at == IF device[d].state = "paired" THEN "issue" ELSE "idle"
<1>3. at \in {"idle", "lookup", "issue", "take", "check"} /\ 0 \in Nat /\ "challenge" \in Ops
  BY DEF Ops
<1>4. Begin(h, "challenge", at, d, 0)
  BY <1>1
<1>. HIDE DEF at
<1>. QED BY <1>2, <1>3, <1>4, BeginsSoundly

LEMMA AuthenticateBegins ==
  ASSUME DeviceLimits, AuthInv, NEW h \in Handlers, AuthenticateBegin(h)
  PROVE  AuthInv'
<1>1. PICK d \in Devices, n \in 0..issued.nonce :
        Begin(h, "authenticate", IF Limited(d) THEN "idle" ELSE "take", d, n)
  BY DEF AuthenticateBegin
<1>2. UNCHANGED <<code, device, maps, issued, late, spins>>
  BY DEF AuthenticateBegin
<1>. DEFINE at == IF Limited(d) THEN "idle" ELSE "take"
<1>3. at \in {"idle", "lookup", "issue", "take", "check"} /\ n \in Nat /\ "authenticate" \in Ops
      /\ (at # "idle" => ~Limited(d))
  BY DEF Ops
<1>4. Begin(h, "authenticate", at, d, n)
  BY <1>1
<1>. HIDE DEF at
<1>. QED BY <1>2, <1>3, <1>4, BeginsSoundly

LEMMA SessionBegins ==
  ASSUME DeviceLimits, AuthInv, NEW h \in Handlers, SessionBegin(h)
  PROVE  AuthInv'
<1>1. PICK t \in 1..issued.token, op \in {"session", "rotate"} :
        \/ Begin(h, op, "idle", "none", t)
        \/ \E x \in {x \in sessions : x.token = t} : Begin(h, op, "check", x.device, t)
  BY DEF SessionBegin
<1>2. UNCHANGED <<code, device, maps, issued, late, spins>>
  BY DEF SessionBegin
<1>3. t \in Nat /\ op \in Ops /\ op # "pair" /\ op # "authenticate"
  BY DEF Ops, AuthInv, AuthTypes
<1>4. CASE Begin(h, op, "idle", "none", t)
  BY <1>2, <1>3, <1>4, BeginsSoundly
<1>5. CASE \E x \in {x \in sessions : x.token = t} : Begin(h, op, "check", x.device, t)
  <2>1. PICK x \in sessions : Begin(h, op, "check", x.device, t)
    BY <1>5
  <2>2. x.device \in Devices
    BY DEF AuthInv, AuthTypes, MapTypes
  <2>. QED BY <1>2, <1>3, <2>1, <2>2, BeginsSoundly
<1>. QED BY <1>1, <1>4, <1>5

(* A request that is over, having done no more than to take something away.      *)
LEMMA IsOver ==
  ASSUME DeviceLimits, AuthInv,
         UNCHANGED <<code, device, challenges, challengeOrder, sessionOrder, failures, failureOrder, spins, issued>>,
         sessions' \subseteq sessions, NEW h \in Handlers, End(h), ~late'
  PROVE  AuthInv'
<1>1. handler' \in [Handlers -> {Free} \cup Request] /\ handler'[h] = Free /\ Others(h)
  BY Ends DEF AuthInv
<1>2. handler'[h].op # "pair" /\ ~Heir(h)' /\ \A k \in Keys : ~May(h, k)'
  BY <1>1 DEF Heir, Free, May
<1>3. failures' \in [Keys -> Nat] /\ \A k \in Keys : failures'[k] <= failures[k]
  BY DEF AuthInv, AuthTypes, MapTypes
<1>4. FailuresCounted'
  BY <1>1, <1>2, <1>3, CountKept DEF AuthInv
<1>5. challenges' \subseteq challenges
  OBVIOUS
<1>. QED BY <1>1, <1>2, <1>3, <1>4, <1>5, Moves

(* A request that goes on.                                                       *)
LEMMA GoesOn ==
  ASSUME DeviceLimits, AuthInv,
         UNCHANGED <<code, device, challengeOrder, sessions, sessionOrder, failures, failureOrder, spins, issued>>,
         challenges' \subseteq challenges,
         NEW h \in Handlers, handler[h].op # "none", NEW at \in Ats, Goto(h, at),
         CodesSound' \/ handler[h].op # "pair", HeirsSound' \/ (Heir(h)' => Heir(h)),
         \A k \in Keys : May(h, k)' => May(h, k), ~late'
  PROVE  AuthInv'
<1>1. /\ handler' \in [Handlers -> {Free} \cup Request] /\ Others(h)
      /\ handler'[h] = [op |-> handler[h].op, at |-> at, device |-> handler[h].device,
                        item |-> handler[h].item, revoked |-> handler[h].revoked]
  BY Goes DEF AuthInv
<1>2. CodesSound' \/ handler'[h].op # "pair"
  BY <1>1
<1>3. HeirsSound' \/ (Heir(h)' => Heir(h) /\ handler'[h].item = handler[h].item)
  BY <1>1
<1>4. failures' \in [Keys -> Nat] /\ \A k \in Keys : failures'[k] <= failures[k]
  BY DEF AuthInv, AuthTypes, MapTypes
<1>5. FailuresCounted'
  BY <1>1, <1>4, CountKept DEF AuthInv
<1>6. handler'[h].revoked => device'[handler'[h].device].state = "revoked"
  <2>1. handler'[h].revoked = handler[h].revoked /\ handler'[h].device = handler[h].device
    BY <1>1
  <2>. QED BY <2>1 DEF AuthInv, RevokedKnown
<1>7. sessions' \subseteq sessions
  OBVIOUS
<1>. QED BY <1>1, <1>2, <1>3, <1>4, <1>5, <1>6, <1>7, Moves

LEMMA PairLooksUp ==
  ASSUME DeviceLimits, AuthInv, NEW h \in Handlers, PairLookup(h)
  PROVE  AuthInv'
<1>1. /\ handler[h].op = "pair" /\ handler[h].at = "lookup"
      /\ UNCHANGED <<code, device, challenges, challengeOrder, sessions, sessionOrder, issued, late>>
  BY DEF PairLookup, Before
<1>2. CASE handler[h].item \in Codes /\ code[handler[h].item] = "offered"
  <2>1. Goto(h, "consume") /\ UNCHANGED <<failures, failureOrder, spins>>
    BY <1>2 DEF PairLookup
  <2>2. "consume" \in Ats
    BY DEF Ats
  <2>3. /\ Others(h) /\ handler'[h].item = handler[h].item
        /\ handler'[h].op = "pair" /\ handler'[h].at = "consume" /\ handler'[h].device = handler[h].device
    <3>1. Others(h) /\ handler'[h] = [op |-> handler[h].op, at |-> "consume", device |-> handler[h].device,
                                      item |-> handler[h].item, revoked |-> handler[h].revoked]
      BY <1>1, <2>1, <2>2, Goes DEF AuthInv
    <3>. QED BY <1>1, <3>1
  <2>4. CodesSound'
    <3>1. /\ \A g \in Handlers : Pairs(g)' => Pairs(g) /\ handler'[g].item = handler[g].item
          /\ \A g \in Handlers : Before(g, "pair", "consume")' => handler'[g].item \in Codes
      BY <1>2, <2>3 DEF AuthInv, CodesSound, Pairs, Before, Others
    <3>. QED BY <1>1, <3>1 DEF AuthInv, CodesSound, OneDevicePerCode
  <2>5. ~Heir(h)' /\ \A k \in Keys : May(h, k)' => May(h, k)
    BY <1>1, <2>3 DEF Heir, May
  <2>6. ~late' /\ handler[h].op # "none"
    BY <1>1 DEF AuthInv, RevokedKnown
  <2>. QED BY <1>1, <2>1, <2>2, <2>4, <2>5, <2>6, GoesOn
<1>3. CASE ~(handler[h].item \in Codes /\ code[handler[h].item] = "offered")
  <2>1. End(h) /\ RecordFailure("pair")
    BY <1>3 DEF PairLookup
  <2>2. "pair" \in Keys /\ May(h, "pair")
    BY <1>1 DEF Keys, May
  <2>. QED BY <1>1, <2>1, <2>2, Fails
<1>. QED BY <1>2, <1>3

LEMMA PairConsumes ==
  ASSUME DeviceLimits, AuthInv, NEW h \in Handlers, PairConsume(h)
  PROVE  AuthInv'
<1>. DEFINE c == handler[h].item
<1>1. /\ handler[h].op = "pair" /\ handler[h].at = "consume" /\ c \in Codes
      /\ UNCHANGED <<device, challenges, challengeOrder, sessions, sessionOrder, issued, late>>
  BY DEF PairConsume, Before, AuthInv, CodesSound
<1>2. CASE code[c] = "offered"
  <2>1. code' = [code EXCEPT ![c] = "used"] /\ Goto(h, "insert") /\ UNCHANGED <<failures, failureOrder, spins>>
    BY <1>2 DEF PairConsume
  <2>2. "insert" \in Ats
    BY DEF Ats
  <2>3. /\ Others(h) /\ handler' \in [Handlers -> {Free} \cup Request]
        /\ handler'[h] = [op |-> handler[h].op, at |-> "insert", device |-> handler[h].device,
                          item |-> handler[h].item, revoked |-> handler[h].revoked]
    BY <1>1, <2>1, <2>2, Goes DEF AuthInv
  <2>4. /\ handler'[h].op = "pair" /\ handler'[h].at = "insert" /\ handler'[h].item = c
        /\ handler'[h].device = handler[h].device /\ handler'[h].revoked = handler[h].revoked
    BY <1>1, <2>3
  <2>5. /\ code' \in [Codes -> {"none", "offered", "used", "expired"}]
        /\ code'[c] = "used" /\ \A x \in Codes : code[x] = "used" => code'[x] = "used"
    BY <1>1, <2>1 DEF AuthInv, AuthTypes
  <2>6. AuthTypes'
    BY <1>1, <2>1, <2>3, <2>5 DEF AuthInv, AuthTypes, MapTypes
  <2>7. CodesSound'
    <3>1. \A g \in Handlers : Pairs(g)' => g = h \/ (g # h /\ Pairs(g) /\ handler'[g].item = handler[g].item)
      BY <2>3 DEF Pairs, Others
    <3>2. \A g \in Handlers : Pairs(g) => handler[g].item \in Codes /\ handler[g].item # c
      BY <1>2 DEF AuthInv, CodesSound
    <3>3. \A d \in Devices : device[d].code # c
      <4>. SUFFICES ASSUME NEW d \in Devices, device[d].code = c PROVE FALSE
        OBVIOUS
      <4>1. c # 0
        BY <1>1 DEF Codes
      <4>. QED BY <1>2, <4>1 DEF AuthInv, CodesSound
    <3>4. \A g \in Handlers : Before(g, "pair", "consume")' => Before(g, "pair", "consume") /\ handler'[g].item = handler[g].item
      BY <2>3, <2>4 DEF Before, Others
    <3>5. \A d \in Devices : device[d].code # 0 => device[d].code \in Codes
      BY DEF AuthInv, AuthTypes
    <3>. HIDE DEF c
    <3>6. \A g \in Handlers : Pairs(g)' => handler'[g].item \in Codes /\ code'[handler'[g].item] = "used"
      BY <1>1, <2>4, <2>5, <3>1 DEF AuthInv, CodesSound
    <3>7. \A f, g \in Handlers : Pairs(f)' /\ Pairs(g)' /\ handler'[f].item = handler'[g].item => f = g
      BY <2>4, <3>1, <3>2 DEF AuthInv, CodesSound
    <3>8. \A g \in Handlers, d \in Devices : Pairs(g)' => device'[d].code # handler'[g].item
      BY <1>1, <2>4, <3>1, <3>3 DEF AuthInv, CodesSound
    <3>9. \A g \in Handlers : Before(g, "pair", "consume")' => handler'[g].item \in Codes
      BY <3>4 DEF AuthInv, CodesSound
    <3>10. \A d \in Devices : device'[d].code # 0 => code'[device'[d].code] = "used"
      BY <1>1, <2>5, <3>5 DEF AuthInv, CodesSound
    <3>11. OneDevicePerCode'
      BY <1>1 DEF AuthInv, CodesSound, OneDevicePerCode
    <3>. QED BY <3>6, <3>7, <3>8, <3>9, <3>10, <3>11 DEF CodesSound
  <2>8. HeirsSound'
    <3>1. ~Heir(h)'
      BY <2>4 DEF Heir
    <3>. QED BY <1>1, <2>3, <3>1, HeirsKept DEF AuthInv
  <2>9. MapsBounded'
    BY <1>1, <2>1 DEF AuthInv, MapsBounded
  <2>10. FailuresCounted'
    <3>1. \A k \in Keys : ~May(h, k)'
      BY <2>4 DEF May
    <3>2. failures' \in [Keys -> Nat] /\ \A k \in Keys : failures'[k] <= failures[k]
      BY <2>1 DEF AuthInv, AuthTypes, MapTypes
    <3>. QED BY <2>3, <3>1, <3>2, CountKept DEF AuthInv
  <2>11. RevokedKnown'
    <3>1. handler'[h].revoked => device'[handler'[h].device].state = "revoked"
      BY <1>1, <2>4 DEF AuthInv, RevokedKnown
    <3>2. ~late' /\ \A d \in Devices : device[d].state = "revoked" => device'[d].state = "revoked"
      BY <1>1 DEF AuthInv, RevokedKnown
    <3>. QED BY <2>3, <3>1, <3>2, RevokedKept DEF AuthInv
  <2>. QED BY <2>6, <2>7, <2>8, <2>9, <2>10, <2>11 DEF AuthInv
<1>3. CASE code[c] # "offered"
  <2>1. End(h) /\ RecordFailure("pair") /\ UNCHANGED code
    BY <1>3 DEF PairConsume
  <2>2. "pair" \in Keys /\ May(h, "pair")
    BY <1>1 DEF Keys, May
  <2>. QED BY <1>1, <2>1, <2>2, Fails
<1>. QED BY <1>2, <1>3

LEMMA PairInserts ==
  ASSUME DeviceLimits, AuthInv, NEW h \in Handlers, PairInsert(h)
  PROVE  AuthInv'
<1>. DEFINE d == handler[h].device
            row == [state |-> "paired", code |-> handler[h].item]
<1>1. /\ handler[h].op = "pair" /\ handler[h].at = "insert" /\ End(h)
      /\ device' = IF device[d].state = "unknown" THEN [device EXCEPT ![d] = row] ELSE device
      /\ UNCHANGED <<code, challenges, challengeOrder, sessions, sessionOrder, failures, failureOrder,
                     issued, late, spins>>
  BY DEF PairInsert, Before, maps
<1>2. handler' \in [Handlers -> {Free} \cup Request] /\ handler'[h] = Free /\ Others(h)
  BY <1>1, Ends DEF AuthInv
<1>3. Pairs(h) /\ handler[h].item \in Codes /\ code[handler[h].item] = "used" /\ d \in Devices
  BY <1>1, Busy DEF AuthInv, CodesSound, Pairs
<1>4. /\ device' \in [Devices -> [state : {"unknown", "paired", "revoked"}, code : Codes \cup {0}]]
      /\ \A e \in Devices : \/ e # d /\ device'[e] = device[e]
                            \/ e = d /\ device'[d] = device[d]
                            \/ e = d /\ device'[d] = row /\ device[d].state = "unknown"
  BY <1>1, <1>3 DEF AuthInv, AuthTypes
<1>5. /\ row.code = handler[h].item
      /\ \A e \in Devices : \/ device'[e].code = device[e].code
                            \/ e = d /\ device'[d].code = handler[h].item
      /\ \A e \in Devices : device[e].state = "revoked" => device'[e].state = "revoked"
  BY <1>4
<1>6. AuthTypes'
  BY <1>1, <1>2, <1>4 DEF AuthInv, AuthTypes, MapTypes
<1>7. CodesSound'
  <2>1. \A g \in Handlers : Pairs(g)' => g # h /\ Pairs(g) /\ handler'[g].item = handler[g].item
    BY <1>2 DEF Pairs, Others, Free
  <2>2. \A g \in Handlers : Before(g, "pair", "consume")' => Before(g, "pair", "consume") /\ handler'[g].item = handler[g].item
    BY <1>2 DEF Before, Others, Free
  <2>. HIDE DEF d, row
  <2>3. \A g \in Handlers : Pairs(g)' => handler'[g].item \in Codes /\ code'[handler'[g].item] = "used"
    BY <1>1, <2>1 DEF AuthInv, CodesSound
  <2>4. \A f, g \in Handlers : Pairs(f)' /\ Pairs(g)' /\ handler'[f].item = handler'[g].item => f = g
    BY <2>1 DEF AuthInv, CodesSound
  <2>5. \A g \in Handlers : Before(g, "pair", "consume")' => handler'[g].item \in Codes
    BY <2>2 DEF AuthInv, CodesSound
  <2>6. \A g \in Handlers, e \in Devices : Pairs(g)' => device'[e].code # handler'[g].item
    BY <1>3, <1>5, <2>1 DEF AuthInv, CodesSound
  <2>7. \A e \in Devices : device'[e].code # 0 => code'[device'[e].code] = "used"
    BY <1>1, <1>3, <1>5 DEF AuthInv, CodesSound
  <2>8. OneDevicePerCode'
    <3>1. \A e \in Devices : device[e].code # handler[h].item
      BY <1>3 DEF AuthInv, CodesSound
    <3>. QED BY <1>5, <3>1 DEF AuthInv, CodesSound, OneDevicePerCode
  <2>. QED BY <2>3, <2>4, <2>5, <2>6, <2>7, <2>8 DEF CodesSound
<1>8. HeirsSound'
  <2>1. ~Heir(h)'
    BY <1>2 DEF Heir, Free
  <2>. QED BY <1>1, <1>2, <2>1, HeirsKept DEF AuthInv
<1>9. MapsBounded'
  BY <1>1 DEF AuthInv, MapsBounded
<1>10. FailuresCounted'
  <2>1. \A k \in Keys : ~May(h, k)'
    BY <1>2 DEF May, Free
  <2>2. failures' \in [Keys -> Nat] /\ \A k \in Keys : failures'[k] <= failures[k]
    BY <1>1 DEF AuthInv, AuthTypes, MapTypes
  <2>. QED BY <1>2, <2>1, <2>2, CountKept DEF AuthInv
<1>11. RevokedKnown'
  <2>1. ~late'
    BY <1>1 DEF AuthInv, RevokedKnown
  <2>. QED BY <1>2, <1>5, <2>1, RevokedKept DEF AuthInv
<1>. QED BY <1>6, <1>7, <1>8, <1>9, <1>10, <1>11 DEF AuthInv

LEMMA ChallengeIssues ==
  ASSUME DeviceLimits, AuthInv, NEW h \in Handlers, ChallengeIssue(h)
  PROVE  AuthInv'
<1>. DEFINE d == handler[h].device
            new == [nonce |-> issued.nonce + 1, device |-> d]
<1>1. /\ handler[h].op = "challenge" /\ AddChallenge(d) /\ End(h)
      /\ UNCHANGED <<code, device, sessions, sessionOrder, failures, failureOrder, late, spins>>
  BY DEF ChallengeIssue, Before
<1>2. d \in Devices /\ AuthTypes /\ MapTypes /\ issued \in [nonce : Nat, token : Nat]
  BY <1>1, Busy DEF AuthInv, AuthTypes
<1>3. handler' \in [Handlers -> {Free} \cup Request] /\ handler'[h] = Free /\ Others(h)
  BY <1>1, Ends DEF AuthInv
<1>4. /\ issued' = [nonce |-> issued.nonce + 1, token |-> issued.token]
      /\ challenges' \subseteq challenges \cup {new}
      /\ challengeOrder' \in Seq(Nat) /\ IsFiniteSet(challenges') /\ Cardinality(challenges') <= MaxChallenges
      /\ \A x \in challenges' : x.nonce \in ToSet(challengeOrder')
  <2>1. /\ \A x \in challenges : x.nonce <= issued.nonce /\ x.nonce \in ToSet(challengeOrder)
        /\ \A x, y \in challenges : x.nonce = y.nonce => x = y
    BY DEF AuthInv, HeirsSound, MapsBounded
  <2>. HIDE DEF d
  <2>. QED BY <1>1, <1>2, <2>1, AddChallengeKeeps
<1>5. /\ new \in [nonce : Nat, device : Devices] /\ new.nonce = issued.nonce + 1
      /\ issued' \in [nonce : Nat, token : Nat] /\ issued'.nonce = issued.nonce + 1 /\ issued'.token = issued.token
      /\ issued.nonce \in Nat
  BY <1>2, <1>4
<1>. HIDE DEF d, new
<1>6. MapTypes'
  BY <1>1, <1>2, <1>4, <1>5 DEF MapTypes
<1>7. AuthTypes'
  BY <1>1, <1>2, <1>3, <1>5, <1>6, TypesKept
<1>8. MapsBounded'
  BY <1>1, <1>4 DEF AuthInv, MapsBounded
<1>9. ~Heir(h)' /\ handler'[h].op # "pair" /\ \A k \in Keys : ~May(h, k)'
  BY <1>3 DEF Heir, Free, May
<1>10. CodesSound'
  BY <1>1, <1>3, <1>9, CodesKept DEF AuthInv
<1>11. HeirsSound'
  <2>1. \A g \in Handlers : Heir(g)' => Heir(g) /\ handler'[g].item = handler[g].item
    BY <1>3, <1>9 DEF Heir, Others
  <2>2. \A x \in challenges' : x \in challenges \/ x = new
    BY <1>4
  <2>3. /\ \A x \in challenges : x.nonce \in Nat /\ x.nonce # new.nonce
        /\ \A x \in sessions : x.root \in Nat /\ x.root # new.nonce
        /\ \A g \in Handlers : Heir(g) => handler[g].item \in Nat /\ handler[g].item # new.nonce
    <3>1. /\ \A x \in challenges : x.nonce \in Nat /\ x.nonce <= issued.nonce
          /\ \A x \in sessions : x.root \in Nat /\ x.root <= issued.nonce
      BY <1>2 DEF MapTypes, AuthInv, HeirsSound
    <3>2. \A g \in Handlers : Heir(g) => handler[g].item \in Nat /\ handler[g].item <= issued.nonce
      BY <1>2 DEF Heir, AuthTypes, Free, Request, AuthInv, HeirsSound
    <3>. QED BY <1>5, <3>1, <3>2
  <2>4. /\ \A x \in challenges' : x.nonce <= issued'.nonce
        /\ \A x \in sessions' : x.token <= issued'.token /\ x.root <= issued'.nonce
        /\ \A g \in Handlers : Heir(g)' => handler'[g].item <= issued'.nonce
    <3>1. \A x \in challenges' : x.nonce <= issued'.nonce
      BY <1>5, <2>2, <2>3 DEF AuthInv, HeirsSound
    <3>2. \A x \in sessions' : x.token <= issued'.token /\ x.root <= issued'.nonce
      BY <1>1, <1>5, <2>3 DEF AuthInv, HeirsSound
    <3>3. \A g \in Handlers : Heir(g)' => handler'[g].item <= issued'.nonce
      BY <1>5, <2>1, <2>3 DEF AuthInv, HeirsSound
    <3>. QED BY <3>1, <3>2, <3>3
  <2>5. \A x, y \in challenges' : x.nonce = y.nonce => x = y
    BY <2>2, <2>3 DEF AuthInv, HeirsSound
  <2>6. /\ \A x, y \in sessions' : x.token = y.token => x = y
        /\ OneHeir'
    BY <1>1 DEF AuthInv, HeirsSound, OneHeir
  <2>7. \A f, g \in Handlers : Heir(f)' /\ Heir(g)' /\ handler'[f].item = handler'[g].item => f = g
    BY <2>1 DEF AuthInv, HeirsSound
  <2>8. \A g \in Handlers : Heir(g)' => /\ \A x \in challenges' : x.nonce # handler'[g].item
                                        /\ \A x \in sessions' : x.root # handler'[g].item
    BY <1>1, <2>1, <2>2, <2>3 DEF AuthInv, HeirsSound
  <2>9. \A x \in challenges', y \in sessions' : x.nonce # y.root
    BY <1>1, <2>2, <2>3 DEF AuthInv, HeirsSound
  <2>. QED BY <2>4, <2>5, <2>6, <2>7, <2>8, <2>9 DEF HeirsSound
<1>12. FailuresCounted'
  <2>1. failures' \in [Keys -> Nat] /\ \A k \in Keys : failures'[k] <= failures[k]
    BY <1>1, <1>2 DEF MapTypes
  <2>. QED BY <1>2, <1>3, <1>9, <2>1, CountKept DEF AuthInv
<1>13. RevokedKnown'
  <2>1. ~late' /\ \A e \in Devices : device[e].state = "revoked" => device'[e].state = "revoked"
    BY <1>1 DEF AuthInv, RevokedKnown
  <2>. QED BY <1>2, <1>3, <2>1, RevokedKept DEF AuthInv
<1>. QED BY <1>7, <1>8, <1>10, <1>11, <1>12, <1>13 DEF AuthInv

LEMMA AuthenticateTakes ==
  ASSUME DeviceLimits, AuthInv, NEW h \in Handlers, AuthenticateTake(h)
  PROVE  AuthInv'
<1>. DEFINE n == handler[h].item
            d == handler[h].device
<1>1. /\ handler[h].op = "authenticate" /\ handler[h].at = "take"
      /\ challenges' = {x \in challenges : x.nonce # n}
      /\ UNCHANGED <<code, device, challengeOrder, sessions, sessionOrder, issued, late>>
  BY DEF AuthenticateTake, Before
<1>2. challenges' \subseteq challenges /\ d \in Keys /\ ~late
  BY <1>1, Busy DEF AuthInv, RevokedKnown
<1>3. CASE [nonce |-> n, device |-> d] \in challenges
  <2>1. Goto(h, "row") /\ UNCHANGED <<failures, failureOrder, spins>> /\ "row" \in Ats
    BY <1>3 DEF AuthenticateTake, Ats
  <2>2. Others(h) /\ handler'[h] = [op |-> handler[h].op, at |-> "row", device |-> handler[h].device,
                                    item |-> handler[h].item, revoked |-> handler[h].revoked]
    BY <1>1, <2>1, Goes DEF AuthInv
  <2>3. handler'[h].op = "authenticate" /\ handler'[h].at = "row" /\ handler'[h].item = n /\ handler'[h].device = d
    BY <1>1, <2>2
  <2>4. HeirsSound'
    <3>1. \A g \in Handlers : Heir(g)' => g = h \/ (Heir(g) /\ handler'[g].item = handler[g].item)
      BY <2>2 DEF Heir, Others
    <3>2. PICK x \in challenges : x.nonce = n
      BY <1>3
    <3>3. /\ n <= issued.nonce /\ \A y \in sessions : y.root # n
          /\ \A g \in Handlers : Heir(g) => handler[g].item # n
      BY <3>2 DEF AuthInv, HeirsSound
    <3>. HIDE DEF n
    <3>4. \A y \in challenges' : y \in challenges /\ y.nonce # n
      BY <1>1
    <3>5. \A g \in Handlers : Heir(g)' => handler'[g].item <= issued'.nonce
      BY <1>1, <2>3, <3>1, <3>3 DEF AuthInv, HeirsSound
    <3>6. \A f, g \in Handlers : Heir(f)' /\ Heir(g)' /\ handler'[f].item = handler'[g].item => f = g
      BY <2>3, <3>1, <3>3 DEF AuthInv, HeirsSound
    <3>7. \A g \in Handlers : Heir(g)' => /\ \A y \in challenges' : y.nonce # handler'[g].item
                                          /\ \A y \in sessions' : y.root # handler'[g].item
      BY <1>1, <2>3, <3>1, <3>3, <3>4 DEF AuthInv, HeirsSound
    <3>8. /\ \A y \in challenges' : y.nonce <= issued'.nonce
          /\ \A y \in sessions' : y.token <= issued'.token /\ y.root <= issued'.nonce
          /\ \A y, z \in challenges' : y.nonce = z.nonce => y = z
          /\ \A y, z \in sessions' : y.token = z.token => y = z
          /\ OneHeir'
          /\ \A y \in challenges', z \in sessions' : y.nonce # z.root
      BY <1>1, <3>4 DEF AuthInv, HeirsSound, OneHeir
    <3>. QED BY <3>5, <3>6, <3>7, <3>8 DEF HeirsSound
  <2>5. \A k \in Keys : May(h, k)' => May(h, k)
    BY <1>1, <2>3 DEF May
  <2>. QED BY <1>1, <1>2, <2>1, <2>4, <2>5, GoesOn
<1>4. CASE [nonce |-> n, device |-> d] \notin challenges
  <2>1. End(h) /\ RecordFailure(d)
    BY <1>4 DEF AuthenticateTake
  <2>2. May(h, d)
    BY <1>1 DEF May
  <2>. HIDE DEF d
  <2>. QED BY <1>1, <1>2, <2>1, <2>2, Fails
<1>. QED BY <1>3, <1>4

LEMMA AuthenticateAsks ==
  ASSUME DeviceLimits, AuthInv, NEW h \in Handlers, AuthenticateRow(h)
  PROVE  AuthInv'
<1>. DEFINE d == handler[h].device
<1>1. /\ handler[h].op = "authenticate" /\ handler[h].at = "row"
      /\ UNCHANGED <<code, device, challenges, challengeOrder, sessions, sessionOrder, issued, late>>
  BY DEF AuthenticateRow, Before
<1>2. d \in Keys /\ ~late
  BY <1>1, Busy DEF AuthInv, RevokedKnown
<1>3. CASE Goto(h, "open") /\ UNCHANGED <<failures, failureOrder, spins>>
  <2>1. "open" \in Ats
    BY DEF Ats
  <2>2. Others(h) /\ handler'[h] = [op |-> handler[h].op, at |-> "open", device |-> handler[h].device,
                                    item |-> handler[h].item, revoked |-> handler[h].revoked]
    BY <1>1, <1>3, <2>1, Goes DEF AuthInv
  <2>3. handler'[h].op = "authenticate" /\ handler'[h].at = "open"
    BY <1>1, <2>2
  <2>4. Heir(h) /\ \A k \in Keys : May(h, k)' => May(h, k)
    BY <1>1, <2>3 DEF May, Heir
  <2>. QED BY <1>1, <1>2, <1>3, <2>1, <2>4, GoesOn
<1>4. CASE End(h) /\ RecordFailure(d)
  <2>1. May(h, d)
    BY <1>1 DEF May
  <2>. HIDE DEF d
  <2>. QED BY <1>1, <1>2, <1>4, <2>1, Fails
<1>. QED BY <1>3, <1>4 DEF AuthenticateRow

(* A request that is the heir of a challenge leaves it to a session.             *)
LEMMA OpensSession ==
  ASSUME DeviceLimits, AuthInv, NEW h \in Handlers, Heir(h), handler[h].op # "none",
         AddSession(handler[h].device, handler[h].item), End(h),
         UNCHANGED <<code, device, challenges, challengeOrder, failureOrder, late, spins>>,
         failures' \in [Keys -> Nat], \A k \in Keys : failures'[k] <= failures[k]
  PROVE  AuthInv'
<1>. DEFINE d == handler[h].device
            n == handler[h].item
            new == [token |-> issued.token + 1, device |-> d, root |-> n]
<1>1. d \in Devices /\ n \in Nat /\ AuthTypes /\ MapTypes /\ issued \in [nonce : Nat, token : Nat]
  <2>1. handler[h] \in Request
    BY Busy DEF AuthInv
  <2>. QED BY <2>1 DEF AuthInv, AuthTypes, Request
<1>2. handler' \in [Handlers -> {Free} \cup Request] /\ handler'[h] = Free /\ Others(h)
  BY Ends DEF AuthInv
<1>3. /\ issued' = [nonce |-> issued.nonce, token |-> issued.token + 1]
      /\ sessions' \subseteq sessions \cup {new}
      /\ sessionOrder' \in Seq(Nat) /\ IsFiniteSet(sessions') /\ Cardinality(sessions') <= MaxDeviceSessions
      /\ \A x \in sessions' : x.token \in ToSet(sessionOrder')
  <2>1. /\ \A x \in sessions : x.token <= issued.token /\ x.token \in ToSet(sessionOrder)
        /\ \A x, y \in sessions : x.token = y.token => x = y
        /\ AddSession(d, n)
    BY DEF AuthInv, HeirsSound, MapsBounded
  <2>. HIDE DEF d, n
  <2>. QED BY <1>1, <2>1, AddSessionKeeps
<1>4. /\ new \in [token : Nat, device : Devices, root : Nat] /\ new.token = issued.token + 1 /\ new.root = n
      /\ issued' \in [nonce : Nat, token : Nat] /\ issued'.nonce = issued.nonce /\ issued'.token = issued.token + 1
      /\ issued.token \in Nat
  BY <1>1, <1>3
<1>5. /\ n <= issued.nonce /\ \A x \in challenges : x.nonce # n
      /\ \A x \in sessions : x.root # n
      /\ \A g \in Handlers : Heir(g) /\ handler[g].item = n => g = h
  BY DEF AuthInv, HeirsSound
<1>. HIDE DEF d, n, new
<1>6. MapTypes'
  BY <1>1, <1>3, <1>4 DEF MapTypes
<1>7. AuthTypes'
  BY <1>1, <1>2, <1>4, <1>6, TypesKept
<1>8. MapsBounded'
  <2>1. \A k \in Keys : failures'[k] > 0 => failures[k] > 0
    BY <1>1 DEF MapTypes
  <2>2. \A k \in Keys : failures'[k] > 0 => k \in ToSet(failureOrder')
    BY <2>1 DEF AuthInv, MapsBounded
  <2>. QED BY <1>3, <2>2 DEF AuthInv, MapsBounded
<1>9. ~Heir(h)' /\ handler'[h].op # "pair" /\ \A k \in Keys : ~May(h, k)'
  BY <1>2 DEF Heir, Free, May
<1>10. CodesSound'
  BY <1>2, <1>9, CodesKept DEF AuthInv
<1>11. HeirsSound'
  <2>1. \A g \in Handlers : Heir(g)' => g # h /\ Heir(g) /\ handler'[g].item = handler[g].item
    BY <1>2, <1>9 DEF Heir, Others
  <2>2. \A x \in sessions' : x \in sessions \/ x = new
    BY <1>3
  <2>3. \A x \in sessions : x.token \in Nat /\ x.token # new.token /\ x.token <= issued'.token /\ x.root <= issued'.nonce
    <3>1. \A x \in sessions : x.token \in Nat /\ x.token <= issued.token /\ x.root <= issued.nonce
      BY <1>1 DEF MapTypes, AuthInv, HeirsSound
    <3>. QED BY <1>4, <3>1
  <2>4. \A x \in sessions' : x.token <= issued'.token /\ x.root <= issued'.nonce
    <3>1. new.token <= issued'.token /\ new.root <= issued'.nonce
      BY <1>4, <1>5
    <3>. QED BY <2>2, <2>3, <3>1
  <2>5. \A x, y \in sessions' : x.token = y.token => x = y
    BY <2>2, <2>3 DEF AuthInv, HeirsSound
  <2>6. OneHeir'
    BY <1>4, <1>5, <2>2 DEF AuthInv, HeirsSound, OneHeir
  <2>7. \A f, g \in Handlers : Heir(f)' /\ Heir(g)' /\ handler'[f].item = handler'[g].item => f = g
    BY <2>1 DEF AuthInv, HeirsSound
  <2>8. \A g \in Handlers : Heir(g)' => /\ \A x \in challenges' : x.nonce # handler'[g].item
                                        /\ \A x \in sessions' : x.root # handler'[g].item
    BY <1>4, <1>5, <2>1, <2>2 DEF AuthInv, HeirsSound
  <2>9. \A x \in challenges', y \in sessions' : x.nonce # y.root
    BY <1>4, <1>5, <2>2 DEF AuthInv, HeirsSound
  <2>10. /\ \A x \in challenges' : x.nonce <= issued'.nonce
         /\ \A g \in Handlers : Heir(g)' => handler'[g].item <= issued'.nonce
         /\ \A x, y \in challenges' : x.nonce = y.nonce => x = y
    BY <1>4, <2>1 DEF AuthInv, HeirsSound
  <2>. QED BY <2>4, <2>5, <2>6, <2>7, <2>8, <2>9, <2>10 DEF HeirsSound
<1>12. FailuresCounted'
  BY <1>1, <1>2, <1>9, CountKept DEF AuthInv
<1>13. RevokedKnown'
  <2>1. ~late' /\ \A e \in Devices : device[e].state = "revoked" => device'[e].state = "revoked"
    BY DEF AuthInv, RevokedKnown
  <2>. QED BY <1>1, <1>2, <2>1, RevokedKept DEF AuthInv
<1>. QED BY <1>7, <1>8, <1>10, <1>11, <1>12, <1>13 DEF AuthInv

LEMMA AuthenticateOpens ==
  ASSUME DeviceLimits, AuthInv, NEW h \in Handlers, AuthenticateOpen(h)
  PROVE  AuthInv'
<1>1. /\ handler[h].op = "authenticate" /\ handler[h].at = "open"
      /\ failures' = [failures EXCEPT ![handler[h].device] = 0]
      /\ AddSession(handler[h].device, handler[h].item) /\ End(h)
      /\ UNCHANGED <<code, device, challenges, challengeOrder, failureOrder, late, spins>>
  BY DEF AuthenticateOpen, Before
<1>2. Heir(h) /\ handler[h].op # "none"
  BY <1>1 DEF Heir
<1>3. failures' \in [Keys -> Nat] /\ \A k \in Keys : failures'[k] <= failures[k]
  <2>1. failures \in [Keys -> Nat]
    BY DEF AuthInv, AuthTypes, MapTypes
  <2>. DEFINE d == handler[h].device
  <2>2. failures' = [failures EXCEPT ![d] = 0]
    BY <1>1
  <2>. HIDE DEF d
  <2>3. failures' \in [Keys -> Nat]
    BY ONLY <2>1, <2>2
  <2>4. ASSUME NEW k \in Keys PROVE failures'[k] <= failures[k]
    <3>1. failures[k] \in Nat /\ failures'[k] = IF k = d THEN 0 ELSE failures[k]
      BY ONLY <2>1, <2>2, k \in Keys
    <3>. QED BY <3>1
  <2>. QED BY <2>3, <2>4
<1>. QED BY <1>1, <1>2, <1>3, OpensSession

LEMMA RotateInserts ==
  ASSUME DeviceLimits, AuthInv, NEW h \in Handlers, RotateInsert(h)
  PROVE  AuthInv'
<1>1. /\ handler[h].op = "rotate" /\ handler[h].at = "insert"
      /\ AddSession(handler[h].device, handler[h].item) /\ End(h)
      /\ UNCHANGED <<code, device, challenges, challengeOrder, failures, failureOrder, late, spins>>
  BY DEF RotateInsert, Before
<1>2. Heir(h) /\ handler[h].op # "none"
  BY <1>1 DEF Heir
<1>3. failures' \in [Keys -> Nat] /\ \A k \in Keys : failures'[k] <= failures[k]
  <2>1. failures' = failures /\ failures \in [Keys -> Nat]
    BY <1>1 DEF AuthInv, AuthTypes, MapTypes
  <2>. QED BY ONLY <2>1
<1>. QED BY <1>1, <1>2, <1>3, OpensSession

(* A device that is asked for and paired was not revoked when the request began. *)
LEMMA SessionChecks ==
  ASSUME DeviceLimits, AuthInv, NEW h \in Handlers, SessionCheck(h)
  PROVE  AuthInv'
<1>1. /\ handler[h].at = "check" /\ UNCHANGED <<code, device, maps, issued, spins>>
      /\ (handler[h].op = "rotate" /\ Goto(h, "remove")) \/ End(h)
      /\ late' = (late \/ (device[handler[h].device].state = "paired" /\ handler[h].revoked))
  BY DEF SessionCheck
<1>2. ~late'
  BY <1>1 DEF AuthInv, RevokedKnown
<1>3. CASE handler[h].op = "rotate" /\ Goto(h, "remove")
  <2>1. "remove" \in Ats
    BY DEF Ats
  <2>2. handler'[h] = [op |-> handler[h].op, at |-> "remove", device |-> handler[h].device,
                       item |-> handler[h].item, revoked |-> handler[h].revoked]
    BY <1>3, <2>1, Goes DEF AuthInv
  <2>3. handler'[h].op = "rotate" /\ handler'[h].at = "remove"
    BY <1>3, <2>2
  <2>4. ~Heir(h)' /\ \A k \in Keys : ~May(h, k)'
    BY <2>3 DEF Heir, May
  <2>5. challenges' \subseteq challenges
        /\ UNCHANGED <<code, device, challengeOrder, sessions, sessionOrder, failures, failureOrder, spins, issued>>
    BY <1>1 DEF maps
  <2>. QED BY <1>2, <1>3, <2>1, <2>4, <2>5, GoesOn
<1>4. CASE End(h)
  <2>1. sessions' \subseteq sessions
        /\ UNCHANGED <<code, device, challenges, challengeOrder, sessionOrder, failures, failureOrder, spins, issued>>
    BY <1>1 DEF maps
  <2>. QED BY <1>2, <1>4, <2>1, IsOver
<1>. QED BY <1>1, <1>3, <1>4

LEMMA RotateRemoves ==
  ASSUME DeviceLimits, AuthInv, NEW h \in Handlers, RotateRemove(h)
  PROVE  AuthInv'
<1>. DEFINE found == {x \in sessions : x.token = handler[h].item}
<1>1. /\ handler[h].op = "rotate" /\ handler[h].at = "remove" /\ sessions' = sessions \ found
      /\ UNCHANGED <<code, device, challenges, challengeOrder, sessionOrder, failures, failureOrder,
                     issued, late, spins>>
  BY DEF RotateRemove, Before
<1>2. ~late' /\ sessions' \subseteq sessions /\ challenges' \subseteq challenges
  BY <1>1 DEF AuthInv, RevokedKnown
<1>3. CASE found = {}
  <2>1. End(h)
    BY <1>3 DEF RotateRemove
  <2>. QED BY <1>1, <1>2, <2>1, IsOver
<1>4. CASE found # {}
  <2>1. PICK x \in found : handler' = [handler EXCEPT ![h] = [@ EXCEPT !.at = "row", !.item = x.root]]
    BY <1>4 DEF RotateRemove
  <2>2. /\ x \in sessions /\ x.token = handler[h].item /\ x.root \in Nat
        /\ handler[h] \in Request /\ h \in DOMAIN handler
    BY <1>1, <2>1, Busy DEF AuthInv, AuthTypes, MapTypes
  <2>. DEFINE r == [handler[h] EXCEPT !.at = "row", !.item = x.root]
  <2>3. /\ r \in Request /\ r.op = "rotate" /\ r.at = "row" /\ r.item = x.root
        /\ r.device = handler[h].device /\ r.revoked = handler[h].revoked
    BY <1>1, <2>2 DEF Request, Ats
  <2>4. handler' = [handler EXCEPT ![h] = r]
    BY <2>1
  <2>. HIDE DEF r
  <2>5. handler'[h] = r /\ Others(h) /\ handler' \in [Handlers -> {Free} \cup Request]
    BY <2>2, <2>3, <2>4 DEF Others, AuthInv, AuthTypes
  <2>6. \A y \in sessions' : y \in sessions /\ y # x
    BY <1>1, <2>1
  <2>7. /\ x.root <= issued.nonce /\ \A y \in sessions' : y.root # x.root
        /\ \A y \in challenges : y.nonce # x.root
        /\ \A g \in Handlers : Heir(g) => handler[g].item # x.root
    BY <2>2, <2>6 DEF AuthInv, HeirsSound, OneHeir
  <2>8. HeirsSound'
    <3>1. \A g \in Handlers : Heir(g)' => g = h \/ (Heir(g) /\ handler'[g].item = handler[g].item)
      BY <2>5 DEF Heir, Others
    <3>2. handler'[h].item = x.root
      BY <2>3, <2>5
    <3>3. \A g \in Handlers : Heir(g)' => handler'[g].item <= issued'.nonce
      BY <1>1, <2>7, <3>1, <3>2 DEF AuthInv, HeirsSound
    <3>4. \A f, g \in Handlers : Heir(f)' /\ Heir(g)' /\ handler'[f].item = handler'[g].item => f = g
      BY <2>7, <3>1, <3>2 DEF AuthInv, HeirsSound
    <3>5. \A g \in Handlers : Heir(g)' => /\ \A y \in challenges' : y.nonce # handler'[g].item
                                          /\ \A y \in sessions' : y.root # handler'[g].item
      BY <1>1, <2>6, <2>7, <3>1, <3>2 DEF AuthInv, HeirsSound
    <3>6. /\ \A y \in challenges' : y.nonce <= issued'.nonce
          /\ \A y \in sessions' : y.token <= issued'.token /\ y.root <= issued'.nonce
          /\ \A y, z \in challenges' : y.nonce = z.nonce => y = z
          /\ \A y, z \in sessions' : y.token = z.token => y = z
          /\ OneHeir'
          /\ \A y \in challenges', z \in sessions' : y.nonce # z.root
      BY <1>1, <2>6 DEF AuthInv, HeirsSound, OneHeir
    <3>. QED BY <3>3, <3>4, <3>5, <3>6 DEF HeirsSound
  <2>9. handler'[h].op # "pair" /\ \A k \in Keys : ~May(h, k)'
    BY <2>3, <2>5 DEF May
  <2>10. failures' \in [Keys -> Nat] /\ \A k \in Keys : failures'[k] <= failures[k]
    BY <1>1 DEF AuthInv, AuthTypes, MapTypes
  <2>11. FailuresCounted'
    BY <2>5, <2>9, <2>10, CountKept DEF AuthInv
  <2>12. handler'[h].revoked => device'[handler'[h].device].state = "revoked"
    BY <1>1, <2>3, <2>5 DEF AuthInv, RevokedKnown
  <2>. QED BY <1>1, <1>2, <2>5, <2>8, <2>9, <2>10, <2>11, <2>12, Moves
<1>. QED BY <1>3, <1>4

LEMMA RotateAsks ==
  ASSUME DeviceLimits, AuthInv, NEW h \in Handlers, RotateRow(h)
  PROVE  AuthInv'
<1>1. /\ handler[h].op = "rotate" /\ handler[h].at = "row" /\ UNCHANGED <<code, device, maps, issued, late, spins>>
      /\ Goto(h, "insert") \/ End(h)
  BY DEF RotateRow, Before
<1>2. ~late' /\ UNCHANGED <<challenges, challengeOrder, sessions, sessionOrder, failures, failureOrder>>
  BY <1>1 DEF AuthInv, RevokedKnown, maps
<1>3. CASE Goto(h, "insert")
  <2>1. "insert" \in Ats
    BY DEF Ats
  <2>2. handler'[h] = [op |-> handler[h].op, at |-> "insert", device |-> handler[h].device,
                       item |-> handler[h].item, revoked |-> handler[h].revoked]
    BY <1>1, <1>3, <2>1, Goes DEF AuthInv
  <2>3. handler'[h].op = "rotate"
    BY <1>1, <2>2
  <2>4. Heir(h) /\ \A k \in Keys : ~May(h, k)'
    BY <1>1, <2>3 DEF Heir, May
  <2>5. challenges' \subseteq challenges
    BY <1>2
  <2>. QED BY <1>1, <1>2, <1>3, <2>1, <2>4, <2>5, GoesOn
<1>4. CASE End(h)
  <2>1. sessions' \subseteq sessions
    BY <1>2
  <2>. QED BY <1>1, <1>2, <1>4, <2>1, IsOver
<1>. QED BY <1>1, <1>3, <1>4

LEMMA RevokeBegins ==
  ASSUME DeviceLimits, AuthInv, NEW h \in Handlers, RevokeBegin(h)
  PROVE  AuthInv'
<1>1. PICK d \in Devices : /\ Begin(h, "revoke", "retain", d, 0)
                           /\ device' = [device EXCEPT ![d].state = "revoked"]
  BY DEF RevokeBegin
<1>2. UNCHANGED <<code, challenges, challengeOrder, sessions, sessionOrder, failures, failureOrder, issued, late, spins>>
  BY DEF RevokeBegin, maps
<1>3. /\ handler' \in [Handlers -> {Free} \cup Request] /\ Others(h)
      /\ handler'[h] = [op |-> "revoke", at |-> "retain", device |-> d, item |-> 0,
                        revoked |-> device[d].state = "revoked"]
  <2>1. "revoke" \in Ops /\ "retain" \in Ats \cup {"idle"} /\ 0 \in Nat /\ "retain" # "idle"
    BY DEF Ops, Ats
  <2>. QED BY <1>1, <2>1, Begins DEF AuthInv
<1>4. handler'[h].op = "revoke" /\ handler'[h].device = d
  BY <1>3
<1>5. /\ device' \in [Devices -> [state : {"unknown", "paired", "revoked"}, code : Codes \cup {0}]]
      /\ \A e \in Devices : device'[e].code = device[e].code
      /\ \A e \in Devices : device[e].state = "revoked" => device'[e].state = "revoked"
      /\ device'[d].state = "revoked"
  BY <1>1 DEF AuthInv, AuthTypes
<1>6. AuthTypes'
  BY <1>2, <1>3, <1>5 DEF AuthInv, AuthTypes, MapTypes
<1>7. CodesSound'
  <2>1. \A g \in Handlers : /\ Pairs(g)' => Pairs(g) /\ handler'[g].item = handler[g].item
                            /\ Before(g, "pair", "consume")' =>
                                 Before(g, "pair", "consume") /\ handler'[g].item = handler[g].item
    BY <1>3, <1>4 DEF Pairs, Before, Others
  <2>2. /\ \A g \in Handlers : Before(g, "pair", "consume")' => handler'[g].item \in Codes
        /\ \A g \in Handlers : Pairs(g)' => handler'[g].item \in Codes /\ code'[handler'[g].item] = "used"
        /\ \A f, g \in Handlers : Pairs(f)' /\ Pairs(g)' /\ handler'[f].item = handler'[g].item => f = g
    BY <1>2, <2>1 DEF AuthInv, CodesSound
  <2>3. \A g \in Handlers, e \in Devices : Pairs(g)' => device'[e].code # handler'[g].item
    BY <1>5, <2>1 DEF AuthInv, CodesSound
  <2>4. \A e \in Devices : device'[e].code # 0 => code'[device'[e].code] = "used"
    BY <1>2, <1>5 DEF AuthInv, CodesSound
  <2>5. OneDevicePerCode'
    BY <1>5 DEF AuthInv, CodesSound, OneDevicePerCode
  <2>. QED BY <2>2, <2>3, <2>4, <2>5 DEF CodesSound
<1>8. HeirsSound'
  <2>1. ~Heir(h)' /\ challenges' \subseteq challenges /\ sessions' \subseteq sessions
    BY <1>2, <1>4 DEF Heir
  <2>. QED BY <1>2, <1>3, <2>1, HeirsKept DEF AuthInv
<1>9. MapsBounded'
  BY <1>2 DEF AuthInv, MapsBounded
<1>10. FailuresCounted'
  <2>1. \A k \in Keys : ~May(h, k)'
    BY <1>4 DEF May
  <2>2. failures' = failures /\ failures \in [Keys -> Nat]
    BY <1>2 DEF AuthInv, AuthTypes, MapTypes
  <2>3. failures' \in [Keys -> Nat] /\ \A k \in Keys : failures'[k] <= failures[k]
    BY ONLY <2>2
  <2>. QED BY <1>3, <2>1, <2>3, CountKept DEF AuthInv
<1>11. RevokedKnown'
  <2>1. handler'[h].revoked => device'[handler'[h].device].state = "revoked"
    BY <1>4, <1>5
  <2>2. ~late'
    BY <1>2 DEF AuthInv, RevokedKnown
  <2>. QED BY <1>3, <1>5, <2>1, <2>2, RevokedKept DEF AuthInv
<1>. QED BY <1>6, <1>7, <1>8, <1>9, <1>10, <1>11 DEF AuthInv

LEMMA RevokeRetains ==
  ASSUME DeviceLimits, AuthInv, NEW h \in Handlers, RevokeRetain(h)
  PROVE  AuthInv'
<1>1. /\ End(h) /\ sessions' \subseteq sessions /\ ~late'
      /\ UNCHANGED <<code, device, challenges, challengeOrder, sessionOrder, failures, failureOrder, spins, issued>>
  BY DEF RevokeRetain, AuthInv, RevokedKnown
<1>. QED BY <1>1, IsOver

LEMMA StorageErrs ==
  ASSUME DeviceLimits, AuthInv, NEW h \in Handlers, StorageError(h)
  PROVE  AuthInv'
<1>1. /\ End(h) /\ sessions' \subseteq sessions /\ ~late'
      /\ UNCHANGED <<code, device, challenges, challengeOrder, sessionOrder, failures, failureOrder, spins, issued>>
  BY DEF StorageError, AuthInv, RevokedKnown, maps
<1>. QED BY <1>1, IsOver

LEMMA Expires ==
  ASSUME DeviceLimits, AuthInv, Expire
  PROVE  AuthInv'
<1>1. UNCHANGED <<device, challengeOrder, sessionOrder, failureOrder, handler, issued, late, spins>>
  BY DEF Expire
<1>2. /\ code' \in [Codes -> {"none", "offered", "used", "expired"}]
      /\ \A c \in Codes : code[c] = "used" => code'[c] = "used"
  BY DEF Expire, AuthInv, AuthTypes
<1>3. challenges' \subseteq challenges /\ sessions' \subseteq sessions
  BY DEF Expire
<1>4. failures' \in [Keys -> Nat] /\ \A k \in Keys : failures'[k] <= failures[k]
  <2>1. failures \in [Keys -> Nat]
    BY DEF AuthInv, AuthTypes, MapTypes
  <2>2. CASE UNCHANGED failures
    BY ONLY <2>1, <2>2
  <2>3. CASE \E k \in Keys : failures[k] > 0 /\ failures' = [failures EXCEPT ![k] = @ - 1]
    BY ONLY <2>1, <2>3
  <2>. QED BY <2>2, <2>3 DEF Expire
<1>5. MapsBounded' /\ MapTypes'
  BY <1>1, <1>3, <1>4, MapsKept DEF AuthInv
<1>6. AuthTypes'
  BY <1>1, <1>2, <1>5 DEF AuthInv, AuthTypes
<1>7. CodesSound'
  <2>1. \A g \in Handlers : Pairs(g)' = Pairs(g) /\ Before(g, "pair", "consume")' = Before(g, "pair", "consume")
    BY <1>1 DEF Pairs, Before
  <2>2. \A d \in Devices : device[d].code # 0 => device[d].code \in Codes
    BY DEF AuthInv, AuthTypes
  <2>. QED BY <1>1, <1>2, <2>1, <2>2 DEF AuthInv, CodesSound, OneDevicePerCode
<1>8. HeirsSound'
  <2>1. \A g \in Handlers : Heir(g)' = Heir(g)
    BY <1>1 DEF Heir
  <2>2. /\ \A x \in challenges' : x \in challenges
        /\ \A x \in sessions' : x \in sessions
    BY <1>3
  <2>. QED BY <1>1, <2>1, <2>2 DEF AuthInv, HeirsSound, OneHeir
<1>9. FailuresCounted'
  <2>. SUFFICES ASSUME NEW k \in Keys
                PROVE  failures'[k] + Cardinality(Waiting(k)') <= FailureLimit + Cardinality(Handlers) - 1
    BY DEF FailuresCounted
  <2>1. Waiting(k)' = Waiting(k)
    BY <1>1 DEF Waiting, May
  <2>2. Cardinality(Waiting(k)) \in Nat /\ Cardinality(Handlers) \in Nat
    BY WaitingFinite
  <2>3. failures[k] \in Nat /\ failures'[k] \in Nat /\ failures'[k] <= failures[k] /\ FailureLimit \in Nat
    BY <1>4 DEF AuthInv, AuthTypes, MapTypes, DeviceLimits
  <2>4. failures[k] + Cardinality(Waiting(k)) <= FailureLimit + Cardinality(Handlers) - 1
    BY DEF AuthInv, FailuresCounted
  <2>. QED BY <2>1, <2>2, <2>3, <2>4
<1>10. RevokedKnown'
  BY <1>1 DEF AuthInv, RevokedKnown
<1>. QED BY <1>5, <1>6, <1>7, <1>8, <1>9, <1>10 DEF AuthInv

-----------------------------------------------------------------------------
(* The theorem.                                                                 *)

LEMMA AuthSteps ==
  ASSUME DeviceLimits, AuthInv, [AuthNext]_authVars
  PROVE  AuthInv'
<1>1. CASE \E c \in Codes : CreatePairingCode(c)
  BY <1>1, CreatesCode
<1>2. ASSUME NEW h \in Handlers,
             \/ PairBegin(h) \/ PairLookup(h) \/ PairConsume(h) \/ PairInsert(h)
             \/ ChallengeBegin(h) \/ ChallengeIssue(h)
      PROVE  AuthInv'
  BY <1>2, PairBegins, PairLooksUp, PairConsumes, PairInserts, ChallengeBegins, ChallengeIssues
<1>3. ASSUME NEW h \in Handlers,
             AuthenticateBegin(h) \/ AuthenticateTake(h) \/ AuthenticateRow(h) \/ AuthenticateOpen(h)
      PROVE  AuthInv'
  BY <1>3, AuthenticateBegins, AuthenticateTakes, AuthenticateAsks, AuthenticateOpens
<1>4. ASSUME NEW h \in Handlers,
             SessionBegin(h) \/ SessionCheck(h) \/ RotateRemove(h) \/ RotateRow(h) \/ RotateInsert(h)
      PROVE  AuthInv'
  BY <1>4, SessionBegins, SessionChecks, RotateRemoves, RotateAsks, RotateInserts
<1>5. ASSUME NEW h \in Handlers, RevokeBegin(h) \/ RevokeRetain(h) \/ StorageError(h)
      PROVE  AuthInv'
  BY <1>5, RevokeBegins, RevokeRetains, StorageErrs
<1>6. CASE Expire
  BY <1>6, Expires
<1>7. CASE UNCHANGED authVars
  <2>1. UNCHANGED <<code, device, challenges, challengeOrder, sessions, sessionOrder, failures,
                    failureOrder, handler, issued, late, spins>>
    BY <1>7 DEF authVars
  <2>2. AuthTypes'
    BY <2>1 DEF AuthInv, AuthTypes, MapTypes
  <2>3. CodesSound'
    BY <2>1 DEF AuthInv, CodesSound, Before, Pairs, OneDevicePerCode
  <2>4. HeirsSound'
    BY <2>1 DEF AuthInv, HeirsSound, Heir, OneHeir
  <2>5. MapsBounded'
    BY <2>1 DEF AuthInv, MapsBounded
  <2>6. FailuresCounted'
    BY <2>1 DEF AuthInv, FailuresCounted, Waiting, May
  <2>7. RevokedKnown'
    BY <2>1 DEF AuthInv, RevokedKnown
  <2>. QED BY <2>2, <2>3, <2>4, <2>5, <2>6, <2>7 DEF AuthInv
<1>. QED BY <1>1, <1>2, <1>3, <1>4, <1>5, <1>6, <1>7 DEF AuthNext

LEMMA AuthSafe ==
  ASSUME DeviceLimits, AuthInv
  PROVE  DevicesSound
<1>1. FailuresBounded
  <2>. SUFFICES ASSUME NEW k \in Keys
                PROVE  failures[k] <= FailureLimit + Cardinality(Handlers) - 1
    BY DEF FailuresBounded
  <2>1. Cardinality(Waiting(k)) \in Nat /\ Cardinality(Handlers) \in Nat
    BY WaitingFinite
  <2>2. failures[k] \in Nat /\ FailureLimit \in Nat
    BY DEF AuthInv, AuthTypes, MapTypes, DeviceLimits
  <2>3. failures[k] + Cardinality(Waiting(k)) <= FailureLimit + Cardinality(Handlers) - 1
    BY DEF AuthInv, FailuresCounted
  <2>. QED BY <2>1, <2>2, <2>3
<1>. QED BY <1>1 DEF AuthInv, CodesSound, HeirsSound, RevokedKnown, DevicesSound

(* Whatever requests overlap, fail half-way and come again: a pairing code pairs *)
(* one device, a challenge leads to one session, the three maps keep to their    *)
(* limits and the loop that cleans up the failures ends, failures pass the limit *)
(* by no more than one for every other request under way, and a request that     *)
(* began after a device was revoked is not served.                               *)
THEOREM PairedDevicesHold ==
  ASSUME DeviceLimits
  PROVE  AuthSpec => []DevicesSound
<1>1. AuthInit => AuthInv
  BY AuthInitially
<1>2. AuthInv /\ [AuthNext]_authVars => AuthInv'
  BY AuthSteps
<1>3. AuthInv => DevicesSound
  BY AuthSafe
<1>. QED BY <1>1, <1>2, <1>3, PTL DEF AuthSpec

-----------------------------------------------------------------------------
(* The realtime connection.                                                     *)

LoopStates == {"session", "ended", "waiting", "stopped"}
SockStates == {"connecting", "open", "closing", "closed"}
AskStates == {"new", "pending", "unseen", "rejected", "resolved", "forgotten"}
Sock == [state : SockStates, mute : BOOLEAN, stage : {"opened", "hello", "snapshot"},
         by : {"host", "unauthorised", "page"}]

TransportTypes ==
    /\ loop \in LoopStates /\ sock \in Sock
    /\ over \in {"no", "closed", "revoked"}
    /\ announced \in {"none", "synchronizing", "connected", "disconnected"}
    /\ requested \in BOOLEAN /\ preserve \in BOOLEAN /\ token \in BOOLEAN
    /\ realtime \in [Requests -> [state : AskStates, now : BOOLEAN]]
    /\ http \in [Invokes -> {"new", "pending", "done", "aborted"}]
    /\ mishaps \in Nat

(* What a socket was lost for: only a wake of the page spares the HTTP requests, *)
(* and nothing but the wake closes a socket where nothing else went wrong.       *)
Innocent == over = "no" /\ token /\ mishaps = 0
Spared ==
    /\ preserve => sock.state \in {"closing", "closed"} /\ loop # "waiting"
    /\ preserve => sock.by = "page" \/ over # "no"
    /\ sock.mute => mishaps > 0
    /\ Innocent /\ loop = "session" /\ sock.state = "closing" => preserve
    /\ Innocent /\ loop = "ended" => preserve
    /\ (\E h \in Invokes : http[h] = "aborted") => ~Innocent

Carried == \A r \in Requests : Waits(realtime[r].state) => realtime[r].now

Announced == announced = "connected" /\ over = "no" => loop \in {"session", "ended"} /\ sock.stage = "snapshot"

TransportInv == TransportTypes /\ Carried /\ Announced /\ Spared

LEMMA TransportInitHolds == TransportInit => TransportInv
<1>. SUFFICES ASSUME TransportInit PROVE TransportInv
  OBVIOUS
<1>1. sock \in Sock
  BY DEF TransportInit, NewSock, SockStates, Sock
<1>2. realtime \in [Requests -> [state : AskStates, now : BOOLEAN]]
  BY DEF TransportInit, AskStates
<1>3. TransportTypes
  BY <1>1, <1>2 DEF TransportInit, TransportTypes, LoopStates
<1>4. Carried
  BY DEF TransportInit, Carried, Waits
<1>5. Announced /\ Spared
  BY DEF TransportInit, Announced, Spared, Innocent, NewSock
<1>. QED BY <1>3, <1>4, <1>5 DEF TransportInv

LEMMA Rejecting ==
  ASSUME NEW reqs \in [Requests -> [state : AskStates, now : BOOLEAN]]
  PROVE  /\ RejectRealtime(reqs) \in [Requests -> [state : AskStates, now : BOOLEAN]]
         /\ \A r \in Requests : ~Waits(RejectRealtime(reqs)[r].state)
         /\ \A kept : SessionEnds(reqs, kept) = RejectRealtime(reqs)
BY DEF RejectRealtime, Waits, AskStates, SessionEnds

LEMMA Aborting ==
  ASSUME NEW reqs \in [Invokes -> {"new", "pending", "done", "aborted"}]
  PROVE  RejectPending(reqs) \in [Invokes -> {"new", "pending", "done", "aborted"}]
BY DEF RejectPending

(* A step that answers, forgets or sends requests and leaves the socket alone.   *)
LEMMA RequestsOnly ==
  ASSUME TransportInv, UNCHANGED <<sockets, over, known, http, token, mishaps, wakes>>,
         realtime' \in [Requests -> [state : AskStates, now : BOOLEAN]],
         \A r \in Requests : Waits(realtime'[r].state) => realtime'[r].now
  PROVE  TransportInv'
BY DEF TransportInv, TransportTypes, Carried, Announced, Spared, Innocent, sockets

(* A new session on a new socket (openSession).                                  *)
LEMMA Opens ==
  ASSUME TransportInv, OpenSession, over' = over, announced' # "connected" \/ over' # "no", preserve' = FALSE, requested' = FALSE,
         announced' \in {"none", "synchronizing", "connected", "disconnected"},
         http' \in [Invokes -> {"new", "pending", "done", "aborted"}],
         (\E h \in Invokes : http'[h] = "aborted") => ~Innocent,
         UNCHANGED <<token, mishaps>>
  PROVE  TransportInv'
<1>. DEFINE ended == SessionEnds(realtime, preserve)
<1>1. ended \in [Requests -> [state : AskStates, now : BOOLEAN]] /\ \A r \in Requests : ~Waits(ended[r].state)
  BY Rejecting DEF TransportInv, TransportTypes
<1>2. realtime' = [r \in Requests |-> [ended[r] EXCEPT !.now = FALSE]]
  BY DEF OpenSession
<1>. HIDE DEF ended
<1>3. realtime' \in [Requests -> [state : AskStates, now : BOOLEAN]]
  BY <1>1, <1>2
<1>4. Carried'
  BY <1>1, <1>2 DEF Carried
<1>5. TransportTypes'
  BY <1>3 DEF TransportInv, TransportTypes, OpenSession, NewSock, LoopStates, SockStates, Sock
<1>. QED BY <1>4, <1>5 DEF TransportInv, Announced, Spared, OpenSession, NewSock, Innocent

(* A step that moves the socket forward, or the fiber past it.                   *)
LEMMA SocketOnly ==
  ASSUME TransportInv, TransportTypes', UNCHANGED realtime, Announced', Spared'
  PROVE  TransportInv'
BY DEF TransportInv, Carried

LEMMA SocketSteps ==
  ASSUME TransportInv,
         \/ Opened \/ AuthRequired \/ RuntimeSnapshot \/ ConnectTimeout \/ HeartbeatTimeout
         \/ Closed \/ HostCloses \/ PathDies
  PROVE  TransportInv'
<1>. USE DEF TransportInv, TransportTypes, LoopStates, SockStates, Sock
<1>1. CASE Opened
  <2>1. TransportTypes' /\ Announced' /\ Spared'
    BY <1>1 DEF Opened, Announced, Spared, Innocent
  <2>. QED BY <1>1, <2>1, SocketOnly DEF Opened
<1>2. CASE AuthRequired
  <2>1. TransportTypes' /\ Announced' /\ Spared'
    BY <1>2 DEF AuthRequired, Hears, Announced, Spared, Innocent
  <2>. QED BY <1>2, <2>1, SocketOnly DEF AuthRequired
<1>3. CASE RuntimeSnapshot
  <2>1. TransportTypes' /\ Announced' /\ Spared'
    BY <1>3 DEF RuntimeSnapshot, Hears, Announced, Spared, Innocent
  <2>. QED BY <1>3, <2>1, SocketOnly DEF RuntimeSnapshot
<1>4. CASE ConnectTimeout
  <2>1. TransportTypes' /\ Announced' /\ Spared'
    BY <1>4 DEF ConnectTimeout, ClosesItself, Announced, Spared, Innocent
  <2>. QED BY <1>4, <2>1, SocketOnly DEF ConnectTimeout, ClosesItself
<1>5. CASE HeartbeatTimeout
  <2>1. mishaps' \in Nat /\ (mishaps' = mishaps \/ mishaps' > 0) /\ (~sock.mute => mishaps' > 0)
    BY <1>5 DEF HeartbeatTimeout, HearsNothing, Mishap
  <2>2. TransportTypes' /\ Announced' /\ Spared'
    BY <1>5, <2>1 DEF HeartbeatTimeout, HearsNothing, ClosesItself, Announced, Spared, Innocent
  <2>. QED BY <1>5, <2>1, <2>2, SocketOnly DEF HeartbeatTimeout, ClosesItself
<1>6. CASE Closed
  <2>1. PICK reason \in {4000, 1006, 4003} : CloseEvent(reason)
    BY <1>6 DEF Closed
  <2>2. TransportTypes' /\ Announced' /\ Spared'
    BY <1>6, <2>1 DEF Closed, CloseEvent, Announced, Spared, Innocent
  <2>. QED BY <1>6, <2>1, <2>2, SocketOnly DEF Closed, CloseEvent
<1>7. CASE HostCloses
  <2>1. PICK reason \in {1006, 4003} : CloseEvent(reason)
    BY <1>7 DEF HostCloses
  <2>2. mishaps' \in Nat /\ mishaps' > 0
    BY <1>7 DEF HostCloses, Mishap
  <2>3. TransportTypes' /\ Announced' /\ Spared'
    BY <1>7, <2>1, <2>2 DEF HostCloses, CloseEvent, Announced, Spared, Innocent
  <2>. QED BY <2>1, <2>2, <2>3, SocketOnly DEF CloseEvent
<1>8. CASE PathDies
  <2>1. mishaps' \in Nat /\ mishaps' > 0
    BY <1>8 DEF PathDies, Mishap
  <2>2. TransportTypes'
    BY <1>8, <2>1 DEF PathDies
  <2>3. Announced'
    BY <1>8, <2>1 DEF PathDies, Announced
  <2>4. Spared'
    BY <1>8, <2>1 DEF PathDies, Spared, Innocent
  <2>. QED BY <1>8, <2>2, <2>3, <2>4, SocketOnly DEF PathDies
<1>. QED BY <1>1, <1>2, <1>3, <1>4, <1>5, <1>6, <1>7, <1>8

LEMMA RequestSteps ==
  ASSUME TransportInv,
         \/ Hello \/ ShuttingDown \/ Close
         \/ \E h \in Invokes : Invoke(h) \/ InvokeAnswered(h)
         \/ \E r \in Requests : \/ InvokeRealtime(r) \/ SendRealtime(r) \/ SendForgetting(r)
                                \/ ResolveRealtime(r) \/ RequestTimeout(r)
  PROVE  TransportInv'
<1>. USE DEF TransportInv, TransportTypes
<1>0. RejectRealtime(realtime) \in [Requests -> [state : AskStates, now : BOOLEAN]]
      /\ \A r \in Requests : ~Waits(RejectRealtime(realtime)[r].state)
  BY Rejecting
<1>1. CASE Hello
  <2>1. realtime' \in [Requests -> [state : AskStates, now : BOOLEAN]] /\ Carried'
    BY <1>0, <1>1 DEF Hello, Carried
  <2>2. mishaps' \in Nat /\ (mishaps' = mishaps \/ mishaps' > 0)
    BY <1>1 DEF Hello, Mishap
  <2>3. TransportTypes'
    BY <1>1, <2>1, <2>2 DEF Hello, LoopStates, SockStates, Sock
  <2>4. Announced' /\ Spared'
    BY <1>1, <2>2 DEF Hello, Hears, Announced, Spared, Innocent, Sock
  <2>. QED BY <2>1, <2>3, <2>4
<1>2. CASE ShuttingDown
  <2>1. mishaps' \in Nat /\ mishaps' > 0
    BY <1>2 DEF ShuttingDown, Mishap
  <2>2. TransportTypes'
    BY <1>2, <2>1, Aborting DEF ShuttingDown, sockets
  <2>3. Announced' /\ Spared' /\ Carried'
    BY <1>2, <2>1 DEF ShuttingDown, sockets, Announced, Spared, Innocent, Carried
  <2>. QED BY <2>2, <2>3
<1>3. CASE Close
  <2>1. TransportTypes'
    BY <1>0, <1>3, Aborting DEF Close, LoopStates, SockStates, Sock
  <2>2. Announced' /\ Spared' /\ Carried'
    BY <1>0, <1>3 DEF Close, Announced, Spared, Innocent, Carried, Sock
  <2>. QED BY <2>1, <2>2
<1>4. ASSUME NEW h \in Invokes, Invoke(h) \/ InvokeAnswered(h) PROVE TransportInv'
  <2>1. TransportTypes'
    BY <1>4 DEF Invoke, InvokeAnswered, sockets
  <2>2. Announced' /\ Spared' /\ Carried'
    BY <1>4 DEF Invoke, InvokeAnswered, sockets, Announced, Spared, Innocent, Carried
  <2>. QED BY <2>1, <2>2
<1>5. ASSUME NEW r \in Requests, InvokeRealtime(r) \/ SendRealtime(r) PROVE TransportInv'
  <2>1. PICK state \in {"pending", "unseen"} : Asks(r, state)
    BY <1>5 DEF InvokeRealtime, SendRealtime
  <2>2. realtime' \in [Requests -> [state : AskStates, now : BOOLEAN]]
    BY <2>1 DEF Asks, AskStates
  <2>3. \A q \in Requests : Waits(realtime'[q].state) => realtime'[q].now
    BY <2>1 DEF Asks, Carried
  <2>. QED BY <2>1, <2>2, <2>3, RequestsOnly DEF Asks
<1>6. ASSUME NEW r \in Requests, SendForgetting(r) PROVE TransportInv'
  <2>1. PICK q \in Requests :
          /\ realtime[q].state = "unseen" /\ realtime[r].state = "new"
          /\ realtime' = [realtime EXCEPT ![r] = [state |-> "unseen", now |-> TRUE], ![q].state = "forgotten"]
          /\ UNCHANGED <<sockets, over, known, http, token, mishaps, wakes>>
    BY <1>6 DEF SendForgetting
  <2>2. /\ r # q
        /\ realtime'[r] = [state |-> "unseen", now |-> TRUE]
        /\ realtime'[q] = [realtime[q] EXCEPT !.state = "forgotten"]
        /\ \A p \in Requests \ {q, r} : realtime'[p] = realtime[p]
        /\ DOMAIN realtime' = Requests
    BY <2>1
  <2>3. realtime' \in [Requests -> [state : AskStates, now : BOOLEAN]]
    BY <2>1 DEF AskStates
  <2>4. \A p \in Requests : Waits(realtime'[p].state) => realtime'[p].now
    BY <2>2 DEF Carried, Waits
  <2>. QED BY <2>1, <2>3, <2>4, RequestsOnly
<1>7. ASSUME NEW r \in Requests, ResolveRealtime(r) \/ RequestTimeout(r) PROVE TransportInv'
  BY <1>7, RequestsOnly DEF ResolveRealtime, RequestTimeout, Carried, AskStates, Waits
<1>. QED BY <1>1, <1>2, <1>3, <1>4, <1>5, <1>6, <1>7

(* The fiber's own steps and the wakes of the page.                              *)
LEMMA FiberSteps ==
  ASSUME TransportInv,
         ReconnectLoop \/ WaitForReconnect \/ \E replace \in BOOLEAN : WakeRealtime(replace)
  PROVE  TransportInv'
<1>0. /\ RejectRealtime(realtime) \in [Requests -> [state : AskStates, now : BOOLEAN]]
      /\ \A r \in Requests : ~Waits(RejectRealtime(realtime)[r].state)
      /\ \A kept : SessionEnds(realtime, kept) = RejectRealtime(realtime)
  BY Rejecting DEF TransportInv, TransportTypes
<1>1. CASE ReconnectLoop /\ over # "no"
  BY <1>1 DEF ReconnectLoop, TransportInv, TransportTypes, Carried, Announced, Spared, Innocent, LoopStates
<1>2. ASSUME ReconnectLoop, over = "no"
      PROVE  /\ http' \in [Invokes -> {"new", "pending", "done", "aborted"}]
             /\ (\E h \in Invokes : http'[h] = "aborted") => ~Innocent
  <2>1. TransportTypes /\ Spared
    BY DEF TransportInv
  <2>2. http' \in [Invokes -> {"new", "pending", "done", "aborted"}]
    BY <1>2, <2>1, Aborting DEF ReconnectLoop, TransportTypes
  <2>3. (\E h \in Invokes : http'[h] = "aborted") => ~Innocent
    BY <1>2, <2>1 DEF ReconnectLoop, Spared, Innocent
  <2>. QED BY <2>2, <2>3
<1>3. CASE ReconnectLoop /\ over = "no" /\ requested
  <2>1. /\ OpenSession /\ announced' = "disconnected" /\ preserve' = FALSE /\ requested' = FALSE
        /\ UNCHANGED <<over, known, token, mishaps, wakes>>
    BY <1>3 DEF ReconnectLoop
  <2>. QED BY <1>2, <1>3, <2>1, Opens
<1>4. CASE ReconnectLoop /\ over = "no" /\ ~requested
  <2>1. /\ loop' = "waiting" /\ announced' = "disconnected" /\ preserve' = FALSE /\ requested' = FALSE
        /\ realtime' = RejectRealtime(realtime)
        /\ UNCHANGED <<sock, over, known, token, mishaps, wakes>>
    BY <1>0, <1>4 DEF ReconnectLoop
  <2>2. TransportTypes' /\ Carried'
    BY <1>0, <1>2, <1>4, <2>1 DEF TransportInv, TransportTypes, LoopStates, Carried
  <2>3. Announced'
    BY <2>1 DEF Announced
  <2>4. Spared'
    BY <1>2, <1>4, <2>1 DEF TransportInv, Spared, Innocent
  <2>. QED BY <2>2, <2>3, <2>4 DEF TransportInv
<1>5. ASSUME loop = "waiting", OpenSession, requested' = FALSE,
             UNCHANGED <<announced, preserve, over, known, http, token, mishaps>>
      PROVE  TransportInv'
  <2>1. ~preserve /\ (announced # "connected" \/ over # "no")
    BY <1>5 DEF TransportInv, Spared, Announced
  <2>2. /\ preserve' = FALSE
        /\ announced' \in {"none", "synchronizing", "connected", "disconnected"}
        /\ http' \in [Invokes -> {"new", "pending", "done", "aborted"}]
        /\ (\E h \in Invokes : http'[h] = "aborted") => ~Innocent
    BY <1>5, <2>1 DEF TransportInv, TransportTypes, Spared
  <2>. QED BY <1>5, <2>1, <2>2, Opens
<1>6. CASE WaitForReconnect
  BY <1>5, <1>6 DEF WaitForReconnect
<1>7. ASSUME NEW replace \in BOOLEAN, WakeRealtime(replace) PROVE TransportInv'
  <2>1. CASE loop = "waiting"
    BY <1>5, <1>7, <2>1 DEF WakeRealtime
  <2>2. CASE loop # "waiting"
    <3>1. /\ requested' = TRUE
          /\ UNCHANGED <<loop, realtime, announced, over, known, http, token, mishaps>>
          /\ over = "no"
          /\ \/ UNCHANGED <<preserve, sock>>
             \/ preserve' = TRUE /\ sock' = [sock EXCEPT !.state = "closing", !.by = "page"]
      BY <1>7, <2>2 DEF WakeRealtime
    <3>2. TransportTypes'
      BY <3>1 DEF TransportInv, TransportTypes, Sock, SockStates
    <3>3. Carried'
      BY <3>1 DEF TransportInv, Carried
    <3>4. Announced'
      BY <3>1 DEF TransportInv, TransportTypes, Sock, Announced
    <3>5. CASE UNCHANGED <<preserve, sock>>
      BY <3>1, <3>2, <3>3, <3>4, <3>5 DEF TransportInv, Spared, Innocent
    <3>6. CASE preserve' = TRUE /\ sock' = [sock EXCEPT !.state = "closing", !.by = "page"]
      <4>1. sock'.state = "closing" /\ sock'.by = "page" /\ sock'.mute = sock.mute
        BY <3>6 DEF TransportInv, TransportTypes, Sock
      <4>2. Spared'
        BY <2>2, <3>1, <3>6, <4>1 DEF TransportInv, Spared, Innocent
      <4>. QED BY <3>2, <3>3, <3>4, <4>2 DEF TransportInv
    <3>. QED BY <3>1, <3>5, <3>6
  <2>. QED BY <2>1, <2>2
<1>. QED BY <1>1, <1>3, <1>4, <1>6, <1>7

LEMMA TransportKeeps == TransportInv /\ [TransportNext]_transportVars => TransportInv'
<1>. SUFFICES ASSUME TransportInv, [TransportNext]_transportVars PROVE TransportInv'
  OBVIOUS
<1>1. CASE UNCHANGED transportVars
  BY <1>1 DEF transportVars, sockets, TransportInv, TransportTypes, Carried, Announced, Spared, Innocent
<1>2. CASE TransportNext
  <2>1. \A event \in DOMAIN Replaces : Replaces[event] \in BOOLEAN
    <3>1. DOMAIN Replaces = {"focusAfterBlur", "visibleAfterHidden", "restored", "online"}
      BY DEF Replaces
    <3>2. /\ Replaces["focusAfterBlur"] = FALSE /\ Replaces["visibleAfterHidden"] = TRUE
          /\ Replaces["restored"] = TRUE /\ Replaces["online"] = TRUE
      BY DEF Replaces
    <3>. QED BY <3>1, <3>2
  <2>2. \/ Opened \/ AuthRequired \/ RuntimeSnapshot \/ ConnectTimeout \/ HeartbeatTimeout
        \/ Closed \/ HostCloses \/ PathDies
        \/ Hello \/ ShuttingDown \/ Close
        \/ \E h \in Invokes : Invoke(h) \/ InvokeAnswered(h)
        \/ \E r \in Requests : \/ InvokeRealtime(r) \/ SendRealtime(r) \/ SendForgetting(r)
                               \/ ResolveRealtime(r) \/ RequestTimeout(r)
        \/ ReconnectLoop \/ WaitForReconnect \/ \E replace \in BOOLEAN : WakeRealtime(replace)
    BY <1>2, <2>1 DEF TransportNext, TransportSteady
  <2>. QED BY <2>2, SocketSteps, RequestSteps, FiberSteps
<1>. QED BY <1>1, <1>2

\* The realtime connection (web-transport.ts): no command waits on a socket other than the
\* one that carried it, "connected" is said only of a session with its snapshot, and a page
\* that only sleeps and wakes aborts none of its HTTP requests.
THEOREM OwnSocketHolds == TransportSpec => []OwnSocket
<1>1. TransportInv => OwnSocket
  BY DEF TransportInv, TransportTypes, Carried, Announced, Spared, Innocent, OwnSocket
<1>. QED BY <1>1, TransportInitHolds, TransportKeeps, PTL DEF TransportSpec

-----------------------------------------------------------------------------
(* The client of several servers.                                               *)

IsConn(c) == c = [obj |-> c.obj, ver |-> c.ver, status |-> c.status, count |-> c.count]
IsListing(c) == c = [kind |-> "listing", id |-> c.id, open |-> c.open, got |-> c.got]
IsCreate(c) == c = [kind |-> "create", id |-> c.id, server |-> c.server, obj |-> c.obj]

ServersTypes ==
    /\ \A s \in DOMAIN conns : IsConn(conns[s])
    /\ \A c \in calls : IsListing(c) \/ IsCreate(c)

(* A name is owned by the server its resource lives on, whoever registered it;    *)
(* every name the interface holds is registered, and those a listing will give it *)
(* already are.                                                                  *)
NamesHome ==
    /\ \A id \in DOMAIN owners : owners[id] = id.local
    /\ \A n \in held : n.id \in DOMAIN owners /\ n.home = n.id.local
    /\ \A c \in calls : c.kind = "listing" => \A s \in c.got : Name("session", s, s) \in DOMAIN owners

ServersInv == ServersTypes /\ NamesHome /\ Understood /\ FacadeIsActive

LEMMA Registering ==
  ASSUME NEW os, NEW server, NEW kinds
  PROVE  LET after == Registered(os, server, server, kinds) IN
         /\ DOMAIN os \subseteq DOMAIN after
         /\ \A n \in Names(server, server, kinds) : n.id \in DOMAIN after /\ n.home = n.id.local
         /\ \A k \in kinds : Name(k, server, server) \in DOMAIN after
         /\ (\A id \in DOMAIN os : os[id] = id.local) => \A id \in DOMAIN after : after[id] = id.local
<1>. DEFINE ids == {Name(k, server, server) : k \in kinds} \union {Bare(k, server) : k \in kinds \ {"created"}}
            after == Registered(os, server, server, kinds)
<1>1. /\ DOMAIN after = ids \union DOMAIN os
      /\ \A id \in DOMAIN after : after[id] = IF id \in ids THEN server ELSE os[id]
  BY DEF Registered
<1>2. \A id \in ids : id.local = server
  BY DEF Name, Bare
<1>3. \A n \in Names(server, server, kinds) : n.id \in ids /\ n.home = server
  BY DEF Names
<1>4. \A k \in kinds : Name(k, server, server) \in ids
  OBVIOUS
<1>. HIDE DEF ids, after
<1>5. \A n \in Names(server, server, kinds) : n.id \in DOMAIN after /\ n.home = n.id.local
  BY <1>1, <1>2, <1>3
<1>6. (\A id \in DOMAIN os : os[id] = id.local) => \A id \in DOMAIN after : after[id] = id.local
  BY <1>1, <1>2
<1>. QED BY <1>1, <1>4, <1>5, <1>6 DEF after

LEMMA ServersInitHolds == ServersInit => ServersInv
BY DEF ServersInit, ServersInv, ServersTypes, NamesHome, Understood, FacadeIsActive, Fresh, IsConn

(* A step that moves connections, the active server and what is published.       *)
LEMMA ConnectionsOnly ==
  ASSUME ServersInv, UNCHANGED <<owners, held, calls, misrouted>>,
         \A s \in DOMAIN conns' : IsConn(conns'[s]), FacadeIsActive'
  PROVE  ServersInv'
BY DEF ServersInv, ServersTypes, NamesHome, Understood

LEMMA SetServersKeeps ==
  ASSUME ServersInv, NEW defs, SetServers(defs)
  PROVE  ServersInv'
<1>. DEFINE wanted == [s \in DOMAIN defs \union {Current} |-> IF s = Current THEN 0 ELSE defs[s]]
            kept == {s \in DOMAIN conns : s \in DOMAIN wanted /\ conns[s].ver = wanted[s]}
            new == DOMAIN wanted \ kept
            number == CHOOSE f \in [new -> made + 1..made + Cardinality(new)] : IsInjective(f)
<1>1. /\ conns' = [s \in DOMAIN wanted |-> IF s \in kept THEN conns[s] ELSE Fresh(number[s], wanted[s])]
      /\ active' = (IF active \in DOMAIN conns' THEN active ELSE Current)
      /\ snap' = Snapshot(conns', active') /\ ports' = Installed(conns', active')
      /\ UNCHANGED <<owners, calls, held, misrouted>>
  BY DEF SetServers
<1>2. DOMAIN conns' = DOMAIN wanted /\ Current \in DOMAIN wanted /\ kept \subseteq DOMAIN conns
  BY <1>1
<1>. HIDE DEF wanted, kept, new, number
<1>3. \A s \in DOMAIN conns' : IsConn(conns'[s])
  BY <1>1, <1>2 DEF ServersInv, ServersTypes, Fresh, IsConn
<1>4. FacadeIsActive'
  BY <1>1, <1>2 DEF FacadeIsActive, Installed
<1>. QED BY <1>1, <1>3, <1>4, ConnectionsOnly

LEMMA Selecting ==
  ASSUME ServersInv, NEW server, Select(server), UNCHANGED <<conns, calls>>
  PROVE  FacadeIsActive'
<1>1. CASE server \notin DOMAIN conns
  BY <1>1 DEF Select, ServersInv, FacadeIsActive
<1>2. CASE server \in DOMAIN conns
  <2>1. /\ active' = server /\ ports' = conns[server].obj
        /\ snap' = IF server = active THEN snap ELSE Snapshot(conns, server)
    BY <1>2 DEF Select, Installed
  <2>. QED BY <1>2, <2>1 DEF ServersInv, FacadeIsActive
<1>. QED BY <1>1, <1>2

LEMMA ConnectionSteps ==
  ASSUME ServersInv, NEW server, NEW event, SelectServer(server) \/ StatusEvent(server, event)
  PROVE  ServersInv'
<1>1. CASE SelectServer(server)
  <2>1. FacadeIsActive'
    BY <1>1, Selecting DEF SelectServer
  <2>. QED BY <1>1, <2>1, ConnectionsOnly DEF SelectServer, ServersInv, ServersTypes
<1>2. CASE StatusEvent(server, event)
  <2>1. /\ server \in DOMAIN conns
        /\ conns' = [conns EXCEPT ![server].status = StatusAfter(@, event)]
        /\ snap' = Snapshot(conns', active)
        /\ UNCHANGED <<active, ports, owners, calls, held, misrouted>>
    BY <1>2 DEF StatusEvent
  <2>2. conns[server] = [obj |-> conns[server].obj, ver |-> conns[server].ver,
                         status |-> conns[server].status, count |-> conns[server].count]
    BY <2>1 DEF ServersInv, ServersTypes, IsConn
  <2>3. /\ DOMAIN conns' = DOMAIN conns
        /\ \A s \in DOMAIN conns : IsConn(conns'[s]) /\ conns'[s].obj = conns[s].obj
    BY <2>1, <2>2 DEF ServersInv, ServersTypes, IsConn
  <2>4. FacadeIsActive'
    BY <2>1, <2>3 DEF ServersInv, FacadeIsActive
  <2>. QED BY <2>1, <2>3, <2>4, ConnectionsOnly
<1>. QED BY <1>1, <1>2

(* A step that only registers the names of one server and gives some of them to  *)
(* the interface.                                                               *)
LEMMA NamesOnly ==
  ASSUME ServersInv, NEW server, NEW kinds, owners' = Registered(owners, server, server, kinds),
         held' = held \/ held' = held \union Names(server, server, kinds), UNCHANGED misrouted
  PROVE  /\ DOMAIN owners \subseteq DOMAIN owners'
         /\ \A id \in DOMAIN owners' : owners'[id] = id.local
         /\ \A n \in held' : n.id \in DOMAIN owners' /\ n.home = n.id.local
         /\ \A k \in kinds : Name(k, server, server) \in DOMAIN owners'
  BY Registering DEF ServersInv, NamesHome

LEMMA MuxEventKeeps ==
  ASSUME ServersInv, NEW server, MuxEvent(server)
  PROVE  ServersInv'
<1>1. /\ owners' = Registered(owners, server, server, {"session"})
      /\ held' = held \union Names(server, server, {"session"})
      /\ UNCHANGED <<conns, active, ports, snap, calls, misrouted>>
  BY DEF MuxEvent
<1>2. NamesHome'
  BY <1>1, NamesOnly DEF NamesHome, ServersInv
<1>. QED BY <1>1, <1>2 DEF ServersInv, ServersTypes, Understood, FacadeIsActive

LEMMA StartsKeep ==
  ASSUME ServersInv, StartListing \/ StartCreate
  PROVE  ServersInv'
<1>1. CASE StartListing
  <2>. DEFINE call == [kind |-> "listing", id |-> called,
                       open |-> {<<s, conns[s].obj>> : s \in DOMAIN conns}, got |-> {}]
  <2>1. IsListing(call) /\ call.kind = "listing" /\ call.got = {}
    BY DEF IsListing
  <2>2. /\ calls' = calls \union {call}
        /\ UNCHANGED <<conns, active, ports, snap, owners, held, misrouted>>
    BY <1>1 DEF StartListing
  <2>. HIDE DEF call
  <2>3. ServersTypes' /\ NamesHome'
    BY <2>1, <2>2 DEF ServersInv, ServersTypes, NamesHome
  <2>. QED BY <2>1, <2>2, <2>3 DEF ServersInv, Understood, FacadeIsActive
<1>2. CASE StartCreate
  <2>. DEFINE call == [kind |-> "create", id |-> called, server |-> active, obj |-> conns[active].obj]
  <2>1. IsCreate(call) /\ call.kind # "listing"
    BY DEF IsCreate
  <2>2. /\ calls' = calls \union {call}
        /\ UNCHANGED <<conns, active, ports, snap, owners, held, misrouted>>
    BY <1>2 DEF StartCreate
  <2>. HIDE DEF call
  <2>3. ServersTypes' /\ NamesHome'
    BY <2>1, <2>2 DEF ServersInv, ServersTypes, NamesHome
  <2>. QED BY <2>1, <2>2, <2>3 DEF ServersInv, Understood, FacadeIsActive
<1>. QED BY <1>1, <1>2

LEMMA StatusChange ==
  ASSUME NEW c, IsConn(c), NEW s, NEW n, NEW d, d = [c EXCEPT !.status = s, !.count = n]
  PROVE  d = [obj |-> c.obj, ver |-> c.ver, status |-> s, count |-> n]
BY DEF IsConn

LEMMA ListingChange ==
  ASSUME NEW c, IsListing(c), NEW o, NEW g, NEW d, d = [c EXCEPT !.open = o, !.got = g]
  PROVE  d = [kind |-> "listing", id |-> c.id, open |-> o, got |-> g]
<1>1. c = [kind |-> c.kind, id |-> c.id, open |-> c.open, got |-> c.got] /\ c.kind = "listing"
  BY DEF IsListing
<1>2. d = [kind |-> c.kind, id |-> c.id, open |-> o, got |-> g]
  BY <1>1
<1>. QED BY <1>1, <1>2

LEMMA ListingAnswerKeeps ==
  ASSUME ServersInv, NEW call \in calls, NEW entry, NEW ok \in BOOLEAN, ListingAnswer(call, entry, ok)
  PROVE  ServersInv'
<1>. DEFINE server == entry[1]
            after == [call EXCEPT !.open = @ \ {entry}, !.got = IF ok THEN @ \union {server} ELSE @]
<1>1. call.kind = "listing"
  BY DEF ListingAnswer
<1>2. IsListing(call)
  BY <1>1 DEF ServersInv, ServersTypes, IsCreate
<1>3. after = [kind |-> "listing", id |-> call.id, open |-> call.open \ {entry},
               got |-> IF ok THEN call.got \union {server} ELSE call.got]
  <2>. DEFINE got == IF ok THEN call.got \union {server} ELSE call.got
              open == call.open \ {entry}
  <2>1. after = [call EXCEPT !.open = open, !.got = got]
    OBVIOUS
  <2>. HIDE DEF open, got, after
  <2>2. after = [kind |-> "listing", id |-> call.id, open |-> open, got |-> got]
    BY <1>2, <2>1, ListingChange
  <2>. QED BY <2>2 DEF open, got
<1>4. IsListing(after) /\ after.kind = "listing" /\ after.got = IF ok THEN call.got \union {server} ELSE call.got
  BY <1>3 DEF IsListing
<1>5. /\ calls' = (calls \ {call}) \union {after}
      /\ IF ~StillThere(server, entry[2]) THEN UNCHANGED conns
         ELSE conns' = [conns EXCEPT ![server].status = IF ok THEN "connected" ELSE "offline",
                                     ![server].count = IF ok THEN 1 ELSE @]
      /\ owners' = IF ok THEN Registered(owners, server, server, {"session"}) ELSE owners
      /\ UNCHANGED <<active, ports, snap, held, misrouted>>
  BY DEF ListingAnswer
<1>. HIDE DEF after, server
<1>6. /\ DOMAIN conns' = DOMAIN conns
      /\ \A s \in DOMAIN conns : IsConn(conns'[s]) /\ conns'[s].obj = conns[s].obj
  <2>1. CASE ~StillThere(server, entry[2])
    BY <1>5, <2>1 DEF ServersInv, ServersTypes
  <2>2. CASE StillThere(server, entry[2])
    <3>1. server \in DOMAIN conns /\
          conns[server] = [obj |-> conns[server].obj, ver |-> conns[server].ver,
                           status |-> conns[server].status, count |-> conns[server].count]
      BY <2>2 DEF StillThere, ServersInv, ServersTypes, IsConn
    <3>2. conns' = [conns EXCEPT ![server].status = IF ok THEN "connected" ELSE "offline",
                                 ![server].count = IF ok THEN 1 ELSE @]
      BY <1>5, <2>2
    <3>3. /\ DOMAIN conns' = DOMAIN conns /\ \A s \in DOMAIN conns \ {server} : conns'[s] = conns[s]
          /\ conns'[server] = [obj |-> conns[server].obj, ver |-> conns[server].ver,
                               status |-> IF ok THEN "connected" ELSE "offline",
                               count |-> IF ok THEN 1 ELSE conns[server].count]
      <4>. DEFINE verdict == IF ok THEN "connected" ELSE "offline"
                  count == IF ok THEN 1 ELSE conns[server].count
                  told == conns'[server]
      <4>1. DOMAIN conns' = DOMAIN conns /\ \A s \in DOMAIN conns \ {server} : conns'[s] = conns[s]
        BY <3>1, <3>2
      <4>2. told = [conns[server] EXCEPT !.status = verdict, !.count = count]
        BY <3>1, <3>2
      <4>. HIDE DEF verdict, count, told
      <4>3. told = [obj |-> conns[server].obj, ver |-> conns[server].ver, status |-> verdict, count |-> count]
        BY <4>2, StatusChange, <3>1 DEF ServersInv, ServersTypes
      <4>. QED BY <3>1, <4>1, <4>3 DEF verdict, count, told
    <3>. QED BY <3>1, <3>3 DEF ServersInv, ServersTypes, IsConn
  <2>. QED BY <2>1, <2>2
<1>7. /\ DOMAIN owners \subseteq DOMAIN owners'
      /\ \A id \in DOMAIN owners' : owners'[id] = id.local
      /\ \A n \in held' : n.id \in DOMAIN owners' /\ n.home = n.id.local
      /\ ok => Name("session", server, server) \in DOMAIN owners'
  <2>1. CASE ok
    BY <1>5, <2>1, NamesOnly
  <2>2. CASE ~ok
    BY <1>5, <2>2 DEF ServersInv, NamesHome
  <2>. QED BY <2>1, <2>2
<1>8. \A c \in calls' : c.kind = "listing" => \A s \in c.got : Name("session", s, s) \in DOMAIN owners'
  BY <1>1, <1>4, <1>5, <1>7 DEF ServersInv, NamesHome
<1>9. ServersTypes'
  BY <1>4, <1>5, <1>6 DEF ServersInv, ServersTypes
<1>10. FacadeIsActive'
  BY <1>4, <1>5, <1>6 DEF ServersInv, FacadeIsActive
<1>. QED BY <1>5, <1>7, <1>8, <1>9, <1>10 DEF ServersInv, NamesHome, Understood

LEMMA FinishListingKeeps ==
  ASSUME ServersInv, NEW call \in calls, FinishListing(call)
  PROVE  ServersInv'
<1>1. /\ call.kind = "listing" /\ calls' = calls \ {call}
      /\ snap' = Snapshot(conns, active)
      /\ held' = held \union UNION {Names(s, s, {"session"}) : s \in call.got}
      /\ UNCHANGED <<conns, active, ports, owners, misrouted>>
  BY DEF FinishListing
<1>2. \A s \in call.got : \A n \in Names(s, s, {"session"}) : n.id \in DOMAIN owners /\ n.home = n.id.local
  <2>. TAKE s \in call.got
  <2>1. Name("session", s, s) \in DOMAIN owners
    BY <1>1 DEF ServersInv, NamesHome
  <2>. QED BY <2>1 DEF Names, Name
<1>3. NamesHome'
  BY <1>1, <1>2 DEF ServersInv, NamesHome
<1>. QED BY <1>1, <1>3 DEF ServersInv, ServersTypes, Understood, FacadeIsActive

LEMMA CreateAnswerKeeps ==
  ASSUME ServersInv, NEW call \in calls, CreateAnswer(call)
  PROVE  ServersInv'
<1>1. /\ call.kind = "create" /\ calls' = calls \ {call}
      /\ UNCHANGED <<conns, active, ports, snap, misrouted>>
      /\ \/ /\ owners' = Registered(owners, call.server, call.server, {"created"})
            /\ held' = held \union Names(call.server, call.server, {"created"})
         \/ UNCHANGED <<owners, held>>
  BY DEF CreateAnswer, ScopeOfCreated
<1>2. NamesHome'
  BY <1>1, NamesOnly DEF ServersInv, NamesHome
<1>3. ServersTypes' /\ FacadeIsActive'
  BY <1>1 DEF ServersInv, ServersTypes, FacadeIsActive
<1>. QED BY <1>1, <1>2, <1>3 DEF ServersInv, Understood

(* The owner of each name is its home: a move that is let through names resources *)
(* of one home because the code compared the owners, any other request because its *)
(* callers name one session.                                                      *)
LEMMA CommandKeeps ==
  ASSUME ServersInv, NEW n, NEW m, NEW moves \in BOOLEAN, NEW selects \in BOOLEAN,
         Command({n, m}, moves, selects)
  PROVE  ServersInv'
<1>1. /\ {n, m} \subseteq held
      /\ IF moves THEN Accepted({x.id : x \in {n, m}}) ELSE OneSession({n, m})
      /\ UNCHANGED <<conns, owners, calls, held>>
  BY DEF Command
<1>2. PICK first \in {n, m} :
        /\ misrouted' = (misrouted \/ \E x \in {n, m} : x.home # Owner(first.id))
        /\ IF selects THEN Select(Owner(first.id)) ELSE UNCHANGED <<active, ports, snap>>
  BY DEF Command
<1>3. \A x \in {n, m} : Owner(x.id) = x.home
  BY <1>1 DEF ServersInv, NamesHome, Owner
<1>4. Owner(n.id) = Owner(m.id)
  <2>1. CASE ~moves
    BY <1>1, <1>3, <2>1 DEF OneSession
  <2>2. CASE moves
    <3>. DEFINE a == Owner(n.id)  b == Owner(m.id)
    <3>1. {Owner(id) : id \in {x.id : x \in {n, m}}} = {a, b}
      OBVIOUS
    <3>. HIDE DEF a, b
    <3>2. SUFFICES ASSUME a # b PROVE FALSE
      BY DEF a, b
    <3>3. Cardinality({a, b}) = 1
      BY <1>1, <2>2, <3>1 DEF Accepted
    <3>4. IsFiniteSet({a}) /\ Cardinality({a}) = 1
      BY FS_Singleton
    <3>5. Cardinality({a} \union {b}) = Cardinality({a}) + 1
      BY <3>2, <3>4, FS_AddElement
    <3>6. {a} \union {b} = {a, b}
      OBVIOUS
    <3>. QED BY <3>3, <3>4, <3>5, <3>6
  <2>. QED BY <2>1, <2>2
<1>5. ~misrouted'
  BY <1>2, <1>3, <1>4 DEF ServersInv, Understood
<1>6. FacadeIsActive'
  <2>1. CASE selects
    BY <1>1, <1>2, <2>1, Selecting
  <2>2. CASE ~selects
    BY <1>1, <1>2, <2>2 DEF ServersInv, FacadeIsActive
  <2>. QED BY <2>1, <2>2
<1>. QED BY <1>1, <1>5, <1>6 DEF ServersInv, ServersTypes, NamesHome, Understood

LEMMA ServersKeep == ServersInv /\ [ServersNext]_serverVars => ServersInv'
<1>. SUFFICES ASSUME ServersInv, [ServersNext]_serverVars PROVE ServersInv'
  OBVIOUS
<1>1. CASE UNCHANGED serverVars
  BY <1>1 DEF serverVars, ServersInv, ServersTypes, NamesHome, Understood, FacadeIsActive
<1>2. CASE \E on \in SUBSET Remote : \E defs \in [on -> Versions] : SetServers(defs)
  BY <1>2, SetServersKeeps
<1>3. CASE \E s \in Servers :
             \/ SelectServer(s) \/ MuxEvent(s)
             \/ \E e \in {"connected", "synchronizing", "disconnected", "revoked"} : StatusEvent(s, e)
  BY <1>3, ConnectionSteps, MuxEventKeeps
<1>4. CASE StartListing \/ StartCreate
  BY <1>4, StartsKeep
<1>5. CASE \E c \in calls :
             \/ c.kind = "listing" /\ \E a \in c.open, ok \in BOOLEAN : ListingAnswer(c, a, ok)
             \/ FinishListing(c) \/ CreateAnswer(c)
  BY <1>5, ListingAnswerKeeps, FinishListingKeeps, CreateAnswerKeeps
<1>6. CASE \E n \in held, m \in held, moves \in BOOLEAN, selects \in BOOLEAN : Command({n, m}, moves, selects)
  BY <1>6, CommandKeeps
<1>. QED BY <1>1, <1>2, <1>3, <1>4, <1>5, <1>6 DEF ServersNext

\* The client of several servers (multi-server.ts): no request reaches a server that does
\* not know each name in it, and the facade and the published snapshot are those of the
\* active server's present connection, whatever happens to servers while answers are on
\* their way.
THEOREM NamesFindTheirHost == ServersSpec => []RoutesHome
<1>1. ServersInv => RoutesHome
  BY DEF ServersInv, RoutesHome
<1>. QED BY <1>1, ServersInitHolds, ServersKeep, PTL DEF ServersSpec

-----------------------------------------------------------------------------
(* The store and its indexes.                                                   *)

Fields == {"ses", "tab", "term", "visSes", "visTab", "byTab", "bySes", "atSes", "atTab", "atTerm", "known",
           "closingTab", "closingTerm"}
IsStore(st) == DOMAIN st = Fields /\ st = [f \in Fields |-> st[f]]
Indexed(st) ==
    /\ st.visSes = LiveIn(st.ses)
    /\ st.visTab = LiveIn(st.tab) \ st.closingTab
    /\ st.byTab = [t \in Tabs |-> {id \in DOMAIN st.term : Shown(st, id) = {t}}]
    /\ st.bySes = [s \in Sessions |-> {id \in DOMAIN st.term : \E t \in Shown(st, id) : st.term[id].tab[1] = s}]

\* Two stores that differ only in what is selected and known, and in their indexes.
Same(st, v) ==
    /\ v.ses = st.ses /\ v.tab = st.tab /\ v.term = st.term
    /\ v.closingTab = st.closingTab /\ v.closingTerm = st.closingTerm

LEMMA ShownAlike ==
  ASSUME NEW st, NEW v, Same(st, v), v.visTab = st.visTab
  PROVE  \A id : Shown(v, id) = Shown(st, id)
BY DEF Same, Shown, TabFor

LEMMA TermsIndexed ==
  ASSUME NEW st, IsStore(st), st.visSes = LiveIn(st.ses), st.visTab = LiveIn(st.tab) \ st.closingTab
  PROVE  IsStore(TermIndexes(st)) /\ Same(st, TermIndexes(st)) /\ Indexed(TermIndexes(st))
<1> DEFINE v == TermIndexes(st)
<1>1. /\ IsStore(v) /\ Same(st, v) /\ v.visSes = st.visSes /\ v.visTab = st.visTab
      /\ v.byTab = [t \in Tabs |-> {id \in DOMAIN st.term : Shown(st, id) = {t}}]
      /\ v.bySes = [s \in Sessions |-> {id \in DOMAIN st.term : \E t \in Shown(st, id) : st.term[id].tab[1] = s}]
  BY DEF TermIndexes, IsStore, Fields, Same
<1>2. \A id : Shown(v, id) = Shown(st, id)
  BY <1>1, ShownAlike
<1> HIDE DEF v
<1>3. Indexed(v)
  BY <1>1, <1>2 DEF Indexed, Same
<1>. QED BY <1>1, <1>3 DEF v

LEMMA TabsIndexed ==
  ASSUME NEW st, IsStore(st), st.visSes = LiveIn(st.ses)
  PROVE  IsStore(TabIndexes(st)) /\ Same(st, TabIndexes(st)) /\ Indexed(TabIndexes(st))
<1> DEFINE u == [st EXCEPT !.visTab = LiveIn(st.tab) \ st.closingTab]
<1>1. IsStore(u) /\ Same(st, u) /\ u.visSes = LiveIn(u.ses) /\ u.visTab = LiveIn(u.tab) \ u.closingTab
  BY DEF IsStore, Fields, Same
<1>2. TabIndexes(st) = TermIndexes(u)
  BY DEF TabIndexes
<1> HIDE DEF u
<1>. QED BY <1>1, <1>2, TermsIndexed DEF Same

LEMMA SessionsIndexed ==
  ASSUME NEW st, IsStore(st)
  PROVE  /\ IsStore(SesIndexes(st)) /\ Same(st, SesIndexes(st)) /\ SesIndexes(st).visSes = LiveIn(SesIndexes(st).ses)
         /\ SesIndexes(st).visTab = st.visTab /\ SesIndexes(st).byTab = st.byTab /\ SesIndexes(st).bySes = st.bySes
BY DEF SesIndexes, IsStore, Fields, Same

LEMMA Reselects ==
  ASSUME NEW st, IsStore(st)
  PROVE  /\ IsStore(Reselected(st)) /\ Same(st, Reselected(st)) /\ (Indexed(st) => Indexed(Reselected(st)))
         /\ Reselected(Reselected(st)) = Reselected(st)
<1> DEFINE s == IF st.atSes \in st.visSes THEN st.atSes
                ELSE IF st.visSes = {} THEN 0 ELSE Lowest(st.visSes)
           t == IF s = 0 THEN NoTab
                ELSE IF st.atTab \in TabsOf(st, s) THEN st.atTab ELSE SelectedTab(st, s)
           i == IF t = NoTab THEN 0
                ELSE IF st.atTerm \in st.byTab[t] THEN st.atTerm ELSE SelectedTerm(st, t)
           v == [st EXCEPT !.atSes = s, !.atTab = t, !.atTerm = i]
<1>1. Reselected(st) = v
  BY DEF Reselected
<1>2. PICK s0, t0, i0 : s0 = s /\ t0 = t /\ i0 = i
  OBVIOUS
<1>3. PICK w : w = [st EXCEPT !.atSes = s0, !.atTab = t0, !.atTerm = i0]
  OBVIOUS
<1>4. /\ IsStore(w) /\ Same(st, w) /\ w.visSes = st.visSes /\ w.visTab = st.visTab
      /\ w.byTab = st.byTab /\ w.bySes = st.bySes /\ w.atSes = s0 /\ w.atTab = t0 /\ w.atTerm = i0
  BY <1>3 DEF IsStore, Fields, Same
<1>5. w = v
  BY <1>2, <1>3
<1> HIDE DEF s, t, i, v
<1>6. Indexed(st) => Indexed(w)
  <2>1. \A id : Shown(w, id) = Shown(st, id)
    BY <1>4, ShownAlike
  <2>. QED BY <1>4, <2>1 DEF Indexed, Same
<1>7. Reselected(w) = w
  <2>1. TabsOf(w, s0) = TabsOf(st, s0) /\ SelectedTab(w, s0) = SelectedTab(st, s0)
    BY <1>4 DEF TabsOf, SelectedTab, Same
  <2>2. SelectedTerm(w, t0) = SelectedTerm(st, t0)
    BY <1>4 DEF SelectedTerm, Same
  <2>3. (IF w.atSes \in w.visSes THEN w.atSes ELSE IF w.visSes = {} THEN 0 ELSE Lowest(w.visSes)) = s0
    BY <1>2, <1>4 DEF s
  <2>4. (IF s0 = 0 THEN NoTab
         ELSE IF w.atTab \in TabsOf(w, s0) THEN w.atTab ELSE SelectedTab(w, s0)) = t0
    BY <1>2, <1>4, <2>1 DEF t
  <2>5. (IF t0 = NoTab THEN 0
         ELSE IF w.atTerm \in w.byTab[t0] THEN w.atTerm ELSE SelectedTerm(w, t0)) = i0
    BY <1>2, <1>4, <2>2 DEF i
  <2>6. Reselected(w) = [w EXCEPT !.atSes = s0, !.atTab = t0, !.atTerm = i0]
    BY <2>3, <2>4, <2>5 DEF Reselected
  <2>7. [w EXCEPT !.atSes = s0, !.atTab = t0, !.atTerm = i0] = w
    BY <1>3
  <2>. QED BY <2>6, <2>7
<1>. QED BY <1>1, <1>4, <1>5, <1>6, <1>7
\* The states of the store while the requests fail one after the other.
Turns(st, list, f) ==
    /\ AfterFailures(st, list) = f[Len(list)]
    /\ f = [n \in 0..Len(list) |-> IF n = 0 THEN st ELSE Failed(f[n - 1], list[n])]

LEMMA FailuresInTurn ==
  ASSUME NEW st, NEW list, Len(list) \in Nat
  PROVE  \E f : Turns(st, list, f)
<1> DEFINE Ran(f, m) == f = [n \in 0..m |-> IF n = 0 THEN st ELSE Failed(f[n - 1], list[n])]
           Stuck == {m \in Nat : ~\E f : Ran(f, m)}
<1>1. Stuck = {}
  <2>. SUFFICES ASSUME Stuck # {} PROVE FALSE
    OBVIOUS
  <2>1. PICK m \in Stuck : \A k \in Stuck : ~(<<k, m>> \in EarlierId)
    <3>1. Stuck \subseteq Nat
      OBVIOUS
    <3> HIDE DEF Stuck
    <3>. QED BY <3>1, EarlierWellFounded, WFMin
  <2>2. m \in Nat /\ ~\E f : Ran(f, m)
    OBVIOUS
  <2>3. m # 0
    <3>1. Ran([n \in 0..0 |-> st], 0)
      OBVIOUS
    <3>. QED BY <2>2, <3>1
  <2>4. m - 1 \in Nat /\ <<m - 1, m>> \in EarlierId
    BY <2>2, <2>3 DEF EarlierId
  <2>5. PICK g : Ran(g, m - 1)
    BY <2>1, <2>4
  <2> DEFINE h == [n \in 0..m |-> IF n = m THEN Failed(g[m - 1], list[m]) ELSE g[n]]
  <2>6. \A n \in 0..m : h[n] = IF n = 0 THEN st ELSE Failed(h[n - 1], list[n])
    <3>. SUFFICES ASSUME NEW n \in 0..m PROVE h[n] = IF n = 0 THEN st ELSE Failed(h[n - 1], list[n])
      OBVIOUS
    <3>1. CASE n = m
      <4>1. m - 1 \in 0..m /\ m - 1 # m
        BY <2>2, <2>3
      <4>2. h[m - 1] = g[m - 1] /\ h[m] = Failed(g[m - 1], list[m])
        BY <2>2, <4>1
      <4>. QED BY <2>3, <3>1, <4>2
    <3>2. CASE n # m
      <4>1. n \in 0..m - 1
        BY <2>2, <3>2
      <4>2. h[n] = g[n]
        BY <3>2
      <4>3. g[n] = IF n = 0 THEN st ELSE Failed(g[n - 1], list[n])
        <5>1. g = [k \in 0..m - 1 |-> IF k = 0 THEN st ELSE Failed(g[k - 1], list[k])]
          BY <2>5
        <5>. QED BY <4>1, <5>1
      <4>4. n # 0 => n - 1 \in 0..m /\ n - 1 # m /\ h[n - 1] = g[n - 1]
        BY <2>2, <4>1
      <4>. QED BY <4>2, <4>3, <4>4
    <3>. QED BY <3>1, <3>2
  <2>7. Ran(h, m)
    <3>1. h = [n \in 0..m |-> h[n]]
      OBVIOUS
    <3> HIDE DEF h
    <3>2. [n \in 0..m |-> h[n]] = [n \in 0..m |-> IF n = 0 THEN st ELSE Failed(h[n - 1], list[n])]
      BY <2>6
    <3>. QED BY <3>1, <3>2
  <2>. QED BY <2>2, <2>7
<1>2. \E f : Ran(f, Len(list))
  BY <1>1
<1>3. Ran(CHOOSE f : Ran(f, Len(list)), Len(list))
  BY <1>2
<1>4. AfterFailures(st, list) = (CHOOSE f : Ran(f, Len(list)))[Len(list)]
  BY DEF AfterFailures
<1>. QED BY <1>3, <1>4 DEF Turns

-----------------------------------------------------------------------------
(* A store whose indexes are those of a rebuild and whose selection is stable.  *)

Coherent(st) == IsStore(st) /\ Indexed(st) /\ Reselected(st) = st

LEMMA Reselecting ==
  ASSUME NEW st, IsStore(st), Indexed(st)
  PROVE  Coherent(Reselected(st)) /\ Same(st, Reselected(st))
BY Reselects DEF Coherent

LEMMA CoherentHolds ==
  ASSUME NEW st, Coherent(st)
  PROVE  st = TabIndexes(SesIndexes(st)) /\ st = Reselected(st)
<1>1. IsStore(st) /\ Indexed(st)
  BY DEF Coherent
<1>2. PICK u : u = SesIndexes(st)
  OBVIOUS
<1>3. [st EXCEPT !.visSes = st.visSes] = st /\ [st EXCEPT !.visTab = st.visTab] = st
      /\ [st EXCEPT !.byTab = st.byTab, !.bySes = st.bySes] = st
  BY <1>1 DEF IsStore, Fields
<1>4. SesIndexes(st) = st
  BY <1>1, <1>3 DEF SesIndexes, Indexed
<1>5. [st EXCEPT !.visTab = LiveIn(st.tab) \ st.closingTab] = st
  BY <1>1, <1>3 DEF Indexed
<1>6. TermIndexes(st) = st
  BY <1>1, <1>3 DEF TermIndexes, Indexed
<1>7. TabIndexes(st) = st
  BY <1>5, <1>6 DEF TabIndexes
<1>. QED BY <1>4, <1>7 DEF Coherent

LEMMA Rebuilds ==
  ASSUME NEW st, IsStore(st)
  PROVE  /\ Coherent(Rebuilt(st))
         /\ Rebuilt(st).ses = st.ses /\ Rebuilt(st).tab = st.tab /\ Rebuilt(st).term = st.term
         /\ Rebuilt(st).closingTab = st.closingTab \intersect LiveIn(st.tab)
         /\ Rebuilt(st).closingTerm = st.closingTerm \intersect LiveIn(st.term)
<1>1. PICK u : u = [st EXCEPT !.closingTab = @ \intersect LiveIn(st.tab),
                              !.closingTerm = @ \intersect LiveIn(st.term)]
  OBVIOUS
<1>2. /\ IsStore(u) /\ u.ses = st.ses /\ u.tab = st.tab /\ u.term = st.term
      /\ u.closingTab = st.closingTab \intersect LiveIn(st.tab)
      /\ u.closingTerm = st.closingTerm \intersect LiveIn(st.term)
  BY <1>1 DEF IsStore, Fields
<1>3. PICK v : v = SesIndexes(u)
  OBVIOUS
<1>4. IsStore(v) /\ Same(u, v) /\ v.visSes = LiveIn(v.ses)
  BY <1>2, <1>3, SessionsIndexed
<1>5. PICK w : w = TabIndexes(v)
  OBVIOUS
<1>6. IsStore(w) /\ Same(v, w) /\ Indexed(w)
  BY <1>4, <1>5, TabsIndexed
<1>7. Rebuilt(st) = Reselected(w)
  BY <1>1, <1>3, <1>5 DEF Rebuilt
<1>8. Coherent(Reselected(w)) /\ Same(w, Reselected(w))
  BY <1>6, Reselecting
<1>. QED BY <1>2, <1>4, <1>6, <1>7, <1>8 DEF Same

LEMMA MergesCoherently ==
  ASSUME NEW st, NEW answer, NEW base, IsStore(st)
  PROVE  /\ Coherent(MergeListing(st, answer, base))
         /\ MergeListing(st, answer, base).ses = Merged(st.ses, answer.ses, base.ses)
         /\ MergeListing(st, answer, base).tab
              = WithFallbacks(Merged(st.ses, answer.ses, base.ses), Merged(st.tab, answer.tab, base.tab))
         /\ MergeListing(st, answer, base).term = Merged(st.term, answer.term, base.term)
<1>1. PICK ses, tab, term, k :
        /\ ses = Merged(st.ses, answer.ses, base.ses)
        /\ tab = WithFallbacks(ses, Merged(st.tab, answer.tab, base.tab))
        /\ term = Merged(st.term, answer.term, base.term)
        /\ k = [ses |-> LearnedAll(LearnedAll(st.known.ses, ses), base.ses),
                tab |-> LearnedAll(LearnedAll(st.known.tab, tab), base.tab),
                term |-> LearnedAll(LearnedAll(st.known.term, term), base.term)]
  OBVIOUS
<1>2. PICK u : u = [st EXCEPT !.ses = ses, !.tab = tab, !.term = term, !.known = k]
  OBVIOUS
<1>3. MergeListing(st, answer, base) = Rebuilt(u)
  BY <1>1, <1>2 DEF MergeListing
<1>4. IsStore(u) /\ u.ses = ses /\ u.tab = tab /\ u.term = term
  BY <1>2 DEF IsStore, Fields
<1>. QED BY <1>1, <1>3, <1>4, Rebuilds

LEMMA ReplacesCoherently ==
  ASSUME NEW st, NEW ses, NEW tab, NEW term, IsStore(st)
  PROVE  /\ Coherent(Replaced(st, ses, tab, term))
         /\ Replaced(st, ses, tab, term).ses = ses
         /\ Replaced(st, ses, tab, term).tab = WithFallbacks(ses, tab)
         /\ Replaced(st, ses, tab, term).term = term
         /\ Replaced(st, ses, tab, term).closingTerm \subseteq LiveIn(term)
<1>1. PICK k, tabs :
        /\ k = [ses |-> LearnedAll(st.known.ses, ses), tab |-> LearnedAll(st.known.tab, tab),
                term |-> LearnedAll(st.known.term, term)]
        /\ tabs = WithFallbacks(ses, tab)
  OBVIOUS
<1>2. PICK u : u = [st EXCEPT !.ses = ses, !.tab = tabs, !.term = term, !.known = k]
  OBVIOUS
<1>3. Replaced(st, ses, tab, term) = Rebuilt(u)
  BY <1>1, <1>2 DEF Replaced
<1>4. IsStore(u) /\ u.ses = ses /\ u.tab = tabs /\ u.term = term
  BY <1>2 DEF IsStore, Fields
<1>. QED BY <1>1, <1>3, <1>4, Rebuilds

-----------------------------------------------------------------------------
(* Closes that are settled.                                                     *)

\* What a confirmed close may still be staged for: something that is not shown any more.
Gone(st, kind, id) ==
    IF kind = "closeTerm" THEN id \in st.closingTerm /\ id \in DOMAIN st.term => st.term[id].dead
    ELSE id \in st.closingTab => id \in DOMAIN st.tab /\ st.tab[id].dead

LEMMA ConfirmsCoherently ==
  ASSUME NEW st, NEW kind, NEW id, Coherent(st), Gone(st, kind, id)
  PROVE  /\ Coherent(Confirmed(st, kind, id))
         /\ Confirmed(st, kind, id).ses = st.ses /\ Confirmed(st, kind, id).tab = st.tab
         /\ Confirmed(st, kind, id).term = st.term
<1>1. PICK w : w = Confirmed(st, kind, id)
  OBVIOUS
<1>2. /\ IsStore(w) /\ w.ses = st.ses /\ w.tab = st.tab /\ w.term = st.term
      /\ w.visSes = st.visSes /\ w.visTab = st.visTab /\ w.byTab = st.byTab /\ w.bySes = st.bySes
      /\ w.atSes = st.atSes /\ w.atTab = st.atTab /\ w.atTerm = st.atTerm
      /\ w.closingTerm = (IF kind = "closeTerm" THEN st.closingTerm \ {id} ELSE st.closingTerm)
      /\ w.closingTab = (IF kind = "closeTerm" THEN st.closingTab ELSE st.closingTab \ {id})
  BY <1>1 DEF Coherent, Confirmed, IsStore, Fields
<1>3. IsStore(st) /\ Indexed(st) /\ Reselected(st) = st
  BY DEF Coherent
<1>4. LiveIn(st.tab) \ w.closingTab = LiveIn(st.tab) \ st.closingTab
  BY <1>2 DEF LiveIn, Gone
<1>5. \A x \in DOMAIN st.term : Shown(w, x) = Shown(st, x)
  <2> TAKE x \in DOMAIN st.term
  <2>1. PICK b : b = TabFor(st, st.term[x])
    OBVIOUS
  <2>2. TabFor(w, w.term[x]) = b /\ w.term[x] = st.term[x] /\ w.tab = st.tab
    BY <1>2, <2>1 DEF TabFor
  <2>3. kind = "closeTerm" /\ x = id /\ x \in st.closingTerm => st.term[x].dead
    BY DEF Gone
  <2>4. CASE kind = "closeTerm"
    <3>1. st.term[x].dead \/ (x \in w.closingTerm <=> x \in st.closingTerm)
      BY <1>2, <2>3, <2>4
    <3>. QED BY <1>2, <2>1, <2>2, <2>4, <3>1 DEF Shown
  <2>5. CASE kind # "closeTerm"
    <3>1. st.tab[b].dead \/ (b \in w.closingTab <=> b \in st.closingTab)
      BY <1>2, <2>5 DEF Gone
    <3>. QED BY <1>2, <2>1, <2>2, <2>5, <3>1 DEF Shown
  <2>. QED BY <2>4, <2>5
<1>6. Indexed(w)
  <2>1. \A t : {x \in DOMAIN w.term : Shown(w, x) = {t}} = {x \in DOMAIN st.term : Shown(st, x) = {t}}
    BY <1>2, <1>5
  <2>2. \A s : {x \in DOMAIN w.term : \E t \in Shown(w, x) : w.term[x].tab[1] = s}
                = {x \in DOMAIN st.term : \E t \in Shown(st, x) : st.term[x].tab[1] = s}
    BY <1>2, <1>5
  <2>3. w.byTab = [t \in Tabs |-> {x \in DOMAIN st.term : Shown(st, x) = {t}}]
    BY <1>2, <1>3 DEF Indexed
  <2>4. w.bySes = [s \in Sessions |-> {x \in DOMAIN st.term : \E t \in Shown(st, x) : st.term[x].tab[1] = s}]
    BY <1>2, <1>3 DEF Indexed
  <2>5. w.byTab = [t \in Tabs |-> {x \in DOMAIN w.term : Shown(w, x) = {t}}]
    BY ONLY <2>1, <2>3
  <2>6. w.bySes = [s \in Sessions |-> {x \in DOMAIN w.term : \E t \in Shown(w, x) : w.term[x].tab[1] = s}]
    BY ONLY <2>2, <2>4
  <2>7. w.visSes = LiveIn(w.ses) /\ w.visTab = LiveIn(w.tab) \ w.closingTab
    BY <1>2, <1>3, <1>4 DEF Indexed
  <2>. QED BY <2>5, <2>6, <2>7 DEF Indexed
<1>7. Reselected(w) = w
  <2>1. \A s : TabsOf(w, s) = TabsOf(st, s) /\ SelectedTab(w, s) = SelectedTab(st, s)
    BY <1>2 DEF TabsOf, SelectedTab
  <2>2. \A t : SelectedTerm(w, t) = SelectedTerm(st, t)
    BY <1>2 DEF SelectedTerm
  <2>3. /\ Reselected(st).atSes = st.atSes /\ Reselected(st).atTab = st.atTab /\ Reselected(st).atTerm = st.atTerm
    BY <1>3
  <2> DEFINE S(v) == IF v.atSes \in v.visSes THEN v.atSes ELSE IF v.visSes = {} THEN 0 ELSE Lowest(v.visSes)
             T(v) == IF S(v) = 0 THEN NoTab
                     ELSE IF v.atTab \in TabsOf(v, S(v)) THEN v.atTab ELSE SelectedTab(v, S(v))
             I(v) == IF T(v) = NoTab THEN 0
                     ELSE IF v.atTerm \in v.byTab[T(v)] THEN v.atTerm ELSE SelectedTerm(v, T(v))
  <2>4. S(w) = S(st)
    BY <1>2
  <2>5. T(w) = T(st)
    BY <1>2, <2>1, <2>4
  <2>6. I(w) = I(st)
    BY <1>2, <2>2, <2>5
  <2>7. S(st) = st.atSes /\ T(st) = st.atTab /\ I(st) = st.atTerm
    <3>1. \A v : Reselected(v) = [v EXCEPT !.atSes = S(v), !.atTab = T(v), !.atTerm = I(v)]
      BY DEF Reselected
    <3> HIDE DEF S, T, I
    <3>2. Reselected(st) = [st EXCEPT !.atSes = S(st), !.atTab = T(st), !.atTerm = I(st)]
      BY <3>1
    <3>. QED BY <1>3, <2>3, <3>2 DEF IsStore, Fields
  <2>8. Reselected(w) = [w EXCEPT !.atSes = S(w), !.atTab = T(w), !.atTerm = I(w)]
    BY DEF Reselected
  <2> HIDE DEF S, T, I
  <2>9. Reselected(w) = [w EXCEPT !.atSes = w.atSes, !.atTab = w.atTab, !.atTerm = w.atTerm]
    BY <1>2, <2>4, <2>5, <2>6, <2>7, <2>8
  <2>. QED BY <1>2, <2>9 DEF IsStore, Fields
<1>. QED BY <1>1, <1>2, <1>6, <1>7 DEF Coherent

LEMMA RollsBackCoherently ==
  ASSUME NEW st, NEW kind, NEW id, Coherent(st)
  PROVE  /\ Coherent(RolledBack(st, kind, id))
         /\ RolledBack(st, kind, id).ses = st.ses /\ RolledBack(st, kind, id).tab = st.tab
         /\ RolledBack(st, kind, id).term = st.term
<1>1. PICK w : w = Confirmed(st, kind, id)
  OBVIOUS
<1>2. IsStore(w) /\ w.ses = st.ses /\ w.tab = st.tab /\ w.term = st.term /\ w.visSes = st.visSes
  BY <1>1 DEF Coherent, Confirmed, IsStore, Fields
<1>3. st.visSes = LiveIn(st.ses)
  BY DEF Coherent, Indexed
<1>4. PICK v : v = TabIndexes(w)
  OBVIOUS
<1>5. IsStore(v) /\ Same(w, v) /\ Indexed(v)
  BY <1>2, <1>3, <1>4, TabsIndexed
<1>6. Coherent(Reselected(v)) /\ Same(v, Reselected(v))
  BY <1>5, Reselecting
<1>. QED BY <1>1, <1>2, <1>4, <1>5, <1>6 DEF RolledBack, Same

LEMMA RecoversCoherently ==
  ASSUME NEW st, NEW kind, NEW id, Coherent(st)
  PROVE  /\ Coherent(Recovered(st, kind, id))
         /\ Recovered(st, kind, id).ses = st.ses /\ Recovered(st, kind, id).tab = st.tab
         /\ Recovered(st, kind, id).term = st.term
<1> DEFINE map == IF kind = "closeTerm" THEN st.term ELSE st.tab
<1>1. CASE id \in DOMAIN map /\ map[id].dead
  <2>1. Gone(st, kind, id)
    BY <1>1 DEF Gone
  <2>2. Recovered(st, kind, id) = Confirmed(st, kind, id)
    BY <1>1 DEF Recovered
  <2>. QED BY <2>1, <2>2, ConfirmsCoherently
<1>2. CASE ~(id \in DOMAIN map /\ map[id].dead)
  <2>1. Recovered(st, kind, id) = RolledBack(st, kind, id)
    BY <1>2 DEF Recovered
  <2>. QED BY <2>1, RollsBackCoherently
<1>. QED BY <1>1, <1>2

LEMMA FailsCoherently ==
  ASSUME NEW st, NEW a, Coherent(st)
  PROVE  /\ Coherent(Failed(st, a))
         /\ Failed(st, a).ses = st.ses /\ Failed(st, a).tab = st.tab /\ Failed(st, a).term = st.term
BY RecoversCoherently DEF Failed

\* Were one of the requests to break what held before it failed, there would be a first one.
LEMMA AllFailCoherently ==
  ASSUME NEW st, NEW list, Len(list) \in Nat, Coherent(st)
  PROVE  /\ Coherent(AfterFailures(st, list))
         /\ AfterFailures(st, list).ses = st.ses /\ AfterFailures(st, list).tab = st.tab
         /\ AfterFailures(st, list).term = st.term
<1>0. \E f : Turns(st, list, f)
  BY FailuresInTurn
<1>1. PICK f : /\ AfterFailures(st, list) = f[Len(list)]
               /\ f = [n \in 0..Len(list) |-> IF n = 0 THEN st ELSE Failed(f[n - 1], list[n])]
  BY <1>0 DEF Turns
<1> DEFINE Fine(v) == Coherent(v) /\ v.ses = st.ses /\ v.tab = st.tab /\ v.term = st.term
           Broken == {m \in 0..Len(list) : ~Fine(f[m])}
<1>2. Broken = {}
  <2>. SUFFICES ASSUME Broken # {} PROVE FALSE
    OBVIOUS
  <2>1. PICK m \in Broken : \A k \in Broken : ~(<<k, m>> \in EarlierId)
    <3>1. Broken \subseteq Nat
      OBVIOUS
    <3> HIDE DEF Broken
    <3>. QED BY <3>1, EarlierWellFounded, WFMin
  <2>2. m \in 0..Len(list) /\ ~Fine(f[m])
    OBVIOUS
  <2>3. f[m] = IF m = 0 THEN st ELSE Failed(f[m - 1], list[m])
    BY <1>1, <2>2
  <2>4. m # 0
    BY <2>2, <2>3
  <2>5. m - 1 \in 0..Len(list) /\ <<m - 1, m>> \in EarlierId
    BY <2>2, <2>4 DEF EarlierId
  <2>6. Fine(f[m - 1])
    BY <2>1, <2>5
  <2>7. Fine(f[m])
    BY <2>3, <2>4, <2>6, FailsCoherently
  <2>. QED BY <2>2, <2>7
<1>3. Fine(f[Len(list)])
  BY <1>2
<1>. QED BY <1>1, <1>3

LEMMA HidesTerm ==
  ASSUME NEW st, NEW i, Coherent(st)
  PROVE  LET v == Reselected(TermIndexes([st EXCEPT !.closingTerm = @ \union {i}]))
         IN  Coherent(v) /\ v.ses = st.ses /\ v.tab = st.tab /\ v.term = st.term
<1>1. PICK u : u = [st EXCEPT !.closingTerm = @ \union {i}]
  OBVIOUS
<1>2. /\ IsStore(u) /\ u.ses = st.ses /\ u.tab = st.tab /\ u.term = st.term
      /\ u.visSes = LiveIn(u.ses) /\ u.visTab = LiveIn(u.tab) \ u.closingTab
  BY <1>1 DEF Coherent, Indexed, IsStore, Fields
<1>3. PICK w : w = TermIndexes(u)
  OBVIOUS
<1>4. IsStore(w) /\ Same(u, w) /\ Indexed(w)
  BY <1>2, <1>3, TermsIndexed
<1>5. Coherent(Reselected(w)) /\ Same(w, Reselected(w))
  BY <1>4, Reselecting
<1>. QED BY <1>1, <1>2, <1>3, <1>4, <1>5 DEF Same

LEMMA HidesTab ==
  ASSUME NEW st, NEW t, Coherent(st)
  PROVE  LET v == Reselected(TabIndexes([st EXCEPT !.closingTab = @ \union {t}]))
         IN  Coherent(v) /\ v.ses = st.ses /\ v.tab = st.tab /\ v.term = st.term
<1>1. PICK u : u = [st EXCEPT !.closingTab = @ \union {t}]
  OBVIOUS
<1>2. /\ IsStore(u) /\ u.ses = st.ses /\ u.tab = st.tab /\ u.term = st.term /\ u.visSes = LiveIn(u.ses)
  BY <1>1 DEF Coherent, Indexed, IsStore, Fields
<1>3. PICK w : w = TabIndexes(u)
  OBVIOUS
<1>4. IsStore(w) /\ Same(u, w) /\ Indexed(w)
  BY <1>2, <1>3, TabsIndexed
<1>5. Coherent(Reselected(w)) /\ Same(w, Reselected(w))
  BY <1>4, Reselecting
<1>. QED BY <1>1, <1>2, <1>3, <1>4, <1>5 DEF Same

-----------------------------------------------------------------------------
(* A terminal put in its place without a rebuild.                               *)

LEMMA ShownInOne ==
  ASSUME NEW st, NEW id
  PROVE  Shown(st, id) = {} \/ Shown(st, id) = {TabFor(st, st.term[id])}
BY DEF Shown

\* The indexes are right for every terminal but id, which is at most where it would be shown.
Nearly(st, id) ==
    /\ st.visSes = LiveIn(st.ses) /\ st.visTab = LiveIn(st.tab) \ st.closingTab
    /\ st.byTab = [t \in Tabs |-> st.byTab[t]] /\ st.bySes = [s \in Sessions |-> st.bySes[s]]
    /\ \A t \in Tabs : \A x : x # id => (x \in st.byTab[t] <=> x \in DOMAIN st.term /\ Shown(st, x) = {t})
    /\ \A s \in Sessions : \A x : x # id =>
          (x \in st.bySes[s] <=> x \in DOMAIN st.term /\ Shown(st, x) # {} /\ st.term[x].tab[1] = s)
    /\ \A t \in Tabs : id \in st.byTab[t] => id \in LiveIn(st.term) /\ t = TabFor(st, st.term[id])
    /\ \A s \in Sessions : id \in st.bySes[s] => id \in LiveIn(st.term) /\ s = st.term[id].tab[1]

LEMMA IndexedNearly ==
  ASSUME NEW st, NEW id, IsStore(st), Indexed(st)
  PROVE  Nearly(st, id)
<1>1. \A t \in Tabs : \A x : x \in st.byTab[t] <=> x \in DOMAIN st.term /\ Shown(st, x) = {t}
  BY DEF Indexed
<1>2. \A s \in Sessions : \A x : x \in st.bySes[s] <=> x \in DOMAIN st.term /\ \E t \in Shown(st, x) : st.term[x].tab[1] = s
  BY DEF Indexed
<1>3. \A x : Shown(st, x) # {} => ~st.term[x].dead /\ Shown(st, x) = {TabFor(st, st.term[x])}
  BY DEF Shown
<1>4. \A s \in Sessions : \A x :
        x \in st.bySes[s] <=> x \in DOMAIN st.term /\ Shown(st, x) # {} /\ st.term[x].tab[1] = s
  BY <1>2
<1>5. \A t \in Tabs : id \in st.byTab[t] => id \in LiveIn(st.term) /\ t = TabFor(st, st.term[id])
  BY <1>1, <1>3 DEF LiveIn
<1>6. \A s \in Sessions : id \in st.bySes[s] => id \in LiveIn(st.term) /\ s = st.term[id].tab[1]
  BY <1>3, <1>4 DEF LiveIn
<1>7. st.byTab = [t \in Tabs |-> st.byTab[t]] /\ st.bySes = [s \in Sessions |-> st.bySes[s]]
  BY DEF Indexed
<1>8. st.visSes = LiveIn(st.ses) /\ st.visTab = LiveIn(st.tab) \ st.closingTab
  BY DEF Indexed
<1>. QED BY <1>1, <1>4, <1>5, <1>6, <1>7, <1>8 DEF Nearly

LEMMA IndexedPointwise ==
  ASSUME NEW st, st.visSes = LiveIn(st.ses), st.visTab = LiveIn(st.tab) \ st.closingTab,
         st.byTab = [t \in Tabs |-> st.byTab[t]], st.bySes = [s \in Sessions |-> st.bySes[s]],
         \A t \in Tabs : \A x : x \in st.byTab[t] <=> x \in DOMAIN st.term /\ Shown(st, x) = {t},
         \A s \in Sessions : \A x : x \in st.bySes[s] <=> x \in DOMAIN st.term /\ Shown(st, x) # {} /\ st.term[x].tab[1] = s
  PROVE  Indexed(st)
<1>1. \A t \in Tabs : st.byTab[t] = {x \in DOMAIN st.term : Shown(st, x) = {t}}
  OBVIOUS
<1>2. st.byTab = [t \in Tabs |-> {x \in DOMAIN st.term : Shown(st, x) = {t}}]
  BY <1>1
<1>3. \A s \in Sessions : st.bySes[s] = {x \in DOMAIN st.term : \E t \in Shown(st, x) : st.term[x].tab[1] = s}
  OBVIOUS
<1>4. st.bySes = [s \in Sessions |-> {x \in DOMAIN st.term : \E t \in Shown(st, x) : st.term[x].tab[1] = s}]
  BY <1>3
<1>. QED BY <1>2, <1>4 DEF Indexed

LEMMA Leaves ==
  ASSUME NEW st, NEW id, IsStore(st), Nearly(st, id)
  PROVE  LET v == IF id \in LiveIn(st.term) THEN Left(st, id) ELSE st
         IN  /\ IsStore(v) /\ Same(st, v) /\ v.visSes = st.visSes /\ v.visTab = st.visTab
             /\ v.byTab = [t \in Tabs |-> v.byTab[t]] /\ v.bySes = [s \in Sessions |-> v.bySes[s]]
             /\ \A t \in Tabs : \A x : x \in v.byTab[t] <=> x # id /\ x \in st.byTab[t]
             /\ \A s \in Sessions : \A x : x \in v.bySes[s] <=> x # id /\ x \in st.bySes[s]
<1>1. PICK v : v = IF id \in LiveIn(st.term) THEN Left(st, id) ELSE st
  OBVIOUS
<1>2. /\ \A t \in Tabs : id \in st.byTab[t] => id \in LiveIn(st.term) /\ t = TabFor(st, st.term[id])
      /\ \A s \in Sessions : id \in st.bySes[s] => id \in LiveIn(st.term) /\ s = st.term[id].tab[1]
      /\ st.byTab = [t \in Tabs |-> st.byTab[t]] /\ st.bySes = [s \in Sessions |-> st.bySes[s]]
  BY DEF Nearly
<1>3. CASE id \notin LiveIn(st.term)
  <2>1. v = st
    BY <1>1, <1>3
  <2>. QED BY <1>1, <1>2, <1>3, <2>1 DEF Same
<1>4. CASE id \in LiveIn(st.term)
  <2>1. PICK b, h : b = TabFor(st, st.term[id]) /\ h = st.term[id].tab[1]
    OBVIOUS
  <2>2. v = [st EXCEPT !.byTab = [t \in Tabs |-> IF t = b THEN st.byTab[t] \ {id} ELSE st.byTab[t]],
                       !.bySes = [st.bySes EXCEPT ![h] = @ \ {id}]]
    BY <1>1, <1>4, <2>1 DEF Left
  <2>3. /\ IsStore(v) /\ Same(st, v) /\ v.visSes = st.visSes /\ v.visTab = st.visTab
        /\ v.byTab = [t \in Tabs |-> IF t = b THEN st.byTab[t] \ {id} ELSE st.byTab[t]]
        /\ v.bySes = [st.bySes EXCEPT ![h] = @ \ {id}]
    BY <2>2 DEF IsStore, Fields, Same
  <2>4. DOMAIN st.bySes = Sessions
    BY <1>2
  <2>5. v.bySes = [s \in Sessions |-> IF s = h THEN st.bySes[s] \ {id} ELSE st.bySes[s]]
    BY <2>3, <2>4
  <2>6. v.byTab = [t \in Tabs |-> v.byTab[t]] /\ v.bySes = [s \in Sessions |-> v.bySes[s]]
    BY <2>3, <2>5
  <2>7. \A t \in Tabs : \A x : x \in v.byTab[t] <=> x # id /\ x \in st.byTab[t]
    BY <1>2, <2>1, <2>3
  <2>8. \A s \in Sessions : \A x : x \in v.bySes[s] <=> x # id /\ x \in st.bySes[s]
    BY <1>2, <2>1, <2>5
  <2>. QED BY <1>1, <2>3, <2>6, <2>7, <2>8
<1>. QED BY <1>3, <1>4

LEMMA Enters ==
  ASSUME NEW st, NEW id, IsStore(st),
         st.byTab = [t \in Tabs |-> st.byTab[t]], st.bySes = [s \in Sessions |-> st.bySes[s]]
  PROVE  LET v == Entered(st, id)
         IN  /\ IsStore(v) /\ Same(st, v) /\ v.visSes = st.visSes /\ v.visTab = st.visTab
             /\ v.byTab = [t \in Tabs |-> v.byTab[t]] /\ v.bySes = [s \in Sessions |-> v.bySes[s]]
             /\ \A t \in Tabs : \A x : x \in v.byTab[t] <=> x \in st.byTab[t] \/ (x = id /\ Shown(st, id) = {t})
             /\ \A s \in Sessions : \A x :
                   x \in v.bySes[s] <=> x \in st.bySes[s] \/ (x = id /\ Shown(st, id) # {} /\ st.term[id].tab[1] = s)
<1>1. PICK v : v = Entered(st, id)
  OBVIOUS
<1>2. CASE Shown(st, id) = {}
  <2>1. v = st
    BY <1>1, <1>2 DEF Entered
  <2>. QED BY <1>1, <1>2, <2>1 DEF Same
<1>3. CASE Shown(st, id) # {}
  <2>1. PICK b, h : b = TabFor(st, st.term[id]) /\ h = st.term[id].tab[1]
    OBVIOUS
  <2>2. v = [st EXCEPT !.byTab = [st.byTab EXCEPT ![b] = @ \union {id}],
                       !.bySes = [st.bySes EXCEPT ![h] = @ \union {id}]]
    BY <1>1, <1>3, <2>1 DEF Entered
  <2>3. /\ IsStore(v) /\ Same(st, v) /\ v.visSes = st.visSes /\ v.visTab = st.visTab
        /\ v.byTab = [st.byTab EXCEPT ![b] = @ \union {id}]
        /\ v.bySes = [st.bySes EXCEPT ![h] = @ \union {id}]
    BY <2>2 DEF IsStore, Fields, Same
  <2>4. DOMAIN st.bySes = Sessions /\ DOMAIN st.byTab = Tabs
    OBVIOUS
  <2>5. /\ v.byTab = [t \in Tabs |-> IF t = b THEN st.byTab[t] \union {id} ELSE st.byTab[t]]
        /\ v.bySes = [s \in Sessions |-> IF s = h THEN st.bySes[s] \union {id} ELSE st.bySes[s]]
    BY <2>3, <2>4
  <2>6. v.byTab = [t \in Tabs |-> v.byTab[t]] /\ v.bySes = [s \in Sessions |-> v.bySes[s]]
    BY <2>5
  <2>7. Shown(st, id) = {b}
    BY <1>3, <2>1, ShownInOne
  <2>8. \A t \in Tabs : \A x : x \in v.byTab[t] <=> x \in st.byTab[t] \/ (x = id /\ Shown(st, id) = {t})
    BY <2>5, <2>7
  <2>9. \A s \in Sessions : \A x :
          x \in v.bySes[s] <=> x \in st.bySes[s] \/ (x = id /\ Shown(st, id) # {} /\ st.term[id].tab[1] = s)
    BY <1>3, <2>1, <2>5
  <2>. QED BY <1>1, <2>3, <2>6, <2>8, <2>9
<1>. QED BY <1>2, <1>3

Moved(st, id, term) == id \notin DOMAIN st.term \/ st.term[id].tab # term.tab \/ st.term[id].dead # term.dead

LEMMA Upserts ==
  ASSUME NEW st, NEW id, NEW term, IsStore(st), Nearly(st, id), Moved(st, id, term) \/ Indexed(st)
  PROVE  /\ IsStore(Upserted(st, id, term)) /\ Indexed(Upserted(st, id, term))
         /\ Upserted(st, id, term).ses = st.ses /\ Upserted(st, id, term).tab = st.tab
         /\ Upserted(st, id, term).term = Put(st.term, id, term)
<1>1. PICK v : v = Upserted(st, id, term)
  OBVIOUS
<1>n. /\ st.visSes = LiveIn(st.ses) /\ st.visTab = LiveIn(st.tab) \ st.closingTab
      /\ st.byTab = [t \in Tabs |-> st.byTab[t]] /\ st.bySes = [s \in Sessions |-> st.bySes[s]]
      /\ \A t \in Tabs : \A x : x # id => (x \in st.byTab[t] <=> x \in DOMAIN st.term /\ Shown(st, x) = {t})
      /\ \A s \in Sessions : \A x : x # id =>
            (x \in st.bySes[s] <=> x \in DOMAIN st.term /\ Shown(st, x) # {} /\ st.term[x].tab[1] = s)
  BY DEF Nearly
<1>2. CASE ~Moved(st, id, term)
  <2>1. v = [st EXCEPT !.term = Put(st.term, id, term)]
    BY <1>1, <1>2 DEF Upserted, Moved
  <2>2. /\ IsStore(v) /\ v.ses = st.ses /\ v.tab = st.tab /\ v.term = Put(st.term, id, term)
        /\ v.visSes = st.visSes /\ v.visTab = st.visTab /\ v.byTab = st.byTab /\ v.bySes = st.bySes
        /\ v.closingTab = st.closingTab /\ v.closingTerm = st.closingTerm
    BY <2>1 DEF IsStore, Fields
  <2>3. /\ DOMAIN v.term = DOMAIN st.term
        /\ \A x \in DOMAIN st.term : v.term[x].tab = st.term[x].tab /\ v.term[x].dead = st.term[x].dead
    <3>1. id \in DOMAIN st.term /\ st.term[id].tab = term.tab /\ st.term[id].dead = term.dead
      BY <1>2 DEF Moved
    <3>2. /\ DOMAIN v.term = DOMAIN st.term \union {id} /\ v.term[id] = term
          /\ \A x \in DOMAIN st.term : x # id => v.term[x] = st.term[x]
      <4>1. /\ DOMAIN Put(st.term, id, term) = DOMAIN st.term \union {id} /\ Put(st.term, id, term)[id] = term
            /\ \A x \in DOMAIN st.term : x # id => Put(st.term, id, term)[x] = st.term[x]
        BY DEF Put
      <4>. QED BY ONLY <2>2, <4>1
    <3>. QED BY <3>1, <3>2
  <2>4. \A x \in DOMAIN st.term : Shown(v, x) = Shown(st, x)
    <3> TAKE x \in DOMAIN st.term
    <3>1. TabFor(v, v.term[x]) = TabFor(st, st.term[x])
      BY <2>2, <2>3 DEF TabFor
    <3>. QED BY <2>2, <2>3, <3>1 DEF Shown
  <2>5. \A t : {x \in DOMAIN v.term : Shown(v, x) = {t}} = {x \in DOMAIN st.term : Shown(st, x) = {t}}
    BY <2>3, <2>4
  <2>6. \A s : {x \in DOMAIN v.term : \E t \in Shown(v, x) : v.term[x].tab[1] = s}
               = {x \in DOMAIN st.term : \E t \in Shown(st, x) : st.term[x].tab[1] = s}
    BY <2>3, <2>4
  <2>7. st.byTab = [t \in Tabs |-> {x \in DOMAIN st.term : Shown(st, x) = {t}}]
        /\ st.bySes = [s \in Sessions |-> {x \in DOMAIN st.term : \E t \in Shown(st, x) : st.term[x].tab[1] = s}]
    BY <1>2 DEF Indexed
  <2>8. v.byTab = [t \in Tabs |-> {x \in DOMAIN v.term : Shown(v, x) = {t}}]
    <3>1. v.byTab = [t \in Tabs |-> {x \in DOMAIN st.term : Shown(st, x) = {t}}]
      BY <2>2, <2>7
    <3>. QED BY ONLY <2>5, <3>1
  <2>9. v.bySes = [s \in Sessions |-> {x \in DOMAIN v.term : \E t \in Shown(v, x) : v.term[x].tab[1] = s}]
    <3>1. v.bySes = [s \in Sessions |-> {x \in DOMAIN st.term : \E t \in Shown(st, x) : st.term[x].tab[1] = s}]
      BY <2>2, <2>7
    <3>. QED BY ONLY <2>6, <3>1
  <2>10. v.visSes = LiveIn(v.ses) /\ v.visTab = LiveIn(v.tab) \ v.closingTab
    BY <1>n, <2>2
  <2>11. Indexed(v)
    BY <2>8, <2>9, <2>10 DEF Indexed
  <2>. QED BY <1>1, <2>2, <2>11
<1>3. CASE Moved(st, id, term)
  <2>1. PICK l : l = IF id \in LiveIn(st.term) THEN Left(st, id) ELSE st
    OBVIOUS
  <2>2. /\ IsStore(l) /\ Same(st, l) /\ l.visSes = st.visSes /\ l.visTab = st.visTab
        /\ l.byTab = [t \in Tabs |-> l.byTab[t]] /\ l.bySes = [s \in Sessions |-> l.bySes[s]]
        /\ \A t \in Tabs : \A x : x \in l.byTab[t] <=> x # id /\ x \in st.byTab[t]
        /\ \A s \in Sessions : \A x : x \in l.bySes[s] <=> x # id /\ x \in st.bySes[s]
    BY <2>1, Leaves
  <2>3. PICK u : u = [l EXCEPT !.term = Put(l.term, id, term)]
    OBVIOUS
  <2>4. v = Entered(u, id)
    BY <1>1, <1>3, <2>1, <2>3 DEF Upserted, Moved
  <2>5. /\ IsStore(u) /\ u.ses = st.ses /\ u.tab = st.tab /\ u.term = Put(st.term, id, term)
        /\ u.visSes = st.visSes /\ u.visTab = st.visTab /\ u.byTab = l.byTab /\ u.bySes = l.bySes
        /\ u.closingTab = st.closingTab /\ u.closingTerm = st.closingTerm
    BY <2>2, <2>3 DEF IsStore, Fields, Same
  <2>6. /\ IsStore(v) /\ Same(u, v) /\ v.visSes = u.visSes /\ v.visTab = u.visTab
        /\ v.byTab = [t \in Tabs |-> v.byTab[t]] /\ v.bySes = [s \in Sessions |-> v.bySes[s]]
        /\ \A t \in Tabs : \A x : x \in v.byTab[t] <=> x \in u.byTab[t] \/ (x = id /\ Shown(u, id) = {t})
        /\ \A s \in Sessions : \A x :
              x \in v.bySes[s] <=> x \in u.bySes[s] \/ (x = id /\ Shown(u, id) # {} /\ u.term[id].tab[1] = s)
    BY <2>2, <2>4, <2>5, Enters
  <2>7. \A x : Shown(v, x) = Shown(u, x)
    BY <2>6, ShownAlike
  <2>8. /\ DOMAIN u.term = DOMAIN st.term \union {id}
        /\ \A x \in DOMAIN st.term : x # id => u.term[x] = st.term[x]
    <3>1. /\ DOMAIN Put(st.term, id, term) = DOMAIN st.term \union {id}
          /\ \A x \in DOMAIN st.term : x # id => Put(st.term, id, term)[x] = st.term[x]
      BY DEF Put
    <3>. QED BY ONLY <2>5, <3>1
  <2>9. \A x \in DOMAIN st.term : x # id => Shown(u, x) = Shown(st, x)
    <3> TAKE x \in DOMAIN st.term
    <3> HAVE x # id
    <3>1. TabFor(u, u.term[x]) = TabFor(st, st.term[x])
      BY <2>5, <2>8 DEF TabFor
    <3>. QED BY <2>5, <2>8, <3>1 DEF Shown
  <2>10. \A t \in Tabs : \A x : x \in v.byTab[t] <=> x \in DOMAIN v.term /\ Shown(v, x) = {t}
    <3> TAKE t \in Tabs
    <3> TAKE x
    <3>1. CASE x = id
      <4>1. x \in DOMAIN v.term
        BY <2>6, <2>8, <3>1 DEF Same
      <4>2. x \notin u.byTab[t]
        BY <2>2, <2>5, <3>1
      <4>. QED BY <2>6, <2>7, <3>1, <4>1, <4>2
    <3>2. CASE x # id
      <4>1. x \in v.byTab[t] <=> x \in st.byTab[t]
        BY <2>2, <2>5, <2>6, <3>2
      <4>2. x \in st.byTab[t] <=> x \in DOMAIN st.term /\ Shown(st, x) = {t}
        BY <1>n, <3>2
      <4>3. x \in DOMAIN v.term <=> x \in DOMAIN st.term
        BY <2>6, <2>8, <3>2 DEF Same
      <4>. QED BY <2>7, <2>9, <3>2, <4>1, <4>2, <4>3
    <3>. QED BY <3>1, <3>2
  <2>11. \A s \in Sessions : \A x : x \in v.bySes[s] <=> x \in DOMAIN v.term /\ Shown(v, x) # {} /\ v.term[x].tab[1] = s
    <3> TAKE s \in Sessions
    <3> TAKE x
    <3>0. v.term = u.term
      BY <2>6 DEF Same
    <3>1. CASE x = id
      <4>1. x \in DOMAIN v.term
        BY <2>8, <3>0, <3>1
      <4>2. x \notin u.bySes[s]
        BY <2>2, <2>5, <3>1
      <4>. QED BY <2>6, <2>7, <3>0, <3>1, <4>1, <4>2
    <3>2. CASE x # id
      <4>1. x \in v.bySes[s] <=> x \in st.bySes[s]
        BY <2>2, <2>5, <2>6, <3>2
      <4>2. x \in st.bySes[s] <=> x \in DOMAIN st.term /\ Shown(st, x) # {} /\ st.term[x].tab[1] = s
        BY <1>n, <3>2
      <4>3. x \in DOMAIN v.term <=> x \in DOMAIN st.term
        BY <2>8, <3>0, <3>2
      <4>4. x \in DOMAIN st.term => Shown(v, x) = Shown(st, x) /\ v.term[x] = st.term[x]
        BY <2>7, <2>8, <2>9, <3>0, <3>2
      <4>. QED BY <4>1, <4>2, <4>3, <4>4
    <3>. QED BY <3>1, <3>2
  <2>12. v.visSes = LiveIn(v.ses) /\ v.visTab = LiveIn(v.tab) \ v.closingTab
    BY <1>n, <2>5, <2>6 DEF Same
  <2>13. Indexed(v)
    BY <2>6, <2>10, <2>11, <2>12, IndexedPointwise
  <2>14. v.ses = st.ses /\ v.tab = st.tab /\ v.term = Put(st.term, id, term)
    BY <2>5, <2>6 DEF Same
  <2>. QED BY <1>1, <2>6, <2>13, <2>14
<1>. QED BY <1>2, <1>3

-----------------------------------------------------------------------------
(* One event.                                                                   *)

\* What an event makes of the store's terminals.
TermsAfter(st, event, m) ==
    \/ m = st.term
    \/ event.kind = "term" /\ m = Put(st.term, event.id, event.value)
    \/ /\ event.kind = "output" /\ event.id \in DOMAIN st.term
       /\ m = Put(st.term, event.id, [st.term[event.id] EXCEPT !.rev = event.value.rev])
    \/ /\ event.kind = "archived" /\ event.id \in DOMAIN st.term
       /\ m = Put(st.term, event.id, [st.term[event.id] EXCEPT !.rev = event.value.rev, !.dead = TRUE])

LEMMA Learns ==
  ASSUME NEW st, NEW kind, NEW id, NEW rev, Coherent(st)
  PROVE  LET new == Learned(st, kind, id, rev)
         IN  /\ IsStore(new) /\ Indexed(new) /\ Same(st, new)
             /\ new.visSes = st.visSes /\ new.visTab = st.visTab
<1>1. PICK new : new = Learned(st, kind, id, rev)
  OBVIOUS
<1>2. /\ IsStore(new) /\ Same(st, new) /\ new.visSes = st.visSes /\ new.visTab = st.visTab
      /\ new.byTab = st.byTab /\ new.bySes = st.bySes
  BY <1>1 DEF Learned, Coherent, IsStore, Fields, Same
<1>3. \A x : Shown(new, x) = Shown(st, x)
  BY <1>2, ShownAlike
<1>4. Indexed(st)
  BY DEF Coherent
<1>5. Indexed(new)
  <2>1. new.byTab = [t \in Tabs |-> {x \in DOMAIN st.term : Shown(st, x) = {t}}]
    BY <1>2, <1>4 DEF Indexed
  <2>2. new.bySes = [s \in Sessions |-> {x \in DOMAIN st.term : \E t \in Shown(st, x) : st.term[x].tab[1] = s}]
    BY <1>2, <1>4 DEF Indexed
  <2>3. new.term = st.term
    BY <1>2 DEF Same
  <2>4. new.byTab = [t \in Tabs |-> {x \in DOMAIN new.term : Shown(new, x) = {t}}]
    BY ONLY <1>3, <2>1, <2>3
  <2>5. new.bySes = [s \in Sessions |-> {x \in DOMAIN new.term : \E t \in Shown(new, x) : new.term[x].tab[1] = s}]
    BY ONLY <1>3, <2>2, <2>3
  <2>6. new.visSes = LiveIn(new.ses) /\ new.visTab = LiveIn(new.tab) \ new.closingTab
    BY <1>2, <1>4 DEF Indexed, Same
  <2>. QED BY <2>4, <2>5, <2>6 DEF Indexed
<1>. QED BY <1>1, <1>2, <1>5

LEMMA SessionApplies ==
  ASSUME NEW st, NEW event, Coherent(st), event.kind = "ses"
  PROVE  /\ Coherent(Applied(st, event)) /\ Applied(st, event).ses = Put(st.ses, event.id, event.value)
         /\ Applied(st, event).tab = st.tab /\ Applied(st, event).term = st.term
<1>1. PICK new : new = Learned(st, Kind(event), event.id, event.value.rev)
  OBVIOUS
<1>2. IsStore(new) /\ Indexed(new) /\ Same(st, new)
  BY <1>1, Learns
<1>3. PICK u : u = SesIndexes([new EXCEPT !.ses = Put(new.ses, event.id, event.value)])
  OBVIOUS
<1>4. Applied(st, event) = Reselected(u)
  BY <1>1, <1>3 DEF Applied
<1>5. /\ IsStore(u) /\ u.ses = Put(st.ses, event.id, event.value) /\ u.tab = st.tab /\ u.term = st.term
      /\ u.visSes = LiveIn(u.ses) /\ u.visTab = new.visTab /\ u.byTab = new.byTab /\ u.bySes = new.bySes
      /\ u.closingTab = new.closingTab /\ u.closingTerm = new.closingTerm
      /\ u.tab = new.tab /\ u.term = new.term
  BY <1>2, <1>3 DEF SesIndexes, IsStore, Fields, Same
<1>6. \A x : Shown(u, x) = Shown(new, x)
  BY <1>5 DEF Shown, TabFor
<1>7. Indexed(u)
  <2>1. u.byTab = [t \in Tabs |-> {x \in DOMAIN new.term : Shown(new, x) = {t}}]
    BY <1>2, <1>5 DEF Indexed
  <2>2. u.bySes = [s \in Sessions |-> {x \in DOMAIN new.term : \E t \in Shown(new, x) : new.term[x].tab[1] = s}]
    BY <1>2, <1>5 DEF Indexed
  <2>3. u.term = new.term
    BY <1>5
  <2>4. u.byTab = [t \in Tabs |-> {x \in DOMAIN u.term : Shown(u, x) = {t}}]
    BY ONLY <1>6, <2>1, <2>3
  <2>5. u.bySes = [s \in Sessions |-> {x \in DOMAIN u.term : \E t \in Shown(u, x) : u.term[x].tab[1] = s}]
    BY ONLY <1>6, <2>2, <2>3
  <2>6. u.visTab = LiveIn(u.tab) \ u.closingTab
    BY <1>2, <1>5 DEF Indexed
  <2>. QED BY <1>5, <2>4, <2>5, <2>6 DEF Indexed
<1>8. Coherent(Reselected(u)) /\ Same(u, Reselected(u))
  BY <1>5, <1>7, Reselecting
<1>. QED BY <1>4, <1>5, <1>8 DEF Same

LEMMA TabApplies ==
  ASSUME NEW st, NEW event, Coherent(st), event.kind = "tab"
  PROVE  /\ Coherent(Applied(st, event)) /\ Applied(st, event).ses = st.ses
         /\ Applied(st, event).tab = Put(st.tab, event.id, event.value) /\ Applied(st, event).term = st.term
<1>1. PICK new : new = Learned(st, Kind(event), event.id, event.value.rev)
  OBVIOUS
<1>2. IsStore(new) /\ Indexed(new) /\ Same(st, new)
  BY <1>1, Learns
<1>3. PICK u : u = [new EXCEPT !.tab = Put(new.tab, event.id, event.value),
                               !.closingTab = IF event.value.dead THEN @ \ {event.id} ELSE @]
  OBVIOUS
<1>4. Applied(st, event) = Reselected(TabIndexes(u))
  BY <1>1, <1>3 DEF Applied
<1>5. /\ IsStore(u) /\ u.tab = Put(st.tab, event.id, event.value) /\ u.ses = st.ses /\ u.term = st.term
      /\ u.visSes = LiveIn(u.ses)
  BY <1>2, <1>3 DEF IsStore, Fields, Same, Indexed
<1>6. PICK w : w = TabIndexes(u)
  OBVIOUS
<1>7. IsStore(w) /\ Same(u, w) /\ Indexed(w)
  BY <1>5, <1>6, TabsIndexed
<1>8. Coherent(Reselected(w)) /\ Same(w, Reselected(w))
  BY <1>7, Reselecting
<1>. QED BY <1>4, <1>5, <1>6, <1>7, <1>8 DEF Same

LEMMA TermApplies ==
  ASSUME NEW st, NEW event, Coherent(st), event.kind \in {"term", "output"}
  PROVE  /\ Coherent(Applied(st, event)) /\ Applied(st, event).ses = st.ses
         /\ Applied(st, event).tab = st.tab /\ TermsAfter(st, event, Applied(st, event).term)
<1>1. PICK new : new = Learned(st, Kind(event), event.id, event.value.rev)
  OBVIOUS
<1>2. IsStore(new) /\ Indexed(new) /\ Same(st, new)
  BY <1>1, Learns
<1>3. Nearly(new, event.id)
  BY <1>2, IndexedNearly
<1>4. PICK value : value = IF event.kind = "term" THEN event.value ELSE [st.term[event.id] EXCEPT !.rev = event.value.rev]
  OBVIOUS
<1>5. \/ Applied(st, event) = Reselected(new)
      \/ /\ event.kind = "term" \/ event.id \in DOMAIN st.term
         /\ Applied(st, event) = Reselected(Upserted(new, event.id, value))
  <2>1. CASE event.kind = "term"
    <3>1. Kind(event) = "term"
      BY <2>1 DEF Kind
    <3>. QED BY <1>1, <1>4, <2>1, <3>1 DEF Applied
  <2>2. CASE event.kind = "output"
    <3>1. Kind(event) = "term"
      BY <2>2 DEF Kind
    <3>. QED BY <1>1, <1>4, <2>2, <3>1 DEF Applied
  <2>. QED BY <2>1, <2>2
<1>6. CASE Applied(st, event) = Reselected(new)
  <2>1. Coherent(Reselected(new)) /\ Same(new, Reselected(new))
    BY <1>2, Reselecting
  <2>. QED BY <1>2, <1>6, <2>1 DEF Same, TermsAfter
<1>7. CASE /\ event.kind = "term" \/ event.id \in DOMAIN st.term
           /\ Applied(st, event) = Reselected(Upserted(new, event.id, value))
  <2>1. PICK w : w = Upserted(new, event.id, value)
    OBVIOUS
  <2>2. IsStore(w) /\ Indexed(w) /\ w.ses = new.ses /\ w.tab = new.tab /\ w.term = Put(new.term, event.id, value)
    BY <1>2, <1>3, <2>1, Upserts
  <2>3. Coherent(Reselected(w)) /\ Same(w, Reselected(w))
    BY <2>2, Reselecting
  <2>4. Applied(st, event).term = Put(st.term, event.id, value)
    BY <1>2, <1>7, <2>1, <2>2, <2>3 DEF Same
  <2>5. TermsAfter(st, event, Applied(st, event).term)
    BY <1>4, <1>7, <2>4 DEF TermsAfter
  <2>. QED BY <1>2, <1>7, <2>1, <2>2, <2>3, <2>5 DEF Same
<1>. QED BY <1>5, <1>6, <1>7

\* A close that is forgotten changes where its own terminal is shown, and nothing else.
LEMMA ForgetsClose ==
  ASSUME NEW st, NEW id, IsStore(st), Indexed(st)
  PROVE  LET u == [st EXCEPT !.closingTerm = @ \ {id}]
         IN  /\ IsStore(u) /\ u.ses = st.ses /\ u.tab = st.tab /\ u.term = st.term
             /\ Nearly(u, id) /\ (st.term[id].dead => Indexed(u))
<1>1. PICK u : u = [st EXCEPT !.closingTerm = @ \ {id}]
  OBVIOUS
<1>2. /\ IsStore(u) /\ u.ses = st.ses /\ u.tab = st.tab /\ u.term = st.term
      /\ u.visSes = st.visSes /\ u.visTab = st.visTab /\ u.byTab = st.byTab /\ u.bySes = st.bySes
      /\ u.closingTab = st.closingTab /\ u.closingTerm = st.closingTerm \ {id}
  BY <1>1 DEF IsStore, Fields
<1>3. \A x : TabFor(u, u.term[x]) = TabFor(st, st.term[x])
  BY <1>2 DEF TabFor
<1>4. \A x : x # id => Shown(u, x) = Shown(st, x)
  BY <1>2, <1>3 DEF Shown
<1>5. Nearly(st, id)
  BY IndexedNearly
<1>6. Nearly(u, id)
  <2>1. u.visSes = LiveIn(u.ses) /\ u.visTab = LiveIn(u.tab) \ u.closingTab
    BY <1>2, <1>5 DEF Nearly
  <2>2. u.byTab = [t \in Tabs |-> u.byTab[t]] /\ u.bySes = [s \in Sessions |-> u.bySes[s]]
    BY <1>2, <1>5 DEF Nearly
  <2>3. \A t \in Tabs : \A x : x # id => (x \in u.byTab[t] <=> x \in DOMAIN u.term /\ Shown(u, x) = {t})
    BY <1>2, <1>4, <1>5 DEF Nearly
  <2>4. \A s \in Sessions : \A x : x # id =>
          (x \in u.bySes[s] <=> x \in DOMAIN u.term /\ Shown(u, x) # {} /\ u.term[x].tab[1] = s)
    BY <1>2, <1>4, <1>5 DEF Nearly
  <2>5. \A t \in Tabs : id \in u.byTab[t] => id \in LiveIn(u.term) /\ t = TabFor(u, u.term[id])
    BY <1>2, <1>3, <1>5 DEF Nearly
  <2>6. \A s \in Sessions : id \in u.bySes[s] => id \in LiveIn(u.term) /\ s = u.term[id].tab[1]
    BY <1>2, <1>5 DEF Nearly
  <2>. QED BY <2>1, <2>2, <2>3, <2>4, <2>5, <2>6 DEF Nearly
<1>7. ASSUME st.term[id].dead PROVE Indexed(u)
  <2>1. \A x : Shown(u, x) = Shown(st, x)
    BY <1>2, <1>4, <1>7 DEF Shown
  <2>2. u.byTab = [t \in Tabs |-> {x \in DOMAIN st.term : Shown(st, x) = {t}}]
    BY <1>2 DEF Indexed
  <2>3. u.bySes = [s \in Sessions |-> {x \in DOMAIN st.term : \E t \in Shown(st, x) : st.term[x].tab[1] = s}]
    BY <1>2 DEF Indexed
  <2>4. u.term = st.term
    BY <1>2
  <2>5. u.byTab = [t \in Tabs |-> {x \in DOMAIN u.term : Shown(u, x) = {t}}]
    BY ONLY <2>1, <2>2, <2>4
  <2>6. u.bySes = [s \in Sessions |-> {x \in DOMAIN u.term : \E t \in Shown(u, x) : u.term[x].tab[1] = s}]
    BY ONLY <2>1, <2>3, <2>4
  <2>7. u.visSes = LiveIn(u.ses) /\ u.visTab = LiveIn(u.tab) \ u.closingTab
    BY <1>2 DEF Indexed
  <2>. QED BY <2>5, <2>6, <2>7 DEF Indexed
<1>. QED BY <1>1, <1>2, <1>6, <1>7

LEMMA ArchivedApplies ==
  ASSUME NEW st, NEW event, Coherent(st), event.kind = "archived",
         event.id \in DOMAIN st.term => {"rev", "dead"} \subseteq DOMAIN st.term[event.id]
  PROVE  /\ Coherent(Applied(st, event)) /\ Applied(st, event).ses = st.ses
         /\ Applied(st, event).tab = st.tab /\ TermsAfter(st, event, Applied(st, event).term)
<1>1. PICK new : new = Learned(st, Kind(event), event.id, event.value.rev)
  OBVIOUS
<1>2. IsStore(new) /\ Indexed(new) /\ Same(st, new)
  BY <1>1, Learns
<1>3. Kind(event) = "term"
  BY DEF Kind
<1>4. CASE event.id \notin DOMAIN st.term
  <2>1. Applied(st, event) = Reselected(new)
    BY <1>1, <1>3, <1>4 DEF Applied
  <2>2. Coherent(Reselected(new)) /\ Same(new, Reselected(new))
    BY <1>2, Reselecting
  <2>. QED BY <1>2, <2>1, <2>2 DEF Same, TermsAfter
<1>5. CASE event.id \in DOMAIN st.term
  <2>1. PICK value : value = [st.term[event.id] EXCEPT !.rev = event.value.rev, !.dead = TRUE]
    OBVIOUS
  <2>2. PICK u : u = [new EXCEPT !.closingTerm = @ \ {event.id}]
    OBVIOUS
  <2>3. /\ IsStore(u) /\ u.ses = new.ses /\ u.tab = new.tab /\ u.term = new.term
        /\ Nearly(u, event.id) /\ (new.term[event.id].dead => Indexed(u))
    BY <1>2, <2>2, ForgetsClose
  <2>4. Applied(st, event) = Reselected(Upserted(u, event.id, value))
    BY <1>1, <1>3, <1>5, <2>1, <2>2 DEF Applied
  <2>5. value.dead = TRUE
    BY <1>5, <2>1
  <2>6. Moved(u, event.id, value) \/ Indexed(u)
    <3>1. u.term[event.id].dead = TRUE \/ u.term[event.id].dead # value.dead
      BY <2>5
    <3>. QED BY <2>3, <3>1 DEF Moved
  <2>7. PICK w : w = Upserted(u, event.id, value)
    OBVIOUS
  <2>8. IsStore(w) /\ Indexed(w) /\ w.ses = u.ses /\ w.tab = u.tab /\ w.term = Put(u.term, event.id, value)
    BY <2>3, <2>6, <2>7, Upserts
  <2>9. Coherent(Reselected(w)) /\ Same(w, Reselected(w))
    BY <2>8, Reselecting
  <2>10. Applied(st, event).term = Put(st.term, event.id, value)
    BY <1>2, <2>3, <2>4, <2>7, <2>8, <2>9 DEF Same
  <2>11. TermsAfter(st, event, Applied(st, event).term)
    BY <1>5, <2>1, <2>10 DEF TermsAfter
  <2>. QED BY <1>2, <2>3, <2>4, <2>7, <2>8, <2>9, <2>11 DEF Same
<1>. QED BY <1>4, <1>5

\* What an interface may select: something shown, or what the store would select for it.
MaySelect(st, s, t, i) ==
    /\ s \in st.visSes /\ s # 0
    /\ t \in TabsOf(st, s) \/ t = SelectedTab(st, s)
    /\ t = NoTab => i = 0
    /\ t # NoTab => i \in st.byTab[t] \/ i = SelectedTerm(st, t)

SelectedAt(st, s, t, i) == [st EXCEPT !.atSes = s, !.atTab = t, !.atTerm = i]

LEMMA Selects ==
  ASSUME NEW st, NEW s, NEW t, NEW i, Coherent(st), MaySelect(st, s, t, i),
         NEW v, v = SelectedAt(st, s, t, i)
  PROVE  Coherent(v) /\ v.ses = st.ses /\ v.tab = st.tab /\ v.term = st.term
<1> USE DEF MaySelect, SelectedAt
<1>1. PICK w : w = v
  OBVIOUS
<1>2. /\ IsStore(w) /\ Same(st, w) /\ w.visSes = st.visSes /\ w.visTab = st.visTab
      /\ w.byTab = st.byTab /\ w.bySes = st.bySes /\ w.atSes = s /\ w.atTab = t /\ w.atTerm = i
  BY <1>1 DEF Coherent, IsStore, Fields, Same
<1>3. \A x : Shown(w, x) = Shown(st, x)
  BY <1>2, ShownAlike
<1>4. Indexed(w)
  <2>1. w.byTab = [b \in Tabs |-> {x \in DOMAIN st.term : Shown(st, x) = {b}}]
    BY <1>2 DEF Coherent, Indexed
  <2>2. w.bySes = [h \in Sessions |-> {x \in DOMAIN st.term : \E b \in Shown(st, x) : st.term[x].tab[1] = h}]
    BY <1>2 DEF Coherent, Indexed
  <2>3. w.term = st.term
    BY <1>2 DEF Same
  <2>4. w.byTab = [b \in Tabs |-> {x \in DOMAIN w.term : Shown(w, x) = {b}}]
    BY ONLY <1>3, <2>1, <2>3
  <2>5. w.bySes = [h \in Sessions |-> {x \in DOMAIN w.term : \E b \in Shown(w, x) : w.term[x].tab[1] = h}]
    BY ONLY <1>3, <2>2, <2>3
  <2>6. w.visSes = LiveIn(w.ses) /\ w.visTab = LiveIn(w.tab) \ w.closingTab
    BY <1>2 DEF Coherent, Indexed, Same
  <2>. QED BY <2>4, <2>5, <2>6 DEF Indexed
<1>5. TabsOf(w, s) = TabsOf(st, s) /\ SelectedTab(w, s) = SelectedTab(st, s) /\ SelectedTerm(w, t) = SelectedTerm(st, t)
  BY <1>2 DEF TabsOf, SelectedTab, SelectedTerm, Same
<1>6. Reselected(w) = w
  <2>1. (IF w.atSes \in w.visSes THEN w.atSes ELSE IF w.visSes = {} THEN 0 ELSE Lowest(w.visSes)) = s
    BY <1>2
  <2>2. (IF s = 0 THEN NoTab
         ELSE IF w.atTab \in TabsOf(w, s) THEN w.atTab ELSE SelectedTab(w, s)) = t
    BY <1>2, <1>5
  <2>3. (IF t = NoTab THEN 0
         ELSE IF w.atTerm \in w.byTab[t] THEN w.atTerm ELSE SelectedTerm(w, t)) = i
    BY <1>2, <1>5
  <2>4. Reselected(w) = [w EXCEPT !.atSes = s, !.atTab = t, !.atTerm = i]
    BY <2>1, <2>2, <2>3 DEF Reselected
  <2>5. [w EXCEPT !.atSes = s, !.atTab = t, !.atTerm = i] = w
    BY <1>1
  <2>. QED BY <2>4, <2>5
<1>. QED BY <1>1, <1>2, <1>4, <1>6 DEF Coherent, Same

LEMMA TermReplaced ==
  ASSUME NEW st, NEW id, NEW term, Coherent(st)
  PROVE  LET v == ReplaceTerm(st, id, term)
         IN  /\ Coherent(v)
             /\ \/ RevOf(st.term, id) > term.rev /\ v = st
                \/ /\ v.ses = st.ses /\ v.tab = WithFallbacks(st.ses, st.tab) /\ v.term = Put(st.term, id, term)
                   /\ v.closingTerm \subseteq LiveIn(v.term)
<1>1. IsStore(st)
  BY DEF Coherent
<1>2. CASE RevOf(st.term, id) > term.rev
  BY <1>2 DEF ReplaceTerm
<1>3. CASE ~(RevOf(st.term, id) > term.rev)
  <2>1. PICK m : m = Put(st.term, id, term)
    OBVIOUS
  <2>2. ReplaceTerm(st, id, term) = Replaced(st, st.ses, st.tab, m)
    BY <1>3, <2>1 DEF ReplaceTerm
  <2>3. PICK v : v = Replaced(st, st.ses, st.tab, m)
    OBVIOUS
  <2>4. /\ Coherent(v) /\ v.ses = st.ses /\ v.tab = WithFallbacks(st.ses, st.tab) /\ v.term = m
        /\ v.closingTerm \subseteq LiveIn(m)
    BY <1>1, <2>3, ReplacesCoherently
  <2>. QED BY <2>1, <2>2, <2>3, <2>4
<1>. QED BY <1>2, <1>3

LEMMA TabReplaced ==
  ASSUME NEW st, NEW id, NEW tab, Coherent(st)
  PROVE  LET v == ReplaceTab(st, id, tab)
         IN  /\ Coherent(v)
             /\ \/ RevOf(st.tab, id) > tab.rev /\ v = st
                \/ /\ v.ses = st.ses /\ v.tab = Put(st.tab, id, tab) /\ v.term = st.term
<1>1. IsStore(st) /\ st.visSes = LiveIn(st.ses)
  BY DEF Coherent, Indexed
<1>2. CASE RevOf(st.tab, id) > tab.rev
  BY <1>2 DEF ReplaceTab
<1>3. CASE ~(RevOf(st.tab, id) > tab.rev)
  <2>1. PICK u : u = [st EXCEPT !.tab = Put(st.tab, id, tab), !.closingTab = IF tab.dead THEN @ \ {id} ELSE @]
    OBVIOUS
  <2>2. ReplaceTab(st, id, tab) = Reselected(TabIndexes(u))
    BY <1>3, <2>1 DEF ReplaceTab
  <2>3. IsStore(u) /\ u.visSes = LiveIn(u.ses) /\ u.ses = st.ses /\ u.tab = Put(st.tab, id, tab) /\ u.term = st.term
    BY <1>1, <2>1 DEF IsStore, Fields
  <2>4. PICK w : w = TabIndexes(u)
    OBVIOUS
  <2>5. IsStore(w) /\ Same(u, w) /\ Indexed(w)
    BY <2>3, <2>4, TabsIndexed
  <2>6. Coherent(Reselected(w)) /\ Same(w, Reselected(w))
    BY <2>5, Reselecting
  <2>. QED BY <2>2, <2>3, <2>4, <2>5, <2>6 DEF Same
<1>. QED BY <1>2, <1>3

\* The windows and terminals of one session.
OwnTabs(st, s) == {t \in DOMAIN st.tab : t[1] = s}
OwnTerms(st, s) == {i \in DOMAIN st.term : st.term[i].tab[1] = s}

LEMMA SessionReplaced ==
  ASSUME NEW st, NEW s, NEW answer, Coherent(st)
  PROVE  LET v == ReplaceSession(st, s, answer)
         IN  /\ Coherent(v) /\ v.ses = ReplacedPart(st.ses, answer.ses, {})
             /\ v.tab = WithFallbacks(ReplacedPart(st.ses, answer.ses, {}),
                                      ReplacedPart(st.tab, answer.tab, OwnTabs(st, s)))
             /\ v.term = ReplacedPart(st.term, answer.term, OwnTerms(st, s))
<1>1. IsStore(st)
  BY DEF Coherent
<1>2. PICK a, b, c : /\ a = ReplacedPart(st.ses, answer.ses, {})
                     /\ b = ReplacedPart(st.tab, answer.tab, OwnTabs(st, s))
                     /\ c = ReplacedPart(st.term, answer.term, OwnTerms(st, s))
  OBVIOUS
<1>3. ReplaceSession(st, s, answer) = Replaced(st, a, b, c)
  BY <1>2 DEF ReplaceSession, OwnTabs, OwnTerms
<1>4. PICK v : v = Replaced(st, a, b, c)
  OBVIOUS
<1>5. Coherent(v) /\ v.ses = a /\ v.tab = WithFallbacks(a, b) /\ v.term = c
  BY <1>1, <1>4, ReplacesCoherently
<1>. QED BY <1>2, <1>3, <1>4, <1>5

-----------------------------------------------------------------------------
(* What the client has is a copy of what the host has or had.                   *)

SesValue == [rev : Nat, dead : BOOLEAN, tab : Tabs]
TabValue == [rev : Nat, dead : BOOLEAN, term : Nat]
TermValue == [rev : Nat, dead : BOOLEAN, tab : Tabs]

SesCopy(h, id, v) == id \in DOMAIN h.ses /\ v \in SesValue /\ v.rev <= h.ses[id].rev
TabCopy(h, id, v) ==
    /\ id[1] \in DOMAIN h.ses /\ v \in TabValue
    /\ id[2] = 0 \/ (id \in DOMAIN h.tab /\ v.rev <= h.tab[id].rev)
TermCopy(h, id, v) ==
    id \in DOMAIN h.term /\ v \in TermValue /\ v.tab[1] \in DOMAIN h.ses /\ v.rev <= h.term[id].rev

MapsFit(h, m) ==
    /\ \A s \in DOMAIN m.ses : SesCopy(h, s, m.ses[s])
    /\ \A t \in DOMAIN m.tab : TabCopy(h, t, m.tab[t])
    /\ \A i \in DOMAIN m.term : TermCopy(h, i, m.term[i])

HostFits(h) ==
    /\ h = [ses |-> h.ses, tab |-> h.tab, term |-> h.term]
    /\ DOMAIN h.ses \subseteq Sessions /\ DOMAIN h.tab \subseteq Tabs /\ DOMAIN h.term \subseteq Terms
    /\ MapsFit(h, h)

\* The host's revisions only grow, and what it archived stays as it is (but for sessions).
Grows(h, g) ==
    /\ \A s \in DOMAIN h.ses : s \in DOMAIN g.ses /\ h.ses[s].rev <= g.ses[s].rev
    /\ \A t \in DOMAIN h.tab : /\ t \in DOMAIN g.tab /\ h.tab[t].rev <= g.tab[t].rev
                               /\ h.tab[t].dead => g.tab[t] = h.tab[t]
    /\ \A i \in DOMAIN h.term : /\ i \in DOMAIN g.term /\ h.term[i].rev <= g.term[i].rev
                                /\ h.term[i].dead => g.term[i] = h.term[i]

Revisions(h) ==
    /\ \A s \in DOMAIN h.ses : h.ses[s] \in SesValue /\ h.ses[s].rev \in Nat
    /\ \A t \in DOMAIN h.tab : h.tab[t] \in TabValue /\ h.tab[t].rev \in Nat
    /\ \A i \in DOMAIN h.term : h.term[i] \in TermValue /\ h.term[i].rev \in Nat

LEMMA HostRevisions ==
  ASSUME NEW h, HostFits(h)
  PROVE  Revisions(h)
BY DEF HostFits, MapsFit, SesCopy, TabCopy, TermCopy, SesValue, TabValue, TermValue, Revisions

LEMMA CopiesStay ==
  ASSUME NEW h, NEW g, HostFits(h), Revisions(g), Grows(h, g)
  PROVE  /\ \A id, v : SesCopy(h, id, v) => SesCopy(g, id, v)
         /\ \A id, v : TabCopy(h, id, v) => TabCopy(g, id, v)
         /\ \A id, v : TermCopy(h, id, v) => TermCopy(g, id, v)
<1>1. Revisions(h)
  BY HostRevisions
<1>2. ASSUME NEW id, NEW v, SesCopy(h, id, v) PROVE SesCopy(g, id, v)
  <2>1. v.rev \in Nat
    BY <1>2 DEF SesCopy, SesValue
  <2>. QED BY <1>1, <1>2, <2>1 DEF SesCopy, Revisions, Grows
<1>3. ASSUME NEW id, NEW v, TabCopy(h, id, v) PROVE TabCopy(g, id, v)
  <2>1. v.rev \in Nat
    BY <1>3 DEF TabCopy, TabValue
  <2>. QED BY <1>1, <1>3, <2>1 DEF TabCopy, Revisions, Grows
<1>4. ASSUME NEW id, NEW v, TermCopy(h, id, v) PROVE TermCopy(g, id, v)
  <2>1. v.rev \in Nat
    BY <1>4 DEF TermCopy, TermValue
  <2>. QED BY <1>1, <1>4, <2>1 DEF TermCopy, Revisions, Grows
<1>. QED BY <1>2, <1>3, <1>4

LEMMA MapsStay ==
  ASSUME NEW h, NEW g, NEW m, HostFits(h), Revisions(g), Grows(h, g), MapsFit(h, m)
  PROVE  MapsFit(g, m)
<1>1. /\ \A id, v : SesCopy(h, id, v) => SesCopy(g, id, v)
      /\ \A id, v : TabCopy(h, id, v) => TabCopy(g, id, v)
      /\ \A id, v : TermCopy(h, id, v) => TermCopy(g, id, v)
  BY CopiesStay
<1>. QED BY <1>1 DEF MapsFit

-----------------------------------------------------------------------------
(* The host's changes.                                                          *)

LEMMA SesPut ==
  ASSUME NEW h, NEW s, NEW value, HostFits(h), s \in Sessions, value \in SesValue,
         s \in DOMAIN h.ses => h.ses[s].rev <= value.rev
  PROVE  LET g == [h EXCEPT !.ses = Put(@, s, value)]
         IN  HostFits(g) /\ Grows(h, g) /\ SesCopy(g, s, value) /\ g.tab = h.tab /\ g.term = h.term
             /\ DOMAIN g.ses = DOMAIN h.ses \union {s}
<1>1. PICK m : m = Put(h.ses, s, value)
  OBVIOUS
<1>2. DOMAIN m = DOMAIN h.ses \union {s} /\ m[s] = value /\ \A x \in DOMAIN h.ses : x # s => m[x] = h.ses[x]
  BY <1>1 DEF Put
<1>3. PICK g : g = [h EXCEPT !.ses = m]
  OBVIOUS
<1>4. g.ses = m /\ g.tab = h.tab /\ g.term = h.term /\ g = [ses |-> g.ses, tab |-> g.tab, term |-> g.term]
  BY <1>3 DEF HostFits
<1>5. Revisions(h)
  BY HostRevisions
<1>6. value.rev \in Nat
  BY DEF SesValue
<1>7. Revisions(g)
  <2>1. \A x \in DOMAIN g.ses : g.ses[x] \in SesValue /\ g.ses[x].rev \in Nat
    BY <1>2, <1>4, <1>5, <1>6 DEF Revisions
  <2>. QED BY <1>4, <1>5, <2>1 DEF Revisions
<1>8. Grows(h, g)
  <2>1. \A x \in DOMAIN h.ses : x \in DOMAIN g.ses /\ h.ses[x].rev <= g.ses[x].rev
    BY <1>2, <1>4, <1>5 DEF Revisions
  <2>2. \A t \in DOMAIN h.tab : t \in DOMAIN g.tab /\ h.tab[t].rev <= g.tab[t].rev /\ g.tab[t] = h.tab[t]
    BY <1>4, <1>5 DEF Revisions
  <2>3. \A i \in DOMAIN h.term : i \in DOMAIN g.term /\ h.term[i].rev <= g.term[i].rev /\ g.term[i] = h.term[i]
    BY <1>4, <1>5 DEF Revisions
  <2>. QED BY <2>1, <2>2, <2>3 DEF Grows
<1>9. MapsFit(g, h)
  BY <1>7, <1>8, MapsStay DEF HostFits
<1>10. SesCopy(g, s, value)
  BY <1>2, <1>4, <1>6 DEF SesCopy
<1>11. MapsFit(g, g)
  <2>1. \A x \in DOMAIN g.ses : SesCopy(g, x, g.ses[x])
    BY <1>2, <1>4, <1>7, <1>10 DEF Revisions, SesCopy
  <2>. QED BY <1>4, <1>9, <2>1 DEF MapsFit
<1>12. HostFits(g)
  BY <1>2, <1>4, <1>11 DEF HostFits
<1>. QED BY <1>1, <1>2, <1>3, <1>4, <1>8, <1>10, <1>12

LEMMA TabPut ==
  ASSUME NEW h, NEW t, NEW value, HostFits(h), t \in Tabs, t[1] \in DOMAIN h.ses, value \in TabValue,
         t \in DOMAIN h.tab => h.tab[t].rev <= value.rev /\ ~h.tab[t].dead
  PROVE  LET g == [h EXCEPT !.tab = Put(@, t, value)]
         IN  HostFits(g) /\ Grows(h, g) /\ TabCopy(g, t, value)
<1>1. PICK m : m = Put(h.tab, t, value)
  OBVIOUS
<1>2. DOMAIN m = DOMAIN h.tab \union {t} /\ m[t] = value /\ \A x \in DOMAIN h.tab : x # t => m[x] = h.tab[x]
  BY <1>1 DEF Put
<1>3. PICK g : g = [h EXCEPT !.tab = m]
  OBVIOUS
<1>4. g.tab = m /\ g.ses = h.ses /\ g.term = h.term /\ g = [ses |-> g.ses, tab |-> g.tab, term |-> g.term]
  BY <1>3 DEF HostFits
<1>5. Revisions(h)
  BY HostRevisions
<1>6. value.rev \in Nat
  BY DEF TabValue
<1>7. Revisions(g)
  <2>1. \A x \in DOMAIN g.tab : g.tab[x] \in TabValue /\ g.tab[x].rev \in Nat
    BY <1>2, <1>4, <1>5, <1>6 DEF Revisions
  <2>. QED BY <1>4, <1>5, <2>1 DEF Revisions
<1>8. Grows(h, g)
  <2>1. \A x \in DOMAIN h.ses : x \in DOMAIN g.ses /\ h.ses[x].rev <= g.ses[x].rev
    BY <1>4, <1>5 DEF Revisions
  <2>2. \A x \in DOMAIN h.tab : /\ x \in DOMAIN g.tab /\ h.tab[x].rev <= g.tab[x].rev
                                /\ h.tab[x].dead => g.tab[x] = h.tab[x]
    BY <1>2, <1>4, <1>5 DEF Revisions
  <2>3. \A i \in DOMAIN h.term : i \in DOMAIN g.term /\ h.term[i].rev <= g.term[i].rev /\ g.term[i] = h.term[i]
    BY <1>4, <1>5 DEF Revisions
  <2>. QED BY <2>1, <2>2, <2>3 DEF Grows
<1>9. MapsFit(g, h)
  BY <1>7, <1>8, MapsStay DEF HostFits
<1>10. TabCopy(g, t, value)
  BY <1>2, <1>4, <1>6 DEF TabCopy
<1>11. MapsFit(g, g)
  <2>1. \A x \in DOMAIN g.tab : TabCopy(g, x, g.tab[x])
    <3>1. \A x \in DOMAIN h.tab : TabCopy(g, x, h.tab[x])
      BY <1>9 DEF MapsFit
    <3>. QED BY <1>2, <1>4, <1>10, <3>1
  <2>. QED BY <1>4, <1>9, <2>1 DEF MapsFit
<1>12. HostFits(g)
  BY <1>2, <1>4, <1>11 DEF HostFits
<1>. QED BY <1>1, <1>3, <1>8, <1>10, <1>12

LEMMA TermPut ==
  ASSUME NEW h, NEW i, NEW value, HostFits(h), i \in Terms, value \in TermValue, value.tab[1] \in DOMAIN h.ses,
         i \in DOMAIN h.term => h.term[i].rev <= value.rev /\ ~h.term[i].dead
  PROVE  LET g == [h EXCEPT !.term = Put(@, i, value)]
         IN  HostFits(g) /\ Grows(h, g) /\ TermCopy(g, i, value) /\ i \in DOMAIN g.term /\ g.term[i] = value
<1>1. PICK m : m = Put(h.term, i, value)
  OBVIOUS
<1>2. DOMAIN m = DOMAIN h.term \union {i} /\ m[i] = value /\ \A x \in DOMAIN h.term : x # i => m[x] = h.term[x]
  BY <1>1 DEF Put
<1>3. PICK g : g = [h EXCEPT !.term = m]
  OBVIOUS
<1>4. g.term = m /\ g.ses = h.ses /\ g.tab = h.tab /\ g = [ses |-> g.ses, tab |-> g.tab, term |-> g.term]
  BY <1>3 DEF HostFits
<1>5. Revisions(h)
  BY HostRevisions
<1>6. value.rev \in Nat
  BY DEF TermValue
<1>7. Revisions(g)
  <2>1. \A x \in DOMAIN g.term : g.term[x] \in TermValue /\ g.term[x].rev \in Nat
    BY <1>2, <1>4, <1>5, <1>6 DEF Revisions
  <2>. QED BY <1>4, <1>5, <2>1 DEF Revisions
<1>8. Grows(h, g)
  <2>1. \A x \in DOMAIN h.ses : x \in DOMAIN g.ses /\ h.ses[x].rev <= g.ses[x].rev
    BY <1>4, <1>5 DEF Revisions
  <2>2. \A x \in DOMAIN h.tab : x \in DOMAIN g.tab /\ h.tab[x].rev <= g.tab[x].rev /\ g.tab[x] = h.tab[x]
    BY <1>4, <1>5 DEF Revisions
  <2>3. \A x \in DOMAIN h.term : /\ x \in DOMAIN g.term /\ h.term[x].rev <= g.term[x].rev
                                 /\ h.term[x].dead => g.term[x] = h.term[x]
    BY <1>2, <1>4, <1>5 DEF Revisions
  <2>. QED BY <2>1, <2>2, <2>3 DEF Grows
<1>9. MapsFit(g, h)
  BY <1>7, <1>8, MapsStay DEF HostFits
<1>10. TermCopy(g, i, value)
  BY <1>2, <1>4, <1>6 DEF TermCopy
<1>11. MapsFit(g, g)
  <2>1. \A x \in DOMAIN g.term : TermCopy(g, x, g.term[x])
    <3>1. \A x \in DOMAIN h.term : TermCopy(g, x, h.term[x])
      BY <1>9 DEF MapsFit
    <3>. QED BY <1>2, <1>4, <1>10, <3>1
  <2>. QED BY <1>4, <1>9, <2>1 DEF MapsFit
<1>12. HostFits(g)
  BY <1>2, <1>4, <1>11 DEF HostFits
<1>. QED BY <1>1, <1>2, <1>3, <1>4, <1>8, <1>10, <1>12

-----------------------------------------------------------------------------
(* Sequences of anything: what their members are after a step.                  *)

IsSeq(q) == \E S : q \in Seq(S)
Has(q, x) == \E n \in DOMAIN q : q[n] = x

LEMMA AppendMembers ==
  ASSUME NEW q, NEW x, IsSeq(q)
  PROVE  IsSeq(Append(q, x)) /\ \A n \in DOMAIN Append(q, x) : Has(q, Append(q, x)[n]) \/ Append(q, x)[n] = x
<1>1. PICK S : q \in Seq(S)
  BY DEF IsSeq
<1>2. PICK T : T = S \union {x}
  OBVIOUS
<1>3. q \in Seq(T) /\ x \in T
  BY <1>1, <1>2, SeqMonotonic
<1>4. Append(q, x) \in Seq(T) /\ Len(Append(q, x)) = Len(q) + 1 /\ Len(q) \in Nat /\ DOMAIN q = 1..Len(q)
  BY <1>3
<1>5. \A n \in 1..Len(q) + 1 : Append(q, x)[n] = IF n <= Len(q) THEN q[n] ELSE x
  BY <1>3
<1>6. DOMAIN Append(q, x) = 1..Len(q) + 1
  BY <1>4
<1>7. \A n \in 1..Len(q) + 1 : n <= Len(q) => n \in DOMAIN q
  BY <1>4
<1>. QED BY <1>4, <1>5, <1>6, <1>7 DEF IsSeq, Has

LEMMA ConcatMembers ==
  ASSUME NEW q, NEW r, IsSeq(q), IsSeq(r)
  PROVE  IsSeq(q \o r) /\ \A n \in DOMAIN (q \o r) : Has(q, (q \o r)[n]) \/ Has(r, (q \o r)[n])
<1>1. PICK S : q \in Seq(S)
  BY DEF IsSeq
<1>2. PICK R : r \in Seq(R)
  BY DEF IsSeq
<1>3. PICK T : T = S \union R
  OBVIOUS
<1>4. q \in Seq(T) /\ r \in Seq(T)
  BY <1>1, <1>2, <1>3, SeqMonotonic
<1>5. /\ q \o r \in Seq(T) /\ Len(q \o r) = Len(q) + Len(r) /\ Len(q) \in Nat /\ Len(r) \in Nat
      /\ DOMAIN q = 1..Len(q) /\ DOMAIN r = 1..Len(r)
  BY <1>4
<1>6. \A n \in 1..Len(q) + Len(r) : (q \o r)[n] = IF n <= Len(q) THEN q[n] ELSE r[n - Len(q)]
  BY <1>4
<1>7. DOMAIN (q \o r) = 1..Len(q) + Len(r)
  BY <1>5
<1>8. \A n \in 1..Len(q) + Len(r) : IF n <= Len(q) THEN n \in DOMAIN q ELSE n - Len(q) \in DOMAIN r
  BY <1>5
<1>. QED BY <1>5, <1>6, <1>7, <1>8 DEF IsSeq, Has

LEMMA TailMembers ==
  ASSUME NEW q, IsSeq(q), q # <<>>
  PROVE  /\ IsSeq(Tail(q)) /\ \A n \in DOMAIN Tail(q) : Has(q, Tail(q)[n])
         /\ Has(q, Head(q))
<1>1. PICK S : q \in Seq(S)
  BY DEF IsSeq
<1>2. Len(q) \in Nat /\ DOMAIN q = 1..Len(q) /\ Len(q) # 0
  BY <1>1
<1>3. Tail(q) \in Seq(S) /\ DOMAIN Tail(q) = 1..Len(q) - 1 /\ \A n \in 1..Len(q) - 1 : Tail(q)[n] = q[n + 1]
  BY <1>1, <1>2
<1>4. \A n \in 1..Len(q) - 1 : n + 1 \in DOMAIN q
  BY <1>2
<1>5. Head(q) = q[1] /\ 1 \in DOMAIN q
  BY <1>1, <1>2
<1>. QED BY <1>3, <1>4, <1>5 DEF IsSeq, Has

LEMMA RemovedMembers ==
  ASSUME NEW q, IsSeq(q), NEW k \in DOMAIN q
  PROVE  IsSeq(RemoveAt(q, k)) /\ \A n \in DOMAIN RemoveAt(q, k) : Has(q, RemoveAt(q, k)[n])
<1>1. PICK S : q \in Seq(S)
  BY DEF IsSeq
<1>2. Len(q) \in Nat /\ DOMAIN q = 1..Len(q) /\ k \in 1..Len(q)
  BY <1>1
<1>3. PICK a, b : a = SubSeq(q, 1, k - 1) /\ b = SubSeq(q, k + 1, Len(q))
  OBVIOUS
<1>4. \A n \in 1..k - 1 : n \in 1..Len(q) /\ q[n] \in S
  BY <1>1, <1>2
<1>5. \A n \in k + 1..Len(q) : n \in 1..Len(q) /\ q[n] \in S
  BY <1>1, <1>2
<1>6. a \in Seq(S) /\ DOMAIN a = 1..k - 1 /\ \A n \in 1..k - 1 : a[n] = q[n]
  BY <1>1, <1>2, <1>3, <1>4
<1>7. b \in Seq(S) /\ DOMAIN b = 1..Len(q) - k /\ \A n \in 1..Len(q) - k : b[n] = q[k + n]
  BY <1>1, <1>2, <1>3, <1>5
<1>8. IsSeq(a) /\ IsSeq(b)
  BY <1>6, <1>7 DEF IsSeq
<1>9. \A x : Has(a, x) => Has(q, x)
  BY <1>2, <1>4, <1>6 DEF Has
<1>10. \A n \in 1..Len(q) - k : k + n \in DOMAIN q
  BY <1>2
<1>11. \A x : Has(b, x) => Has(q, x)
  BY <1>7, <1>10 DEF Has
<1>12. RemoveAt(q, k) = a \o b
  BY <1>3 DEF RemoveAt
<1>. QED BY <1>8, <1>9, <1>11, <1>12, ConcatMembers

LEMMA ReplacedMembers ==
  ASSUME NEW q, IsSeq(q), NEW k \in DOMAIN q, NEW x
  PROVE  LET r == [q EXCEPT ![k] = x]
         IN  IsSeq(r) /\ DOMAIN r = DOMAIN q /\ \A n \in DOMAIN q : r[n] = IF n = k THEN x ELSE q[n]
<1>1. PICK S : q \in Seq(S)
  BY DEF IsSeq
<1>2. PICK T : T = S \union {x}
  OBVIOUS
<1>3. q \in Seq(T) /\ x \in T
  BY <1>1, <1>2, SeqMonotonic
<1>4. [q EXCEPT ![k] = x] \in Seq(T)
  BY <1>3, ExceptSeq
<1>. QED BY <1>4 DEF IsSeq

LEMMA SetListed ==
  ASSUME NEW S, IsFiniteSet(S)
  PROVE  IsSeq(SetToSeq(S)) /\ \A n \in DOMAIN SetToSeq(S) : SetToSeq(S)[n] \in S
<1>1. Cardinality(S) \in Nat /\ ExistsBijection(1..Cardinality(S), S)
  BY FS_CardinalityType
<1>2. \E f \in [1..Cardinality(S) -> S] : IsInjective(f)
  BY <1>1 DEF ExistsBijection, Bijection, Injection
<1>3. SetToSeq(S) \in [1..Cardinality(S) -> S]
  BY <1>2 DEF SetToSeq
<1>4. SetToSeq(S) \in Seq(S)
  BY <1>1, <1>3, SeqDef
<1>. QED BY <1>3, <1>4 DEF IsSeq

-----------------------------------------------------------------------------
(* Events and requests under way.                                               *)

EventFits(h, e) ==
    \/ e.kind = "ses" /\ SesCopy(h, e.id, e.value)
    \/ e.kind = "tab" /\ TabCopy(h, e.id, e.value)
    \/ e.kind \in {"term", "output", "archived"} /\ TermCopy(h, e.id, e.value)
EventsFit(h, q) == IsSeq(q) /\ \A n \in DOMAIN q : EventFits(h, q[n])

Unanswered(a) == a.answer = <<>>
ListFits(h, a) ==
    /\ a.kind = "list" /\ {"kind", "answer"} \subseteq DOMAIN a
    /\ Unanswered(a) \/ \E v : a.answer = <<v>> /\ MapsFit(h, v)
ReadFits(h, a) ==
    /\ a.kind \in {"session", "recover"} /\ {"kind", "id", "answer"} \subseteq DOMAIN a /\ a.id \in DOMAIN h.ses
    /\ Unanswered(a) \/ \E v : a.answer = <<v>> /\ MapsFit(h, v)
TermFits(h, a) ==
    /\ a.kind = "term" /\ {"kind", "id", "answer"} \subseteq DOMAIN a /\ a.id \in DOMAIN h.term
    /\ Unanswered(a) \/ \E v : a.answer = <<v>> /\ TermCopy(h, a.id, v)
CloseTermFits(h, a) ==
    /\ a.kind = "closeTerm" /\ {"kind", "id", "home", "answer"} \subseteq DOMAIN a
    /\ a.id \in DOMAIN h.term /\ a.home \in DOMAIN h.ses
    /\ Unanswered(a) \/ a.answer = <<Refused>> \/ (a.answer = <<h.term[a.id]>> /\ h.term[a.id].dead)
CloseTabFits(h, a) ==
    /\ a.kind = "closeTab" /\ {"kind", "id", "home", "answer"} \subseteq DOMAIN a
    /\ a.id \in DOMAIN h.tab /\ a.id[2] > 0 /\ a.home \in DOMAIN h.ses
    /\ Unanswered(a) \/ a.answer = <<Refused>> \/ (a.answer = <<h.tab[a.id]>> /\ h.tab[a.id].dead)
AskFits(h, a) ==
    ListFits(h, a) \/ ReadFits(h, a) \/ TermFits(h, a) \/ CloseTermFits(h, a) \/ CloseTabFits(h, a)
AsksFit(h, q) == IsSeq(q) /\ \A n \in DOMAIN q : AskFits(h, q[n])

LEMMA AskStays ==
  ASSUME NEW h, NEW g, NEW a, HostFits(h), Revisions(g), Grows(h, g), AskFits(h, a)
  PROVE  AskFits(g, a)
<1>1. \A m : MapsFit(h, m) => MapsFit(g, m)
  BY MapsStay
<1>2. \A id, v : TermCopy(h, id, v) => TermCopy(g, id, v)
  BY CopiesStay
<1>3. ListFits(h, a) => ListFits(g, a)
  BY <1>1 DEF ListFits
<1>4. ReadFits(h, a) => ReadFits(g, a)
  BY <1>1 DEF ReadFits, Grows
<1>5. TermFits(h, a) => TermFits(g, a)
  BY <1>2 DEF TermFits, Grows
<1>6. CloseTermFits(h, a) => CloseTermFits(g, a)
  BY DEF CloseTermFits, Grows
<1>7. CloseTabFits(h, a) => CloseTabFits(g, a)
  BY DEF CloseTabFits, Grows
<1>. QED BY <1>3, <1>4, <1>5, <1>6, <1>7 DEF AskFits

LEMMA UnderWayStays ==
  ASSUME NEW h, NEW g, HostFits(h), Revisions(g), Grows(h, g)
  PROVE  /\ \A q : EventsFit(h, q) => EventsFit(g, q)
         /\ \A q : AsksFit(h, q) => AsksFit(g, q)
<1>1. \A e : EventFits(h, e) => EventFits(g, e)
  BY CopiesStay DEF EventFits
<1>2. \A a : AskFits(h, a) => AskFits(g, a)
  BY AskStays
<1>. QED BY <1>1, <1>2 DEF EventsFit, AsksFit

LEMMA EventsJoin ==
  ASSUME NEW h, NEW q, NEW r, EventsFit(h, q), EventsFit(h, r)
  PROVE  EventsFit(h, q \o r)
<1>1. IsSeq(q) /\ IsSeq(r)
  BY DEF EventsFit
<1>2. IsSeq(q \o r) /\ \A n \in DOMAIN (q \o r) : Has(q, (q \o r)[n]) \/ Has(r, (q \o r)[n])
  BY <1>1, ConcatMembers
<1>3. \A x : Has(q, x) \/ Has(r, x) => EventFits(h, x)
  BY DEF EventsFit, Has
<1>. QED BY <1>2, <1>3 DEF EventsFit

LEMMA OneEvent ==
  ASSUME NEW h, NEW e, EventFits(h, e)
  PROVE  EventsFit(h, <<e>>)
<1>1. <<e>> \in Seq({e}) /\ DOMAIN <<e>> = 1..1 /\ <<e>>[1] = e
  OBVIOUS
<1>2. IsSeq(<<e>>)
  BY <1>1 DEF IsSeq
<1>3. \A n \in 1..1 : n = 1
  OBVIOUS
<1>4. \A n \in DOMAIN <<e>> : <<e>>[n] = e
  BY <1>1, <1>3
<1>. QED BY <1>2, <1>4 DEF EventsFit

LEMMA TwoEvents ==
  ASSUME NEW h, NEW e, NEW f, EventFits(h, e), EventFits(h, f)
  PROVE  EventsFit(h, <<e, f>>)
<1>1. <<e, f>> \in Seq({e, f}) /\ DOMAIN <<e, f>> = 1..2 /\ <<e, f>>[1] = e /\ <<e, f>>[2] = f
  OBVIOUS
<1>2. IsSeq(<<e, f>>)
  BY <1>1 DEF IsSeq
<1>3. \A n \in 1..2 : n = 1 \/ n = 2
  OBVIOUS
<1>4. \A n \in DOMAIN <<e, f>> : <<e, f>>[n] = e \/ <<e, f>>[n] = f
  BY <1>1, <1>3
<1>. QED BY <1>2, <1>4 DEF EventsFit

LEMMA TabArchives ==
  ASSUME NEW h, NEW t, HostFits(h), t \in LiveIn(h.tab), IsFiniteSet(Terms)
  PROVE  LET g == ArchivedTab(h, t)
         IN  /\ HostFits(g) /\ Grows(h, g) /\ EventsFit(g, TabEvents(h, t))
             /\ t \in DOMAIN g.tab /\ g.tab[t].dead
<1>1. t \in DOMAIN h.tab /\ ~h.tab[t].dead
  BY DEF LiveIn
<1>2. Revisions(h)
  BY HostRevisions
<1>3. PICK a, b : /\ a = [h.tab EXCEPT ![t] = [Bump(h.tab[t]) EXCEPT !.dead = TRUE]]
                  /\ b = [i \in DOMAIN h.term |-> IF h.term[i].tab = t /\ ~h.term[i].dead
                                                  THEN [Bump(h.term[i]) EXCEPT !.dead = TRUE] ELSE h.term[i]]
  OBVIOUS
<1>4. PICK g : g = [h EXCEPT !.tab = a, !.term = b]
  OBVIOUS
<1>5. ArchivedTab(h, t) = g
  BY <1>3, <1>4 DEF ArchivedTab
<1>6. g.ses = h.ses /\ g.tab = a /\ g.term = b /\ g = [ses |-> g.ses, tab |-> g.tab, term |-> g.term]
  BY <1>4 DEF HostFits
<1>7. /\ a[t] \in TabValue /\ a[t].rev = h.tab[t].rev + 1 /\ a[t].dead
      /\ DOMAIN a = DOMAIN h.tab /\ \A x \in DOMAIN h.tab : x # t => a[x] = h.tab[x]
  <2>1. h.tab[t] \in TabValue
    BY <1>1, <1>2 DEF Revisions
  <2>2. PICK v : v = [Bump(h.tab[t]) EXCEPT !.dead = TRUE]
    OBVIOUS
  <2>3. v \in TabValue /\ v.rev = h.tab[t].rev + 1 /\ v.dead
    <3>1. PICK u : u = Bump(h.tab[t])
      OBVIOUS
    <3>2. u \in TabValue /\ u.rev = h.tab[t].rev + 1
      BY <2>1, <3>1 DEF Bump, TabValue
    <3>. QED BY <2>2, <3>1, <3>2 DEF TabValue
  <2>. QED BY <1>1, <1>3, <2>2, <2>3
<1>8. \A i \in DOMAIN h.term : /\ Bump(h.term[i]) \in TermValue /\ Bump(h.term[i]).rev = h.term[i].rev + 1
                               /\ Bump(h.term[i]).tab = h.term[i].tab
  <2> TAKE i \in DOMAIN h.term
  <2>1. h.term[i] \in TermValue
    BY <1>2 DEF Revisions
  <2>. QED BY <2>1 DEF Bump, TermValue
<1>9. /\ DOMAIN b = DOMAIN h.term
      /\ \A i \in DOMAIN h.term :
            /\ b[i] \in TermValue /\ b[i].tab = h.term[i].tab
            /\ h.term[i].rev <= b[i].rev
            /\ h.term[i].dead => b[i] = h.term[i]
            /\ h.term[i].tab = t /\ ~h.term[i].dead => b[i].rev = h.term[i].rev + 1
  <2>1. ASSUME NEW i \in DOMAIN h.term
        PROVE  /\ b[i] \in TermValue /\ b[i].tab = h.term[i].tab
               /\ h.term[i].rev <= b[i].rev
               /\ h.term[i].dead => b[i] = h.term[i]
               /\ h.term[i].tab = t /\ ~h.term[i].dead => b[i].rev = h.term[i].rev + 1
    <3>1. h.term[i] \in TermValue /\ h.term[i].rev \in Nat
      BY <1>2 DEF Revisions
    <3>2. PICK v : v = Bump(h.term[i])
      OBVIOUS
    <3>3. v \in TermValue /\ v.rev = h.term[i].rev + 1 /\ v.tab = h.term[i].tab
      BY <1>8, <3>2
    <3>4. [v EXCEPT !.dead = TRUE] \in TermValue /\ [v EXCEPT !.dead = TRUE].rev = v.rev
          /\ [v EXCEPT !.dead = TRUE].tab = v.tab
      BY <3>3 DEF TermValue
    <3>5. b[i] = IF h.term[i].tab = t /\ ~h.term[i].dead THEN [v EXCEPT !.dead = TRUE] ELSE h.term[i]
      BY <1>3, <3>2
    <3>. QED BY <3>1, <3>3, <3>4, <3>5
  <2>. QED BY <1>3, <2>1
<1>10. Revisions(g)
  <2>1. \A x \in DOMAIN g.tab : g.tab[x] \in TabValue
    BY <1>2, <1>6, <1>7 DEF Revisions
  <2>2. \A i \in DOMAIN g.term : g.term[i] \in TermValue
    BY <1>6, <1>9
  <2>. QED BY <1>2, <1>6, <2>1, <2>2 DEF Revisions, TabValue, TermValue
<1>11. Grows(h, g)
  <2>1. \A x \in DOMAIN h.ses : x \in DOMAIN g.ses /\ h.ses[x].rev <= g.ses[x].rev
    BY <1>2, <1>6 DEF Revisions
  <2>2. \A x \in DOMAIN h.tab : x \in DOMAIN g.tab /\ h.tab[x].rev <= g.tab[x].rev /\ (h.tab[x].dead => g.tab[x] = h.tab[x])
    BY <1>1, <1>2, <1>6, <1>7 DEF Revisions
  <2>3. \A i \in DOMAIN h.term : i \in DOMAIN g.term /\ h.term[i].rev <= g.term[i].rev /\ (h.term[i].dead => g.term[i] = h.term[i])
    BY <1>6, <1>9
  <2>. QED BY <2>1, <2>2, <2>3 DEF Grows
<1>12. MapsFit(h, h)
  BY DEF HostFits
<1>13. MapsFit(g, g)
  <2>1. \A s \in DOMAIN g.ses : SesCopy(g, s, g.ses[s])
    BY <1>6, <1>12 DEF MapsFit, SesCopy
  <2>2. \A x \in DOMAIN g.tab : TabCopy(g, x, g.tab[x])
    <3> TAKE x \in DOMAIN g.tab
    <3>1. x \in DOMAIN h.tab /\ x[1] \in DOMAIN h.ses
      BY <1>6, <1>7, <1>12 DEF MapsFit, TabCopy
    <3>2. g.tab[x] \in TabValue /\ g.tab[x].rev \in Nat
      BY <1>10 DEF Revisions
    <3>. QED BY <1>6, <3>1, <3>2 DEF TabCopy
  <2>3. \A i \in DOMAIN g.term : TermCopy(g, i, g.term[i])
    <3> TAKE i \in DOMAIN g.term
    <3>1. i \in DOMAIN h.term /\ h.term[i].tab[1] \in DOMAIN h.ses
      BY <1>6, <1>9, <1>12 DEF MapsFit, TermCopy
    <3>2. g.term[i] \in TermValue /\ g.term[i].rev \in Nat /\ g.term[i].tab = h.term[i].tab
      BY <1>6, <1>9, <1>10, <3>1 DEF Revisions
    <3>. QED BY <1>6, <3>1, <3>2 DEF TermCopy
  <2>. QED BY <2>1, <2>2, <2>3 DEF MapsFit
<1>14. HostFits(g)
  <2>1. DOMAIN g.ses \subseteq Sessions /\ DOMAIN g.tab \subseteq Tabs /\ DOMAIN g.term \subseteq Terms
    BY <1>6, <1>7, <1>9 DEF HostFits
  <2>. QED BY <1>6, <1>13, <2>1 DEF HostFits
<1>15. PICK own : own = SetToSeq({i \in LiveIn(h.term) : h.term[i].tab = t})
  OBVIOUS
<1>16. IsSeq(own) /\ \A n \in DOMAIN own : own[n] \in DOMAIN h.term /\ ~h.term[own[n]].dead /\ h.term[own[n]].tab = t
  <2>1. {i \in LiveIn(h.term) : h.term[i].tab = t} \subseteq Terms
    BY DEF LiveIn, HostFits
  <2>2. IsFiniteSet({i \in LiveIn(h.term) : h.term[i].tab = t})
    BY <2>1, FS_Subset
  <2>. QED BY <1>15, <2>2, SetListed DEF LiveIn
<1>17. PICK first : first = [n \in DOMAIN own |-> Event("archived", own[n], Bump(h.term[own[n]]))]
  OBVIOUS
<1>18. IsSeq(first)
  <2>1. Len(own) \in Nat /\ DOMAIN own = 1..Len(own)
    BY <1>16 DEF IsSeq
  <2>2. PICK S : S = {first[n] : n \in DOMAIN own}
    OBVIOUS
  <2>3. first \in [1..Len(own) -> S]
    BY <1>17, <2>1, <2>2
  <2>4. first \in Seq(S)
    BY <2>1, <2>3, SeqDef
  <2>. QED BY <2>4 DEF IsSeq
<1>19. \A n \in DOMAIN first : EventFits(g, first[n])
  <2> TAKE n \in DOMAIN first
  <2>1. PICK i : i = own[n]
    OBVIOUS
  <2>2. i \in DOMAIN h.term /\ ~h.term[i].dead /\ h.term[i].tab = t
    BY <1>16, <1>17, <2>1
  <2>3. PICK v : v = Bump(h.term[i])
    OBVIOUS
  <2>4. first[n] = [kind |-> "archived", id |-> i, value |-> v]
    BY <1>17, <2>1, <2>3 DEF Event
  <2>5. v \in TermValue /\ v.rev = h.term[i].rev + 1 /\ v.tab = h.term[i].tab
    BY <1>8, <2>2, <2>3
  <2>6. g.term[i].rev = h.term[i].rev + 1 /\ i \in DOMAIN g.term
    BY <1>6, <1>9, <2>2
  <2>7. h.term[i].tab[1] \in DOMAIN g.ses
    BY <1>6, <1>12, <2>2 DEF MapsFit, TermCopy
  <2>8. h.term[i].rev \in Nat
    BY <1>2, <2>2 DEF Revisions
  <2>9. TermCopy(g, i, v)
    BY <2>5, <2>6, <2>7, <2>8 DEF TermCopy
  <2>. QED BY <2>4, <2>9 DEF EventFits
<1>20. EventFits(g, Event("tab", t, g.tab[t]))
  BY <1>1, <1>6, <1>7, <1>13 DEF EventFits, Event, MapsFit
<1>21. EventsFit(g, first)
  BY <1>18, <1>19 DEF EventsFit
<1>22. EventsFit(g, <<Event("tab", t, g.tab[t])>>)
  BY <1>20, OneEvent
<1>23. TabEvents(h, t) = first \o <<Event("tab", t, g.tab[t])>>
  BY <1>5, <1>15, <1>17 DEF TabEvents
<1>24. EventsFit(g, TabEvents(h, t))
  BY <1>21, <1>22, <1>23, EventsJoin
<1>. QED BY <1>1, <1>5, <1>6, <1>7, <1>11, <1>14, <1>24

-----------------------------------------------------------------------------
(* The inductive invariant.                                                     *)

StoreInv ==
    /\ Coherent(store) /\ HostFits(hostMux) /\ MapsFit(hostMux, store)
    /\ EventsFit(hostMux, events) /\ AsksFit(hostMux, asks)

LEMMA StoreStarts == MuxInit => StoreInv
<1>. SUFFICES ASSUME MuxInit PROVE StoreInv
  OBVIOUS
<1> USE StoreBounds
<1>1. IsStore(store)
  BY DEF MuxInit, IsStore, Fields
<1>2. /\ DOMAIN store.ses = {} /\ DOMAIN store.tab = {} /\ DOMAIN store.term = {}
      /\ store.visSes = {} /\ store.visTab = {} /\ store.closingTab = {}
      /\ store.byTab = [t \in Tabs |-> {}] /\ store.bySes = [s \in Sessions |-> {}]
      /\ store.atSes = 0 /\ store.atTab = NoTab /\ store.atTerm = 0
  BY DEF MuxInit
<1>3. Indexed(store)
  BY <1>2 DEF Indexed, LiveIn
<1>4. Reselected(store) = store
  <2>1. Reselected(store) = [store EXCEPT !.atSes = 0, !.atTab = NoTab, !.atTerm = 0]
    BY <1>2 DEF Reselected
  <2>2. store.atSes = 0 /\ store.atTab = NoTab /\ store.atTerm = 0
    BY <1>2
  <2>. QED BY ONLY <1>1, <2>1, <2>2 DEF IsStore, Fields
<1>5. MapsFit(hostMux, store)
  BY <1>2 DEF MapsFit
<1>6. /\ hostMux = [ses |-> hostMux.ses, tab |-> hostMux.tab, term |-> hostMux.term]
      /\ hostMux.ses = [s \in {1} |-> [rev |-> 1, dead |-> FALSE, tab |-> <<1, 1>>]]
      /\ hostMux.tab = [t \in {<<1, 1>>} |-> [rev |-> 1, dead |-> FALSE, term |-> 1]]
      /\ hostMux.term = [i \in {1} |-> [rev |-> 1, dead |-> FALSE, tab |-> <<1, 1>>]]
  BY DEF MuxInit
<1>7. <<1, 1>> \in Tabs
  BY DEF Tabs
<1>8. /\ [rev |-> 1, dead |-> FALSE, tab |-> <<1, 1>>] \in SesValue
      /\ [rev |-> 1, dead |-> FALSE, term |-> 1] \in TabValue
      /\ [rev |-> 1, dead |-> FALSE, tab |-> <<1, 1>>] \in TermValue
  BY <1>7 DEF SesValue, TabValue, TermValue
<1>9. HostFits(hostMux)
  <2>1. MapsFit(hostMux, hostMux)
    BY <1>6, <1>8 DEF MapsFit, SesCopy, TabCopy, TermCopy
  <2>. QED BY <1>6, <1>7, <2>1 DEF HostFits
<1>10. EventsFit(hostMux, events)
  <2>1. events = <<>> /\ <<>> \in Seq({}) /\ DOMAIN <<>> = {}
    BY DEF MuxInit
  <2>2. IsSeq(events)
    BY <2>1 DEF IsSeq
  <2>. QED BY <2>1, <2>2 DEF EventsFit
<1>11. AsksFit(hostMux, asks)
  <2>1. PICK a : a = [kind |-> "list", base |-> Entities, answer |-> <<>>]
    OBVIOUS
  <2>2. asks = <<a>>
    BY <2>1 DEF MuxInit
  <2>3. AskFits(hostMux, a)
    BY <2>1 DEF AskFits, ListFits, Unanswered
  <2>4. <<a>> \in Seq({a}) /\ DOMAIN <<a>> = 1..1 /\ <<a>>[1] = a
    OBVIOUS
  <2>5. IsSeq(asks)
    BY <2>2, <2>4 DEF IsSeq
  <2>6. \A n \in DOMAIN asks : n = 1
    BY <2>2, <2>4
  <2>. QED BY <2>2, <2>3, <2>4, <2>5, <2>6 DEF AsksFit
<1>. QED BY <1>1, <1>3, <1>4, <1>5, <1>9, <1>10, <1>11 DEF StoreInv, Coherent

\* What holds of the host and of all that is on its way after a change of the host.
Followed == HostFits(hostMux') /\ MapsFit(hostMux', store) /\ EventsFit(hostMux', events') /\ AsksFit(hostMux', asks)

LEMMA HostFollowed ==
  ASSUME StoreInv, HostFits(hostMux'), Grows(hostMux, hostMux'), NEW list, EventsFit(hostMux', list), Send(list)
  PROVE  Followed
<1>1. PICK g : g = hostMux'
  OBVIOUS
<1>2. HostFits(hostMux) /\ HostFits(g) /\ Revisions(g) /\ Grows(hostMux, g)
  BY <1>1, HostRevisions DEF StoreInv
<1>3. MapsFit(g, store)
  BY <1>2, MapsStay DEF StoreInv
<1>4. EventsFit(g, events) /\ AsksFit(g, asks)
  BY <1>2, UnderWayStays DEF StoreInv
<1>5. EventsFit(g, events \o list)
  BY <1>1, <1>4, EventsJoin
<1>6. EventsFit(g, events')
  BY <1>4, <1>5 DEF Send
<1>. QED BY <1>1, <1>2, <1>3, <1>4, <1>6 DEF Followed

LEMMA Bumped ==
  /\ \A v \in SesValue : Bump(v) \in SesValue /\ Bump(v).rev = v.rev + 1
  /\ \A v \in TermValue : Bump(v) \in TermValue /\ Bump(v).rev = v.rev + 1 /\ Bump(v).tab = v.tab
BY DEF Bump, SesValue, TermValue

LEMMA TermArchived ==
  ASSUME StoreInv, NEW i \in LiveIn(hostMux.term), ArchiveTerm(i)
  PROVE  Followed /\ i \in DOMAIN hostMux'.term /\ hostMux'.term[i].dead /\ Grows(hostMux, hostMux')
<1>1. HostFits(hostMux) /\ i \in DOMAIN hostMux.term /\ ~hostMux.term[i].dead
  BY DEF StoreInv, LiveIn
<1>2. TermCopy(hostMux, i, hostMux.term[i]) /\ i \in Terms
  BY <1>1 DEF HostFits, MapsFit
<1>3. PICK u : u = Bump(hostMux.term[i])
  OBVIOUS
<1>4. u \in TermValue /\ u.rev = hostMux.term[i].rev + 1 /\ u.tab = hostMux.term[i].tab /\ hostMux.term[i].rev \in Nat
  BY <1>2, <1>3, Bumped DEF TermCopy, TermValue
<1>5. PICK v : v = [u EXCEPT !.dead = TRUE]
  OBVIOUS
<1>6. v \in TermValue /\ v.rev = u.rev /\ v.tab = u.tab /\ v.dead
  BY <1>4, <1>5 DEF TermValue
<1>7. hostMux' = [hostMux EXCEPT !.term = Put(@, i, v)] /\ Send(<<Event("archived", i, u)>>)
  BY <1>3, <1>5 DEF ArchiveTerm, Changed
<1>8. PICK g : g = hostMux'
  OBVIOUS
<1>9. HostFits(g) /\ Grows(hostMux, g) /\ TermCopy(g, i, v) /\ i \in DOMAIN g.term /\ g.term[i] = v
  <2>1. hostMux.term[i].rev <= v.rev /\ v.tab[1] \in DOMAIN hostMux.ses
    BY <1>2, <1>4, <1>6 DEF TermCopy
  <2>. QED BY <1>1, <1>2, <1>6, <1>7, <1>8, <2>1, TermPut
<1>10. TermCopy(g, i, u)
  BY <1>4, <1>6, <1>9 DEF TermCopy
<1>11. EventFits(g, Event("archived", i, u))
  BY <1>10 DEF EventFits, Event
<1>12. EventsFit(g, <<Event("archived", i, u)>>)
  BY <1>11, OneEvent
<1>13. Followed
  BY <1>7, <1>8, <1>9, <1>12, HostFollowed
<1>. QED BY <1>6, <1>8, <1>9, <1>13

LEMMA TabArchived ==
  ASSUME StoreInv, NEW t \in LiveIn(hostMux.tab), ArchiveTab(t)
  PROVE  Followed /\ t \in DOMAIN hostMux'.tab /\ hostMux'.tab[t].dead /\ Grows(hostMux, hostMux')
<1>1. PICK g : g = ArchivedTab(hostMux, t)
  OBVIOUS
<1>2. HostFits(hostMux) /\ IsFiniteSet(Terms)
  BY StoreBounds DEF StoreInv
<1>3. /\ HostFits(g) /\ Grows(hostMux, g) /\ EventsFit(g, TabEvents(hostMux, t))
      /\ t \in DOMAIN g.tab /\ g.tab[t].dead
  BY <1>1, <1>2, TabArchives
<1>4. hostMux' = g /\ Send(TabEvents(hostMux, t))
  BY <1>1 DEF ArchiveTab
<1>5. Followed
  BY <1>3, <1>4, HostFollowed
<1>. QED BY <1>3, <1>4, <1>5

LEMMA GrowsFurther ==
  ASSUME NEW h, NEW g, NEW k, Revisions(h), Revisions(g), Revisions(k), Grows(h, g), Grows(g, k)
  PROVE  Grows(h, k)
<1>1. \A s \in DOMAIN h.ses : s \in DOMAIN k.ses /\ h.ses[s].rev <= k.ses[s].rev
  BY DEF Grows, Revisions
<1>2. \A t \in DOMAIN h.tab : /\ t \in DOMAIN k.tab /\ h.tab[t].rev <= k.tab[t].rev
                              /\ h.tab[t].dead => k.tab[t] = h.tab[t]
  <2> TAKE t \in DOMAIN h.tab
  <2>1. t \in DOMAIN g.tab /\ h.tab[t].rev <= g.tab[t].rev /\ (h.tab[t].dead => g.tab[t] = h.tab[t])
    BY DEF Grows
  <2>2. t \in DOMAIN k.tab /\ g.tab[t].rev <= k.tab[t].rev /\ (g.tab[t].dead => k.tab[t] = g.tab[t])
    BY <2>1 DEF Grows
  <2>3. h.tab[t].rev \in Nat /\ g.tab[t].rev \in Nat /\ k.tab[t].rev \in Nat
    BY <2>1, <2>2 DEF Revisions
  <2>. QED BY <2>1, <2>2, <2>3
<1>3. \A i \in DOMAIN h.term : /\ i \in DOMAIN k.term /\ h.term[i].rev <= k.term[i].rev
                               /\ h.term[i].dead => k.term[i] = h.term[i]
  <2> TAKE i \in DOMAIN h.term
  <2>1. i \in DOMAIN g.term /\ h.term[i].rev <= g.term[i].rev /\ (h.term[i].dead => g.term[i] = h.term[i])
    BY DEF Grows
  <2>2. i \in DOMAIN k.term /\ g.term[i].rev <= k.term[i].rev /\ (g.term[i].dead => k.term[i] = g.term[i])
    BY <2>1 DEF Grows
  <2>3. h.term[i].rev \in Nat /\ g.term[i].rev \in Nat /\ k.term[i].rev \in Nat
    BY <2>1, <2>2 DEF Revisions
  <2>. QED BY <2>1, <2>2, <2>3
<1>. QED BY <1>1, <1>2, <1>3 DEF Grows

LEMMA SessionCreated ==
  ASSUME StoreInv, NEW s \in Sessions \ DOMAIN hostMux.ses, NEW value, NEW first,
         value = [rev |-> 1, dead |-> FALSE, tab |-> <<s, 1>>], first = [rev |-> 1, dead |-> FALSE, term |-> 0],
         hostMux' = [hostMux EXCEPT !.ses = Put(@, s, value), !.tab = Put(@, <<s, 1>>, first)],
         Send(<<Event("ses", s, value), Event("tab", <<s, 1>>, first)>>)
  PROVE  Followed
<1> USE StoreBounds
<1>1. HostFits(hostMux) /\ Revisions(hostMux)
  BY HostRevisions DEF StoreInv
<1>2. <<s, 1>> \in Tabs
  BY DEF Tabs
<1>3. value \in SesValue /\ first \in TabValue
  BY <1>2 DEF SesValue, TabValue
<1>4. <<s, 1>> \notin DOMAIN hostMux.tab
  <2>1. \A t \in DOMAIN hostMux.tab : t[1] \in DOMAIN hostMux.ses
    BY <1>1 DEF HostFits, MapsFit, TabCopy
  <2>2. <<s, 1>>[1] = s
    OBVIOUS
  <2>. QED BY <2>1, <2>2
<1>5. PICK g : g = [hostMux EXCEPT !.ses = Put(@, s, value)]
  OBVIOUS
<1>6. HostFits(g) /\ Grows(hostMux, g) /\ SesCopy(g, s, value) /\ g.tab = hostMux.tab /\ s \in DOMAIN g.ses
  <2>1. s \in Sessions /\ s \notin DOMAIN hostMux.ses
    OBVIOUS
  <2>2. LET k == [hostMux EXCEPT !.ses = Put(@, s, value)]
        IN  HostFits(k) /\ Grows(hostMux, k) /\ SesCopy(k, s, value) /\ k.tab = hostMux.tab
            /\ k.term = hostMux.term /\ DOMAIN k.ses = DOMAIN hostMux.ses \union {s}
    BY ONLY <1>1, <1>3, <2>1, SesPut
  <2>. QED BY <1>5, <2>2
<1>7. PICK k : k = [g EXCEPT !.tab = Put(@, <<s, 1>>, first)]
  OBVIOUS
<1>8. HostFits(k) /\ Grows(g, k) /\ TabCopy(k, <<s, 1>>, first)
  <2>1. <<s, 1>>[1] \in DOMAIN g.ses /\ <<s, 1>> \notin DOMAIN g.tab
    BY <1>4, <1>6
  <2>. QED BY <1>2, <1>3, <1>6, <1>7, <2>1, TabPut
<1>9. hostMux' = k
  BY <1>1, <1>5, <1>6, <1>7 DEF HostFits
<1>10. Revisions(g) /\ Revisions(k)
  BY <1>6, <1>8, HostRevisions
<1>11. Grows(hostMux, k)
  BY <1>1, <1>6, <1>8, <1>10, GrowsFurther
<1>12. SesCopy(k, s, value)
  BY <1>6, <1>8, <1>10, CopiesStay
<1>13. EventFits(k, Event("ses", s, value)) /\ EventFits(k, Event("tab", <<s, 1>>, first))
  BY <1>8, <1>12 DEF EventFits, Event
<1>14. EventsFit(k, <<Event("ses", s, value), Event("tab", <<s, 1>>, first)>>)
  BY <1>13, TwoEvents
<1>. QED BY <1>8, <1>9, <1>11, <1>14, HostFollowed

LEMMA SessionChanged ==
  ASSUME StoreInv, NEW s \in DOMAIN hostMux.ses, NEW dead \in BOOLEAN, NEW value,
         value = [Bump(hostMux.ses[s]) EXCEPT !.dead = dead],
         Changed("ses", s, value), Send(<<Event("ses", s, value)>>)
  PROVE  Followed
<1>1. HostFits(hostMux) /\ s \in DOMAIN hostMux.ses
  BY DEF StoreInv, LiveIn
<1>2. SesCopy(hostMux, s, hostMux.ses[s]) /\ s \in Sessions
  BY <1>1 DEF HostFits, MapsFit
<1>3. PICK u : u = Bump(hostMux.ses[s])
  OBVIOUS
<1>4. u \in SesValue /\ u.rev = hostMux.ses[s].rev + 1 /\ hostMux.ses[s].rev \in Nat
  BY <1>2, <1>3, Bumped DEF SesCopy, SesValue
<1>5. value \in SesValue /\ value.rev = u.rev
  BY <1>3, <1>4 DEF SesValue
<1>6. PICK g : g = hostMux'
  OBVIOUS
<1>7. hostMux' = [hostMux EXCEPT !.ses = Put(@, s, value)]
  BY DEF Changed
<1>8. hostMux.ses[s].rev <= value.rev
  BY <1>4, <1>5
<1>9. HostFits(g) /\ Grows(hostMux, g) /\ SesCopy(g, s, value)
  BY <1>1, <1>2, <1>5, <1>6, <1>7, <1>8, SesPut
<1>10. EventFits(g, Event("ses", s, value))
  BY <1>9 DEF EventFits, Event
<1>11. EventsFit(g, <<Event("ses", s, value)>>)
  BY <1>10, OneEvent
<1>. QED BY <1>6, <1>9, <1>11, HostFollowed

LEMMA TabCreated ==
  ASSUME StoreInv, NEW t \in Tabs \ DOMAIN hostMux.tab, t[1] \in LiveIn(hostMux.ses), NEW value,
         value = [rev |-> 1, dead |-> FALSE, term |-> 0],
         Changed("tab", t, value), Send(<<Event("tab", t, value)>>)
  PROVE  Followed
<1>1. HostFits(hostMux) /\ t[1] \in DOMAIN hostMux.ses
  BY DEF StoreInv, LiveIn
<1>2. value \in TabValue
  BY DEF TabValue
<1>3. PICK g : g = hostMux'
  OBVIOUS
<1>4. hostMux' = [hostMux EXCEPT !.tab = Put(@, t, value)]
  BY DEF Changed
<1>5. HostFits(g) /\ Grows(hostMux, g) /\ TabCopy(g, t, value)
  BY <1>1, <1>2, <1>3, <1>4, TabPut
<1>6. EventFits(g, Event("tab", t, value))
  BY <1>5 DEF EventFits, Event
<1>7. EventsFit(g, <<Event("tab", t, value)>>)
  BY <1>6, OneEvent
<1>. QED BY <1>3, <1>5, <1>7, HostFollowed

LEMMA TabChanged ==
  ASSUME StoreInv, NEW t \in LiveIn(hostMux.tab), Changed("tab", t, Bump(hostMux.tab[t])),
         Send(<<Event("tab", t, Bump(hostMux.tab[t]))>>)
  PROVE  Followed
<1>1. HostFits(hostMux) /\ t \in DOMAIN hostMux.tab /\ ~hostMux.tab[t].dead
  BY DEF StoreInv, LiveIn
<1>2. t \in Tabs /\ t[1] \in DOMAIN hostMux.ses /\ hostMux.tab[t] \in TabValue
  BY <1>1 DEF HostFits, MapsFit, TabCopy
<1>3. PICK v : v = Bump(hostMux.tab[t])
  OBVIOUS
<1>4. v \in TabValue /\ hostMux.tab[t].rev <= v.rev
  BY <1>2, <1>3 DEF Bump, TabValue
<1>5. PICK g : g = hostMux'
  OBVIOUS
<1>6. hostMux' = [hostMux EXCEPT !.tab = Put(@, t, v)]
  BY <1>3 DEF Changed
<1>7. HostFits(g) /\ Grows(hostMux, g) /\ TabCopy(g, t, v)
  BY <1>1, <1>2, <1>4, <1>5, <1>6, TabPut
<1>8. EventFits(g, Event("tab", t, v))
  BY <1>7 DEF EventFits, Event
<1>9. EventsFit(g, <<Event("tab", t, v)>>)
  BY <1>8, OneEvent
<1>. QED BY <1>3, <1>5, <1>7, <1>9, HostFollowed

\* A terminal is started, prints, or is moved: its event carries the new copy.
LEMMA TermChanged ==
  ASSUME StoreInv, NEW i \in Terms, NEW value \in TermValue, value.tab[1] \in DOMAIN hostMux.ses,
         i \in DOMAIN hostMux.term => hostMux.term[i].rev <= value.rev /\ ~hostMux.term[i].dead,
         NEW kind \in {"term", "output"},
         Changed("term", i, value), Send(<<Event(kind, i, value)>>)
  PROVE  Followed
<1>1. HostFits(hostMux)
  BY DEF StoreInv
<1>2. PICK g : g = hostMux'
  OBVIOUS
<1>3. hostMux' = [hostMux EXCEPT !.term = Put(@, i, value)]
  BY DEF Changed
<1>4. HostFits(g) /\ Grows(hostMux, g) /\ TermCopy(g, i, value)
  BY <1>1, <1>2, <1>3, TermPut
<1>5. EventFits(g, Event(kind, i, value))
  BY <1>4 DEF EventFits, Event
<1>6. EventsFit(g, <<Event(kind, i, value)>>)
  BY <1>5, OneEvent
<1>. QED BY <1>2, <1>4, <1>6, HostFollowed

LEMMA HostChanges ==
  ASSUME StoreInv, HostChange
  PROVE  Followed
<1>1. HostFits(hostMux) /\ MapsFit(hostMux, hostMux)
  BY DEF StoreInv, HostFits
<1>2. ASSUME NEW s \in Sessions \ DOMAIN hostMux.ses,
             hostMux' = [hostMux EXCEPT !.ses = Put(@, s, [rev |-> 1, dead |-> FALSE, tab |-> <<s, 1>>]),
                                        !.tab = Put(@, <<s, 1>>, [rev |-> 1, dead |-> FALSE, term |-> 0])],
             Send(<<Event("ses", s, [rev |-> 1, dead |-> FALSE, tab |-> <<s, 1>>]),
                    Event("tab", <<s, 1>>, [rev |-> 1, dead |-> FALSE, term |-> 0])>>)
      PROVE  Followed
  BY <1>2, SessionCreated
<1>3. ASSUME NEW s \in DOMAIN hostMux.ses, NEW dead \in BOOLEAN,
             Changed("ses", s, [Bump(hostMux.ses[s]) EXCEPT !.dead = dead]),
             Send(<<Event("ses", s, [Bump(hostMux.ses[s]) EXCEPT !.dead = dead])>>)
      PROVE  Followed
  BY <1>3, SessionChanged
<1>4. ASSUME NEW t \in Tabs \ DOMAIN hostMux.tab, t[1] \in LiveIn(hostMux.ses),
             Changed("tab", t, [rev |-> 1, dead |-> FALSE, term |-> 0]),
             Send(<<Event("tab", t, [rev |-> 1, dead |-> FALSE, term |-> 0])>>)
      PROVE  Followed
  BY <1>4, TabCreated
<1>5. ASSUME NEW t \in LiveIn(hostMux.tab), ArchiveTab(t) PROVE Followed
  BY <1>5, TabArchived
<1>6. ASSUME NEW i \in Terms \ DOMAIN hostMux.term, NEW t \in LiveIn(hostMux.tab),
             Changed("term", i, [rev |-> 1, dead |-> FALSE, tab |-> t]),
             Send(<<Event("term", i, [rev |-> 1, dead |-> FALSE, tab |-> t])>>)
      PROVE  Followed
  <2>1. t \in Tabs /\ t[1] \in DOMAIN hostMux.ses
    BY <1>1 DEF HostFits, MapsFit, TabCopy, LiveIn
  <2>2. PICK v : v = [rev |-> 1, dead |-> FALSE, tab |-> t]
    OBVIOUS
  <2>3. v \in TermValue /\ v.tab[1] \in DOMAIN hostMux.ses
    BY <2>1, <2>2 DEF TermValue
  <2>. QED BY <1>6, <2>2, <2>3, TermChanged
<1>7. ASSUME NEW i \in LiveIn(hostMux.term), ArchiveTerm(i) PROVE Followed
  BY <1>7, TermArchived
<1>8. ASSUME NEW i \in LiveIn(hostMux.term)
      PROVE  /\ i \in Terms /\ ~hostMux.term[i].dead
             /\ Bump(hostMux.term[i]) \in TermValue /\ Bump(hostMux.term[i]).rev = hostMux.term[i].rev + 1
             /\ Bump(hostMux.term[i]).tab = hostMux.term[i].tab /\ hostMux.term[i].rev \in Nat
             /\ hostMux.term[i].tab[1] \in DOMAIN hostMux.ses
  <2>1. i \in DOMAIN hostMux.term /\ ~hostMux.term[i].dead
    BY <1>8 DEF LiveIn
  <2>2. i \in Terms /\ TermCopy(hostMux, i, hostMux.term[i])
    BY <1>1, <2>1 DEF HostFits, MapsFit
  <2>. QED BY <2>1, <2>2, Bumped DEF TermCopy, TermValue
<1>9. ASSUME NEW i \in LiveIn(hostMux.term), Changed("term", i, Bump(hostMux.term[i])),
             Send(<<Event("output", i, Bump(hostMux.term[i]))>>)
      PROVE  Followed
  <2>1. PICK v : v = Bump(hostMux.term[i])
    OBVIOUS
  <2>2. i \in Terms /\ v \in TermValue /\ v.tab[1] \in DOMAIN hostMux.ses
        /\ hostMux.term[i].rev <= v.rev /\ ~hostMux.term[i].dead
    BY <1>8, <2>1
  <2>. QED BY <1>9, <2>1, <2>2, TermChanged
<1>10. ASSUME NEW i \in LiveIn(hostMux.term), NEW t \in LiveIn(hostMux.tab), t[1] = hostMux.term[i].tab[1],
              Changed("term", i, [Bump(hostMux.term[i]) EXCEPT !.tab = t]),
              Send(<<Event("term", i, [Bump(hostMux.term[i]) EXCEPT !.tab = t])>>)
      PROVE  Followed
  <2>1. PICK u : u = Bump(hostMux.term[i])
    OBVIOUS
  <2>2. PICK v : v = [u EXCEPT !.tab = t]
    OBVIOUS
  <2>3. t \in Tabs
    BY <1>1 DEF HostFits, LiveIn
  <2>4. u \in TermValue /\ u.rev = hostMux.term[i].rev + 1 /\ hostMux.term[i].rev \in Nat
    BY <1>8, <2>1
  <2>5. v \in TermValue /\ v.rev = u.rev /\ v.tab = t
    BY <2>2, <2>3, <2>4 DEF TermValue
  <2>6. v.tab[1] \in DOMAIN hostMux.ses /\ hostMux.term[i].rev <= v.rev /\ i \in Terms /\ ~hostMux.term[i].dead
    BY <1>8, <1>10, <2>4, <2>5
  <2>. QED BY <1>10, <2>1, <2>2, <2>5, <2>6, TermChanged
<1>11. ASSUME NEW t \in LiveIn(hostMux.tab), Changed("tab", t, Bump(hostMux.tab[t])),
              Send(<<Event("tab", t, Bump(hostMux.tab[t]))>>)
       PROVE  Followed
  BY <1>11, TabChanged
<1>. QED BY <1>2, <1>3, <1>4, <1>5, <1>6, <1>7, <1>9, <1>10, <1>11 DEF HostChange

-----------------------------------------------------------------------------
(* What a request is answered.                                                  *)

LEMMA ListingFits ==
  ASSUME HostFits(hostMux)
  PROVE  MapsFit(hostMux, ListAnswer)
<1>1. MapsFit(hostMux, hostMux)
  BY DEF HostFits
<1>2. PICK ses : ses = Restrict(hostMux.ses, LiveIn(hostMux.ses))
  OBVIOUS
<1>3. PICK v : v = ListAnswer
  OBVIOUS
<1>4. PICK T, I : /\ T = {t \in LiveIn(hostMux.tab) : t[1] \in DOMAIN ses}
                  /\ I = {i \in LiveIn(hostMux.term) : hostMux.term[i].tab[1] \in DOMAIN ses}
  OBVIOUS
<1>5. /\ v.ses = [s \in LiveIn(hostMux.ses) |-> hostMux.ses[s]] /\ v.tab = [t \in T |-> hostMux.tab[t]]
      /\ v.term = [i \in I |-> hostMux.term[i]]
  BY <1>2, <1>3, <1>4 DEF ListAnswer, Restrict
<1>6. LiveIn(hostMux.ses) \subseteq DOMAIN hostMux.ses /\ T \subseteq DOMAIN hostMux.tab /\ I \subseteq DOMAIN hostMux.term
  BY <1>4 DEF LiveIn
<1>7. MapsFit(hostMux, v)
  BY <1>1, <1>5, <1>6 DEF MapsFit
<1>. QED BY <1>3, <1>7

LEMMA SessionFits ==
  ASSUME HostFits(hostMux), NEW s \in DOMAIN hostMux.ses
  PROVE  MapsFit(hostMux, SessionAnswer(s))
<1>1. MapsFit(hostMux, hostMux)
  BY DEF HostFits
<1>3. PICK v : v = SessionAnswer(s)
  OBVIOUS
<1>4. PICK T, I : /\ T = {t \in LiveIn(hostMux.tab) : t[1] = s}
                  /\ I = {i \in LiveIn(hostMux.term) : hostMux.term[i].tab[1] = s}
  OBVIOUS
<1>5. /\ v.ses = [x \in {s} |-> hostMux.ses[x]] /\ v.tab = [t \in T |-> hostMux.tab[t]]
      /\ v.term = [i \in I |-> hostMux.term[i]]
  BY <1>3, <1>4 DEF SessionAnswer, Restrict
<1>6. {s} \subseteq DOMAIN hostMux.ses /\ T \subseteq DOMAIN hostMux.tab /\ I \subseteq DOMAIN hostMux.term
  BY <1>4 DEF LiveIn
<1>7. MapsFit(hostMux, v)
  BY <1>1, <1>5, <1>6 DEF MapsFit
<1>. QED BY <1>3, <1>7

\* One request is answered; the others are as they were.
LEMMA OneAnswered ==
  ASSUME NEW h, NEW q, AsksFit(h, q), NEW n \in DOMAIN q, NEW a, AskFits(h, a)
  PROVE  AsksFit(h, [q EXCEPT ![n] = a])
<1>1. IsSeq(q)
  BY DEF AsksFit
<1>2. PICK r : r = [q EXCEPT ![n] = a]
  OBVIOUS
<1>3. IsSeq(r) /\ DOMAIN r = DOMAIN q /\ \A k \in DOMAIN q : r[k] = IF k = n THEN a ELSE q[k]
  BY <1>1, <1>2, ReplacedMembers
<1>. QED BY <1>2, <1>3 DEF AsksFit

LEMMA Answers ==
  ASSUME StoreInv, NEW n \in DOMAIN asks, Answer(n)
  PROVE  StoreInv'
<1>1. HostFits(hostMux) /\ AsksFit(hostMux, asks) /\ Coherent(store) /\ MapsFit(hostMux, store) /\ EventsFit(hostMux, events)
  BY DEF StoreInv
<1>2. AskFits(hostMux, asks[n]) /\ Unanswered(asks[n])
  BY <1>1 DEF AsksFit, Answer, Pending, Unanswered
<1>3. PICK a : a = asks[n]
  OBVIOUS
<1>4. store' = store
  BY DEF Answer
<1>5. SUFFICES ASSUME NEW value, asks' = [asks EXCEPT ![n].answer = <<value>>],
                      \/ /\ a.kind = "list" /\ value = ListAnswer /\ UNCHANGED <<hostMux, events>>
                      \/ /\ a.kind \in {"session", "recover"} /\ value = SessionAnswer(a.id) /\ UNCHANGED <<hostMux, events>>
                      \/ /\ a.kind = "term" /\ value = hostMux.term[a.id] /\ UNCHANGED <<hostMux, events>>
                      \/ /\ a.kind \in {"closeTerm", "closeTab"} /\ value = Refused /\ UNCHANGED <<hostMux, events>>
                      \/ /\ a.kind = "closeTerm" /\ ~hostMux.term[a.id].dead /\ ArchiveTerm(a.id)
                         /\ value = hostMux'.term[a.id]
                      \/ /\ a.kind = "closeTab" /\ ~hostMux.tab[a.id].dead /\ ArchiveTab(a.id)
                         /\ value = hostMux'.tab[a.id]
               PROVE  StoreInv'
  BY <1>3 DEF Answer
<1>6. PICK b : b = [a EXCEPT !.answer = <<value>>]
  OBVIOUS
<1>7. asks' = [asks EXCEPT ![n] = b]
  BY <1>3, <1>5, <1>6
<1>8. ASSUME UNCHANGED <<hostMux, events>>, AskFits(hostMux, b) PROVE StoreInv'
  <2>1. AsksFit(hostMux, asks')
    BY <1>1, <1>7, <1>8, OneAnswered
  <2>. QED BY <1>1, <1>4, <1>8, <2>1 DEF StoreInv
<1>9. ASSUME Followed, AskFits(hostMux', b) PROVE StoreInv'
  <2>1. AsksFit(hostMux', asks')
    BY <1>7, <1>9, OneAnswered DEF Followed
  <2>. QED BY <1>1, <1>4, <1>9, <2>1 DEF StoreInv, Followed
<1>10. CASE a.kind = "list" /\ value = ListAnswer /\ UNCHANGED <<hostMux, events>>
  <2>1. {"kind", "answer"} \subseteq DOMAIN a
    BY <1>2, <1>3, <1>10 DEF AskFits, ListFits, ReadFits, TermFits, CloseTermFits, CloseTabFits
  <2>2. b.kind = "list" /\ b.answer = <<value>> /\ DOMAIN b = DOMAIN a
    BY <1>6, <1>10, <2>1
  <2>3. MapsFit(hostMux, value)
    BY <1>1, <1>10, ListingFits
  <2>4. AskFits(hostMux, b)
    BY <2>1, <2>2, <2>3 DEF AskFits, ListFits
  <2>. QED BY <1>8, <1>10, <2>4
<1>11. CASE a.kind \in {"session", "recover"} /\ value = SessionAnswer(a.id) /\ UNCHANGED <<hostMux, events>>
  <2>1. {"kind", "id", "answer"} \subseteq DOMAIN a /\ a.id \in DOMAIN hostMux.ses
    BY <1>2, <1>3, <1>11 DEF AskFits, ListFits, ReadFits, TermFits, CloseTermFits, CloseTabFits
  <2>2. b.kind = a.kind /\ b.id = a.id /\ b.answer = <<value>> /\ DOMAIN b = DOMAIN a
    BY <1>6, <2>1
  <2>3. MapsFit(hostMux, value)
    BY <1>1, <1>11, <2>1, SessionFits
  <2>4. AskFits(hostMux, b)
    BY <1>11, <2>1, <2>2, <2>3 DEF AskFits, ReadFits
  <2>. QED BY <1>8, <1>11, <2>4
<1>12. CASE a.kind = "term" /\ value = hostMux.term[a.id] /\ UNCHANGED <<hostMux, events>>
  <2>1. {"kind", "id", "answer"} \subseteq DOMAIN a /\ a.id \in DOMAIN hostMux.term
    BY <1>2, <1>3, <1>12 DEF AskFits, ListFits, ReadFits, TermFits, CloseTermFits, CloseTabFits
  <2>2. b.kind = a.kind /\ b.id = a.id /\ b.answer = <<value>> /\ DOMAIN b = DOMAIN a
    BY <1>6, <2>1
  <2>3. TermCopy(hostMux, a.id, value)
    BY <1>1, <1>12, <2>1 DEF HostFits, MapsFit
  <2>4. AskFits(hostMux, b)
    BY <1>12, <2>1, <2>2, <2>3 DEF AskFits, TermFits
  <2>. QED BY <1>8, <1>12, <2>4
<1>13. CASE a.kind = "closeTerm"
  <2>1. /\ {"kind", "id", "home", "answer"} \subseteq DOMAIN a /\ a.id \in DOMAIN hostMux.term /\ a.home \in DOMAIN hostMux.ses
    BY <1>2, <1>3, <1>13 DEF AskFits, ListFits, ReadFits, TermFits, CloseTermFits, CloseTabFits
  <2>2. b.kind = a.kind /\ b.id = a.id /\ b.home = a.home /\ b.answer = <<value>> /\ DOMAIN b = DOMAIN a
    BY <1>6, <2>1
  <2>3. CASE value = Refused /\ UNCHANGED <<hostMux, events>>
    <3>1. AskFits(hostMux, b)
      BY <1>13, <2>1, <2>2, <2>3 DEF AskFits, CloseTermFits
    <3>. QED BY <1>8, <2>3, <3>1
  <2>4. CASE ~hostMux.term[a.id].dead /\ ArchiveTerm(a.id) /\ value = hostMux'.term[a.id]
    <3>1. a.id \in LiveIn(hostMux.term)
      BY <2>1, <2>4 DEF LiveIn
    <3>2. Followed /\ a.id \in DOMAIN hostMux'.term /\ hostMux'.term[a.id].dead /\ Grows(hostMux, hostMux')
      BY <2>4, <3>1, TermArchived
    <3>3. PICK g : g = hostMux'
      OBVIOUS
    <3>4. a.home \in DOMAIN g.ses
      BY <2>1, <3>2, <3>3 DEF Grows
    <3>5. AskFits(g, b)
      BY <1>13, <2>1, <2>2, <2>4, <3>2, <3>3, <3>4 DEF AskFits, CloseTermFits
    <3>. QED BY <1>9, <3>2, <3>3, <3>5
  <2>. QED BY <1>5, <1>13, <2>3, <2>4
<1>14. CASE a.kind = "closeTab"
  <2>1. /\ {"kind", "id", "home", "answer"} \subseteq DOMAIN a /\ a.id \in DOMAIN hostMux.tab
        /\ a.id[2] > 0 /\ a.home \in DOMAIN hostMux.ses
    BY <1>2, <1>3, <1>14 DEF AskFits, ListFits, ReadFits, TermFits, CloseTermFits, CloseTabFits
  <2>2. b.kind = a.kind /\ b.id = a.id /\ b.home = a.home /\ b.answer = <<value>> /\ DOMAIN b = DOMAIN a
    BY <1>6, <2>1
  <2>3. CASE value = Refused /\ UNCHANGED <<hostMux, events>>
    <3>1. AskFits(hostMux, b)
      BY <1>14, <2>1, <2>2, <2>3 DEF AskFits, CloseTabFits
    <3>. QED BY <1>8, <2>3, <3>1
  <2>4. CASE ~hostMux.tab[a.id].dead /\ ArchiveTab(a.id) /\ value = hostMux'.tab[a.id]
    <3>1. a.id \in LiveIn(hostMux.tab)
      BY <2>1, <2>4 DEF LiveIn
    <3>2. Followed /\ a.id \in DOMAIN hostMux'.tab /\ hostMux'.tab[a.id].dead /\ Grows(hostMux, hostMux')
      BY <2>4, <3>1, TabArchived
    <3>3. PICK g : g = hostMux'
      OBVIOUS
    <3>4. a.home \in DOMAIN g.ses
      BY <2>1, <3>2, <3>3 DEF Grows
    <3>5. AskFits(g, b)
      BY <1>14, <2>1, <2>2, <2>4, <3>2, <3>3, <3>4 DEF AskFits, CloseTabFits
    <3>. QED BY <1>9, <3>2, <3>3, <3>5
  <2>. QED BY <1>5, <1>14, <2>3, <2>4
<1>. QED BY <1>5, <1>10, <1>11, <1>12, <1>13, <1>14

-----------------------------------------------------------------------------
(* What an answer or an event leaves in the store is a copy again.              *)

LEMMA MergedFromEither ==
  ASSUME NEW old, NEW new, NEW base, \A id \in DOMAIN new : new[id].rev \in Nat
  PROVE  \A id \in DOMAIN Merged(old, new, base) :
            \/ id \in DOMAIN old /\ Merged(old, new, base)[id] = old[id]
            \/ id \in DOMAIN new /\ Merged(old, new, base)[id] = new[id]
<1>1. PICK kept : kept = {id \in DOMAIN old \ DOMAIN new : old[id].rev > RevOf(base, id)}
  OBVIOUS
<1>2. PICK m : m = Merged(old, new, base)
  OBVIOUS
<1>3. m = [id \in DOMAIN new \union kept |-> IF id \in kept THEN old[id] ELSE Newer(old, new, id)]
  BY <1>1, <1>2 DEF Merged
<1>4. \A id \in DOMAIN new : Newer(old, new, id) = new[id] \/ (id \in DOMAIN old /\ Newer(old, new, id) = old[id])
  BY DEF Newer, RevOf
<1>. QED BY <1>1, <1>2, <1>3, <1>4

LEMMA ReplacedFromEither ==
  ASSUME NEW old, NEW new, NEW own, \A id \in DOMAIN new : new[id].rev \in Nat
  PROVE  \A id \in DOMAIN ReplacedPart(old, new, own) :
            \/ id \in DOMAIN old /\ ReplacedPart(old, new, own)[id] = old[id]
            \/ id \in DOMAIN new /\ ReplacedPart(old, new, own)[id] = new[id]
<1>1. PICK kept : kept = {id \in DOMAIN old \ DOMAIN new : id \notin own \/ old[id].dead}
  OBVIOUS
<1>2. PICK m : m = ReplacedPart(old, new, own)
  OBVIOUS
<1>3. m = [id \in DOMAIN new \union kept |-> IF id \in kept THEN old[id] ELSE Newer(old, new, id)]
  BY <1>1, <1>2 DEF ReplacedPart
<1>4. \A id \in DOMAIN new : Newer(old, new, id) = new[id] \/ (id \in DOMAIN old /\ Newer(old, new, id) = old[id])
  BY DEF Newer, RevOf
<1>. QED BY <1>1, <1>2, <1>3, <1>4

LEMMA FallbacksFit ==
  ASSUME NEW h, NEW ses, NEW tab, \A s \in DOMAIN ses : SesCopy(h, s, ses[s]),
         \A t \in DOMAIN tab : TabCopy(h, t, tab[t])
  PROVE  \A t \in DOMAIN WithFallbacks(ses, tab) : TabCopy(h, t, WithFallbacks(ses, tab)[t])
<1>1. PICK bare : bare = {s \in DOMAIN ses : \A t \in LiveIn(tab) : t[1] # s}
  OBVIOUS
<1>2. PICK f : f = [rev |-> 0, dead |-> FALSE, term |-> 0]
  OBVIOUS
<1>3. PICK m : m = WithFallbacks(ses, tab)
  OBVIOUS
<1>4. m = [t \in DOMAIN tab \union {<<s, 0>> : s \in bare} |-> IF t[2] = 0 /\ t[1] \in bare THEN f ELSE tab[t]]
  BY <1>1, <1>2, <1>3 DEF WithFallbacks
<1>5. f \in TabValue
  BY <1>2 DEF TabValue
<1>6. \A s \in bare : s \in DOMAIN h.ses
  BY <1>1 DEF SesCopy
<1>7. ASSUME NEW t \in DOMAIN m PROVE TabCopy(h, t, m[t])
  <2>1. CASE t[2] = 0 /\ t[1] \in bare
    <3>1. m[t] = f
      BY <1>4, <2>1
    <3>. QED BY <1>5, <1>6, <2>1, <3>1 DEF TabCopy
  <2>2. CASE ~(t[2] = 0 /\ t[1] \in bare)
    <3>1. \A s \in bare : <<s, 0>>[2] = 0 /\ <<s, 0>>[1] = s
      OBVIOUS
    <3>2. t \in DOMAIN tab
      BY <1>4, <2>2, <3>1
    <3>3. m[t] = tab[t]
      BY <1>4, <2>2
    <3>. QED BY <3>2, <3>3
  <2>. QED BY <2>1, <2>2
<1>. QED BY <1>3, <1>7

LEMMA CopiesRevised ==
  ASSUME NEW h, NEW m, MapsFit(h, m)
  PROVE  /\ \A s \in DOMAIN m.ses : m.ses[s].rev \in Nat
         /\ \A t \in DOMAIN m.tab : m.tab[t].rev \in Nat
         /\ \A i \in DOMAIN m.term : m.term[i].rev \in Nat
BY DEF MapsFit, SesCopy, TabCopy, TermCopy, SesValue, TabValue, TermValue

LEMMA ListingMerged ==
  ASSUME NEW h, NEW st, NEW answer, NEW base, Coherent(st), MapsFit(h, st), MapsFit(h, answer)
  PROVE  MapsFit(h, MergeListing(st, answer, base))
<1>1. PICK v : v = MergeListing(st, answer, base)
  OBVIOUS
<1>2. PICK ses, tab : ses = Merged(st.ses, answer.ses, base.ses) /\ tab = Merged(st.tab, answer.tab, base.tab)
  OBVIOUS
<1>3. IsStore(st)
  BY DEF Coherent
<1>4. v.ses = ses /\ v.tab = WithFallbacks(ses, tab) /\ v.term = Merged(st.term, answer.term, base.term)
  BY <1>1, <1>2, <1>3, MergesCoherently
<1>5. \A s \in DOMAIN ses : SesCopy(h, s, ses[s])
  <2>1. \A s \in DOMAIN ses : \/ s \in DOMAIN st.ses /\ ses[s] = st.ses[s]
                              \/ s \in DOMAIN answer.ses /\ ses[s] = answer.ses[s]
    BY <1>2, CopiesRevised, MergedFromEither
  <2>. QED BY <2>1 DEF MapsFit
<1>6. \A t \in DOMAIN tab : TabCopy(h, t, tab[t])
  <2>1. \A t \in DOMAIN tab : \/ t \in DOMAIN st.tab /\ tab[t] = st.tab[t]
                              \/ t \in DOMAIN answer.tab /\ tab[t] = answer.tab[t]
    BY <1>2, CopiesRevised, MergedFromEither
  <2>. QED BY <2>1 DEF MapsFit
<1>7. \A t \in DOMAIN v.tab : TabCopy(h, t, v.tab[t])
  BY <1>4, <1>5, <1>6, FallbacksFit
<1>8. \A i \in DOMAIN v.term : TermCopy(h, i, v.term[i])
  <2>1. \A i \in DOMAIN v.term : \/ i \in DOMAIN st.term /\ v.term[i] = st.term[i]
                                 \/ i \in DOMAIN answer.term /\ v.term[i] = answer.term[i]
    BY <1>4, CopiesRevised, MergedFromEither
  <2>. QED BY <2>1 DEF MapsFit
<1>. QED BY <1>1, <1>4, <1>5, <1>7, <1>8 DEF MapsFit

LEMMA SessionMerged ==
  ASSUME NEW h, NEW st, NEW s, NEW answer, Coherent(st), MapsFit(h, st), MapsFit(h, answer)
  PROVE  MapsFit(h, ReplaceSession(st, s, answer))
<1>1. PICK v : v = ReplaceSession(st, s, answer)
  OBVIOUS
<1>2. PICK T, I : T = OwnTabs(st, s) /\ I = OwnTerms(st, s)
  OBVIOUS
<1>3. PICK ses, tab : ses = ReplacedPart(st.ses, answer.ses, {}) /\ tab = ReplacedPart(st.tab, answer.tab, T)
  OBVIOUS
<1>4. v.ses = ses /\ v.tab = WithFallbacks(ses, tab) /\ v.term = ReplacedPart(st.term, answer.term, I)
  BY <1>1, <1>2, <1>3, SessionReplaced
<1>5. \A x \in DOMAIN ses : SesCopy(h, x, ses[x])
  <2>1. \A x \in DOMAIN ses : \/ x \in DOMAIN st.ses /\ ses[x] = st.ses[x]
                              \/ x \in DOMAIN answer.ses /\ ses[x] = answer.ses[x]
    BY <1>3, CopiesRevised, ReplacedFromEither
  <2>. QED BY <2>1 DEF MapsFit
<1>6. \A t \in DOMAIN tab : TabCopy(h, t, tab[t])
  <2>1. \A t \in DOMAIN tab : \/ t \in DOMAIN st.tab /\ tab[t] = st.tab[t]
                              \/ t \in DOMAIN answer.tab /\ tab[t] = answer.tab[t]
    BY <1>3, CopiesRevised, ReplacedFromEither
  <2>. QED BY <2>1 DEF MapsFit
<1>7. \A t \in DOMAIN v.tab : TabCopy(h, t, v.tab[t])
  BY <1>4, <1>5, <1>6, FallbacksFit
<1>8. \A i \in DOMAIN v.term : TermCopy(h, i, v.term[i])
  <2>1. \A i \in DOMAIN v.term : \/ i \in DOMAIN st.term /\ v.term[i] = st.term[i]
                                 \/ i \in DOMAIN answer.term /\ v.term[i] = answer.term[i]
    BY <1>4, CopiesRevised, ReplacedFromEither
  <2>. QED BY <2>1 DEF MapsFit
<1>. QED BY <1>1, <1>4, <1>5, <1>7, <1>8 DEF MapsFit

LEMMA TermMerged ==
  ASSUME NEW h, NEW st, NEW id, NEW term, Coherent(st), MapsFit(h, st), TermCopy(h, id, term)
  PROVE  MapsFit(h, ReplaceTerm(st, id, term))
<1>1. PICK v : v = ReplaceTerm(st, id, term)
  OBVIOUS
<1>2. v = st \/ (v.ses = st.ses /\ v.tab = WithFallbacks(st.ses, st.tab) /\ v.term = Put(st.term, id, term))
  BY <1>1, TermReplaced
<1>3. ASSUME v.ses = st.ses, v.tab = WithFallbacks(st.ses, st.tab), v.term = Put(st.term, id, term)
      PROVE  MapsFit(h, v)
  <2>1. \A t \in DOMAIN v.tab : TabCopy(h, t, v.tab[t])
    BY <1>3, FallbacksFit DEF MapsFit
  <2>2. \A i \in DOMAIN v.term : TermCopy(h, i, v.term[i])
    BY <1>3 DEF MapsFit, Put
  <2>. QED BY <1>3, <2>1, <2>2 DEF MapsFit
<1>. QED BY <1>1, <1>2, <1>3

LEMMA TabMerged ==
  ASSUME NEW h, NEW st, NEW id, NEW tab, Coherent(st), MapsFit(h, st), TabCopy(h, id, tab)
  PROVE  MapsFit(h, ReplaceTab(st, id, tab))
<1>1. PICK v : v = ReplaceTab(st, id, tab)
  OBVIOUS
<1>2. v = st \/ (v.ses = st.ses /\ v.tab = Put(st.tab, id, tab) /\ v.term = st.term)
  BY <1>1, TabReplaced
<1>3. ASSUME v.ses = st.ses, v.tab = Put(st.tab, id, tab), v.term = st.term
      PROVE  MapsFit(h, v)
  <2>1. \A t \in DOMAIN v.tab : TabCopy(h, t, v.tab[t])
    BY <1>3 DEF MapsFit, Put
  <2>. QED BY <1>3, <2>1 DEF MapsFit
<1>. QED BY <1>1, <1>2, <1>3

LEMMA EventMerged ==
  ASSUME NEW h, NEW st, NEW event, HostFits(h), Coherent(st), MapsFit(h, st), EventFits(h, event)
  PROVE  Coherent(Applied(st, event)) /\ MapsFit(h, Applied(st, event))
<1>1. PICK v : v = Applied(st, event)
  OBVIOUS
<1>2. CASE event.kind = "ses"
  <2>1. Coherent(v) /\ v.ses = Put(st.ses, event.id, event.value) /\ v.tab = st.tab /\ v.term = st.term
    BY <1>1, <1>2, SessionApplies
  <2>2. SesCopy(h, event.id, event.value)
    BY <1>2 DEF EventFits
  <2>3. \A s \in DOMAIN v.ses : SesCopy(h, s, v.ses[s])
    BY <2>1, <2>2 DEF MapsFit, Put
  <2>. QED BY <1>1, <2>1, <2>3 DEF MapsFit
<1>3. CASE event.kind = "tab"
  <2>1. Coherent(v) /\ v.ses = st.ses /\ v.tab = Put(st.tab, event.id, event.value) /\ v.term = st.term
    BY <1>1, <1>3, TabApplies
  <2>2. TabCopy(h, event.id, event.value)
    BY <1>3 DEF EventFits
  <2>3. \A t \in DOMAIN v.tab : TabCopy(h, t, v.tab[t])
    BY <2>1, <2>2 DEF MapsFit, Put
  <2>. QED BY <1>1, <2>1, <2>3 DEF MapsFit
<1>4. CASE event.kind \in {"term", "output", "archived"}
  <2>1. TermCopy(h, event.id, event.value)
    BY <1>4 DEF EventFits
  <2>2. \A i \in DOMAIN st.term : TermCopy(h, i, st.term[i])
    BY DEF MapsFit
  <2>3. event.id \in DOMAIN st.term => {"rev", "dead"} \subseteq DOMAIN st.term[event.id]
    BY <2>2 DEF TermCopy, TermValue
  <2>4. Coherent(v) /\ v.ses = st.ses /\ v.tab = st.tab /\ TermsAfter(st, event, v.term)
    BY <1>1, <1>4, <2>3, TermApplies, ArchivedApplies
  <2>5. ASSUME event.id \in DOMAIN st.term
        PROVE  /\ TermCopy(h, event.id, [st.term[event.id] EXCEPT !.rev = event.value.rev])
               /\ TermCopy(h, event.id, [st.term[event.id] EXCEPT !.rev = event.value.rev, !.dead = TRUE])
    <3>1. PICK o, r : o = st.term[event.id] /\ r = event.value.rev
      OBVIOUS
    <3>2. o \in TermValue /\ o.tab[1] \in DOMAIN h.ses
      BY <2>2, <2>5, <3>1 DEF TermCopy
    <3>3. r \in Nat /\ r <= h.term[event.id].rev /\ event.id \in DOMAIN h.term
      BY <2>1, <3>1 DEF TermCopy, TermValue
    <3>4. [o EXCEPT !.rev = r] \in TermValue /\ [o EXCEPT !.rev = r].rev = r /\ [o EXCEPT !.rev = r].tab = o.tab
      BY <3>2, <3>3 DEF TermValue
    <3>5. /\ [o EXCEPT !.rev = r, !.dead = TRUE] \in TermValue /\ [o EXCEPT !.rev = r, !.dead = TRUE].rev = r
          /\ [o EXCEPT !.rev = r, !.dead = TRUE].tab = o.tab
      BY <3>2, <3>3 DEF TermValue
    <3>. QED BY <3>1, <3>2, <3>3, <3>4, <3>5 DEF TermCopy
  <2>6. \A i \in DOMAIN v.term : TermCopy(h, i, v.term[i])
    <3>1. CASE v.term = st.term
      BY <2>2, <3>1
    <3>2. ASSUME NEW c, TermCopy(h, event.id, c), v.term = Put(st.term, event.id, c)
          PROVE  \A i \in DOMAIN v.term : TermCopy(h, i, v.term[i])
      BY <2>2, <3>2 DEF Put
    <3>. QED BY <2>1, <2>4, <2>5, <3>1, <3>2 DEF TermsAfter
  <2>. QED BY <1>1, <2>4, <2>6 DEF MapsFit
<1>. QED BY <1>2, <1>3, <1>4 DEF EventFits

-----------------------------------------------------------------------------
(* The client's steps.                                                          *)

LEMMA AskAppended ==
  ASSUME NEW h, NEW q, NEW a, AsksFit(h, q), AskFits(h, a)
  PROVE  AsksFit(h, Append(q, a))
<1>1. IsSeq(q) /\ \A x : Has(q, x) => AskFits(h, x)
  BY DEF AsksFit, Has
<1>2. IsSeq(Append(q, a)) /\ \A n \in DOMAIN Append(q, a) : Has(q, Append(q, a)[n]) \/ Append(q, a)[n] = a
  BY <1>1, AppendMembers
<1>. QED BY <1>1, <1>2 DEF AsksFit

LEMMA AskRemoved ==
  ASSUME NEW h, NEW q, AsksFit(h, q), NEW n \in DOMAIN q
  PROVE  AsksFit(h, RemoveAt(q, n))
<1>1. IsSeq(q) /\ \A x : Has(q, x) => AskFits(h, x)
  BY DEF AsksFit, Has
<1>2. IsSeq(RemoveAt(q, n)) /\ \A k \in DOMAIN RemoveAt(q, n) : Has(q, RemoveAt(q, n)[k])
  BY <1>1, RemovedMembers
<1>. QED BY <1>1, <1>2 DEF AsksFit

LEMMA EventTaken ==
  ASSUME NEW h, NEW q, EventsFit(h, q), q # <<>>
  PROVE  EventsFit(h, Tail(q)) /\ EventFits(h, Head(q))
<1>1. IsSeq(q) /\ \A x : Has(q, x) => EventFits(h, x)
  BY DEF EventsFit, Has
<1>2. IsSeq(Tail(q)) /\ (\A n \in DOMAIN Tail(q) : Has(q, Tail(q)[n])) /\ Has(q, Head(q))
  BY <1>1, TailMembers
<1>. QED BY <1>1, <1>2 DEF EventsFit

LEMMA NothingUnderWay ==
  ASSUME NEW h
  PROVE  EventsFit(h, <<>>) /\ AsksFit(h, <<>>)
<1>1. <<>> \in Seq({}) /\ DOMAIN <<>> = {}
  OBVIOUS
<1>2. IsSeq(<<>>)
  BY <1>1 DEF IsSeq
<1>. QED BY <1>1, <1>2 DEF EventsFit, AsksFit

LEMMA SameMapsFit ==
  ASSUME NEW h, NEW st, NEW v, MapsFit(h, st), v.ses = st.ses, v.tab = st.tab, v.term = st.term
  PROVE  MapsFit(h, v)
BY DEF MapsFit

LEMMA EventReceived ==
  ASSUME StoreInv, ReceiveEvent
  PROVE  StoreInv'
<1>1. /\ HostFits(hostMux) /\ AsksFit(hostMux, asks) /\ Coherent(store) /\ MapsFit(hostMux, store)
      /\ EventsFit(hostMux, events) /\ events # <<>>
  BY DEF StoreInv, ReceiveEvent
<1>2. EventsFit(hostMux, Tail(events)) /\ EventFits(hostMux, Head(events))
  BY <1>1, EventTaken
<1>3. PICK event : event = Head(events)
  OBVIOUS
<1>4. EventFits(hostMux, event)
  BY <1>2, <1>3
<1>5. /\ store' = store \/ store' = Applied(store, event)
      /\ \/ asks' = asks
         \/ Kind(event) = "term" /\ asks' = Append(asks, Ask("term", event.id))
         \/ /\ Kind(event) # "term" /\ ~(event.kind = "tab" /\ event.id \notin DOMAIN store.tab)
            /\ asks' = Append(asks, Ask("session", IF event.kind = "ses" THEN event.id ELSE event.id[1]))
      /\ events' = Tail(events) /\ hostMux' = hostMux
  BY <1>3 DEF ReceiveEvent
<1>6. Coherent(store') /\ MapsFit(hostMux, store')
  BY <1>1, <1>4, <1>5, EventMerged
<1>7. AsksFit(hostMux, asks')
  <2>1. CASE Kind(event) = "term" /\ asks' = Append(asks, Ask("term", event.id))
    <3>1. event.kind \in {"term", "output", "archived"}
      BY <1>4, <2>1 DEF Kind, EventFits
    <3>2. event.id \in DOMAIN hostMux.term
      BY <1>4, <3>1 DEF EventFits, TermCopy
    <3>3. AskFits(hostMux, Ask("term", event.id))
      BY <3>2 DEF AskFits, TermFits, Ask, Unanswered
    <3>. QED BY <1>1, <2>1, <3>3, AskAppended
  <2>2. CASE /\ Kind(event) # "term"
             /\ asks' = Append(asks, Ask("session", IF event.kind = "ses" THEN event.id ELSE event.id[1]))
    <3>1. PICK home : home = IF event.kind = "ses" THEN event.id ELSE event.id[1]
      OBVIOUS
    <3>2. event.kind \in {"ses", "tab"}
      BY <1>4, <2>2 DEF Kind, EventFits
    <3>3. home \in DOMAIN hostMux.ses
      BY <1>4, <3>1, <3>2 DEF EventFits, SesCopy, TabCopy
    <3>4. AskFits(hostMux, Ask("session", home))
      BY <3>3 DEF AskFits, ReadFits, Ask, Unanswered
    <3>. QED BY <1>1, <2>2, <3>1, <3>4, AskAppended
  <2>. QED BY <1>1, <1>5, <2>1, <2>2
<1>. QED BY <1>1, <1>2, <1>5, <1>6, <1>7 DEF StoreInv

LEMMA CloseTermConfirmed ==
  ASSUME NEW h, NEW st, NEW id, HostFits(h), Coherent(st), MapsFit(h, st), id \in DOMAIN h.term, h.term[id].dead
  PROVE  LET v == Confirmed(ReplaceTerm(st, id, h.term[id]), "closeTerm", id)
         IN  Coherent(v) /\ MapsFit(h, v)
<1>1. PICK c : c = h.term[id]
  OBVIOUS
<1>2. TermCopy(h, id, c) /\ c.rev \in Nat
  BY <1>1 DEF HostFits, MapsFit, TermCopy, TermValue
<1>3. ~(RevOf(st.term, id) > c.rev)
  <2>1. CASE id \in DOMAIN st.term
    <3>1. TermCopy(h, id, st.term[id])
      BY <2>1 DEF MapsFit
    <3>2. st.term[id].rev \in Nat /\ st.term[id].rev <= c.rev
      BY <1>1, <3>1 DEF TermCopy, TermValue
    <3>. QED BY <1>2, <2>1, <3>2 DEF RevOf
  <2>2. CASE id \notin DOMAIN st.term
    BY <1>2, <2>2 DEF RevOf
  <2>. QED BY <2>1, <2>2
<1>4. PICK w : w = ReplaceTerm(st, id, c)
  OBVIOUS
<1>5. Coherent(w) /\ w.term = Put(st.term, id, c) /\ w.closingTerm \subseteq LiveIn(w.term)
  BY <1>3, <1>4, TermReplaced
<1>6. MapsFit(h, w)
  BY <1>2, <1>4, TermMerged
<1>7. Gone(w, "closeTerm", id)
  BY <1>1, <1>5 DEF Gone, LiveIn, Put
<1>8. PICK v : v = Confirmed(w, "closeTerm", id)
  OBVIOUS
<1>9. Coherent(v) /\ v.ses = w.ses /\ v.tab = w.tab /\ v.term = w.term
  BY <1>5, <1>7, <1>8, ConfirmsCoherently
<1>10. MapsFit(h, v)
  BY <1>6, <1>9, SameMapsFit
<1>. QED BY <1>1, <1>4, <1>8, <1>9, <1>10

LEMMA CloseTabConfirmed ==
  ASSUME NEW h, NEW st, NEW id, HostFits(h), Coherent(st), MapsFit(h, st), id \in DOMAIN h.tab, id[2] > 0,
         h.tab[id].dead
  PROVE  LET v == Confirmed(ReplaceTab(st, id, h.tab[id]), "closeTab", id)
         IN  Coherent(v) /\ MapsFit(h, v)
<1>1. PICK c : c = h.tab[id]
  OBVIOUS
<1>2. TabCopy(h, id, c) /\ c.rev \in Nat
  BY <1>1 DEF HostFits, MapsFit, TabCopy, TabValue
<1>3. ~(RevOf(st.tab, id) > c.rev)
  <2>1. CASE id \in DOMAIN st.tab
    <3>1. TabCopy(h, id, st.tab[id])
      BY <2>1 DEF MapsFit
    <3>2. st.tab[id].rev \in Nat /\ st.tab[id].rev <= c.rev
      BY <1>1, <3>1 DEF TabCopy, TabValue
    <3>. QED BY <1>2, <2>1, <3>2 DEF RevOf
  <2>2. CASE id \notin DOMAIN st.tab
    BY <1>2, <2>2 DEF RevOf
  <2>. QED BY <2>1, <2>2
<1>4. PICK w : w = ReplaceTab(st, id, c)
  OBVIOUS
<1>5. Coherent(w) /\ w.tab = Put(st.tab, id, c)
  BY <1>3, <1>4, TabReplaced
<1>6. MapsFit(h, w)
  BY <1>2, <1>4, TabMerged
<1>7. Gone(w, "closeTab", id)
  BY <1>1, <1>5 DEF Gone, Put
<1>8. PICK v : v = Confirmed(w, "closeTab", id)
  OBVIOUS
<1>9. Coherent(v) /\ v.ses = w.ses /\ v.tab = w.tab /\ v.term = w.term
  BY <1>5, <1>7, <1>8, ConfirmsCoherently
<1>10. MapsFit(h, v)
  BY <1>6, <1>9, SameMapsFit
<1>. QED BY <1>1, <1>4, <1>8, <1>9, <1>10

LEMMA AnswerReceived ==
  ASSUME StoreInv, NEW n \in DOMAIN asks, ReceiveAnswer(n)
  PROVE  StoreInv'
<1>1. /\ HostFits(hostMux) /\ AsksFit(hostMux, asks) /\ Coherent(store) /\ MapsFit(hostMux, store)
      /\ EventsFit(hostMux, events)
  BY DEF StoreInv
<1>2. PICK a, value, rest : a = asks[n] /\ value = a.answer[1] /\ rest = RemoveAt(asks, n)
  OBVIOUS
<1>3. AskFits(hostMux, a) /\ ~Unanswered(a)
  BY <1>1, <1>2 DEF AsksFit, ReceiveAnswer, Pending, Unanswered
<1>4. AsksFit(hostMux, rest)
  BY <1>1, <1>2, AskRemoved
<1>5. hostMux' = hostMux /\ events' = events
  BY DEF ReceiveAnswer
<1>6. \A x : <<x>>[1] = x
  OBVIOUS
<1>7. ASSUME Coherent(store'), MapsFit(hostMux, store'), asks' = rest PROVE StoreInv'
  BY <1>1, <1>4, <1>5, <1>7 DEF StoreInv
<1>8. \/ /\ a.kind = "list" /\ store' = MergeListing(store, value, a.base) /\ asks' = rest
      \/ /\ a.kind = "session" /\ store' = ReplaceSession(store, a.id, value) /\ asks' = rest
      \/ /\ a.kind = "recover" /\ asks' = rest
         /\ store' = Recovered(ReplaceSession(store, a.id, value), a.what, a.which)
      \/ /\ a.kind = "term" /\ store' = ReplaceTerm(store, a.id, value) /\ asks' = rest
      \/ /\ a.kind = "closeTerm" /\ value # Refused /\ asks' = rest
         /\ store' = Confirmed(ReplaceTerm(store, a.id, value), "closeTerm", a.id)
      \/ /\ a.kind = "closeTab" /\ value # Refused /\ asks' = rest
         /\ store' = Confirmed(ReplaceTab(store, a.id, value), "closeTab", a.id)
      \/ /\ a.kind \in {"closeTerm", "closeTab"} /\ store' = store
         /\ asks' = Append(rest, [kind |-> "recover", id |-> a.home, what |-> a.kind, which |-> a.id, answer |-> <<>>])
  BY <1>2 DEF ReceiveAnswer
<1>9. CASE a.kind = "list" /\ store' = MergeListing(store, value, a.base) /\ asks' = rest
  <2>1. ListFits(hostMux, a)
    BY <1>3, <1>9 DEF AskFits, ReadFits, TermFits, CloseTermFits, CloseTabFits
  <2>2. MapsFit(hostMux, value)
    BY <1>2, <1>3, <1>6, <2>1 DEF ListFits
  <2>3. IsStore(store)
    BY <1>1 DEF Coherent
  <2>4. PICK base : base = a.base
    OBVIOUS
  <2>5. Coherent(MergeListing(store, value, base))
    BY <2>3, MergesCoherently
  <2>6. MapsFit(hostMux, MergeListing(store, value, base))
    BY <1>1, <2>2, ListingMerged
  <2>. QED BY <1>7, <1>9, <2>4, <2>5, <2>6
<1>10. ASSUME a.kind \in {"session", "recover"}
       PROVE  Coherent(ReplaceSession(store, a.id, value)) /\ MapsFit(hostMux, ReplaceSession(store, a.id, value))
  <2>1. ReadFits(hostMux, a)
    BY <1>3, <1>10 DEF AskFits, ListFits, TermFits, CloseTermFits, CloseTabFits
  <2>2. MapsFit(hostMux, value)
    BY <1>2, <1>3, <1>6, <2>1 DEF ReadFits
  <2>3. PICK s : s = a.id
    OBVIOUS
  <2>4. Coherent(ReplaceSession(store, s, value))
    BY <1>1, SessionReplaced
  <2>5. MapsFit(hostMux, ReplaceSession(store, s, value))
    BY <1>1, <2>2, SessionMerged
  <2>. QED BY <2>3, <2>4, <2>5
<1>11. CASE a.kind = "session" /\ store' = ReplaceSession(store, a.id, value) /\ asks' = rest
  BY <1>7, <1>10, <1>11
<1>12. CASE /\ a.kind = "recover" /\ asks' = rest
            /\ store' = Recovered(ReplaceSession(store, a.id, value), a.what, a.which)
  <2>1. PICK u, what, which : u = ReplaceSession(store, a.id, value) /\ what = a.what /\ which = a.which
    OBVIOUS
  <2>2. Coherent(u) /\ MapsFit(hostMux, u)
    BY <1>10, <1>12, <2>1
  <2>3. PICK v : v = Recovered(u, what, which)
    OBVIOUS
  <2>4. Coherent(v) /\ v.ses = u.ses /\ v.tab = u.tab /\ v.term = u.term
    BY <2>2, <2>3, RecoversCoherently
  <2>5. MapsFit(hostMux, v)
    BY <2>2, <2>4, SameMapsFit
  <2>. QED BY <1>7, <1>12, <2>1, <2>3, <2>4, <2>5
<1>13. CASE a.kind = "term" /\ store' = ReplaceTerm(store, a.id, value) /\ asks' = rest
  <2>1. TermFits(hostMux, a)
    BY <1>3, <1>13 DEF AskFits, ListFits, ReadFits, CloseTermFits, CloseTabFits
  <2>2. TermCopy(hostMux, a.id, value)
    BY <1>2, <1>3, <1>6, <2>1 DEF TermFits
  <2>3. PICK id : id = a.id
    OBVIOUS
  <2>4. Coherent(ReplaceTerm(store, id, value))
    BY <1>1, TermReplaced
  <2>5. MapsFit(hostMux, ReplaceTerm(store, id, value))
    BY <1>1, <2>2, <2>3, TermMerged
  <2>. QED BY <1>7, <1>13, <2>3, <2>4, <2>5
<1>14. CASE /\ a.kind = "closeTerm" /\ value # Refused /\ asks' = rest
            /\ store' = Confirmed(ReplaceTerm(store, a.id, value), "closeTerm", a.id)
  <2>1. CloseTermFits(hostMux, a)
    BY <1>3, <1>14 DEF AskFits, ListFits, ReadFits, TermFits, CloseTabFits
  <2>2. a.id \in DOMAIN hostMux.term /\ value = hostMux.term[a.id] /\ hostMux.term[a.id].dead
    BY <1>2, <1>3, <1>6, <1>14, <2>1 DEF CloseTermFits
  <2>3. PICK id : id = a.id
    OBVIOUS
  <2>4. PICK v : v = Confirmed(ReplaceTerm(store, id, hostMux.term[id]), "closeTerm", id)
    OBVIOUS
  <2>5. Coherent(v) /\ MapsFit(hostMux, v)
    BY <1>1, <2>2, <2>3, <2>4, CloseTermConfirmed
  <2>. QED BY <1>7, <1>14, <2>2, <2>3, <2>4, <2>5
<1>15. CASE /\ a.kind = "closeTab" /\ value # Refused /\ asks' = rest
            /\ store' = Confirmed(ReplaceTab(store, a.id, value), "closeTab", a.id)
  <2>1. CloseTabFits(hostMux, a)
    BY <1>3, <1>15 DEF AskFits, ListFits, ReadFits, TermFits, CloseTermFits
  <2>2. a.id \in DOMAIN hostMux.tab /\ a.id[2] > 0 /\ value = hostMux.tab[a.id] /\ hostMux.tab[a.id].dead
    BY <1>2, <1>3, <1>6, <1>15, <2>1 DEF CloseTabFits
  <2>3. PICK id : id = a.id
    OBVIOUS
  <2>4. PICK v : v = Confirmed(ReplaceTab(store, id, hostMux.tab[id]), "closeTab", id)
    OBVIOUS
  <2>5. Coherent(v) /\ MapsFit(hostMux, v)
    BY <1>1, <2>2, <2>3, <2>4, CloseTabConfirmed
  <2>. QED BY <1>7, <1>15, <2>2, <2>3, <2>4, <2>5
<1>16. CASE /\ a.kind \in {"closeTerm", "closeTab"} /\ store' = store
            /\ asks' = Append(rest, [kind |-> "recover", id |-> a.home, what |-> a.kind, which |-> a.id, answer |-> <<>>])
  <2>1. a.home \in DOMAIN hostMux.ses
    BY <1>3, <1>16 DEF AskFits, ListFits, ReadFits, TermFits, CloseTermFits, CloseTabFits
  <2>2. PICK b : b = [kind |-> "recover", id |-> a.home, what |-> a.kind, which |-> a.id, answer |-> <<>>]
    OBVIOUS
  <2>3. b.kind = "recover" /\ b.id = a.home /\ b.answer = <<>> /\ {"kind", "id", "answer"} \subseteq DOMAIN b
    BY <2>2
  <2>4. AskFits(hostMux, b)
    BY <2>1, <2>3 DEF AskFits, ReadFits, Unanswered
  <2>5. AsksFit(hostMux, asks')
    BY <1>4, <1>16, <2>2, <2>4, AskAppended
  <2>. QED BY <1>1, <1>5, <1>16, <2>5 DEF StoreInv
<1>. QED BY <1>8, <1>9, <1>11, <1>12, <1>13, <1>14, <1>15, <1>16

LEMMA TermClosed ==
  ASSUME StoreInv, NEW i, CloseTerm(i)
  PROVE  StoreInv'
<1>1. /\ HostFits(hostMux) /\ AsksFit(hostMux, asks) /\ Coherent(store) /\ MapsFit(hostMux, store)
      /\ EventsFit(hostMux, events) /\ hostMux' = hostMux /\ events' = events
  BY DEF StoreInv, CloseTerm
<1>2. PICK t \in Tabs : i \in store.byTab[t]
  BY DEF CloseTerm
<1>3. i \in DOMAIN store.term
  <2>1. store.byTab = [b \in Tabs |-> {id \in DOMAIN store.term : Shown(store, id) = {b}}]
    BY <1>1 DEF Coherent, Indexed
  <2>. QED BY <1>2, <2>1
<1>4. i \in DOMAIN hostMux.term /\ store.term[i].tab[1] \in DOMAIN hostMux.ses
  BY <1>1, <1>3 DEF MapsFit, TermCopy
<1>5. Coherent(store') /\ store'.ses = store.ses /\ store'.tab = store.tab /\ store'.term = store.term
  <2>1. store' = Reselected(TermIndexes([store EXCEPT !.closingTerm = @ \union {i}]))
    BY DEF CloseTerm
  <2>2. PICK v : v = Reselected(TermIndexes([store EXCEPT !.closingTerm = @ \union {i}]))
    OBVIOUS
  <2>3. Coherent(v) /\ v.ses = store.ses /\ v.tab = store.tab /\ v.term = store.term
    BY <1>1, <2>2, HidesTerm
  <2>. QED BY <2>1, <2>2, <2>3
<1>6. MapsFit(hostMux, store')
  BY <1>1, <1>5, SameMapsFit
<1>7. AsksFit(hostMux, asks')
  <2>1. PICK b : b = [kind |-> "closeTerm", id |-> i, home |-> store.term[i].tab[1], answer |-> <<>>]
    OBVIOUS
  <2>2. AskFits(hostMux, b)
    BY <1>4, <2>1 DEF AskFits, CloseTermFits, Unanswered
  <2>. QED BY <1>1, <2>1, <2>2, AskAppended DEF CloseTerm
<1>. QED BY <1>1, <1>5, <1>6, <1>7 DEF StoreInv

LEMMA TabClosed ==
  ASSUME StoreInv, NEW t \in Tabs, CloseTab(t)
  PROVE  StoreInv'
<1>1. /\ HostFits(hostMux) /\ AsksFit(hostMux, asks) /\ Coherent(store) /\ MapsFit(hostMux, store)
      /\ EventsFit(hostMux, events) /\ hostMux' = hostMux /\ events' = events
  BY DEF StoreInv, CloseTab
<1>2. t \in DOMAIN store.tab /\ t[2] > 0
  BY <1>1 DEF Coherent, Indexed, LiveIn, CloseTab
<1>3. TabCopy(hostMux, t, store.tab[t])
  BY <1>1, <1>2 DEF MapsFit
<1>4. t \in DOMAIN hostMux.tab /\ t[1] \in DOMAIN hostMux.ses
  <2>1. t[2] # 0
    BY <1>2 DEF Tabs
  <2>. QED BY <1>3, <2>1 DEF TabCopy
<1>5. Coherent(store') /\ store'.ses = store.ses /\ store'.tab = store.tab /\ store'.term = store.term
  <2>1. store' = Reselected(TabIndexes([store EXCEPT !.closingTab = @ \union {t}]))
    BY DEF CloseTab
  <2>2. PICK v : v = Reselected(TabIndexes([store EXCEPT !.closingTab = @ \union {t}]))
    OBVIOUS
  <2>3. Coherent(v) /\ v.ses = store.ses /\ v.tab = store.tab /\ v.term = store.term
    BY <1>1, <2>2, HidesTab
  <2>. QED BY <2>1, <2>2, <2>3
<1>6. MapsFit(hostMux, store')
  BY <1>1, <1>5, SameMapsFit
<1>7. AsksFit(hostMux, asks')
  <2>1. PICK b : b = [kind |-> "closeTab", id |-> t, home |-> t[1], answer |-> <<>>]
    OBVIOUS
  <2>2. AskFits(hostMux, b)
    BY <1>2, <1>4, <2>1 DEF AskFits, CloseTabFits, Unanswered
  <2>. QED BY <1>1, <2>1, <2>2, AskAppended DEF CloseTab
<1>. QED BY <1>1, <1>5, <1>6, <1>7 DEF StoreInv

LEMMA ShownSelected ==
  ASSUME StoreInv, SelectShown
  PROVE  StoreInv'
<1>1. /\ HostFits(hostMux) /\ AsksFit(hostMux, asks) /\ Coherent(store) /\ MapsFit(hostMux, store)
      /\ EventsFit(hostMux, events) /\ hostMux' = hostMux /\ events' = events /\ asks' = asks
  BY DEF StoreInv, SelectShown
<1>2. 0 \notin store.visSes
  <2>1. store.visSes \subseteq DOMAIN hostMux.ses
    BY <1>1 DEF Coherent, Indexed, LiveIn, MapsFit, SesCopy
  <2>. QED BY <1>1, <2>1, StoreBounds DEF HostFits
<1>3. SUFFICES ASSUME NEW s, NEW t, NEW i, s \in store.visSes,
                      t \in TabsOf(store, s) \/ t = SelectedTab(store, s),
                      t = NoTab => i = 0,
                      t # NoTab => i \in store.byTab[t] \/ i = SelectedTerm(store, t),
                      store' = [store EXCEPT !.atSes = s, !.atTab = t, !.atTerm = i]
               PROVE  StoreInv'
  <2>1. ASSUME NEW s \in store.visSes, NEW t, t = SelectedTab(store, s),
               store' = [store EXCEPT !.atSes = s, !.atTab = t, !.atTerm = IF t = NoTab THEN 0 ELSE SelectedTerm(store, t)]
        PROVE  StoreInv'
    <3>1. PICK i : i = IF t = NoTab THEN 0 ELSE SelectedTerm(store, t)
      OBVIOUS
    <3>2. (t = NoTab => i = 0) /\ (t # NoTab => i = SelectedTerm(store, t))
      BY <3>1
    <3>3. store' = [store EXCEPT !.atSes = s, !.atTab = t, !.atTerm = i]
      BY <2>1, <3>1
    <3>. QED BY <1>3, <2>1, <3>2, <3>3
  <2>2. ASSUME NEW t \in store.visTab, t[1] \in store.visSes PROVE t \in TabsOf(store, t[1]) /\ t # NoTab
    <3>1. NoTab[1] = 0
      BY DEF NoTab
    <3>2. t # NoTab
      BY <1>2, <2>2, <3>1
    <3>. QED BY <2>2, <3>2 DEF TabsOf
  <2>3. ASSUME NEW t \in store.visTab, t[1] \in store.visSes,
               store' = [store EXCEPT !.atSes = t[1], !.atTab = t, !.atTerm = SelectedTerm(store, t)]
        PROVE  StoreInv'
    BY <1>3, <2>2, <2>3
  <2>4. ASSUME NEW t \in store.visTab, NEW i \in store.byTab[t], t[1] \in store.visSes,
               store' = [store EXCEPT !.atSes = t[1], !.atTab = t, !.atTerm = i]
        PROVE  StoreInv'
    BY <1>3, <2>2, <2>4
  <2>. QED BY <2>1, <2>3, <2>4 DEF SelectShown
<1>4. PICK v : v = [store EXCEPT !.atSes = s, !.atTab = t, !.atTerm = i]
  OBVIOUS
<1>5. s # 0
  BY <1>2, <1>3
<1>6. Coherent(v) /\ v.ses = store.ses /\ v.tab = store.tab /\ v.term = store.term
  <2>1. Coherent(store) /\ s \in store.visSes /\ s # 0
    BY <1>1, <1>3, <1>5
  <2>2. MaySelect(store, s, t, i)
    BY <1>3, <2>1 DEF MaySelect
  <2>3. v = SelectedAt(store, s, t, i)
    BY <1>4 DEF SelectedAt
  <2>. QED BY ONLY <2>1, <2>2, <2>3, Selects
<1>7. MapsFit(hostMux, v)
  BY <1>1, <1>6, SameMapsFit
<1>. QED BY <1>1, <1>3, <1>4, <1>6, <1>7 DEF StoreInv

LEMMA SocketGone ==
  ASSUME StoreInv, Unlink
  PROVE  StoreInv'
<1>1. /\ HostFits(hostMux) /\ AsksFit(hostMux, asks) /\ Coherent(store) /\ MapsFit(hostMux, store)
      /\ hostMux' = hostMux /\ events' = <<>> /\ asks' = <<>> /\ store' = AfterFailures(store, asks)
  BY DEF StoreInv, Unlink
<1>2. Len(asks) \in Nat
  <2>1. PICK S : asks \in Seq(S)
    BY <1>1 DEF AsksFit, IsSeq
  <2>. QED BY <2>1
<1>3. PICK v : v = AfterFailures(store, asks)
  OBVIOUS
<1>4. Coherent(v) /\ v.ses = store.ses /\ v.tab = store.tab /\ v.term = store.term
  BY <1>1, <1>2, <1>3, AllFailCoherently
<1>5. MapsFit(hostMux, v)
  BY <1>1, <1>4, SameMapsFit
<1>. QED BY <1>1, <1>3, <1>4, <1>5, NothingUnderWay DEF StoreInv

LEMMA Reconciles ==
  ASSUME StoreInv
  PROVE  AsksFit(hostMux, Reconciled(asks))
<1>1. AskFits(hostMux, Listing)
  BY DEF Listing, AskFits, ListFits, Unanswered
<1>2. AsksFit(hostMux, asks)
  BY DEF StoreInv
<1>3. AsksFit(hostMux, Append(asks, Listing))
  BY <1>1, <1>2, AskAppended
<1>. QED BY <1>2, <1>3 DEF Reconciled

LEMMA StoreSteps ==
  ASSUME StoreInv, [MuxNext]_muxVars
  PROVE  StoreInv'
<1>1. CASE HostChange
  <2>1. Followed /\ store' = store /\ asks' = asks
    BY <1>1, HostChanges DEF HostChange
  <2>. QED BY <2>1 DEF StoreInv, Followed
<1>2. ASSUME NEW n \in DOMAIN asks, Answer(n) PROVE StoreInv'
  BY <1>2, Answers
<1>3. ASSUME NEW n \in DOMAIN asks, ReceiveAnswer(n) PROVE StoreInv'
  BY <1>3, AnswerReceived
<1>4. CASE ReceiveEvent
  BY <1>4, EventReceived
<1>5. ASSUME NEW i \in Terms, CloseTerm(i) PROVE StoreInv'
  BY <1>5, TermClosed
<1>6. ASSUME NEW t \in Tabs, CloseTab(t) PROVE StoreInv'
  BY <1>6, TabClosed
<1>7. ASSUME NEW s \in Sessions, ReadSession(s) PROVE StoreInv'
  <2>1. /\ s \in store.visSes /\ asks' = Append(asks, Ask("session", s))
        /\ UNCHANGED <<store, hostMux, events>>
    BY <1>7 DEF ReadSession
  <2>2. s \in DOMAIN hostMux.ses
    BY <2>1 DEF StoreInv, Coherent, Indexed, LiveIn, MapsFit, SesCopy
  <2>3. AskFits(hostMux, Ask("session", s))
    BY <2>2 DEF AskFits, ReadFits, Ask, Unanswered
  <2>4. AsksFit(hostMux, asks')
    BY <2>1, <2>3, AskAppended DEF StoreInv
  <2>. QED BY <2>1, <2>4 DEF StoreInv
<1>8. CASE SelectShown
  BY <1>8, ShownSelected
<1>9. CASE Unlink
  BY <1>9, SocketGone
<1>10. CASE Relink
  <2>1. asks' = Reconciled(asks) /\ UNCHANGED <<store, hostMux, events>>
    BY <1>10 DEF Relink
  <2>. QED BY <2>1, Reconciles DEF StoreInv
<1>11. CASE ReplayGap
  <2>1. asks' = Reconciled(asks) /\ events' = <<>> /\ UNCHANGED <<store, hostMux>>
    BY <1>11 DEF ReplayGap
  <2>. QED BY <2>1, Reconciles, NothingUnderWay DEF StoreInv
<1>12. CASE UNCHANGED muxVars
  BY <1>12 DEF StoreInv, muxVars
<1>. QED BY <1>1, <1>2, <1>3, <1>4, <1>5, <1>6, <1>7, <1>8, <1>9, <1>10, <1>11, <1>12 DEF MuxNext

(* Whatever events, answers, failed requests, closes and reconnects the store    *)
(* has been through, the indexes it keeps one terminal at a time are those a     *)
(* rebuild would give, and what is selected is shown (mux-store.ts).             *)
THEOREM IndexesStayTrue == MuxStoreSpec => []StoreCoherent
<1>1. MuxInit => StoreInv
  BY StoreStarts
<1>2. StoreInv /\ [MuxNext]_muxVars => StoreInv'
  BY StoreSteps
<1>3. StoreInv => StoreCoherent
  BY CoherentHolds DEF StoreInv, StoreCoherent
<1>. QED BY <1>1, <1>2, <1>3, PTL DEF MuxStoreSpec
=============================================================================
