-------------------------- MODULE TerminalControl --------------------------
(***************************************************************************)
(* The lease registry of one terminal (apps/server/src/terminal_control.rs) *)
(* as its owner thread drives it (the lease commands and authorize_terminal *)
(* of apps/server/src/terminal.rs).  One owner thread holds one registry    *)
(* with one terminal in it, so every handler is one atomic step.            *)
(*                                                                         *)
(* The code keeps the leases in insertion-ordered maps keyed by a fresh     *)
(* UUID.  Here a lease id is the number of leases minted before it, plus    *)
(* one: fresh, and in insertion order.                                      *)
(***************************************************************************)
EXTENDS Naturals, Sequences, FiniteSets

CONSTANTS
  Connections,    \* connection ids: one per socket, or one per HTTP client
  Principals,     \* principal ids (a paired device, the host token, ...)
  PrincipalOf,    \* the principal a connection authenticated as
  Commands,       \* command ids clients put in their mutation fences
  Epochs,         \* terminal epochs a fence may name
  Epoch,          \* the epoch this terminal is registered with
  MaxCommandIds,  \* MAX_COMMAND_IDS
  TTL,            \* lease_ttl_ms, in clock ticks
  MaxNow,         \* bound: clock readings are 0..MaxNow
  MaxLeases,      \* bound: leases minted in a behaviour
  MaxAccepted     \* bound: fenced mutations accepted in a behaviour

ASSUME ConnectionsAssumption == PrincipalOf \in [Connections -> Principals]
ASSUME EpochAssumption == Epoch \in Epochs
ASSUME BoundsAssumption ==
  /\ MaxCommandIds \in Nat \ {0}
  /\ TTL \in Nat \ {0}
  /\ {MaxNow, MaxLeases, MaxAccepted} \subseteq Nat

VARIABLES
  now,               \* the wall clock; it may be set back
  registered,        \* is the terminal still in the registry?
  leaseGeneration,   \* lease_generation
  primary,           \* primary_writer_id
  writers,           \* writers
  observers,         \* observers
  commandIds,        \* command_ids, oldest first
  minted,            \* leases minted so far: the source of fresh ids
  accepted,          \* history: command ids of all accepted fenced mutations
  appliedGeneration  \* history: generation of the last mutation applied

leaseVars == <<leaseGeneration, primary, writers, observers, minted>>
historyVars == <<accepted, appliedGeneration>>
vars == <<now, registered, leaseVars, commandIds, historyVars>>

NoLease == 0
LeaseIds == Nat \ {NoLease}

Lease == [id : LeaseIds, principal : Principals, connection : Connections,
          generation : Nat, expires : Nat]

\* What a client puts in a fence: any lease id and generation it may ever have
\* been told.  The owner overwrites principal and connection with the caller's.
Fence == [epoch : Epochs, lease : 1..minted, generation : 0..leaseGeneration,
          command : Commands]

Init ==
  /\ now = 0
  /\ registered = TRUE
  /\ leaseGeneration = 0
  /\ primary = NoLease
  /\ writers = {}
  /\ observers = {}
  /\ commandIds = <<>>
  /\ minted = 0
  /\ accepted = <<>>
  /\ appliedGeneration = 0

-----------------------------------------------------------------------------
(* Lease bookkeeping *)

Live(leases) == {l \in leases : l.expires > now}
Held(leases, p, c) == {l \in leases : l.principal = p /\ l.connection = c}
WithId(leases, id) == {l \in leases : l.id = id}
Oldest(leases) == CHOOSE l \in leases : \A m \in leases : l.id <= m.id
First(leases) == IF leases = {} THEN NoLease ELSE Oldest(leases).id

\* purge: expired leases go; a primary that went with them is replaced by the
\* oldest remaining writer.
PrimaryAfterPurge ==
  IF WithId(Live(writers), primary) # {} THEN primary ELSE First(Live(writers))

Purge ==
  /\ writers' = Live(writers)
  /\ observers' = Live(observers)
  /\ primary' = PrimaryAfterPurge

RenewLease(leases, id) ==
  {IF l.id = id THEN [l EXCEPT !.expires = now + TTL] ELSE l : l \in leases}

NewLease(p, c, generation) ==
  [id |-> minted + 1, principal |-> p, connection |-> c,
   generation |-> generation, expires |-> now + TTL]

-----------------------------------------------------------------------------
(* acquire *)

AcquireHeldWriter(p, c) ==
  /\ Held(Live(writers), p, c) # {}
  /\ writers' = RenewLease(Live(writers), First(Held(Live(writers), p, c)))
  /\ observers' = Live(observers)
  /\ primary' = PrimaryAfterPurge
  /\ UNCHANGED <<leaseGeneration, minted>>

AcquireNewWriter(p, c) ==
  /\ Held(Live(writers), p, c) = {}
  /\ minted < MaxLeases
  /\ minted' = minted + 1
  /\ observers' = Live(observers) \ Held(Live(observers), p, c)
  /\ leaseGeneration' = IF PrimaryAfterPurge = NoLease
                        THEN leaseGeneration + 1 ELSE leaseGeneration
  /\ writers' = Live(writers) \cup {NewLease(p, c, leaseGeneration')}
  /\ primary' = IF PrimaryAfterPurge = NoLease
                THEN minted + 1 ELSE PrimaryAfterPurge

AcquireWriter(p, c) == AcquireHeldWriter(p, c) \/ AcquireNewWriter(p, c)

AcquireHeldObserver(p, c) ==
  /\ Held(Live(observers), p, c) # {}
  /\ observers' = RenewLease(Live(observers), First(Held(Live(observers), p, c)))
  /\ writers' = Live(writers)
  /\ primary' = PrimaryAfterPurge
  /\ UNCHANGED <<leaseGeneration, minted>>

AcquireNewObserver(p, c) ==
  /\ Held(Live(observers), p, c) = {}
  /\ minted < MaxLeases
  /\ minted' = minted + 1
  /\ observers' = Live(observers) \cup {NewLease(p, c, leaseGeneration)}
  /\ writers' = Live(writers)
  /\ primary' = PrimaryAfterPurge
  /\ UNCHANGED leaseGeneration

AcquireObserver(p, c) == AcquireHeldObserver(p, c) \/ AcquireNewObserver(p, c)

AcquireLease(c) ==
  /\ registered
  /\ AcquireWriter(PrincipalOf[c], c) \/ AcquireObserver(PrincipalOf[c], c)
  /\ UNCHANGED <<now, registered, commandIds, historyVars>>

-----------------------------------------------------------------------------
(* renew, release and the disconnect of a socket *)

Renew(c, id) ==
  /\ registered
  /\ LET live == Live(writers) \cup Live(observers)
         mine == Held(WithId(live, id), PrincipalOf[c], c)
         kept(leases) == IF mine = {} THEN leases ELSE RenewLease(leases, id)
     IN  /\ writers' = kept(Live(writers))
         /\ observers' = kept(Live(observers))
         /\ primary' = PrimaryAfterPurge
  /\ UNCHANGED <<now, registered, leaseGeneration, minted, commandIds, historyVars>>

\* Fault: the primary is not handed on.
ReleaseKeepingPrimary(c, id) ==
  /\ registered
  /\ Held(WithId(writers \cup observers, id), PrincipalOf[c], c) # {}
  /\ writers' = writers \ WithId(writers, id)
  /\ observers' = observers \ WithId(observers, id)
  /\ UNCHANGED <<now, registered, leaseGeneration, primary, minted, commandIds,
                 historyVars>>

\* release does not purge, and refuses a lease of another connection.
Release(c, id) ==
  /\ registered
  /\ Held(WithId(writers \cup observers, id), PrincipalOf[c], c) # {}
  /\ writers' = writers \ WithId(writers, id)
  /\ observers' = observers \ WithId(observers, id)
  /\ primary' = IF primary = id THEN First(writers') ELSE primary
  /\ UNCHANGED <<now, registered, leaseGeneration, minted, commandIds, historyVars>>

\* The owner's ReleaseConnection command: leases of the connection go; when the
\* last writer went with it, the oldest observer is promoted under a new lease
\* of a new generation.
OfConnection(leases, c) == {l \in leases : l.connection = c}

ReleaseConnection(c) ==
  /\ registered
  /\ LET gone == OfConnection(Live(writers), c)
         w == Live(writers) \ gone
         o == Live(observers) \ OfConnection(Live(observers), c)
         heir == Oldest(o)
     IN  IF gone # {} /\ w = {} /\ o # {}
         THEN /\ minted < MaxLeases
              /\ minted' = minted + 1
              /\ leaseGeneration' = leaseGeneration + 1
              /\ writers' = {NewLease(heir.principal, heir.connection, leaseGeneration')}
              /\ observers' = o \ {heir}
              /\ primary' = minted + 1
         ELSE /\ writers' = w
              /\ observers' = o
              /\ primary' = IF WithId(w, PrimaryAfterPurge) # {}
                            THEN PrimaryAfterPurge ELSE First(w)
              /\ UNCHANGED <<leaseGeneration, minted>>
  /\ UNCHANGED <<now, registered, commandIds, historyVars>>

-----------------------------------------------------------------------------
(* force_takeover and transfer *)

\* Fault: the writers taken over from stay.
ForceTakeoverBeside(p, c) ==
  /\ minted < MaxLeases
  /\ minted' = minted + 1
  /\ leaseGeneration' = leaseGeneration + 1
  /\ writers' = writers \cup {NewLease(p, c, leaseGeneration')}
  /\ primary' = minted + 1

\* Fault: the generation is not raised.
ForceTakeoverSameGeneration(p, c) ==
  /\ minted < MaxLeases
  /\ minted' = minted + 1
  /\ leaseGeneration' = leaseGeneration
  /\ writers' = {NewLease(p, c, leaseGeneration)}
  /\ primary' = minted + 1

ForceTakeover(p, c) ==
  /\ minted < MaxLeases
  /\ minted' = minted + 1
  /\ leaseGeneration' = leaseGeneration + 1
  /\ writers' = {NewLease(p, c, leaseGeneration')}
  /\ primary' = minted + 1

\* force_takeover does not purge: it drops the caller's own observer leases and
\* leaves the others, expired ones included.
Takeover(c) ==
  /\ registered
  /\ ForceTakeover(PrincipalOf[c], c)
  /\ observers' = observers \ Held(observers, PrincipalOf[c], c)
  /\ UNCHANGED <<now, registered, commandIds, historyVars>>

\* The owner passes the caller's principal as the target's: the lease is minted
\* for that principal on the target connection.
Transfer(c, id, target) ==
  /\ registered
  /\ \/ /\ Held(WithId(Live(writers), id), PrincipalOf[c], c) # {}
        /\ ForceTakeover(PrincipalOf[c], target)
        /\ observers' = Live(observers) \ Held(Live(observers), PrincipalOf[c], target)
     \/ /\ Held(WithId(Live(writers), id), PrincipalOf[c], c) = {}
        /\ Purge
        /\ UNCHANGED <<leaseGeneration, minted>>
  /\ UNCHANGED <<now, registered, commandIds, historyVars>>

-----------------------------------------------------------------------------
(* authorize_mutation, and authorize_terminal without a fence *)

Remembered(command) == \E i \in DOMAIN commandIds : commandIds[i] = command

\* Faults: nothing is evicted; the newest id is evicted instead of the oldest.
RememberAll(command) == Append(commandIds, command)
RememberOldest(command) ==
  IF Len(commandIds) = MaxCommandIds THEN commandIds ELSE Append(commandIds, command)

Remember(command) ==
  LET longer == Append(commandIds, command)
  IN  IF Len(longer) > MaxCommandIds THEN Tail(longer) ELSE longer

Authorized(c, fence) ==
  /\ fence.epoch = Epoch
  /\ \E l \in Held(WithId(Live(writers), fence.lease), PrincipalOf[c], c) :
       l.generation = fence.generation
  /\ ~Remembered(fence.command)

AcceptFenced(c, fence) ==
  /\ Len(accepted) < MaxAccepted
  /\ Authorized(c, fence)
  /\ commandIds' = Remember(fence.command)
  /\ writers' = RenewLease(Live(writers), fence.lease)
  /\ observers' = Live(observers)
  /\ primary' = PrimaryAfterPurge
  /\ accepted' = Append(accepted, fence.command)
  /\ appliedGeneration' = fence.generation
  /\ UNCHANGED <<leaseGeneration, minted>>

\* A stale epoch is refused before the purge, everything else after it.
RejectFenced(c, fence) ==
  /\ ~Authorized(c, fence)
  /\ IF fence.epoch = Epoch THEN Purge ELSE UNCHANGED <<primary, writers, observers>>
  /\ UNCHANGED <<leaseGeneration, minted, commandIds, historyVars>>

MutateFenced(c, fence) ==
  /\ registered
  /\ AcceptFenced(c, fence) \/ RejectFenced(c, fence)
  /\ UNCHANGED <<now, registered>>

\* Without a fence the caller's live writer lease is used as it is, or one is
\* acquired; no command id is remembered.
AuthorizeUnfenced(p, c) ==
  /\ \/ /\ Held(Live(writers), p, c) # {}
        /\ Purge
        /\ UNCHANGED <<leaseGeneration, minted>>
     \/ AcquireNewWriter(p, c)
  /\ appliedGeneration' =
       (CHOOSE l \in Held(writers', p, c) : TRUE).generation
  /\ UNCHANGED <<commandIds, accepted>>

MutateUnfenced(c) ==
  /\ registered
  /\ AuthorizeUnfenced(PrincipalOf[c], c)
  /\ UNCHANGED <<now, registered>>

-----------------------------------------------------------------------------
(* list, unregister_terminal, the clock *)

ListLeases ==
  /\ registered
  /\ Purge
  /\ UNCHANGED <<now, registered, leaseGeneration, minted, commandIds, historyVars>>

\* Dispose, and AuthorizeAndDispose once it is authorized: the entry goes with
\* everything in it.  The generation is left as it was: nothing reads it again.
Unregister ==
  /\ registered
  /\ registered' = FALSE
  /\ writers' = {}
  /\ observers' = {}
  /\ primary' = NoLease
  /\ commandIds' = <<>>
  /\ UNCHANGED <<now, leaseGeneration, minted, historyVars>>

SetClock ==
  /\ now' \in 0..MaxNow
  /\ UNCHANGED <<registered, leaseVars, commandIds, historyVars>>

Next ==
  \/ \E c \in Connections :
       \/ AcquireLease(c)
       \/ \E id \in 1..minted : Renew(c, id) \/ Release(c, id)
       \/ ReleaseConnection(c)
       \/ Takeover(c)
       \/ \E id \in 1..minted, target \in Connections : Transfer(c, id, target)
       \/ \E fence \in Fence : MutateFenced(c, fence)
       \/ MutateUnfenced(c)
  \/ ListLeases
  \/ Unregister
  \/ SetClock

Spec == Init /\ [][Next]_vars

-----------------------------------------------------------------------------
(* Properties *)

\* The state has its type, and the remembered command ids never exceed the
\* bound MAX_COMMAND_IDS the registry promises to keep.
TypeOK ==
  /\ now \in 0..MaxNow
  /\ registered \in BOOLEAN
  /\ leaseGeneration \in Nat
  /\ primary \in Nat
  /\ writers \subseteq Lease
  /\ observers \subseteq Lease
  /\ commandIds \in Seq(Commands)
  /\ Len(commandIds) <= MaxCommandIds
  /\ minted \in Nat
  /\ accepted \in Seq(Commands)
  /\ appliedGeneration \in Nat

\* A terminal has a primary writer exactly when it has a writer, and the
\* primary is one of them, whatever mix of releases, disconnects, expiries,
\* takeovers and promotions came before.
PrimaryOf(leases, id) ==
  /\ id = NoLease <=> leases = {}
  /\ id # NoLease => WithId(leases, id) # {}
PrimaryIsWriter == PrimaryOf(writers, primary)

\* All writers of a moment share the current generation: a lease from before a
\* takeover or a handover is never a writer beside one from after it.
WritersShareGeneration == \A l \in writers : l.generation = leaseGeneration

\* No connection collects two writer leases, or two observer leases, of one
\* principal: acquiring again finds the lease already held, also after a
\* transfer, a takeover or a promotion gave it one.
NoSharedHolder(leases) ==
  \A l, m \in leases :
    l.principal = m.principal /\ l.connection = m.connection => l = m
OneLeasePerHolder == NoSharedHolder(writers) /\ NoSharedHolder(observers)

\* The three together: the lists of leases agree with each other and with the
\* generation after any takeover, transfer, expiry and disconnect.
LeasesAgree == PrimaryIsWriter /\ WritersShareGeneration /\ OneLeasePerHolder

\* A command id is refused as long as it is among the last MAX_COMMAND_IDS
\* accepted ones: two acceptances of one id are further apart than that.
NoReplayWithinWindow ==
  \A i, j \in DOMAIN accepted :
    i < j /\ accepted[i] = accepted[j] => j - i > MaxCommandIds

\* Mutations reach the process in generation order: once one was applied under
\* a generation, no fence of an earlier generation is honoured any more.
MutationsInGenerationOrder == [][appliedGeneration' >= appliedGeneration]_vars

\* A step that replaces all writers by other ones raises the generation, so no
\* fence minted for the old set can match a lease of the new one.
HandoverRaises ==
  (/\ writers # {} /\ writers' # {}
   /\ \A l \in writers : WithId(writers', l.id) = {})
  => leaseGeneration' > leaseGeneration
HandoverRaisesGeneration == [][HandoverRaises]_vars
=============================================================================
