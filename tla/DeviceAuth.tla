----------------------------- MODULE DeviceAuth -----------------------------
(* Paired devices (device_auth.rs): pairing codes and devices are rows of the   *)
(* database; challenges, sessions and failures are in maps under one lock, each *)
(* with a queue of its keys in the order they came.  A request is a sequence of *)
(* critical sections; several are under way at once.                            *)
(*                                                                             *)
(* Codes, nonces and tokens count up.  Time is left out: a code expires at any  *)
(* moment, and an entry of a map when a clean-up finds it expired; every        *)
(* request cleans up in the section in which it reads.  Requests refused for    *)
(* their form are left out, with the count of their own ("invalid-device"),     *)
(* which nothing asks.                                                          *)
EXTENDS Naturals, FiniteSets, FiniteSetsExt, SequencesExt

CONSTANTS
    Handlers,       \* requests that can be under way at once
    Devices,
    MaxChallenges, MaxDeviceSessions, MaxFailureKeys, FailureLimit,
    MaxCodes, MaxNonces, MaxTokens, MaxRequests     \* bounds

(* A device's id has eight letters or more.                                      *)
DeviceLimits ==
    /\ IsFiniteSet(Handlers) /\ "pair" \notin Devices
    /\ {MaxChallenges, MaxDeviceSessions, MaxFailureKeys, FailureLimit} \subseteq Nat \ {0}
    /\ {MaxCodes, MaxNonces, MaxTokens, MaxRequests} \subseteq Nat

VARIABLES
    code,           \* per pairing code: its row
    device,         \* per device: its row, and history: the code it was paired with
    challenges, challengeOrder,
    sessions, sessionOrder,
    failures, failureOrder,
    handler,        \* per handler: its request and the section it is before
    issued,         \* how many nonces and tokens there have been
    late,           \* history: a request that began after the revocation was served
    spins,          \* history: record_failure did not end
    asked

authVars == <<code, device, challenges, challengeOrder, sessions, sessionOrder, failures,
              failureOrder, handler, issued, late, spins, asked>>
maps == <<challenges, challengeOrder, sessions, sessionOrder, failures, failureOrder>>

Codes == 1..MaxCodes
Keys == Devices \cup {"pair"}
Free == [op |-> "none", at |-> "idle", device |-> "none", item |-> 0, revoked |-> FALSE]

AuthInit ==
    /\ code = [c \in Codes |-> "none"]
    /\ device = [d \in Devices |-> [state |-> "unknown", code |-> 0]]
    /\ challenges = {} /\ challengeOrder = <<>>
    /\ sessions = {} /\ sessionOrder = <<>>
    /\ failures = [k \in Keys |-> 0] /\ failureOrder = <<>>
    /\ handler = [h \in Handlers |-> Free]
    /\ issued = [nonce |-> 0, token |-> 0]
    /\ late = FALSE /\ spins = FALSE /\ asked = 0

-----------------------------------------------------------------------------
(* Sections                                                                     *)

Begin(h, op, at, d, item) ==
    /\ handler[h] = Free /\ h = CHOOSE x \in Handlers : handler[x] = Free
    /\ asked < MaxRequests /\ asked' = asked + 1
    /\ handler' = [handler EXCEPT ![h] =
         IF at = "idle" THEN Free
         ELSE [op |-> op, at |-> at, device |-> d, item |-> item,
               revoked |-> d \in Devices /\ device[d].state = "revoked"]]

Before(h, op, at) == handler[h].op = op /\ handler[h].at = at
Goto(h, at) == handler' = [handler EXCEPT ![h].at = at]
End(h) == handler' = [handler EXCEPT ![h] = Free]

Limited(k) == failures[k] >= FailureLimit

(* How many of the oldest keys leave the queue until the map is small enough.    *)
Drops(order, keys, max) ==
    LET enough == {n \in 0..Len(order) :
                     Cardinality(keys \ {order[i] : i \in 1..n}) <= max} IN
    IF enough = {} THEN Len(order) ELSE Min(enough)
After(order, n) == SubSeq(order, n + 1, Len(order))
Dropped(order, n) == {order[i] : i \in 1..n}

(* The loop has no other end than a map that is small enough.                    *)
RecordFailure(k) ==
    LET count == [failures EXCEPT ![k] = @ + 1]
        order == Append(failureOrder, k)
        n == Drops(order, {x \in Keys : count[x] > 0}, MaxFailureKeys)
        left == [x \in Keys |-> IF x \in Dropped(order, n) THEN 0 ELSE count[x]] IN
    /\ failures' = left /\ failureOrder' = After(order, n)
    /\ spins' = (spins \/ Cardinality({x \in Keys : left[x] > 0}) > MaxFailureKeys)

AddChallenge(d) ==
    LET n == issued.nonce + 1
        all == challenges \cup {[nonce |-> n, device |-> d]}
        order == Append(challengeOrder, n)
        k == Drops(order, {x.nonce : x \in all}, MaxChallenges) IN
    /\ n <= MaxNonces /\ issued' = [issued EXCEPT !.nonce = n]
    /\ challenges' = {x \in all : x.nonce \notin Dropped(order, k)}
    /\ challengeOrder' = After(order, k)

(* A session knows, as history, the challenge it goes back to.                   *)
AddSession(d, root) ==
    LET t == issued.token + 1
        all == sessions \cup {[token |-> t, device |-> d, root |-> root]}
        order == Append(sessionOrder, t)
        k == Drops(order, {x.token : x \in all}, MaxDeviceSessions) IN
    /\ t <= MaxTokens /\ issued' = [issued EXCEPT !.token = t]
    /\ sessions' = {x \in all : x.token \notin Dropped(order, k)}
    /\ sessionOrder' = After(order, k)

-----------------------------------------------------------------------------
(* Pairing *)

CreatePairingCode(c) ==
    /\ code[c] = "none" /\ \A x \in Codes : x < c => code[x] # "none"
    /\ code' = [code EXCEPT ![c] = "offered"]
    /\ UNCHANGED <<device, maps, handler, issued, late, spins, asked>>

PairBegin(h) ==
    /\ \E d \in Devices, c \in Codes \cup {0} :
         Begin(h, "pair", IF Limited("pair") THEN "idle" ELSE "lookup", d, c)
    /\ UNCHANGED <<code, device, maps, issued, late, spins>>

(* An unknown, used or expired code counts as a failure.                         *)
PairLookup(h) ==
    /\ Before(h, "pair", "lookup")
    /\ IF handler[h].item \in Codes /\ code[handler[h].item] = "offered"
         THEN Goto(h, "consume") /\ UNCHANGED <<failures, failureOrder, spins>>
         ELSE End(h) /\ RecordFailure("pair")
    /\ UNCHANGED <<code, device, challenges, challengeOrder, sessions, sessionOrder, issued, late, asked>>

(* Fault: the code is marked without asking whether it still is unused.          *)
PairConsumeAgain(h) ==
    /\ Before(h, "pair", "consume")
    /\ code' = [code EXCEPT ![handler[h].item] = "used"] /\ Goto(h, "insert")
    /\ UNCHANGED <<device, maps, issued, late, spins, asked>>

(* The update that marks the code finds it unused, or another was faster.        *)
PairConsume(h) ==
    LET c == handler[h].item IN
    /\ Before(h, "pair", "consume")
    /\ IF code[c] = "offered"
         THEN code' = [code EXCEPT ![c] = "used"] /\ Goto(h, "insert")
              /\ UNCHANGED <<failures, failureOrder, spins>>
         ELSE End(h) /\ RecordFailure("pair") /\ UNCHANGED code
    /\ UNCHANGED <<device, challenges, challengeOrder, sessions, sessionOrder, issued, late, asked>>

(* A device id is paired once, also when it was revoked; the code is used up.    *)
PairInsert(h) ==
    LET d == handler[h].device IN
    /\ Before(h, "pair", "insert")
    /\ device' = IF device[d].state = "unknown"
                   THEN [device EXCEPT ![d] = [state |-> "paired", code |-> handler[h].item]]
                   ELSE device
    /\ End(h)
    /\ UNCHANGED <<code, maps, issued, late, spins, asked>>

-----------------------------------------------------------------------------
(* Challenge and session *)

ChallengeBegin(h) ==
    /\ \E d \in Devices :
         Begin(h, "challenge", IF device[d].state = "paired" THEN "issue" ELSE "idle", d, 0)
    /\ UNCHANGED <<code, device, maps, issued, late, spins>>

ChallengeIssue(h) ==
    /\ Before(h, "challenge", "issue")
    /\ AddChallenge(handler[h].device) /\ End(h)
    /\ UNCHANGED <<code, device, sessions, sessionOrder, failures, failureOrder, late, spins, asked>>

AuthenticateBegin(h) ==
    /\ \E d \in Devices, n \in 0..issued.nonce :
         Begin(h, "authenticate", IF Limited(d) THEN "idle" ELSE "take", d, n)
    /\ UNCHANGED <<code, device, maps, issued, late, spins>>

(* The challenge is taken out whatever comes of it.                              *)
AuthenticateTake(h) ==
    LET r == handler[h] IN
    /\ Before(h, "authenticate", "take")
    /\ challenges' = {x \in challenges : x.nonce # r.item}
    /\ IF [nonce |-> r.item, device |-> r.device] \in challenges
         THEN Goto(h, "row") /\ UNCHANGED <<failures, failureOrder, spins>>
         ELSE End(h) /\ RecordFailure(r.device)
    /\ UNCHANGED <<code, device, challengeOrder, sessions, sessionOrder, issued, late, asked>>

AuthenticateRow(h) ==
    LET d == handler[h].device IN
    /\ Before(h, "authenticate", "row")
    /\ \E signed \in BOOLEAN :
         IF device[d].state = "paired" /\ signed
           THEN Goto(h, "open") /\ UNCHANGED <<failures, failureOrder, spins>>
           ELSE End(h) /\ RecordFailure(d)
    /\ UNCHANGED <<code, device, challenges, challengeOrder, sessions, sessionOrder, issued, late, asked>>

AuthenticateOpen(h) ==
    LET r == handler[h] IN
    /\ Before(h, "authenticate", "open")
    /\ failures' = [failures EXCEPT ![r.device] = 0]
    /\ AddSession(r.device, r.item) /\ End(h)
    /\ UNCHANGED <<code, device, challenges, challengeOrder, failureOrder, late, spins, asked>>

(* Every request with a token, and the one that exchanges it.                    *)
SessionBegin(h) ==
    /\ \E t \in 1..issued.token, op \in {"session", "rotate"} :
         LET found == {x \in sessions : x.token = t} IN
         \/ /\ found = {} /\ Begin(h, op, "idle", "none", t)
         \/ \E x \in found : Begin(h, op, "check", x.device, t)
    /\ UNCHANGED <<code, device, maps, issued, late, spins>>

(* Fault: a session that was found is served without asking for its device.      *)
SessionUnchecked(h) ==
    /\ handler[h].at = "check"
    /\ IF handler[h].op = "rotate" THEN Goto(h, "remove") ELSE End(h)
    /\ late' = (late \/ handler[h].revoked)
    /\ UNCHANGED <<code, device, maps, issued, spins, asked>>

(* The device is asked for in the database after the lock was given up; a local  *)
(* client of a host without a token may go on without a session.                 *)
SessionCheck(h) ==
    LET r == handler[h]
        ok == device[r.device].state = "paired" IN
    /\ r.at = "check"
    /\ \/ r.op = "rotate" /\ Goto(h, "remove")
       \/ ~(ok /\ r.op = "rotate") /\ End(h)
    /\ late' = (late \/ (ok /\ r.revoked))
    /\ UNCHANGED <<code, device, maps, issued, spins, asked>>

RotateRemove(h) ==
    LET r == handler[h]
        found == {x \in sessions : x.token = r.item} IN
    /\ Before(h, "rotate", "remove")
    /\ sessions' = sessions \ found
    /\ IF found = {} THEN End(h)
       ELSE \E x \in found : handler' = [handler EXCEPT ![h] = [@ EXCEPT !.at = "row", !.item = x.root]]
    /\ UNCHANGED <<code, device, challenges, challengeOrder, sessionOrder, failures, failureOrder,
                   issued, late, spins, asked>>

RotateRow(h) ==
    /\ Before(h, "rotate", "row")
    /\ IF device[handler[h].device].state = "paired" THEN Goto(h, "insert") ELSE End(h)
    /\ UNCHANGED <<code, device, maps, issued, late, spins, asked>>

RotateInsert(h) ==
    LET r == handler[h] IN
    /\ Before(h, "rotate", "insert")
    /\ AddSession(r.device, r.item) /\ End(h)
    /\ UNCHANGED <<code, device, challenges, challengeOrder, failures, failureOrder, late, spins, asked>>

-----------------------------------------------------------------------------
(* Revocation, errors, time *)

RevokeBegin(h) ==
    /\ \E d \in {x \in Devices : device[x].state # "unknown"} :
         /\ Begin(h, "revoke", "retain", d, 0)
         /\ device' = [device EXCEPT ![d].state = "revoked"]
    /\ UNCHANGED <<code, maps, issued, late, spins>>

RevokeRetain(h) ==
    /\ Before(h, "revoke", "retain")
    /\ sessions' = {x \in sessions : x.device # handler[h].device}
    /\ End(h)
    /\ UNCHANGED <<code, device, challenges, challengeOrder, sessionOrder, failures, failureOrder,
                   issued, late, spins, asked>>

(* A statement fails: what the request did before it stays done.                 *)
StorageError(h) ==
    /\ handler[h].at \in {"lookup", "consume", "row", "check"} \/ Before(h, "pair", "insert")
    /\ End(h)
    /\ UNCHANGED <<code, device, maps, issued, late, spins, asked>>

(* Codes expire; clean-ups drop what has expired, and the queues keep its key.   *)
Expire ==
    /\ \/ \E c \in Codes : code[c] = "offered" /\ code' = [code EXCEPT ![c] = "expired"]
            /\ UNCHANGED <<challenges, sessions, failures>>
       \/ \E x \in challenges : challenges' = challenges \ {x} /\ UNCHANGED <<code, sessions, failures>>
       \/ \E x \in sessions : sessions' = sessions \ {x} /\ UNCHANGED <<code, challenges, failures>>
       \/ \E k \in Keys : failures[k] > 0 /\ failures' = [failures EXCEPT ![k] = @ - 1]
            /\ UNCHANGED <<code, challenges, sessions>>
    /\ UNCHANGED <<device, challengeOrder, sessionOrder, failureOrder, handler, issued, late, spins, asked>>

AuthNext ==
    \/ \E c \in Codes : CreatePairingCode(c)
    \/ \E h \in Handlers :
        \/ PairBegin(h) \/ PairLookup(h) \/ PairConsume(h) \/ PairInsert(h)
        \/ ChallengeBegin(h) \/ ChallengeIssue(h)
        \/ AuthenticateBegin(h) \/ AuthenticateTake(h) \/ AuthenticateRow(h) \/ AuthenticateOpen(h)
        \/ SessionBegin(h) \/ SessionCheck(h) \/ RotateRemove(h) \/ RotateRow(h) \/ RotateInsert(h)
        \/ RevokeBegin(h) \/ RevokeRetain(h)
        \/ StorageError(h)
    \/ Expire

AuthSpec == AuthInit /\ [][AuthNext]_authVars

-----------------------------------------------------------------------------
(* Properties *)

(* A code pairs one device, however many requests use it at once.                *)
OneDevicePerCode ==
    \A d, e \in Devices : device[d].code # 0 /\ device[d].code = device[e].code => d = e

(* A challenge leads to one session, and exchanging its token leaves one, also   *)
(* when two requests exchange it at once.                                        *)
OneHeir == \A x, y \in sessions : x.root = y.root => x = y

(* "max" entries at most, although the queues name entries that are long gone;   *)
(* every entry is in its queue, so that it can be dropped and the loop ends.      *)
MapsBounded ==
    /\ Cardinality(challenges) <= MaxChallenges /\ Cardinality(sessions) <= MaxDeviceSessions
    /\ \A x \in challenges : x.nonce \in ToSet(challengeOrder)
    /\ \A x \in sessions : x.token \in ToSet(sessionOrder)
    /\ \A k \in Keys : failures[k] > 0 => k \in ToSet(failureOrder)
    /\ ~spins

(* Requests that passed the limit together all count: no more than one each.     *)
FailuresBounded == \A k \in Keys : failures[k] <= FailureLimit + Cardinality(Handlers) - 1

(* A request that begins after a device was revoked is not served, although an   *)
(* authentication under way may still open a session after revoke removed them.  *)
DevicesSound == OneDevicePerCode /\ OneHeir /\ MapsBounded /\ FailuresBounded /\ ~late
=============================================================================
