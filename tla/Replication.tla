----------------------------- MODULE Replication -----------------------------
(***************************************************************************)
(* A persistent replica (the process of Persistence) and its primary:      *)
(*                                                                         *)
(*   network/replication.ts  forwardToReplicas(), applyReplicationOp(),    *)
(*                           syncFromPrimary()                             *)
(*   network/app.ts          the write handlers of the primary, /snapshot, *)
(*                           /internal/replicate                           *)
(*   network/server.ts       the sync at start and at a change of leader   *)
(*                                                                         *)
(* Forwarded operations are calls of their own, each of which may arrive    *)
(* before earlier ones, or fail; `nr' numbers them for the history only.    *)
(* Both stores make room for a key that is set when they are full, and      *)
(* either may pick another key than the other; both let values expire that  *)
(* were set with a TTL, each in its own time.  None of this is forwarded.   *)
(* A client's write to the replica is refused with 409, and one that is     *)
(* not valid with 400; neither changes anything.                            *)
(***************************************************************************)
EXTENDS Persistence

CONSTANTS
    PrefixSets,     \* for each prefix, the set of the keys that start with it
    PrimaryEntries, \* the primary's INKCACHE_MAX_ENTRIES
    maxAttempts,    \* of syncFromPrimary()
    MaxChanges      \* bound: writes at the primary and changes of leader

ASSUME ReplicationAssumption ==
    /\ PrefixSets \subseteq SUBSET Keys
    /\ PrimaryEntries \in Nat \ {0}
    /\ maxAttempts \in Nat \ {0} /\ MaxChanges \in Nat

VARIABLES
    primary,    \* the store of the primary
    wire,       \* POST /internal/replicate calls that are under way
    sync,       \* the syncFromPrimary() under way: attempt, answer, and
                \* (history) the keys written since the primary answered
    changes,    \* how many writes and changes of leader there were
    word,       \* history: what became of the latest word on each key
    lostThere,  \* history: keys the primary evicted or let expire since then
    lostHere    \* history: keys the replica evicted or let expire since then

lost == <<lostThere, lostHere>>
replVars == <<primary, wire, sync, changes, word, lost>>
vars == <<persistVars, replVars>>

(* The call with the latest word on a key, or the answer to a sync that has *)
(* it, is on its way ("sent"), was the latest to arrive ("taken"), or       *)
(* failed, was never sent, or something older arrived after it ("missed").  *)
Words == {"sent", "taken", "missed"}

(* An operation sets a key, or removes a key (delete), the keys with a      *)
(* prefix (invalidate), or all (flush).                                     *)
Ops ==
    [keys : {{k} : k \in Keys}, value : Values, nr : 1 .. MaxChanges] \cup
    [keys : {{k} : k \in Keys} \cup PrefixSets \cup {Keys}, value : {Absent}, nr : 1 .. MaxChanges]

(* What an operation does to a store, at the primary and, by                *)
(* applyReplicationOp(), at the replica: if there is room, and if not.      *)
Apply(s, op) == [k \in Keys |-> IF k \in op.keys THEN op.value ELSE s[k]]

Applied(s, op, max) ==
    IF op.value = Absent THEN {Apply(s, op)} ELSE Stored(Apply(s, op), op.keys, max)

(* Those of the keys wanted that a step has not kept join the lost ones. *)
Gone(before, wanted, now) == {k \in Keys : now[k] = Absent /\ (k \in before \/ wanted[k] # Absent)}

NoSync == [attempt |-> 0, answer |-> NoFile, crossed |-> {}]

Init ==
    /\ PersistInit
    /\ primary = Empty /\ wire = {}
    /\ sync = NoSync
    /\ changes = 0
    /\ word = [k \in Keys |-> "missed"]
    /\ lostThere = {} /\ lostHere = {}

-----------------------------------------------------------------------------
(* The primary. *)

(* The answer to a sync does not have what is written after it. *)
Cross(S) == sync' = [sync EXCEPT !.crossed = IF sync.answer = NoFile THEN {} ELSE @ \cup S]

(* Mutant: removals are not forwarded. *)
forwardToReplicasSetsOnly(op) == wire' = IF op.value = Absent THEN wire ELSE wire \cup {op}

forwardToReplicas(op) == wire' = wire \cup {op}

(* What the write handlers share. *)
Write(op) ==
    /\ changes < MaxChanges
    /\ op.nr = changes + 1
    /\ changes' = changes + 1
    /\ primary' \in Applied(primary, op, PrimaryEntries)
    /\ forwardToReplicas(op)
    /\ Cross(op.keys)
    /\ word' = [k \in Keys |-> IF k \in op.keys THEN "sent" ELSE word[k]]
    /\ lostThere' = Gone(lostThere \ op.keys, Apply(primary, op), primary')
    /\ UNCHANGED <<persistVars, lostHere>>

Set(k, v) == Write([keys |-> {k}, value |-> v, nr |-> changes + 1])

Delete(k) == Write([keys |-> {k}, value |-> Absent, nr |-> changes + 1])

Invalidate(prefixSet) == Write([keys |-> prefixSet, value |-> Absent, nr |-> changes + 1])

Flush == Write([keys |-> Keys, value |-> Absent, nr |-> changes + 1])

(* POST /restore sets its entries and forwards nothing. *)
Restore(entries) ==
    /\ changes < MaxChanges
    /\ changes' = changes + 1
    /\ primary' \in Stored(Overlay(primary, entries), Held(entries), PrimaryEntries)
    /\ Cross(Held(entries))
    /\ word' = [k \in Keys |-> IF entries[k] # Absent THEN "missed" ELSE word[k]]
    /\ lostThere' = Gone(lostThere, Overlay(primary, entries), primary')
    /\ UNCHANGED <<persistVars, wire, lostHere>>

ExpireThere(k) ==
    /\ primary[k] \in Mortal
    /\ primary' = [primary EXCEPT ![k] = Absent]
    /\ lostThere' = lostThere \cup {k}
    /\ UNCHANGED <<persistVars, wire, sync, changes, word, lostHere>>

-----------------------------------------------------------------------------
(* POST /internal/replicate. *)

(* No later call about k is under way. *)
Latest(op, k) == \A later \in wire : k \in later.keys => later.nr <= op.nr

Deliver(op) ==
    /\ op \in wire
    /\ phase = "serving"
    /\ store' \in Applied(store, op, MaxEntries)
    /\ Leave(IF op.value = Absent THEN store ELSE Apply(store, op))
    /\ wire' = wire \ {op}
    /\ word' = [k \in Keys |-> CASE k \notin op.keys -> word[k]
                                 [] k \in op.keys /\ word[k] # "sent" -> "missed"
                                 [] k \in op.keys /\ word[k] = "sent" ->
                                        IF Latest(op, k) THEN "taken" ELSE "sent"]
    /\ lostHere' = Gone(lostHere \ op.keys, Apply(store, op), store')
    /\ UNCHANGED <<processVars, saves, diskVars, overlapped, early, shutdownHistory,
                   primary, sync, changes, lostThere>>

(* The call fails, as every call does while the replica does not listen.    *)
(* It is not repeated.                                                      *)
Lose(op) ==
    /\ op \in wire
    /\ wire' = wire \ {op}
    /\ word' = [k \in Keys |-> IF k \in op.keys /\ word[k] = "sent" /\ Latest(op, k)
                              THEN "missed" ELSE word[k]]
    /\ UNCHANGED <<persistVars, primary, sync, changes, lost>>

-----------------------------------------------------------------------------
(* syncFromPrimary(), at start and when a leader is announced. *)

(* start() goes on behind the sync: the monitor, the timers, the server. *)
Listen == phase' = IF phase = "syncing" THEN "serving" ELSE phase

Ask ==
    /\ phase = "syncing" /\ sync = NoSync
    /\ sync' = [sync EXCEPT !.attempt = 1]
    /\ UNCHANGED <<persistVars, primary, wire, changes, word, lost>>

(* The primary handles GET /snapshot; the answer takes its time. *)
Snapshot ==
    /\ sync.attempt > 0 /\ sync.answer = NoFile
    /\ sync' = [sync EXCEPT !.answer = primary]
    /\ UNCHANGED <<persistVars, primary, wire, changes, word, lost>>

(* The history of a sync: it has the latest word on a key, unless one was   *)
(* sent after the answer, which then is undone if the answer has the key.   *)
(* A key the answer does not have stays as it is in the store.              *)
Brought(k) ==
    IF word[k] = "sent" \/ (sync.answer[k] = Absent /\ (store[k] # Absent \/ k \in sync.crossed))
    THEN word[k]
    ELSE IF k \in sync.crossed THEN "missed" ELSE "taken"

(* Every key of the answer is set; the others are left as they are. *)
SyncDone ==
    /\ sync.answer # NoFile
    /\ store' \in Stored(Overlay(store, sync.answer), Held(sync.answer), MaxEntries)
    /\ Leave(Overlay(store, sync.answer))
    /\ sync' = NoSync
    /\ Listen
    /\ word' = [k \in Keys |-> Brought(k)]
    /\ lostHere' = Gone(lostHere, Overlay(store, sync.answer), store')
    /\ UNCHANGED <<autosave, shutdowns, starts, saves, diskVars, overlapped, early,
                   shutdownHistory, primary, wire, changes, lostThere>>

(* Mutant: off by one. *)
SyncFailsOnceMore ==
    /\ sync.attempt > 0
    /\ \/ /\ sync.attempt <= maxAttempts
          /\ sync' = [NoSync EXCEPT !.attempt = sync.attempt + 1]
          /\ UNCHANGED phase
       \/ /\ sync.attempt > maxAttempts
          /\ sync' = NoSync
          /\ Listen
    /\ UNCHANGED <<store, autosave, shutdowns, starts, saves, diskVars, persistHistory,
                   primary, wire, changes, word, lost>>

(* An attempt fails: another one follows, or the replica does without. *)
SyncFails ==
    /\ sync.attempt > 0
    /\ \/ /\ sync.attempt < maxAttempts
          /\ sync' = [NoSync EXCEPT !.attempt = sync.attempt + 1]
          /\ UNCHANGED phase
       \/ /\ sync.attempt = maxAttempts
          /\ sync' = NoSync
          /\ Listen
    /\ UNCHANGED <<store, autosave, shutdowns, starts, saves, diskVars, persistHistory,
                   primary, wire, changes, word, lost>>

(* onLeaderElected: the new primary may have progressed differently, and    *)
(* the calls of the old one are still under way.  That one sync is under    *)
(* way at a time is a bound: the code would let two pulls overlap.          *)
LeaderElected(newStore) ==
    /\ phase = "serving" /\ sync = NoSync /\ changes < MaxChanges
    /\ Cardinality(Held(newStore)) <= PrimaryEntries
    /\ changes' = changes + 1
    /\ primary' = newStore
    /\ sync' = [sync EXCEPT !.attempt = 1]
    /\ word' = [k \in Keys |-> "missed"]
    /\ lostThere' = {}
    /\ UNCHANGED <<persistVars, wire, lostHere>>

-----------------------------------------------------------------------------

(* The process steps of Persistence; a process that is gone syncs no more. *)
Stays(step) ==
    /\ step
    /\ sync' = IF phase' = "down" THEN NoSync ELSE sync
    /\ word' = [k \in Keys |-> IF phase' = "down" /\ word[k] = "taken" THEN "missed" ELSE word[k]]
    /\ UNCHANGED <<primary, wire, changes, lost>>

ExpireHere(k) ==
    /\ Expire(k)
    /\ lostHere' = lostHere \cup {k}
    /\ UNCHANGED <<primary, wire, sync, changes, word, lostThere>>

(* The replica, its primary and what is between them. *)
ReplicaNext ==
    \/ Stays(StartProcess)
    \/ Stays(loadSnapshot)
    \/ Stays(Kill)
    \/ \E k \in Keys : ExpireHere(k)
    \/ \E k \in Keys, v \in Values : Set(k, v)
    \/ \E k \in Keys : Delete(k)
    \/ \E prefixSet \in PrefixSets : Invalidate(prefixSet)
    \/ Flush
    \/ \E entries \in Stores : Restore(entries)
    \/ \E k \in Keys : ExpireThere(k)
    \/ \E op \in wire : Deliver(op)
    \/ \E op \in wire : Lose(op)
    \/ Ask
    \/ Snapshot
    \/ SyncDone
    \/ SyncFails
    \/ \E newStore \in Stores : LeaderElected(newStore)

(* The saves, and the ends of the process that they belong to. *)
SaveNext ==
    \/ Stays(Autosave)
    \/ \E s \in Saves : Stays(saveSnapshot(s))
    \/ \E s \in Signals : Stays(Signal(s))
    \/ \E s \in Signals : Stays(FinalSave(s))
    \/ \E s \in Signals : Stays(Exit(s))

Next == ReplicaNext \/ SaveNext

Spec == Init /\ [][Next]_vars

-----------------------------------------------------------------------------

(* The type invariant. *)
TypeOK ==
    /\ PersistTypeOK
    /\ primary \in Stores
    /\ wire \subseteq Ops
    /\ sync \in [attempt : 0 .. maxAttempts, answer : Stores \cup {NoFile}, crossed : SUBSET Keys]
    /\ changes \in 0 .. MaxChanges
    /\ word \in [Keys -> Words]
    /\ lostThere \subseteq Keys /\ lostHere \subseteq Keys

(* A call under way has the latest word on k, and says what the primary     *)
(* holds, or held until it evicted the key or let it expire.                *)
OnItsWay(k) ==
    \E op \in wire :
        /\ k \in op.keys /\ Latest(op, k)
        /\ op.value = primary[k] \/ k \in lostThere

(* Replication without a log, versions or retries, with evictions and       *)
(* expiries that are not forwarded: how a replica can differ from its       *)
(* primary.  On each key by itself, whatever calls about other keys were    *)
(* lost, overtaken or crossed by a sync, the two agree once the latest call *)
(* about it has arrived, until it is gone at one of them; and while it has  *)
(* not, it is still to come, unless it failed, something older came after   *)
(* it, or it was a POST /restore, which no call tells of.  So one later     *)
(* write of a key makes it right again.                                     *)
DiffersOnlyWhereMissed ==
    \A k \in Keys :
        /\ word[k] = "sent" => OnItsWay(k)
        /\ word[k] = "taken" => store[k] = primary[k] \/ k \in lostThere \cup lostHere

=============================================================================
