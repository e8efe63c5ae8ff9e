----------------------------- MODULE CacheStore -----------------------------
(***************************************************************************)
(* core/cache.ts: the in-memory store of one node, with TTLs, lazy and     *)
(* periodic expiry, and eviction by one of three policies.                 *)
(*                                                                         *)
(* The Map is a function from the keys to their entries and the order of   *)
(* its keys (insertion order, which the code uses as its recency list) the *)
(* relation `older'.  Time passes in ticks; of an entry's deadline the     *)
(* model keeps the time left until it, which is all the code looks at:     *)
(* left = 0 means now >= expiresAt.  Every method runs to completion.      *)
(***************************************************************************)
EXTENDS Naturals, FiniteSets

CONSTANTS
    Keys, Values,
    Absent,      \* undefined: no entry, a miss
    Never,       \* undefined as a TTL or deadline
    MaxEntries,  \* maxEntries
    SampleSize,  \* evictionSampleSize
    Policies,    \* the eviction policies to consider
    KeyPrefixes, \* for each prefix, the set of the keys that start with it
    MaxTtl,      \* bound: the longest TTL, in ticks
    MaxHits      \* bound: reads counted per entry

ASSUME KeysAssumption == IsFiniteSet(Keys)
ASSUME MarkersAssumption == Absent \notin Values /\ Never \notin Nat
ASSUME LimitsAssumption ==
    /\ MaxEntries \in Nat \ {0} /\ SampleSize \in Nat \ {0}
    /\ MaxTtl \in Nat /\ MaxHits \in Nat
ASSUME PoliciesAssumption == Policies \subseteq {"lru", "lfu", "access-aware"}
ASSUME KeyPrefixesAssumption == KeyPrefixes \subseteq SUBSET Keys

VARIABLES
    entries,  \* the Map: an entry or Absent for every key
    older,    \* its order: <<x, y>> if x comes before y
    policy,   \* the eviction policy the store was made with
    call,     \* the latest call and the keys it named, or NoCall
    reply,    \* the keys it found, with their values
    evicted   \* the key the latest operation called onEvict for, or Absent

vars == <<entries, older, policy, call, reply, evicted>>

Ttls == (0 .. MaxTtl) \cup {Never}
Entries == [value : Values, left : (0 .. MaxTtl) \cup {Never}, hits : 0 .. MaxHits]

ASSUME AbsentAssumption ==
    Absent \notin Keys /\ Absent \notin Entries /\ Absent \notin [value : Values, mortal : BOOLEAN]

Present == {k \in Keys : entries[k] # Absent}

isExpired(k) == entries[k] # Absent /\ entries[k].left = 0

ExpiredIn(S) == {k \in S : isExpired(k)}

NoCall == [op |-> "none", keys |-> {}]

(* What a caller may see of the keys S. *)
Told(S) == {<<k, entries[k].value>> : k \in {x \in S : entries[x] # Absent /\ ~isExpired(x)}}

Answers(op, S, told) ==
    /\ call' = [op |-> op, keys |-> S]
    /\ reply' = told

(* The order without the keys S, and with k moved to, or put at, its end. *)
Without(S) == {p \in older : p[1] \notin S /\ p[2] \notin S}
AtTheEnd(k, others) == {<<x, k>> : x \in others}

-----------------------------------------------------------------------------

Init ==
    /\ entries = [k \in Keys |-> Absent]
    /\ older = {}
    /\ policy \in Policies
    /\ call = NoCall
    /\ reply = {}
    /\ evicted = Absent

(* Map.delete() of every key in S. *)
DeleteAll(S) ==
    /\ entries' = [x \in Keys |-> IF x \in S THEN Absent ELSE entries[x]]
    /\ older' = Without(S)

-----------------------------------------------------------------------------
(* Eviction: one slot is freed for a new key. *)

Rank(x, kept) == Cardinality({y \in kept : <<y, x>> \in older})

(* evictOldest(): the front of the Map. *)
evictOldest(x, kept) == \A y \in kept \ {x} : <<x, y>> \in older

(* Mutant: of equals the scan remembers the last. *)
FewestHitsLast(x, candidates) ==
    /\ x \in candidates
    /\ \A y \in candidates \ {x} :
          \/ entries[x].hits < entries[y].hits
          \/ entries[x].hits = entries[y].hits /\ <<y, x>> \in older

(* The scan that remembers the first entry with the fewest reads. *)
FewestHits(x, candidates) ==
    /\ x \in candidates
    /\ \A y \in candidates \ {x} :
          \/ entries[x].hits < entries[y].hits
          \/ entries[x].hits = entries[y].hits /\ <<x, y>> \in older

evictLFU(x, kept) == FewestHits(x, kept)

evictLeastAccessed(x, kept) == FewestHits(x, {y \in kept : Rank(y, kept) < SampleSize})

Victim(x, kept) ==
    CASE policy = "lru" -> evictOldest(x, kept)
      [] policy = "lfu" -> evictLFU(x, kept)
      [] OTHER          -> evictLeastAccessed(x, kept)

(* Mutant: an entry is evicted without a look at the expired ones. *)
evictUnswept(kept, dropped, gone) ==
    gone \in kept /\ Victim(gone, kept) /\ dropped = {gone}

(* evict(), for the keys kept when the key to be set is taken out: expired  *)
(* entries are reclaimed first, all of them; only if there are none does a  *)
(* live one go.  dropped are the entries removed, gone what doEvict() saw.  *)
evict(kept, dropped, gone) ==
    \/ /\ ExpiredIn(kept) # {}
       /\ dropped = ExpiredIn(kept) /\ gone = Absent
    \/ /\ ExpiredIn(kept) = {}
       /\ gone \in kept /\ Victim(gone, kept) /\ dropped = {gone}

(* Mutant: off by one. *)
MakeRoomLate(kept, dropped, gone) ==
    IF Cardinality(kept) > MaxEntries
    THEN evict(kept, dropped, gone)
    ELSE dropped = {} /\ gone = Absent

MakeRoom(kept, dropped, gone) ==
    IF Cardinality(kept) >= MaxEntries
    THEN evict(kept, dropped, gone)
    ELSE dropped = {} /\ gone = Absent

-----------------------------------------------------------------------------
(* The operations. *)

(* Mutant: the deadline is a tick late. *)
NewEntryLate(v, ttl) ==
    [value |-> v, left |-> IF ttl \in {0, Never} THEN Never ELSE ttl + 1, hits |-> 0]

(* set(): delete, make room, insert at the end; a TTL of 0 is no TTL. *)
NewEntry(v, ttl) == [value |-> v, left |-> IF ttl = 0 THEN Never ELSE ttl, hits |-> 0]

Set(k, v, ttl) ==
    LET kept == Present \ {k} IN
    \E gone \in kept \cup {Absent}, dropped \in SUBSET kept :
        /\ MakeRoom(kept, dropped, gone)
        /\ entries' = [x \in Keys |-> IF x = k THEN NewEntry(v, ttl)
                                      ELSE IF x \in dropped THEN Absent ELSE entries[x]]
        /\ older' = Without(dropped \cup {k}) \cup AtTheEnd(k, kept \ dropped)
        /\ evicted' = gone
        /\ Answers("write", {k}, {})
        /\ UNCHANGED policy

(* Mutant: no lazy expiry. *)
GetUnchecked(k) ==
    /\ \/ /\ entries[k] = Absent
          /\ Answers("read", {k}, {})
          /\ UNCHANGED <<entries, older>>
       \/ /\ k \in Present
          /\ entries[k].hits < MaxHits
          /\ Answers("read", {k}, {<<k, entries[k].value>>})
          /\ entries' = [entries EXCEPT ![k].hits = @ + 1]
          /\ older' = Without({k}) \cup AtTheEnd(k, Present \ {k})
    /\ evicted' = Absent
    /\ UNCHANGED policy

(* get() and getWithTtl(): a miss, a miss that cleans up, or a hit that     *)
(* counts and moves the key to the end.                                     *)
Get(k) ==
    /\ \/ /\ entries[k] = Absent
          /\ Answers("read", {k}, {})
          /\ UNCHANGED <<entries, older>>
       \/ /\ isExpired(k)
          /\ Answers("read", {k}, {})
          /\ DeleteAll({k})
       \/ /\ k \in Present /\ ~isExpired(k)
          /\ entries[k].hits < MaxHits
          /\ Answers("read", {k}, {<<k, entries[k].value>>})
          /\ entries' = [entries EXCEPT ![k].hits = @ + 1]
          /\ older' = Without({k}) \cup AtTheEnd(k, Present \ {k})
    /\ evicted' = Absent
    /\ UNCHANGED policy

(* has() and ttl() of one key, keys(), detailedKeys() and exportEntries()   *)
(* of all: what is live is told, what has expired is cleaned up.  What each *)
(* tells of a key besides its being there is left out.                      *)
Listing(S) ==
    /\ DeleteAll(ExpiredIn(S))
    /\ Answers("read", S, Told(S))
    /\ evicted' = Absent
    /\ UNCHANGED policy

Peek(k) == Listing({k})
exportEntries == Listing(Keys)

(* delete(), deleteByPrefix() and clear(), expired or not; that they say    *)
(* how many entries there were is left out.                                 *)
Discard(S) ==
    /\ DeleteAll(S)
    /\ Answers("remove", S, {})
    /\ evicted' = Absent
    /\ UNCHANGED policy

delete(k) == Discard({k})
deleteByPrefix(P) == Discard(P)
clear == Discard(Keys)

(* Nobody asks for a sweep, nor for time to pass. *)
Unasked ==
    /\ Answers("none", {}, {})
    /\ evicted' = Absent
    /\ UNCHANGED policy

(* Mutant: the sweep stops at the first live entry of the Map. *)
sweepFront ==
    /\ DeleteAll({k \in ExpiredIn(Present) : \A x \in Present : <<x, k>> \in older => isExpired(x)})
    /\ Unasked

(* sweep(), by its timer. *)
sweep ==
    /\ DeleteAll(ExpiredIn(Present))
    /\ Unasked

(* Time passes. *)
Tick ==
    /\ entries' = [k \in Keys |->
           IF entries[k] # Absent /\ entries[k].left \notin {0, Never}
           THEN [value |-> entries[k].value, left |-> entries[k].left - 1, hits |-> entries[k].hits]
           ELSE entries[k]]
    /\ Unasked
    /\ UNCHANGED older

Next ==
    \/ \E k \in Keys, v \in Values, ttl \in Ttls : Set(k, v, ttl)
    \/ \E k \in Keys : Get(k)
    \/ \E k \in Keys : Peek(k)
    \/ exportEntries
    \/ \E k \in Keys : delete(k)
    \/ \E P \in KeyPrefixes : deleteByPrefix(P)
    \/ clear
    \/ sweep
    \/ Tick

Spec == Init /\ [][Next]_vars

(* The interval timer keeps firing. *)
startSweeper == WF_vars(sweep)

-----------------------------------------------------------------------------

(* The type invariant; the order is one of the keys that are present. *)
TypeOK ==
    /\ entries \in [Keys -> Entries \cup {Absent}]
    /\ older \subseteq Present \X Present
    /\ policy \in Policies
    /\ call \in [op : {"none", "read", "write", "remove"}, keys : SUBSET Keys]
    /\ reply \subseteq Keys \X Values
    /\ evicted \in Keys \cup {Absent}

(* The store never holds more than maxEntries, expired entries included:    *)
(* every path through evict() frees a slot before set() takes one.          *)
WithinCapacity == Cardinality(Present) <= MaxEntries

(* What a client sees: an expired entry is as good as gone, swept or not. *)
Visible == [k \in Keys |->
    IF entries[k] = Absent \/ isExpired(k) THEN Absent
    ELSE [value |-> entries[k].value, mortal |-> entries[k].left # Never]]

Contract == INSTANCE CacheContract WITH store <- Visible

(* The store keeps the contract of CacheContract, whatever the policy and   *)
(* the timing of sweeps and lazy expiry: a read of a key tells the value    *)
(* last written to that key, and misses it only if it is gone; a sweep or   *)
(* the passing of time takes no key without a TTL; a write takes no other   *)
(* key while there is room, not even to make up for an expired one, and in  *)
(* a full cache exactly one.                                                *)
KeepsContract == Contract!Spec

(* onEvict, "called whenever a key is evicted to make room (not on TTL      *)
(* expiry)": never for an expired entry nor while there is one to reclaim   *)
(* instead, never for a key that stays, and never if there was room.        *)
EvictsOnlyWhenAllLive ==
    [][evicted' \notin {evicted, Absent} =>
          /\ ExpiredIn(Present) = {}
          /\ Present \ Present' = {evicted'}
          /\ Cardinality(Present) = MaxEntries]_vars

(* "memory is reclaimed without reads": with the sweeper running, an        *)
(* expired entry does not stay, wherever it is in the Map.                  *)
ExpiredIsReclaimed == \A k \in Keys : isExpired(k) ~> ~isExpired(k)

=============================================================================
