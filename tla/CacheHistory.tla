---------------------------- MODULE CacheHistory ----------------------------
(***************************************************************************)
(* CacheStore with a log of the order in which the keys were last written  *)
(* or read and of how often each was read since it was written, kept apart *)
(* from the order of the Map and the hits of the entries that the policies *)
(* of core/cache.ts decide by.                                             *)
(***************************************************************************)
EXTENDS CacheStore, Sequences, Ordering

VARIABLES
    recent,  \* the keys in the order of their last use, the latest last
    reads    \* how often each was read

historyVars == <<vars, recent, reads>>

HistoryInit ==
    /\ Init
    /\ recent = <<>>
    /\ reads = [k \in Keys |-> 0]

(* The log without the keys S. *)
Others(S) == Picked(recent, {i \in DOMAIN recent : recent[i] \notin S})

(* Keys that are gone leave the log. *)
Forget(S) ==
    /\ recent' = Others(S)
    /\ reads' = [x \in Keys |-> IF x \in S THEN 0 ELSE reads[x]]

(* k was used, and read n times by now. *)
Use(k, n) ==
    LET gone == {x \in Keys : entries'[x] = Absent} IN
    /\ recent' = Append(Others(gone \cup {k}), k)
    /\ reads' = [x \in Keys |-> IF x = k THEN n ELSE IF x \in gone THEN 0 ELSE reads[x]]

Logged(Operation) == Operation /\ Forget({x \in Keys : entries'[x] = Absent})

HistoryNext ==
    \/ \E k \in Keys, v \in Values, ttl \in Ttls : Set(k, v, ttl) /\ Use(k, 0)
    \/ \E k \in Keys : Get(k) /\ entries'[k] # Absent /\ Use(k, reads[k] + 1)
    \/ \E k \in Keys : Logged(Get(k)) /\ entries'[k] = Absent
    \/ \E k \in Keys : Logged(Peek(k))
    \/ Logged(exportEntries)
    \/ \E k \in Keys : Logged(delete(k))
    \/ \E P \in KeyPrefixes : Logged(deleteByPrefix(P))
    \/ Logged(clear)
    \/ Logged(sweep)
    \/ Logged(Tick)

HistorySpec == HistoryInit /\ [][HistoryNext]_historyVars

(* The keys among the n least recently used. *)
LeastRecent(n) == {recent[i] : i \in 1 .. (IF n < Len(recent) THEN n ELSE Len(recent))}

UsedBefore(x, y) == \E i, j \in 1 .. Len(recent) : i <= j /\ recent[i] = x /\ recent[j] = y

(* x is colder than y: read less often, or as often but not as lately. *)
Colder(x, y) ==
    \/ reads[x] < reads[y]
    \/ reads[x] = reads[y] /\ UsedBefore(x, y)

(* The eviction policies as EvictionPolicy documents them: "lru" evicts the *)
(* least recently used key, "access-aware" the one read the fewest times    *)
(* among the evictionSampleSize least recently used, "lfu" the one read the *)
(* fewest times of all.                                                     *)
EvictsTheColdest ==
    [][evicted' \notin {evicted, Absent} =>
          CASE policy = "lru" -> evicted' \in LeastRecent(1)
            [] policy = "lfu" -> \A y \in Present : Colder(evicted', y)
            [] OTHER -> /\ evicted' \in LeastRecent(SampleSize)
                        /\ \A y \in LeastRecent(SampleSize) : Colder(evicted', y)]_vars

=============================================================================
