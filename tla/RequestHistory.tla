--------------------------- MODULE RequestHistory ---------------------------
(***************************************************************************)
(* NodeApi with a record of what really happened, against which the three  *)
(* bounded summaries the node keeps of its traffic are judged: when each   *)
(* client was let through and how often the full table forgot it, the      *)
(* operations that were timed, and the keys that were read.                *)
(***************************************************************************)
EXTENDS NodeApi

CONSTANTS
    MaxRequests,     \* bound: requests let through
    MaxThrottled,    \* bound: requests over the limit in one window
    MaxTop           \* bound: ?top= of /predict, 20 in the code

VARIABLES
    passed,      \* of each client, when its requests were let through
    forgotten,   \* of each client, how often the full table forgot it
    operations,  \* [at, op]
    reads        \* keys

history == <<passed, forgotten, operations, reads>>
vars == <<apiVars, history>>

HistoryInit ==
    /\ Init
    /\ passed = [c \in Clients |-> <<>>]
    /\ forgotten = [c \in Clients |-> 0]
    /\ operations = <<>> /\ reads = <<>>

Forget(c) ==
    forgotten' = [d \in Clients |->
                     IF d \in Forgotten(buckets, c) THEN forgotten[d] + 1 ELSE forgotten[d]]

PassedSoFar ==
    MapThenFoldSet(+, 0, LAMBDA c : Len(passed[c]), LAMBDA S : CHOOSE c \in S : TRUE, Clients)

Passed(c) ==
    /\ Forget(c)
    /\ PassedSoFar < MaxRequests
    /\ passed' = [passed EXCEPT ![c] = Append(@, now)]

Operation(op) == operations' = Append(operations, [at |-> now, op |-> op])

Refused(c) ==
    /\ Throttled(c) /\ Forget(c)
    /\ buckets'[IndexOf(buckets', c)].count <= limit + MaxThrottled
    /\ UNCHANGED <<passed, operations, reads>>

LetIn(c) == Authorised(c) /\ Passed(c) /\ UNCHANGED <<operations, reads>>

Arrival(c) ==
    \/ Refused(c)
    \/ Unauthorised(c) /\ Passed(c) /\ UNCHANGED <<operations, reads>>
    \/ LetIn(c)

Read(k, hit) ==
    /\ Get(k, hit) /\ Operation("get") /\ reads' = Append(reads, k)
    /\ UNCHANGED <<passed, forgotten>>

Route ==
    \/ Unrecorded /\ UNCHANGED history
    \/ \E k \in Keys, hit \in BOOLEAN : Read(k, hit)
    \/ Set /\ Operation("set") /\ UNCHANGED <<passed, forgotten, reads>>
    \/ Delete /\ Operation("delete") /\ UNCHANGED <<passed, forgotten, reads>>

Next ==
    \/ \E c \in Clients : Arrival(c)
    \/ Route
    \/ Tick /\ UNCHANGED history

Spec == HistoryInit /\ [][Next]_vars

-----------------------------------------------------------------------------
(* The type of every variable, with the bounds rate-limit.ts,               *)
(* access-predictor.ts and metrics.ts promise for their memory however many *)
(* clients, keys and ticks there are.                                       *)
TypeOK ==
    /\ now \in 0 .. MaxTime /\ ROLE \in {"primary", "replica"}
    /\ forgotten \in [Clients -> Nat] /\ reading \in Nat
    /\ Len(buckets) <= maxTrackedClients
    /\ \A i \in DOMAIN buckets :
          /\ buckets[i].client \in Clients /\ buckets[i].count \in Nat \ {0}
          /\ buckets[i].resetAt \in 0 .. MaxTime + window
    /\ Cardinality(Tracked(buckets)) = Len(buckets)
    /\ predictor.lastKey \in Keys \cup {NoKey}
    /\ Len(predictor.transitions) <= maxTrackedKeys
    /\ \A i \in DOMAIN predictor.transitions :
          Len(predictor.transitions[i].candidates) \in 1 .. maxCandidatesPerKey
    /\ Len(metrics.latencies) <= LATENCY_SAMPLE_CAP
    /\ Len(metrics.history) <= HISTORY_CAP
    /\ metrics.head \in 0 .. Len(metrics.opTimestamps)

(* How often the sequence n is in the set S. *)
Times(n, S) == Cardinality({i \in DOMAIN n : n[i] \in S})

(* rate-limit.ts ("a burst right at a window boundary", 2x the limit in the *)
(* worst case): in any stretch of `window' ticks, wherever it starts, a     *)
(* client is let through less than twice its limit, for its fixed window    *)
(* begins with a request of its own; each time the full table forgot it     *)
(* gives it one limit more, never a limit on the limit forgotten.           *)
BurstIsBounded ==
    \A c \in Clients : \A t \in 0 .. MaxTime :
        Times(passed[c], t .. t + window - 1) <= (2 + forgotten[c]) * limit - 1

-----------------------------------------------------------------------------
(* What a snapshot at time t has to say of the operations so far. *)

(* The latencies of the last LATENCY_SAMPLE_CAP of them, *)
Samples(ops) ==
    LET older == IF Len(ops) > LATENCY_SAMPLE_CAP THEN Len(ops) - LATENCY_SAMPLE_CAP ELSE 0
    IN [i \in 1 .. Len(ops) - older |-> latencyUs[ops[older + i].op]]

(* the sum of a sequence of numbers, *)
Total(s) ==
    LET sum[i \in 0 .. Len(s)] == IF i = 0 THEN 0 ELSE sum[i - 1] + s[i]
    IN sum[Len(s)]

(* the least of them that PercentileOf100 of every 100 do not exceed. *)
Percentile(lat) ==
    LET enough == {v \in {lat[i] : i \in DOMAIN lat} :
                      100 * Times(lat, 0 .. v) >= PercentileOf100 * Len(lat)}
    IN CHOOSE v \in enough : \A w \in enough : v <= w

TrueSnapshot(ops, t) ==
    LET lat == Samples(ops) IN
    [recent |-> Cardinality({i \in DOMAIN ops : ~Stale(ops[i].at, t)}),
     samples |-> Len(lat), sum |-> Total(lat),
     p95 |-> IF lat = <<>> THEN 0 ELSE Percentile(lat)]

(* The operations before t. *)
Before(t) == Picked(operations, {i \in DOMAIN operations : operations[i].at < t})

(* The counters, and the history of the last snapshots. *)
CountersAreExact ==
    /\ metrics.hits + metrics.misses = Len(reads)
    /\ metrics.sets + metrics.deletes = Len(operations) - Len(reads)

HistoryIsExact ==
    /\ Len(metrics.history) = IF now < HISTORY_CAP THEN now ELSE HISTORY_CAP
    /\ \A i \in DOMAIN metrics.history :
          LET t == now - Len(metrics.history) + i IN
          metrics.history[i] = [at |-> t, snapshot |-> TrueSnapshot(Before(t), t)]

(* metrics.ts: however the ring buffer wraps, the timestamps are pruned and *)
(* compacted and the node idles, snapshot() gives the count of the last     *)
(* window, and the mean and nearest-rank percentile of the last samples,    *)
(* that the requests themselves give; the history holds the last of them.   *)
SnapshotIsExact ==
    /\ snapshot(metrics, now) = TrueSnapshot(operations, now)
    /\ CountersAreExact
    /\ HistoryIsExact

-----------------------------------------------------------------------------
(* How often `key' was read right after `from', by any client. *)
Followed(from, key) ==
    Cardinality({i \in 1 .. Len(reads) - 1 : reads[i] = from /\ reads[i + 1] = key})

(* access-predictor.ts: whichever keys and candidates were dropped and came *)
(* back, what /predict answers was observed at least as often as it says;   *)
(* the answer is the most frequent of the candidates, in order and none     *)
(* twice; while no bound of the tables was met they are exactly what was    *)
(* observed.                                                                *)
PredictionsAreObserved ==
    \A from \in Keys, topN \in 1 .. MaxTop :
        LET answer == Prediction(from, topN)
            known == Candidates(predictor, from)
            successors(k) == {s \in Keys \ {k} : Followed(k, s) > 0}
            followed == {k \in Keys : successors(k) # {}}
        IN /\ Len(answer) = IF topN < Len(known) THEN topN ELSE Len(known)
           /\ \A i \in DOMAIN answer :
                 /\ answer[i].count <= Followed(from, answer[i].key)
                 /\ \E j \in DOMAIN known : answer[i] = known[j]
           /\ \A i, j \in DOMAIN answer : i < j =>
                 answer[i].count >= answer[j].count /\ answer[i].key # answer[j].key
           /\ \A j \in DOMAIN known : \A i \in DOMAIN answer :
                 known[j].count > answer[i].count =>
                     \E h \in DOMAIN answer : answer[h] = known[j]
           /\ Cardinality(followed) <= maxTrackedKeys
              /\ Cardinality(successors(from)) <= maxCandidatesPerKey
              => /\ \A s \in successors(from) : \E i \in DOMAIN known :
                       known[i] = [key |-> s, count |-> Followed(from, s)]
                 /\ Len(known) = Cardinality(successors(from))

=============================================================================
