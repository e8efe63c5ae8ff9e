------------------------------- MODULE Metrics -------------------------------
(***************************************************************************)
(* core/metrics.ts: counters, a ring buffer of latencies with a running    *)
(* sum, a queue of timestamps that is pruned by a head pointer and         *)
(* compacted now and then, and a bounded history of snapshots, as          *)
(* operators on the collector's state.  Arrays are indexed from 0 in the   *)
(* code and from 1 here; time is in ticks.                                 *)
(***************************************************************************)
EXTENDS Naturals, Sequences, SequencesExt, Ordering

CONSTANTS
    LATENCY_SAMPLE_CAP,
    THROUGHPUT_WINDOW,   \* THROUGHPUT_WINDOW_MS
    HISTORY_CAP,
    CompactAbove,        \* 256 in record()
    PercentileOf100      \* 95 in snapshot()

ASSUME MetricsAssumption ==
    /\ LATENCY_SAMPLE_CAP \in Nat \ {0}
    /\ HISTORY_CAP \in Nat \ {0, 1}   \* slice(-0) would keep the whole history
    /\ THROUGHPUT_WINDOW \in Nat /\ CompactAbove \in Nat
    /\ PercentileOf100 \in 1 .. 100

NewCollector ==
    [hits |-> 0, misses |-> 0, sets |-> 0, deletes |-> 0,
     latencies |-> <<>>, latencyIdx |-> 0, latencySum |-> 0,
     opTimestamps |-> <<>>, head |-> 0, history |-> <<>>]

(* t < now - THROUGHPUT_WINDOW_MS *)
Stale(t, now) == t + THROUGHPUT_WINDOW < now

counted(m, op, hit) ==
    CASE op = "get" /\ hit  -> [m EXCEPT !.hits = @ + 1]
      [] op = "get" /\ ~hit -> [m EXCEPT !.misses = @ + 1]
      [] op = "set"         -> [m EXCEPT !.sets = @ + 1]
      [] OTHER              -> [m EXCEPT !.deletes = @ + 1]

(* Mutant: the sample that is overwritten stays in the sum. *)
sampledKeepingSum(m, latency) ==
    IF Len(m.latencies) < LATENCY_SAMPLE_CAP
    THEN [m EXCEPT !.latencies = Append(@, latency), !.latencySum = @ + latency]
    ELSE [m EXCEPT !.latencySum = @ + latency,
                   !.latencies[m.latencyIdx + 1] = latency,
                   !.latencyIdx = (@ + 1) % LATENCY_SAMPLE_CAP]

(* The oldest sample is overwritten once the buffer is full. *)
sampled(m, latency) ==
    IF Len(m.latencies) < LATENCY_SAMPLE_CAP
    THEN [m EXCEPT !.latencies = Append(@, latency), !.latencySum = @ + latency]
    ELSE [m EXCEPT !.latencySum = (@ + latency) - m.latencies[m.latencyIdx + 1],
                   !.latencies[m.latencyIdx + 1] = latency,
                   !.latencyIdx = (@ + 1) % LATENCY_SAMPLE_CAP]

(* The stale prefix is dropped once it is a meaningful part of the array. *)
compacted(m) ==
    IF m.head > CompactAbove /\ m.head * 2 > Len(m.opTimestamps)
    THEN [m EXCEPT !.opTimestamps = SubSeq(@, m.head + 1, Len(@)), !.head = 0]
    ELSE m

(* The head moves past what has become stale. *)
pruned(m, now) ==
    LET ts == m.opTimestamps
        skip[i \in 0 .. Len(ts)] ==
            IF i < Len(ts) /\ Stale(ts[i + 1], now) THEN skip[i + 1] ELSE i
    IN [m EXCEPT !.head = skip[m.head]]

(* record() *)
record(m, op, latency, hit, now) ==
    LET m1 == sampled(counted(m, op, hit), latency)
        m2 == [m1 EXCEPT !.opTimestamps = Append(@, now)]
    IN compacted(pruned(m2, now))

-----------------------------------------------------------------------------
(* snapshot(). *)

(* The binary search for the first timestamp that is not stale, behind the  *)
(* head, which is itself stale while no operation arrives.                  *)
recentCount(m, now) ==
    LET ts == m.opTimestamps
        stale == {i \in 0 .. Len(ts) - 1 : Stale(ts[i + 1], now)}
    IN Len(ts) - BinarySearch(stale, m.head, Len(ts))

(* Nearest rank: Math.ceil(N * p), counted from 1. *)
p95(m) ==
    LET n == Len(m.latencies)
        rank == (n * PercentileOf100 + 99) \div 100
    IN SortedBy(m.latencies, m.latencies)[IF rank < 1 THEN 1 ELSE IF rank > n THEN n ELSE rank]

snapshot(m, now) ==
    [recent |-> recentCount(m, now), samples |-> Len(m.latencies),
     sum |-> m.latencySum, p95 |-> IF m.latencies = <<>> THEN 0 ELSE p95(m)]

(* The interval of startHistory(): the last HISTORY_CAP snapshots are kept. *)
startHistory(m, now) ==
    [m EXCEPT !.history =
        LET kept == IF Len(@) >= HISTORY_CAP
                    THEN SubSeq(@, Len(@) - HISTORY_CAP + 2, Len(@)) ELSE @
        IN Append(kept, [at |-> now, snapshot |-> snapshot(m, now)])]

=============================================================================
