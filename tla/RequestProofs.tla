--------------------------- MODULE RequestProofs ---------------------------
(***************************************************************************)
(* Proofs about RequestHistory, for any number of clients, keys and        *)
(* requests: the bounds the limiter, the predictor and the collector keep  *)
(* for their memory, the rate at which a client is let through, what the   *)
(* predictions say of the reads, and the snapshots of the operations.      *)
(***************************************************************************)
EXTENDS RequestHistory, SequenceLemmas

-----------------------------------------------------------------------------
(* The inductive invariant. *)

Buckets == [client : Clients, count : Nat \ {0}, resetAt : 0 .. MaxTime + window]

(* The table of the limiter: one bucket per client, in a window that has    *)
(* begun.                                                                   *)
TableInv ==
    /\ now \in 0 .. MaxTime
    /\ forgotten \in [Clients -> Nat]
    /\ buckets \in Seq(Buckets) /\ Len(buckets) <= maxTrackedClients
    /\ \A i, j \in DOMAIN buckets : buckets[i].client = buckets[j].client => i = j
    /\ \A i \in DOMAIN buckets : window <= buckets[i].resetAt /\ buckets[i].resetAt <= now + window

(* No request was let through after now. *)
PassedInv ==
    /\ passed \in [Clients -> Seq(Nat)]
    /\ \A c \in Clients : \A i \in DOMAIN passed[c] : passed[c][i] <= now

(* What the table's forgetting has added to a client's share: one limit for *)
(* each bucket of its own that is gone, less the request a bucket begins    *)
(* with.                                                                    *)
Share(c) == (1 + forgotten[c]) * limit - 1

(* How often one of the first n of p is in S. *)
First(p, n, S) == Cardinality({i \in 1 .. n : p[i] \in S})

(* What a bucket that began at `start' says of the times p at which its     *)
(* client was let through.  The first n of them are older than the bucket,  *)
(* and a stretch that reaches its begin holds no more of them than the      *)
(* share m; the others it counted: one at its begin, none after its window, *)
(* and no more than the limit.                                              *)
Accounts(b, p, m) ==
    LET start == b.resetAt - window IN
    \E n \in 0 .. Len(p) - 1 :
        /\ \A i \in 1 .. n : p[i] <= start
        /\ p[n + 1] = start
        /\ \A i \in n + 1 .. Len(p) : p[i] < b.resetAt
        /\ Len(p) - n <= b.count /\ Len(p) - n <= limit
        /\ \A t \in Nat : start < t + window => First(p, n, t .. t + window - 1) <= m

(* A client without a bucket kept to its share, and one with a bucket has a *)
(* limit more.                                                              *)
WindowInv ==
    \A c \in Clients :
        /\ c \notin Tracked(buckets) =>
              \A t \in Nat : Times(passed[c], t .. t + window - 1) <= Share(c)
        /\ \A i \in DOMAIN buckets :
              buckets[i].client = c => Accounts(buckets[i], passed[c], Share(c))
        /\ \A t \in Nat : Times(passed[c], t .. t + window - 1) <= Share(c) + limit

(* The predictor: bounded tables, and no entry without a candidate. *)
Candidate == [key : Keys, count : Nat \ {0}]
Transition == [from : Keys, candidates : Seq(Candidate)]

PredictorInv ==
    /\ predictor \in [lastKey : Keys \cup {NoKey}, transitions : Seq(Transition)]
    /\ Len(predictor.transitions) <= maxTrackedKeys
    /\ \A i \in DOMAIN predictor.transitions :
          Len(predictor.transitions[i].candidates) \in 1 .. maxCandidatesPerKey

(* The collector: a ring buffer that is written in place once it is full,   *)
(* and a head within the timestamps.                                        *)
Collector(Snapshots) ==
    [hits : Nat, misses : Nat, sets : Nat, deletes : Nat,
     latencies : Seq(Nat), latencyIdx : 0 .. LATENCY_SAMPLE_CAP - 1, latencySum : Int,
     opTimestamps : Seq(Nat), head : Nat, history : Seq(Snapshots)]

MetricsInv ==
    /\ \E S : metrics \in Collector(S)
    /\ Len(metrics.latencies) <= LATENCY_SAMPLE_CAP
    /\ Len(metrics.history) <= HISTORY_CAP
    /\ metrics.head <= Len(metrics.opTimestamps)

(* What the reads rs say: how often b was read right after a, which other   *)
(* keys followed a key, and which keys were followed by another.            *)
Pairs(rs, a, b) == Cardinality({i \in 1 .. Len(rs) - 1 : rs[i] = a /\ rs[i + 1] = b})
Successors(rs, a) == {b \in Keys \ {a} : Pairs(rs, a, b) > 0}
Sources(rs) == {a \in Keys : Successors(rs, a) # {}}

(* Each candidate of `from' was observed as often as it says, *)
Observed(rs, from, cs) ==
    /\ \A i, j \in DOMAIN cs : cs[i].key = cs[j].key => i = j
    /\ \A i \in DOMAIN cs : cs[i].key \in Successors(rs, from) /\ cs[i].count <= Pairs(rs, from, cs[i].key)

(* and everything that was observed is there. *)
Complete(rs, from, cs) ==
    \A b \in Successors(rs, from) : \E i \in DOMAIN cs : cs[i] = [key |-> b, count |-> Pairs(rs, from, b)]

(* The transitions against the reads: they are observed; and as long as     *)
(* there never were more keys than the table holds, all of them are there,  *)
(* complete where there never were more candidates than an entry holds.     *)
Faithful(rs, ts) ==
    /\ \A i, j \in DOMAIN ts : ts[i].from = ts[j].from => i = j
    /\ \A i \in DOMAIN ts : ts[i].from \in Sources(rs) /\ Observed(rs, ts[i].from, ts[i].candidates)
    /\ IsFiniteSet(Sources(rs)) /\ \A a \in Keys : IsFiniteSet(Successors(rs, a))
    /\ Cardinality(Sources(rs)) <= maxTrackedKeys =>
          /\ Sources(rs) \subseteq Froms(ts)
          /\ \A i \in DOMAIN ts :
                Cardinality(Successors(rs, ts[i].from)) <= maxCandidatesPerKey =>
                    Complete(rs, ts[i].from, ts[i].candidates)

(* The predictor knows the last read, and its table is faithful. *)
ObservedInv ==
    /\ reads \in Seq(Keys)
    /\ predictor.lastKey = IF reads = <<>> THEN NoKey ELSE reads[Len(reads)]
    /\ Faithful(reads, predictor.transitions)

-----------------------------------------------------------------------------
(* How often a sequence is in a set. *)

(* How often a sequence is in a set is a number.                            *)
LEMMA TimesType ==
    ASSUME NEW p \in Seq(Nat), NEW S
    PROVE  /\ IsFiniteSet({i \in DOMAIN p : p[i] \in S})
           /\ Times(p, S) \in Nat
<1>1. IsFiniteSet(1 .. Len(p))
  BY FS_Interval
<1>2. {i \in DOMAIN p : p[i] \in S} \in SUBSET (1 .. Len(p))
  OBVIOUS
<1>3. IsFiniteSet({i \in DOMAIN p : p[i] \in S})
  BY <1>1, <1>2, FS_Subset
<1> QED BY <1>3, FS_CardinalityType DEF Times

(* ... no greater than for a set that holds as many of its members,         *)
LEMMA TimesMonotone ==
    ASSUME NEW p \in Seq(Nat), NEW S, NEW T,
           \A i \in DOMAIN p : p[i] \in S => p[i] \in T
    PROVE  Times(p, S) <= Times(p, T)
<1>1. {i \in DOMAIN p : p[i] \in S} \in SUBSET {i \in DOMAIN p : p[i] \in T}
  OBVIOUS
<1>2. IsFiniteSet({i \in DOMAIN p : p[i] \in T})
  BY TimesType
<1> QED BY <1>1, <1>2, FS_Subset DEF Times

(* ... no greater than for two sets that cover it, together,                *)
LEMMA TimesSplit ==
    ASSUME NEW p \in Seq(Nat), NEW S, NEW A, NEW B,
           \A i \in DOMAIN p : p[i] \in S => p[i] \in A \cup B
    PROVE  Times(p, S) <= Times(p, A) + Times(p, B)
<1> DEFINE In(X) == {i \in DOMAIN p : p[i] \in X}
<1>1. Times(p, S) <= Times(p, A \cup B)
  BY TimesMonotone
<1>2. In(A \cup B) = In(A) \cup In(B)
  OBVIOUS
<1>3. IsFiniteSet(In(A)) /\ IsFiniteSet(In(B))
  BY TimesType
<1>4. /\ Cardinality(In(A)) \in Nat /\ Cardinality(In(B)) \in Nat
      /\ Cardinality(In(A) \cap In(B)) \in Nat
  BY <1>3, FS_CardinalityType, FS_Intersection
<1>5. Cardinality(In(A) \cup In(B)) =
          Cardinality(In(A)) + Cardinality(In(B)) - Cardinality(In(A) \cap In(B))
  BY <1>3, FS_Union
<1>6. /\ Times(p, A \cup B) = Cardinality(In(A \cup B))
      /\ Times(p, A) = Cardinality(In(A)) /\ Times(p, B) = Cardinality(In(B))
  BY DEF Times
<1>7. Times(p, S) \in Nat
  BY TimesType
<1>8. Cardinality(In(A \cup B)) = Cardinality(In(A) \cup In(B))
  BY <1>2
<1> HIDE DEF In
<1> QED BY <1>1, <1>4, <1>5, <1>6, <1>7, <1>8

(* ... greater by one when a member of the set is appended,                 *)
LEMMA TimesAppend ==
    ASSUME NEW p \in Seq(Nat), NEW x \in Nat, NEW S
    PROVE  Times(Append(p, x), S) = Times(p, S) + (IF x \in S THEN 1 ELSE 0)
<1> DEFINE old == {i \in DOMAIN p : p[i] \in S}
           new == {i \in DOMAIN Append(p, x) : Append(p, x)[i] \in S}
<1>1. IsFiniteSet(old) /\ Cardinality(old) \in Nat
  BY TimesType, FS_CardinalityType
<1>2. Len(p) + 1 \notin old
  OBVIOUS
<1>3. /\ Append(p, x) \in Seq(Nat) /\ DOMAIN Append(p, x) = 1 .. Len(p) + 1
      /\ \A i \in 1 .. Len(p) : Append(p, x)[i] = p[i]
      /\ Append(p, x)[Len(p) + 1] = x
  OBVIOUS
<1>4. CASE x \in S
  <2>1. new = old \cup {Len(p) + 1}
    BY <1>3, <1>4
  <2> HIDE DEF old, new
  <2>2. Cardinality(new) = Cardinality(old) + 1
    BY <1>1, <1>2, <2>1, FS_AddElement
  <2> QED BY <1>4, <2>2 DEF Times, old, new
<1>5. CASE x \notin S
  <2>1. new = old
    BY <1>3, <1>5
  <2>2. Times(Append(p, x), S) = Times(p, S)
    BY <2>1 DEF Times
  <2>3. Times(p, S) \in Nat
    BY TimesType
  <2> QED BY <1>5, <2>2, <2>3
<1> QED BY <1>4, <1>5

(* ... and zero when no member is in the set.                               *)
LEMMA TimesNone ==
    ASSUME NEW p \in Seq(Nat), NEW S, \A i \in DOMAIN p : p[i] \notin S
    PROVE  Times(p, S) = 0
<1>1. {i \in DOMAIN p : p[i] \in S} = {}
  OBVIOUS
<1> QED BY <1>1, FS_EmptySet DEF Times

(* ... no more than for the first n of them and all the others; less when   *)
(* the next one is not in the set,                                          *)
LEMMA FirstAndLast ==
    ASSUME NEW p \in Seq(Nat), NEW n \in 0 .. Len(p), NEW S
    PROVE  /\ First(p, n, S) \in Nat
           /\ Times(p, S) <= First(p, n, S) + Len(p) - n
           /\ n < Len(p) /\ p[n + 1] \notin S => Times(p, S) + 1 <= First(p, n, S) + Len(p) - n
<1> DEFINE A == {i \in DOMAIN p : p[i] \in S}
           B == {i \in 1 .. n : p[i] \in S}
           l == Len(p)
<1>1. l \in Nat /\ n \in Nat /\ n <= l /\ DOMAIN p = 1 .. l
  OBVIOUS
<1> HIDE DEF l
<1>2. \A k \in n .. l : IsFiniteSet(k + 1 .. l) /\ Cardinality(k + 1 .. l) = l - k
  <2> SUFFICES ASSUME NEW k \in n .. l
               PROVE  IsFiniteSet(k + 1 .. l) /\ Cardinality(k + 1 .. l) = l - k
    OBVIOUS
  <2>1. k + 1 \in Int /\ l \in Int
    BY <1>1
  <2>2. /\ IsFiniteSet(k + 1 .. l)
        /\ Cardinality(k + 1 .. l) = IF k + 1 > l THEN 0 ELSE l - (k + 1) + 1
    BY <2>1, FS_Interval
  <2> QED BY <1>1, <2>2
<1>3. IsFiniteSet(B) /\ Cardinality(B) \in Nat
  <2>1. IsFiniteSet(1 .. n) /\ B \in SUBSET (1 .. n)
    BY <1>1, FS_Interval
  <2> QED BY <2>1, FS_Subset, FS_CardinalityType
<1>4. ASSUME NEW k \in n .. l, A \subseteq B \cup (k + 1 .. l)
      PROVE  Cardinality(A) <= Cardinality(B) + (l - k)
  <2> DEFINE C == k + 1 .. l
  <2>1. IsFiniteSet(C) /\ Cardinality(C) = l - k
    BY <1>2
  <2> HIDE DEF A, B, C
  <2>2. /\ IsFiniteSet(B \cup C)
        /\ Cardinality(B \cup C) = Cardinality(B) + Cardinality(C) - Cardinality(B \cap C)
    BY <1>3, <2>1, FS_Union
  <2>3. IsFiniteSet(A) /\ Cardinality(A) <= Cardinality(B \cup C)
    BY <1>4, <2>2, FS_Subset DEF C
  <2>4. IsFiniteSet(B \cap C) /\ Cardinality(B \cap C) \in Nat /\ Cardinality(A) \in Nat
    BY <1>3, <2>3, FS_Intersection, FS_CardinalityType
  <2>5. l - k \in Nat /\ Cardinality(C) = l - k
    BY <1>1, <2>1
  <2> QED BY <1>3, <2>2, <2>3, <2>4, <2>5
<1>5. Cardinality(A) <= Cardinality(B) + (l - n)
  <2>1. A \subseteq B \cup (n + 1 .. l)
    BY <1>1
  <2>2. n \in n .. l
    BY <1>1
  <2> HIDE DEF A, B
  <2> QED BY <1>4, <2>1, <2>2
<1>6. ASSUME n < l, p[n + 1] \notin S PROVE Cardinality(A) <= Cardinality(B) + (l - (n + 1))
  <2>1. A \subseteq B \cup (n + 1 + 1 .. l)
    BY <1>1, <1>6
  <2>2. n + 1 \in n .. l
    BY <1>1, <1>6
  <2> HIDE DEF A, B
  <2> QED BY <1>4, <2>1, <2>2
<1>7. Times(p, S) = Cardinality(A) /\ First(p, n, S) = Cardinality(B) /\ Cardinality(A) \in Nat
  BY TimesType DEF Times, First
<1> HIDE DEF A, B
<1>8. /\ Times(p, S) <= First(p, n, S) + (l - n)
      /\ n < l /\ p[n + 1] \notin S => Times(p, S) <= First(p, n, S) + (l - (n + 1))
  BY <1>5, <1>6, <1>7
<1> QED BY <1>1, <1>3, <1>7, <1>8 DEF l

(* ... and the first of a sequence remain its first.                        *)
LEMMA FirstAppend ==
    ASSUME NEW p \in Seq(Nat), NEW x \in Nat, NEW n \in 0 .. Len(p), NEW S
    PROVE  /\ First(Append(p, x), n, S) = First(p, n, S)
           /\ First(Append(p, x), Len(p), S) = Times(p, S)
<1>1. \A i \in 1 .. Len(p) : Append(p, x)[i] = p[i]
  OBVIOUS
<1>2. {i \in 1 .. n : Append(p, x)[i] \in S} = {i \in 1 .. n : p[i] \in S}
  BY <1>1
<1>3. {i \in 1 .. Len(p) : Append(p, x)[i] \in S} = {i \in DOMAIN p : p[i] \in S}
  BY <1>1
<1> QED BY <1>2, <1>3 DEF First, Times

-----------------------------------------------------------------------------
(* The table of buckets. *)

(* What one more request of c makes of the table: it stays a table of one   *)
(* bucket per client; the bucket of c is fresh, or one more is counted in   *)
(* it; the other buckets are as before, all but the one that is forgotten.  *)
LEMMA CountedTable ==
    ASSUME TableInv, NEW c \in Clients, NEW bs, bs = Counted(buckets, c, now)
    PROVE  /\ bs \in Seq(Buckets) /\ Len(bs) <= maxTrackedClients
           /\ \A i, j \in DOMAIN bs : bs[i].client = bs[j].client => i = j
           /\ \A i \in DOMAIN bs : window <= bs[i].resetAt /\ bs[i].resetAt <= now + window
           /\ IndexOf(bs, c) \in DOMAIN bs /\ bs[IndexOf(bs, c)].client = c
           /\ \A i \in DOMAIN bs :
                 \/ bs[i] = FreshBucket(c, now) /\ c \notin Tracked(buckets)
                 \/ \E k \in DOMAIN buckets :
                       /\ buckets[k].client = c
                       /\ bs[i] = IF now >= buckets[k].resetAt THEN FreshBucket(c, now)
                                  ELSE OneMore(buckets[k])
                 \/ bs[i].client # c /\ \E k \in DOMAIN buckets : bs[i] = buckets[k]
           /\ Tracked(buckets) \subseteq Tracked(bs) \cup Forgotten(buckets, c)
           /\ Tracked(bs) \cap Forgotten(buckets, c) = {}
<1> USE RateLimiterAssumption, NodeApiAssumption
<1> DEFINE fresh == FreshBucket(c, now)
<1>1. fresh \in Buckets /\ fresh.client = c /\ fresh.resetAt = now + window
  BY DEF FreshBucket, Buckets, TableInv
<1>2. CASE c \in Tracked(buckets)
  <2> DEFINE i == IndexOf(buckets, c)
             b == buckets[i]
             b1 == IF now >= b.resetAt THEN fresh ELSE OneMore(b)
  <2>1. i \in DOMAIN buckets /\ b.client = c
    BY <1>2 DEF Tracked, IndexOf
  <2>2. b \in Buckets /\ window <= b.resetAt /\ b.resetAt <= now + window
    BY <2>1 DEF TableInv
  <2>3. b1 \in Buckets /\ b1.client = c /\ window <= b1.resetAt /\ b1.resetAt <= now + window
    <3>1. CASE now >= b.resetAt
      BY <1>1, <3>1 DEF TableInv
    <3>2. CASE ~(now >= b.resetAt)
      <4> HIDE DEF b
      <4> QED BY <2>1, <2>2, <3>2 DEF Buckets, OneMore
    <3> QED BY <3>1, <3>2
  <2>4. bs = [buckets EXCEPT ![i] = b1]
    BY <1>2 DEF Counted
  <2>5. /\ bs \in Seq(Buckets) /\ DOMAIN bs = DOMAIN buckets /\ Len(bs) = Len(buckets)
        /\ bs[i] = b1 /\ \A j \in DOMAIN buckets : j # i => bs[j] = buckets[j]
    <3> HIDE DEF b1, i
    <3> QED BY <2>1, <2>3, <2>4 DEF TableInv
  <2>6. \A j \in DOMAIN bs : bs[j].client = buckets[j].client
    BY <2>1, <2>3, <2>5
  <2>7. IndexOf(bs, c) \in DOMAIN bs /\ bs[IndexOf(bs, c)].client = c
    BY <2>1, <2>5, <2>6 DEF IndexOf
  <2>8. \A j, k \in DOMAIN bs : bs[j].client = bs[k].client => j = k
    BY <2>5, <2>6 DEF TableInv
  <2>9. \A j \in DOMAIN bs : window <= bs[j].resetAt /\ bs[j].resetAt <= now + window
    <3> HIDE DEF b1, i, b
    <3> QED BY <2>3, <2>5 DEF TableInv
  <2>10. Tracked(buckets) \subseteq Tracked(bs)
    BY <2>5, <2>6 DEF Tracked
  <2>11. ASSUME NEW j \in DOMAIN bs
         PROVE  \/ \E k \in DOMAIN buckets :
                       /\ buckets[k].client = c
                       /\ bs[j] = IF now >= buckets[k].resetAt THEN fresh
                                  ELSE OneMore(buckets[k])
                \/ bs[j].client # c /\ \E k \in DOMAIN buckets : bs[j] = buckets[k]
    <3>1. CASE j = i
      BY <2>1, <2>5, <3>1
    <3>2. CASE j # i
      <4>1. bs[j] = buckets[j] /\ j \in DOMAIN buckets
        BY <2>5, <3>2
      <4>2. bs[j].client # c
        BY <2>1, <3>2, <4>1 DEF TableInv
      <4> QED BY <4>1, <4>2
    <3> QED BY <3>1, <3>2
  <2>12. Len(bs) <= maxTrackedClients
    BY <2>5 DEF TableInv
  <2>13. Forgotten(buckets, c) = {}
    BY <1>2 DEF Forgotten
  <2> HIDE DEF i, b, b1
  <2> QED BY <2>5, <2>7, <2>8, <2>9, <2>10, <2>11, <2>12, <2>13
<1>3. CASE c \notin Tracked(buckets)
  <2> DEFINE kept == IF Forgotten(buckets, c) = {} THEN buckets ELSE Tail(buckets)
  <2>1. bs = kept \o <<fresh>>
    BY <1>3 DEF Counted
  <2>2. /\ kept \in Seq(Buckets) /\ Len(kept) < maxTrackedClients
        /\ \E d \in {0, 1} : \A j \in DOMAIN kept :
              j + d \in DOMAIN buckets /\ kept[j] = buckets[j + d]
        /\ Tracked(buckets) \subseteq Tracked(kept) \cup Forgotten(buckets, c)
        /\ Tracked(kept) \cap Forgotten(buckets, c) = {} /\ c \notin Forgotten(buckets, c)
    <3>1. CASE Len(buckets) >= maxTrackedClients
      <4>1. Forgotten(buckets, c) = {Head(buckets).client} /\ kept = Tail(buckets)
        BY <1>3, <3>1 DEF Forgotten
      <4>2. buckets \in Seq(Buckets) /\ Len(buckets) > 0 /\ Len(buckets) = maxTrackedClients
        BY <3>1 DEF TableInv
      <4>3. /\ Tail(buckets) \in Seq(Buckets) /\ Len(Tail(buckets)) = Len(buckets) - 1
            /\ \A j \in 1 .. Len(buckets) - 1 : Tail(buckets)[j] = buckets[j + 1]
            /\ Head(buckets) = buckets[1]
        BY <4>2
      <4> HIDE DEF kept
      <4>4. DOMAIN kept = 1 .. Len(buckets) - 1 /\ DOMAIN buckets = 1 .. Len(buckets)
        BY <4>1, <4>2, <4>3
      <4>5. \A j \in DOMAIN kept : j + 1 \in DOMAIN buckets /\ kept[j] = buckets[j + 1]
        BY <4>1, <4>2, <4>3, <4>4
      <4>6. ASSUME NEW k \in DOMAIN buckets
            PROVE  buckets[k].client \in Tracked(kept) \cup Forgotten(buckets, c)
        <5>1. CASE k = 1
          BY <4>1, <4>3, <5>1
        <5>2. CASE k # 1
          <6>1. k - 1 \in DOMAIN kept /\ (k - 1) + 1 = k
            BY <4>2, <4>4, <5>2
          <6>2. kept[k - 1] = buckets[k]
            BY <4>5, <6>1
          <6> QED BY <6>1, <6>2 DEF Tracked
        <5> QED BY <5>1, <5>2
      <4>7. Tracked(buckets) \subseteq Tracked(kept) \cup Forgotten(buckets, c)
        BY <4>6 DEF Tracked
      <4>8. Len(kept) < maxTrackedClients /\ kept \in Seq(Buckets)
        BY <4>1, <4>2, <4>3
      <4>9. \A j \in DOMAIN kept : kept[j].client # Head(buckets).client
        <5> SUFFICES ASSUME NEW j \in DOMAIN kept, kept[j].client = Head(buckets).client
                     PROVE  FALSE
          OBVIOUS
        <5>1. j + 1 \in DOMAIN buckets /\ 1 \in DOMAIN buckets /\ buckets[j + 1].client = buckets[1].client
          BY <4>2, <4>3, <4>4, <4>5
        <5>2. j + 1 = 1
          BY <5>1 DEF TableInv
        <5> QED BY <4>2, <4>4, <5>2
      <4>10. Head(buckets).client \in Tracked(buckets)
        BY <4>2, <4>3, <4>4 DEF Tracked
      <4>11. Tracked(kept) \cap Forgotten(buckets, c) = {} /\ c \notin Forgotten(buckets, c)
        BY <1>3, <4>1, <4>9, <4>10 DEF Tracked
      <4> QED BY <4>5, <4>7, <4>8, <4>11
    <3>2. CASE Len(buckets) < maxTrackedClients
      <4>1. kept = buckets /\ Forgotten(buckets, c) = {}
        BY <1>3, <3>2 DEF Forgotten, TableInv
      <4>2. \A j \in DOMAIN kept : j + 0 \in DOMAIN buckets /\ kept[j] = buckets[j + 0]
        BY <4>1 DEF TableInv
      <4> HIDE DEF kept
      <4> QED BY <3>2, <4>1, <4>2 DEF TableInv
    <3> QED BY SMTT(30), <3>1, <3>2 DEF TableInv
  <2>3. PICK d \in {0, 1} : \A j \in DOMAIN kept :
              j + d \in DOMAIN buckets /\ kept[j] = buckets[j + d]
    BY <2>2
  <2> HIDE DEF kept
  <2>4. /\ bs \in Seq(Buckets) /\ DOMAIN bs = 1 .. Len(kept) + 1 /\ Len(bs) = Len(kept) + 1
        /\ bs[Len(kept) + 1] = fresh /\ \A j \in 1 .. Len(kept) : bs[j] = kept[j]
    <3> HIDE DEF fresh
    <3> QED BY <1>1, <2>1, <2>2
  <2>5. \A j \in DOMAIN kept : kept[j].client # c
    BY <1>3, <2>3 DEF Tracked
  <2>6. \A j, k \in DOMAIN kept : kept[j].client = kept[k].client => j = k
    <3> SUFFICES ASSUME NEW j \in DOMAIN kept, NEW k \in DOMAIN kept,
                        kept[j].client = kept[k].client
                 PROVE  j = k
      OBVIOUS
    <3>1. j + d = k + d
      BY <2>3 DEF TableInv
    <3>2. j \in Nat /\ k \in Nat
      BY <2>2
    <3> QED BY <3>1, <3>2
  <2>7. \A j, k \in DOMAIN bs : bs[j].client = bs[k].client => j = k
    <3>1. \A j \in DOMAIN bs : (j \in DOMAIN kept /\ bs[j] = kept[j]) \/ (j = Len(kept) + 1 /\ bs[j].client = c)
      BY <1>1, <2>2, <2>4
    <3>2. \A j \in DOMAIN kept : j # Len(kept) + 1
      BY <2>2
    <3> HIDE DEF fresh
    <3> QED BY <2>5, <2>6, <3>1, <3>2
  <2>8. \A j \in DOMAIN bs : window <= bs[j].resetAt /\ bs[j].resetAt <= now + window
    <3>1. \A j \in DOMAIN kept : window <= kept[j].resetAt /\ kept[j].resetAt <= now + window
      BY <2>3 DEF TableInv
    <3>2. window <= fresh.resetAt /\ fresh.resetAt <= now + window
      BY <1>1 DEF TableInv
    <3> HIDE DEF fresh
    <3> QED BY <2>2, <2>4, <3>1, <3>2
  <2>9. IndexOf(bs, c) \in DOMAIN bs /\ bs[IndexOf(bs, c)].client = c
    <3>1. Len(kept) + 1 \in DOMAIN bs /\ bs[Len(kept) + 1].client = c
      BY <1>1, <2>2, <2>4
    <3> QED BY <3>1 DEF IndexOf
  <2>10. Tracked(kept) \subseteq Tracked(bs) /\ Tracked(bs) \subseteq Tracked(kept) \cup {c}
    <3> HIDE DEF fresh
    <3>0. DOMAIN kept = 1 .. Len(kept) /\ Len(kept) \in Nat
      BY <2>2
    <3>1. \A j \in DOMAIN kept : j \in DOMAIN bs /\ bs[j] = kept[j]
      BY <2>4, <3>0
    <3>2. \A j \in DOMAIN bs : j \in DOMAIN kept \/ bs[j].client = c
      BY <1>1, <2>4, <3>0 DEF fresh
    <3> QED BY <3>1, <3>2 DEF Tracked
  <2>11. \A i \in DOMAIN bs : bs[i] = fresh \/ (bs[i].client # c /\ \E k \in DOMAIN buckets : bs[i] = buckets[k])
    <3>1. \A i \in DOMAIN kept : kept[i].client # c /\ \E k \in DOMAIN buckets : kept[i] = buckets[k]
      BY <2>3, <2>5
    <3> HIDE DEF fresh
    <3> QED BY <2>2, <2>4, <3>1
  <2>12. Tracked(buckets) \subseteq Tracked(bs) \cup Forgotten(buckets, c)
    BY <2>2, <2>10
  <2>14. Tracked(bs) \cap Forgotten(buckets, c) = {}
    BY <2>2, <2>10
  <2>13. Len(bs) <= maxTrackedClients
    BY <2>2, <2>4
  <2> QED BY <1>3, <2>4, <2>7, <2>8, <2>9, <2>11, <2>12, <2>13, <2>14
<1> QED BY <1>2, <1>3

-----------------------------------------------------------------------------
(* A bucket and the times at which its client was let through. *)

(* A new bucket: what was let through before is within the share, in every  *)
(* stretch that reaches it.                                                 *)
LEMMA FreshAccounts ==
    ASSUME NEW c \in Clients, NEW x \in Nat, NEW p \in Seq(Nat), NEW m \in Nat,
           \A i \in DOMAIN p : p[i] <= x,
           \A t \in Nat : x < t + window => Times(p, t .. t + window - 1) <= m
    PROVE  Accounts(FreshBucket(c, x), Append(p, x), m)
<1> USE RateLimiterAssumption, NodeApiAssumption
<1> DEFINE f == FreshBucket(c, x)
           q == Append(p, x)
           n == Len(p)
<1>1. f.resetAt = x + window /\ f.count = 1 /\ f.resetAt - window = x
  BY DEF FreshBucket
<1>2. n \in Nat /\ Len(q) = n + 1 /\ q[n + 1] = x /\ \A i \in 1 .. n : q[i] = p[i] /\ p[i] \in Nat
  OBVIOUS
<1>3. \A S : First(q, n, S) = Times(p, S)
  BY <1>2, FirstAppend
<1>4. DOMAIN p = 1 .. n
  OBVIOUS
<1> HIDE DEF f, q, n
<1>5. n \in 0 .. Len(q) - 1 /\ Len(q) - n = 1 /\ n + 1 .. Len(q) = {n + 1}
  BY <1>2
<1>6. \A i \in 1 .. n : q[i] <= x
  BY <1>2, <1>4
<1>7. \A i \in n + 1 .. Len(q) : q[i] < x + window
  BY <1>2, <1>5
<1>8. \A t \in Nat : x < t + window => First(q, n, t .. t + window - 1) <= m
  BY <1>3
<1>9. q[n + 1] = x /\ Len(q) - n <= f.count /\ Len(q) - n <= limit
  BY <1>1, <1>2, <1>5
<1>10. Accounts(f, q, m)
  BY <1>1, <1>5, <1>6, <1>7, <1>8, <1>9 DEF Accounts
<1> QED BY <1>10 DEF f, q

(* The bucket that takes the place of one whose window is over: in less     *)
(* than a window up to it the old one let through all but the request it    *)
(* began with.                                                              *)
LEMMA ReplacedAccounts ==
    ASSUME NEW c \in Clients, NEW x \in Nat, NEW b \in Buckets, NEW p \in Seq(Nat), NEW m \in Nat,
           Accounts(b, p, m), window <= b.resetAt, x >= b.resetAt, limit - 1 <= m,
           \A i \in DOMAIN p : p[i] <= x
    PROVE  Accounts(FreshBucket(c, x), Append(p, x), m)
<1> USE RateLimiterAssumption, NodeApiAssumption
<1> DEFINE start == b.resetAt - window
<1>1. b.resetAt \in Nat /\ start \in Nat /\ start + window <= x
  BY DEF Buckets
<1>2. PICK n \in 0 .. Len(p) - 1 :
          /\ \A i \in 1 .. n : p[i] <= start
          /\ p[n + 1] = start /\ Len(p) - n <= limit
  BY DEF Accounts
<1> HIDE DEF start
<1>3. ASSUME NEW t \in Nat, x < t + window PROVE Times(p, t .. t + window - 1) <= m
  <2> DEFINE S == t .. t + window - 1
  <2>1. start < t
    BY <1>1, <1>3
  <2>2. {i \in 1 .. n : p[i] \in S} = {}
    <3> SUFFICES ASSUME NEW i \in 1 .. n, p[i] \in S PROVE FALSE
      OBVIOUS
    <3>1. p[i] <= start /\ p[i] \in Nat /\ t <= p[i]
      BY <1>2
    <3> QED BY <1>1, <2>1, <3>1
  <2>3. First(p, n, S) = 0
    BY <2>2, FS_EmptySet DEF First
  <2>4. p[n + 1] \notin S
    BY <1>1, <1>2, <2>1
  <2>5. n \in 0 .. Len(p) /\ n < Len(p) /\ n \in Nat /\ Len(p) \in Nat
    BY <1>2
  <2> HIDE DEF S
  <2>6. Times(p, S) + 1 <= First(p, n, S) + Len(p) - n
    BY <2>4, <2>5, FirstAndLast
  <2>7. Times(p, S) \in Nat
    BY TimesType
  <2>8. Times(p, S) <= m
    BY <1>2, <2>3, <2>5, <2>6, <2>7
  <2> QED BY <2>8 DEF S
<1> QED BY <1>3, FreshAccounts

(* One more in a window that is not over: counted before it is let through, *)
(* which it is only within the limit.                                       *)
LEMMA CountedAccounts ==
    ASSUME NEW x \in Nat, NEW b \in Buckets, NEW p \in Seq(Nat), NEW m \in Nat,
           Accounts(b, p, m), window <= b.resetAt, x < b.resetAt
    PROVE  /\ Accounts(OneMore(b), p, m)
           /\ OneMore(b).count <= limit => Accounts(OneMore(b), Append(p, x), m)
<1> USE RateLimiterAssumption, NodeApiAssumption
<1> DEFINE f == OneMore(b)
           q == Append(p, x)
           start == b.resetAt - window
           l == Len(p)
<1>1. f.resetAt = b.resetAt /\ f.count = b.count + 1 /\ b.count \in Nat
  BY DEF OneMore, Buckets
<1>2. PICK n \in 0 .. l - 1 :
          /\ \A i \in 1 .. n : p[i] <= start
          /\ p[n + 1] = start
          /\ \A i \in n + 1 .. l : p[i] < b.resetAt
          /\ l - n <= b.count /\ l - n <= limit
          /\ \A t \in Nat : start < t + window => First(p, n, t .. t + window - 1) <= m
  BY DEF Accounts
<1>3. l \in Nat /\ Len(q) = l + 1 /\ q[l + 1] = x /\ \A i \in 1 .. l : q[i] = p[i]
  OBVIOUS
<1>4. \A S : First(q, n, S) = First(p, n, S)
  <2>1. n \in 0 .. Len(p)
    BY <1>2
  <2> QED BY <2>1, FirstAppend
<1>5. Accounts(f, p, m)
  <2>1. l - n <= f.count
    <3> HIDE DEF l, f
    <3> QED BY <1>1, <1>2, <1>3
  <2> HIDE DEF f
  <2> QED BY <1>1, <1>2, <2>1 DEF Accounts
<1> HIDE DEF f, q, l, start
<1>6. ASSUME f.count <= limit PROVE Accounts(f, q, m)
  <2>1. n \in 0 .. Len(q) - 1 /\ n + 1 \in 1 .. l
    BY <1>2, <1>3
  <2>2. Len(q) - n <= f.count /\ Len(q) - n <= limit
    BY <1>1, <1>2, <1>3, <1>6
  <2>3. \A i \in 1 .. n : q[i] <= start
    BY <1>2, <1>3
  <2>4. q[n + 1] = start
    BY <1>2, <1>3, <2>1
  <2>5. \A i \in n + 1 .. Len(q) : q[i] < f.resetAt
    <3>1. \A i \in n + 1 .. Len(q) : i = l + 1 \/ (i \in n + 1 .. l /\ i \in 1 .. l)
      BY <1>2, <1>3
    <3> QED BY <1>1, <1>2, <1>3, <3>1
  <2>6. \A t \in Nat : start < t + window => First(q, n, t .. t + window - 1) <= m
    BY <1>2, <1>4
  <2>7. start = f.resetAt - window
    BY <1>1 DEF start
  <2> QED BY <2>1, <2>2, <2>3, <2>4, <2>5, <2>6, <2>7 DEF Accounts
<1> QED BY <1>5, <1>6 DEF f, q, l

(* A stretch that reaches the bucket: what is before it, and what it        *)
(* counted.                                                                 *)
LEMMA StretchBound ==
    ASSUME NEW b \in Buckets, NEW p \in Seq(Nat), NEW m \in Nat, Accounts(b, p, m),
           NEW t \in Nat, b.resetAt - window < t + window
    PROVE  Times(p, t .. t + window - 1) <= m + limit
<1> USE RateLimiterAssumption
<1> DEFINE S == t .. t + window - 1
<1>1. PICK n \in 0 .. Len(p) - 1 : Len(p) - n <= limit /\ First(p, n, S) <= m
  BY DEF Accounts
<1>2. n \in 0 .. Len(p) /\ n \in Nat /\ Len(p) \in Nat
  BY <1>1
<1> HIDE DEF S
<1>3. Times(p, S) <= First(p, n, S) + Len(p) - n /\ First(p, n, S) \in Nat /\ Times(p, S) \in Nat
  BY <1>2, FirstAndLast, TimesType
<1>4. Times(p, S) <= m + limit
  BY <1>1, <1>2, <1>3
<1> QED BY <1>4 DEF S

(* The share of a client is a number, at least the limit less one, and a    *)
(* limit more when the client is forgotten.                                 *)
LEMMA ShareGrows ==
    ASSUME NEW n \in Nat
    PROVE  /\ (1 + n) * limit - 1 \in Nat /\ limit - 1 <= (1 + n) * limit - 1
           /\ (1 + (n + 1)) * limit - 1 = ((1 + n) * limit - 1) + limit
           /\ (2 + n) * limit - 1 = ((1 + n) * limit - 1) + limit
<1>1. (1 + n) * limit = limit + n * limit /\ n * limit \in Nat
  BY RateLimiterAssumption
<1>2. (1 + (n + 1)) * limit = limit + limit + n * limit /\ (2 + n) * limit = limit + limit + n * limit
  BY RateLimiterAssumption
<1> QED BY <1>1, <1>2, RateLimiterAssumption

-----------------------------------------------------------------------------
(* The limiter keeps its accounts. *)

(* Every request is counted, and those that pass are within the limit. *)
LEMMA ArrivalEffect ==
    ASSUME NEW c \in Clients, Arrival(c)
    PROVE  /\ buckets' = Counted(buckets, c, now) /\ UNCHANGED now
           /\ forgotten' = [d \in Clients |-> IF d \in Forgotten(buckets, c)
                                              THEN forgotten[d] + 1 ELSE forgotten[d]]
           /\ \/ UNCHANGED passed /\ ~(buckets'[IndexOf(buckets', c)].count <= limit)
              \/ /\ buckets'[IndexOf(buckets', c)].count <= limit
                 /\ passed' = [passed EXCEPT ![c] = Append(@, now)]
BY DEF Arrival, Refused, LetIn, Throttled, Unauthorised, Authorised, Admitted, Arrives, Passes,
       Passed, Forget

(* Nothing the routes do is the limiter's business. *)
LEMMA RouteEffect ==
    ASSUME Route
    PROVE  UNCHANGED <<now, buckets, passed, forgotten>>
BY DEF Route, Read, Unrecorded, Get, Set, Delete, Parsed, history

(* A step keeps the table of the limiter: at most its limit of buckets, one *)
(* per client, no window that is still to begin.                            *)
LEMMA TableNext ==
    ASSUME TableInv, [Next]_vars
    PROVE  TableInv'
<1> USE RateLimiterAssumption, NodeApiAssumption
<1>1. ASSUME NEW c \in Clients, Arrival(c) PROVE TableInv'
  <2>2. forgotten' \in [Clients -> Nat]
    BY <1>1, ArrivalEffect DEF TableInv
  <2>3. /\ buckets' \in Seq(Buckets) /\ Len(buckets') <= maxTrackedClients
        /\ \A i, j \in DOMAIN buckets' : buckets'[i].client = buckets'[j].client => i = j
        /\ \A i \in DOMAIN buckets' :
              window <= buckets'[i].resetAt /\ buckets'[i].resetAt <= now + window
    BY <1>1, ArrivalEffect, CountedTable
  <2>4. now' = now /\ now \in 0 .. MaxTime
    BY <1>1, ArrivalEffect DEF TableInv
  <2> QED BY <2>2, <2>3, <2>4 DEF TableInv
<1>2. CASE Tick /\ UNCHANGED history
  <2>1. now \in 0 .. MaxTime /\ now' = now + 1 /\ now' \in 0 .. MaxTime
    BY <1>2 DEF Tick, TableInv
  <2>2. UNCHANGED <<buckets, forgotten>>
    BY <1>2 DEF Tick, history
  <2>3. \A i \in DOMAIN buckets : buckets[i].resetAt \in Nat /\ buckets[i].resetAt <= now + window
    <3>1. \A i \in DOMAIN buckets : buckets[i] \in Buckets /\ buckets[i].resetAt <= now + window
      BY DEF TableInv
    <3> QED BY <3>1 DEF Buckets
  <2> QED BY <2>1, <2>2, <2>3 DEF TableInv
<1>3. CASE UNCHANGED <<now, buckets, forgotten>>
  BY <1>3 DEF TableInv
<1> QED BY <1>1, <1>2, <1>3, RouteEffect DEF Next, vars, apiVars, history

(* A step records no request before its time.                               *)
LEMMA PassedNext ==
    ASSUME TableInv, PassedInv, [Next]_vars
    PROVE  PassedInv'
<1> USE RateLimiterAssumption, NodeApiAssumption
<1>0. now \in Nat
  BY DEF TableInv
<1>1. ASSUME NEW c \in Clients, Arrival(c) PROVE PassedInv'
  <2>1. now' = now
    BY <1>1, ArrivalEffect
  <2>2. CASE UNCHANGED passed
    BY <2>1, <2>2 DEF PassedInv
  <2>3. CASE passed' = [passed EXCEPT ![c] = Append(@, now)]
    <3>1. /\ passed' \in [Clients -> Seq(Nat)] /\ passed'[c] = Append(passed[c], now)
          /\ \A d \in Clients : d # c => passed'[d] = passed[d]
      BY <1>0, <2>3 DEF PassedInv
    <3>2. passed[c] \in Seq(Nat) /\ \A i \in DOMAIN passed[c] : passed[c][i] <= now
      BY DEF PassedInv
    <3> DEFINE p == passed[c]
               q == passed'[c]
    <3>3. \A i \in DOMAIN q : q[i] <= now
      <4>1. p \in Seq(Nat) /\ q = Append(p, now) /\ \A i \in DOMAIN p : p[i] <= now
        BY <3>1, <3>2
      <4> HIDE DEF p, q
      <4>2. DOMAIN q = 1 .. Len(p) + 1 /\ q[Len(p) + 1] = now /\ \A i \in 1 .. Len(p) : q[i] = p[i]
        BY <1>0, <4>1
      <4>3. Len(p) \in Nat /\ DOMAIN p = 1 .. Len(p)
        BY <4>1
      <4>4. \A i \in DOMAIN q : i = Len(p) + 1 \/ i \in DOMAIN p
        BY <4>2, <4>3
      <4> QED BY <1>0, <4>1, <4>2, <4>3, <4>4
    <3> QED BY <2>1, <3>1, <3>3 DEF PassedInv
  <2> QED BY <1>1, <2>2, <2>3, ArrivalEffect
<1>2. CASE Tick /\ UNCHANGED history
  <2>1. now' = now + 1 /\ UNCHANGED passed
    BY <1>2 DEF Tick, history
  <2>2. \A c \in Clients : \A i \in DOMAIN passed[c] : passed[c][i] \in Nat /\ passed[c][i] <= now
    BY DEF PassedInv
  <2>3. \A c \in Clients : \A i \in DOMAIN passed[c] : passed[c][i] <= now + 1
    BY <1>0, <2>2
  <2> QED BY <2>1, <2>3 DEF PassedInv
<1>3. CASE UNCHANGED <<now, passed>>
  BY <1>3 DEF PassedInv
<1> QED BY <1>1, <1>2, <1>3, RouteEffect DEF Next, vars, apiVars, history

(* A step keeps the account of the windows: a new bucket begins when the    *)
(* last window has ended or the client has no bucket, one that counts is    *)
(* within the limit, and a client that is forgotten gains a limit.          *)
LEMMA WindowNext ==
    ASSUME TableInv, PassedInv, WindowInv, [Next]_vars
    PROVE  WindowInv'
<1> USE RateLimiterAssumption, NodeApiAssumption
<1>0. now \in Nat
  BY DEF TableInv
<1>1. ASSUME NEW c \in Clients, Arrival(c) PROVE WindowInv'
  <2>1. /\ buckets' = Counted(buckets, c, now)
        /\ forgotten' = [d \in Clients |-> IF d \in Forgotten(buckets, c)
                                           THEN forgotten[d] + 1 ELSE forgotten[d]]
        /\ \/ UNCHANGED passed /\ ~(buckets'[IndexOf(buckets', c)].count <= limit)
           \/ /\ buckets'[IndexOf(buckets', c)].count <= limit
              /\ passed' = [passed EXCEPT ![c] = Append(@, now)]
    BY <1>1, ArrivalEffect
  <2>2. TableInv' /\ PassedInv'
    BY <1>1, TableNext, PassedNext DEF Next
  <2>3. SUFFICES ASSUME NEW d \in Clients
                 PROVE  /\ d \notin Tracked(buckets') =>
                              \A t \in Nat : Times(passed'[d], t .. t + window - 1) <= Share(d)'
                        /\ \A i \in DOMAIN buckets' :
                              buckets'[i].client = d => Accounts(buckets'[i], passed'[d], Share(d)')
                        /\ \A t \in Nat :
                              Times(passed'[d], t .. t + window - 1) <= Share(d)' + limit
    BY DEF WindowInv
  <2>4. /\ d \notin Tracked(buckets) =>
              \A t \in Nat : Times(passed[d], t .. t + window - 1) <= Share(d)
        /\ \A i \in DOMAIN buckets :
              buckets[i].client = d => Accounts(buckets[i], passed[d], Share(d))
        /\ \A t \in Nat : Times(passed[d], t .. t + window - 1) <= Share(d) + limit
    BY DEF WindowInv
  <2>5. /\ Share(d) \in Nat /\ limit - 1 <= Share(d)
        /\ d \in Forgotten(buckets, c) => Share(d)' = Share(d) + limit
        /\ d \notin Forgotten(buckets, c) => Share(d)' = Share(d)
    <3>1. forgotten[d] \in Nat
      BY DEF TableInv
    <3>2. forgotten'[d] = IF d \in Forgotten(buckets, c) THEN forgotten[d] + 1 ELSE forgotten[d]
      BY <2>1
    <3>3. Share(d) = (1 + forgotten[d]) * limit - 1 /\ Share(d)' = (1 + forgotten'[d]) * limit - 1
      BY DEF Share
    <3> QED BY <3>1, <3>2, <3>3, ShareGrows
  <2>6. CASE d # c
    <3>1. passed'[d] = passed[d] /\ passed[d] \in Seq(Nat)
      BY <2>1, <2>6 DEF PassedInv
    <3>2. FreshBucket(c, now).client = c /\ \A k \in DOMAIN buckets :
              buckets[k].client = c => OneMore(buckets[k]).client = c
      BY DEF FreshBucket, OneMore, TableInv, Buckets
    <3>3. ASSUME NEW i \in DOMAIN buckets', buckets'[i].client = d
          PROVE  \E k \in DOMAIN buckets : buckets'[i] = buckets[k]
      BY <2>1, <2>6, <3>2, <3>3, CountedTable
    <3>4. CASE d \in Forgotten(buckets, c)
      <4>1. d \notin Tracked(buckets')
        BY <2>1, <3>4, CountedTable
      <4>2. ASSUME NEW t \in Nat
            PROVE  /\ Times(passed'[d], t .. t + window - 1) <= Share(d)'
                   /\ Times(passed'[d], t .. t + window - 1) <= Share(d)' + limit
        <5> DEFINE n == Times(passed[d], t .. t + window - 1)
                   m == Share(d)
        <5>1. n \in Nat /\ n <= m + limit /\ m \in Nat
          BY <2>4, <2>5, <3>1, TimesType
        <5>2. Share(d)' = m + limit /\ passed'[d] = passed[d]
          BY <2>5, <3>1, <3>4
        <5> HIDE DEF n, m
        <5>3. n <= m + limit + limit
          BY <5>1
        <5> QED BY <5>1, <5>2, <5>3 DEF n
      <4>3. \A i \in DOMAIN buckets' : buckets'[i].client # d
        BY <4>1 DEF Tracked
      <4> QED BY <4>2, <4>3
    <3>5. CASE d \notin Forgotten(buckets, c)
      <4>1. d \notin Tracked(buckets') => d \notin Tracked(buckets)
        BY <2>1, <3>5, CountedTable
      <4>2. ASSUME NEW i \in DOMAIN buckets', buckets'[i].client = d
            PROVE  Accounts(buckets'[i], passed'[d], Share(d)')
        <5>1. PICK k \in DOMAIN buckets : buckets'[i] = buckets[k]
          BY <3>3, <4>2
        <5> QED BY <2>4, <2>5, <3>1, <3>5, <4>2, <5>1
      <4>3. /\ d \notin Tracked(buckets) =>
                  \A t \in Nat : Times(passed'[d], t .. t + window - 1) <= Share(d)'
            /\ \A t \in Nat : Times(passed'[d], t .. t + window - 1) <= Share(d)' + limit
        BY <2>4, <2>5, <3>1, <3>5
      <4> QED BY <4>1, <4>2, <4>3
    <3> QED BY <3>4, <3>5
  <2>7. CASE d = c
    <3> DEFINE i == IndexOf(buckets', c)
               b == buckets'[i]
               p == passed[c]
               m == Share(c)
    <3>1. i \in DOMAIN buckets' /\ b.client = c /\ c \in Tracked(buckets')
      <4>1. i \in DOMAIN buckets' /\ b.client = c
        BY <2>1, CountedTable
      <4> QED BY <4>1 DEF Tracked
    <3>2. Share(c)' = m /\ m \in Nat /\ limit - 1 <= m
      <4>1. c \notin Forgotten(buckets, c)
        <5>1. CASE Forgotten(buckets, c) # {}
          <6>1. /\ Len(buckets) >= maxTrackedClients /\ c \notin Tracked(buckets)
                /\ Forgotten(buckets, c) = {Head(buckets).client}
            BY <5>1 DEF Forgotten
          <6>2. Len(buckets) > 0 /\ Head(buckets) = buckets[1] /\ 1 \in DOMAIN buckets
            BY <6>1 DEF TableInv
          <6> QED BY <6>1, <6>2 DEF Tracked
        <5> QED BY <5>1
      <4> QED BY <2>5, <2>7, <4>1
    <3>3. p \in Seq(Nat) /\ \A j \in DOMAIN p : p[j] <= now
      BY DEF PassedInv
    <3>4. b \in Buckets /\ window <= b.resetAt /\ b.resetAt <= now + window
      <4>1. /\ buckets' \in Seq(Buckets)
            /\ \A j \in DOMAIN buckets' :
                  window <= buckets'[j].resetAt /\ buckets'[j].resetAt <= now + window
        BY <2>1, CountedTable
      <4> QED BY <3>1, <4>1
    <3>5. passed'[c] = IF b.count <= limit THEN Append(p, now) ELSE p
      BY <2>1 DEF PassedInv
    <3>6. Accounts(b, passed'[c], m)
      <4>0. FreshBucket(c, now).count <= limit
        BY DEF FreshBucket
      <4>1. CASE b = FreshBucket(c, now) /\ c \notin Tracked(buckets)
        <5>1. \A t \in Nat : Times(p, t .. t + window - 1) <= m
          BY <2>4, <2>7, <4>1
        <5> HIDE DEF b, p, m
        <5>2. Accounts(FreshBucket(c, now), Append(p, now), m)
          BY <1>0, <3>2, <3>3, <5>1, FreshAccounts
        <5> QED BY <3>5, <4>0, <4>1, <5>2
      <4>2. CASE \E k \in DOMAIN buckets :
                    /\ buckets[k].client = c
                    /\ b = IF now >= buckets[k].resetAt THEN FreshBucket(c, now)
                           ELSE OneMore(buckets[k])
        <5>1. PICK k \in DOMAIN buckets :
                    /\ buckets[k].client = c
                    /\ b = IF now >= buckets[k].resetAt THEN FreshBucket(c, now)
                           ELSE OneMore(buckets[k])
          BY <4>2
        <5>2. Accounts(buckets[k], p, m)
          BY <2>4, <2>7, <5>1
        <5>3. buckets[k] \in Buckets /\ window <= buckets[k].resetAt
          BY DEF TableInv
        <5>4. buckets[k].resetAt \in Nat
          BY <5>3 DEF Buckets
        <5> HIDE DEF b, i, p, m
        <5>5. CASE now >= buckets[k].resetAt
          <6>1. b = FreshBucket(c, now)
            BY <5>1, <5>5
          <6>2. Accounts(FreshBucket(c, now), Append(p, now), m)
            BY <1>0, <3>2, <3>3, <5>2, <5>3, <5>5, ReplacedAccounts
          <6> QED BY <3>5, <4>0, <6>1, <6>2
        <5>6. CASE now < buckets[k].resetAt
          <6>1. b = OneMore(buckets[k])
            BY <1>0, <5>1, <5>4, <5>6
          <6>2. /\ Accounts(OneMore(buckets[k]), p, m)
                /\ OneMore(buckets[k]).count <= limit => Accounts(OneMore(buckets[k]), Append(p, now), m)
            BY <1>0, <3>2, <3>3, <5>2, <5>3, <5>6, CountedAccounts
          <6> QED BY <3>5, <6>1, <6>2
        <5> QED BY <1>0, <5>4, <5>5, <5>6
      <4> QED BY <2>1, <3>1, <4>1, <4>2, CountedTable
    <3>7. \A j \in DOMAIN buckets' : buckets'[j].client = c => buckets'[j] = b
      BY <2>2, <3>1 DEF TableInv
    <3>8. ASSUME NEW t \in Nat PROVE Times(passed'[c], t .. t + window - 1) <= m + limit
      <4>0. passed'[c] \in Seq(Nat) /\ b.resetAt \in Nat
        BY <2>2, <3>4 DEF PassedInv, Buckets
      <4>1. CASE b.resetAt - window < t + window
        <5> HIDE DEF b, m
        <5> QED BY <3>2, <3>4, <3>6, <4>0, <4>1, StretchBound
      <4>2. CASE ~(b.resetAt - window < t + window)
        <5>1. now \notin t .. t + window - 1
          <6> HIDE DEF b
          <6> QED BY <1>0, <3>4, <4>0, <4>2
        <5>2. Times(Append(p, now), t .. t + window - 1) = Times(p, t .. t + window - 1) + 0
          <6> HIDE DEF p
          <6> QED BY <1>0, <3>3, <5>1, TimesAppend
        <5>3. Times(p, t .. t + window - 1) \in Nat /\ Times(p, t .. t + window - 1) <= m + limit
          BY <2>4, <2>7, <3>3, TimesType
        <5> HIDE DEF p, m
        <5> QED BY <3>5, <5>2, <5>3
      <4> QED BY <4>1, <4>2
    <3> HIDE DEF b, i, p, m
    <3> QED BY <2>7, <3>1, <3>2, <3>6, <3>7, <3>8
  <2> QED BY <2>6, <2>7
<1>2. CASE UNCHANGED <<buckets, forgotten, passed>>
  <2>1. \A c \in Clients : Share(c)' = Share(c)
    BY <1>2 DEF Share
  <2> QED BY <1>2, <2>1 DEF WindowInv
<1> QED BY <1>1, <1>2, RouteEffect DEF Next, vars, apiVars, history, Tick

(* BURSTS ARE BOUNDED (rate-limit.ts): in any stretch of `window' ticks,    *)
(* wherever it starts, a client is let through less than twice its limit,   *)
(* and a limit more for each time the full table forgot it.  For any limit, *)
(* any window, any size of the table and any clients.                       *)
THEOREM RateIsBounded == Spec => []BurstIsBounded
<1> DEFINE Inv == TableInv /\ PassedInv /\ WindowInv
<1>1. HistoryInit => Inv
  <2> SUFFICES ASSUME HistoryInit PROVE Inv
    OBVIOUS
  <2>1. TableInv
    BY RateLimiterAssumption, NodeApiAssumption DEF HistoryInit, Init, TableInv
  <2>2. PassedInv
    BY DEF HistoryInit, PassedInv
  <2>3. ASSUME NEW c \in Clients
        PROVE  (\A S : Times(passed[c], S) = 0) /\ Share(c) \in Nat /\ limit \in Nat
    <3>1. passed[c] = <<>> /\ <<>> \in Seq(Nat) /\ DOMAIN <<>> = {} /\ forgotten[c] = 0
      BY DEF HistoryInit
    <3> DEFINE p == <<>>
    <3>2. p \in Seq(Nat) /\ \A i \in DOMAIN p : FALSE
      BY <3>1
    <3> HIDE DEF p
    <3>3. \A S : Times(p, S) = 0
      BY <3>2, TimesNone
    <3> QED BY <3>1, <3>3, RateLimiterAssumption DEF p, Share
  <2>4. WindowInv
    BY <2>3 DEF HistoryInit, Init, WindowInv, Tracked
  <2> QED BY <2>1, <2>2, <2>4
<1>2. Inv /\ [Next]_vars => Inv'
  BY TableNext, PassedNext, WindowNext
<1>3. Inv => BurstIsBounded
  <2> SUFFICES ASSUME Inv, NEW c \in Clients, NEW t \in 0 .. MaxTime
               PROVE  Times(passed[c], t .. t + window - 1) <= (2 + forgotten[c]) * limit - 1
    BY DEF BurstIsBounded
  <2>1. Times(passed[c], t .. t + window - 1) <= Share(c) + limit
    BY NodeApiAssumption DEF WindowInv
  <2>2. forgotten[c] \in Nat
    BY DEF TableInv
  <2> QED BY <2>1, <2>2, ShareGrows DEF Share
<1> QED BY <1>1, <1>2, <1>3, PTL DEF Spec

-----------------------------------------------------------------------------
(* The predictor. *)

(* A full table of candidates drops one that is there. *)
LEMMA WorstExists ==
    ASSUME NEW cs \in Seq(Candidate), Len(cs) > 0
    PROVE  Worst(cs) \in 1 .. Len(cs)
<1> DEFINE counts == {cs[i].count : i \in DOMAIN cs}
<1>1. \A i \in DOMAIN cs : cs[i] \in Candidate
  OBVIOUS
<1>2. \A i \in DOMAIN cs : cs[i].count \in Nat
  BY <1>1 DEF Candidate
<1>3. counts \in SUBSET Nat /\ counts # {}
  BY <1>2
<1>4. PICK m \in counts : \A y \in counts : m <= y
  <2> HIDE DEF counts
  <2> QED BY <1>3, LeastExists
<1> DEFINE least == {i \in DOMAIN cs : cs[i].count = m}
<1>5. least \in SUBSET Nat /\ least # {}
  OBVIOUS
<1>6. PICK w \in least : \A y \in least : w <= y
  <2> HIDE DEF least
  <2> QED BY <1>5, LeastExists
<1>7. w \in DOMAIN cs /\ \A j \in DOMAIN cs :
          cs[w].count < cs[j].count \/ (cs[w].count = cs[j].count /\ w <= j)
  <2> SUFFICES ASSUME NEW j \in DOMAIN cs
               PROVE  cs[w].count < cs[j].count \/ (cs[w].count = cs[j].count /\ w <= j)
    OBVIOUS
  <2>1. cs[w].count = m /\ m <= cs[j].count
    BY <1>4
  <2>2. cs[j].count = m => w <= j
    BY <1>6
  <2> QED BY <1>2, <2>1, <2>2
<1>8. Worst(cs) \in DOMAIN cs
  BY <1>7 DEF Worst
<1> QED BY <1>8

(* One more observation leaves between one candidate and the bound. *)
LEMMA BoundedType ==
    ASSUME NEW cs \in Seq(Candidate), Len(cs) <= maxCandidatesPerKey, NEW key \in Keys
    PROVE  /\ Bounded(Incremented(cs, key)) \in Seq(Candidate)
           /\ Len(Bounded(Incremented(cs, key))) \in 1 .. maxCandidatesPerKey
<1> USE AccessPredictorAssumption
<1> DEFINE more == Incremented(cs, key)
<1>1. more \in Seq(Candidate) /\ Len(more) \in 1 .. maxCandidatesPerKey + 1
  <2>1. CASE \E i \in DOMAIN cs : cs[i].key = key
    <3>1. \A i \in DOMAIN cs : [cs[i] EXCEPT !.count = @ + 1] \in Candidate /\ cs[i] \in Candidate
      <4>1. \A i \in DOMAIN cs : cs[i] \in Candidate
        OBVIOUS
      <4>2. ASSUME NEW e \in Candidate PROVE [e EXCEPT !.count = @ + 1] \in Candidate
        BY DEF Candidate
      <4> QED BY <4>1, <4>2
    <3>2. more = [i \in 1 .. Len(cs) |->
                     IF cs[i].key = key THEN [cs[i] EXCEPT !.count = @ + 1] ELSE cs[i]]
      BY SMTT(30), <2>1 DEF Incremented
    <3>3. more \in [1 .. Len(cs) -> Candidate]
      <4> HIDE DEF more
      <4> QED BY <3>1, <3>2
    <3>4. Len(cs) # 0
      BY <2>1
    <3> HIDE DEF more
    <3> QED BY <3>3, <3>4
  <2>2. CASE ~\E i \in DOMAIN cs : cs[i].key = key
    <3>1. more = Append(cs, [key |-> key, count |-> 1])
      BY <2>2 DEF Incremented
    <3>2. [key |-> key, count |-> 1] \in Candidate
      BY DEF Candidate
    <3> HIDE DEF more
    <3> QED BY <3>1, <3>2
  <2> QED BY <2>1, <2>2
<1> HIDE DEF more
<1>2. CASE Len(more) > maxCandidatesPerKey
  <2>1. Worst(more) \in 1 .. Len(more)
    BY <1>1, WorstExists
  <2>2. /\ RemoveAt(more, Worst(more)) \in Seq(Candidate)
        /\ Len(RemoveAt(more, Worst(more))) = Len(more) - 1
    BY <1>1, <2>1, RemoveAtProperties
  <2> QED BY <1>1, <1>2, <2>2 DEF Bounded, more
<1>3. CASE ~(Len(more) > maxCandidatesPerKey)
  <2>1. Bounded(more) = more /\ Len(more) \in 1 .. maxCandidatesPerKey
    BY <1>1, <1>3 DEF Bounded
  <2> QED BY <1>1, <2>1 DEF more
<1> QED BY <1>2, <1>3

(* The table in which one more observation is recorded. *)
LEMMA WithFromType ==
    ASSUME NEW ts \in Seq(Transition), NEW from \in Keys, Len(ts) <= maxTrackedKeys,
           \A i \in DOMAIN ts : Len(ts[i].candidates) \in 1 .. maxCandidatesPerKey
    PROVE  LET t1 == WithFrom(ts, from) IN
           /\ t1 \in Seq(Transition) /\ Len(t1) <= maxTrackedKeys
           /\ FromIndex(t1, from) \in DOMAIN t1
           /\ \A i \in DOMAIN t1 : Len(t1[i].candidates) <= maxCandidatesPerKey
           /\ \A i \in DOMAIN t1 : i # FromIndex(t1, from) => Len(t1[i].candidates) > 0
<1> USE AccessPredictorAssumption
<1> DEFINE t1 == WithFrom(ts, from)
<1>1. CASE from \in Froms(ts)
  <2>1. t1 = ts
    BY <1>1 DEF WithFrom
  <2>2. FromIndex(ts, from) \in DOMAIN ts
    BY <1>1 DEF FromIndex, Froms
  <2>3. \A i \in DOMAIN ts : Len(ts[i].candidates) <= maxCandidatesPerKey /\ Len(ts[i].candidates) > 0
    OBVIOUS
  <2> HIDE DEF t1
  <2> QED BY <2>1, <2>2, <2>3 DEF t1
<1>2. CASE from \notin Froms(ts)
  <2> DEFINE kept == IF Len(ts) >= maxTrackedKeys THEN Tail(ts) ELSE ts
             e == [from |-> from, candidates |-> <<>>]
  <2>1. t1 = Append(kept, e)
    BY <1>2 DEF WithFrom
  <2>2. /\ kept \in Seq(Transition) /\ Len(kept) < maxTrackedKeys
        /\ \A j \in DOMAIN kept : \E k \in DOMAIN ts : kept[j] = ts[k]
    <3>1. CASE Len(ts) >= maxTrackedKeys
      <4>1. Len(ts) > 0 /\ Len(ts) = maxTrackedKeys
        BY <3>1
      <4>2. /\ kept \in Seq(Transition) /\ Len(kept) = Len(ts) - 1
            /\ \A j \in 1 .. Len(ts) - 1 : kept[j] = ts[j + 1] /\ j + 1 \in DOMAIN ts
        BY <3>1, <4>1
      <4> HIDE DEF kept
      <4>3. \A j \in DOMAIN kept : j \in 1 .. Len(ts) - 1
        BY <4>1, <4>2
      <4>4. Len(kept) < maxTrackedKeys
        BY <4>1, <4>2
      <4> QED BY <4>2, <4>3, <4>4
    <3>2. CASE ~(Len(ts) >= maxTrackedKeys)
      BY <3>2
    <3> QED BY <3>1, <3>2
  <2> HIDE DEF kept
  <2>3. e \in Transition /\ e.from = from /\ Len(e.candidates) = 0
    BY DEF Transition
  <2> HIDE DEF e, t1
  <2>4. /\ t1 \in Seq(Transition) /\ DOMAIN t1 = 1 .. Len(kept) + 1 /\ Len(t1) = Len(kept) + 1
        /\ t1[Len(kept) + 1] = e /\ \A j \in 1 .. Len(kept) : t1[j] = kept[j]
    BY <2>1, <2>2, <2>3
  <2>5. \A j \in 1 .. Len(kept) :
            /\ t1[j].from # from
            /\ Len(t1[j].candidates) <= maxCandidatesPerKey /\ Len(t1[j].candidates) > 0
    <3> SUFFICES ASSUME NEW j \in 1 .. Len(kept)
                 PROVE  /\ t1[j].from # from
                        /\ Len(t1[j].candidates) <= maxCandidatesPerKey /\ Len(t1[j].candidates) > 0
      OBVIOUS
    <3>1. PICK k \in DOMAIN ts : t1[j] = ts[k]
      BY <2>2, <2>4
    <3> QED BY <1>2, <3>1 DEF Froms
  <2>6. Len(kept) \in Nat /\ Len(kept) + 1 \in DOMAIN t1 /\ t1[Len(kept) + 1].from = from
    BY <2>2, <2>3, <2>4
  <2>7. FromIndex(t1, from) \in DOMAIN t1 /\ t1[FromIndex(t1, from)].from = from
    BY <2>6 DEF FromIndex
  <2>8. FromIndex(t1, from) = Len(kept) + 1
    BY <2>4, <2>5, <2>6, <2>7
  <2>9. \A i \in DOMAIN t1 : i \in 1 .. Len(kept) \/ i = Len(kept) + 1
    BY <2>4, <2>6
  <2>10. Len(t1) <= maxTrackedKeys
    BY <2>2, <2>4, <2>6
  <2>11. Len(t1[Len(kept) + 1].candidates) <= maxCandidatesPerKey
    BY <2>3, <2>4
  <2> QED BY <2>4, <2>5, <2>7, <2>8, <2>9, <2>10, <2>11 DEF t1
<1> QED BY <1>1, <1>2

(* A step keeps the tables of the predictor within their bounds.            *)
LEMMA PredictorNext ==
    ASSUME PredictorInv, [Next]_vars
    PROVE  PredictorInv'
<1> USE AccessPredictorAssumption, NodeApiAssumption
<1>1. ASSUME NEW k \in Keys, predictor' = recordAccess(predictor, k) PROVE PredictorInv'
  <2> DEFINE last == predictor.lastKey
             ts == predictor.transitions
  <2>1. last \in Keys \cup {NoKey} /\ ts \in Seq(Transition)
    BY DEF PredictorInv
  <2>2. CASE last \in {NoKey, k}
    <3>1. predictor' = [lastKey |-> k, transitions |-> ts]
      BY <1>1, <2>2 DEF recordAccess
    <3> QED BY <3>1, <2>1 DEF PredictorInv
  <2>3. CASE last \notin {NoKey, k}
    <3> DEFINE t1 == WithFrom(ts, last)
               i == FromIndex(t1, last)
               cs == Bounded(Incremented(t1[i].candidates, k))
               t2 == [t1 EXCEPT ![i].candidates = cs]
    <3>1. last \in Keys
      BY <2>1, <2>3
    <3>2. /\ t1 \in Seq(Transition) /\ Len(t1) <= maxTrackedKeys /\ i \in DOMAIN t1
          /\ \A j \in DOMAIN t1 : Len(t1[j].candidates) <= maxCandidatesPerKey
          /\ \A j \in DOMAIN t1 : j # i => Len(t1[j].candidates) > 0
      <4>1. /\ Len(ts) <= maxTrackedKeys
            /\ \A j \in DOMAIN ts : Len(ts[j].candidates) \in 1 .. maxCandidatesPerKey
        BY DEF PredictorInv
      <4> HIDE DEF last, ts
      <4> QED BY <2>1, <3>1, <4>1, WithFromType
    <3>3. predictor' = [lastKey |-> k, transitions |-> t2]
      BY <1>1, <2>3 DEF recordAccess
    <3> HIDE DEF last, ts, t1, i
    <3>4. \A j \in DOMAIN t1 : t1[j] \in Transition /\ t1[j].candidates \in Seq(Candidate)
      <4>1. \A j \in DOMAIN t1 : t1[j] \in Transition
        BY <3>2
      <4> QED BY <4>1 DEF Transition
    <3>5. cs \in Seq(Candidate) /\ Len(cs) \in 1 .. maxCandidatesPerKey
      BY <3>2, <3>4, BoundedType
    <3> HIDE DEF cs
    <3> DEFINE e == [t1[i] EXCEPT !.candidates = cs]
    <3>6. e \in Transition /\ e.candidates = cs /\ t2 = [t1 EXCEPT ![i] = e]
      BY <3>2, <3>4, <3>5 DEF Transition
    <3> HIDE DEF e
    <3>7. /\ t2 \in Seq(Transition) /\ Len(t2) = Len(t1) /\ DOMAIN t2 = DOMAIN t1
          /\ t2[i].candidates = cs /\ \A j \in DOMAIN t1 : j # i => t2[j] = t1[j]
      <4> HIDE DEF t2
      <4> QED BY <3>2, <3>6
    <3> HIDE DEF t2
    <3>8. \A j \in DOMAIN t2 : Len(t2[j].candidates) \in 1 .. maxCandidatesPerKey
      <4> SUFFICES ASSUME NEW j \in DOMAIN t2, j # i
                   PROVE  Len(t2[j].candidates) \in 1 .. maxCandidatesPerKey
        BY <3>5, <3>7
      <4>1. t2[j] = t1[j] /\ Len(t1[j].candidates) \in Nat
        BY <3>4, <3>7
      <4> QED BY <3>2, <3>7, <4>1
    <3>9. Len(t2) <= maxTrackedKeys
      BY <3>2, <3>7
    <3> QED BY <3>3, <3>7, <3>8, <3>9 DEF PredictorInv
  <2> QED BY <2>2, <2>3
<1>2. CASE UNCHANGED predictor
  BY <1>2 DEF PredictorInv
<1>3. UNCHANGED predictor \/ \E k \in Keys : predictor' = recordAccess(predictor, k)
  BY DEF Next, Arrival, Refused, LetIn, Route, Read, vars, apiVars, Tick, Throttled, Unauthorised,
         Authorised, Unrecorded, Get, Set, Delete
<1> QED BY <1>1, <1>2, <1>3

-----------------------------------------------------------------------------
(* The metrics. *)

(* The head passes stale timestamps only, and never the end of them. *)
LEMMA PrunedHead ==
    ASSUME NEW S, NEW m \in Collector(S), m.head <= Len(m.opTimestamps), NEW n \in Nat
    PROVE  \E h \in m.head .. Len(m.opTimestamps) :
               /\ pruned(m, n) = [m EXCEPT !.head = h]
               /\ \A j \in m.head + 1 .. h : Stale(m.opTimestamps[j], n)
<1> DEFINE ts == m.opTimestamps
           Skips(f) == f = [i \in 0 .. Len(ts) |->
                               IF i < Len(ts) /\ Stale(ts[i + 1], n) THEN f[i + 1] ELSE i]
           skip == CHOOSE f : Skips(f)
           fresh(i) == {j \in i .. Len(ts) : j < Len(ts) => ~Stale(ts[j + 1], n)}
           g == [i \in 0 .. Len(ts) |-> CHOOSE j \in fresh(i) : \A k \in fresh(i) : j <= k]
<1>1. ts \in Seq(Nat) /\ m.head \in 0 .. Len(ts)
  BY DEF Collector
<1> HIDE DEF ts
<1>2. Len(ts) \in Nat
  BY <1>1
<1>3. ASSUME NEW i \in 0 .. Len(ts)
      PROVE  g[i] \in fresh(i) /\ \A k \in fresh(i) : g[i] <= k
  <2>1. fresh(i) \in SUBSET Nat /\ Len(ts) \in fresh(i)
    BY <1>2
  <2>2. \E j \in fresh(i) : \A k \in fresh(i) : j <= k
    <3> HIDE DEF fresh
    <3> QED BY <2>1, LeastExists
  <2>3. g[i] = CHOOSE j \in fresh(i) : \A k \in fresh(i) : j <= k
    OBVIOUS
  <2> HIDE DEF fresh, g
  <2> QED BY <2>2, <2>3
<1>4. Skips(g)
  <2>1. ASSUME NEW i \in 0 .. Len(ts)
        PROVE  g[i] = IF i < Len(ts) /\ Stale(ts[i + 1], n) THEN g[i + 1] ELSE i
    <3>1. CASE i < Len(ts) /\ Stale(ts[i + 1], n)
      <4>1. i + 1 \in 0 .. Len(ts) /\ fresh(i + 1) = fresh(i)
        BY <1>2, <3>1
      <4>2. g[i + 1] = g[i]
        BY SMTT(30), <4>1
      <4> QED BY <3>1, <4>2
    <3>2. CASE ~(i < Len(ts) /\ Stale(ts[i + 1], n))
      <4>1. i \in fresh(i) /\ \A j \in fresh(i) : i <= j
        BY <1>2, <3>2
      <4>2. g[i] \in fresh(i) /\ g[i] <= i
        BY <1>3, <4>1
      <4>3. g[i] = i
        BY <4>1, <4>2
      <4> QED BY <3>2, <4>3
    <3> QED BY <3>1, <3>2
  <2>2. g = [i \in 0 .. Len(ts) |-> g[i]]
    OBVIOUS
  <2> HIDE DEF g
  <2> QED BY <2>1, <2>2, Zenon
<1>5. Skips(skip)
  <2> HIDE DEF Skips, g
  <2> QED BY <1>4
<1>6. \A i \in 0 .. Len(ts) : skip[i] = IF i < Len(ts) /\ Stale(ts[i + 1], n) THEN skip[i + 1] ELSE i
  <2> HIDE DEF skip
  <2> QED BY <1>5
<1> HIDE DEF skip
<1> DEFINE Skipped(i) == skip[i] \in i .. Len(ts) /\ \A j \in i + 1 .. skip[i] : Stale(ts[j], n)
           T == {d \in Nat : d <= Len(ts) => Skipped(Len(ts) - d)}
<1>7. 0 \in T
  <2>1. Len(ts) \in 0 .. Len(ts) /\ ~(Len(ts) < Len(ts)) /\ Len(ts) - 0 = Len(ts)
    BY <1>2
  <2>2. skip[Len(ts)] = Len(ts)
    BY <1>6, <2>1
  <2> QED BY <1>2, <2>1, <2>2
<1>8. ASSUME NEW d \in Nat, d \in T PROVE d + 1 \in T
  <2> SUFFICES ASSUME d + 1 <= Len(ts) PROVE Skipped(Len(ts) - (d + 1))
    OBVIOUS
  <2> DEFINE i == Len(ts) - (d + 1)
  <2>1. i \in 0 .. Len(ts) /\ i + 1 = Len(ts) - d /\ i < Len(ts)
    BY <1>2
  <2>2. Skipped(i + 1)
    <3> HIDE DEF Skipped, i
    <3> QED BY <1>2, <1>8, <2>1
  <2> HIDE DEF i, T
  <2>3. CASE Stale(ts[i + 1], n)
    <3>1. skip[i] = skip[i + 1]
      BY <1>6, <2>1, <2>3
    <3>2. skip[i] \in i .. Len(ts)
      BY <2>1, <2>2, <3>1
    <3>3. \A j \in i + 1 .. skip[i] : j = i + 1 \/ j \in (i + 1) + 1 .. skip[i + 1]
      BY <2>1, <3>1, <3>2
    <3>4. \A j \in i + 1 .. skip[i] : Stale(ts[j], n)
      BY <2>2, <2>3, <3>3
    <3> QED BY <3>2, <3>4 DEF i
  <2>4. CASE ~Stale(ts[i + 1], n)
    <3>1. skip[i] = i
      BY <1>6, <2>1, <2>4
    <3>2. skip[i] \in i .. Len(ts) /\ i + 1 .. skip[i] = {}
      BY <2>1, <3>1
    <3> QED BY <3>2 DEF i
  <2> QED BY <2>3, <2>4
<1>9. Nat \subseteq T
  <2> HIDE DEF T
  <2> QED BY <1>7, <1>8, NatSetInduction
<1>10. Skipped(m.head)
  <2>1. Len(ts) - m.head \in T /\ Len(ts) - m.head \in Nat /\ Len(ts) - m.head <= Len(ts)
    BY <1>1, <1>2, <1>9
  <2>2. Len(ts) - (Len(ts) - m.head) = m.head
    BY <1>1, <1>2
  <2> HIDE DEF Skipped
  <2> QED BY <2>1, <2>2
<1>11. pruned(m, n) = [m EXCEPT !.head = skip[m.head]]
  BY DEF pruned, skip, ts
<1> QED BY <1>10, <1>11 DEF ts

(* record() adds one to a counter, the latency to the buffer and its sum -  *)
(* in place of the oldest sample once the buffer is full - and the          *)
(* timestamp to the queue; the head passes stale timestamps, which may then *)
(* be dropped.                                                              *)
Recorded(m, op, latency, n, r) ==
    LET i == m.latencyIdx + 1
        ts == Append(m.opTimestamps, n)
    IN /\ r.hits + r.misses = (m.hits + m.misses) + (IF op = "get" THEN 1 ELSE 0)
       /\ r.sets + r.deletes = (m.sets + m.deletes) + (IF op = "get" THEN 0 ELSE 1)
       /\ \/ /\ Len(m.latencies) < LATENCY_SAMPLE_CAP
             /\ r.latencies = Append(m.latencies, latency)
             /\ r.latencySum = m.latencySum + latency /\ r.latencyIdx = m.latencyIdx
          \/ /\ Len(m.latencies) = LATENCY_SAMPLE_CAP
             /\ r.latencies = [m.latencies EXCEPT ![i] = latency]
             /\ r.latencySum = (m.latencySum + latency) - m.latencies[i]
             /\ r.latencyIdx = i % LATENCY_SAMPLE_CAP
       /\ \E h \in m.head .. Len(ts) :
             /\ \A j \in m.head + 1 .. h : Stale(ts[j], n)
             /\ \/ r.opTimestamps = ts /\ r.head = h
                \/ r.opTimestamps = SubSeq(ts, h + 1, Len(ts)) /\ r.head = 0

LEMMA RecordEffect ==
    ASSUME NEW S, NEW m \in Collector(S), NEW op \in {"get", "set", "delete"}, NEW hit \in BOOLEAN,
           NEW latency \in Nat, NEW n \in Nat,
           Len(m.latencies) <= LATENCY_SAMPLE_CAP, m.head <= Len(m.opTimestamps)
    PROVE  LET r == record(m, op, latency, hit, n) IN
           /\ r \in Collector(S) /\ r.history = m.history
           /\ Len(r.latencies) <= LATENCY_SAMPLE_CAP /\ r.head <= Len(r.opTimestamps)
           /\ Recorded(m, op, latency, n, r)
<1> USE MetricsAssumption
<1> DEFINE m0 == counted(m, op, hit)
           m1 == sampled(m0, latency)
           m2 == [m1 EXCEPT !.opTimestamps = Append(@, n)]
           m3 == pruned(m2, n)
           m4 == compacted(m3)
           Sums(r) == /\ r.hits + r.misses = (m.hits + m.misses) + (IF op = "get" THEN 1 ELSE 0)
                      /\ r.sets + r.deletes = (m.sets + m.deletes) + (IF op = "get" THEN 0 ELSE 1)
           Samples1(r) ==
               \/ /\ Len(m.latencies) < LATENCY_SAMPLE_CAP
                  /\ r.latencies = Append(m.latencies, latency)
                  /\ r.latencySum = m.latencySum + latency /\ r.latencyIdx = m.latencyIdx
               \/ /\ Len(m.latencies) = LATENCY_SAMPLE_CAP
                  /\ r.latencies = [m.latencies EXCEPT ![m.latencyIdx + 1] = latency]
                  /\ r.latencySum = (m.latencySum + latency) - m.latencies[m.latencyIdx + 1]
                  /\ r.latencyIdx = (m.latencyIdx + 1) % LATENCY_SAMPLE_CAP
<1>1. /\ m0 \in Collector(S) /\ m0.history = m.history /\ m0.latencies = m.latencies
      /\ m0.latencyIdx = m.latencyIdx /\ m0.latencySum = m.latencySum
      /\ m0.head = m.head /\ m0.opTimestamps = m.opTimestamps
  <2>1. m.hits + 1 \in Nat /\ m.misses + 1 \in Nat /\ m.sets + 1 \in Nat /\ m.deletes + 1 \in Nat
    <3>1. m.hits \in Nat /\ m.misses \in Nat /\ m.sets \in Nat /\ m.deletes \in Nat
      BY DEF Collector
    <3> QED BY SMTT(30), <3>1
  <2>2. \/ m0 = [m EXCEPT !.hits = @ + 1] \/ m0 = [m EXCEPT !.misses = @ + 1]
        \/ m0 = [m EXCEPT !.sets = @ + 1] \/ m0 = [m EXCEPT !.deletes = @ + 1]
    BY DEF counted
  <2> HIDE DEF m0
  <2>3. PICK x \in Nat : \/ m0 = [m EXCEPT !.hits = x] \/ m0 = [m EXCEPT !.misses = x]
                         \/ m0 = [m EXCEPT !.sets = x] \/ m0 = [m EXCEPT !.deletes = x]
    BY <2>1, <2>2
  <2> QED BY ZenonT(30), <2>3 DEF Collector
<1> HIDE DEF Sums
<1>1a. Sums(m0)
  <2>1. m.hits \in Nat /\ m.misses \in Nat /\ m.sets \in Nat /\ m.deletes \in Nat
    BY DEF Collector
  <2>2. \/ op = "get" /\ m0 = [m EXCEPT !.hits = @ + 1]
        \/ op = "get" /\ m0 = [m EXCEPT !.misses = @ + 1]
        \/ op # "get" /\ m0 = [m EXCEPT !.sets = @ + 1]
        \/ op # "get" /\ m0 = [m EXCEPT !.deletes = @ + 1]
    BY DEF counted
  <2> HIDE DEF m0
  <2>3. \/ op = "get" /\ m0.hits = m.hits + 1 /\ m0.misses = m.misses
           /\ m0.sets = m.sets /\ m0.deletes = m.deletes
        \/ op = "get" /\ m0.hits = m.hits /\ m0.misses = m.misses + 1
           /\ m0.sets = m.sets /\ m0.deletes = m.deletes
        \/ op # "get" /\ m0.hits = m.hits /\ m0.misses = m.misses
           /\ m0.sets = m.sets + 1 /\ m0.deletes = m.deletes
        \/ op # "get" /\ m0.hits = m.hits /\ m0.misses = m.misses
           /\ m0.sets = m.sets /\ m0.deletes = m.deletes + 1
    BY <2>2 DEF Collector
  <2>4. /\ m0.hits + m0.misses = (m.hits + m.misses) + (IF op = "get" THEN 1 ELSE 0)
        /\ m0.sets + m0.deletes = (m.sets + m.deletes) + (IF op = "get" THEN 0 ELSE 1)
    <3>1. CASE op = "get" /\ m0.hits = m.hits + 1 /\ m0.misses = m.misses
               /\ m0.sets = m.sets /\ m0.deletes = m.deletes
      BY SMTT(30), <2>1, <3>1
    <3>2. CASE op = "get" /\ m0.hits = m.hits /\ m0.misses = m.misses + 1
               /\ m0.sets = m.sets /\ m0.deletes = m.deletes
      BY SMTT(30), <2>1, <3>2
    <3>3. CASE op # "get" /\ m0.hits = m.hits /\ m0.misses = m.misses
               /\ m0.sets = m.sets + 1 /\ m0.deletes = m.deletes
      BY SMTT(30), <2>1, <3>3
    <3>4. CASE op # "get" /\ m0.hits = m.hits /\ m0.misses = m.misses
               /\ m0.sets = m.sets /\ m0.deletes = m.deletes + 1
      BY SMTT(30), <2>1, <3>4
    <3> QED BY <2>3, <3>1, <3>2, <3>3, <3>4
  <2> QED BY <2>4 DEF Sums
<1> HIDE DEF m0
<1> HIDE DEF Samples1
<1>2. /\ m1 \in Collector(S) /\ m1.history = m.history /\ Len(m1.latencies) <= LATENCY_SAMPLE_CAP
      /\ m1.head = m.head /\ m1.opTimestamps = m.opTimestamps
      /\ Samples1(m1) /\ m1.hits = m0.hits /\ m1.misses = m0.misses
      /\ m1.sets = m0.sets /\ m1.deletes = m0.deletes
  <2>1. m0.latencies \in Seq(Nat) /\ m0.latencySum \in Int /\ m0.latencyIdx \in 0 .. LATENCY_SAMPLE_CAP - 1
    BY <1>1 DEF Collector
  <2>2. CASE Len(m0.latencies) < LATENCY_SAMPLE_CAP
    <3> DEFINE l == Append(m0.latencies, latency)
               s == m0.latencySum + latency
    <3>1. l \in Seq(Nat) /\ Len(l) <= LATENCY_SAMPLE_CAP /\ s \in Int
      BY <2>1, <2>2
    <3>2. m1 = [m0 EXCEPT !.latencies = l, !.latencySum = s]
      BY <2>2 DEF sampled
    <3> HIDE DEF l, s, m1
    <3>3. /\ m1 \in Collector(S) /\ m1.history = m0.history /\ m1.latencies = l
          /\ m1.latencySum = s /\ m1.latencyIdx = m0.latencyIdx
          /\ m1.head = m0.head /\ m1.opTimestamps = m0.opTimestamps
          /\ m1.hits = m0.hits /\ m1.misses = m0.misses
          /\ m1.sets = m0.sets /\ m1.deletes = m0.deletes
      BY <1>1, <3>1, <3>2 DEF Collector
    <3>4. Samples1(m1)
      BY <1>1, <2>2, <3>3 DEF Samples1, l, s
    <3> QED BY <1>1, <3>1, <3>3, <3>4
  <2>3. CASE ~(Len(m0.latencies) < LATENCY_SAMPLE_CAP)
    <3> DEFINE i == m0.latencyIdx + 1
               l == [m0.latencies EXCEPT ![i] = latency]
               s == (m0.latencySum + latency) - m0.latencies[i]
               x == (m0.latencyIdx + 1) % LATENCY_SAMPLE_CAP
    <3>1. Len(m0.latencies) = LATENCY_SAMPLE_CAP /\ i \in DOMAIN m0.latencies
      BY <1>1, <2>1, <2>3
    <3>2. /\ l \in Seq(Nat) /\ Len(l) <= LATENCY_SAMPLE_CAP /\ s \in Int
          /\ x \in 0 .. LATENCY_SAMPLE_CAP - 1
      <4>1. l \in Seq(Nat) /\ Len(l) = Len(m0.latencies)
        BY <2>1, <3>1
      <4>2. m0.latencies[i] \in Nat
        <5> HIDE DEF i
        <5> QED BY SMTT(30), <2>1, <3>1
      <4>3. s \in Int
        <5> HIDE DEF i
        <5> QED BY <2>1, <4>2
      <4>4. x \in 0 .. LATENCY_SAMPLE_CAP - 1
        BY <2>1
      <4> HIDE DEF l
      <4> QED BY <3>1, <4>1, <4>3, <4>4
    <3>3. m1 = [m0 EXCEPT !.latencySum = s, !.latencies = l, !.latencyIdx = x]
      BY <2>3, <2>1, <1>1 DEF sampled, Collector
    <3> HIDE DEF l, s, x, i, m1
    <3>4. /\ m1 \in Collector(S) /\ m1.history = m0.history /\ m1.latencies = l
          /\ m1.latencySum = s /\ m1.latencyIdx = x
          /\ m1.head = m0.head /\ m1.opTimestamps = m0.opTimestamps
          /\ m1.hits = m0.hits /\ m1.misses = m0.misses
          /\ m1.sets = m0.sets /\ m1.deletes = m0.deletes
      BY <1>1, <3>2, <3>3 DEF Collector
    <3>5. Samples1(m1)
      BY <1>1, <3>1, <3>4 DEF Samples1, l, s, x, i
    <3> QED BY <1>1, <3>2, <3>4, <3>5
  <2> QED BY <2>2, <2>3
<1> HIDE DEF m1
<1>3. /\ m2 \in Collector(S) /\ m2.history = m.history /\ m2.latencies = m1.latencies
      /\ m2.latencySum = m1.latencySum /\ m2.latencyIdx = m1.latencyIdx
      /\ m2.hits = m1.hits /\ m2.misses = m1.misses
      /\ m2.sets = m1.sets /\ m2.deletes = m1.deletes
      /\ m2.head = m.head /\ m2.opTimestamps = Append(m.opTimestamps, n)
  <2> DEFINE o == Append(m1.opTimestamps, n)
  <2>1. o \in Seq(Nat)
    BY <1>2 DEF Collector
  <2>2. m2 = [m1 EXCEPT !.opTimestamps = o]
    OBVIOUS
  <2>3. o = Append(m.opTimestamps, n)
    BY <1>2
  <2> HIDE DEF o, m2
  <2> QED BY <1>2, <2>1, <2>2, <2>3 DEF Collector
<1>4. m2.head <= Len(m2.opTimestamps)
  <2>1. m.opTimestamps \in Seq(Nat) /\ m.head \in Nat
    BY DEF Collector
  <2> HIDE DEF m2
  <2> QED BY <1>3, <2>1
<1> HIDE DEF m2
<1>5. PICK h \in m2.head .. Len(m2.opTimestamps) :
          /\ m3 = [m2 EXCEPT !.head = h]
          /\ \A j \in m2.head + 1 .. h : Stale(m2.opTimestamps[j], n)
  BY <1>3, <1>4, PrunedHead
<1> HIDE DEF m3
<1>6. /\ m3 \in Collector(S) /\ m3.history = m.history /\ m3.latencies = m1.latencies
      /\ m3.latencySum = m1.latencySum /\ m3.latencyIdx = m1.latencyIdx
      /\ m3.hits = m1.hits /\ m3.misses = m1.misses
      /\ m3.sets = m1.sets /\ m3.deletes = m1.deletes
      /\ m3.head = h /\ m3.opTimestamps = m2.opTimestamps
  <2>1. h \in Nat
    <3>1. m2.head \in Nat
      BY <1>3 DEF Collector
    <3> QED BY <3>1
  <2> QED BY <1>3, <1>5, <2>1 DEF Collector
<1>7. /\ m4 \in Collector(S) /\ m4.history = m3.history /\ m4.latencies = m3.latencies
      /\ m4.head <= Len(m4.opTimestamps)
      /\ m4.latencySum = m3.latencySum /\ m4.latencyIdx = m3.latencyIdx
      /\ m4.hits = m3.hits /\ m4.misses = m3.misses
      /\ m4.sets = m3.sets /\ m4.deletes = m3.deletes
      /\ \/ m4.opTimestamps = m3.opTimestamps /\ m4.head = m3.head
         \/ /\ m4.opTimestamps = SubSeq(m3.opTimestamps, m3.head + 1, Len(m3.opTimestamps))
            /\ m4.head = 0
  <2>0. m3.opTimestamps \in Seq(Nat) /\ m3.head \in Nat /\ m3.head <= Len(m3.opTimestamps)
    <3>1. m3.opTimestamps \in Seq(Nat) /\ m3.head \in Nat
      BY <1>6 DEF Collector
    <3>2. Len(m2.opTimestamps) \in Nat
      BY <1>6, <3>1
    <3>3. m2.head \in Nat
      BY <1>3 DEF Collector
    <3> QED BY <1>5, <1>6, <3>1, <3>2, <3>3
  <2>1. CASE m3.head > CompactAbove /\ m3.head * 2 > Len(m3.opTimestamps)
    <3> DEFINE o == SubSeq(m3.opTimestamps, m3.head + 1, Len(m3.opTimestamps))
    <3>1. o \in Seq(Nat)
      BY <2>0
    <3>2. m4 = [m3 EXCEPT !.opTimestamps = o, !.head = 0]
      BY <2>1 DEF compacted
    <3> HIDE DEF o, m4
    <3>3. /\ m4 \in Collector(S) /\ m4.history = m3.history /\ m4.latencies = m3.latencies
          /\ m4.head = 0 /\ m4.opTimestamps = o
          /\ m4.latencySum = m3.latencySum /\ m4.latencyIdx = m3.latencyIdx
          /\ m4.hits = m3.hits /\ m4.misses = m3.misses
          /\ m4.sets = m3.sets /\ m4.deletes = m3.deletes
      BY <1>6, <3>1, <3>2 DEF Collector
    <3> QED BY <3>1, <3>3 DEF o
  <2>2. CASE ~(m3.head > CompactAbove /\ m3.head * 2 > Len(m3.opTimestamps))
    <3>1. m4 = m3
      BY <2>2 DEF compacted
    <3> QED BY <1>6, <2>0, <3>1
  <2> QED BY <2>1, <2>2
<1>8. record(m, op, latency, hit, n) = m4
  BY DEF record, m0, m1, m2, m3
<1> HIDE DEF m4
<1>9. Sums(m4)
  BY <1>1a, <1>2, <1>3, <1>6, <1>7 DEF Sums
<1>10. Samples1(m4)
  BY <1>2, <1>6, <1>7 DEF Samples1
<1>11. \E k \in m.head .. Len(m2.opTimestamps) :
           /\ \A j \in m.head + 1 .. k : Stale(m2.opTimestamps[j], n)
           /\ \/ m4.opTimestamps = m2.opTimestamps /\ m4.head = k
              \/ /\ m4.opTimestamps = SubSeq(m2.opTimestamps, k + 1, Len(m2.opTimestamps))
                 /\ m4.head = 0
  <2>1. h \in m.head .. Len(m2.opTimestamps) /\ \A j \in m.head + 1 .. h : Stale(m2.opTimestamps[j], n)
    BY <1>3, <1>5
  <2> QED BY <1>6, <1>7, <2>1
<1>12. /\ m4 \in Collector(S) /\ m4.history = m.history
       /\ Len(m4.latencies) <= LATENCY_SAMPLE_CAP /\ m4.head <= Len(m4.opTimestamps)
  BY <1>2, <1>6, <1>7
<1>13. m2.opTimestamps = Append(m.opTimestamps, n)
  BY <1>3
<1>14. Recorded(m, op, latency, n, m4)
  BY ZenonT(30), <1>9, <1>10, <1>11, <1>13 DEF Recorded, Sums, Samples1
<1> QED BY <1>8, <1>12, <1>14

(* startHistory() appends a snapshot, drops the first once there are        *)
(* HISTORY_CAP, and changes nothing else.                                   *)
Noted(m, n, r) ==
    LET d == IF Len(m.history) >= HISTORY_CAP THEN 1 ELSE 0
        k == Len(m.history) - d
    IN /\ r.hits = m.hits /\ r.misses = m.misses /\ r.sets = m.sets /\ r.deletes = m.deletes
       /\ r.latencies = m.latencies /\ r.latencyIdx = m.latencyIdx /\ r.latencySum = m.latencySum
       /\ r.opTimestamps = m.opTimestamps /\ r.head = m.head
       /\ Len(r.history) = k + 1 /\ Len(r.history) <= HISTORY_CAP
       /\ \A i \in 1 .. k : r.history[i] = m.history[i + d]
       /\ r.history[k + 1] = [at |-> n, snapshot |-> snapshot(m, n)]

LEMMA HistoryEffect ==
    ASSUME NEW S, NEW m \in Collector(S), NEW n \in Nat, Len(m.history) <= HISTORY_CAP
    PROVE  LET r == startHistory(m, n) IN (\E T : r \in Collector(T)) /\ Noted(m, n, r)
<1> USE MetricsAssumption
<1> DEFINE x == [at |-> n, snapshot |-> snapshot(m, n)]
           old == m.history
           kept == IF Len(old) >= HISTORY_CAP
                   THEN SubSeq(old, Len(old) - HISTORY_CAP + 2, Len(old)) ELSE old
           h == Append(kept, x)
           T == S \cup {x}
           r == startHistory(m, n)
           d == IF Len(old) >= HISTORY_CAP THEN 1 ELSE 0
           k == Len(old) - d
<1>1. old \in Seq(S) /\ Len(old) <= HISTORY_CAP
  BY DEF Collector
<1>2. r = [m EXCEPT !.history = h]
  BY DEF startHistory
<1>2a. d = (IF Len(old) >= HISTORY_CAP THEN 1 ELSE 0) /\ k = Len(old) - d
  BY DEF d, k
<1> HIDE DEF x, old, r, d, k
<1>3. /\ kept \in Seq(S) /\ Len(kept) = k /\ Len(kept) < HISTORY_CAP
      /\ \A i \in 1 .. k : kept[i] = old[i + d]
  <2>1. CASE Len(old) >= HISTORY_CAP
    <3>1. Len(old) = HISTORY_CAP /\ kept = SubSeq(old, 2, Len(old)) /\ d = 1
      BY <1>1, <1>2a, <2>1
    <3> HIDE DEF kept
    <3> QED BY <1>1, <1>2a, <3>1
  <2>2. CASE ~(Len(old) >= HISTORY_CAP)
    <3>1. kept = old /\ d = 0
      BY <1>2a, <2>2
    <3> HIDE DEF kept
    <3> QED BY <1>1, <1>2a, <2>2, <3>1
  <2> QED BY <2>1, <2>2
<1> HIDE DEF kept
<1>4. kept \in Seq(T) /\ x \in T
  BY <1>3
<1> HIDE DEF T
<1>5. /\ h \in Seq(T) /\ Len(h) = k + 1 /\ Len(h) <= HISTORY_CAP
      /\ \A i \in 1 .. k : h[i] = old[i + d]
      /\ h[k + 1] = x
  <2>1. h \in Seq(T) /\ Len(h) = Len(kept) + 1 /\ h[Len(kept) + 1] = x
        /\ \A i \in 1 .. Len(kept) : h[i] = kept[i]
    BY <1>4
  <2>2. Len(kept) \in Nat
    BY <1>4
  <2> HIDE DEF h
  <2> QED BY <1>3, <2>1, <2>2
<1> HIDE DEF h
<1>6. r \in Collector(T) /\ r.history = h
      /\ r.hits = m.hits /\ r.misses = m.misses /\ r.sets = m.sets /\ r.deletes = m.deletes
      /\ r.latencies = m.latencies /\ r.latencyIdx = m.latencyIdx /\ r.latencySum = m.latencySum
      /\ r.opTimestamps = m.opTimestamps /\ r.head = m.head
  BY <1>2, <1>5 DEF Collector
<1>7. (\E T0 : r \in Collector(T0)) /\ Noted(m, n, r)
  BY <1>5, <1>6 DEF x, old, d, k, Noted
<1> QED BY <1>7 DEF r

(* A step keeps the ring buffer, the history and the head of the timestamps *)
(* within theirs.                                                           *)
LEMMA MetricsNext ==
    ASSUME TableInv, MetricsInv, [Next]_vars
    PROVE  MetricsInv'
<1> USE MetricsAssumption, NodeApiAssumption
<1>0. PICK S : metrics \in Collector(S)
  BY DEF MetricsInv
<1>1. ASSUME NEW op \in {"get", "set", "delete"}, NEW hit \in BOOLEAN, Timed(op, hit)
      PROVE  MetricsInv'
  <2>1. metrics' = record(metrics, op, latencyUs[op], hit, now)
    BY <1>1 DEF Timed
  <2>2. latencyUs[op] \in Nat /\ now \in Nat
    BY DEF TableInv
  <2>3. /\ metrics' \in Collector(S) /\ metrics'.history = metrics.history
        /\ Len(metrics'.latencies) <= LATENCY_SAMPLE_CAP
        /\ metrics'.head <= Len(metrics'.opTimestamps)
    <3>1. Len(metrics.latencies) <= LATENCY_SAMPLE_CAP /\ metrics.head <= Len(metrics.opTimestamps)
      BY DEF MetricsInv
    <3> QED BY <1>0, <2>1, <2>2, <3>1, RecordEffect
  <2> QED BY <2>3 DEF MetricsInv
<1>2. CASE Tick
  <2>1. metrics' = startHistory(metrics, now') /\ now' \in Nat
    BY <1>2 DEF Tick, TableInv
  <2>2. /\ \E T : metrics' \in Collector(T)
        /\ metrics'.latencies = metrics.latencies /\ metrics'.head = metrics.head
        /\ metrics'.opTimestamps = metrics.opTimestamps
        /\ Len(metrics'.history) <= HISTORY_CAP
    <3>1. Len(metrics.history) <= HISTORY_CAP
      BY DEF MetricsInv
    <3>2. (\E T : metrics' \in Collector(T)) /\ Noted(metrics, now', metrics')
      BY <1>0, <2>1, <3>1, HistoryEffect
    <3> QED BY <3>2 DEF Noted
  <2> QED BY <2>2 DEF MetricsInv
<1>3. CASE UNCHANGED metrics
  BY <1>3 DEF MetricsInv
<1>4. UNCHANGED metrics \/ Tick \/ \E op \in {"get", "set", "delete"}, hit \in BOOLEAN : Timed(op, hit)
  BY DEF Next, Arrival, Refused, LetIn, Route, Read, vars, apiVars, Throttled, Unauthorised,
         Authorised, Unrecorded, Get, Set, Delete
<1> QED BY <1>1, <1>2, <1>3, <1>4

-----------------------------------------------------------------------------
(* Types. *)

(* One bucket per client. *)
LEMMA TrackedCardinality ==
    ASSUME TableInv
    PROVE  Cardinality(Tracked(buckets)) = Len(buckets)
<1> DEFINE n == Len(buckets)
           f == [i \in 1 .. n |-> buckets[i].client]
<1>1. n \in Nat /\ DOMAIN buckets = 1 .. n
  BY DEF TableInv
<1>2. f \in Bijection(1 .. n, Tracked(buckets))
  <2>1. f \in [1 .. n -> Tracked(buckets)]
    BY <1>1 DEF Tracked
  <2>2. \A i, j \in 1 .. n : f[i] = f[j] => i = j
    BY <1>1 DEF TableInv
  <2>3. \A c \in Tracked(buckets) : \E i \in 1 .. n : f[i] = c
    BY <1>1 DEF Tracked
  <2> HIDE DEF f
  <2> QED BY <2>1, <2>2, <2>3 DEF Bijection, Injection, Surjection, IsInjective
<1>3. ExistsBijection(1 .. n, Tracked(buckets))
  BY <1>2 DEF ExistsBijection
<1>4. IsFiniteSet(1 .. n) /\ Cardinality(1 .. n) = n
  <2> HIDE DEF n
  <2>1. 1 \in Int /\ n \in Int
    BY <1>1
  <2>2. IsFiniteSet(1 .. n) /\ Cardinality(1 .. n) = IF 1 > n THEN 0 ELSE n - 1 + 1
    BY <2>1, FS_Interval
  <2> QED BY <1>1, <2>2
<1> QED BY <1>3, <1>4, FS_Bijection

(* THE TYPES AND THE BOUNDS OF THE MEMORY (rate-limit.ts, access-           *)
(* predictor.ts, metrics.ts): whatever the requests, the table of clients,  *)
(* the transitions and candidates, the latencies and the history stay       *)
(* within their limits, a tracked client has one bucket, a tracked key has  *)
(* a candidate, and the head stays within the timestamps.                   *)
THEOREM TypeCorrect == Spec => []TypeOK
<1> USE RateLimiterAssumption, NodeApiAssumption, AccessPredictorAssumption, MetricsAssumption
<1> DEFINE Inv == TableInv /\ PredictorInv /\ MetricsInv /\ ROLE \in {"primary", "replica"} /\ reading \in Nat
<1>1. HistoryInit => Inv
  <2> SUFFICES ASSUME HistoryInit PROVE Inv
    OBVIOUS
  <2>1. TableInv /\ ROLE \in {"primary", "replica"} /\ reading \in Nat
    BY DEF HistoryInit, Init, TableInv
  <2>2. PredictorInv
    BY DEF HistoryInit, Init, NewPredictor, PredictorInv
  <2>3. metrics \in Collector({})
    BY DEF HistoryInit, Init, NewCollector, Collector
  <2>4. MetricsInv
    BY <2>3 DEF HistoryInit, Init, NewCollector, MetricsInv
  <2> QED BY <2>1, <2>2, <2>4
<1>2. Inv /\ [Next]_vars => Inv'
  <2> SUFFICES ASSUME Inv, [Next]_vars PROVE Inv'
    OBVIOUS
  <2>1. TableInv' /\ PredictorInv' /\ MetricsInv'
    BY TableNext, PredictorNext, MetricsNext
  <2>2. UNCHANGED ROLE
    BY DEF Next, Arrival, Refused, LetIn, Route, Read, vars, apiVars, Tick, Throttled, Unauthorised,
           Authorised, Unrecorded, Parsed, Get, Set, Delete
  <2>3. reading' \in Nat
    <3>1. UNCHANGED reading \/ reading' = reading + 1 \/ Parsed
      BY DEF Next, Arrival, Refused, LetIn, Route, Read, vars, apiVars, Tick, Throttled, Unauthorised,
             Authorised, Unrecorded, Get, Set, Delete
    <3> QED BY <3>1 DEF Parsed
  <2> QED BY <2>1, <2>2, <2>3
<1>3. Inv => TypeOK
  <2> SUFFICES ASSUME Inv PROVE TypeOK
    OBVIOUS
  <2>1. \A i \in DOMAIN buckets :
           /\ buckets[i].client \in Clients /\ buckets[i].count \in Nat \ {0}
           /\ buckets[i].resetAt \in 0 .. MaxTime + window
    <3>1. \A i \in DOMAIN buckets : buckets[i] \in Buckets
      BY DEF TableInv
    <3> QED BY <3>1 DEF Buckets
  <2>2. metrics.head \in 0 .. Len(metrics.opTimestamps)
    BY DEF MetricsInv, Collector
  <2> QED BY <2>1, <2>2, TrackedCardinality DEF TypeOK, TableInv, PredictorInv, MetricsInv
<1> QED BY <1>1, <1>2, <1>3, PTL DEF Spec

-----------------------------------------------------------------------------
(* What the predictor observed. *)

(* Reading a key after rs adds one pair, of the last read and the key. *)
LEMMA PairsAppend ==
    ASSUME NEW rs \in Seq(Keys), NEW k \in Keys, NEW a, NEW b
    PROVE  /\ Pairs(rs, a, b) \in Nat
           /\ Pairs(Append(rs, k), a, b) =
                 IF rs # <<>> /\ rs[Len(rs)] = a /\ k = b THEN Pairs(rs, a, b) + 1 ELSE Pairs(rs, a, b)
<1> DEFINE n == Len(rs)
           t == Append(rs, k)
           I == {i \in 1 .. n - 1 : rs[i] = a /\ rs[i + 1] = b}
           J == {i \in 1 .. n : t[i] = a /\ t[i + 1] = b}
<1>1. /\ n \in Nat /\ DOMAIN rs = 1 .. n /\ Len(t) = n + 1 /\ t[n + 1] = k
      /\ \A i \in 1 .. n : t[i] = rs[i]
  OBVIOUS
<1>2. Pairs(rs, a, b) = Cardinality(I) /\ Pairs(t, a, b) = Cardinality(J)
  <2>1. Len(t) - 1 = n
    BY <1>1
  <2> HIDE DEF t
  <2> QED BY <2>1 DEF Pairs
<1>3. rs # <<>> <=> n > 0
  BY <1>1
<1> HIDE DEF t, n
<1>4. IsFiniteSet(I) /\ Cardinality(I) \in Nat
  <2>1. 1 \in Int /\ n - 1 \in Int
    BY <1>1
  <2>2. IsFiniteSet(1 .. n - 1) /\ I \in SUBSET (1 .. n - 1)
    BY <2>1, FS_Interval
  <2> HIDE DEF I
  <2> QED BY <2>2, FS_Subset, FS_CardinalityType
<1>5. \A i \in 1 .. n - 1 : i \in J <=> i \in I
  <2> SUFFICES ASSUME NEW i \in 1 .. n - 1 PROVE i \in J <=> i \in I
    OBVIOUS
  <2>1. i \in 1 .. n /\ i + 1 \in 1 .. n
    BY <1>1
  <2>2. t[i] = rs[i] /\ t[i + 1] = rs[i + 1]
    BY <1>1, <2>1
  <2> QED BY <2>1, <2>2
<1>6. CASE n > 0 /\ rs[n] = a /\ k = b
  <2>1. n \in J /\ n \notin I
    <3>1. n \in 1 .. n /\ n \notin 1 .. n - 1
      BY <1>1, <1>6
    <3>2. t[n] = a /\ t[n + 1] = b
      BY <1>1, <1>6, <3>1
    <3> QED BY <3>1, <3>2
  <2>2. J = I \cup {n}
    <3>1. \A i \in 1 .. n : i \in 1 .. n - 1 \/ i = n
      BY <1>1
    <3>2. J \subseteq 1 .. n /\ I \subseteq 1 .. n - 1
      OBVIOUS
    <3> HIDE DEF I, J
    <3>3. \A i \in I : i \in J
      BY <1>5, <3>2
    <3>4. \A i \in J : i \in I \/ i = n
      BY <1>5, <3>1, <3>2
    <3> QED BY <2>1, <3>3, <3>4
  <2> HIDE DEF I, J
  <2>3. Cardinality(J) = Cardinality(I) + 1
    BY <1>4, <2>1, <2>2, FS_AddElement
  <2> QED BY <1>2, <1>3, <1>4, <1>6, <2>3 DEF n, t
<1>7. CASE ~(n > 0 /\ rs[n] = a /\ k = b)
  <2>1. n \notin J
    <3> SUFFICES ASSUME n \in 1 .. n, t[n] = a, t[n + 1] = b PROVE FALSE
      OBVIOUS
    <3> QED BY <1>1, <1>7
  <2>2. J = I
    <3>1. \A i \in 1 .. n : i \in 1 .. n - 1 \/ i = n
      BY <1>1
    <3>2. J \subseteq 1 .. n /\ I \subseteq 1 .. n - 1
      OBVIOUS
    <3> HIDE DEF I, J
    <3>3. \A i \in I : i \in J
      BY <1>5, <3>2
    <3>4. \A i \in J : i \in I
      BY <1>5, <2>1, <3>1, <3>2
    <3> QED BY <3>3, <3>4
  <2> HIDE DEF I, J
  <2> QED BY <1>2, <1>3, <1>4, <1>7, <2>2 DEF n, t
<1> QED BY <1>6, <1>7

(* Reading a key for the first time, or twice in a row, changes nothing the *)
(* table has to know.                                                       *)
LEMMA FaithfulRepeat ==
    ASSUME NEW rs \in Seq(Keys), NEW k \in Keys, rs = <<>> \/ rs[Len(rs)] = k,
           NEW ts, Faithful(rs, ts)
    PROVE  Faithful(Append(rs, k), ts)
<1> DEFINE t == Append(rs, k)
<1>1. \A a \in Keys : \A b \in Keys \ {a} : Pairs(t, a, b) = Pairs(rs, a, b)
  BY PairsAppend
<1> HIDE DEF t
<1>2. \A a \in Keys : Successors(t, a) = Successors(rs, a)
  BY <1>1 DEF Successors
<1>3. Sources(t) = Sources(rs)
  BY <1>2 DEF Sources
<1>4. \A a \in Sources(rs) : a \in Keys
  BY DEF Sources
<1>5. \A a \in Keys : \A b : b \in Successors(rs, a) => b \in Keys \ {a}
  BY DEF Successors
<1>6. ASSUME NEW a \in Keys, NEW cs PROVE /\ Observed(rs, a, cs) => Observed(t, a, cs)
                                          /\ Complete(rs, a, cs) => Complete(t, a, cs)
  BY <1>1, <1>2, <1>5 DEF Observed, Complete
<1>7. \A i \in DOMAIN ts : ts[i].from \in Keys
  BY <1>4 DEF Faithful
<1>8. Faithful(t, ts)
  <2>1. /\ \A i, j \in DOMAIN ts : ts[i].from = ts[j].from => i = j
        /\ \A i \in DOMAIN ts : ts[i].from \in Sources(t) /\ Observed(t, ts[i].from, ts[i].candidates)
    BY <1>3, <1>6, <1>7 DEF Faithful
  <2>2. IsFiniteSet(Sources(t)) /\ \A a \in Keys : IsFiniteSet(Successors(t, a))
    BY <1>2, <1>3 DEF Faithful
  <2>3. ASSUME Cardinality(Sources(t)) <= maxTrackedKeys
        PROVE  /\ Sources(t) \subseteq Froms(ts)
               /\ \A i \in DOMAIN ts :
                     Cardinality(Successors(t, ts[i].from)) <= maxCandidatesPerKey =>
                         Complete(t, ts[i].from, ts[i].candidates)
    BY <1>2, <1>3, <1>6, <1>7, <2>3 DEF Faithful
  <2> QED BY <2>1, <2>2, <2>3 DEF Faithful
<1> QED BY <1>8 DEF t

(* Reading k after another key a adds k to the successors of a, and one to  *)
(* the number of times.                                                     *)
LEMMA SuccessorsAppend ==
    ASSUME NEW rs \in Seq(Keys), NEW k \in Keys, rs # <<>>, rs[Len(rs)] # k
    PROVE  LET t == Append(rs, k)
               a == rs[Len(rs)]
           IN /\ a \in Keys
              /\ \A c, b : Pairs(t, c, b) = IF c = a /\ b = k THEN Pairs(rs, c, b) + 1 ELSE Pairs(rs, c, b)
              /\ \A c, b : Pairs(rs, c, b) \in Nat
              /\ Successors(t, a) = Successors(rs, a) \cup {k}
              /\ \A c \in Keys \ {a} : Successors(t, c) = Successors(rs, c)
              /\ Sources(t) = Sources(rs) \cup {a}
<1> DEFINE t == Append(rs, k)
           a == rs[Len(rs)]
<1>1. a \in Keys /\ a # k
  BY EmptySeq
<1>2. \A c, b : Pairs(t, c, b) = IF c = a /\ b = k THEN Pairs(rs, c, b) + 1 ELSE Pairs(rs, c, b)
  BY PairsAppend
<1>3. \A c, b : Pairs(rs, c, b) \in Nat
  BY PairsAppend
<1> HIDE DEF t, a
<1>4. Successors(t, a) = Successors(rs, a) \cup {k}
  <2>1. k \in Successors(t, a)
    BY <1>1, <1>2, <1>3 DEF Successors
  <2>2. \A b \in Keys : b # k => (b \in Successors(t, a) <=> b \in Successors(rs, a))
    BY <1>2 DEF Successors
  <2>3. Successors(t, a) \subseteq Keys /\ Successors(rs, a) \subseteq Keys
    BY DEF Successors
  <2> QED BY <2>1, <2>2, <2>3
<1>5. \A c \in Keys \ {a} : Successors(t, c) = Successors(rs, c)
  BY <1>2 DEF Successors
<1>6. Sources(t) = Sources(rs) \cup {a}
  <2>1. a \in Sources(t)
    BY <1>1, <1>4 DEF Sources
  <2>2. \A c \in Keys : c # a => (c \in Sources(t) <=> c \in Sources(rs))
    BY <1>5 DEF Sources
  <2>3. Sources(t) \subseteq Keys /\ Sources(rs) \subseteq Keys
    BY DEF Sources
  <2> QED BY <2>1, <2>2, <2>3
<1> QED BY <1>1, <1>2, <1>3, <1>4, <1>5, <1>6 DEF t, a

(* One more observation in a list of candidates: no key twice, the count of *)
(* one of them is greater by one, and what was there still is.              *)
LEMMA IncrementedEntries ==
    ASSUME NEW cs \in Seq(Candidate), NEW k \in Keys,
           \A i, j \in DOMAIN cs : cs[i].key = cs[j].key => i = j
    PROVE  LET more == Incremented(cs, k) IN
           /\ more \in Seq(Candidate) /\ Len(more) > 0
           /\ \A i, j \in DOMAIN more : more[i].key = more[j].key => i = j
           /\ \A i \in DOMAIN more :
                 \/ more[i].key = k /\ more[i].count = 1 /\ \A j \in DOMAIN cs : cs[j].key # k
                 \/ \E j \in DOMAIN cs :
                       /\ more[i].key = cs[j].key
                       /\ more[i].count = IF cs[j].key = k THEN cs[j].count + 1 ELSE cs[j].count
           /\ \A j \in DOMAIN cs : \E i \in DOMAIN more :
                 more[i] = [key |-> cs[j].key,
                            count |-> IF cs[j].key = k THEN cs[j].count + 1 ELSE cs[j].count]
           /\ (\A j \in DOMAIN cs : cs[j].key # k) =>
                 \E i \in DOMAIN more : more[i] = [key |-> k, count |-> 1]
<1> DEFINE more == Incremented(cs, k)
           one(c) == [key |-> c.key, count |-> IF c.key = k THEN c.count + 1 ELSE c.count]
           n == Len(cs)
<1>1. n \in Nat /\ DOMAIN cs = 1 .. n /\ \A i \in DOMAIN cs : cs[i] \in Candidate
  OBVIOUS
<1>2. ASSUME NEW c \in Candidate PROVE /\ one(c) \in Candidate
                                       /\ (IF c.key = k THEN [c EXCEPT !.count = @ + 1] ELSE c) = one(c)
                                       /\ one(c).key = c.key
                                       /\ one(c).count = IF c.key = k THEN c.count + 1 ELSE c.count
  BY SMTT(30) DEF Candidate
<1>3. CASE \E i \in DOMAIN cs : cs[i].key = k
  <2>1. more = [i \in 1 .. n |-> IF cs[i].key = k THEN [cs[i] EXCEPT !.count = @ + 1] ELSE cs[i]]
    BY <1>1, <1>3 DEF Incremented
  <2> HIDE DEF more
  <2>2. \A i \in 1 .. n : more[i] = one(cs[i])
    <3> SUFFICES ASSUME NEW i \in 1 .. n PROVE more[i] = one(cs[i])
      OBVIOUS
    <3>1. more[i] = IF cs[i].key = k THEN [cs[i] EXCEPT !.count = @ + 1] ELSE cs[i]
      BY <2>1
    <3>2. cs[i] \in Candidate
      BY <1>1
    <3> DEFINE c == cs[i]
    <3>3. c \in Candidate /\ more[i] = IF c.key = k THEN [c EXCEPT !.count = @ + 1] ELSE c
      BY <3>1, <3>2
    <3> HIDE DEF c, one
    <3>4. more[i] = one(c)
      BY <1>2, <3>3
    <3> QED BY <3>4 DEF c
  <2>3. \A i \in 1 .. n : one(cs[i]) \in Candidate
    <3> HIDE DEF one
    <3> QED BY <1>1, <1>2
  <2>4. DOMAIN more = 1 .. n
    BY <2>1
  <2>5. more \in Seq(Candidate) /\ Len(more) = n
    <3>1. more = [i \in 1 .. n |-> more[i]]
      BY <2>1
    <3>2. \A i \in 1 .. n : more[i] \in Candidate
      <4> HIDE DEF one
      <4> QED BY <2>2, <2>3
    <3> HIDE DEF n
    <3>3. more \in [1 .. n -> Candidate]
      BY <3>1, <3>2
    <3> QED BY <1>1, <3>3
  <2>6. n > 0
    BY <1>1, <1>3
  <2>7. \A i \in 1 .. n : /\ more[i].key = cs[i].key
                          /\ more[i].count = IF cs[i].key = k THEN cs[i].count + 1 ELSE cs[i].count
    <3> HIDE DEF one
    <3> QED BY <1>1, <1>2, <2>2
  <2>8. \A i \in 1 .. n : more[i] = [key |-> cs[i].key,
                              count |-> IF cs[i].key = k THEN cs[i].count + 1 ELSE cs[i].count]
    BY <2>2
  <2> HIDE DEF one, n
  <2>9. \A i, j \in DOMAIN more : more[i].key = more[j].key => i = j
    BY <1>1, <2>4, <2>7
  <2>10. \A i \in DOMAIN more : \E j \in DOMAIN cs :
                       /\ more[i].key = cs[j].key
                       /\ more[i].count = IF cs[j].key = k THEN cs[j].count + 1 ELSE cs[j].count
    BY <1>1, <2>4, <2>7
  <2>11. \A j \in DOMAIN cs : \E i \in DOMAIN more :
                 more[i] = [key |-> cs[j].key,
                            count |-> IF cs[j].key = k THEN cs[j].count + 1 ELSE cs[j].count]
    BY <1>1, <2>4, <2>8
  <2> QED BY <1>3, <2>5, <2>6, <2>9, <2>10, <2>11 DEF more
<1>4. CASE \A i \in DOMAIN cs : cs[i].key # k
  <2> DEFINE e == [key |-> k, count |-> 1]
  <2>1. more = Append(cs, e)
    BY <1>4 DEF Incremented
  <2>2. e \in Candidate /\ e.key = k /\ e.count = 1
    BY DEF Candidate
  <2>3. e = [key |-> k, count |-> 1]
    OBVIOUS
  <2> HIDE DEF more, e
  <2>4. /\ more \in Seq(Candidate) /\ Len(more) = n + 1 /\ DOMAIN more = 1 .. n + 1
        /\ more[n + 1] = e /\ \A i \in 1 .. n : more[i] = cs[i]
    BY <2>1, <2>2
  <2>5. \A i \in 1 .. n : cs[i].key # k
    BY <1>1, <1>4
  <2>6. ASSUME NEW i \in 1 .. n PROVE cs[i] = [key |-> cs[i].key, count |-> cs[i].count]
    <3>1. cs[i] \in Candidate
      BY <1>1
    <3> QED BY <3>1 DEF Candidate
  <2> HIDE DEF n
  <2>7. \A i \in DOMAIN more : i = n + 1 \/ i \in 1 .. n
    BY <1>1, <2>4
  <2>8. \A i, j \in DOMAIN more : more[i].key = more[j].key => i = j
    BY <1>1, <2>2, <2>4, <2>5, <2>7
  <2>9. \A i \in DOMAIN more :
          \/ more[i].key = k /\ more[i].count = 1
          \/ \E j \in DOMAIN cs : more[i].key = cs[j].key /\ more[i].count = cs[j].count /\ cs[j].key # k
    BY <1>1, <2>2, <2>4, <2>5, <2>7
  <2>10. \A j \in DOMAIN cs : j \in DOMAIN more /\ cs[j].key # k
            /\ more[j] = [key |-> cs[j].key, count |-> cs[j].count]
    BY <1>1, <2>4, <2>5, <2>6
  <2>11. n + 1 \in DOMAIN more /\ Len(more) > 0
    BY <1>1, <2>4
  <2>12. \A i \in DOMAIN more :
          \/ more[i].key = k /\ more[i].count = 1 /\ \A j \in DOMAIN cs : cs[j].key # k
          \/ \E j \in DOMAIN cs :
                /\ more[i].key = cs[j].key
                /\ more[i].count = IF cs[j].key = k THEN cs[j].count + 1 ELSE cs[j].count
    BY <1>4, <2>9
  <2>13. \A j \in DOMAIN cs : \E i \in DOMAIN more :
                 more[i] = [key |-> cs[j].key,
                            count |-> IF cs[j].key = k THEN cs[j].count + 1 ELSE cs[j].count]
    BY <2>10
  <2>14. \E i \in DOMAIN more : more[i] = [key |-> k, count |-> 1]
    BY <2>3, <2>4, <2>11
  <2> QED BY <2>4, <2>8, <2>11, <2>12, <2>13, <2>14 DEF more
<1> QED BY <1>3, <1>4

(* What is left of the candidates within their bound is among them. *)
LEMMA BoundedEntries ==
    ASSUME NEW cs \in Seq(Candidate), Len(cs) > 0,
           \A i, j \in DOMAIN cs : cs[i].key = cs[j].key => i = j
    PROVE  /\ Bounded(cs) \in Seq(Candidate)
           /\ \A i, j \in DOMAIN Bounded(cs) : Bounded(cs)[i].key = Bounded(cs)[j].key => i = j
           /\ \A i \in DOMAIN Bounded(cs) : \E j \in DOMAIN cs : Bounded(cs)[i] = cs[j]
           /\ Len(cs) <= maxCandidatesPerKey => Bounded(cs) = cs
<1> USE AccessPredictorAssumption
<1> DEFINE n == Len(cs)
<1>0. n \in Nat /\ DOMAIN cs = 1 .. n
  OBVIOUS
<1>1. CASE ~(n > maxCandidatesPerKey)
  BY <1>1 DEF Bounded
<1>2. CASE n > maxCandidatesPerKey
  <2> DEFINE w == Worst(cs)
             b == Bounded(cs)
  <2>1. w \in 1 .. Len(cs)
    BY WorstExists
  <2>2. b = RemoveAt(cs, w)
    BY <1>2 DEF Bounded
  <2> HIDE DEF w, b
  <2>3. /\ b \in Seq(Candidate) /\ Len(b) = n - 1
        /\ \A j \in 1 .. n - 1 : b[j] = IF j < w THEN cs[j] ELSE cs[j + 1]
    BY <2>1, <2>2, RemoveAtProperties
  <2>4. DOMAIN b = 1 .. n - 1
    BY <2>3
  <2> DEFINE at(j) == IF j < w THEN j ELSE j + 1
  <2>5. w \in 1 .. n
    BY <2>1
  <2> HIDE DEF n
  <2>6. \A j \in 1 .. n - 1 : at(j) \in 1 .. n /\ b[j] = cs[at(j)]
    BY <1>0, <2>3, <2>5
  <2>7. \A i, j \in 1 .. n - 1 : at(i) = at(j) => i = j
    BY <1>0, <2>5
  <2> HIDE DEF at
  <2>8. \A i, j \in DOMAIN b : b[i].key = b[j].key => i = j
    BY <1>0, <2>4, <2>6, <2>7
  <2>9. \A i \in DOMAIN b : \E j \in DOMAIN cs : b[i] = cs[j]
    BY <1>0, <2>4, <2>6
  <2>10. ~(n <= maxCandidatesPerKey)
    BY <1>0, <1>2
  <2> QED BY <2>3, <2>8, <2>9, <2>10 DEF b, n
<1> QED BY <1>0, <1>1, <1>2

(* As many candidates as there are successors, at most. *)
LEMMA ObservedLength ==
    ASSUME NEW rs, NEW from, NEW cs \in Seq(Candidate), Observed(rs, from, cs),
           IsFiniteSet(Successors(rs, from))
    PROVE  /\ Len(cs) <= Cardinality(Successors(rs, from))
           /\ Complete(rs, from, cs) => Len(cs) = Cardinality(Successors(rs, from))
<1> DEFINE n == Len(cs)
           S == Successors(rs, from)
           f == [i \in 1 .. n |-> cs[i].key]
<1>0. n \in Nat /\ DOMAIN cs = 1 .. n
  OBVIOUS
<1>1. /\ \A i, j \in 1 .. n : cs[i].key = cs[j].key => i = j
      /\ \A i \in 1 .. n : cs[i].key \in S
  BY <1>0 DEF Observed
<1>2. Complete(rs, from, cs) => \A b \in S : \E i \in 1 .. n : cs[i].key = b
  <2> SUFFICES ASSUME Complete(rs, from, cs), NEW b \in S PROVE \E i \in 1 .. n : cs[i].key = b
    OBVIOUS
  <2>1. PICK i \in DOMAIN cs : cs[i] = [key |-> b, count |-> Pairs(rs, from, b)]
    BY DEF Complete
  <2>2. cs[i].key = b
    BY <2>1
  <2> QED BY <1>0, <2>2
<1> HIDE DEF n, S
<1>3. f \in [1 .. n -> S] /\ DOMAIN f = 1 .. n /\ \A i \in 1 .. n : f[i] = cs[i].key
  BY <1>1
<1> HIDE DEF f
<1>4. f \in Injection(1 .. n, S)
  BY <1>1, <1>3 DEF Injection, IsInjective
<1>5. Cardinality(1 .. n) = n
  <2>1. 1 \in Int /\ n \in Int
    BY <1>0
  <2>2. Cardinality(1 .. n) = IF 1 > n THEN 0 ELSE n - 1 + 1
    BY <2>1, FS_Interval
  <2> QED BY <1>0, <2>2
<1>6. IsFiniteSet(S)
  BY DEF S
<1>7. /\ Cardinality(1 .. n) <= Cardinality(S)
      /\ Cardinality(1 .. n) = Cardinality(S) <=> f \in Surjection(1 .. n, S)
  BY <1>4, <1>6, FS_Injection
<1>8. (\A b \in S : \E i \in 1 .. n : cs[i].key = b) => f \in Surjection(1 .. n, S)
  BY <1>3 DEF Surjection
<1> QED BY <1>2, <1>5, <1>7, <1>8 DEF n, S

(* The table in which one more observation is recorded: what it holds is    *)
(* what it held, with an entry of `from', and nothing is forgotten unless   *)
(* it was full.                                                             *)
LEMMA WithFromEntries ==
    ASSUME NEW ts \in Seq(Transition), NEW from \in Keys, Len(ts) <= maxTrackedKeys,
           \A i, j \in DOMAIN ts : ts[i].from = ts[j].from => i = j
    PROVE  LET t1 == WithFrom(ts, from)
               at == FromIndex(t1, from)
           IN /\ at \in DOMAIN t1 /\ t1[at].from = from
              /\ \A i, j \in DOMAIN t1 : t1[i].from = t1[j].from => i = j
              /\ \A i \in DOMAIN t1 : i # at => \E l \in DOMAIN ts : t1[i] = ts[l]
              /\ from \in Froms(ts) => \E l \in DOMAIN ts : t1[at] = ts[l]
              /\ from \notin Froms(ts) => t1[at].candidates = <<>>
              /\ (from \in Froms(ts) \/ Len(ts) < maxTrackedKeys) => Froms(ts) \subseteq Froms(t1)
<1> USE AccessPredictorAssumption
<1> DEFINE t1 == WithFrom(ts, from)
           at == FromIndex(t1, from)
<1>1. CASE from \in Froms(ts)
  <2>1. t1 = ts
    BY <1>1 DEF WithFrom
  <2>2. FromIndex(ts, from) \in DOMAIN ts /\ ts[FromIndex(ts, from)].from = from
    BY <1>1 DEF FromIndex, Froms
  <2> HIDE DEF t1
  <2> QED BY <1>1, <2>1, <2>2 DEF t1
<1>2. CASE from \notin Froms(ts)
  <2> DEFINE kept == IF Len(ts) >= maxTrackedKeys THEN Tail(ts) ELSE ts
             e == [from |-> from, candidates |-> <<>>]
             m == Len(kept)
             old(j) == IF Len(ts) >= maxTrackedKeys THEN j + 1 ELSE j
  <2>1. t1 = Append(kept, e)
    BY <1>2 DEF WithFrom
  <2>2. /\ kept \in Seq(Transition) /\ m \in Nat
        /\ \A j \in 1 .. m : old(j) \in DOMAIN ts /\ kept[j] = ts[old(j)]
        /\ Len(ts) < maxTrackedKeys => kept = ts
    <3>1. CASE Len(ts) >= maxTrackedKeys
      <4>1. Len(ts) > 0 /\ Len(ts) = maxTrackedKeys
        BY <3>1
      <4>2. /\ kept \in Seq(Transition) /\ Len(kept) = Len(ts) - 1
            /\ \A j \in 1 .. Len(ts) - 1 : kept[j] = ts[j + 1] /\ j + 1 \in DOMAIN ts
        BY <3>1, <4>1
      <4> HIDE DEF kept
      <4>3. m \in Nat /\ \A j \in 1 .. m : j \in 1 .. Len(ts) - 1
        BY <4>1, <4>2
      <4>4. \A j \in 1 .. m : old(j) = j + 1
        BY <3>1
      <4>5. ~(Len(ts) < maxTrackedKeys)
        BY <4>1
      <4> QED BY <4>2, <4>3, <4>4, <4>5
    <3>2. CASE ~(Len(ts) >= maxTrackedKeys)
      BY <3>2
    <3> QED BY <3>1, <3>2
  <2>3. \A i, j \in 1 .. m : old(i) = old(j) => i = j
    BY <2>2
  <2> HIDE DEF kept, old
  <2>4. e.from = from /\ e.candidates = <<>>
    OBVIOUS
  <2>5. e \in Transition
    BY DEF Transition
  <2> HIDE DEF e, t1
  <2>6. /\ DOMAIN t1 = 1 .. m + 1 /\ t1[m + 1] = e /\ \A j \in 1 .. m : t1[j] = kept[j]
    BY <2>1, <2>2, <2>5
  <2> HIDE DEF m
  <2>7. \A j \in 1 .. m : old(j) \in DOMAIN ts /\ t1[j] = ts[old(j)]
    BY <2>2, <2>6
  <2>8. \A j \in 1 .. m : t1[j].from # from
    BY <1>2, <2>7 DEF Froms
  <2>9. m + 1 \in DOMAIN t1 /\ \A j \in DOMAIN t1 : j = m + 1 \/ j \in 1 .. m
    BY <2>2, <2>6
  <2>10. at \in DOMAIN t1 /\ t1[at].from = from
    BY <2>4, <2>6, <2>9 DEF FromIndex
  <2>11. at = m + 1
    BY <2>8, <2>9, <2>10
  <2>12. \A i, j \in DOMAIN t1 : t1[i].from = t1[j].from => i = j
    <3>1. \A i, j \in 1 .. m : t1[i].from = t1[j].from => i = j
      BY <2>3, <2>7
    <3> HIDE DEF at
    <3> QED BY <2>4, <2>6, <2>8, <2>9, <3>1
  <2>13. \A i \in DOMAIN t1 : i # at => \E l \in DOMAIN ts : t1[i] = ts[l]
    BY <2>7, <2>9, <2>11
  <2>14. t1[at].candidates = <<>>
    BY <2>4, <2>6, <2>11
  <2>15. ASSUME Len(ts) < maxTrackedKeys PROVE Froms(ts) \subseteq Froms(t1)
    <3>1. kept = ts
      BY <2>2, <2>15
    <3>2. \A j \in DOMAIN ts : j \in DOMAIN t1 /\ t1[j] = ts[j]
      BY <2>2, <2>6, <2>9, <3>1 DEF m
    <3> QED BY <3>2 DEF Froms
  <2> HIDE DEF at
  <2> QED BY <1>2, <2>10, <2>12, <2>13, <2>14, <2>15 DEF t1, at
<1> QED BY <1>1, <1>2

(* A table without an entry of a key of S has fewer entries than S members. *)
LEMMA TableLength ==
    ASSUME NEW ts \in Seq(Transition), NEW S, IsFiniteSet(S), NEW from \in S, from \notin Froms(ts),
           \A i, j \in DOMAIN ts : ts[i].from = ts[j].from => i = j,
           \A i \in DOMAIN ts : ts[i].from \in S
    PROVE  Len(ts) < Cardinality(S)
<1> DEFINE n == Len(ts)
           T == S \ {from}
           f == [i \in 1 .. n |-> ts[i].from]
<1>1. n \in Nat /\ DOMAIN ts = 1 .. n
  OBVIOUS
<1>2. \A i \in 1 .. n : ts[i].from \in T
  BY <1>1 DEF Froms
<1>3. \A i, j \in 1 .. n : ts[i].from = ts[j].from => i = j
  BY <1>1
<1>4. IsFiniteSet(T) /\ Cardinality(T) = Cardinality(S) - 1 /\ Cardinality(S) \in Nat
  BY FS_RemoveElement, FS_CardinalityType
<1> HIDE DEF n, T
<1>5. f \in [1 .. n -> T] /\ DOMAIN f = 1 .. n /\ \A i \in 1 .. n : f[i] = ts[i].from
  BY <1>2
<1> HIDE DEF f
<1>6. f \in Injection(1 .. n, T)
  BY <1>3, <1>5 DEF Injection, IsInjective
<1>7. Cardinality(1 .. n) <= Cardinality(T)
  BY <1>4, <1>6, FS_Injection
<1>8. Cardinality(1 .. n) = n
  <2>1. 1 \in Int /\ n \in Int
    BY <1>1
  <2>2. Cardinality(1 .. n) = IF 1 > n THEN 0 ELSE n - 1 + 1
    BY <2>1, FS_Interval
  <2> QED BY <1>1, <2>2
<1> QED BY <1>1, <1>4, <1>7, <1>8 DEF n

(* One more observation in the candidates of the last key read. *)
LEMMA CandidatesAppend ==
    ASSUME NEW rs \in Seq(Keys), NEW k \in Keys, rs # <<>>, rs[Len(rs)] # k,
           NEW cs \in Seq(Candidate), Observed(rs, rs[Len(rs)], cs),
           IsFiniteSet(Successors(rs, rs[Len(rs)]))
    PROVE  LET t == Append(rs, k)
               a == rs[Len(rs)]
               c2 == Bounded(Incremented(cs, k))
           IN /\ Observed(t, a, c2)
              /\ Complete(rs, a, cs) /\ Cardinality(Successors(t, a)) <= maxCandidatesPerKey
                 => Complete(t, a, c2)
<1> DEFINE t == Append(rs, k)
           a == rs[Len(rs)]
           more == Incremented(cs, k)
           c2 == Bounded(more)
<1>1. /\ a \in Keys /\ a # k
      /\ \A c, b : Pairs(t, c, b) = IF c = a /\ b = k THEN Pairs(rs, c, b) + 1 ELSE Pairs(rs, c, b)
      /\ \A c, b : Pairs(rs, c, b) \in Nat
      /\ Successors(t, a) = Successors(rs, a) \cup {k}
  BY SuccessorsAppend
<1>2. \A i, j \in DOMAIN cs : cs[i].key = cs[j].key => i = j
  BY DEF Observed
<1>3. /\ \A i \in DOMAIN cs : cs[i].key \in Successors(rs, a) /\ cs[i].count <= Pairs(rs, a, cs[i].key)
      /\ \A i \in DOMAIN cs : cs[i].count \in Nat
  <2>1. \A i \in DOMAIN cs : cs[i] \in Candidate
    OBVIOUS
  <2> QED BY <2>1 DEF Observed, Candidate
<1>4. IsFiniteSet(Successors(t, a))
  BY <1>1, FS_AddElement
<1> HIDE DEF t, a
<1>5. /\ more \in Seq(Candidate) /\ Len(more) > 0
      /\ \A i, j \in DOMAIN more : more[i].key = more[j].key => i = j
      /\ \A i \in DOMAIN more :
            \/ more[i].key = k /\ more[i].count = 1 /\ \A j \in DOMAIN cs : cs[j].key # k
            \/ \E j \in DOMAIN cs :
                  /\ more[i].key = cs[j].key
                  /\ more[i].count = IF cs[j].key = k THEN cs[j].count + 1 ELSE cs[j].count
      /\ \A j \in DOMAIN cs : \E i \in DOMAIN more :
            more[i] = [key |-> cs[j].key,
                       count |-> IF cs[j].key = k THEN cs[j].count + 1 ELSE cs[j].count]
      /\ (\A j \in DOMAIN cs : cs[j].key # k) =>
            \E i \in DOMAIN more : more[i] = [key |-> k, count |-> 1]
  BY <1>2, IncrementedEntries
<1> HIDE DEF more
<1>6. Observed(t, a, more)
  <2>1. ASSUME NEW i \in DOMAIN more
        PROVE  more[i].key \in Successors(t, a) /\ more[i].count <= Pairs(t, a, more[i].key)
    <3>1. CASE more[i].key = k /\ more[i].count = 1
      BY <1>1, <3>1
    <3>2. CASE \E j \in DOMAIN cs :
                  /\ more[i].key = cs[j].key
                  /\ more[i].count = IF cs[j].key = k THEN cs[j].count + 1 ELSE cs[j].count
      <4>1. PICK j \in DOMAIN cs :
                  /\ more[i].key = cs[j].key
                  /\ more[i].count = IF cs[j].key = k THEN cs[j].count + 1 ELSE cs[j].count
        BY <3>2
      <4>2. /\ cs[j].key \in Successors(rs, a) /\ cs[j].count <= Pairs(rs, a, cs[j].key)
            /\ cs[j].count \in Nat /\ Pairs(rs, a, cs[j].key) \in Nat
            /\ Pairs(t, a, cs[j].key) =
                  IF cs[j].key = k THEN Pairs(rs, a, cs[j].key) + 1 ELSE Pairs(rs, a, cs[j].key)
        BY <1>1, <1>3
      <4> QED BY <1>1, <4>1, <4>2
    <3> QED BY <1>5, <3>1, <3>2
  <2> QED BY <1>5, <2>1 DEF Observed
<1>7. /\ c2 \in Seq(Candidate)
      /\ \A i, j \in DOMAIN c2 : c2[i].key = c2[j].key => i = j
      /\ \A i \in DOMAIN c2 : \E j \in DOMAIN more : c2[i] = more[j]
      /\ Len(more) <= maxCandidatesPerKey => c2 = more
  BY <1>5, BoundedEntries
<1> HIDE DEF c2
<1>8. Observed(t, a, c2)
  BY <1>6, <1>7 DEF Observed
<1>9. ASSUME Complete(rs, a, cs), Cardinality(Successors(t, a)) <= maxCandidatesPerKey
      PROVE  Complete(t, a, c2)
  <2>1. ASSUME NEW b \in Successors(t, a)
        PROVE  \E i \in DOMAIN more : more[i] = [key |-> b, count |-> Pairs(t, a, b)]
    <3>1. CASE b \in Successors(rs, a)
      <4>1. PICK j \in DOMAIN cs : cs[j] = [key |-> b, count |-> Pairs(rs, a, b)]
        BY <1>9, <3>1 DEF Complete
      <4>2. cs[j].key = b /\ cs[j].count = Pairs(rs, a, b)
        BY <4>1
      <4>3. (IF cs[j].key = k THEN cs[j].count + 1 ELSE cs[j].count) = Pairs(t, a, b)
        BY <1>1, <4>2
      <4> QED BY <1>5, <4>2, <4>3
    <3>2. CASE b \notin Successors(rs, a)
      <4>1. b = k /\ k \notin Successors(rs, a)
        BY <1>1, <3>2
      <4>2. Pairs(rs, a, k) = 0
        BY <1>1, <4>1 DEF Successors
      <4>3. \A j \in DOMAIN cs : cs[j].key # k
        BY <1>3, <4>1
      <4>4. Pairs(t, a, b) = 1
        BY <1>1, <4>1, <4>2
      <4> QED BY <1>5, <4>1, <4>3, <4>4
    <3> QED BY <3>1, <3>2
  <2>2. Complete(t, a, more)
    BY <2>1 DEF Complete
  <2>3. Len(more) = Cardinality(Successors(t, a))
    BY <1>4, <1>5, <1>6, <2>2, ObservedLength
  <2> QED BY <1>7, <1>9, <2>2, <2>3
<1> QED BY <1>8, <1>9 DEF t, a, c2, more

(* Reading a key after another one leaves the table faithful. *)
LEMMA FaithfulAppend ==
    ASSUME NEW rs \in Seq(Keys), NEW k \in Keys, rs # <<>>, rs[Len(rs)] # k,
           NEW ts \in Seq(Transition), Len(ts) <= maxTrackedKeys, Faithful(rs, ts)
    PROVE  LET a == rs[Len(rs)]
               t1 == WithFrom(ts, a)
               at == FromIndex(t1, a)
           IN Faithful(Append(rs, k),
                       [t1 EXCEPT ![at].candidates = Bounded(Incremented(t1[at].candidates, k))])
<1> USE AccessPredictorAssumption
<1> DEFINE t == Append(rs, k)
           a == rs[Len(rs)]
           t1 == WithFrom(ts, a)
           at == FromIndex(t1, a)
           old == t1[at].candidates
           cs == Bounded(Incremented(old, k))
           t2 == [t1 EXCEPT ![at].candidates = cs]
<1>1. /\ a \in Keys /\ a # k
      /\ \A c, b : Pairs(t, c, b) = IF c = a /\ b = k THEN Pairs(rs, c, b) + 1 ELSE Pairs(rs, c, b)
      /\ Successors(t, a) = Successors(rs, a) \cup {k}
      /\ \A c \in Keys \ {a} : Successors(t, c) = Successors(rs, c)
      /\ Sources(t) = Sources(rs) \cup {a}
  BY SuccessorsAppend
<1>2. /\ \A i, j \in DOMAIN ts : ts[i].from = ts[j].from => i = j
      /\ \A i \in DOMAIN ts : ts[i].from \in Sources(rs) /\ Observed(rs, ts[i].from, ts[i].candidates)
      /\ IsFiniteSet(Sources(rs)) /\ \A c \in Keys : IsFiniteSet(Successors(rs, c))
  BY DEF Faithful
<1>3. /\ at \in DOMAIN t1 /\ t1[at].from = a
      /\ \A i, j \in DOMAIN t1 : t1[i].from = t1[j].from => i = j
      /\ \A i \in DOMAIN t1 : i # at => \E l \in DOMAIN ts : t1[i] = ts[l]
      /\ a \in Froms(ts) => \E l \in DOMAIN ts : t1[at] = ts[l]
      /\ a \notin Froms(ts) => t1[at].candidates = <<>>
      /\ (a \in Froms(ts) \/ Len(ts) < maxTrackedKeys) => Froms(ts) \subseteq Froms(t1)
  <2> HIDE DEF a
  <2> QED BY <1>1, <1>2, WithFromEntries
<1>4. t1 \in Seq(Transition)
  <2> HIDE DEF a
  <2>1. CASE a \in Froms(ts)
    BY <2>1 DEF WithFrom
  <2>2. CASE a \notin Froms(ts)
    <3>1. [from |-> a, candidates |-> <<>>] \in Transition
      BY <1>1 DEF Transition
    <3>2. ts \in Seq(Transition) /\ (Len(ts) >= maxTrackedKeys => Tail(ts) \in Seq(Transition))
      OBVIOUS
    <3> QED BY <2>2, <3>1, <3>2 DEF WithFrom
  <2> QED BY <2>1, <2>2
<1>5. \A i \in DOMAIN t1 : t1[i] \in Transition /\ t1[i].candidates \in Seq(Candidate)
  <2> HIDE DEF t1
  <2>1. \A i \in DOMAIN t1 : t1[i] \in Transition
    BY <1>4
  <2> QED BY <2>1 DEF Transition
<1> HIDE DEF a, t, t1, at
<1>6. Observed(rs, a, old) /\ old \in Seq(Candidate)
  <2>1. CASE a \in Froms(ts)
    <3>1. PICK l \in DOMAIN ts : t1[at] = ts[l]
      BY <1>3, <2>1
    <3> QED BY <1>2, <1>3, <1>5, <3>1
  <2>2. CASE a \notin Froms(ts)
    <3>1. old = <<>>
      BY <1>3, <2>2
    <3> HIDE DEF old
    <3> QED BY <3>1 DEF Observed
  <2> QED BY <2>1, <2>2
<1> HIDE DEF old
<1>7. /\ Observed(t, a, cs)
      /\ Complete(rs, a, old) /\ Cardinality(Successors(t, a)) <= maxCandidatesPerKey => Complete(t, a, cs)
  BY <1>1, <1>2, <1>6, CandidatesAppend DEF a, t
<1> HIDE DEF cs
<1> DEFINE e == [t1[at] EXCEPT !.candidates = cs]
<1>8. t2 = [t1 EXCEPT ![at] = e] /\ e.from = a /\ e.candidates = cs
  BY <1>3, <1>5 DEF Transition
<1> HIDE DEF e
<1>9. DOMAIN t2 = DOMAIN t1 /\ t2[at] = e /\ \A i \in DOMAIN t1 : i # at => t2[i] = t1[i]
  <2> HIDE DEF t2
  <2> QED BY <1>3, <1>8
<1> HIDE DEF t2
<1>10. \A i \in DOMAIN t1 : t2[i].from = t1[i].from
  BY <1>3, <1>8, <1>9
<1>11. \A i, j \in DOMAIN t2 : t2[i].from = t2[j].from => i = j
  BY <1>3, <1>9, <1>10
<1>12. ASSUME NEW i \in DOMAIN t2, i # at
       PROVE  \E l \in DOMAIN ts : /\ t2[i] = ts[l] /\ ts[l].from \in Keys \ {a} /\ ts[l].from \in Sources(rs)
  <2>1. PICK l \in DOMAIN ts : t2[i] = ts[l]
    BY <1>3, <1>9, <1>12
  <2>2. t2[i].from # a
    BY <1>3, <1>9, <1>10, <1>12
  <2>3. ts[l].from \in Sources(rs)
    BY <1>2
  <2> QED BY <2>1, <2>2, <2>3 DEF Sources
<1>13. ASSUME NEW c \in Keys \ {a}, NEW ds
       PROVE  (Observed(rs, c, ds) => Observed(t, c, ds)) /\ (Complete(rs, c, ds) => Complete(t, c, ds))
  <2>1. Successors(t, c) = Successors(rs, c) /\ \A b : Pairs(t, c, b) = Pairs(rs, c, b)
    BY <1>1
  <2> QED BY <2>1 DEF Observed, Complete
<1>14. ASSUME NEW i \in DOMAIN t2
       PROVE  t2[i].from \in Sources(t) /\ Observed(t, t2[i].from, t2[i].candidates)
  <2>1. CASE i = at
    BY <1>1, <1>7, <1>8, <1>9, <2>1
  <2>2. CASE i # at
    <3>1. PICK l \in DOMAIN ts : t2[i] = ts[l] /\ ts[l].from \in Keys \ {a} /\ ts[l].from \in Sources(rs)
      BY <1>12, <2>2
    <3>2. Observed(rs, ts[l].from, ts[l].candidates)
      BY <1>2
    <3>3. Observed(t, ts[l].from, ts[l].candidates)
      BY <1>13, <3>1, <3>2
    <3> QED BY <1>1, <3>1, <3>3
  <2> QED BY <2>1, <2>2
<1>15. IsFiniteSet(Sources(t)) /\ \A c \in Keys : IsFiniteSet(Successors(t, c))
  <2>1. IsFiniteSet(Sources(rs) \cup {a}) /\ IsFiniteSet(Successors(rs, a) \cup {k})
    BY <1>1, <1>2, FS_AddElement
  <2> QED BY <1>1, <1>2, <2>1
<1>16. ASSUME Cardinality(Sources(t)) <= maxTrackedKeys
       PROVE  /\ Sources(t) \subseteq Froms(t2)
              /\ \A i \in DOMAIN t2 :
                    Cardinality(Successors(t, t2[i].from)) <= maxCandidatesPerKey =>
                        Complete(t, t2[i].from, t2[i].candidates)
  <2>1. Cardinality(Sources(rs)) <= maxTrackedKeys
    <3>1. Sources(rs) \in SUBSET Sources(t)
      BY <1>1
    <3>2. Cardinality(Sources(rs)) <= Cardinality(Sources(t))
      BY <1>15, <3>1, FS_Subset
    <3>3. Cardinality(Sources(rs)) \in Nat /\ Cardinality(Sources(t)) \in Nat
      BY <1>2, <1>15, FS_CardinalityType
    <3> QED BY <1>16, <3>2, <3>3
  <2>2. /\ Sources(rs) \subseteq Froms(ts)
        /\ \A i \in DOMAIN ts : Cardinality(Successors(rs, ts[i].from)) <= maxCandidatesPerKey =>
               Complete(rs, ts[i].from, ts[i].candidates)
    BY <2>1 DEF Faithful
  <2>3. a \in Froms(ts) \/ Len(ts) < maxTrackedKeys
    <3> SUFFICES ASSUME a \notin Froms(ts) PROVE Len(ts) < maxTrackedKeys
      OBVIOUS
    <3>1. \A i \in DOMAIN ts : ts[i].from \in Sources(t)
      BY <1>1, <1>2
    <3>2. a \in Sources(t)
      BY <1>1
    <3>3. Len(ts) < Cardinality(Sources(t))
      BY <1>2, <1>15, <3>1, <3>2, TableLength
    <3>4. Len(ts) \in Nat /\ Cardinality(Sources(t)) \in Nat
      BY <1>15, FS_CardinalityType
    <3> QED BY <1>16, <3>3, <3>4
  <2>4. Froms(t2) = Froms(t1)
    BY <1>9, <1>10 DEF Froms
  <2>5. a \in Froms(t1)
    BY <1>3 DEF Froms
  <2>6. Sources(t) \subseteq Froms(t2)
    BY <1>1, <1>3, <2>2, <2>3, <2>4, <2>5
  <2>7. ASSUME NEW i \in DOMAIN t2, Cardinality(Successors(t, t2[i].from)) <= maxCandidatesPerKey
        PROVE  Complete(t, t2[i].from, t2[i].candidates)
    <3>1. CASE i # at
      <4>1. PICK l \in DOMAIN ts : t2[i] = ts[l] /\ ts[l].from \in Keys \ {a} /\ ts[l].from \in Sources(rs)
        BY <1>12, <3>1
      <4>2. Successors(t, ts[l].from) = Successors(rs, ts[l].from)
        BY <1>1, <4>1
      <4>3. Complete(rs, ts[l].from, ts[l].candidates)
        BY <2>2, <2>7, <4>1, <4>2
      <4>4. Complete(t, ts[l].from, ts[l].candidates)
        BY <1>13, <4>1, <4>3
      <4> QED BY <4>1, <4>4
    <3>2. CASE i = at
      <4>1. t2[i].from = a /\ t2[i].candidates = cs
        BY <1>8, <1>9, <3>2
      <4>2. Cardinality(Successors(rs, a)) <= maxCandidatesPerKey
        <5>1. Successors(rs, a) \in SUBSET Successors(t, a)
          BY <1>1
        <5>2. IsFiniteSet(Successors(t, a)) /\ IsFiniteSet(Successors(rs, a))
          BY <1>1, <1>2, <1>15
        <5>3. /\ Cardinality(Successors(rs, a)) <= Cardinality(Successors(t, a))
              /\ Cardinality(Successors(rs, a)) \in Nat /\ Cardinality(Successors(t, a)) \in Nat
          BY <5>1, <5>2, FS_Subset, FS_CardinalityType
        <5> QED BY <2>7, <4>1, <5>3
      <4>3. Complete(rs, a, old)
        <5>1. CASE a \in Froms(ts)
          <6>1. PICK l \in DOMAIN ts : t1[at] = ts[l]
            BY <1>3, <5>1
          <6> QED BY <1>3, <2>2, <4>2, <6>1 DEF old
        <5>2. CASE a \notin Froms(ts)
          <6>1. a \notin Sources(rs)
            BY <2>2, <5>2
          <6>2. Successors(rs, a) = {}
            BY <1>1, <6>1 DEF Sources
          <6> QED BY <6>2 DEF Complete
        <5> QED BY <5>1, <5>2
      <4> QED BY <1>7, <2>7, <4>1, <4>3
    <3> QED BY <3>1, <3>2
  <2> QED BY <2>6, <2>7
<1>17. Faithful(t, t2)
  BY <1>11, <1>14, <1>15, <1>16 DEF Faithful
<1> QED BY <1>17 DEF t, t2, cs, old, at, t1, a

(* A step keeps the table faithful: a read of a key after another one is    *)
(* one more pair of the two, and every other request leaves the reads and   *)
(* the table alone.                                                         *)
LEMMA ObservedNext ==
    ASSUME PredictorInv, ObservedInv, [Next]_vars
    PROVE  ObservedInv'
<1> USE AccessPredictorAssumption, NodeApiAssumption
<1>1. ASSUME NEW k \in Keys, predictor' = recordAccess(predictor, k), reads' = Append(reads, k)
      PROVE  ObservedInv'
  <2> DEFINE last == predictor.lastKey
             ts == predictor.transitions
  <2>1. /\ reads \in Seq(Keys) /\ last = IF reads = <<>> THEN NoKey ELSE reads[Len(reads)]
        /\ Faithful(reads, ts) /\ ts \in Seq(Transition) /\ Len(ts) <= maxTrackedKeys
    BY DEF PredictorInv, ObservedInv
  <2>2. /\ reads' \in Seq(Keys) /\ reads' # <<>> /\ reads'[Len(reads')] = k
    BY <1>1, <2>1
  <2>3. reads # <<>> => reads[Len(reads)] \in Keys
    BY <2>1, EmptySeq
  <2>4. predictor'.lastKey = k
    BY <1>1 DEF recordAccess
  <2>5. CASE last \in {NoKey, k}
    <3>1. predictor'.transitions = ts
      BY <1>1, <2>5 DEF recordAccess
    <3>2. reads = <<>> \/ reads[Len(reads)] = k
      BY <2>1, <2>3, <2>5
    <3> HIDE DEF last, ts
    <3>3. Faithful(Append(reads, k), ts)
      BY <2>1, <3>2, FaithfulRepeat
    <3> QED BY <1>1, <2>2, <2>4, <3>1, <3>3 DEF ObservedInv
  <2>6. CASE last \notin {NoKey, k}
    <3> DEFINE t1 == WithFrom(ts, last)
               at == FromIndex(t1, last)
               t2 == [t1 EXCEPT ![at].candidates = Bounded(Incremented(t1[at].candidates, k))]
    <3>1. predictor'.transitions = t2
      BY <1>1, <2>6 DEF recordAccess
    <3>2. reads # <<>> /\ last = reads[Len(reads)] /\ reads[Len(reads)] # k
      BY <2>1, <2>6
    <3>3. Faithful(Append(reads, k), t2)
      <4> HIDE DEF ts, last
      <4> QED BY <2>1, <3>2, FaithfulAppend
    <3> HIDE DEF t2
    <3> QED BY <1>1, <2>2, <2>4, <3>1, <3>3 DEF ObservedInv
  <2> QED BY <2>5, <2>6
<1>2. CASE UNCHANGED <<predictor, reads>>
  BY <1>2 DEF ObservedInv
<1>3. \/ UNCHANGED <<predictor, reads>>
      \/ \E k \in Keys : predictor' = recordAccess(predictor, k) /\ reads' = Append(reads, k)
  BY DEF Next, Arrival, Refused, LetIn, Route, Read, vars, apiVars, history, Tick, Throttled,
         Unauthorised, Authorised, Unrecorded, Get, Set, Delete
<1> QED BY <1>1, <1>2, <1>3

(* What predict() answers are the first of the candidates in the order of   *)
(* their counts, none of them twice.                                        *)
LEMMA PredictAnswers ==
    ASSUME NEW p, NEW from, NEW n \in Nat, Candidates(p, from) \in Seq(Candidate)
    PROVE  LET cs == Candidates(p, from)
               answer == predict(p, from, n)
           IN \E f : /\ Len(answer) = (IF n < Len(cs) THEN n ELSE Len(cs))
                     /\ \A j \in DOMAIN cs, i \in DOMAIN answer :
                            cs[j].count > answer[i].count => \E h \in DOMAIN answer : answer[h] = cs[j]
                     /\ \A i \in DOMAIN answer : f[i] \in DOMAIN cs /\ answer[i] = cs[f[i]]
                     /\ \A i, j \in DOMAIN answer : i < j =>
                            f[i] # f[j] /\ answer[i].count >= answer[j].count
<1> DEFINE cs == Candidates(p, from)
           answer == predict(p, from, n)
           m == Len(cs)
           I == DOMAIN cs
           lt == {q \in I \X I : \/ cs[q[1]].count > cs[q[2]].count
                                 \/ cs[q[1]].count = cs[q[2]].count /\ q[1] < q[2]}
           f == InOrder(I, lt)
           k == IF n < m THEN n ELSE m
<1>1. m \in Nat /\ I = 1 .. m
  OBVIOUS
<1>2. \A i \in I : cs[i].count \in Nat
  <2>1. cs \in Seq(Candidate)
    OBVIOUS
  <2> HIDE DEF cs
  <2>2. \A i \in I : cs[i] \in Candidate
    BY <2>1
  <2> QED BY <2>2 DEF Candidate
<1>3. answer = [r \in 1 .. k |-> cs[f[r]]]
  BY DEF predict
<1>4. IsFiniteSet(I) /\ Cardinality(I) = m
  <2> HIDE DEF m, I
  <2>1. 1 \in Int /\ m \in Int
    BY <1>1
  <2>2. IsFiniteSet(1 .. m) /\ Cardinality(1 .. m) = IF 1 > m THEN 0 ELSE m - 1 + 1
    BY <2>1, FS_Interval
  <2> QED BY <1>1, <2>2
<1> HIDE DEF answer, cs, m
<1>5. \A i, j \in I : <<i, j>> \in lt <=>
          cs[i].count > cs[j].count \/ (cs[i].count = cs[j].count /\ i < j)
  OBVIOUS
<1> HIDE DEF lt, I
<1>6. /\ \A i \in I : <<i, i>> \notin lt
      /\ \A i, j, l \in I : <<i, j>> \in lt /\ <<j, l>> \in lt => <<i, l>> \in lt
      /\ \A i, j \in I : i # j => <<i, j>> \in lt \/ <<j, i>> \in lt
  <2>1. \A i \in I : i \in Nat /\ cs[i].count \in Nat
    BY <1>1, <1>2
  <2>2. \A i \in I : <<i, i>> \notin lt
    BY <1>5, <2>1
  <2>3. ASSUME NEW i \in I, NEW j \in I, NEW l \in I, <<i, j>> \in lt, <<j, l>> \in lt
        PROVE  <<i, l>> \in lt
    <3>1. cs[i].count > cs[l].count \/ (cs[i].count = cs[l].count /\ i < l)
      BY <1>5, <2>1, <2>3
    <3> QED BY <1>5, <3>1
  <2>4. ASSUME NEW i \in I, NEW j \in I, i # j PROVE <<i, j>> \in lt \/ <<j, i>> \in lt
    BY <1>5, <2>1, <2>4
  <2> QED BY <2>2, <2>3, <2>4
<1>7. /\ f \in [1 .. m -> I]
      /\ \A j \in I : \E r \in 1 .. m : f[r] = j
      /\ \A a, b \in 1 .. m : a < b => <<f[a], f[b]>> \in lt
  BY <1>4, <1>6, InOrderLists
<1> HIDE DEF f
<1>8. DOMAIN answer = 1 .. k /\ k \in Nat /\ \A i \in 1 .. k : i \in 1 .. m
  BY <1>1, <1>3
<1>9. \A i \in DOMAIN answer : f[i] \in I /\ answer[i] = cs[f[i]]
  BY <1>3, <1>7, <1>8
<1>10. \A i, j \in DOMAIN answer : i < j => f[i] # f[j] /\ answer[i].count >= answer[j].count
  <2> SUFFICES ASSUME NEW i \in DOMAIN answer, NEW j \in DOMAIN answer, i < j
               PROVE  f[i] # f[j] /\ answer[i].count >= answer[j].count
    OBVIOUS
  <2>1. f[i] \in I /\ f[j] \in I /\ <<f[i], f[j]>> \in lt
    BY <1>7, <1>8
  <2>2. f[i] # f[j]
    BY <1>6, <2>1
  <2>3. cs[f[i]].count >= cs[f[j]].count
    BY <1>2, <1>5, <2>1
  <2> QED BY <1>9, <2>2, <2>3
<1>11. Len(answer) = k
  <2> HIDE DEF k
  <2>1. answer \in Seq({cs[f[r]] : r \in 1 .. k})
    BY <1>3, <1>8
  <2> QED BY <1>8, <2>1
<1>12. ASSUME NEW j \in I, NEW i \in DOMAIN answer, cs[j].count > answer[i].count
       PROVE  \E h \in DOMAIN answer : answer[h] = cs[j]
  <2>1. PICK r \in 1 .. m : f[r] = j
    BY <1>7
  <2>2. i \in 1 .. k /\ i \in 1 .. m /\ f[i] \in I /\ answer[i] = cs[f[i]]
    BY <1>8, <1>9
  <2>3. ~(i < r)
    <3> SUFFICES ASSUME i < r PROVE FALSE
      OBVIOUS
    <3>1. <<f[i], f[r]>> \in lt
      BY <1>7, <2>2
    <3>2. cs[f[i]].count >= cs[j].count
      BY <1>2, <1>5, <2>1, <2>2, <3>1
    <3> QED BY <1>2, <1>12, <2>2, <3>2
  <2>4. r = i \/ r < i
    BY <2>2, <2>3
  <2>5. r \in 1 .. k
    BY <1>8, <2>2, <2>4
  <2> QED BY <1>9, <1>8, <2>1, <2>5
<1> QED BY <1>9, <1>10, <1>11, <1>12 DEF answer, cs, I, k, m

(* The candidates of a key are what its entry holds. *)
LEMMA CandidatesObserved ==
    ASSUME PredictorInv, ObservedInv, NEW from \in Keys
    PROVE  LET cs == Candidates(predictor, from) IN
           /\ cs \in Seq(Candidate) /\ Observed(reads, from, cs)
           /\ IsFiniteSet(Successors(reads, from))
           /\ /\ Cardinality(Sources(reads)) <= maxTrackedKeys
              /\ Cardinality(Successors(reads, from)) <= maxCandidatesPerKey
              => Complete(reads, from, cs)
<1> DEFINE ts == predictor.transitions
           cs == Candidates(predictor, from)
           at == FromIndex(ts, from)
<1>1. \A i \in DOMAIN ts : ts[i].candidates \in Seq(Candidate)
  <2>1. ts \in Seq(Transition)
    BY DEF PredictorInv
  <2>2. \A i \in DOMAIN ts : ts[i] \in Transition
    BY <2>1
  <2> QED BY <2>2 DEF Transition
<1>2. Faithful(reads, ts)
  BY DEF ObservedInv
<1>3. CASE from \in Froms(ts)
  <2>1. cs = ts[at].candidates
    BY <1>3 DEF Candidates
  <2>2. at \in DOMAIN ts /\ ts[at].from = from
    BY <1>3 DEF FromIndex, Froms
  <2> HIDE DEF at, ts, cs
  <2> QED BY <1>1, <1>2, <2>1, <2>2 DEF Faithful, cs
<1>4. CASE from \notin Froms(ts)
  <2>1. cs = <<>>
    BY <1>4 DEF Candidates
  <2> HIDE DEF ts, cs
  <2>2. cs \in Seq(Candidate) /\ Observed(reads, from, cs)
    BY <2>1 DEF Observed
  <2>3. IsFiniteSet(Successors(reads, from))
    BY <1>2 DEF Faithful
  <2>4. Cardinality(Sources(reads)) <= maxTrackedKeys => Successors(reads, from) = {}
    BY <1>2, <1>4 DEF Faithful, Sources
  <2>5. Cardinality(Sources(reads)) <= maxTrackedKeys => Complete(reads, from, cs)
    BY <2>4 DEF Complete
  <2> QED BY <2>2, <2>3, <2>5 DEF cs
<1> QED BY <1>3, <1>4

(* PREDICTIONS ARE OBSERVED (access-predictor.ts): what predict() answers   *)
(* was read after the key at least as often as it says, the most frequent   *)
(* of the candidates in order and none twice, for any number of them; as    *)
(* long as no more keys had a successor than the table holds, and the key   *)
(* no more successors than an entry holds, every successor is there with    *)
(* its exact count.  For any keys, reads and sizes of the tables.           *)
THEOREM PredictionsObserved == Spec => []PredictionsAreObserved
<1> USE AccessPredictorAssumption, NodeApiAssumption
<1>1. HistoryInit => PredictorInv /\ ObservedInv
  <2> SUFFICES ASSUME HistoryInit PROVE PredictorInv /\ ObservedInv
    OBVIOUS
  <2>1. predictor = [lastKey |-> NoKey, transitions |-> <<>>] /\ reads = <<>>
    BY DEF HistoryInit, Init, NewPredictor
  <2>2. PredictorInv
    BY <2>1 DEF PredictorInv
  <2>3. \A a : Successors(reads, a) = {}
    <3>1. Len(reads) - 1 = -1 /\ 1 .. -1 = {}
      BY <2>1
    <3>2. \A a, b : {i \in 1 .. Len(reads) - 1 : reads[i] = a /\ reads[i + 1] = b} = {}
      BY <3>1
    <3>3. \A a, b : Pairs(reads, a, b) = 0
      <4> SUFFICES ASSUME NEW a, NEW b PROVE Pairs(reads, a, b) = 0
        OBVIOUS
      <4>1. Pairs(reads, a, b) = Cardinality({})
        BY Zenon, <3>2 DEF Pairs
      <4> QED BY <4>1, FS_EmptySet
    <3> QED BY <3>3 DEF Successors
  <2>4. Sources(reads) = {}
    BY <2>3 DEF Sources
  <2>5. Faithful(reads, <<>>)
    BY <2>3, <2>4, FS_EmptySet DEF Faithful
  <2>6. ObservedInv
    BY <2>1, <2>5 DEF ObservedInv
  <2> QED BY <2>2, <2>6
<1>2. PredictorInv /\ ObservedInv /\ [Next]_vars => (PredictorInv /\ ObservedInv)'
  BY PredictorNext, ObservedNext
<1>3. PredictorInv /\ ObservedInv => PredictionsAreObserved
  <2> SUFFICES ASSUME PredictorInv, ObservedInv, NEW from \in Keys, NEW topN \in 1 .. MaxTop
               PROVE  LET answer == Prediction(from, topN)
                          known == Candidates(predictor, from)
                          successors(k) == {s \in Keys \ {k} : Followed(k, s) > 0}
                          followed == {k \in Keys : successors(k) # {}}
                      IN /\ Len(answer) = IF topN < Len(known) THEN topN ELSE Len(known)
                         /\ \A i \in DOMAIN answer :
                               /\ answer[i].count <= Followed(from, answer[i].key)
                               /\ \E j \in DOMAIN known : answer[i] = known[j]
                         /\ \A i, j \in DOMAIN answer : i < j =>
                               answer[i].count >= answer[j].count /\ answer[i].key # answer[j].key
                         /\ \A j \in DOMAIN known : \A i \in DOMAIN answer :
                               known[j].count > answer[i].count =>
                                   \E h \in DOMAIN answer : answer[h] = known[j]
                         /\ Cardinality(followed) <= maxTrackedKeys
                            /\ Cardinality(successors(from)) <= maxCandidatesPerKey
                            => /\ \A s \in successors(from) : \E i \in DOMAIN known :
                                     known[i] = [key |-> s, count |-> Followed(from, s)]
                               /\ Len(known) = Cardinality(successors(from))
    BY DEF PredictionsAreObserved
  <2> DEFINE answer == Prediction(from, topN)
             cs == Candidates(predictor, from)
             successors(k) == {s \in Keys \ {k} : Followed(k, s) > 0}
             followed == {k \in Keys : successors(k) # {}}
  <2>1. /\ cs \in Seq(Candidate) /\ Observed(reads, from, cs)
        /\ IsFiniteSet(Successors(reads, from))
        /\ /\ Cardinality(Sources(reads)) <= maxTrackedKeys
           /\ Cardinality(Successors(reads, from)) <= maxCandidatesPerKey
           => Complete(reads, from, cs)
    BY CandidatesObserved
  <2>2. \A a, b : Followed(a, b) = Pairs(reads, a, b)
    BY DEF Followed, Pairs
  <2>3. PICK f : /\ Len(answer) = (IF topN < Len(cs) THEN topN ELSE Len(cs))
                 /\ \A j \in DOMAIN cs, i \in DOMAIN answer :
                       cs[j].count > answer[i].count => \E h \in DOMAIN answer : answer[h] = cs[j]
                 /\ \A i \in DOMAIN answer : f[i] \in DOMAIN cs /\ answer[i] = cs[f[i]]
                 /\ \A i, j \in DOMAIN answer : i < j => f[i] # f[j] /\ answer[i].count >= answer[j].count
    <3>1. topN \in Nat
      OBVIOUS
    <3> QED BY <2>1, <3>1, PredictAnswers DEF Prediction
  <2>4. \A k : successors(k) = Successors(reads, k)
    BY <2>2 DEF Successors
  <2>5. followed = Sources(reads)
    BY <2>4 DEF Sources
  <2> HIDE DEF answer, cs, successors, followed
  <2>6. \A i \in DOMAIN answer :
           /\ answer[i].count <= Followed(from, answer[i].key)
           /\ \E j \in DOMAIN cs : answer[i] = cs[j]
    <3>1. \A i \in DOMAIN answer : answer[i].count <= Followed(from, answer[i].key)
      BY <2>1, <2>2, <2>3 DEF Observed
    <3>2. \A i \in DOMAIN answer : \E j \in DOMAIN cs : answer[i] = cs[j]
      BY <2>3
    <3> QED BY <3>1, <3>2
  <2>7. \A i, j \in DOMAIN answer : i < j => answer[i].count >= answer[j].count /\ answer[i].key # answer[j].key
    <3> SUFFICES ASSUME NEW i \in DOMAIN answer, NEW j \in DOMAIN answer, i < j
                 PROVE  answer[i].count >= answer[j].count /\ answer[i].key # answer[j].key
      OBVIOUS
    <3>1. f[i] # f[j] /\ answer[i].count >= answer[j].count
      BY <2>3
    <3>2. /\ f[i] \in DOMAIN cs /\ answer[i] = cs[f[i]]
          /\ f[j] \in DOMAIN cs /\ answer[j] = cs[f[j]]
      BY <2>3
    <3>3. \A a, b \in DOMAIN cs : cs[a].key = cs[b].key => a = b
      BY <2>1 DEF Observed
    <3> QED BY <3>1, <3>2, <3>3
  <2>8. ASSUME Cardinality(followed) <= maxTrackedKeys, Cardinality(successors(from)) <= maxCandidatesPerKey
        PROVE  /\ \A s \in successors(from) : \E i \in DOMAIN cs : cs[i] = [key |-> s, count |-> Followed(from, s)]
               /\ Len(cs) = Cardinality(successors(from))
    <3>1. Complete(reads, from, cs)
      BY <2>1, <2>4, <2>5, <2>8
    <3>2. Len(cs) = Cardinality(Successors(reads, from))
      BY <2>1, <3>1, ObservedLength
    <3> QED BY <2>2, <2>4, <3>1, <3>2 DEF Complete
  <2> QED BY <2>3, <2>6, <2>7, <2>8 DEF answer, cs, successors, followed
<1> QED BY <1>1, <1>2, <1>3, PTL DEF Spec

-----------------------------------------------------------------------------
(* The samples of a sequence of operations, and sums. *)

Operations == [at : Nat, op : {"get", "set", "delete"}]

(* A sum is where the running sums of the sequence end.                     *)
LEMMA RunningSums ==
    ASSUME NEW s \in Seq(Nat)
    PROVE  \E f \in [0 .. Len(s) -> Nat] :
               /\ f[0] = 0 /\ \A i \in 1 .. Len(s) : f[i] = f[i - 1] + s[i]
               /\ Total(s) = f[Len(s)]
<1> DEFINE n == Len(s)
           Sums(k, f) == f = [i \in 0 .. k |-> IF i = 0 THEN 0 ELSE f[i - 1] + s[i]]
           T == {k \in Nat : k <= n => \E f : Sums(k, f)}
<1>1. n \in Nat /\ \A i \in 1 .. n : s[i] \in Nat
  OBVIOUS
<1> HIDE DEF n
<1>2. 0 \in T
  <2> DEFINE f == [i \in 0 .. 0 |-> 0]
  <2>1. Sums(0, f)
    <3>1. \A i \in 0 .. 0 : i = 0
      OBVIOUS
    <3>2. [i \in 0 .. 0 |-> IF i = 0 THEN 0 ELSE f[i - 1] + s[i]] = [i \in 0 .. 0 |-> 0]
      BY <3>1
    <3> QED BY <3>2
  <2> HIDE DEF f
  <2> QED BY <2>1
<1>3. ASSUME NEW k \in Nat, k \in T PROVE k + 1 \in T
  <2> SUFFICES ASSUME k + 1 <= n PROVE \E g : Sums(k + 1, g)
    <3> HIDE DEF Sums
    <3> QED OBVIOUS
  <2>1. PICK f : Sums(k, f)
    BY <1>1, <1>3
  <2> DEFINE g == [i \in 0 .. k + 1 |-> IF i = k + 1 THEN f[k] + s[k + 1] ELSE f[i]]
  <2>2. ASSUME NEW i \in 0 .. k + 1 PROVE g[i] = IF i = 0 THEN 0 ELSE g[i - 1] + s[i]
    <3>1. CASE i = k + 1
      <4>1. k \in 0 .. k + 1 /\ k # k + 1 /\ i - 1 = k /\ i # 0
        BY <3>1
      <4>2. g[i - 1] = f[k] /\ g[i] = f[k] + s[k + 1]
        BY <3>1, <4>1
      <4> HIDE DEF g
      <4> QED BY <3>1, <4>1, <4>2
    <3>2. CASE i = 0
      <4>1. g[i] = f[0] /\ 0 \in 0 .. k /\ f[0] = 0
        BY <2>1, <3>2
      <4> QED BY <3>2, <4>1
    <3>3. CASE i \in 1 .. k
      <4>1. i \in 0 .. k /\ i - 1 \in 0 .. k /\ i # 0 /\ i # k + 1 /\ i - 1 # k + 1
            /\ i - 1 \in 0 .. k + 1
        BY <3>3
      <4>2. g[i] = f[i] /\ g[i - 1] = f[i - 1]
        BY <4>1
      <4>3. f[i] = f[i - 1] + s[i]
        BY <2>1, <4>1
      <4> HIDE DEF g
      <4> QED BY <4>1, <4>2, <4>3
    <3> QED BY <3>1, <3>2, <3>3
  <2>3. g = [i \in 0 .. k + 1 |-> g[i]]
    OBVIOUS
  <2> HIDE DEF g
  <2>4. Sums(k + 1, g)
    BY <2>2, <2>3, Zenon
  <2> QED BY <2>4
<1>4. \E f : Sums(n, f)
  <2> HIDE DEF T
  <2>1. n \in T
    BY <1>1, <1>2, <1>3, NatSetInduction
  <2> QED BY <1>1, <2>1 DEF T
<1> DEFINE f == CHOOSE g : Sums(n, g)
<1>5. Sums(n, f)
  <2> HIDE DEF Sums
  <2> QED BY <1>4
<1>6. Total(s) = f[n]
  BY DEF Total, n
<1> HIDE DEF f
<1>7. \A i \in 0 .. n : f[i] = IF i = 0 THEN 0 ELSE f[i - 1] + s[i]
  BY <1>5
<1>8. DOMAIN f = 0 .. n
  BY <1>5
<1>9. f[0] = 0 /\ \A i \in 1 .. n : f[i] = f[i - 1] + s[i]
  BY <1>1, <1>7
<1> DEFINE U == {k \in Nat : k <= n => f[k] \in Nat}
<1>10. 0 \in U
  BY <1>9
<1>11. ASSUME NEW k \in Nat, k \in U PROVE k + 1 \in U
  <2> SUFFICES ASSUME k + 1 <= n PROVE f[k + 1] \in Nat
    OBVIOUS
  <2>1. k + 1 \in 1 .. n /\ (k + 1) - 1 = k /\ f[k] \in Nat
    BY <1>1, <1>11
  <2>2. f[k + 1] = f[k] + s[k + 1] /\ s[k + 1] \in Nat
    BY <1>1, <1>9, <2>1
  <2> QED BY <2>1, <2>2
<1>12. \A k \in 0 .. n : f[k] \in Nat
  <2> HIDE DEF U
  <2>1. Nat \subseteq U
    BY <1>10, <1>11, NatSetInduction
  <2> QED BY <1>1, <2>1 DEF U
<1>13. f \in [0 .. n -> Nat]
  BY <1>5, <1>8, <1>12
<1> HIDE DEF Sums
<1> QED BY <1>6, <1>9, <1>13 DEF n

(* The running sums of a part of s that ends where s does, from which on s  *)
(* is at k, are those of s less what came before.                           *)
LEMMA SumsShift ==
    ASSUME NEW s \in Seq(Nat), NEW t \in Seq(Nat), NEW k \in Nat, k + Len(t) <= Len(s),
           \A i \in 1 .. Len(t) : t[i] = s[k + i],
           NEW f \in [0 .. Len(s) -> Nat], \A i \in 1 .. Len(s) : f[i] = f[i - 1] + s[i],
           NEW g \in [0 .. Len(t) -> Nat], g[0] = 0, \A i \in 1 .. Len(t) : g[i] = g[i - 1] + t[i]
    PROVE  g[Len(t)] = f[k + Len(t)] - f[k]
<1> DEFINE n == Len(t)
           m == Len(s)
           T == {i \in Nat : i <= n => g[i] = f[k + i] - f[k]}
<1>1. n \in Nat /\ m \in Nat /\ k + n <= m
  OBVIOUS
<1> HIDE DEF n, m
<1>2. 0 \in T
  <2>1. k \in 0 .. m /\ k + 0 = k
    BY <1>1
  <2>2. f[k] \in Nat
    BY <2>1 DEF m
  <2> QED BY <2>1, <2>2
<1>3. ASSUME NEW i \in Nat, i \in T PROVE i + 1 \in T
  <2> SUFFICES ASSUME i + 1 <= n PROVE g[i + 1] = f[k + (i + 1)] - f[k]
    OBVIOUS
  <2>1. /\ i + 1 \in 1 .. n /\ (i + 1) - 1 = i /\ k + (i + 1) \in 1 .. m /\ (k + (i + 1)) - 1 = k + i
        /\ k \in 0 .. m /\ k + i \in 0 .. m
    BY <1>1
  <2>2. g[i + 1] = g[i] + t[i + 1] /\ t[i + 1] = s[k + (i + 1)]
    BY <2>1 DEF n
  <2>3. f[k + (i + 1)] = f[k + i] + s[k + (i + 1)]
    BY <2>1 DEF m
  <2>4. f[k] \in Nat /\ f[k + i] \in Nat
    BY <2>1 DEF m
  <2>5. s[k + (i + 1)] \in Nat
    BY <2>1 DEF m
  <2>6. g[i] = f[k + i] - f[k]
    BY <1>1, <1>3, <2>1
  <2> HIDE DEF T
  <2> DEFINE a == f[k + (i + 1)]
             b == f[k + i]
             x == s[k + (i + 1)]
  <2>7. g[i + 1] = g[i] + x /\ a = b + x /\ g[i] = b - f[k] /\ b \in Nat /\ x \in Nat /\ f[k] \in Nat
    BY <2>2, <2>3, <2>4, <2>5, <2>6
  <2> HIDE DEF a, b, x
  <2>8. g[i + 1] = a - f[k]
    BY <2>7
  <2> QED BY <2>8 DEF a
<1>4. n \in T
  <2> HIDE DEF T
  <2> QED BY <1>1, <1>2, <1>3, NatSetInduction
<1> QED BY <1>1, <1>4 DEF n

(* The sum of nothing, of a sequence with one more number, and of one       *)
(* without its first.                                                       *)
LEMMA TotalProperties ==
    ASSUME NEW s \in Seq(Nat)
    PROVE  /\ Total(s) \in Nat
           /\ \A x \in Nat : Total(Append(s, x)) = Total(s) + x
           /\ s # <<>> => Total(Tail(s)) = Total(s) - s[1]
           /\ s = <<>> => Total(s) = 0
<1> DEFINE n == Len(s)
<1>1. n \in Nat /\ \A i \in 1 .. n : s[i] \in Nat
  OBVIOUS
<1>2. PICK f \in [0 .. n -> Nat] :
          /\ f[0] = 0 /\ \A i \in 1 .. n : f[i] = f[i - 1] + s[i]
          /\ Total(s) = f[n]
  BY RunningSums
<1>3. Total(s) \in Nat
  <2> HIDE DEF n
  <2>1. n \in 0 .. n
    BY <1>1
  <2> QED BY <1>2, <2>1
<1>4. ASSUME NEW x \in Nat PROVE Total(Append(s, x)) = Total(s) + x
  <2> DEFINE t == Append(s, x)
  <2>1. t \in Seq(Nat) /\ Len(t) = n + 1 /\ t[n + 1] = x /\ \A i \in 1 .. n : s[i] = t[0 + i]
    OBVIOUS
  <2> HIDE DEF t
  <2>2. PICK g \in [0 .. Len(t) -> Nat] :
            /\ g[0] = 0 /\ \A i \in 1 .. Len(t) : g[i] = g[i - 1] + t[i]
            /\ Total(t) = g[Len(t)]
    BY <2>1, RunningSums
  <2>3. f[n] = g[0 + n] - g[0]
    <3>1. 0 \in Nat /\ 0 + n <= Len(t)
      BY <1>1, <2>1
    <3> QED BY <1>2, <2>1, <2>2, <3>1, SumsShift
  <2> HIDE DEF n
  <2>4. n + 1 \in 1 .. Len(t) /\ (n + 1) - 1 = n /\ n \in 0 .. Len(t) /\ 0 + n = n
    BY <1>1, <2>1
  <2>5. g[n + 1] = g[n] + x /\ g[n] \in Nat
    BY <2>1, <2>2, <2>4
  <2> QED BY <1>2, <2>1, <2>2, <2>3, <2>4, <2>5 DEF t
<1>5. ASSUME s # <<>> PROVE Total(Tail(s)) = Total(s) - s[1]
  <2> DEFINE t == Tail(s)
  <2>1. t \in Seq(Nat) /\ Len(t) = n - 1 /\ n > 0 /\ \A i \in 1 .. Len(t) : t[i] = s[1 + i]
    BY <1>5
  <2> HIDE DEF t
  <2>2. PICK g \in [0 .. Len(t) -> Nat] :
            /\ g[0] = 0 /\ \A i \in 1 .. Len(t) : g[i] = g[i - 1] + t[i]
            /\ Total(t) = g[Len(t)]
    BY <2>1, RunningSums
  <2>3. g[Len(t)] = f[1 + Len(t)] - f[1]
    <3>1. 1 \in Nat /\ 1 + Len(t) <= Len(s)
      BY <1>1, <2>1
    <3> QED BY <1>2, <2>1, <2>2, <3>1, SumsShift
  <2> HIDE DEF n
  <2>4. 1 \in 1 .. n /\ 1 - 1 = 0 /\ 1 + Len(t) = n
    BY <1>1, <2>1
  <2>5. f[1] = s[1] /\ s[1] \in Nat
    <3>1. f[1] = f[1 - 1] + s[1] /\ s[1] \in Nat
      BY <1>1, <1>2, <2>4
    <3> QED BY <1>2, <2>4, <3>1
  <2> QED BY <1>2, <2>2, <2>3, <2>4, <2>5 DEF t
<1>6. ASSUME s = <<>> PROVE Total(s) = 0
  BY <1>2, <1>6
<1> QED BY <1>3, <1>4, <1>5, <1>6

(* What the samples are, and how one more operation changes them.           *)
LEMMA SamplesProperties ==
    ASSUME NEW ops \in Seq(Operations)
    PROVE  LET n == IF Len(ops) > LATENCY_SAMPLE_CAP THEN LATENCY_SAMPLE_CAP ELSE Len(ops)
           IN /\ Samples(ops) \in Seq(Nat) /\ Len(Samples(ops)) = n
              /\ \A i \in 1 .. n : Samples(ops)[i] = latencyUs[ops[Len(ops) - n + i].op]
<1> USE MetricsAssumption, NodeApiAssumption
<1> DEFINE c == LATENCY_SAMPLE_CAP
           n == IF Len(ops) > LATENCY_SAMPLE_CAP THEN LATENCY_SAMPLE_CAP ELSE Len(ops)
           older == IF Len(ops) > LATENCY_SAMPLE_CAP THEN Len(ops) - LATENCY_SAMPLE_CAP ELSE 0
           t == [i \in 1 .. Len(ops) - older |-> latencyUs[ops[older + i].op]]
<1>1. Samples(ops) = t
  BY DEF Samples
<1>2. n \in Nat /\ older \in Nat /\ Len(ops) - older = n /\ older = Len(ops) - n /\ n <= Len(ops)
  OBVIOUS
<1>3. \A i \in 1 .. n : older + i \in 1 .. Len(ops)
  BY <1>2
<1>4. \A i \in 1 .. Len(ops) : latencyUs[ops[i].op] \in Nat
  <2>1. \A i \in 1 .. Len(ops) : ops[i] \in Operations
    OBVIOUS
  <2> QED BY <2>1 DEF Operations
<1> HIDE DEF n, older
<1>5. t = [i \in 1 .. n |-> latencyUs[ops[older + i].op]]
  BY <1>2
<1> HIDE DEF t
<1>6. \A i \in 1 .. n : t[i] = latencyUs[ops[older + i].op] /\ t[i] \in Nat
  BY <1>3, <1>4, <1>5
<1>7. t \in [1 .. n -> Nat]
  BY <1>5, <1>6
<1>8. t \in Seq(Nat) /\ Len(t) = n
  BY <1>2, <1>7
<1> QED BY <1>1, <1>2, <1>6, <1>8 DEF n

(* One more operation adds its latency, in place of the oldest of them when *)
(* there are LATENCY_SAMPLE_CAP.                                            *)
LEMMA SamplesAppend ==
    ASSUME NEW ops \in Seq(Operations), NEW o \in Operations
    PROVE  LET lat == Samples(ops) IN
           Samples(Append(ops, o)) =
               Append(IF Len(lat) < LATENCY_SAMPLE_CAP THEN lat ELSE Tail(lat), latencyUs[o.op])
<1> USE MetricsAssumption
<1> DEFINE c == LATENCY_SAMPLE_CAP
           all == Append(ops, o)
           x == latencyUs[o.op]
           lat == Samples(ops)
           new == Samples(all)
           n == IF Len(ops) > LATENCY_SAMPLE_CAP THEN LATENCY_SAMPLE_CAP ELSE Len(ops)
           m == IF Len(all) > LATENCY_SAMPLE_CAP THEN LATENCY_SAMPLE_CAP ELSE Len(all)
<1>1. /\ lat \in Seq(Nat) /\ Len(lat) = n
      /\ \A i \in 1 .. n : lat[i] = latencyUs[ops[Len(ops) - n + i].op]
  BY SamplesProperties
<1>2. /\ all \in Seq(Operations) /\ Len(all) = Len(ops) + 1 /\ all[Len(ops) + 1] = o
      /\ \A i \in 1 .. Len(ops) : all[i] = ops[i]
  OBVIOUS
<1>3. /\ new \in Seq(Nat) /\ Len(new) = m
      /\ \A i \in 1 .. m : new[i] = latencyUs[all[Len(all) - m + i].op]
  <2> HIDE DEF all
  <2> QED BY <1>2, SamplesProperties
<1>4. Len(ops) \in Nat /\ c \in Nat /\ c > 0
  OBVIOUS
<1> DEFINE k == Len(ops)
<1>5. n = IF k > c THEN c ELSE k
  OBVIOUS
<1>6. m = IF k + 1 > c THEN c ELSE k + 1
  BY <1>2
<1> HIDE DEF lat, new, all, n, m, c, x
<1>7. new[m] = x /\ m > 0 /\ m \in Nat /\ n \in Nat
  <2>1. m \in Nat /\ m > 0 /\ n \in Nat
    BY <1>4, <1>5, <1>6
  <2>2. m \in 1 .. m /\ Len(all) - m + m = k + 1
    BY <1>2, <1>4, <2>1
  <2>3. new[m] = latencyUs[all[Len(all) - m + m].op]
    BY <1>3, <2>2
  <2> QED BY <1>2, <2>1, <2>2, <2>3 DEF x
<1>8. x \in Nat
  BY <1>3, <1>7
<1>9. CASE n < c
  <2>1. m = n + 1 /\ n = k /\ Len(all) - m = 0
    BY <1>2, <1>4, <1>5, <1>6, <1>9
  <2>2. \A i \in 1 .. n : new[i] = lat[i]
    <3> SUFFICES ASSUME NEW i \in 1 .. n PROVE new[i] = lat[i]
      OBVIOUS
    <3>1. i \in 1 .. m /\ Len(all) - m + i = i /\ Len(ops) - n + i = i /\ i \in 1 .. k
      BY <1>4, <2>1
    <3>2. new[i] = latencyUs[all[Len(all) - m + i].op]
      BY <1>3, <3>1
    <3>3. lat[i] = latencyUs[ops[Len(ops) - n + i].op]
      BY <1>1
    <3>4. all[i] = ops[i]
      BY <1>2, <3>1
    <3> QED BY <3>1, <3>2, <3>3, <3>4
  <2>3. new = Append(lat, x)
    BY <1>1, <1>3, <1>7, <1>8, <2>1, <2>2
  <2> QED BY <1>1, <1>9, <2>3 DEF c, lat, new, all, x
<1>10. CASE ~(n < c)
  <2>1. m = c /\ n = c /\ k >= c
    BY <1>4, <1>5, <1>6, <1>10
  <2> DEFINE t == Tail(lat)
  <2>2. t \in Seq(Nat) /\ Len(t) = c - 1 /\ \A i \in 1 .. c - 1 : t[i] = lat[i + 1]
    BY <1>1, <1>4, <2>1
  <2> HIDE DEF t
  <2>3. \A i \in 1 .. c - 1 : new[i] = t[i]
    <3> SUFFICES ASSUME NEW i \in 1 .. c - 1 PROVE new[i] = t[i]
      OBVIOUS
    <3> DEFINE j == k - c + (i + 1)
    <3>1. /\ i \in 1 .. m /\ Len(all) - m + i = j /\ i + 1 \in 1 .. n
          /\ Len(ops) - n + (i + 1) = j /\ j \in 1 .. Len(ops)
      BY <1>2, <1>4, <2>1
    <3> HIDE DEF j, k
    <3>2. new[i] = latencyUs[all[Len(all) - m + i].op]
      BY <1>3, <3>1
    <3>3. lat[i + 1] = latencyUs[ops[Len(ops) - n + (i + 1)].op]
      BY <1>1, <3>1
    <3>4. all[j] = ops[j]
      BY <1>2, <3>1
    <3> QED BY <2>2, <3>1, <3>2, <3>3, <3>4
  <2>4. new = Append(t, x)
    <3>1. new \in Seq(Nat) /\ Len(new) = c /\ new[c] = x
      BY <1>3, <1>7, <2>1
    <3>2. /\ Append(t, x) \in Seq(Nat) /\ Len(Append(t, x)) = c /\ Append(t, x)[c] = x
          /\ \A i \in 1 .. c - 1 : Append(t, x)[i] = t[i]
      BY <1>4, <1>8, <2>2
    <3>3. \A i \in 1 .. c : new[i] = Append(t, x)[i]
      <4>1. \A i \in 1 .. c : i = c \/ i \in 1 .. c - 1
        BY <1>4
      <4> QED BY <2>3, <3>1, <3>2, <4>1
    <3> QED BY <3>1, <3>2, <3>3
  <2> QED BY <1>1, <1>10, <2>4 DEF c, lat, new, all, x, t
<1> QED BY <1>9, <1>10

-----------------------------------------------------------------------------
(* The ring buffer. *)

(* Where the r-th oldest sample is. *)
Place(m, r) ==
    IF m.latencyIdx + r <= Len(m.latencies) THEN m.latencyIdx + r
    ELSE m.latencyIdx + r - Len(m.latencies)

(* The buffer holds the last samples, and their sum. *)
Ring(m, ops) ==
    /\ Len(m.latencies) = Len(Samples(ops)) /\ m.latencySum = Total(Samples(ops))
    /\ Len(m.latencies) < LATENCY_SAMPLE_CAP => m.latencyIdx = 0
    /\ \A r \in DOMAIN Samples(ops) : m.latencies[Place(m, r)] = Samples(ops)[r]

(* record() keeps it so. *)
LEMMA RingRecorded ==
    ASSUME NEW S, NEW m \in Collector(S), NEW op \in {"get", "set", "delete"}, NEW n \in Nat,
           NEW r, Recorded(m, op, latencyUs[op], n, r),
           NEW ops \in Seq(Operations), Ring(m, ops)
    PROVE  Ring(r, Append(ops, [at |-> n, op |-> op]))
<1> USE MetricsAssumption, NodeApiAssumption
<1> DEFINE c == LATENCY_SAMPLE_CAP
           x == latencyUs[op]
           o == [at |-> n, op |-> op]
           lat == Samples(ops)
           new == Samples(Append(ops, o))
           buf == m.latencies
           idx == m.latencyIdx
           L == Len(buf)
<1>1. o \in Operations /\ o.op = op
  BY DEF Operations
<1>2. lat \in Seq(Nat)
  BY SamplesProperties
<1>3. new = Append(IF Len(lat) < c THEN lat ELSE Tail(lat), x)
  <2> HIDE DEF o
  <2> QED BY <1>1, SamplesAppend
<1>3a. new \in Seq(Nat)
  <2>1. Append(ops, o) \in Seq(Operations)
    BY <1>1
  <2> HIDE DEF o
  <2> QED BY <2>1, SamplesProperties
<1>4. /\ buf \in Seq(Nat) /\ idx \in 0 .. c - 1 /\ c \in Nat /\ c > 0 /\ m.latencySum \in Int
      /\ x \in Nat
  <2>1. buf \in Seq(Nat) /\ idx \in 0 .. c - 1 /\ m.latencySum \in Int
    BY DEF Collector
  <2>2. c \in Nat /\ c > 0 /\ x \in Nat
    OBVIOUS
  <2> QED BY <2>1, <2>2
<1>5. /\ L = Len(lat) /\ m.latencySum = Total(lat) /\ (L < c => idx = 0)
      /\ \A i \in 1 .. L : buf[Place(m, i)] = lat[i]
  <2>1. DOMAIN lat = 1 .. Len(lat)
    BY <1>2
  <2> HIDE DEF lat
  <2> QED BY <2>1 DEF Ring, lat
<1>6. \A i \in 1 .. L : Place(m, i) = IF idx + i <= L THEN idx + i ELSE idx + i - L
  BY DEF Place
<1>7. \/ L < c /\ r.latencies = Append(buf, x) /\ r.latencySum = m.latencySum + x /\ r.latencyIdx = idx
      \/ /\ L = c /\ r.latencies = [buf EXCEPT ![idx + 1] = x]
         /\ r.latencySum = (m.latencySum + x) - buf[idx + 1]
         /\ r.latencyIdx = (idx + 1) % c
  BY DEF Recorded
<1> DEFINE b == r.latencies
<1>8. \A i : Place(r, i) = IF r.latencyIdx + i <= Len(b) THEN r.latencyIdx + i
                           ELSE r.latencyIdx + i - Len(b)
  BY DEF Place
<1>9. L \in Nat
  BY <1>4
<1> SUFFICES /\ Len(b) = Len(new) /\ r.latencySum = Total(new)
             /\ Len(b) < c => r.latencyIdx = 0
             /\ \A i \in 1 .. Len(new) : b[Place(r, i)] = new[i]
  <2> HIDE DEF new
  <2>2. DOMAIN new = 1 .. Len(new)
    BY <1>3a
  <2> QED BY <2>2 DEF Ring, new
<1> HIDE DEF c, x, o, lat, new, buf, idx, L, b
<1>10. CASE L < c
  <2>1. b = Append(buf, x) /\ r.latencySum = m.latencySum + x /\ r.latencyIdx = 0 /\ idx = 0
    BY <1>5, <1>7, <1>9, <1>4, <1>10 DEF b
  <2>2. new = Append(lat, x)
    BY <1>3, <1>5, <1>10
  <2>3. Len(b) = L + 1 /\ Len(new) = L + 1
    <3>1. Len(Append(buf, x)) = Len(buf) + 1 /\ Len(Append(lat, x)) = Len(lat) + 1
      BY <1>2, <1>4
    <3> QED BY <1>5, <2>1, <2>2, <3>1 DEF L
  <2>4. Total(new) = Total(lat) + x
    BY <1>2, <1>4, <2>2, TotalProperties
  <2>5. ASSUME NEW i \in 1 .. L + 1 PROVE b[Place(r, i)] = new[i]
    <3>1. Place(r, i) = i
      BY <1>8, <1>9, <2>1, <2>3
    <3>2. CASE i = L + 1
      <4>1. Len(buf) = L /\ buf \in Seq(Nat) /\ lat \in Seq(Nat) /\ Len(lat) = L /\ x \in Nat
        BY <1>2, <1>4, <1>5 DEF L
      <4>2. b[L + 1] = x
        BY <2>1, <4>1
      <4>3. new[L + 1] = x
        BY <2>2, <4>1
      <4> QED BY <3>1, <3>2, <4>2, <4>3
    <3>3. CASE i # L + 1
      <4>1. i \in 1 .. L
        BY <1>9, <3>3
      <4>2. b[i] = buf[i] /\ new[i] = lat[i]
        BY <1>2, <1>4, <1>5, <2>1, <2>2, <4>1 DEF L
      <4>3. Place(m, i) = i
        BY <1>6, <1>9, <2>1, <4>1
      <4> QED BY <1>5, <3>1, <4>1, <4>2, <4>3
    <3> QED BY <3>2, <3>3
  <2> QED BY <1>5, <2>1, <2>3, <2>4, <2>5
<1>11. CASE L = c
  <2> DEFINE j == idx + 1
  <2>1. /\ b = [buf EXCEPT ![j] = x] /\ r.latencySum = (m.latencySum + x) - buf[j]
        /\ r.latencyIdx = j % c /\ j \in 1 .. c
    <3>1. j \in 1 .. c
      BY <1>4
    <3>2. ~(L < c)
      BY <1>4, <1>11
    <3> QED BY <1>7, <3>1, <3>2 DEF b
  <2>2. new = Append(Tail(lat), x)
    BY <1>3, <1>5, <1>11, <1>9, <1>4
  <2> DEFINE t == Tail(lat)
  <2>2a. lat # <<>> /\ Len(lat) = c
    <3>1. Len(lat) = c /\ c # 0
      BY <1>4, <1>5, <1>11
    <3> QED BY <1>2, <3>1, EmptySeq
  <2>3. t \in Seq(Nat) /\ Len(t) = c - 1 /\ \A i \in 1 .. c - 1 : t[i] = lat[i + 1]
    BY <1>2, <2>2a
  <2> HIDE DEF t
  <2>4. Len(new) = c /\ new[c] = x /\ \A i \in 1 .. c - 1 : new[i] = t[i]
    BY <1>4, <2>2, <2>3 DEF t
  <2>5. Len(b) = c /\ b[j] = x /\ \A i \in 1 .. c : i # j => b[i] = buf[i]
    BY <1>4, <1>11, <2>1 DEF L
  <2>6. Place(m, 1) = j /\ 1 \in 1 .. L
    BY <1>4, <1>6, <1>9, <1>11
  <2>7. Total(new) = (Total(lat) + x) - buf[j]
    <3>1. lat # <<>> /\ lat[1] = buf[j]
      BY <1>5, <2>2a, <2>6
    <3>2. Total(t) = Total(lat) - lat[1] /\ Total(lat) \in Nat
      BY <1>2, <3>1, TotalProperties DEF t
    <3>3. Total(new) = Total(t) + x
      BY <1>4, <2>2, <2>3, TotalProperties DEF t
    <3>4. lat[1] \in Nat
      BY <1>2, <1>5, <2>6
    <3> QED BY <1>4, <3>1, <3>2, <3>3, <3>4
  <2>8. r.latencyIdx = IF j = c THEN 0 ELSE j
    <3> HIDE DEF j
    <3>1. j = c => j % c = 0
      BY <1>4
    <3>2. j \in 0 .. c - 1 => j % c = j
      <4>1. \A a \in Nat, z \in Nat : a < z => a % z = a
        OBVIOUS
      <4>2. j \in 0 .. c - 1 => j \in Nat /\ j < c
        BY <1>4
      <4> QED BY <1>4, <4>1, <4>2
    <3>3. j = c \/ j \in 0 .. c - 1
      BY <1>4, <2>1
    <3> QED BY <1>4, <2>1, <3>1, <3>2, <3>3
  <2>9. ASSUME NEW i \in 1 .. c - 1 PROVE b[Place(r, i)] = new[i]
    <3>1. Place(r, i) = Place(m, i + 1) /\ Place(r, i) \in 1 .. c /\ Place(r, i) # j /\ i + 1 \in 1 .. L
      <4>1. Place(r, i) = IF r.latencyIdx + i <= c THEN r.latencyIdx + i ELSE r.latencyIdx + i - c
        BY <1>8, <2>5
      <4>2. i + 1 \in 1 .. L
        BY <1>4, <1>11
      <4>3. Place(m, i + 1) = IF idx + (i + 1) <= c THEN idx + (i + 1) ELSE idx + (i + 1) - c
        BY <1>6, <1>11, <4>2
      <4> QED BY <1>4, <1>11, <2>8, <4>1, <4>2, <4>3
    <3>2. buf[Place(m, i + 1)] = lat[i + 1]
      BY <1>5, <3>1
    <3> QED BY <2>3, <2>4, <2>5, <3>1, <3>2
  <2>10. b[Place(r, c)] = new[c]
    <3>1. Place(r, c) = IF r.latencyIdx + c <= c THEN r.latencyIdx + c ELSE r.latencyIdx + c - c
      BY <1>8, <2>5
    <3>2. Place(r, c) = j
      BY <1>4, <2>1, <2>8, <3>1
    <3> QED BY <2>4, <2>5, <3>2
  <2>11. \A i \in 1 .. c : b[Place(r, i)] = new[i]
    <3>1. \A i \in 1 .. c : i = c \/ i \in 1 .. c - 1
      BY <1>4
    <3> QED BY <2>9, <2>10, <3>1
  <2>12. ~(Len(b) < c)
    BY <1>4, <2>5
  <2> QED BY <1>5, <2>1, <2>4, <2>5, <2>7, <2>11, <2>12
<1> QED BY <1>7, <1>10, <1>11

-----------------------------------------------------------------------------
(* The queue of timestamps. *)

(* The operations up to time t, in their order. *)
Timely(ops, t) ==
    /\ ops \in Seq(Operations)
    /\ \A i \in DOMAIN ops : ops[i].at <= t
    /\ \A i, j \in DOMAIN ops : i < j => ops[i].at <= ops[j].at

(* The queue holds the times of the last operations; those that left it,    *)
(* and those before its head, are stale.                                    *)
Queue(m, ops, t) ==
    LET ts == m.opTimestamps
        gone == Len(ops) - Len(ts)
    IN /\ gone \in Nat
       /\ \A i \in DOMAIN ts : ts[i] = ops[gone + i].at
       /\ \A i \in 1 .. gone + m.head : Stale(ops[i].at, t)

(* record() keeps it so. *)
LEMMA QueueRecorded ==
    ASSUME NEW S, NEW m \in Collector(S), m.head <= Len(m.opTimestamps),
           NEW op \in {"get", "set", "delete"}, NEW x \in Nat, NEW n \in Nat,
           NEW r, Recorded(m, op, x, n, r),
           NEW ops \in Seq(Operations), Queue(m, ops, n)
    PROVE  Queue(r, Append(ops, [at |-> n, op |-> op]), n)
<1> DEFINE o == [at |-> n, op |-> op]
           all == Append(ops, o)
           ts == m.opTimestamps
           ts2 == Append(ts, n)
           L == Len(ts)
           gone == Len(ops) - L
<1>1. ts \in Seq(Nat) /\ L \in Nat /\ m.head \in 0 .. L
  BY DEF Collector
<1>2. /\ gone \in Nat /\ \A i \in 1 .. L : ts[i] = ops[gone + i].at
      /\ \A i \in 1 .. gone + m.head : Stale(ops[i].at, n)
  <2>1. DOMAIN ts = 1 .. L
    BY <1>1
  <2>2. /\ gone \in Nat /\ \A i \in DOMAIN ts : ts[i] = ops[gone + i].at
        /\ \A i \in 1 .. gone + m.head : Stale(ops[i].at, n)
    BY DEF Queue
  <2> HIDE DEF ts, gone, L
  <2> QED BY <2>1, <2>2
<1>3. o.at = n /\ o \in Operations
  BY DEF Operations
<1> HIDE DEF o
<1>4. /\ Len(all) = Len(ops) + 1 /\ all[Len(ops) + 1] = o
      /\ \A i \in 1 .. Len(ops) : all[i] = ops[i]
  BY <1>3
<1>5. /\ ts2 \in Seq(Nat) /\ Len(ts2) = L + 1 /\ ts2[L + 1] = n
      /\ \A i \in 1 .. L : ts2[i] = ts[i]
  BY <1>1
<1>6. PICK h \in m.head .. Len(ts2) :
          /\ \A j \in m.head + 1 .. h : Stale(ts2[j], n)
          /\ \/ r.opTimestamps = ts2 /\ r.head = h
             \/ r.opTimestamps = SubSeq(ts2, h + 1, Len(ts2)) /\ r.head = 0
  BY DEF Recorded
<1>7. Len(ops) \in Nat /\ Len(ops) = gone + L
  BY <1>1
<1> HIDE DEF all, ts, ts2, L, gone
<1>8. /\ h \in 0 .. L + 1 /\ gone \in Nat /\ L \in Nat /\ m.head \in 0 .. L
      /\ Len(ops) \in Nat /\ Len(ops) = gone + L
  BY <1>1, <1>2, <1>5, <1>7
<1>9. ASSUME NEW j \in 1 .. L + 1 PROVE ts2[j] = all[gone + j].at
  <2>1. CASE j = L + 1
    <3>1. gone + j = Len(ops) + 1
      BY <1>1, <1>2, <1>7, <2>1
    <3> QED BY <1>3, <1>4, <1>5, <2>1, <3>1
  <2>2. CASE j # L + 1
    <3>1. j \in 1 .. L /\ gone + j \in 1 .. Len(ops)
      BY <1>8, <2>2
    <3> QED BY <1>2, <1>4, <1>5, <3>1
  <2> QED BY <2>1, <2>2
<1>10. ASSUME NEW i \in 1 .. gone + h PROVE Stale(all[i].at, n)
  <2>1. CASE i <= gone + m.head
    <3>1. i \in 1 .. gone + m.head /\ i \in 1 .. Len(ops)
      BY <1>1, <1>2, <1>7, <2>1
    <3> QED BY <1>2, <1>4, <3>1
  <2>2. CASE ~(i <= gone + m.head)
    <3> DEFINE j == i - gone
    <3>1. j \in m.head + 1 .. h /\ j \in 1 .. L + 1 /\ gone + j = i
      <4>1. /\ m.head \in Int /\ 0 <= m.head /\ gone \in Int /\ h \in Int /\ h <= L + 1 /\ L \in Int
            /\ i \in Int /\ i <= gone + h /\ gone + m.head < i
        BY <1>8, <2>2
      <4>2. j \in Int /\ gone + j = i
        BY <4>1
      <4> HIDE DEF j
      <4>3. m.head < j /\ j <= h
        BY <4>1, <4>2
      <4> QED BY <4>1, <4>2, <4>3
    <3> HIDE DEF j
    <3>2. Stale(ts2[j], n) /\ ts2[j] = all[gone + j].at
      BY <1>6, <1>9, <3>1
    <3> QED BY <3>1, <3>2
  <2> QED BY <2>1, <2>2
<1> DEFINE u == r.opTimestamps
<1>11. CASE u = ts2 /\ r.head = h
  <2>1. Len(all) - Len(u) = gone /\ DOMAIN u = 1 .. L + 1
    <3>1. Len(all) - Len(u) = gone
      <4>1. Len(all) = (gone + L) + 1 /\ Len(u) = L + 1
        BY <1>4, <1>5, <1>8, <1>11
      <4>2. gone \in Nat /\ L \in Nat
        BY <1>8
      <4> QED BY <4>1, <4>2
    <3>2. DOMAIN u = 1 .. L + 1
      BY <1>5, <1>11
    <3> QED BY <3>1, <3>2
  <2>2. \A i \in DOMAIN u : u[i] = all[gone + i].at
    BY <1>9, <1>11, <2>1
  <2>3. \A i \in 1 .. gone + r.head : Stale(all[i].at, n)
    BY <1>10, <1>11
  <2> HIDE DEF u
  <2> QED BY <1>2, <2>1, <2>2, <2>3 DEF Queue, u, all, o
<1>12. CASE u = SubSeq(ts2, h + 1, Len(ts2)) /\ r.head = 0
  <2>1. /\ Len(u) = (L + 1) - h /\ DOMAIN u = 1 .. (L + 1) - h
        /\ \A i \in 1 .. (L + 1) - h : u[i] = ts2[h + i]
    <3>1. ts2 \in Seq(Nat) /\ h \in 0 .. Len(ts2) /\ Len(ts2) = L + 1
      BY <1>5, <1>8
    <3>2. LET t == SubSeq(ts2, h + 1, Len(ts2)) IN
          /\ t \in Seq(Nat) /\ Len(t) = Len(ts2) - h
          /\ \A i \in 1 .. Len(ts2) - h : t[i] = ts2[h + i]
      BY Zenon, <3>1, SuffixProperties
    <3>3. /\ u \in Seq(Nat) /\ Len(u) = (L + 1) - h
          /\ \A i \in 1 .. (L + 1) - h : u[i] = ts2[h + i]
      BY Zenon, <1>12, <3>1, <3>2
    <3> HIDE DEF u
    <3> QED BY <3>3
  <2>2. Len(all) - Len(u) = gone + h /\ gone + h \in Nat
    BY <1>4, <1>8, <2>1
  <2>3. \A i \in DOMAIN u : u[i] = all[(gone + h) + i].at
    <3> SUFFICES ASSUME NEW i \in 1 .. (L + 1) - h PROVE u[i] = all[(gone + h) + i].at
      BY <2>1
    <3>1. h + i \in 1 .. L + 1 /\ gone + (h + i) = (gone + h) + i
      BY <1>1, <1>2, <1>8
    <3>2. ts2[h + i] = all[gone + (h + i)].at
      BY <1>9, <3>1
    <3> QED BY <2>1, <3>1, <3>2
  <2>4. \A i \in 1 .. (gone + h) + r.head : Stale(all[i].at, n)
    <3>1. (gone + h) + r.head = gone + h
      BY <1>12, <2>2
    <3> QED BY <1>10, <3>1
  <2> HIDE DEF u
  <2> QED BY <2>2, <2>3, <2>4 DEF Queue, u, all, o
<1> QED BY <1>6, <1>11, <1>12

(* The operations that are not stale at a later time are those from where   *)
(* the binary search ends.                                                  *)
LEMMA RecentExact ==
    ASSUME NEW S, NEW m \in Collector(S), m.head <= Len(m.opTimestamps),
           NEW ops, NEW n \in Nat, Timely(ops, n), Queue(m, ops, n),
           NEW t \in Nat, n <= t
    PROVE  recentCount(m, t) = Cardinality({i \in DOMAIN ops : ~Stale(ops[i].at, t)})
<1> USE MetricsAssumption
<1> DEFINE ts == m.opTimestamps
           L == Len(ts)
           gone == Len(ops) - L
           stale == {i \in 0 .. Len(ts) - 1 : Stale(ts[i + 1], t)}
           R == {i \in DOMAIN ops : ~Stale(ops[i].at, t)}
<1>1. ts \in Seq(Nat) /\ L \in Nat /\ m.head \in 0 .. L
  BY DEF Collector
<1>2. /\ gone \in Nat /\ \A i \in 1 .. L : ts[i] = ops[gone + i].at
      /\ \A i \in 1 .. gone + m.head : Stale(ops[i].at, n)
  <2>1. DOMAIN ts = 1 .. L
    BY <1>1
  <2>2. /\ gone \in Nat /\ \A i \in DOMAIN ts : ts[i] = ops[gone + i].at
        /\ \A i \in 1 .. gone + m.head : Stale(ops[i].at, n)
    BY DEF Queue
  <2> HIDE DEF ts, gone, L
  <2> QED BY <2>1, <2>2
<1>3. Len(ops) \in Nat /\ Len(ops) = gone + L /\ DOMAIN ops = 1 .. Len(ops)
  BY <1>1 DEF Timely
<1>4. \A i \in DOMAIN ops : ops[i].at \in Nat
  <2>1. \A i \in DOMAIN ops : ops[i] \in Operations
    BY DEF Timely
  <2> QED BY <2>1 DEF Operations
<1>5. \A i \in 0 .. L - 1 : i \in stale <=> Stale(ts[i + 1], t)
  OBVIOUS
<1>6. recentCount(m, t) = L - BinarySearch(stale, m.head, L)
  BY DEF recentCount
<1>7. \A i \in DOMAIN ops : i \in R <=> ~Stale(ops[i].at, t)
  OBVIOUS
<1>8. R \subseteq DOMAIN ops
  OBVIOUS
<1> HIDE DEF ts, L, gone, stale, R
<1>9. \A i, j \in m.head .. L - 1 : i < j /\ j \in stale => i \in stale
  <2> SUFFICES ASSUME NEW i \in m.head .. L - 1, NEW j \in m.head .. L - 1, i < j, j \in stale
               PROVE  i \in stale
    OBVIOUS
  <2>1. /\ i \in 0 .. L - 1 /\ j \in 0 .. L - 1 /\ i + 1 \in 1 .. L /\ j + 1 \in 1 .. L
        /\ gone + (i + 1) \in DOMAIN ops /\ gone + (j + 1) \in DOMAIN ops
        /\ gone + (i + 1) < gone + (j + 1)
    BY <1>1, <1>2, <1>3
  <2>2. ts[i + 1] <= ts[j + 1]
    BY <1>2, <2>1 DEF Timely
  <2>3. ts[i + 1] \in Nat /\ ts[j + 1] \in Nat
    BY <1>2, <1>4, <2>1
  <2>4. Stale(ts[j + 1], t)
    BY <1>5, <2>1
  <2>5. Stale(ts[i + 1], t)
    BY <2>2, <2>3, <2>4 DEF Stale
  <2> QED BY <1>5, <2>1, <2>5
<1>10. PICK c : Cuts(stale, m.head, L, c)
  <2>1. m.head \in Nat /\ m.head <= L
    BY <1>1
  <2> QED BY <1>1, <1>9, <2>1, CutExists
<1>11. recentCount(m, t) = L - c
  <2>1. m.head \in Nat
    BY <1>1
  <2> QED BY <1>1, <1>6, <1>10, <2>1, BinarySearchFindsCut
<1>12. c \in m.head .. L /\ \A i \in m.head .. L - 1 : i \in stale <=> i < c
  BY <1>10 DEF Cuts
<1>13. \A i \in DOMAIN ops : Stale(ops[i].at, t) <=> i <= gone + c
  <2> SUFFICES ASSUME NEW i \in DOMAIN ops PROVE Stale(ops[i].at, t) <=> i <= gone + c
    OBVIOUS
  <2>1. CASE i <= gone + m.head
    <3>1. i \in 1 .. gone + m.head /\ i <= gone + c
      BY <1>1, <1>2, <1>3, <1>12, <2>1
    <3>2. Stale(ops[i].at, n) /\ ops[i].at \in Nat
      BY <1>2, <1>4, <3>1
    <3>3. Stale(ops[i].at, t)
      BY <3>2 DEF Stale
    <3> QED BY <3>1, <3>3
  <2>2. CASE ~(i <= gone + m.head)
    <3> DEFINE j == i - gone - 1
    <3>0. /\ gone \in Nat /\ L \in Nat /\ m.head \in 0 .. L /\ c \in m.head .. L
          /\ i \in 1 .. gone + L
      BY <1>1, <1>2, <1>3, <1>12
    <3>1. j \in m.head .. L - 1 /\ j \in 0 .. L - 1 /\ j + 1 \in 1 .. L /\ gone + (j + 1) = i
      <4>1. m.head \in Int /\ i \in Int /\ gone \in Int /\ L \in Int
        BY <3>0
      <4>2. gone + m.head < i /\ i <= gone + L /\ 0 <= m.head
        BY <2>2, <3>0
      <4>3. j \in Int /\ gone + (j + 1) = i
        BY <4>1
      <4>4. m.head <= j /\ j <= L - 1
        BY <4>1, <4>2
      <4> HIDE DEF j
      <4> QED BY <4>1, <4>2, <4>3, <4>4
    <3>2. j < c <=> i <= gone + c
      BY <3>0
    <3> HIDE DEF j
    <3>3. ts[j + 1] = ops[i].at
      BY <1>2, <3>1
    <3>4. j \in stale <=> Stale(ops[i].at, t)
      BY <1>5, <3>1, <3>3
    <3> QED BY <1>12, <3>1, <3>2, <3>4
  <2> QED BY <2>1, <2>2
<1> DEFINE a == gone + c + 1
<1>14. R = a .. Len(ops)
  <2>1. \A i \in DOMAIN ops : i \in R <=> ~(i <= gone + c)
    BY <1>7, <1>13
  <2>2. \A i : i \in DOMAIN ops /\ ~(i <= gone + c) <=> i \in a .. Len(ops)
    BY <1>1, <1>2, <1>3, <1>12
  <2>3. \A i : i \in R <=> i \in a .. Len(ops)
    BY <1>8, <2>1, <2>2
  <2> QED BY <2>3
<1>15. Cardinality(R) = IF a > Len(ops) THEN 0 ELSE Len(ops) - a + 1
  <2>1. a \in Int /\ Len(ops) \in Int
    BY <1>1, <1>2, <1>3, <1>12
  <2> HIDE DEF a
  <2> QED BY <1>14, <2>1, FS_Interval
<1>16. Cardinality(R) = L - c
  BY <1>1, <1>2, <1>3, <1>12, <1>15
<1> QED BY <1>11, <1>16 DEF R

-----------------------------------------------------------------------------
(* The percentile. *)

(* The n elements of s are those of t, in another order. *)
Permutes(p, n, s, t) ==
    /\ s \in Seq(Nat) /\ Len(s) = n /\ t \in Seq(Nat) /\ Len(t) = n
    /\ p \in [1 .. n -> 1 .. n] /\ \A i, j \in 1 .. n : p[i] = p[j] => i = j
    /\ \A i \in 1 .. n : s[i] = t[p[i]]

(* Then s is as often in a set as t.                                        *)
LEMMA TimesPermuted ==
    ASSUME NEW n \in Nat, NEW s, NEW t, NEW p, Permutes(p, n, s, t), NEW W
    PROVE  Times(s, W) = Times(t, W)
<1> USE DEF Permutes
<1> DEFINE A == {i \in DOMAIN s : s[i] \in W}
           B == {i \in DOMAIN t : t[i] \in W}
           f == [i \in A |-> p[i]]
<1>1. DOMAIN s = 1 .. n /\ DOMAIN t = 1 .. n
  OBVIOUS
<1>2. \A i \in 1 .. n : i \in A <=> p[i] \in B
  BY <1>1
<1>3. A \subseteq 1 .. n /\ B \subseteq 1 .. n
  BY <1>1
<1>4. IsFiniteSet(A)
  BY TimesType
<1>5. Times(s, W) = Cardinality(A) /\ Times(t, W) = Cardinality(B)
  BY DEF Times
<1>5a. \A i \in 1 .. n : \E j \in 1 .. n : p[j] = i
  <2>1. p \in Injection(1 .. n, 1 .. n)
    BY DEF Injection, IsInjective
  <2>2. IsFiniteSet(1 .. n)
    BY <1>1, FS_Interval
  <2>3. p \in Surjection(1 .. n, 1 .. n)
    BY <2>1, <2>2, FS_Injection
  <2> QED BY <2>3 DEF Surjection
<1> HIDE DEF A, B
<1>6. f \in Bijection(A, B)
  <2>1. f \in [A -> B]
    BY <1>2, <1>3
  <2>2. \A i, j \in A : f[i] = f[j] => i = j
    BY <1>3
  <2>3. \A b \in B : \E a \in A : f[a] = b
    <3> SUFFICES ASSUME NEW b \in B PROVE \E a \in A : f[a] = b
      OBVIOUS
    <3>1. PICK j \in 1 .. n : p[j] = b
      BY <1>3, <1>5a
    <3> QED BY <1>2, <3>1
  <2> HIDE DEF f
  <2> QED BY <2>1, <2>2, <2>3 DEF Bijection, Injection, Surjection, IsInjective
<1>7. ExistsBijection(A, B)
  BY <1>6 DEF ExistsBijection
<1> QED BY <1>4, <1>5, <1>7, FS_Bijection

(* The nearest rank of a sorted sequence: so many of it are at most the     *)
(* element there, and of no lesser number.                                  *)
LEMMA NearestRank ==
    ASSUME NEW u \in Seq(Nat), NEW n \in Nat \ {0}, Len(u) = n,
           \A a, b \in 1 .. n : a <= b => u[a] <= u[b],
           NEW P \in 1 .. 100, NEW k, k = (n * P + 99) \div 100
    PROVE  /\ k \in 1 .. n
           /\ 100 * Times(u, 0 .. u[k]) >= P * n
           /\ \A w \in Nat : 100 * Times(u, 0 .. w) >= P * n => u[k] <= w
<1> DEFINE q == n * P
<1>1. q \in Nat /\ q >= 1 /\ q <= 100 * n /\ P * n = q
  <2>1. q \in Nat /\ P * n = q
    OBVIOUS
  <2>2. q >= 1
    OBVIOUS
  <2>3. q <= 100 * n
    OBVIOUS
  <2> QED BY <2>1, <2>2, <2>3
<1>2. k = (q + 99) \div 100
  OBVIOUS
<1> HIDE DEF q
<1>3. k \in Nat /\ q <= 100 * k /\ 100 * (k - 1) < q
  BY <1>1, <1>2
<1>4. k \in 1 .. n
  BY <1>1, <1>3
<1>5. DOMAIN u = 1 .. n /\ \A i \in 1 .. n : u[i] \in Nat
  OBVIOUS
<1>6. \A j \in 0 .. n : IsFiniteSet(1 .. j) /\ Cardinality(1 .. j) = j
  <2> SUFFICES ASSUME NEW j \in 0 .. n PROVE IsFiniteSet(1 .. j) /\ Cardinality(1 .. j) = j
    OBVIOUS
  <2>1. 1 \in Int /\ j \in Int
    OBVIOUS
  <2>2. IsFiniteSet(1 .. j) /\ Cardinality(1 .. j) = IF 1 > j THEN 0 ELSE j - 1 + 1
    BY <2>1, FS_Interval
  <2> QED BY <2>2
<1>7. 100 * Times(u, 0 .. u[k]) >= q
  <2> DEFINE A == {i \in DOMAIN u : u[i] \in 0 .. u[k]}
  <2>1. \A i \in 1 .. k : i \in A
    <3> SUFFICES ASSUME NEW i \in 1 .. k PROVE i \in A
      OBVIOUS
    <3>1. i \in 1 .. n /\ i <= k
      BY <1>4
    <3>2. u[i] <= u[k] /\ u[i] \in Nat /\ u[k] \in Nat
      BY <1>4, <1>5, <3>1
    <3> QED BY <1>5, <3>1, <3>2
  <2>2. IsFiniteSet(A) /\ Times(u, 0 .. u[k]) \in Nat
    BY TimesType
  <2>3. Times(u, 0 .. u[k]) = Cardinality(A)
    BY DEF Times
  <2> HIDE DEF A
  <2>4. Cardinality(1 .. k) <= Cardinality(A)
    <3>1. 1 .. k \in SUBSET A
      BY <2>1
    <3> QED BY <2>2, <3>1, FS_Subset
  <2>5. Cardinality(1 .. k) = k
    <3>1. k \in 0 .. n
      BY <1>4
    <3> QED BY <1>6, <3>1
  <2> QED BY <1>1, <1>3, <2>2, <2>3, <2>4, <2>5
<1>8. ASSUME NEW w \in Nat, 100 * Times(u, 0 .. w) >= q PROVE u[k] <= w
  <2> SUFFICES ASSUME ~(u[k] <= w) PROVE FALSE
    OBVIOUS
  <2> DEFINE A == {i \in DOMAIN u : u[i] \in 0 .. w}
  <2>1. \A i \in A : i \in 1 .. k - 1
    <3> SUFFICES ASSUME NEW i \in A, ~(i < k) PROVE FALSE
      BY <1>4, <1>5
    <3>1. i \in 1 .. n /\ u[i] \in 0 .. w
      BY <1>5
    <3>2. u[k] <= u[i] /\ u[k] \in Nat
      BY <1>4, <1>5, <3>1
    <3> QED BY <3>1, <3>2
  <2>2. IsFiniteSet(A) /\ Times(u, 0 .. w) \in Nat
    BY TimesType
  <2>3. Times(u, 0 .. w) = Cardinality(A)
    BY DEF Times
  <2> HIDE DEF A
  <2>4. k - 1 \in 0 .. n /\ A \in SUBSET (1 .. k - 1)
    BY <1>4, <2>1
  <2>5. IsFiniteSet(1 .. k - 1) /\ Cardinality(1 .. k - 1) = k - 1
    BY <1>6, <2>4
  <2>6. Cardinality(A) <= k - 1
    <3>1. Cardinality(A) <= Cardinality(1 .. k - 1)
      BY <2>4, <2>5, FS_Subset
    <3> QED BY <2>5, <3>1
  <2> QED BY <1>1, <1>3, <1>8, <2>2, <2>3, <2>6
<1> QED BY <1>1, <1>4, <1>7, <1>8

(* So the percentile of the sorted buffer is that of the last samples, of   *)
(* which the buffer is a rotation.                                          *)
LEMMA PercentileExact ==
    ASSUME NEW S, NEW m \in Collector(S), Len(m.latencies) <= LATENCY_SAMPLE_CAP, m.latencies # <<>>,
           NEW ops \in Seq(Operations), Ring(m, ops)
    PROVE  p95(m) = Percentile(Samples(ops))
<1> USE MetricsAssumption
<1> DEFINE buf == m.latencies
           idx == m.latencyIdx
           lat == Samples(ops)
           n == Len(buf)
           P == PercentileOf100
           k == (n * P + 99) \div 100
           u == SortedBy(buf, buf)
           Q == [r \in 1 .. n |-> Place(m, r)]
<1>1. buf \in Seq(Nat) /\ idx \in 0 .. LATENCY_SAMPLE_CAP - 1 /\ n \in Nat \ {0} /\ P \in 1 .. 100
  <2>1. buf \in Seq(Nat) /\ idx \in 0 .. LATENCY_SAMPLE_CAP - 1
    BY DEF Collector
  <2> QED BY <2>1, EmptySeq
<1>2. /\ lat \in Seq(Nat) /\ Len(lat) = n /\ (n < LATENCY_SAMPLE_CAP => idx = 0)
      /\ \A r \in 1 .. n : buf[Place(m, r)] = lat[r]
  <2>1. lat \in Seq(Nat)
    BY SamplesProperties
  <2>2. DOMAIN lat = 1 .. Len(lat)
    BY <2>1
  <2> HIDE DEF lat
  <2> QED BY <2>1, <2>2 DEF Ring, lat
<1>3. \A r \in 1 .. n : Place(m, r) = IF idx + r <= n THEN idx + r ELSE idx + r - n
  BY DEF Place
<1>4. p95(m) = u[IF k < 1 THEN 1 ELSE IF k > n THEN n ELSE k]
  BY DEF p95
<1>5. \A i \in DOMAIN buf : buf[i] \in Nat
  BY <1>1
<1>6. PICK e \in [1 .. n -> 1 .. n] :
          /\ u \in Seq(Nat) /\ DOMAIN u = 1 .. n
          /\ \A r \in 1 .. n : u[r] = buf[e[r]]
          /\ \A i \in 1 .. n : \E r \in 1 .. n : e[r] = i
          /\ \A a, b \in 1 .. n : a < b =>
                buf[e[a]] < buf[e[b]] \/ (buf[e[a]] = buf[e[b]] /\ e[a] < e[b])
  <2> HIDE DEF u, P, idx, lat
  <2> QED BY <1>1, <1>5, SortedByProperties DEF u
<1>7. idx \in 0 .. n - 1
  BY <1>1, <1>2
<1> HIDE DEF buf, idx, lat, n, P, k, u
<1>8. Len(u) = n
  BY <1>1, <1>6
<1>9. \A r \in 1 .. n : e[r] \in 1 .. n /\ buf[e[r]] \in Nat /\ u[r] \in Nat
  <2>1. DOMAIN buf = 1 .. n
    BY <1>1 DEF n
  <2> QED BY <1>5, <1>6, <2>1
<1>10. \A a, b \in 1 .. n : a <= b => u[a] <= u[b]
  <2> SUFFICES ASSUME NEW a \in 1 .. n, NEW b \in 1 .. n, a <= b PROVE u[a] <= u[b]
    OBVIOUS
  <2>1. u[a] = buf[e[a]] /\ u[b] = buf[e[b]] /\ u[a] \in Nat /\ u[b] \in Nat
    BY <1>6, <1>9
  <2>2. CASE a = b
    BY <2>1, <2>2
  <2>3. CASE a < b
    <3>1. buf[e[a]] < buf[e[b]] \/ buf[e[a]] = buf[e[b]]
      BY <1>6, <2>3
    <3> QED BY <2>1, <3>1
  <2> QED BY <1>1, <2>2, <2>3
<1>11. \A a, b \in 1 .. n : e[a] = e[b] => a = b
  <2> SUFFICES ASSUME NEW a \in 1 .. n, NEW b \in 1 .. n, a < b PROVE e[a] # e[b]
    BY <1>1
  <2>1. buf[e[a]] < buf[e[b]] \/ e[a] < e[b]
    BY <1>6
  <2>2. buf[e[a]] \in Nat /\ e[a] \in 1 .. n
    BY <1>9
  <2> QED BY <2>1, <2>2
<1>12. /\ Q \in [1 .. n -> 1 .. n]
       /\ \A i, j \in 1 .. n : Q[i] = Q[j] => i = j
       /\ \A i \in 1 .. n : \E j \in 1 .. n : Q[j] = i
       /\ \A r \in 1 .. n : lat[r] = buf[Q[r]]
  <2>1. \A r \in 1 .. n : Q[r] = IF idx + r <= n THEN idx + r ELSE idx + r - n
    BY <1>3
  <2>2. \A r \in 1 .. n : lat[r] = buf[Q[r]]
    BY <1>2
  <2>3. Q = [r \in 1 .. n |-> Q[r]]
    OBVIOUS
  <2> HIDE DEF Q
  <2>0. n \in Nat /\ n > 0 /\ idx \in Nat /\ idx < n
    BY <1>1, <1>7
  <2>4. \A r \in 1 .. n : Q[r] \in 1 .. n
    <3> SUFFICES ASSUME NEW r \in 1 .. n PROVE Q[r] \in 1 .. n
      OBVIOUS
    <3>1. (IF idx + r <= n THEN idx + r ELSE idx + r - n) \in 1 .. n
      BY <2>0
    <3> QED BY <2>1, <3>1
  <2>5. \A i, j \in 1 .. n : Q[i] = Q[j] => i = j
    <3>1. \A i, j \in 1 .. n : i # j =>
              (IF idx + i <= n THEN idx + i ELSE idx + i - n) # (IF idx + j <= n THEN idx + j ELSE idx + j - n)
      BY <2>0
    <3> QED BY <2>1, <3>1
  <2>6. \A i \in 1 .. n : \E j \in 1 .. n : Q[j] = i
    <3> SUFFICES ASSUME NEW i \in 1 .. n PROVE \E j \in 1 .. n : Q[j] = i
      OBVIOUS
    <3>1. CASE i > idx
      <4> DEFINE r == i - idx
      <4>1. r \in 1 .. n /\ idx + r = i /\ i <= n
        BY <2>0, <3>1
      <4> HIDE DEF r
      <4>2. Q[r] = i
        BY <2>1, <4>1
      <4> QED BY <4>1, <4>2
    <3>2. CASE ~(i > idx)
      <4> DEFINE r == i - idx + n
      <4>1. r \in 1 .. n /\ ~(idx + r <= n) /\ idx + r - n = i
        BY <2>0, <3>2
      <4> HIDE DEF r
      <4>2. Q[r] = i
        BY <2>1, <4>1
      <4> QED BY <4>1, <4>2
    <3> QED BY <3>1, <3>2
  <2>7. Q \in [1 .. n -> 1 .. n]
    BY <2>3, <2>4
  <2> QED BY <2>2, <2>5, <2>6, <2>7
<1> HIDE DEF Q
<1>13. ASSUME NEW W PROVE Times(u, W) = Times(lat, W)
  <2>0. n \in Nat /\ Len(buf) = n
    BY <1>1 DEF n
  <2>1. Times(u, W) = Times(buf, W)
    <3>1. u \in Seq(Nat) /\ buf \in Seq(Nat) /\ Len(u) = n /\ Len(buf) = n
      BY <1>1, <1>6, <1>8, <2>0
    <3>2. \A i \in 1 .. n : u[i] = buf[e[i]]
      BY <1>6
    <3>3. Permutes(e, n, u, buf)
      BY <1>11, <3>1, <3>2 DEF Permutes
    <3> QED BY <2>0, <3>3, TimesPermuted
  <2>2. Times(lat, W) = Times(buf, W)
    <3>1. lat \in Seq(Nat) /\ buf \in Seq(Nat) /\ Len(lat) = n /\ Len(buf) = n
      BY <1>1, <1>2, <2>0
    <3>2. /\ Q \in [1 .. n -> 1 .. n] /\ \A i \in 1 .. n : lat[i] = buf[Q[i]]
          /\ \A i, j \in 1 .. n : Q[i] = Q[j] => i = j
      BY <1>12
    <3>3. Permutes(Q, n, lat, buf)
      BY <3>1, <3>2 DEF Permutes
    <3> QED BY <2>0, <3>3, TimesPermuted
  <2> QED BY <2>1, <2>2
<1>14. /\ k \in 1 .. n
       /\ 100 * Times(u, 0 .. u[k]) >= P * n
       /\ \A w \in Nat : 100 * Times(u, 0 .. w) >= P * n => u[k] <= w
  <2>1. k = (n * P + 99) \div 100
    BY DEF k
  <2>2. u \in Seq(Nat) /\ n \in Nat \ {0} /\ P \in 1 .. 100
    BY <1>1, <1>6
  <2> QED BY ZenonT(60), <1>8, <1>10, <2>1, <2>2, NearestRank
<1>15. p95(m) = u[k]
  <2>1. ~(k < 1) /\ ~(k > n)
    BY <1>1, <1>14
  <2> QED BY <1>4, <2>1
<1> DEFINE values == {lat[i] : i \in DOMAIN lat}
           enough == {v \in values : 100 * Times(lat, 0 .. v) >= P * n}
<1>16. DOMAIN lat = 1 .. n /\ \A i \in 1 .. n : lat[i] \in Nat
  BY <1>2
<1>17. u[k] \in enough
  <2>1. PICK j \in 1 .. n : Q[j] = e[k]
    BY <1>9, <1>12, <1>14
  <2>2. lat[j] = u[k]
    <3>1. u[k] = buf[e[k]] /\ lat[j] = buf[Q[j]]
      BY <1>6, <1>12, <1>14
    <3> QED BY <2>1, <3>1
  <2>3. u[k] \in values
    BY <1>16, <2>2
  <2>4. 100 * Times(lat, 0 .. u[k]) >= P * n
    BY <1>13, <1>14
  <2> HIDE DEF values
  <2> QED BY <2>3, <2>4
<1>18. \A w \in enough : w \in Nat /\ u[k] <= w
  <2> SUFFICES ASSUME NEW w \in values, 100 * Times(lat, 0 .. w) >= P * n PROVE w \in Nat /\ u[k] <= w
    OBVIOUS
  <2>1. w \in Nat
    BY <1>16
  <2>2. 100 * Times(u, 0 .. w) >= P * n
    BY <1>13
  <2> QED BY <1>14, <2>1, <2>2
<1>19. Percentile(lat) = CHOOSE v \in enough : \A w \in enough : v <= w
  BY <1>2 DEF Percentile, P
<1> HIDE DEF enough
<1>20. \A v \in enough : (\A w \in enough : v <= w) => v = u[k]
  BY <1>17, <1>18
<1>21. Percentile(lat) = u[k]
  BY <1>17, <1>18, <1>19, <1>20
<1> QED BY <1>15, <1>21 DEF lat

-----------------------------------------------------------------------------
(* The snapshots. *)

(* So what snapshot() answers, at any time from n on, is what the           *)
(* operations give.                                                         *)
LEMMA SnapshotExact ==
    ASSUME NEW S, NEW m \in Collector(S), Len(m.latencies) <= LATENCY_SAMPLE_CAP,
           m.head <= Len(m.opTimestamps),
           NEW ops, NEW n \in Nat, Timely(ops, n), Ring(m, ops), Queue(m, ops, n),
           NEW t \in Nat, n <= t
    PROVE  snapshot(m, t) = TrueSnapshot(ops, t)
<1> DEFINE lat == Samples(ops)
<1>1. ops \in Seq(Operations)
  BY DEF Timely
<1>2. recentCount(m, t) = Cardinality({i \in DOMAIN ops : ~Stale(ops[i].at, t)})
  BY RecentExact
<1>3. Len(m.latencies) = Len(lat) /\ m.latencySum = Total(lat)
  BY DEF Ring
<1>4. lat \in Seq(Nat) /\ m.latencies \in Seq(Nat)
  BY <1>1, SamplesProperties DEF Collector
<1>5. m.latencies = <<>> <=> lat = <<>>
  <2> HIDE DEF lat
  <2> QED BY <1>3, <1>4, EmptySeq
<1>6. m.latencies # <<>> => p95(m) = Percentile(lat)
  BY <1>1, PercentileExact
<1> HIDE DEF lat
<1> QED BY <1>2, <1>3, <1>5, <1>6 DEF snapshot, TrueSnapshot, lat

(* The inductive invariant: buffer and queue say of the operations what     *)
(* record() left in them, and the history is that of the past.              *)
SnapshotInv ==
    /\ reads \in Seq(Keys)
    /\ Timely(operations, now)
    /\ Ring(metrics, operations) /\ Queue(metrics, operations, now)
    /\ CountersAreExact /\ HistoryIsExact

(* An operation that is timed keeps it: what was before a time that is not  *)
(* later than now stays what it was.                                        *)
LEMMA SnapshotTimed ==
    ASSUME TableInv, MetricsInv, SnapshotInv,
           NEW op \in {"get", "set", "delete"}, NEW hit \in BOOLEAN,
           Timed(op, hit), Operation(op), UNCHANGED now,
           reads' \in Seq(Keys), Len(reads') = Len(reads) + (IF op = "get" THEN 1 ELSE 0)
    PROVE  SnapshotInv'
<1> USE MetricsAssumption, NodeApiAssumption
<1> DEFINE o == [at |-> now, op |-> op]
           ops == operations
           all == Append(ops, o)
           n == Len(ops)
<1>0. PICK S : metrics \in Collector(S)
  BY DEF MetricsInv
<1>1. /\ metrics' \in Collector(S) /\ metrics'.history = metrics.history
      /\ Recorded(metrics, op, latencyUs[op], now, metrics')
  <2>1. metrics' = record(metrics, op, latencyUs[op], hit, now)
    BY DEF Timed
  <2>2. latencyUs[op] \in Nat /\ now \in Nat
    BY DEF TableInv
  <2>3. Len(metrics.latencies) <= LATENCY_SAMPLE_CAP /\ metrics.head <= Len(metrics.opTimestamps)
    BY DEF MetricsInv
  <2> QED BY <1>0, <2>1, <2>2, <2>3, RecordEffect
<1>2. operations' = all /\ now' = now /\ now \in Nat /\ o \in Operations /\ o.at = now
  BY DEF Operation, TableInv, Operations
<1>3. ops \in Seq(Operations) /\ n \in Nat
  BY DEF SnapshotInv, Timely
<1> HIDE DEF o
<1>4. /\ all \in Seq(Operations) /\ Len(all) = n + 1 /\ DOMAIN all = 1 .. n + 1
      /\ DOMAIN ops = 1 .. n
      /\ \A i \in 1 .. n : all[i] = ops[i] /\ all[n + 1] = o
  BY <1>2, <1>3
<1>4a. all[n + 1] = o
  BY <1>2, <1>3
<1>5. Timely(operations', now')
  <2>1. /\ \A i \in 1 .. n : ops[i].at <= now /\ ops[i].at \in Nat
        /\ \A i, j \in 1 .. n : i < j => ops[i].at <= ops[j].at
    <3>1. Timely(ops, now)
      BY DEF SnapshotInv
    <3>2. \A i \in 1 .. n : ops[i] \in Operations
      BY <1>3
    <3> QED BY <1>4, <3>1, <3>2 DEF Timely, Operations
  <2> HIDE DEF all, ops, n
  <2>2. \A i \in 1 .. n + 1 : all[i].at <= now
    <3> SUFFICES ASSUME NEW i \in 1 .. n + 1 PROVE all[i].at <= now
      OBVIOUS
    <3>1. i \in 1 .. n \/ i = n + 1
      BY <1>3
    <3> QED BY <1>2, <1>4, <1>4a, <2>1, <3>1
  <2>3. ASSUME NEW i \in 1 .. n + 1, NEW j \in 1 .. n + 1, i < j PROVE all[i].at <= all[j].at
    <3>1. i \in 1 .. n /\ (j \in 1 .. n \/ j = n + 1)
      BY <1>3, <2>3
    <3> QED BY <1>2, <1>4, <1>4a, <2>1, <2>3, <3>1
  <2> QED BY <1>2, <1>4, <2>2, <2>3 DEF Timely
<1>6. Ring(metrics', operations')
  <2>1. Ring(metrics, ops)
    BY DEF SnapshotInv
  <2> HIDE DEF ops
  <2>2. Ring(metrics', Append(ops, [at |-> now, op |-> op]))
    BY <1>0, <1>1, <1>2, <1>3, <2>1, RingRecorded
  <2> QED BY <1>2, <2>2 DEF o
<1>7. Queue(metrics', operations', now')
  <2>1. Queue(metrics, ops, now) /\ metrics.head <= Len(metrics.opTimestamps)
    BY DEF SnapshotInv, MetricsInv
  <2>2. latencyUs[op] \in Nat
    OBVIOUS
  <2> HIDE DEF ops
  <2>3. Queue(metrics', Append(ops, [at |-> now, op |-> op]), now)
    BY <1>0, <1>1, <1>2, <1>3, <2>1, <2>2, QueueRecorded
  <2> QED BY <1>2, <2>3 DEF o
<1>8. reads' \in Seq(Keys) /\ Len(reads') = Len(reads) + (IF op = "get" THEN 1 ELSE 0) /\ Len(reads) \in Nat
  BY DEF SnapshotInv
<1>9. CountersAreExact'
  <2> DEFINE m == metrics
             q == metrics'
  <2>1. m.hits + m.misses = Len(reads) /\ m.sets + m.deletes = n - Len(reads)
    BY DEF SnapshotInv, CountersAreExact
  <2>2. /\ q.hits + q.misses = (m.hits + m.misses) + (IF op = "get" THEN 1 ELSE 0)
        /\ q.sets + q.deletes = (m.sets + m.deletes) + (IF op = "get" THEN 0 ELSE 1)
    BY <1>1 DEF Recorded
  <2>3. q.hits + q.misses = Len(reads') /\ q.sets + q.deletes = Len(operations') - Len(reads')
    <3>1. Len(operations') = n + 1
      BY <1>2, <1>4
    <3> HIDE DEF m, q, n
    <3>2. CASE op = "get"
      BY <1>3, <1>8, <2>1, <2>2, <3>1, <3>2
    <3>3. CASE op # "get"
      BY <1>3, <1>8, <2>1, <2>2, <3>1, <3>3
    <3> QED BY <3>2, <3>3
  <2> QED BY <2>3 DEF CountersAreExact
<1>10. HistoryIsExact'
  <2> DEFINE h == metrics.history
             In(s, t) == {i \in DOMAIN s : s[i].at < t}
  <2>1. /\ Len(h) = IF now < HISTORY_CAP THEN now ELSE HISTORY_CAP
        /\ \A i \in DOMAIN h :
              h[i] = [at |-> now - Len(h) + i,
                      snapshot |-> TrueSnapshot(Picked(ops, In(ops, now - Len(h) + i)), now - Len(h) + i)]
    BY DEF SnapshotInv, HistoryIsExact, Before
  <2>2. DOMAIN h = 1 .. Len(h) /\ Len(h) \in Nat
    BY <1>0 DEF Collector
  <2>3. ASSUME NEW t \in Int, t <= now PROVE Picked(all, In(all, t)) = Picked(ops, In(ops, t))
    <3>1. In(all, t) = In(ops, t)
      <4>1. ~(all[n + 1].at < t)
        BY <1>2, <1>4a, <2>3
      <4>2. \A i \in 1 .. n + 1 : i \in 1 .. n \/ i = n + 1
        BY <1>3
      <4>3. \A i \in 1 .. n : i \in 1 .. n + 1
        BY <1>3
      <4> HIDE DEF all, ops, n
      <4> QED BY <1>4, <4>1, <4>2, <4>3
    <3>2. In(ops, t) \in SUBSET DOMAIN ops
      OBVIOUS
    <3> HIDE DEF In, ops, n
    <3>3. Picked(Append(ops, o), In(ops, t)) = Picked(ops, In(ops, t))
      BY <1>3, <3>2, PickedAppend
    <3> QED BY <3>1, <3>3
  <2>4. \A i \in DOMAIN h : now - Len(h) + i \in Int /\ now - Len(h) + i <= now
    <3> HIDE DEF h
    <3> QED BY <1>2, <2>2
  <2>5. \A i \in DOMAIN h :
           h[i] = [at |-> now - Len(h) + i,
                   snapshot |-> TrueSnapshot(Picked(all, In(all, now - Len(h) + i)), now - Len(h) + i)]
    <3> HIDE DEF h, In, all, ops
    <3> QED BY <2>1, <2>3, <2>4
  <2>6. metrics'.history = h /\ operations' = all /\ now' = now
    BY <1>1, <1>2
  <2> HIDE DEF h, all
  <2> QED BY <2>1, <2>5, <2>6 DEF HistoryIsExact, Before
<1> QED BY <1>5, <1>6, <1>7, <1>8, <1>9, <1>10 DEF SnapshotInv

(* So does a tick: what has become stale stays stale, and the snapshot that *)
(* joins the history is of all the operations, none of which is later.      *)
LEMMA SnapshotTick ==
    ASSUME TableInv, MetricsInv, SnapshotInv, Tick, UNCHANGED history
    PROVE  SnapshotInv'
<1> USE MetricsAssumption, NodeApiAssumption
<1> DEFINE h == metrics.history
           h2 == metrics'.history
           d == IF Len(h) >= HISTORY_CAP THEN 1 ELSE 0
           k == Len(h) - d
           t == now + 1
           In(s) == {i \in DOMAIN operations : operations[i].at < s}
<1>0. PICK S : metrics \in Collector(S)
  BY DEF MetricsInv
<1>1. /\ now \in Nat /\ now' = t /\ t \in Nat /\ metrics' = startHistory(metrics, t)
      /\ operations' = operations /\ reads' = reads
  BY DEF Tick, TableInv, history
<1>2. /\ metrics'.hits = metrics.hits /\ metrics'.misses = metrics.misses
      /\ metrics'.sets = metrics.sets /\ metrics'.deletes = metrics.deletes
      /\ metrics'.latencies = metrics.latencies /\ metrics'.latencyIdx = metrics.latencyIdx
      /\ metrics'.latencySum = metrics.latencySum
      /\ metrics'.opTimestamps = metrics.opTimestamps /\ metrics'.head = metrics.head
      /\ Len(h2) = k + 1
      /\ \A i \in 1 .. k : h2[i] = h[i + d]
      /\ h2[k + 1] = [at |-> t, snapshot |-> snapshot(metrics, t)]
      /\ \E T : metrics' \in Collector(T)
  <2>1. Len(metrics.history) <= HISTORY_CAP
    BY DEF MetricsInv
  <2> HIDE DEF t
  <2>2. (\E T : metrics' \in Collector(T)) /\ Noted(metrics, t, metrics')
    <3> HIDE DEF t
    <3> QED BY <1>0, <1>1, <2>1, HistoryEffect
  <2> HIDE DEF t
  <2> QED BY <2>2 DEF Noted
<1>3. operations \in Seq(Operations) /\ \A i \in DOMAIN operations : operations[i].at \in Nat /\ operations[i].at <= now
  <2>1. operations \in Seq(Operations) /\ \A i \in DOMAIN operations : operations[i].at <= now
    BY DEF SnapshotInv, Timely
  <2>2. \A i \in DOMAIN operations : operations[i] \in Operations
    BY <2>1
  <2> QED BY <2>1, <2>2 DEF Operations
<1>4. Timely(operations', now')
  <2>1. \A i \in DOMAIN operations : operations[i].at <= t
    BY <1>1, <1>3
  <2> QED BY <1>1, <2>1 DEF SnapshotInv, Timely
<1>5. Ring(metrics', operations')
  <2>1. \A r : Place(metrics', r) = Place(metrics, r)
    BY <1>2 DEF Place
  <2> QED BY <1>1, <1>2, <2>1 DEF SnapshotInv, Ring
<1>6. Queue(metrics', operations', now')
  <2> DEFINE ts == metrics.opTimestamps
             gone == Len(operations) - Len(ts)
  <2>1. /\ gone \in Nat
        /\ \A i \in DOMAIN ts : ts[i] = operations[gone + i].at
        /\ \A i \in 1 .. gone + metrics.head : Stale(operations[i].at, now)
    BY DEF SnapshotInv, Queue
  <2>2. ASSUME NEW i \in 1 .. gone + metrics.head PROVE Stale(operations[i].at, t)
    <3>1. metrics.head <= Len(ts) /\ metrics.head \in Nat /\ Len(ts) \in Nat /\ Len(operations) \in Nat
      <4>1. metrics.head <= Len(ts)
        BY DEF MetricsInv
      <4>2. metrics.head \in Nat /\ ts \in Seq(Nat)
        BY <1>0 DEF Collector
      <4> HIDE DEF ts
      <4> QED BY <1>3, <4>1, <4>2
    <3>2. i \in 1 .. Len(operations)
      <4>1. gone = Len(operations) - Len(ts)
        OBVIOUS
      <4> HIDE DEF gone, ts
      <4> QED BY <2>1, <3>1, <4>1
    <3>3. operations[i].at \in Nat
      BY <1>3, <3>2
    <3>4. Stale(operations[i].at, now)
      BY <2>1
    <3> QED BY <1>1, <3>3, <3>4 DEF Stale
  <2>3. \A i \in 1 .. gone + metrics.head : Stale(operations[i].at, t)
    BY <2>2
  <2> QED BY <1>1, <1>2, <2>1, <2>3 DEF Queue
<1>7. CountersAreExact'
  BY <1>1, <1>2 DEF SnapshotInv, CountersAreExact
<1>8. snapshot(metrics, t) = TrueSnapshot(operations, t)
  <2>1. /\ Len(metrics.latencies) <= LATENCY_SAMPLE_CAP /\ metrics.head <= Len(metrics.opTimestamps)
        /\ Timely(operations, now) /\ Ring(metrics, operations) /\ Queue(metrics, operations, now)
        /\ now <= t
    BY <1>1 DEF MetricsInv, SnapshotInv
  <2> HIDE DEF t
  <2> QED BY <1>0, <1>1, <2>1, SnapshotExact
<1>9. Picked(operations, In(t)) = operations
  <2>1. In(t) = DOMAIN operations
    <3>1. \A i \in DOMAIN operations : operations[i].at < t
      BY <1>1, <1>3
    <3> HIDE DEF t
    <3> QED BY <3>1
  <2> HIDE DEF In
  <2> QED BY <1>3, <2>1, PickedAll
<1>10. HistoryIsExact'
  <2>1. /\ Len(h) = IF now < HISTORY_CAP THEN now ELSE HISTORY_CAP
        /\ \A i \in DOMAIN h :
              h[i] = [at |-> now - Len(h) + i,
                      snapshot |-> TrueSnapshot(Picked(operations, In(now - Len(h) + i)), now - Len(h) + i)]
    BY DEF SnapshotInv, HistoryIsExact, Before
  <2>2. DOMAIN h = 1 .. Len(h) /\ Len(h) \in Nat
    BY <1>0 DEF Collector
  <2>3. DOMAIN h2 = 1 .. Len(h2)
    <3>1. PICK T : metrics' \in Collector(T)
      BY <1>2
    <3> QED BY <3>1 DEF Collector
  <2>4. d = IF Len(h) >= HISTORY_CAP THEN 1 ELSE 0
    OBVIOUS
  <2>5. k = Len(h) - d
    OBVIOUS
  <2>5a. t = now + 1
    OBVIOUS
  <2>5b. h2 = metrics'.history
    OBVIOUS
  <2> HIDE DEF h, h2, d, k, t, In
  <2>6. Len(h2) = IF t < HISTORY_CAP THEN t ELSE HISTORY_CAP
    <3>1. now < HISTORY_CAP => d = 0 /\ k = now
      BY <1>1, <2>1, <2>4, <2>5
    <3>2. ~(now < HISTORY_CAP) => d = 1 /\ k = HISTORY_CAP - 1
      BY <1>1, <2>1, <2>4, <2>5
    <3>3. CASE now < HISTORY_CAP
      BY <1>1, <1>2, <2>5a, <3>1, <3>3
    <3>4. CASE ~(now < HISTORY_CAP)
      BY <1>1, <1>2, <2>5a, <3>2, <3>4
    <3> QED BY <3>3, <3>4
  <2>7. d \in {0, 1} /\ k \in Nat /\ Len(h) = k + d
    BY <2>1, <2>2, <2>4, <2>5
  <2>8. ASSUME NEW i \in DOMAIN h2
        PROVE  h2[i] = [at |-> t - Len(h2) + i,
                        snapshot |-> TrueSnapshot(Picked(operations, In(t - Len(h2) + i)), t - Len(h2) + i)]
    <3>1. i \in 1 .. k + 1
      BY <1>2, <2>3
    <3>2. CASE i = k + 1
      <4>1. t - Len(h2) + i = t
        BY <1>1, <1>2, <2>7, <3>2
      <4> QED BY <1>2, <1>8, <1>9, <3>2, <4>1
    <3>3. CASE i # k + 1
      <4>1. i \in 1 .. k /\ i + d \in 1 .. Len(h)
        BY <2>7, <3>1, <3>3
      <4>2. t - Len(h2) + i = now - Len(h) + (i + d)
        BY <1>1, <1>2, <2>5a, <2>7, <4>1
      <4>3. h2[i] = h[i + d]
        BY <1>2, <4>1
      <4> QED BY <2>1, <2>2, <4>1, <4>2, <4>3
    <3> QED BY <3>2, <3>3
  <2>9. \A i \in DOMAIN h2 :
           h2[i] = [at |-> t - Len(h2) + i,
                    snapshot |-> TrueSnapshot(Picked(operations, In(t - Len(h2) + i)), t - Len(h2) + i)]
    BY <2>8
  <2>10. now' = t /\ operations' = operations
    BY <1>1
  <2>11. Len(metrics'.history) = IF now' < HISTORY_CAP THEN now' ELSE HISTORY_CAP
    BY <2>5b, <2>6, <2>10
  <2>12. \A i \in DOMAIN metrics'.history :
            metrics'.history[i] =
                [at |-> now' - Len(metrics'.history) + i,
                 snapshot |-> TrueSnapshot(Picked(operations', In(now' - Len(metrics'.history) + i)),
                                           now' - Len(metrics'.history) + i)]
    BY <2>5b, <2>9, <2>10
  <2>13. \A s : In(s) = {i \in DOMAIN operations' : operations'[i].at < s}
    BY <2>10 DEF In
  <2> QED BY <2>11, <2>12, <2>13 DEF HistoryIsExact, Before
<1>11. reads' \in Seq(Keys)
  BY <1>1 DEF SnapshotInv
<1> QED BY <1>4, <1>5, <1>6, <1>7, <1>10, <1>11 DEF SnapshotInv

(* Every other step leaves alone what the invariant is about. *)
LEMMA SnapshotNext ==
    ASSUME TableInv, MetricsInv, SnapshotInv, [Next]_vars
    PROVE  SnapshotInv'
<1>1. CASE Tick /\ UNCHANGED history
  BY <1>1, SnapshotTick
<1>2. CASE UNCHANGED <<now, metrics, operations, reads>>
  <2>1. Before(1)' = Before(1) /\ CountersAreExact' /\ HistoryIsExact'
    BY <1>2 DEF SnapshotInv, CountersAreExact, HistoryIsExact, Before
  <2> QED BY <1>2, <2>1 DEF SnapshotInv
<1>3. ASSUME NEW k \in Keys, NEW hit \in BOOLEAN, Read(k, hit)
      PROVE  SnapshotInv'
  <2>1. Timed("get", hit) /\ UNCHANGED now
    BY <1>3 DEF Read, Get, Parsed
  <2>2. reads' \in Seq(Keys) /\ Len(reads') = Len(reads) + (IF "get" = "get" THEN 1 ELSE 0)
    BY <1>3 DEF Read, SnapshotInv
  <2>3. Operation("get")
    BY <1>3 DEF Read
  <2> QED BY <2>1, <2>2, <2>3, SnapshotTimed
<1>4. ASSUME NEW op \in {"set", "delete"}, Timed(op, FALSE), UNCHANGED now,
             Operation(op), UNCHANGED reads
      PROVE  SnapshotInv'
  <2>1. op \in {"get", "set", "delete"} /\ op # "get"
    BY <1>4
  <2>2. reads' \in Seq(Keys) /\ Len(reads') = Len(reads) + (IF op = "get" THEN 1 ELSE 0)
    BY <1>4, <2>1 DEF SnapshotInv
  <2> QED BY <1>4, <2>1, <2>2, SnapshotTimed
<1>5. CASE \E c \in Clients : Arrival(c)
  <2>1. UNCHANGED <<now, metrics, operations, reads>>
    BY <1>5 DEF Arrival, Refused, LetIn, Throttled, Unauthorised, Authorised
  <2> QED BY <1>2, <2>1
<1>7. CASE Route
  <2>1. \/ UNCHANGED <<now, metrics, operations, reads>>
        \/ \E k \in Keys, hit \in BOOLEAN : Read(k, hit)
        \/ \E op \in {"set", "delete"} : Timed(op, FALSE) /\ UNCHANGED now /\ Operation(op) /\ UNCHANGED reads
    BY <1>7 DEF Route, Unrecorded, Set, Delete, Parsed, history
  <2> QED BY <1>2, <1>3, <1>4, <2>1
<1>6. CASE UNCHANGED vars
  BY <1>2, <1>6 DEF vars, apiVars, history
<1> QED BY <1>1, <1>5, <1>6, <1>7 DEF Next

(* SNAPSHOTS ARE EXACT (metrics.ts): for any size of the ring buffer, any   *)
(* window, any compaction threshold and any sequence of requests and ticks, *)
(* what snapshot() derives from the overwritten buffer, its running sum and *)
(* the pruned and compacted timestamps is what the timed operations         *)
(* themselves give; the counters add up; and the history holds the last     *)
(* snapshots, each as it was at its tick.                                   *)
THEOREM SnapshotsExact == Spec => []SnapshotIsExact
<1> USE MetricsAssumption, NodeApiAssumption, RateLimiterAssumption
<1> DEFINE Inv == TableInv /\ MetricsInv /\ SnapshotInv
<1>1. HistoryInit => Inv
  <2> SUFFICES ASSUME HistoryInit PROVE Inv
    OBVIOUS
  <2>1. TableInv
    BY DEF HistoryInit, Init, TableInv
  <2>2. metrics \in Collector({})
    BY DEF HistoryInit, Init, NewCollector, Collector
  <2>3. MetricsInv
    BY <2>2 DEF HistoryInit, Init, NewCollector, MetricsInv
  <2>4. /\ now = 0 /\ operations = <<>> /\ reads = <<>> /\ Len(metrics.latencies) = 0
        /\ metrics.latencySum = 0 /\ metrics.latencyIdx = 0 /\ metrics.opTimestamps = <<>>
        /\ metrics.head = 0 /\ metrics.history = <<>>
        /\ metrics.hits = 0 /\ metrics.misses = 0 /\ metrics.sets = 0 /\ metrics.deletes = 0
    BY DEF HistoryInit, Init, NewCollector
  <2>5. Timely(operations, now) /\ Queue(metrics, operations, now)
    BY <2>4 DEF Timely, Queue
  <2>6. Ring(metrics, operations)
    <3>1. operations \in Seq(Operations) /\ Len(operations) = 0
      BY <2>4
    <3>2. Samples(operations) \in Seq(Nat) /\ Len(Samples(operations)) = 0
      <4>1. /\ Samples(operations) \in Seq(Nat)
            /\ Len(Samples(operations)) =
                  IF Len(operations) > LATENCY_SAMPLE_CAP THEN LATENCY_SAMPLE_CAP ELSE Len(operations)
        BY <3>1, SamplesProperties
      <4>2. ~(Len(operations) > LATENCY_SAMPLE_CAP)
        BY <3>1
      <4> QED BY <3>1, <4>1, <4>2
    <3>3. Samples(operations) = <<>>
      BY <3>2, EmptySeq
    <3>4. Total(Samples(operations)) = 0
      BY <3>2, <3>3, TotalProperties
    <3> QED BY <2>4, <3>3, <3>4 DEF Ring
  <2>7. CountersAreExact /\ HistoryIsExact
    BY <2>4 DEF CountersAreExact, HistoryIsExact
  <2> QED BY <2>1, <2>3, <2>4, <2>5, <2>6, <2>7 DEF SnapshotInv
<1>2. Inv /\ [Next]_vars => Inv'
  BY TableNext, MetricsNext, SnapshotNext
<1>3. Inv => SnapshotIsExact
  <2> SUFFICES ASSUME Inv PROVE SnapshotIsExact
    OBVIOUS
  <2>1. PICK S : metrics \in Collector(S)
    BY DEF MetricsInv
  <2>2. /\ Len(metrics.latencies) <= LATENCY_SAMPLE_CAP /\ metrics.head <= Len(metrics.opTimestamps)
        /\ Timely(operations, now) /\ Ring(metrics, operations) /\ Queue(metrics, operations, now)
        /\ now \in Nat /\ now <= now
    BY DEF MetricsInv, SnapshotInv, TableInv
  <2>3. snapshot(metrics, now) = TrueSnapshot(operations, now)
    BY <2>1, <2>2, SnapshotExact
  <2> QED BY <2>3 DEF SnapshotInv, SnapshotIsExact
<1> QED BY <1>1, <1>2, <1>3, PTL DEF Spec

=============================================================================
