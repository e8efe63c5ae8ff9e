---------------------------- MODULE RateLimiter ----------------------------
(***************************************************************************)
(* network/rate-limit.ts: fixed windows per client, in a table of bounded  *)
(* size, as operators on the table.  The Map is the sequence of its        *)
(* buckets in insertion order.                                             *)
(***************************************************************************)
EXTENDS Naturals, Sequences, SequencesExt

CONSTANTS
    Clients,            \* req.ip
    limit,
    window,             \* windowMs, in ticks
    maxTrackedClients

ASSUME RateLimiterAssumption ==
    limit \in Nat \ {0} /\ window \in Nat \ {0} /\ maxTrackedClients \in Nat \ {0}

Tracked(buckets) == {buckets[i].client : i \in DOMAIN buckets}

IndexOf(buckets, c) == CHOOSE i \in DOMAIN buckets : buckets[i].client = c

(* Mutant: windows begin at the multiples of their length. *)
FreshBucketAligned(c, now) ==
    [client |-> c, count |-> 1, resetAt |-> (now \div window + 1) * window]

FreshBucket(c, now) == [client |-> c, count |-> 1, resetAt |-> now + window]

(* bucket.count++ *)
OneMore(b) == [b EXCEPT !.count = @ + 1]

(* The client the full table forgets when c is new to it. *)
Forgotten(buckets, c) ==
    IF c \notin Tracked(buckets) /\ Len(buckets) >= maxTrackedClients
    THEN {Head(buckets).client} ELSE {}

(* One more request of c.  A bucket whose window is over is replaced and    *)
(* keeps its place in the Map; a new one goes to the end.                   *)
Counted(buckets, c, now) ==
    IF c \in Tracked(buckets)
    THEN [buckets EXCEPT ![IndexOf(buckets, c)] =
             IF now >= @.resetAt THEN FreshBucket(c, now) ELSE OneMore(@)]
    ELSE (IF Forgotten(buckets, c) = {} THEN buckets ELSE Tail(buckets))
             \o <<FreshBucket(c, now)>>

(* next() is called, judged by the bucket after the request was counted. *)
Passes(buckets, c) == buckets[IndexOf(buckets, c)].count <= limit

=============================================================================
