------------------------------ MODULE NodeApi ------------------------------
(***************************************************************************)
(* network/app.ts as the path of one request through a cache node: the     *)
(* rate limiter, then authentication, then the body parser, then the       *)
(* route, which records what it did in the metrics and the predictor.  The *)
(* Node process does not yield before the body parser nor after it, but    *)
(* express.json() reads the body of a request as it arrives: other         *)
(* requests and ticks come in between.  A request without a body goes on   *)
(* at once.  INKCACHE_RATE_LIMIT and INKCACHE_API_KEY are set; /health,    *)
(* which both exempt, changes nothing.  What a route does to the store is  *)
(* in CacheStore and Replication; here a read may hit or miss.             *)
(***************************************************************************)
EXTENDS RateLimiter, AccessPredictor, Metrics

CONSTANTS
    Keys,
    latencyUs,    \* of a get, a set and a delete
    MaxTime       \* bound: ticks of the clock

ASSUME NodeApiAssumption ==
    /\ NoKey \notin Keys /\ MaxTime \in Nat
    /\ latencyUs \in [{"get", "set", "delete"} -> Nat]

VARIABLES
    now,        \* Date.now(), in ticks
    ROLE,
    buckets,
    reading,    \* how many admitted requests express.json() has yet to hand on
    metrics,
    predictor

apiVars == <<now, ROLE, buckets, reading, metrics, predictor>>

Init ==
    /\ now = 0
    /\ ROLE \in {"primary", "replica"}
    /\ buckets = <<>>
    /\ reading = 0
    /\ metrics = NewCollector
    /\ predictor = NewPredictor

-----------------------------------------------------------------------------
(* The middleware. *)

(* createRateLimiter counts the request, whatever becomes of it. *)
Arrives(c) == buckets' = Counted(buckets, c, now)

Throttled(c) ==
    /\ Arrives(c)
    /\ ~Passes(buckets', c)
    /\ UNCHANGED <<now, ROLE, reading, metrics, predictor>>

Admitted(c) == Arrives(c) /\ Passes(buckets', c)

(* 401 of createAuthMiddleware(): no key, or another one, is presented. *)
Unauthorised(c) ==
    /\ Admitted(c)
    /\ UNCHANGED <<now, ROLE, reading, metrics, predictor>>

(* The key is accepted, and the request goes to express.json(). *)
Authorised(c) ==
    /\ Admitted(c)
    /\ reading' = reading + 1
    /\ UNCHANGED <<now, ROLE, metrics, predictor>>

-----------------------------------------------------------------------------
(* A request whose body was read, or that had none. *)

Parsed ==
    /\ reading > 0
    /\ reading' = reading - 1
    /\ UNCHANGED <<now, ROLE, buckets>>

(* The answers that are not recorded: 400, 413 and 404 of the middleware,   *)
(* 409 of rejectIfReplica(), 400 of validateEntry() and the other checks of *)
(* a body, and the routes that neither time what they do nor tell the       *)
(* predictor.                                                               *)
Unrecorded == Parsed /\ UNCHANGED <<metrics, predictor>>

(* The replica's answer to a write is 409. *)
rejectIfReplica == ROLE = "replica"

(* timed() and metrics.record(). *)
Timed(op, hit) == metrics' = record(metrics, op, latencyUs[op], hit, now)

Get(k, hit) ==
    /\ Parsed
    /\ Timed("get", hit)
    /\ predictor' = recordAccess(predictor, k)

Set ==
    /\ Parsed
    /\ ~rejectIfReplica
    /\ Timed("set", FALSE)
    /\ UNCHANGED predictor

Delete ==
    /\ Parsed
    /\ ~rejectIfReplica
    /\ Timed("delete", FALSE)
    /\ UNCHANGED predictor

(* GET /predict, whose path through the middleware is Unrecorded: topN is   *)
(* the default or the ?top= of the request, at most 20.                     *)
Prediction(k, topN) == predict(predictor, k, topN)

(* The interval of startHistory() fires at each tick. *)
Tick ==
    /\ now < MaxTime
    /\ now' = now + 1
    /\ metrics' = startHistory(metrics, now')
    /\ UNCHANGED <<ROLE, buckets, reading, predictor>>

=============================================================================
