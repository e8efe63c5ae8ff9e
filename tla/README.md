# InkCache: a TLA+ verification project

This directory holds TLA+ models of InkCache (`src/core`, `src/network`, `src/dashboard`), the
TLC configurations that check them on small instances, and theorems about them
that TLAPS proves for every value of the constants. `PROJECT.json` lists the
components, runs, mutants, hazards, findings and theorems, and maps every
definition to the lines it models.

## 1. The system

InkCache is an in-memory key-value cache in TypeScript. A *cache node* is one
Node.js process (`network/server.ts` around `network/app.ts`); a *gateway* is
another (`network/gateway-server.ts` around `network/gateway.ts`) that routes
requests to cache nodes. JavaScript runs every handler to completion, so the
hard behaviour is between the `await`s of one process and between processes.

| Part | State | Operations | Hard behaviour | What makes it correct |
|---|---|---|---|---|
| Cache store, `core/cache.ts` | a `Map` whose order is the recency list; deadline and hits per entry | set, get, has, ttl, delete, deleteByPrefix, clear, sweep, listing, eviction | expired entries that were not swept yet; a full store; long sequences that bring order and use out of step | a read of a key tells its last write unless the key is gone; only deletion, a TTL or a full store takes a key; capacity is kept; only a full store without expired entries evicts; the policy evicts what it documents |
| Election, `core/election.ts`, `network/election-client.ts`, parts of `app.ts`, `server.ts`, `primary-monitor.ts` | term, vote; role, primary, replicas; campaign in flight; monitor with its streak | vote, announce, adopt, promote, campaign, health check | lost, late and reordered calls, timeouts, races of candidates, state used after an await, restarts | one winner per term; nobody follows a deposed leader; a node watches its primary and the primary feeds its followers; campaigns end; failover completes |
| Gateway, `network/health-check.ts`, `cluster.ts`, `gateway.ts`, `gateway-sync.ts` | health map, hash ring; checks and gossip in flight | register, deregister, check, gossip, proxy | a node removed or re-registered while a check is awaited; stale lists on the wire | ring and map agree; dead nodes leave, live ones return; gateways converge |
| Hash ring, `core/hashring.ts`, and the proxying routes of `gateway.ts` | sorted virtual points; requests in flight | add, remove, getNode; proxy | wrap-around, equal hashes; a ring that changes while a request is out | binary search finds the successor; gateways with the same nodes agree; only the keys of the node that leaves or joins move |
| Replication, `network/replication.ts` and the write handlers of `app.ts` | the replicas' stores, calls in flight | forward, apply, pull a snapshot | reordering and loss of fire-and-forget calls, evictions and expiries that nobody forwards, writes that cross a re-sync, re-sync without clearing | key by key, replica and primary differ only while the latest word on the key is under way or was missed, or where one of them dropped it |
| Persistence, `network/persistence.ts`, start and shutdown in `server.ts` | the snapshot file and its temporary file | save, load, periodic save | overlapping saves, crash between write and rename, signal during load | the file is a whole snapshot; a shutdown that ends the process has saved; keys leave the file only if they left the store |
| Rate limiter, `network/rate-limit.ts` | buckets per client, a bounded table | count a request | touching windows, a full table | less than twice the limit in any stretch of a window, unless the full table forgot the client |
| Access predictor, `core/access-predictor.ts` | last key, bounded transition table | record, predict | tables at their limit | predictions were observed, exact below the limits |
| Metrics, `core/metrics.ts` | counters, ring buffer with running sum, timestamps, history | record, snapshot | wrap-around, pruning and compaction, idling | a snapshot is what the operations themselves give |
| Auth, CORS, env | none | check, parse | none | (only their place in a request's path) |
| Dashboard, `dashboard/src` | polled counters, key view, simulator | poll, fetch keys, simulate, mount, unmount | answers in any order, calls that outlive the page, a node that restarts | the key view has what the counters have; every eviction is reported, and no page repeats itself; one simulated request at a time |
| Benchmarks, `scripts/` | none | measure | none | (not modelled) |

Interactions: a replica's monitor pings its primary and, after a streak of
failures, starts a campaign; the campaign calls `/election/request-vote` on the
peers; a winner flips `ROLE` and calls `/election/leader` on the peers; adopting a
leader re-attaches the monitor and pulls a snapshot. A primary forwards writes to
`REPLICA_URLS`. Nodes register with gateways and deregister on shutdown; gateways
ping all nodes they know and exchange node lists with their peers.

## 2. Modules

| Module | Models | Kind |
|---|---|---|
| `Election` | terms, votes, campaigns, promotion, announcements, monitors of one replica group | specification, properties, inductive invariants |
| `ElectionRestart` | `Election` plus process restarts | composition |
| `ElectionFailover` | `Election` with the configured primary dead and a network that may calm down | composition, fairness |
| `MCElection` | symmetry for TLC | model |
| `ElectionProofs` | theorems about `Election` and `ElectionFailover` | proofs |
| `CacheContract` | what a client of a node's store may rely on | abstract specification |
| `CacheStore` | `core/cache.ts` | specification, refinement of `CacheContract` |
| `CacheHistory`, `MCCache` | `CacheStore` with an independent log of uses | specification, model |
| `CacheStoreProofs` | theorems about `CacheStore` and `CacheHistory` | proofs |
| `Gateway` | health checks, membership and gossip of several gateways | specification, properties |
| `GatewayProofs` | theorems about `Gateway` | proofs |
| `Ordering` | positions in the order a comparison gives them: `Array.sort`, `Array.filter`, binary search | operators |
| `HashRing` | `core/hashring.ts` and a reference definition of the owner of a key | operators |
| `Routing`, `MCRouting` | requests proxied by several gateways over `HashRing` | specification, model |
| `RoutingProofs` | theorems about `HashRing` and `Routing` | proofs |
| `Persistence` | the life of a process and its snapshot file | actions, properties |
| `Replication`, `MCReplication` | a replica (with `Persistence`) and its primary | composition, model |
| `ReplicationProofs` | theorems about `Replication` and `Persistence` | proofs |
| `RateLimiter`, `AccessPredictor`, `Metrics` | the bounded summaries a node keeps of its traffic | operators |
| `NodeApi` | the path of a request through `app.ts` over those three | actions |
| `RequestHistory`, `MCRequests` | `NodeApi` with a record of what really happened | specification, model |
| `RequestProofs` | theorems about `RequestHistory` | proofs |
| `Dashboard`, `MCDashboard` | the console page and its node | specification, model |
| `DashboardProofs` | theorems about `Dashboard` | proofs |
| `SequenceLemmas` | induction, least and greatest elements, removal from a sequence, sorting, filtering, binary search | lemmas |

`MCCache`, `MCReplication`, `MCRequests` and `MCDashboard` check the specification they
extend under several *workloads*: the first state chooses one, and it limits which steps
are taken and how many. Every step of a workload is one of the specification's `Next`;
the properties are those of the specification, and the theorems are about it without any
workload.

An operator whose comment begins with "Mutant" is a faulty variant of the
definition that follows it. No specification uses it; replacing the definition by
it must make the property `PROJECT.json` names fail, which shows that the property
depends on that piece of code.

### 2.1 Election

Names follow the code: `currentTerm`, `votedFor`, `ROLE`, `PRIMARY_URL`,
`REPLICA_URLS`, `electionInFlight`. `campaign` holds the locals of `runElection()`
(the term it campaigns for, the calls still open, the votes counted), `monitor` the
current primary monitor, `orphans` the checks of stopped monitors: `stop()` only
clears the interval, so a check that was awaiting its ping still calls `onFailure`.
`requests`, `replies` and `announcements` are the network. A message stays until
it is handled or for ever; `VoteCallFails` is the abort timer, after which a request
may still be handled. `ballots` and `wins` are history variables.

* `CheckSucceeds`, `CheckFails`, `OrphanCheckFails`, `OrphanCheckHarmless`:
  `check()` after its await, with `onFailure` and the start of `campaignForPrimary()`
  up to the await in `runElection()`.
* `GrantVote`, `RefuseVote`: `POST /election/request-vote`, with the step-down.
* `ReceiveGrant`, `VoteCallFails`: the ways `requestVoteFrom()` ends.
* `CampaignWon`, `CampaignLost`: the rest of `campaignForPrimary()`.
* `StaleLeader`, `AdoptLeader`: `POST /election/leader` and `onLeaderElected`.
* `Promote`: `POST /promote`.

Abstractions: a refusal is one of the reasons for `VoteCallFails` (the code treats
them alike); a streak of failures is kept up to `Threshold - 1`, which stands for
all longer ones; the re-sync of data after adopting a leader is left to the
replication model. Every replica lists all others as peers, as `docs/api.md` asks.
The configured primary is in no peer list, so it neither votes nor hears of
elections; it is only `Origin`, the target of pings.

A group of two replicas is the smallest with peers, and one where a tie is possible.

`ElectionRestart` adds `Restart`: a new process with term 0, no vote, the
configured role and primary. `ElectionFailover` restricts when checks and calls may
fail (`calm`).

### 2.2 Cache store

`entries` is the Map, `older` the order of its keys as a relation, and `left` the
ticks until an entry's deadline, so that `left = 0` is `now >= expiresAt`. `Set`,
`Get` (also `getWithTtl`), `Peek` (`has`, `ttl`) and `exportEntries` (also `keys`,
`detailedKeys`), both of them `Listing`, which tells of the live keys and deletes the
expired ones it meets, `delete`, `deleteByPrefix`, `clear`, `sweep` and `Tick`.
`evicted` records the call of `onEvict`, `call` what the step was asked for and of which
keys, `reply` what it told. A prefix is represented by the set of keys that start with
it. A TTL of 0 is no TTL, as in `set()`.

`CacheContract` knows no order, policies or sweeping. Its steps are the calls: a read
tells of exactly those of the keys asked for that are there, with their last values; a
write puts its key and costs no other while there is room and exactly one when the store
is full of live keys; a deletion takes the keys it names; and a step nobody called for
takes only keys that were written with a TTL. `CacheStore` has the same `call` and
`reply`, so no step can pass for another: a sweep or a tick is a step without a call.
The refinement mapping `Visible` hides expired entries, so reclaiming them changes
nothing for the contract, and the moment an entry expires does.

### 2.3 Gateway

`health[g]` is the health map ("unknown": no entry), `ring[g]` the nodes in the
router, `asked`/`answered` the checks under way, `syncRequests`/`syncReplies` the
gossip on the wire with the node list as it was when it was sent. `Verdict` is the
code after the await in `checkAll()`: it looks the node up again. `removed` is a
history variable. The default intervals (2 s, 5 s) are longer than the timeouts
(1 s), so a gateway has one check round and one gossip call per peer under way at a
time; a gossip call that timed out is either handled before the next one is sent or
lost. URLs are normalised by the handlers before they reach this state.

### 2.4 Hash ring and routing

`HashRing` has the array of points and, index by index, the binary search. MD5 is any
placement of the points in a small hash space, ties included; a key is its hash. The
reference, `Successors`, looks at the points of a set of nodes and knows no array. In
`Routing` each gateway adds and removes nodes in its own time (why it does is in
`Gateway`), a proxied request carries the node chosen when it arrived, and nodes crash
with their data. `homeLost` says whether the first owner of the followed key ever left
a ring or crashed; moving keys to a new owner is nowhere in the code.

### 2.5 Persistence and replication

`Persistence` takes `saveSnapshot()` apart at every await: the store is captured at
once, then the one temporary file is opened (and so emptied), written, renamed. The
saves of the timer and of each signal's `shutdown()` interleave freely; `fd` follows a
file that is renamed while another save still writes to it, and what two writers leave
is either payload or garbage (`Torn`): whenever two saves had the file open at the same
time either is considered, though the real bytes depend on their lengths. A process is
started, loads, syncs, serves, is signalled once per signal, exits or is killed anywhere.
`Kill` is the end of the process, not of the machine: the code flushes nothing to the
disk (no `fsync`), so what a power failure leaves of a renamed file is not modelled.

A store is a function from keys to values; of `CacheStore` it keeps what others can
tell. `Stored` is what `set()` leaves in a store of given capacity, whichever keys the
policy picks; values in `Mortal` were set with a TTL and go at any time (`Expire`,
`ExpireHere`, `ExpireThere`).

`Replication` adds the primary: one action per write handler, `Restore` (which forwards
nothing), the forwarded calls, which arrive in any order or never, `/snapshot` and
`syncFromPrimary()` with its attempts, and a change of leader, after which the new
primary may hold anything. For each key `word` says what became of the latest word on
it: under way, arrived last, or missed (lost, overtaken by an older one, undone by an
answer to a sync that is older than it, or a restore, which no call tells of).
`lostThere` and `lostHere` are the keys that were evicted or expired since. These are
history variables. Bounds of the model: one replica; one pull at a time (the code would
let the pulls of two changes of leader overlap); a periodic save is over before the next
one is due; the primary does not restart, other than by a change of leader, which may
bring any store.

### 2.6 The node's bookkeeping

A request goes through limiter and auth in one step (`Throttled`, `Unauthorised`,
`Authorised`); then `express.json()` reads its body as it arrives, and other requests and
ticks come in between: `reading` counts the requests whose bodies are being read. The
route with its metrics and predictor is one step again, as the process does not yield
there. A request without a body goes on at once, which the model allows as well. What the
route does to the store is in the other modules; here a read hits or misses. Time is in
ticks and never goes back; the interval of `startHistory()` fires at every tick.
Latencies are whole numbers, so the running sum of the model has no rounding error.
`RequestHistory` records every request let through, every operation and every read, and how
often the limiter's table forgot a client, and the properties compare the bounded
structures with what these records give. The workloads of `MCRequests` are the limiter
alone (`limits`), everything a request can be (`mix`), and clients that read and wait for
each answer (`reads`).

### 2.7 Dashboard

Every call of the page is sent, handled or not, and settles later in any order.
`useKeyStats` is the effect that runs when `keyRefreshToken` changes, `cancelled` its
cleanup. `timer` and `inFlight` are module variables of the simulator and outlive the
page. So do polls: `useNode()` has no cancellation, so `polls` says which page each
belongs to, and a page that was left still takes its last answers in (`seen`) and logs the
evictions it finds. Of the node the model has the process (`epoch`) and the counters of
`/metrics`; the keys listed by `/keys/stats` are represented by the counters at that time.
A counted change evicts at most one key; `POST /restore` and replicated sets evict without
being counted (`Handled`). The home page polls with the same hook; it is not opened here.

The workloads of `MCDashboard` are `simulator`, with all actions, and two without the
simulator, whose requests are to the page what another client's are, and without polls
that fail, which change only `status`: `keys`, and `reports`, where key fetches fail,
since the reports do not look at them.

## 3. Runs

| Run | Instance | Shows |
|---|---|---|
| `election` | 3 replicas, 2 of them campaign, 2 terms, `Threshold` 1 | `VoteOncePerTerm`, `ElectionSafety`, `MonitorsItsPrimary`, `FollowersReceiveWrites`, `AdoptsCurrentLeader` |
| `election_failover` | 2 replicas, 3 terms, `Threshold` 2, one of them may be promoted by hand; a network that is calm throughout, in the end, or never; with fairness | `ElectionSafety` where ties and manual promotion are possible, `CampaignEnds`, `FailoverCompletes`, `LeaderlessOnlyBySteppingDown` |
| `election_stale_win` | as `election` | violation of `OnePrimaryOnceSettled` |
| `election_restart` | 3 replicas, 1 term, 1 restart | violation of `ElectionSafetyAcrossRestarts` |
| `election_headless` | as `election_failover`, `Threshold` 1, nobody promoted by hand | violation of `AlwaysLedInTheEnd` |
| `cache` | 4 keys with one value, and 2 keys with 2 values; capacity 3, sample 2, TTL 0 or 1, all policies, with fairness | `KeepsContract` (refinement), `WithinCapacity`, `EvictsOnlyWhenAllLive`, `EvictsTheColdest`, `ExpiredIsReclaimed` |
| `gateway` | 2 gateways, 1 node, 2 registrations or deregistrations, with fairness | `RingMatchesHealth`, `ChecksNeverResurrect`, `DeadNodeLeavesTheRing`, `RecoveredNodeReturns`, `GatewaysConverge` |
| `gateway_deregister` | 2 gateways, 1 node, 3 changes | violation of `DeregisteredIsForgotten` |
| `routing` | 2 gateways, 3 nodes with 2 points each in a hash space of 3, any order of configuration, 1 request under way, 2 moves or crashes | `LookupFindsSuccessor`, `GatewaysAgree`, `OnlyItsKeysMove`, `HomeKeepsItsKeys` |
| `replication` | 2 starts, 2 attempts, stores for 2 keys; either 3 keys, 2 values, one of them with a TTL, 3 writes or changes of leader, no saves; or 1 key, 1 value with a TTL, 2 signals, saves | `DiffersOnlyWhereMissed`, `TornOnlyByOverlap`, `CleanExitSaves`, `FileKeepsKeys` |
| `requests` | limit 2 per window of 2 ticks, a table of 2 clients, a predictor of 3 keys with 2 candidates, buffers of 2, times up to 3. `limits`: 3 clients, 8 requests let through; `mix`: 1 client, 2 keys, 4 requests; `reads`: 4 keys, 10 reads, up to 3 predictions asked for | `SnapshotIsExact`, `BurstIsBounded`, `PredictionsAreObserved` |
| `dashboard` | 2 pages. `simulator`: 1 change, 1 eviction, 1 poll, 1 fetch, 2 simulator calls; `keys`: 2 changes per process, 1 restart, 2 polls, 2 fetches; `reports`: 1 change, 2 evictions, 3 polls, 1 fetch | `SimulatorContained`, `KeyViewFollowsMetrics`, `EvictionsReported` |

Bounds. Two campaigning replicas are enough for every race of candidates, and the third is
the voter both need; two terms let a message of the first arrive in the second. A group of
two has ties. `Threshold` 2 exercises streaks. In `cache` a write can meet a full store
that holds no, some or only expired entries; three kept keys and a sample of 2 are what it
takes for the sampled policy to differ from both LRU and LFU; and with two keys and two
values a read of the wrong key or of an old value tells. What the latest call was and what
it answered decides nothing of the next step, so states that differ in nothing else count
as one (`CacheView`); the properties still see every step. One node is enough for the
interleavings of checks, changes and gossip, as nodes do not influence each other; two
changes allow a node to be removed and registered again while a check is awaited. In
`routing` six points on three hashes make every ring have equal hashes, and placements
that leave the last hash free make lookups wrap around; two moves let a node leave one
ring and the other, or come back behind the others with its hash. In `replication` three
keys in stores for two make both ends evict, each its own choice, and the third key shows
that a step about others leaves a key alone; three changes are a write, what overtakes or
removes it, and what comes after; pulls can be crossed, fail, or follow a change of
leader. Where it saves, two signals and the timer make three saves that can overlap, and
the second start reads what the first process left. In `requests` four requests wrap the
buffer of two samples and refill it; with a limit of 2 a client can begin its window with
one request, put the other at its end and two more right behind it, so that the bound
`2 * limit - 1` is met; with two other clients the table forgets it and gives it one limit
more; four keys in a table of three make keys, and two candidates of three make
candidates, be dropped and come back, and a newcomer be dropped itself, and ten reads
reach this with counts above one. Clients and keys are numbers there and appear in their
order, as any other order differs only in the names. In `dashboard` two of each call are
what it takes to overtake, the third poll is one that an earlier page still awaits.
`MaxTerm`, `MaxHits`,
`MaxChanges`, `MaxEvictions`, `MaxMoves`, `MaxTime`, `MaxRequests`, `MaxStarts` and
`MaxRestarts` bound counters of the model only. `CHECK_DEADLOCK FALSE` is set where these
bounds stop the model (elections, `replication`, `requests`).

Fairness. In `election_failover` the timers of a replica fire, those that abort a call
among them, and an await that is settled continues, whatever the network does; calls are
handled again and again only once the network is calm. That it calms down is assumed
nowhere: it is a premise of `LeaderlessOnlyBySteppingDown`, as being calm throughout is of
`FailoverCompletes`, and `CampaignEnds` has neither.
`ExpiredIsReclaimed` assumes that the sweeper's interval fires.
`DeadNodeLeavesTheRing` and `RecoveredNodeReturns` assume that the check interval
fires, that a check ends, and (strong fairness) that a live node that is asked
again and again answers in time again and again. `GatewaysConverge` assumes that
gossip rounds are started again and again and not all of them fail.

## 4. Findings

1. *A stale win* (`election_stale_win`, `server.ts:192`). `campaignForPrimary()`
   does not look at its term again after the await. A candidate that collected a
   majority for term 1 can vote for another candidate in term 2 while its last call
   is open, and then promote itself for term 1. The others reject its announcement as
   stale; two primaries remain. `app.ts:464` says that cannot be.
2. *A forgotten vote* (`election_restart`, `app.ts:111`). A voter that restarts
   votes again in the same term. `docs/api.md:761` calls the missing persistence safe.
3. *A node that comes back* (`gateway_deregister`, `gateway.ts:222`). Gossip adds
   whatever is not known, so a list sent before a deregistration undoes it, even if
   every gateway was told to remove the node.
4. *A headless group* (`election_headless`, `app.ts:479`). A primary that votes in a newer
   term becomes a replica without a primary and without a monitor. If the candidate does
   not get the answer in time it loses, goes on watching that node, finds it healthy, and
   nobody campaigns again, although the network is calm. `docs/api.md:752` says that
   one of the replicas wins.
The passing runs state some properties with the exceptions the code has. These are:

* *Stepping down* (`LeaderlessOnlyBySteppingDown`): finding 4 is the only way for a group
  to be left without a primary.
* *Overlapping saves* (`TornOnlyByOverlap`, `FileKeepsKeys`, `CleanExitSaves`,
  `persistence.ts:24`). All saves share one temporary file. A save can rename the file
  another one has just emptied, and a kill then leaves a torn file, which
  `persistence.ts:18` says never happens; or the older of two states.
* *Saving too early* (`FileKeepsKeys`, `CleanExitSaves`, `server.ts:306`). A signal while
  the file is being loaded makes `shutdown()` save a store over it that has none of it,
  so a stop during the start loses what `server.ts:53` says a restart keeps.
* *A save cut short* (`CleanExitSaves`, `server.ts:309`). `shutdown()` runs once per signal.
  The property speaks of the `shutdown()` that ends the process, if its own final save did
  not fail: the file then has what that save captured, or a later final save. A save
  of another signal that is under way is cut short; what changed between the two captures
  is lost with it. A failed final save is only warned about and exempt.
* *A replica that differs* (`DiffersOnlyWhereMissed`). A call that failed is not repeated, an
  older call that arrives late undoes a newer one, and so does the answer to a pull that a
  write has crossed. A pull sets the keys of the snapshot and removes none
  (`replication.ts:102`), so a replica that missed a deletion keeps the key also after the
  pull that `replication.ts:36` counts on, unless its store was empty: it is not when the
  replica loaded a file, or when only its leader changed. `/restore` is not forwarded, as `docs/api.md:620` says; evictions and expiries are
  not forwarded either. On such a key replica and primary may differ until it is written
  again.
* *Forgotten clients* (`BurstIsBounded`, `rate-limit.ts:48`). A full table drops its
  oldest bucket, and with it that client's count: each time, the client may pass one limit
  more.
* *Equal hashes* (`GatewaysAgree`). Where points of two nodes have the same hash, the
  node that joined first owns it, and gateways can have seen different orders.
* *Stale keys on the page* (`KeyViewFollowsMetrics`, `Dashboard.tsx:60`). Flushes,
  invalidations, restores and, at a replica, replicated writes do not change
  `keyRefreshToken` (but for what they evict), though the comment speaks of "any write-ish
  op"; a restarted node can count up to the same token; and a fetch that failed leaves the
  view empty until the token changes.
* *Repeated evictions* (`EvictionsReported`, `useNode.ts:57`). An answer that was overtaken
  sets the page's last count back, and evictions are reported again. A poll that is still
  out when the page is left reports into the log that the next page shows; if the next page
  had its first answer before, it reports the same eviction itself. A restarted node counts
  from zero: what it evicts is reported only once it has passed the last count.

Also met while modelling: `announceLeader()` cannot reach the configured primary,
which is in no peer list, so the "old-primary-returning-after-a-partition case" of
`app.ts:494` arises only for an elected primary; and a candidate that is refused
ignores the term in the answer (`election-client.ts:36`), contrary to the comment
above `announceLeader()` ("observe the higher term via /election/request-vote's
response").

## 5. Proofs

All proofs are for arbitrary constants that satisfy the named assumptions.

`ElectionProofs`. `ElectionSafety` is not inductive. `VoteInv` adds: a vote given in a
term stays locked in while the term lasts (`VotesLocked`), a candidate counts only
votes that were given to it for the term it campaigns in (`CampaignsBacked`), and a
majority stands behind every win (`WinsBacked`). Two majorities of one finite set
intersect (shown from the library's cardinality theorems), and the voter in both
voted once (`VoteOncePerTerm`). `FollowInv` adds to `MonitorsItsPrimary` that
announcements come from winners and that an elected primary forwards to all its
peers (`LeadersFollowed`); from it follow `FollowersReceiveWrites` and the action
property `AdoptsCurrentLeader`. `FailoverImplementsElection`: each step of
`ElectionFailover` is a step of `Election` or a stutter, so all of these hold
during a failover too. Assumed: the group is finite, names are distinct,
`Threshold` is positive.

`CacheStoreProofs`. `WithinCapacity` by induction with the type invariant, by the
cardinalities of what `evict()` drops. `Refinement`: every step of `CacheStore` is, under
`Visible`, the step of `CacheContract` with the same call and the same answer, or a stutter;
the case of `Set` needs the capacity invariant, since the contract allows a live key to be
lost only when the store is full of live keys; those of `sweep` and `Tick` that nothing
without a TTL expires. `EvictionIsLastResort` is the action property
`EvictsOnlyWhenAllLive`. `EvictionIsColdest` is the action property `EvictsTheColdest`
of `CacheHistory`. It compares the victim with a log of uses that the code does not keep,
so its invariant `LogInv` says that the code's own state is as good: the log lists the
keys present in the order of the Map (`Lists`), and the hits of an entry are the reads
logged. From it a key has as many older ones as its position in the log says
(`RankOfListed`, a bijection), which makes the candidates of the access-aware scan the
first of the log. Assumed: finitely many keys, a positive capacity and sample.

`GatewayProofs`. `TypeOK` and `RingMatchesHealth` are inductive together; one lemma per
way in which the map and the router change. `ChecksNeverResurrect` follows from the
lemma that a verdict changes the set of known nodes for no gateway.

`ReplicationProofs` (with `Persistence`). Assumed: the keys are finitely many, the
capacities positive, neither mark of a file is a store, the timer is no signal. Types are
inductive by themselves (`TypeCorrect`). For the rest three invariants:

* `FileInv`, for `TornOnlyByOverlap`. That the file is whole says nothing of the
  temporary file, so it is not inductive. Added: saves at the same time know of each
  other (`SharersKnow`), a save that shares its time with no other has the temporary
  file for itself and finds there what it wrote (`AloneOwnsTmp`), and whoever holds the
  file under its final name was overtaken (`LateWriterOverlaps`).
* `ExitInv`, for `CleanExitSaves`: what may run in which phase (`PhaseInv`); a final save
  that is alone counts for every shutdown whose own final save has begun, and a periodic
  one is never alone with it (`SinceInv`); so the file counts for a shutdown from the end
  of its final save on (`SavedInv`), unless that failed, until saves overlap.
* `KeysInv`, for the action property `FileKeepsKeys`: a payload on its way
  has only keys the process has or had, and a save that is alone has all keys of the
  file except those removed since.

`DiffersOnlyWhereMissed` with `WordInv`: operations are numbered in the order of the
writes (`Numbered`), the answer to a sync has, for every key not written since, the
primary's value unless the primary dropped it (`AnswerHolds`), a process that is down has
taken nothing (`NothingTaken`), and the keys recorded as lost are gone at that end until
they are written again (`LostAreGone`). One lemma per way in which the set of calls on the wire,
or either store, changes.

`DashboardProofs`. Assumed: the bounds are numbers. `TypeInv` adds to `TypeOK` that only
the latest fetch is not cancelled and what the answers in flight may be. That answers of
one process are ordered, the process being the furthest (`KnownInv`), gives
`EvictionsReported`: `ReportInv` says that no report is missing (`Complete`), that a page
whose answers came in order has reported nothing beyond its last (`InOrderReports`), and
that what a page reported while it was open is at most what any later page starts from
(`OpenReports`). `KeyInv` says that the node, the answer of the fetch that counts and,
when there is no such fetch, the keys on the page are past the token; it gives
`KeyViewFollowsMetrics`. `SimulatorContained` is an induction over the single calls in
flight.

`RequestProofs`. Assumed: limits and table sizes are positive, the history holds more
than one snapshot (with one, `slice(-0)` would keep them all), the percentile is one of 1
to 100, `NoKey` is no key.

* `TypeOK` from `TableInv`, `PredictorInv` and `MetricsInv`, one for each structure.
* `BurstIsBounded`. `Accounts` ties a bucket to the record: it began with a request let
  through, counted all since, let no more than the limit through and none at or after its
  end; and any stretch that reaches its begin holds, of the requests before it, no more
  than the client's `Share`: a limit less one, and a limit more for each time it was
  forgotten. `WindowInv` says this of every client with a bucket; a stretch of a window is
  cut where the bucket began. That the request a bucket begins with is itself one of the
  limit is where the "less one" comes from.
* `PredictionsAreObserved`. `ObservedInv` ties the table to the reads: `Faithful` says
  that each candidate was observed as often as it counts, and, as long as no more keys had
  a successor than the table holds, that every such key has its entry, with all its
  candidates and exact counts where no more were seen than an entry holds. That an entry
  is never dropped while the table suffices needs that the table has no key twice
  (`TableLength`); that no candidate is, the same of an entry (`ObservedLength`).
* `SnapshotIsExact`. It says what is read from the collector, not what is in it, so it is
  not inductive. `SnapshotInv` says the latter. `Ring`: reading the buffer from
  `latencyIdx` on gives the last samples in their order, and the sum is theirs; the
  order matters because the next sample replaces the oldest. `Queue`: the timestamps are
  those of the last operations, and those that were compacted away or are before the head
  are stale, hence for good (`Timely`: operations come in the order of their times). A
  snapshot at any time from now on follows (`SnapshotExact`). The count of the window: the
  binary search starts at the head, and the stale timestamps are a prefix (`RecentExact`).
  The percentile: the sorted buffer is a permutation of the samples, so each set of values
  occurs in both equally often (`TimesPermuted`), and in a sorted sequence the rank
  ⌈N·p⌉ holds the least value that p of all do not exceed (`NearestRank`). The snapshot
  a tick adds to the history is thus exact, and stays so, because later operations
  are not before its time.

`RoutingProofs`. Assumed: finitely many nodes, at least one virtual node and one hash, the
followed key's hash is one. `RingsInv` says of every ring that it is sorted, has each
point of each of its nodes at exactly one index and no other (`HasPoints`), and so is as
long as it should be. `SortProperties` and `RemoveEmbeds` say what `sort()` and `filter()`
do; both rest on `InOrderLists`. A sorted ring has a cut, and the binary search ends there
(`BisectFindsCut`); the point there, or the first when there is none, is a nearest one
clockwise (`LookupFindsNearest`). This gives `LookupFindsSuccessor`, and with the points
of a ring determined by its nodes `GatewaysAgree`. `OnlyItsKeysMove` also holds where
points share a hash; for it `Embeds` keeps the order of such points when a node joins or
leaves. `HomeKeepsItsKeys` from `HomeInv`: while no first owner was lost, every ring has
them all, every request under way is to the only one, and it has the last write.

`SequenceLemmas` has the induction these proofs use. The library's induction theorems
take an operator, which cannot be instantiated here; `NatSetInduction` is the same for
a set of numbers (a least number outside of it would have a predecessor inside), and
recursive functions and folds over tuples or sets are reasoned about as a function
that satisfies their equation, which is shown to exist. For the ring and the metrics it
has what sorting by a key, filtering and the binary search give: `SortedByProperties` and
`PickedProperties` list the indices in order by `InOrderLists`; a predicate that holds
first and then no more has a cut (`CutExists`), and by induction on the length of the part
searched the search returns the cut clamped to that part, so the cut itself when it is
within (`BinarySearchFindsCut`).

Some leaves name the prover or a time limit (`SMTT(30)`, `ZenonT(30)`): these need more
than half of the default time.

The auxiliary invariants above were model-checked on small instances while
the proofs were made; no run repeats them, as the theorems establish them for all
constants.

Only model-checked: liveness under fairness (`CampaignEnds`, `FailoverCompletes`,
`LeaderlessOnlyBySteppingDown`, `ExpiredIsReclaimed`, `DeadNodeLeavesTheRing`,
`RecoveredNodeReturns`, `GatewaysConverge`), which is out of the prover's reach. Every
other property of a passing run is stated by a theorem.

## 6. Not modelled, and the plan

* Comparing keys (`auth.ts`), CORS origins, parsing of environment variables, URL
  normalisation, logging and the wording of answers: stateless string handling.
* The dashboard's console input and history, event log, sound, boot sequence, charts
  and all other rendering: no state that other parts depend on.
* The benchmark scripts: sequential programs that start processes and print tables.
* A clock that goes back: `Date.now()` is taken to be monotone.
* The configured primary as a voter: no peer list contains it.
* Overlapping pulls of two changes of leader, and several replicas of one primary (they
  do not influence each other outside elections).
