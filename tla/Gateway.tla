------------------------------- MODULE Gateway -------------------------------
(***************************************************************************)
(* The cluster gateways and what they know about the cache nodes:          *)
(*                                                                         *)
(*   network/health-check.ts    the health map, checkAll(), addNode() and  *)
(*                              removeNode()                               *)
(*   network/cluster.ts         the router, here the set of nodes in its   *)
(*                              hash ring                                  *)
(*   network/gateway.ts         POST and DELETE /cluster/nodes and         *)
(*                              POST /cluster/sync                         *)
(*   network/gateway-sync.ts    the gossip between peer gateways           *)
(*   network/gateway-server.ts  how these are put together                 *)
(*                                                                         *)
(* A health check and a gossip round await an answer; everything else may  *)
(* happen in between.  Handlers run to completion.  Every gateway lists    *)
(* every other as a peer.  URLs arrive normalised, as resolveClusterNodes  *)
(* and the handlers of gateway.ts make them.                               *)
(***************************************************************************)
EXTENDS Naturals, FiniteSets

CONSTANTS
    Gateways, Nodes,
    Configured,  \* INKCACHE_CLUSTER_NODES
    MaxChanges   \* bound: registrations and deregistrations in a behaviour

ASSUME ConfiguredAssumption == Configured \subseteq Nodes
ASSUME MaxChangesAssumption == MaxChanges \in Nat

VARIABLES
    alive,         \* the nodes whose /health answers
    health,        \* per gateway the Map: "up", "down", or "unknown" (no entry)
    ring,          \* per gateway the nodes in the router's ring
    asked,         \* per gateway the checks whose answer is awaited
    answered,      \* per gateway the checks a live node has answered
    syncRequests,  \* POST /cluster/sync on the wire, with the sender's list
    syncReplies,   \* its answers on the way back
    removed,       \* history: per gateway the nodes deregistered there and
                   \* registered nowhere since
    changes        \* how many registrations and deregistrations there were

checkVars == <<asked, answered>>
syncVars == <<syncRequests, syncReplies>>
historyVars == <<removed, changes>>
vars == <<alive, health, ring, checkVars, syncVars, historyVars>>

Known(g) == {n \in Nodes : health[g][n] # "unknown"}

(* Mutant: the gateway is in its own list of peers. *)
PeersAndSelf(g) == Gateways

Peers(g) == Gateways \ {g}

Init ==
    /\ alive \in SUBSET Nodes
    /\ health = [g \in Gateways |-> [n \in Nodes |-> IF n \in Configured THEN "up" ELSE "unknown"]]
    /\ ring = [g \in Gateways |-> Configured]
    /\ asked = [g \in Gateways |-> {}]
    /\ answered = [g \in Gateways |-> {}]
    /\ syncRequests = {}
    /\ syncReplies = {}
    /\ removed = [g \in Gateways |-> {}]
    /\ changes = 0

-----------------------------------------------------------------------------
(* The nodes: up or down, as seen from outside. *)

Crash(n) ==
    /\ n \in alive
    /\ alive' = alive \ {n}
    /\ UNCHANGED <<health, ring, checkVars, syncVars, historyVars>>

Recover(n) ==
    /\ n \notin alive
    /\ alive' = alive \cup {n}
    /\ UNCHANGED <<health, ring, checkVars, syncVars, historyVars>>

-----------------------------------------------------------------------------
(* The known nodes: addNode() for all of S (those not known yet, assumed    *)
(* healthy) and removeNode(), each in the map and in the router.            *)

(* Mutant: the test for a known node is inverted. *)
addNodesKnown(g, S) ==
    LET new == S \cap Known(g) IN
    /\ health' = [health EXCEPT ![g] = [n \in Nodes |-> IF n \in new THEN "up" ELSE @[n]]]
    /\ ring' = [ring EXCEPT ![g] = @ \cup new]

addNodes(g, S) ==
    LET new == S \ Known(g) IN
    /\ health' = [health EXCEPT ![g] = [n \in Nodes |-> IF n \in new THEN "up" ELSE @[n]]]
    /\ ring' = [ring EXCEPT ![g] = @ \cup new]

(* Mutant: the router is not told. *)
removeNodeFromMap(g, n) ==
    /\ health' = [health EXCEPT ![g] = [@ EXCEPT ![n] = "unknown"]]
    /\ UNCHANGED ring

removeNode(g, n) ==
    /\ health' = [health EXCEPT ![g] = [@ EXCEPT ![n] = "unknown"]]
    /\ ring' = [ring EXCEPT ![g] = @ \ {n}]

(* POST /cluster/nodes; 409 if the node is known. *)
Register(g, n) ==
    /\ changes < MaxChanges
    /\ n \notin Known(g)
    /\ addNodes(g, {n})
    /\ removed' = [h \in Gateways |-> removed[h] \ {n}]
    /\ changes' = changes + 1
    /\ UNCHANGED <<alive, checkVars, syncVars>>

(* DELETE /cluster/nodes; without effect if the node is not known. *)
Deregister(g, n) ==
    /\ changes < MaxChanges
    /\ removeNode(g, n)
    /\ removed' = [removed EXCEPT ![g] = @ \cup {n}]
    /\ changes' = changes + 1
    /\ UNCHANGED <<alive, checkVars, syncVars>>

-----------------------------------------------------------------------------
(* Health checks. *)

(* Mutants: only the nodes out of the ring, or only those in it, are        *)
(* checked.                                                                 *)
checkAllDown(g) ==
    /\ asked[g] \cup answered[g] = {}
    /\ asked' = [asked EXCEPT ![g] = Known(g) \ ring[g]]
    /\ UNCHANGED <<alive, health, ring, answered, syncVars, historyVars>>
checkAllInRing(g) ==
    /\ asked[g] \cup answered[g] = {}
    /\ asked' = [asked EXCEPT ![g] = ring[g]]
    /\ UNCHANGED <<alive, health, ring, answered, syncVars, historyVars>>

(* checkAll(): a ping to every known node.  The interval is longer than the *)
(* timeout, so the previous round is over.                                  *)
checkAll(g) ==
    /\ asked[g] \cup answered[g] = {}
    /\ asked' = [asked EXCEPT ![g] = Known(g)]
    /\ UNCHANGED <<alive, health, ring, answered, syncVars, historyVars>>

(* The node answers; the answer takes its time. *)
Answer(g, n) ==
    /\ n \in asked[g] /\ n \in alive
    /\ asked' = [asked EXCEPT ![g] = @ \ {n}]
    /\ answered' = [answered EXCEPT ![g] = @ \cup {n}]
    /\ UNCHANGED <<alive, health, ring, syncVars, historyVars>>

(* Mutant: the node is not looked up again after the await. *)
VerdictUnconditional(g, n, healthy) ==
    /\ health' = [health EXCEPT ![g] = [@ EXCEPT ![n] = IF healthy THEN "up" ELSE "down"]]
    /\ ring' = [ring EXCEPT ![g] = IF healthy THEN @ \cup {n} ELSE @ \ {n}]

(* After the await: a node that is gone from the map is left alone, and so  *)
(* is one whose state did not change.                                       *)
Verdict(g, n, healthy) ==
    IF health[g][n] \in {"unknown", IF healthy THEN "up" ELSE "down"}
    THEN UNCHANGED <<health, ring>>
    ELSE /\ health' = [health EXCEPT ![g] = [@ EXCEPT ![n] = IF healthy THEN "up" ELSE "down"]]
         /\ ring' = [ring EXCEPT ![g] = IF healthy THEN @ \cup {n} ELSE @ \ {n}]

(* The answer arrives in time. *)
CheckOk(g, n) ==
    /\ n \in answered[g]
    /\ answered' = [answered EXCEPT ![g] = @ \ {n}]
    /\ Verdict(g, n, TRUE)
    /\ UNCHANGED <<alive, asked, syncVars, historyVars>>

(* The connection fails, or the timeout strikes first. *)
CheckFailed(g, n) ==
    /\ n \in asked[g] \cup answered[g]
    /\ asked' = [asked EXCEPT ![g] = @ \ {n}]
    /\ answered' = [answered EXCEPT ![g] = @ \ {n}]
    /\ Verdict(g, n, FALSE)
    /\ UNCHANGED <<alive, syncVars, historyVars>>

-----------------------------------------------------------------------------
(* Gossip. *)

(* syncWithPeer() up to its await.  The interval is longer than the call's  *)
(* timeout: the previous call to this peer is over.                         *)
SendSync(g, h) ==
    /\ \A m \in syncRequests : ~(m.from = g /\ m.to = h)
    /\ \A m \in syncReplies : ~(m.from = h /\ m.to = g)
    /\ syncRequests' = syncRequests \cup {[from |-> g, to |-> h, nodes |-> Known(g)]}
    /\ UNCHANGED <<alive, health, ring, checkVars, syncReplies, historyVars>>

(* POST /cluster/sync: what is new is added, the answer is all that is      *)
(* known then.                                                              *)
HandleSync(m) ==
    /\ m \in syncRequests
    /\ syncRequests' = syncRequests \ {m}
    /\ addNodes(m.to, m.nodes)
    /\ syncReplies' = syncReplies \cup
           {[from |-> m.to, to |-> m.from, nodes |-> Known(m.to) \cup m.nodes]}
    /\ UNCHANGED <<alive, checkVars, historyVars>>

(* onReceiveNodes(): addNode() for every node of the answer. *)
ReceiveSync(m) ==
    /\ m \in syncReplies
    /\ syncReplies' = syncReplies \ {m}
    /\ addNodes(m.to, m.nodes)
    /\ UNCHANGED <<alive, checkVars, syncRequests, historyVars>>

(* The peer is unreachable or too slow: the round is given up. *)
SyncFails(m) ==
    /\ m \in syncRequests \cup syncReplies
    /\ syncRequests' = syncRequests \ {m}
    /\ syncReplies' = syncReplies \ {m}
    /\ UNCHANGED <<alive, health, ring, checkVars, historyVars>>

-----------------------------------------------------------------------------

Next ==
    \/ \E n \in Nodes : Crash(n)
    \/ \E n \in Nodes : Recover(n)
    \/ \E g \in Gateways, n \in Nodes : Register(g, n)
    \/ \E g \in Gateways, n \in Nodes : Deregister(g, n)
    \/ \E g \in Gateways : checkAll(g)
    \/ \E g \in Gateways, n \in Nodes : Answer(g, n)
    \/ \E g \in Gateways, n \in Nodes : CheckOk(g, n)
    \/ \E g \in Gateways, n \in Nodes : CheckFailed(g, n)
    \/ \E g \in Gateways : \E h \in Peers(g) : SendSync(g, h)
    \/ \E m \in syncRequests : HandleSync(m)
    \/ \E m \in syncReplies : ReceiveSync(m)
    \/ \E m \in syncRequests \cup syncReplies : SyncFails(m)

Spec == Init /\ [][Next]_vars

(* The interval timers fire and a check always ends (its abort timer); a    *)
(* live node that is asked again and again answers in time again and again. *)
CheckFairness ==
    /\ \A g \in Gateways : WF_vars(checkAll(g))
    /\ \A g \in Gateways, n \in Nodes :
          /\ WF_vars(CheckFailed(g, n))
          /\ SF_vars(Answer(g, n))
          /\ SF_vars(CheckOk(g, n))

(* Gossip rounds keep being started, and not all of them fail. *)
SyncFairness ==
    \A g \in Gateways : \A h \in Peers(g) :
        /\ WF_vars(SendSync(g, h))
        /\ SF_vars(\E m \in syncRequests : m.from = g /\ m.to = h /\ HandleSync(m))
        /\ SF_vars(\E m \in syncReplies : m.from = h /\ m.to = g /\ ReceiveSync(m))

FairSpec == Spec /\ CheckFairness /\ SyncFairness

-----------------------------------------------------------------------------

(* The type invariant; no gateway talks to itself. *)
TypeOK ==
    /\ alive \subseteq Nodes
    /\ health \in [Gateways -> [Nodes -> {"up", "down", "unknown"}]]
    /\ ring \in [Gateways -> SUBSET Nodes]
    /\ asked \in [Gateways -> SUBSET Nodes]
    /\ answered \in [Gateways -> SUBSET Nodes]
    /\ syncRequests \subseteq [from : Gateways, to : Gateways, nodes : SUBSET Nodes]
    /\ syncReplies \subseteq [from : Gateways, to : Gateways, nodes : SUBSET Nodes]
    /\ \A m \in syncRequests \cup syncReplies : m.from # m.to
    /\ removed \in [Gateways -> SUBSET Nodes]
    /\ changes \in 0 .. MaxChanges

(* The router and the health map never drift apart, however checks,         *)
(* registrations and gossip interleave: requests are routed to exactly the  *)
(* known nodes whose latest verdict was good.                               *)
RingMatchesHealth ==
    \A g \in Gateways : ring[g] = {n \in Nodes : health[g][n] = "up"}

(* checkAll(), "don't resurrect it into the map or the router": a check     *)
(* that ends after its node was removed brings it back to neither.          *)
ChecksNeverResurrect ==
    [][\A g \in Gateways :
          asked'[g] \cup answered'[g] # asked[g] \cup answered[g] =>
              Known(g)' = Known(g) /\ ring'[g] \subseteq Known(g)]_vars

(* Failure handling: a node that is down does not stay in a ring, even if   *)
(* it was registered, or learned by gossip and assumed healthy, after it    *)
(* went down.                                                               *)
DeadNodeLeavesTheRing ==
    \A g \in Gateways, n \in Nodes :
        n \notin alive /\ n \in ring[g] ~> n \in alive \/ n \notin ring[g]

(* "putting it back the moment it answers again". *)
RecoveredNodeReturns ==
    \A g \in Gateways, n \in Nodes :
        n \in alive /\ n \in Known(g) ~> n \in ring[g] \/ n \notin alive \/ n \notin Known(g)

(* docs/api.md: gateways "both eventually converge on the same known-node   *)
(* set" (once nobody registers or deregisters any more).                    *)
GatewaysConverge ==
    <>[](\A g, h \in Gateways : Known(g) = Known(h))

(* docs/api.md: a node "deregisters from each on a" graceful shutdown.  One *)
(* that every gateway was told to remove, and that was registered nowhere   *)
(* since, is known to no gateway.                                           *)
DeregisteredIsForgotten ==
    \A n \in Nodes : (\A g \in Gateways : n \in removed[g]) => \A g \in Gateways : n \notin Known(g)

=============================================================================
