------------------------------- MODULE Routing -------------------------------
(***************************************************************************)
(* Requests through the cluster gateways: gateway.ts finds the owner of a  *)
(* key in its ring (cluster.ts, hashring.ts) and proxies the request to    *)
(* that node; while it awaits the node's answer, health checks and         *)
(* registrations (module Gateway) change the rings.  The gateways start    *)
(* with the same configured nodes, listed in any order; where the nodes'   *)
(* points lie is chosen in Init.  Of a key the rings see its hash only, so *)
(* a key is its hash; the data of one key, Key, is followed.               *)
(***************************************************************************)
EXTENDS HashRing, FiniteSets

CONSTANTS
    Gateways,
    Key,         \* the hash of the key whose data is followed
    Values,
    Absent,      \* no entry
    MaxFlights,  \* bound: requests under way
    MaxMoves     \* bound: nodes leaving or joining a ring, and crashes

ASSUME RoutingAssumption ==
    /\ Key \in Hashes /\ Absent \notin Values
    /\ MaxFlights \in Nat /\ MaxMoves \in Nat

VARIABLES
    point,    \* hashToUint32() of the virtual nodes
    rings,    \* per gateway the router's ring
    up,       \* the nodes that can be reached
    store,    \* per node its entry for Key
    flights,  \* proxied requests whose answer is awaited
    latest,   \* history: the effect of the last write of Key, on any node
    homeLost, \* history: a first owner of Key left a ring, or crashed
    moves     \* how often a ring changed or a node crashed

vars == <<point, rings, up, store, flights, latest, homeLost, moves>>

Flights == [node : Nodes, op : {"set", "get", "delete"}, value : Values \cup {Absent}]

(* ClusterRouter's constructor: the nodes of INKCACHE_CLUSTER_NODES, in the *)
(* order in which this gateway lists them.                                  *)
Lists == {s \in [1 .. Cardinality(Nodes) -> Nodes] : IsInjective(s)}
Configured(p, list) == FoldLeft(LAMBDA r, n : add(p, r, n), <<>>, list)

Init ==
    /\ point \in Placements
    /\ rings \in [Gateways -> {Configured(point, list) : list \in Lists}]
    /\ up = Nodes
    /\ store = [n \in Nodes |-> Absent]
    /\ flights = {}
    /\ latest = Absent
    /\ homeLost = FALSE
    /\ moves = 0

(* The nodes that own Key when all the nodes are in the ring. *)
Home == Successors(point, Nodes, Key)

-----------------------------------------------------------------------------
(* The rings change, at every gateway in its own time. *)

addNode(g, n) ==
    /\ moves < MaxMoves /\ n \notin nodeSet(rings[g])
    /\ rings' = [rings EXCEPT ![g] = add(point, @, n)]
    /\ moves' = moves + 1
    /\ UNCHANGED <<point, up, store, flights, latest, homeLost>>

removeNode(g, n) ==
    /\ moves < MaxMoves /\ n \in nodeSet(rings[g])
    /\ rings' = [rings EXCEPT ![g] = remove(@, n)]
    /\ homeLost' = (homeLost \/ n \in Home)
    /\ moves' = moves + 1
    /\ UNCHANGED <<point, up, store, flights, latest>>

(* A node goes down with its data, and is back without. *)
Crash(n) ==
    /\ moves < MaxMoves /\ n \in up
    /\ up' = up \ {n}
    /\ store' = [store EXCEPT ![n] = Absent]
    /\ homeLost' = (homeLost \/ n \in Home)
    /\ moves' = moves + 1
    /\ UNCHANGED <<point, rings, flights, latest>>

Recover(n) ==
    /\ n \notin up
    /\ up' = up \cup {n}
    /\ UNCHANGED <<point, rings, store, flights, latest, homeLost, moves>>

-----------------------------------------------------------------------------
(* A request: POST /set, GET /get/:key or DELETE /delete/:key. *)

nodeFor(g, h) == getNode(rings[g], h)

(* requireNode(), and proxy() up to its await.  With an empty ring the      *)
(* answer is 503 and nothing happens.                                       *)
Request(g, op, v) ==
    /\ Cardinality(flights) < MaxFlights
    /\ rings[g] # <<>>
    /\ flights' = flights \cup {[node |-> nodeFor(g, Key), op |-> op, value |-> v]}
    /\ UNCHANGED <<point, rings, up, store, latest, homeLost, moves>>

(* The node handles the request; the gateway relays what it says. *)
Serve(f) ==
    /\ f \in flights /\ f.node \in up
    /\ flights' = flights \ {f}
    /\ store' = IF f.op = "get" THEN store ELSE [store EXCEPT ![f.node] = f.value]
    /\ latest' = IF f.op = "get" THEN latest ELSE f.value
    /\ UNCHANGED <<point, rings, up, homeLost, moves>>

(* The fetch fails: 502, whatever ring the gateway has by now. *)
Unreachable(f) ==
    /\ f \in flights
    /\ flights' = flights \ {f}
    /\ UNCHANGED <<point, rings, up, store, latest, homeLost, moves>>

Next ==
    \/ \E g \in Gateways, n \in Nodes : addNode(g, n)
    \/ \E g \in Gateways, n \in Nodes : removeNode(g, n)
    \/ \E n \in Nodes : Crash(n)
    \/ \E n \in Nodes : Recover(n)
    \/ \E g \in Gateways, v \in Values : Request(g, "set", v)
    \/ \E g \in Gateways, op \in {"get", "delete"} : Request(g, op, Absent)
    \/ \E f \in flights : Serve(f)
    \/ \E f \in flights : Unreachable(f)

Spec == Init /\ [][Next]_vars

-----------------------------------------------------------------------------

(* The type invariant; a ring holds all the points of its nodes and no      *)
(* other, in the order of their hashes.                                     *)
TypeOK ==
    /\ point \in Placements
    /\ \A g \in Gateways :
          /\ nodeSet(rings[g]) \subseteq Nodes
          /\ Len(rings[g]) = VirtualNodes * Cardinality(nodeSet(rings[g]))
          /\ \A i \in 2 .. Len(rings[g]) : rings[g][i - 1].hash <= rings[g][i].hash
    /\ up \subseteq Nodes
    /\ store \in [Nodes -> Values \cup {Absent}]
    /\ flights \subseteq Flights
    /\ latest \in Values \cup {Absent}
    /\ homeLost \in BOOLEAN
    /\ moves \in 0 .. MaxMoves

(* getNode(): "walk clockwise from the key's own hash position to the first *)
(* ring point at or past it, wrapping around": the binary search finds what *)
(* a scan of all the points finds, at every hash, shared or last or none.   *)
LookupFindsSuccessor ==
    \A g \in Gateways, h \in Hashes :
        rings[g] # <<>> => nodeFor(g, h) \in Successors(point, nodeSet(rings[g]), h)

(* Two gateways that know the same nodes route a key to the same node,      *)
(* whatever history of leaving and joining each has seen, unless two nodes  *)
(* share the hash the key falls on.                                         *)
GatewaysAgree ==
    \A g1, g2 \in Gateways, h \in Hashes :
        LET S == nodeSet(rings[g1]) IN
        S = nodeSet(rings[g2]) /\ Cardinality(Successors(point, S, h)) = 1 =>
            nodeFor(g1, h) = nodeFor(g2, h)

(* remove(): "Keys mapped to every *other* node are unaffected"; and a node *)
(* that joins takes keys over, but moves none between the others.           *)
OnlyItsKeysMove ==
    [][\A g \in Gateways, h \in Hashes :
          LET left == nodeSet(rings[g]) \ nodeSet(rings'[g])
              joined == nodeSet(rings'[g]) \ nodeSet(rings[g]) IN
          rings[g] # <<>> /\ rings'[g] # <<>> =>
              LET before == getNode(rings[g], h)
                  after == getNode(rings'[g], h) IN
              before = after \/ before \in left \/ after \in joined]_vars

(* Seen from the data: as long as the node that owns a key stays up and in  *)
(* every ring, every gateway finds the last write of the key there,         *)
(* whatever other nodes leave, join and crash with requests under way.      *)
HomeKeepsItsKeys ==
    ~homeLost /\ Cardinality(Home) = 1 =>
        \A g \in Gateways : store[nodeFor(g, Key)] = latest

=============================================================================
