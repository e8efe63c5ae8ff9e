------------------------------ MODULE HashRing ------------------------------
(***************************************************************************)
(* core/hashring.ts: the consistent-hashing ring, as operators on its      *)
(* array of points.  A hash is a number below HashSpace (2^32 in the code; *)
(* nothing but its order and the wrap-around matters), point[n] gives the  *)
(* hashes of `${node}#0`, `${node}#1`, ...  All points of a node are added *)
(* and removed together, so the code's nodeSet is the nodes of the points. *)
(***************************************************************************)
EXTENDS Naturals, Sequences, SequencesExt, FiniteSets, Ordering

CONSTANTS
    Nodes,
    VirtualNodes,  \* virtualNodes
    HashSpace      \* bound: hashes are below this number

ASSUME HashRingAssumption ==
    IsFiniteSet(Nodes) /\ VirtualNodes \in Nat \ {0} /\ HashSpace \in Nat \ {0}

Hashes == 0 .. HashSpace - 1

(* Where the points may lie.  The virtual nodes of a node are told apart by *)
(* nothing but their hashes, so they are taken in order.                    *)
Placements ==
    [Nodes -> {f \in [0 .. VirtualNodes - 1 -> Hashes] :
                   \A i \in 1 .. VirtualNodes - 1 : f[i - 1] <= f[i]}]

nodeSet(ring) == {ring[i].node : i \in DOMAIN ring}

Points(point, n) == [i \in 1 .. VirtualNodes |-> [hash |-> point[n][i - 1], node |-> n]]

(* sort() by hash, which is stable. *)
sort(points) == SortedBy(points, [i \in DOMAIN points |-> points[i].hash])

(* Mutant: the sort is left out. *)
addUnsorted(point, ring, n) ==
    IF n \in nodeSet(ring) THEN ring ELSE ring \o Points(point, n)

add(point, ring, n) ==
    IF n \in nodeSet(ring) THEN ring ELSE sort(ring \o Points(point, n))

(* filter() keeps the order. *)
remove(ring, n) == Picked(ring, {i \in DOMAIN ring : ring[i].node # n})

(* Mutant: the point at the key's own hash is passed over. *)
bisectPast(ring, h) ==
    BinarySearch({i \in 0 .. Len(ring) - 1 : ring[i + 1].hash <= h}, 0, Len(ring))

(* The first point at or past h; ring[i + 1] is the code's ring[i]. *)
bisect(ring, h) ==
    BinarySearch({i \in 0 .. Len(ring) - 1 : ring[i + 1].hash < h}, 0, Len(ring))

(* Mutants: hash modulo the length; a hash past every point wraps around to *)
(* the last point.                                                          *)
getNodeModulo(ring, h) == ring[(h % Len(ring)) + 1].node
getNodeLast(ring, h) ==
    LET lo == bisect(ring, h) IN ring[(IF lo = Len(ring) THEN lo - 1 ELSE lo) + 1].node

(* The owner of a key with hash h; the ring is not empty. *)
getNode(ring, h) ==
    LET lo == bisect(ring, h) IN ring[(IF lo = Len(ring) THEN 0 ELSE lo) + 1].node

-----------------------------------------------------------------------------
(* The reference: the nodes of S that own a point which no other point of S *)
(* precedes on the way clockwise from h, found without a ring.              *)

Distance(h, p) == (p + HashSpace - h) % HashSpace

Successors(point, S, h) ==
    {n \in S : \E i \in 0 .. VirtualNodes - 1 :
        \A m \in S, j \in 0 .. VirtualNodes - 1 :
            Distance(h, point[n][i]) <= Distance(h, point[m][j])}

=============================================================================
