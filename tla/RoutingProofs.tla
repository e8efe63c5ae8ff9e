--------------------------- MODULE RoutingProofs ---------------------------
(***************************************************************************)
(* Proofs about Routing and the HashRing it looks keys up in, for any      *)
(* number of nodes, virtual nodes, gateways and requests: what sort() and  *)
(* filter() do to a ring, that the binary search finds the nearest point,  *)
(* and what follows for the keys and their data when nodes leave and join. *)
(***************************************************************************)
EXTENDS Routing, SequenceLemmas, FiniteSetTheorems

-----------------------------------------------------------------------------
(* The inductive invariant. *)

Point == [hash : Hashes, node : Nodes]

Sorted(ring) == \A i, j \in DOMAIN ring : i < j => ring[i].hash <= ring[j].hash

(* The ring has each point of n at one index, and no other index is n's. *)
HasPoints(p, ring, n) ==
    \E q \in [0 .. VirtualNodes - 1 -> DOMAIN ring] :
        /\ \A v, w \in 0 .. VirtualNodes - 1 : q[v] = q[w] => v = w
        /\ \A v \in 0 .. VirtualNodes - 1 : ring[q[v]] = [hash |-> p[n][v], node |-> n]
        /\ \A k \in DOMAIN ring :
              ring[k].node = n => \E v \in 0 .. VirtualNodes - 1 : q[v] = k

(* A ring as TypeOK has it, with all the points of its nodes. *)
Whole(p, ring) ==
    /\ ring \in Seq(Point)
    /\ Sorted(ring)
    /\ \A n \in nodeSet(ring) : HasPoints(p, ring, n)
    /\ IsFiniteSet(nodeSet(ring))
    /\ Len(ring) = VirtualNodes * Cardinality(nodeSet(ring))

(* y is x with points of n between those of x, which keep their order where *)
(* the hashes do not tell it.                                               *)
Embeds(x, y, n) ==
    \E m \in [DOMAIN x -> DOMAIN y] :
        /\ \A i \in DOMAIN x : y[m[i]] = x[i] /\ x[i].node # n
        /\ \A i, j \in DOMAIN x : i < j /\ x[i].hash = x[j].hash => m[i] < m[j]
        /\ \A k \in DOMAIN y : y[k].node = n \/ \E i \in DOMAIN x : m[i] = k

(* The invariant of the rings. *)
RingsInv ==
    /\ point \in Placements
    /\ rings \in [Gateways -> Seq(Point)]
    /\ \A g \in Gateways : Whole(point, rings[g])

(* The rest of the state is of its type. *)
DataTypeOK ==
    /\ up \subseteq Nodes
    /\ store \in [Nodes -> Values \cup {Absent}]
    /\ flights \subseteq Flights
    /\ latest \in Values \cup {Absent}
    /\ homeLost \in BOOLEAN
    /\ moves \in 0 .. MaxMoves

(* As long as no first owner was lost, all of them are in every ring; if    *)
(* there is one, every request under way is to it, and what it holds is the *)
(* last write.                                                              *)
HomeInv ==
    ~homeLost =>
        /\ \A g \in Gateways : Home \subseteq nodeSet(rings[g])
        /\ \A x \in Nodes : Home = {x} =>
              /\ store[x] = latest
              /\ \A f \in flights : f.node = x

-----------------------------------------------------------------------------
(* What sort() and filter() do to the array of points. *)

(* sort() puts every point at one index, by hash, and points of one hash in *)
(* the order in which they were.                                            *)
LEMMA SortProperties ==
    ASSUME NEW s \in Seq(Point)
    PROVE  \E e \in [1 .. Len(s) -> 1 .. Len(s)] :
               /\ sort(s) \in Seq(Point) /\ DOMAIN sort(s) = 1 .. Len(s)
               /\ \A r \in 1 .. Len(s) : sort(s)[r] = s[e[r]]
               /\ \A i \in 1 .. Len(s) : \E r \in 1 .. Len(s) : e[r] = i
               /\ \A a, b \in 1 .. Len(s) : a < b =>
                     \/ s[e[a]].hash < s[e[b]].hash
                     \/ s[e[a]].hash = s[e[b]].hash /\ e[a] < e[b]
<1> DEFINE keys == [i \in DOMAIN s |-> s[i].hash]
           n == Len(s)
           t == SortedBy(s, keys)
<1>1. n \in Nat /\ DOMAIN s = 1 .. n /\ \A i \in DOMAIN s : s[i] \in Point
  OBVIOUS
<1>2. \A i \in DOMAIN s : keys[i] = s[i].hash /\ keys[i] \in Nat
  BY <1>1, HashRingAssumption DEF Point, Hashes
<1>3. sort(s) = t
  BY DEF sort
<1> HIDE DEF keys, t
<1>4. PICK e \in [1 .. Len(s) -> 1 .. Len(s)] :
          /\ SortedBy(s, keys) \in Seq(Point) /\ DOMAIN SortedBy(s, keys) = 1 .. Len(s)
          /\ \A r \in 1 .. Len(s) : SortedBy(s, keys)[r] = s[e[r]]
          /\ \A i \in 1 .. Len(s) : \E r \in 1 .. Len(s) : e[r] = i
          /\ \A a, b \in 1 .. Len(s) : a < b =>
                \/ keys[e[a]] < keys[e[b]]
                \/ keys[e[a]] = keys[e[b]] /\ e[a] < e[b]
  <2>1. \A i \in DOMAIN s : keys[i] \in Nat
    BY <1>2
  <2> QED BY ZenonT(30), <2>1, SortedByProperties
<1>5. ASSUME NEW a \in 1 .. n, NEW b \in 1 .. n, a < b
      PROVE  s[e[a]].hash < s[e[b]].hash \/ (s[e[a]].hash = s[e[b]].hash /\ e[a] < e[b])
  <2>1. keys[e[a]] < keys[e[b]] \/ (keys[e[a]] = keys[e[b]] /\ e[a] < e[b])
    BY <1>4, <1>5
  <2>2. e[a] \in DOMAIN s /\ e[b] \in DOMAIN s
    BY <1>1
  <2>3. keys[e[a]] = s[e[a]].hash /\ keys[e[b]] = s[e[b]].hash
    BY <1>2, <2>2
  <2> HIDE DEF n
  <2> QED BY <2>1, <2>3
<1>6. /\ sort(s) \in Seq(Point) /\ DOMAIN sort(s) = 1 .. n
      /\ \A r \in 1 .. n : sort(s)[r] = s[e[r]]
      /\ \A i \in 1 .. n : \E r \in 1 .. n : e[r] = i
  BY <1>3, <1>4 DEF t
<1>7. e \in [1 .. n -> 1 .. n]
  OBVIOUS
<1> QED BY <1>5, <1>6, <1>7

(* filter() takes out the points of the node and leaves the others in       *)
(* order.                                                                   *)
LEMMA RemoveEmbeds ==
    ASSUME NEW s \in Seq(Point), Sorted(s), NEW n
    PROVE  remove(s, n) \in Seq(Point) /\ Sorted(remove(s, n)) /\ Embeds(remove(s, n), s, n)
<1> DEFINE I == {i \in DOMAIN s : s[i].node # n}
           t == remove(s, n)
<1>1. \A i \in I : i \in DOMAIN s /\ s[i].node # n
  OBVIOUS
<1>2. \A i \in DOMAIN s : s[i].node = n \/ i \in I
  OBVIOUS
<1>3. I \in SUBSET DOMAIN s /\ t = Picked(s, I)
  BY DEF remove
<1> HIDE DEF I, t
<1>4. PICK c \in Nat : \E e :
          /\ e \in [1 .. c -> I]
          /\ t \in Seq(Point) /\ DOMAIN t = 1 .. c
          /\ \A r \in 1 .. c : t[r] = s[e[r]]
          /\ \A i \in I : \E r \in 1 .. c : e[r] = i
          /\ \A a, b \in 1 .. c : a < b => e[a] < e[b]
  <2>1. I \in SUBSET DOMAIN s
    BY <1>3
  <2>2. \E m \in Nat : \E e :
            /\ e \in [1 .. m -> I]
            /\ Picked(s, I) \in Seq(Point) /\ DOMAIN Picked(s, I) = 1 .. m /\ Len(Picked(s, I)) = m
            /\ \A r \in 1 .. m : Picked(s, I)[r] = s[e[r]]
            /\ \A i \in I : \E r \in 1 .. m : e[r] = i
            /\ \A a, b \in 1 .. m : a < b => e[a] < e[b]
    BY SMTT(30), s \in Seq(Point), <2>1, PickedProperties
  <2> QED BY Zenon, <1>3, <2>2
<1>5. PICK e :
          /\ e \in [1 .. c -> I]
          /\ t \in Seq(Point) /\ DOMAIN t = 1 .. c
          /\ \A r \in 1 .. c : t[r] = s[e[r]]
          /\ \A i \in I : \E r \in 1 .. c : e[r] = i
          /\ \A a, b \in 1 .. c : a < b => e[a] < e[b]
  BY <1>4
<1>6. \A r \in 1 .. c : e[r] \in DOMAIN s /\ t[r].node # n
  BY <1>1, <1>5
<1>7. Sorted(t)
  BY <1>5, <1>6 DEF Sorted
<1>8. e \in [DOMAIN t -> DOMAIN s]
  BY <1>5, <1>6
<1>9. /\ \A i \in DOMAIN t : s[e[i]] = t[i] /\ t[i].node # n
      /\ \A i, j \in DOMAIN t : i < j /\ t[i].hash = t[j].hash => e[i] < e[j]
      /\ \A k \in DOMAIN s : s[k].node = n \/ \E i \in DOMAIN t : e[i] = k
  BY <1>2, <1>5, <1>6
<1>10. Embeds(t, s, n)
  BY <1>8, <1>9 DEF Embeds
<1> QED BY <1>5, <1>7, <1>10 DEF t

(* push() of the points of a new node, and sort(). *)
LEMMA AddEmbeds ==
    ASSUME NEW p \in Placements, NEW s \in Seq(Point), Sorted(s),
           NEW n \in Nodes, n \notin nodeSet(s)
    PROVE  /\ add(p, s, n) \in Seq(Point) /\ Sorted(add(p, s, n))
           /\ Embeds(s, add(p, s, n), n) /\ HasPoints(p, add(p, s, n), n)
<1> USE HashRingAssumption
<1> DEFINE ps == Points(p, n)
           u == s \o ps
           t == add(p, s, n)
           V == VirtualNodes
           l == Len(s)
<1>1. /\ ps \in Seq(Point) /\ Len(ps) = V
      /\ \A i \in 1 .. V : ps[i] = [hash |-> p[n][i - 1], node |-> n]
  <2>1. \A i \in 1 .. V : [hash |-> p[n][i - 1], node |-> n] \in Point
    BY DEF Placements, Point
  <2>2. ps = [i \in 1 .. V |-> [hash |-> p[n][i - 1], node |-> n]]
    BY DEF Points
  <2>3. ps \in [1 .. V -> Point]
    BY <2>1, <2>2
  <2> HIDE DEF ps
  <2> QED BY <2>2, <2>3
<1>2. /\ l \in Nat /\ V \in Nat /\ DOMAIN s = 1 .. l
      /\ \A i \in 1 .. l : s[i] \in Point
  OBVIOUS
<1> HIDE DEF ps, V, l
<1> DEFINE N == l + V
<1>3. /\ N \in Nat /\ u \in Seq(Point) /\ Len(u) = N
      /\ \A i \in 1 .. N : u[i] = IF i <= l THEN s[i] ELSE ps[i - l]
  <2>1. /\ s \o ps \in Seq(Point) /\ Len(s \o ps) = Len(s) + Len(ps)
        /\ \A i \in 1 .. Len(s) + Len(ps) :
              (s \o ps)[i] = IF i <= Len(s) THEN s[i] ELSE ps[i - Len(s)]
    BY <1>1, ConcatProperties
  <2> QED BY <1>1, <1>2, <2>1 DEF l
<1>4. t = sort(u)
  BY DEF add, ps
<1> HIDE DEF u, t
<1>11. \A i \in 1 .. l : i \in 1 .. N /\ s[i].node # n /\ u[i] = s[i]
  <2>1. \A i \in 1 .. l : s[i].node # n
    BY <1>2 DEF nodeSet
  <2>2. \A i \in 1 .. l : i \in 1 .. N /\ i <= l
    BY <1>2
  <2> HIDE DEF N
  <2> QED BY <1>3, <2>1, <2>2
<1>12. \A v \in 0 .. V - 1 : /\ l + 1 + v \in 1 .. N /\ l + 1 + v \notin 1 .. l
                             /\ u[l + 1 + v] = [hash |-> p[n][v], node |-> n]
  <2> SUFFICES ASSUME NEW v \in 0 .. V - 1
               PROVE  /\ l + 1 + v \in 1 .. N /\ l + 1 + v \notin 1 .. l
                      /\ u[l + 1 + v] = [hash |-> p[n][v], node |-> n]
    OBVIOUS
  <2>1. /\ l + 1 + v \in 1 .. N /\ ~(l + 1 + v <= l) /\ l + 1 + v \notin 1 .. l
        /\ (l + 1 + v) - l = v + 1 /\ v + 1 \in 1 .. V /\ (v + 1) - 1 = v
    BY <1>2
  <2> DEFINE i == l + 1 + v
             w == v + 1
  <2> HIDE DEF i, w, N
  <2>2. u[i] = ps[i - l]
    BY <1>3, <2>1 DEF i
  <2>3. i - l = w /\ w - 1 = v /\ w \in 1 .. V
    BY <2>1 DEF i, w
  <2>4. ps[w] = [hash |-> p[n][w - 1], node |-> n]
    BY <1>1, <2>3
  <2> QED BY <2>1, <2>2, <2>3, <2>4 DEF i
<1>13. \A i \in 1 .. N : i \in 1 .. l \/ \E v \in 0 .. V - 1 : i = l + 1 + v
  <2> SUFFICES ASSUME NEW i \in 1 .. N, i \notin 1 .. l
               PROVE  \E v \in 0 .. V - 1 : i = l + 1 + v
    OBVIOUS
  <2>1. i - l - 1 \in 0 .. V - 1 /\ i = l + 1 + (i - l - 1)
    BY <1>2
  <2> QED BY <2>1
<1> HIDE DEF N
<1>5. PICK e \in [1 .. N -> 1 .. N] :
          /\ t \in Seq(Point) /\ DOMAIN t = 1 .. N
          /\ \A r \in 1 .. N : t[r] = u[e[r]]
          /\ \A i \in 1 .. N : \E r \in 1 .. N : e[r] = i
          /\ \A a, b \in 1 .. N : a < b =>
                u[e[a]].hash < u[e[b]].hash \/ (u[e[a]].hash = u[e[b]].hash /\ e[a] < e[b])
  <2>1. \E e \in [1 .. Len(u) -> 1 .. Len(u)] :
               /\ sort(u) \in Seq(Point) /\ DOMAIN sort(u) = 1 .. Len(u)
               /\ \A r \in 1 .. Len(u) : sort(u)[r] = u[e[r]]
               /\ \A i \in 1 .. Len(u) : \E r \in 1 .. Len(u) : e[r] = i
               /\ \A a, b \in 1 .. Len(u) : a < b =>
                     \/ u[e[a]].hash < u[e[b]].hash
                     \/ u[e[a]].hash = u[e[b]].hash /\ e[a] < e[b]
    BY <1>3, SortProperties
  <2>2. Len(u) = N /\ sort(u) = t
    BY <1>3, <1>4
  <2> QED BY ZenonT(30), <2>1, <2>2
<1>6. \A i \in 1 .. N : u[i].hash \in Nat
  <2>1. \A i \in 1 .. N : u[i] \in Point
    BY <1>3
  <2> QED BY <2>1 DEF Point, Hashes
<1>7. Sorted(t)
  <2> SUFFICES ASSUME NEW a \in 1 .. N, NEW b \in 1 .. N, a < b
               PROVE  t[a].hash <= t[b].hash
    BY <1>5 DEF Sorted
  <2>1. t[a] = u[e[a]] /\ t[b] = u[e[b]] /\ u[e[a]].hash \in Nat /\ u[e[b]].hash \in Nat
    BY <1>5, <1>6
  <2>2. t[a].hash < t[b].hash \/ t[a].hash = t[b].hash
    BY <1>5, <2>1
  <2> QED BY <2>1, <2>2
<1> DEFINE at == [i \in 1 .. N |-> CHOOSE r \in 1 .. N : e[r] = i]
<1>8. \A i \in 1 .. N : at[i] \in 1 .. N /\ e[at[i]] = i
  BY <1>5
<1>9. \A a, b \in 1 .. N : e[a] = e[b] => a = b
  <2> SUFFICES ASSUME NEW a \in 1 .. N, NEW b \in 1 .. N, a < b PROVE e[a] # e[b]
    OBVIOUS
  <2>1. u[e[a]].hash < u[e[b]].hash \/ e[a] < e[b]
    BY <1>5
  <2>2. u[e[a]].hash \in Nat /\ e[a] \in Nat
    <3>1. e[a] \in 1 .. N
      OBVIOUS
    <3> QED BY <1>6, <3>1
  <2> QED BY <2>1, <2>2
<1>10. \A r \in 1 .. N : at[e[r]] = r
  BY <1>5, <1>8, <1>9
<1> HIDE DEF at
<1>14. Embeds(s, t, n)
  <2> DEFINE m == [i \in 1 .. l |-> at[i]]
  <2>1. m \in [DOMAIN s -> DOMAIN t]
    BY <1>2, <1>5, <1>8, <1>11
  <2>2. \A i \in DOMAIN s : t[m[i]] = s[i] /\ s[i].node # n
    <3> SUFFICES ASSUME NEW i \in DOMAIN s PROVE t[m[i]] = s[i] /\ s[i].node # n
      OBVIOUS
    <3>1. i \in 1 .. N /\ m[i] = at[i] /\ u[i] = s[i] /\ s[i].node # n
      BY <1>2, <1>11
    <3>2. at[i] \in 1 .. N /\ e[at[i]] = i
      BY <1>8, <3>1
    <3>3. t[at[i]] = u[e[at[i]]]
      BY <1>5, <3>2
    <3> QED BY <3>1, <3>2, <3>3
  <2>3. ASSUME NEW i \in DOMAIN s, NEW j \in DOMAIN s, i < j, s[i].hash = s[j].hash
        PROVE  m[i] < m[j]
    <3>1. i \in 1 .. N /\ j \in 1 .. N /\ m[i] = at[i] /\ m[j] = at[j] /\ u[i] = s[i] /\ u[j] = s[j]
      BY <1>2, <1>11
    <3> HIDE DEF m
    <3>2. /\ at[i] \in 1 .. N /\ at[j] \in 1 .. N /\ e[at[i]] = i /\ e[at[j]] = j
          /\ i \in Nat /\ j \in Nat
      BY <1>2, <1>8, <3>1
    <3>3. ~(at[j] < at[i])
      <4> SUFFICES ASSUME at[j] < at[i] PROVE FALSE
        OBVIOUS
      <4>1. u[j].hash < u[i].hash \/ (u[j].hash = u[i].hash /\ j < i)
        <5>1. \/ u[e[at[j]]].hash < u[e[at[i]]].hash
              \/ u[e[at[j]]].hash = u[e[at[i]]].hash /\ e[at[j]] < e[at[i]]
          BY <1>5, <3>2
        <5> QED BY <3>2, <5>1
      <4>2. u[i].hash \in Nat /\ u[i].hash = u[j].hash
        BY <1>6, <2>3, <3>1
      <4> QED BY <2>3, <3>2, <4>1, <4>2
    <3>4. at[i] # at[j]
      BY <2>3, <3>2
    <3> QED BY <1>2, <3>1, <3>2, <3>3, <3>4
  <2>4. ASSUME NEW k \in DOMAIN t, t[k].node # n PROVE \E i \in DOMAIN s : m[i] = k
    <3>1. k \in 1 .. N /\ e[k] \in 1 .. N /\ t[k] = u[e[k]]
      BY <1>5, <2>4
    <3>2. e[k] \in 1 .. l
      <4>1. ASSUME NEW v \in 0 .. V - 1, e[k] = l + 1 + v PROVE FALSE
        <5>1. u[e[k]] = [hash |-> p[n][v], node |-> n]
          BY <1>12, <4>1
        <5> QED BY <2>4, <3>1, <5>1
      <4> QED BY <1>13, <3>1, <4>1
    <3>3. m[e[k]] = k
      BY <1>10, <3>1, <3>2
    <3> QED BY <1>2, <3>2, <3>3
  <2> HIDE DEF m
  <2> QED BY <2>1, <2>2, <2>3, <2>4 DEF Embeds
<1>15. HasPoints(p, t, n)
  <2> DEFINE q == [v \in 0 .. V - 1 |-> at[l + 1 + v]]
  <2>1. q \in [0 .. V - 1 -> DOMAIN t]
    BY <1>5, <1>8, <1>12
  <2>2. \A v \in 0 .. V - 1 : q[v] = at[l + 1 + v] /\ e[q[v]] = l + 1 + v
    BY <1>8, <1>12
  <2> HIDE DEF q
  <2>3. \A v, w \in 0 .. V - 1 : q[v] = q[w] => v = w
    <3> SUFFICES ASSUME NEW v \in 0 .. V - 1, NEW w \in 0 .. V - 1, q[v] = q[w] PROVE v = w
      OBVIOUS
    <3>1. l + 1 + v = l + 1 + w
      BY <2>2
    <3> QED BY <1>2, <3>1
  <2>4. \A v \in 0 .. V - 1 : t[q[v]] = [hash |-> p[n][v], node |-> n]
    <3> SUFFICES ASSUME NEW v \in 0 .. V - 1 PROVE t[q[v]] = [hash |-> p[n][v], node |-> n]
      OBVIOUS
    <3>1. q[v] \in 1 .. N /\ e[q[v]] = l + 1 + v
      BY <1>5, <2>1, <2>2
    <3>2. t[q[v]] = u[e[q[v]]]
      BY <1>5, <3>1
    <3>3. u[l + 1 + v] = [hash |-> p[n][v], node |-> n]
      BY <1>12
    <3> QED BY <3>1, <3>2, <3>3
  <2>5. ASSUME NEW k \in DOMAIN t, t[k].node = n PROVE \E v \in 0 .. V - 1 : q[v] = k
    <3>1. k \in 1 .. N /\ e[k] \in 1 .. N /\ t[k] = u[e[k]]
      BY <1>5, <2>5
    <3>2. e[k] \notin 1 .. l
      BY <1>11, <2>5, <3>1
    <3>3. PICK v \in 0 .. V - 1 : e[k] = l + 1 + v
      BY <1>13, <3>1, <3>2
    <3>4. q[v] = k
      BY <1>10, <2>2, <3>1, <3>3
    <3> QED BY <3>4
  <2> QED BY <2>1, <2>3, <2>4, <2>5 DEF HasPoints, V
<1> QED BY <1>5, <1>7, <1>14, <1>15 DEF t

-----------------------------------------------------------------------------
(* Rings stay whole. *)

(* A bijection from a finite set: the other set has as many members.        *)
LEMMA BijectionCardinality ==
    ASSUME NEW S, IsFiniteSet(S), NEW T, NEW f \in Bijection(S, T)
    PROVE  IsFiniteSet(T) /\ Cardinality(T) = Cardinality(S)
<1>1. ExistsBijection(S, T)
  BY DEF ExistsBijection
<1> QED BY <1>1, FS_Bijection

(* A sequence has as many indices as its length.                            *)
LEMMA SeqDomain ==
    ASSUME NEW S, NEW s \in Seq(S)
    PROVE  /\ Len(s) \in Nat /\ DOMAIN s = 1 .. Len(s)
           /\ IsFiniteSet(DOMAIN s) /\ Cardinality(DOMAIN s) = Len(s)
<1> DEFINE n == Len(s)
<1>1. n \in Nat /\ DOMAIN s = 1 .. n
  OBVIOUS
<1> HIDE DEF n
<1>2. 1 \in Int /\ n \in Int
  BY <1>1
<1>3. IsFiniteSet(1 .. n) /\ Cardinality(1 .. n) = IF 1 > n THEN 0 ELSE n - 1 + 1
  BY <1>2, FS_Interval
<1>4. IsFiniteSet(1 .. n) /\ Cardinality(1 .. n) = n
  BY <1>1, <1>3
<1> QED BY <1>1, <1>4 DEF n

(* The embedding uses no index twice. *)
LEMMA EmbeddingInjective ==
    ASSUME NEW x \in Seq(Point), NEW y \in Seq(Point), NEW m \in [DOMAIN x -> DOMAIN y],
           \A i \in DOMAIN x : y[m[i]] = x[i],
           \A i, j \in DOMAIN x : i < j /\ x[i].hash = x[j].hash => m[i] < m[j]
    PROVE  \A i, j \in DOMAIN x : m[i] = m[j] => i = j
<1> SUFFICES ASSUME NEW i \in DOMAIN x, NEW j \in DOMAIN x, m[i] = m[j], i < j PROVE FALSE
  BY SeqDomain
<1>1. x[i] = x[j]
  OBVIOUS
<1>2. m[i] < m[j] /\ m[i] \in Nat
  BY <1>1
<1> QED BY <1>2

(* A ring with the points of one more node is longer by as many points.     *)
LEMMA EmbedsLength ==
    ASSUME NEW p, NEW n, NEW x \in Seq(Point), NEW y \in Seq(Point),
           Embeds(x, y, n), HasPoints(p, y, n)
    PROVE  Len(y) = Len(x) + VirtualNodes
<1> DEFINE V == VirtualNodes
<1>0. V \in Nat
  BY HashRingAssumption
<1>1. PICK m \in [DOMAIN x -> DOMAIN y] :
        /\ \A i \in DOMAIN x : y[m[i]] = x[i] /\ x[i].node # n
        /\ \A i, j \in DOMAIN x : i < j /\ x[i].hash = x[j].hash => m[i] < m[j]
        /\ \A k \in DOMAIN y : y[k].node = n \/ \E i \in DOMAIN x : m[i] = k
  BY DEF Embeds
<1>12. \A i, j \in DOMAIN x : m[i] = m[j] => i = j
  BY <1>1, EmbeddingInjective
<1> DEFINE D == 0 .. V - 1
<1>2. PICK q \in [D -> DOMAIN y] :
        /\ \A v, w \in D : q[v] = q[w] => v = w
        /\ \A v \in D : y[q[v]] = [hash |-> p[n][v], node |-> n]
        /\ \A k \in DOMAIN y : y[k].node = n => \E v \in D : q[v] = k
  BY DEF HasPoints
<1> HIDE DEF D
<1>11. ASSUME NEW v \in D PROVE y[q[v]].node = n
  <2>1. y[q[v]] = [hash |-> p[n][v], node |-> n]
    BY <1>2
  <2> QED BY <2>1
<1> DEFINE A == {m[i] : i \in DOMAIN x}
           B == {q[v] : v \in D}
<1>3. IsFiniteSet(A) /\ Cardinality(A) = Len(x)
  <2>1. IsFiniteSet(DOMAIN x) /\ Cardinality(DOMAIN x) = Len(x)
    BY SeqDomain
  <2>2. m \in [DOMAIN x -> A] /\ \A b \in A : \E i \in DOMAIN x : m[i] = b
    OBVIOUS
  <2> HIDE DEF A, B
  <2>3. m \in Bijection(DOMAIN x, A)
    BY <1>12, <2>2 DEF Bijection, Injection, Surjection, IsInjective
  <2> QED BY <2>1, <2>3, BijectionCardinality
<1>4. IsFiniteSet(B) /\ Cardinality(B) = V
  <2>1. 0 \in Int /\ V - 1 \in Int
    BY <1>0
  <2>2. IsFiniteSet(0 .. V - 1) /\ Cardinality(0 .. V - 1) = IF 0 > V - 1 THEN 0 ELSE V - 1 - 0 + 1
    BY <2>1, FS_Interval
  <2>3. IsFiniteSet(D) /\ Cardinality(D) = V
    BY <1>0, <2>2 DEF D
  <2>4. q \in [D -> B] /\ \A b \in B : \E v \in D : q[v] = b
    OBVIOUS
  <2> HIDE DEF A, B
  <2>5. q \in Bijection(D, B)
    BY <1>2, <2>4 DEF Bijection, Injection, Surjection, IsInjective
  <2> QED BY <2>3, <2>5, BijectionCardinality
<1>5. A \cap B = {}
  <2> SUFFICES ASSUME NEW i \in DOMAIN x, NEW v \in D, m[i] = q[v] PROVE FALSE
    OBVIOUS
  <2>1. y[m[i]].node # n
    BY <1>1
  <2> QED BY <1>11, <2>1
<1>6. A \cup B = DOMAIN y
  <2>1. A \cup B \subseteq DOMAIN y
    OBVIOUS
  <2>2. ASSUME NEW k \in DOMAIN y PROVE k \in A \cup B
    <3>1. CASE y[k].node = n
      BY <1>2, <3>1
    <3>2. CASE \E i \in DOMAIN x : m[i] = k
      BY <3>2
    <3> QED BY <1>1, <3>1, <3>2
  <2> HIDE DEF A, B
  <2> QED BY <2>1, <2>2
<1> HIDE DEF A, B
<1>7. Cardinality(A \cup B) = Cardinality(A) + Cardinality(B) - Cardinality(A \cap B)
  BY <1>3, <1>4, FS_Union
<1>8. Cardinality(A \cap B) = 0
  BY <1>5, FS_EmptySet
<1>9. Cardinality(DOMAIN y) = Len(y) /\ Len(x) \in Nat
  BY SeqDomain
<1>10. Cardinality(A \cup B) = Len(y)
  BY <1>6, <1>9
<1> QED BY <1>0, <1>3, <1>4, <1>7, <1>8, <1>9, <1>10 DEF V

(* ... and has one node more.                                               *)
LEMMA EmbedsNodes ==
    ASSUME NEW p, NEW n, NEW x \in Seq(Point), NEW y \in Seq(Point),
           Embeds(x, y, n), HasPoints(p, y, n)
    PROVE  n \notin nodeSet(x) /\ nodeSet(y) = nodeSet(x) \cup {n}
<1>1. PICK m \in [DOMAIN x -> DOMAIN y] :
        /\ \A i \in DOMAIN x : y[m[i]] = x[i] /\ x[i].node # n
        /\ \A k \in DOMAIN y : y[k].node = n \/ \E i \in DOMAIN x : m[i] = k
  BY DEF Embeds
<1>2. \E k \in DOMAIN y : y[k].node = n
  <2>1. 0 \in 0 .. VirtualNodes - 1
    BY HashRingAssumption
  <2>2. PICK q \in [0 .. VirtualNodes - 1 -> DOMAIN y] :
          \A v \in 0 .. VirtualNodes - 1 : y[q[v]] = [hash |-> p[n][v], node |-> n]
    BY DEF HasPoints
  <2> DEFINE k == q[0]
  <2>3. y[k] = [hash |-> p[n][0], node |-> n] /\ k \in DOMAIN y
    BY <2>1, <2>2
  <2> HIDE DEF k
  <2>4. y[k].node = n
    BY <2>3
  <2> QED BY <2>3, <2>4
<1>3. nodeSet(x) \subseteq nodeSet(y)
  BY <1>1 DEF nodeSet
<1>4. nodeSet(y) \subseteq nodeSet(x) \cup {n}
  BY <1>1 DEF nodeSet
<1>5. n \in nodeSet(y) /\ n \notin nodeSet(x)
  BY <1>1, <1>2 DEF nodeSet
<1> QED BY <1>3, <1>4, <1>5

(* The points of the other nodes are the same in both. *)
LEMMA EmbedsPoints ==
    ASSUME NEW p, NEW n, NEW x \in Seq(Point), NEW y \in Seq(Point), Embeds(x, y, n),
           NEW k, k # n
    PROVE  HasPoints(p, x, k) <=> HasPoints(p, y, k)
<1> DEFINE D == 0 .. VirtualNodes - 1
<1>1. PICK m \in [DOMAIN x -> DOMAIN y] :
        /\ \A i \in DOMAIN x : y[m[i]] = x[i] /\ x[i].node # n
        /\ \A i, j \in DOMAIN x : i < j /\ x[i].hash = x[j].hash => m[i] < m[j]
        /\ \A l \in DOMAIN y : y[l].node = n \/ \E i \in DOMAIN x : m[i] = l
  BY DEF Embeds
<1>2. \A i, j \in DOMAIN x : m[i] = m[j] => i = j
  BY SMTT(30), <1>1, EmbeddingInjective
<1>3. ASSUME HasPoints(p, x, k) PROVE HasPoints(p, y, k)
  <2>1. PICK q \in [D -> DOMAIN x] :
        /\ \A v, w \in D : q[v] = q[w] => v = w
        /\ \A v \in D : x[q[v]] = [hash |-> p[k][v], node |-> k]
        /\ \A l \in DOMAIN x : x[l].node = k => \E v \in D : q[v] = l
    BY <1>3 DEF HasPoints
  <2> HIDE DEF D
  <2> DEFINE r == [v \in D |-> m[q[v]]]
  <2>2. r \in [D -> DOMAIN y]
    BY <1>1, <2>1
  <2>3. \A v, w \in D : r[v] = r[w] => v = w
    BY <1>2, <2>1
  <2>4. \A v \in D : y[r[v]] = [hash |-> p[k][v], node |-> k]
    BY <1>1, <2>1
  <2>5. ASSUME NEW l \in DOMAIN y, y[l].node = k PROVE \E v \in D : r[v] = l
    <3>1. PICK i \in DOMAIN x : m[i] = l
      BY <1>1, <2>5
    <3>2. x[i].node = k
      BY <1>1, <2>5, <3>1
    <3>3. PICK v \in D : q[v] = i
      BY <2>1, <3>2
    <3> QED BY <3>1, <3>3
  <2> HIDE DEF r
  <2> QED BY <2>2, <2>3, <2>4, <2>5 DEF HasPoints, D
<1>4. ASSUME HasPoints(p, y, k) PROVE HasPoints(p, x, k)
  <2>1. PICK q \in [D -> DOMAIN y] :
        /\ \A v, w \in D : q[v] = q[w] => v = w
        /\ \A v \in D : y[q[v]] = [hash |-> p[k][v], node |-> k]
        /\ \A l \in DOMAIN y : y[l].node = k => \E v \in D : q[v] = l
    BY <1>4 DEF HasPoints
  <2> HIDE DEF D
  <2> DEFINE r == [v \in D |-> CHOOSE i \in DOMAIN x : m[i] = q[v]]
  <2>2. \A v \in D : r[v] \in DOMAIN x /\ m[r[v]] = q[v]
    <3> SUFFICES ASSUME NEW v \in D PROVE r[v] \in DOMAIN x /\ m[r[v]] = q[v]
      OBVIOUS
    <3>1. y[q[v]].node = k
      <4>1. y[q[v]] = [hash |-> p[k][v], node |-> k]
        BY <2>1
      <4> QED BY <4>1
    <3>2. \E i \in DOMAIN x : m[i] = q[v]
      BY <1>1, <2>1, <3>1
    <3> QED BY <3>2
  <2>3. r \in [D -> DOMAIN x]
    BY <2>2
  <2> HIDE DEF r
  <2>4. \A v, w \in D : r[v] = r[w] => v = w
    BY <2>1, <2>2
  <2>5. \A v \in D : x[r[v]] = [hash |-> p[k][v], node |-> k]
    BY <1>1, <2>1, <2>2
  <2>6. ASSUME NEW l \in DOMAIN x, x[l].node = k PROVE \E v \in D : r[v] = l
    <3>1. y[m[l]].node = k /\ m[l] \in DOMAIN y
      BY <1>1, <2>6
    <3>2. PICK v \in D : q[v] = m[l]
      BY <2>1, <3>1
    <3>3. r[v] = l
      BY <1>2, <2>2, <3>2
    <3> QED BY <3>3
  <2> QED BY <2>3, <2>4, <2>5, <2>6 DEF HasPoints, D
<1> QED BY <1>3, <1>4

(* addNode() keeps a ring whole: the node is new in it, all its points are  *)
(* there, and no other point moved.                                         *)
LEMMA WholeAdd ==
    ASSUME NEW p \in Placements, NEW s, Whole(p, s), NEW n \in Nodes, n \notin nodeSet(s)
    PROVE  /\ Whole(p, add(p, s, n)) /\ nodeSet(add(p, s, n)) = nodeSet(s) \cup {n}
           /\ Embeds(s, add(p, s, n), n)
<1> DEFINE t == add(p, s, n)
           c == Cardinality(nodeSet(s))
<1>1. /\ s \in Seq(Point) /\ Sorted(s) /\ IsFiniteSet(nodeSet(s))
      /\ Len(s) = VirtualNodes * c /\ \A k \in nodeSet(s) : HasPoints(p, s, k)
  BY DEF Whole
<1>2. t \in Seq(Point) /\ Sorted(t) /\ Embeds(s, t, n) /\ HasPoints(p, t, n)
  BY <1>1, AddEmbeds
<1> HIDE DEF t
<1>3. nodeSet(t) = nodeSet(s) \cup {n}
  BY <1>1, <1>2, EmbedsNodes
<1>4. \A k \in nodeSet(t) : HasPoints(p, t, k)
  <2> SUFFICES ASSUME NEW k \in nodeSet(t), k # n PROVE HasPoints(p, t, k)
    BY <1>2
  <2>1. HasPoints(p, s, k)
    BY <1>1, <1>3
  <2> QED BY <1>1, <1>2, <2>1, EmbedsPoints
<1>5. IsFiniteSet(nodeSet(t)) /\ Cardinality(nodeSet(t)) = c + 1 /\ c \in Nat
  BY <1>1, <1>3, FS_AddElement, FS_CardinalityType
<1>6. Len(t) = Len(s) + VirtualNodes
  BY <1>1, <1>2, EmbedsLength
<1>7. Len(t) = VirtualNodes * (c + 1)
  <2> HIDE DEF c
  <2> QED BY <1>1, <1>5, <1>6, HashRingAssumption
<1>8. Whole(p, t)
  BY <1>2, <1>4, <1>5, <1>7 DEF Whole
<1> QED BY <1>2, <1>3, <1>8 DEF t

(* removeNode() keeps a ring whole: no point of the node is left, and every *)
(* other.                                                                   *)
LEMMA WholeRemove ==
    ASSUME NEW p \in Placements, NEW s, Whole(p, s), NEW n \in nodeSet(s)
    PROVE  /\ Whole(p, remove(s, n)) /\ nodeSet(remove(s, n)) = nodeSet(s) \ {n}
           /\ Embeds(remove(s, n), s, n)
<1> DEFINE t == remove(s, n)
           c == Cardinality(nodeSet(s))
<1>1. /\ s \in Seq(Point) /\ Sorted(s) /\ IsFiniteSet(nodeSet(s))
      /\ Len(s) = VirtualNodes * c /\ \A k \in nodeSet(s) : HasPoints(p, s, k)
  BY DEF Whole
<1>2. t \in Seq(Point) /\ Sorted(t) /\ Embeds(t, s, n)
  BY <1>1, RemoveEmbeds
<1> HIDE DEF t
<1>3. nodeSet(t) = nodeSet(s) \ {n}
  BY <1>1, <1>2, EmbedsNodes
<1>4. \A k \in nodeSet(t) : HasPoints(p, t, k)
  <2> SUFFICES ASSUME NEW k \in nodeSet(t) PROVE HasPoints(p, t, k)
    OBVIOUS
  <2>1. HasPoints(p, s, k) /\ k # n
    BY <1>1, <1>3
  <2> QED BY <1>1, <1>2, <2>1, EmbedsPoints
<1>5. /\ IsFiniteSet(nodeSet(t)) /\ Cardinality(nodeSet(t)) = c - 1
      /\ c \in Nat /\ Cardinality(nodeSet(t)) \in Nat
  BY <1>1, <1>3, FS_RemoveElement, FS_CardinalityType
<1>6. Len(s) = Len(t) + VirtualNodes /\ Len(t) \in Nat
  BY <1>1, <1>2, EmbedsLength
<1>7. Len(t) = VirtualNodes * (c - 1)
  <2> HIDE DEF c
  <2> QED BY <1>1, <1>5, <1>6, HashRingAssumption
<1>8. Whole(p, t)
  BY <1>2, <1>4, <1>5, <1>7 DEF Whole
<1> QED BY <1>2, <1>3, <1>8 DEF t

-----------------------------------------------------------------------------
(* The binary search. *)

(* Where the hashes of a sorted ring reach h: up to the cut c they are below. *)
Cut(ring, h, c) ==
    /\ c \in 0 .. Len(ring)
    /\ \A i \in 1 .. Len(ring) : ring[i].hash < h <=> i <= c

(* bisect() finds it.                                                       *)
LEMMA BisectFindsCut ==
    ASSUME NEW ring \in Seq(Point), Sorted(ring), NEW h \in Hashes
    PROVE  Cut(ring, h, bisect(ring, h))
<1> DEFINE n == Len(ring)
           below == {i \in 0 .. Len(ring) - 1 : ring[i + 1].hash < h}
<1>1. n \in Nat /\ DOMAIN ring = 1 .. n /\ h \in Nat
  BY HashRingAssumption DEF Hashes
<1>2. \A i \in 1 .. n : ring[i].hash \in Nat
  <2>1. \A i \in 1 .. n : ring[i] \in Point
    OBVIOUS
  <2> QED BY <2>1, HashRingAssumption DEF Point, Hashes
<1>3. bisect(ring, h) = BinarySearch(below, 0, n)
  BY DEF bisect
<1>4. \A i \in 0 .. n - 1 : i \in below <=> ring[i + 1].hash < h
  OBVIOUS
<1> HIDE DEF n, below
<1>5. \A i, j \in 0 .. n - 1 : i < j /\ j \in below => i \in below
  <2> SUFFICES ASSUME NEW i \in 0 .. n - 1, NEW j \in 0 .. n - 1, i < j, j \in below
               PROVE  i \in below
    OBVIOUS
  <2>1. i + 1 \in 1 .. n /\ j + 1 \in 1 .. n /\ i + 1 < j + 1
    BY <1>1
  <2>2. ring[i + 1].hash <= ring[j + 1].hash /\ ring[j + 1].hash < h
    BY <1>1, <1>4, <2>1 DEF Sorted
  <2>3. ring[i + 1].hash < h
    BY <1>1, <1>2, <2>1, <2>2
  <2> QED BY <1>4, <2>3
<1>6. PICK c : Cuts(below, 0, n, c)
  <2>1. 0 \in Nat /\ 0 <= n
    BY <1>1
  <2> QED BY <1>1, <1>5, <2>1, CutExists
<1>7. bisect(ring, h) = c
  BY <1>1, <1>3, <1>6, BinarySearchFindsCut
<1>8. c \in 0 .. n /\ \A i \in 0 .. n - 1 : i \in below <=> i < c
  BY <1>6 DEF Cuts
<1>9. ASSUME NEW i \in 1 .. n PROVE ring[i].hash < h <=> i <= c
  <2>1. i - 1 \in 0 .. n - 1 /\ (i - 1) + 1 = i /\ (i - 1 < c <=> i <= c)
    BY <1>1, <1>8
  <2> QED BY <1>4, <1>8, <2>1
<1> QED BY <1>7, <1>8, <1>9 DEF Cut, n

-----------------------------------------------------------------------------
(* The lookup. *)

(* The point at k is the first one clockwise from h, of those at the same   *)
(* distance the one with the least index.                                   *)
Nearest(ring, h, k) ==
    /\ k \in DOMAIN ring
    /\ \A j \in DOMAIN ring :
          \/ Distance(h, ring[k].hash) < Distance(h, ring[j].hash)
          \/ Distance(h, ring[k].hash) = Distance(h, ring[j].hash) /\ k <= j

(* Of what a point of a ring consists.                                      *)
LEMMA PointTypes ==
    ASSUME NEW ring \in Seq(Point), NEW i \in DOMAIN ring
    PROVE  ring[i].hash \in Hashes /\ ring[i].hash \in Nat /\ ring[i].node \in Nodes
<1>1. ring[i] \in Point
  OBVIOUS
<1> QED BY <1>1, HashRingAssumption DEF Point, Hashes

(* The distance clockwise from h, with the wrap-around at the end of the    *)
(* hash space.                                                              *)
LEMMA DistanceForm ==
    ASSUME NEW h \in Hashes, NEW p \in Hashes
    PROVE  /\ Distance(h, p) = IF p >= h THEN p - h ELSE p + HashSpace - h
           /\ Distance(h, p) \in Nat
<1> DEFINE H == HashSpace
<1>1. H \in Nat \ {0} /\ h \in 0 .. H - 1 /\ p \in 0 .. H - 1
  BY HashRingAssumption DEF Hashes
<1> HIDE DEF H
<1>2. (p + H - h) % H = IF p >= h THEN p - h ELSE p + H - h
  BY <1>1
<1>3. Distance(h, p) = IF p >= h THEN p - h ELSE p + H - h
  BY <1>2 DEF Distance, H
<1> QED BY <1>1, <1>3 DEF H

(* Two hashes at the same distance are the same.                            *)
LEMMA DistanceInjective ==
    ASSUME NEW h \in Hashes, NEW p \in Hashes, NEW q \in Hashes, Distance(h, p) = Distance(h, q)
    PROVE  p = q
<1> DEFINE H == HashSpace
           d == Distance(h, p)
<1>1. H \in Nat \ {0} /\ h \in 0 .. H - 1 /\ p \in 0 .. H - 1 /\ q \in 0 .. H - 1
  BY HashRingAssumption DEF Hashes
<1>2. d = IF p >= h THEN p - h ELSE p + H - h
  BY DistanceForm
<1>3. d = IF q >= h THEN q - h ELSE q + H - h
  BY DistanceForm
<1> HIDE DEF H, d
<1> QED BY <1>1, <1>2, <1>3

(* getNode() finds the nearest point: the one at the cut, or the first      *)
(* point when every hash is below h.                                        *)
LEMMA LookupFindsNearest ==
    ASSUME NEW ring \in Seq(Point), Sorted(ring), ring # <<>>, NEW h \in Hashes
    PROVE  \E k : Nearest(ring, h, k) /\ getNode(ring, h) = ring[k].node
<1> DEFINE n == Len(ring)
           c == bisect(ring, h)
           k == (IF c = n THEN 0 ELSE c) + 1
           D == HashSpace
<1>1. n \in Nat /\ n # 0 /\ DOMAIN ring = 1 .. n
  BY EmptySeq
<1>2. c \in 0 .. n /\ \A i \in 1 .. n : ring[i].hash < h <=> i <= c
  BY BisectFindsCut DEF Cut
<1>3. getNode(ring, h) = ring[k].node
  BY DEF getNode
<1>4. \A i \in 1 .. n : ring[i].hash \in Hashes /\ ring[i].hash \in Nat
  BY <1>1, PointTypes
<1>5. D \in Nat /\ h \in Nat /\ \A a \in Hashes : a < D
  BY HashRingAssumption DEF Hashes
<1>6. \A i, j \in 1 .. n : i <= j => ring[i].hash <= ring[j].hash
  <2> SUFFICES ASSUME NEW i \in 1 .. n, NEW j \in 1 .. n, i <= j, i # j
               PROVE  ring[i].hash <= ring[j].hash
    BY <1>4
  <2>1. i < j
    BY <1>1
  <2> QED BY <1>1, <2>1 DEF Sorted
<1>7. \A i \in 1 .. n : Distance(h, ring[i].hash) =
         IF ring[i].hash >= h THEN ring[i].hash - h ELSE ring[i].hash + D - h
  BY <1>4, DistanceForm
<1> HIDE DEF n, c, D
<1>8. k \in 1 .. n
  BY <1>1, <1>2
<1>9. ASSUME NEW j \in 1 .. n
      PROVE  \/ Distance(h, ring[k].hash) < Distance(h, ring[j].hash)
             \/ Distance(h, ring[k].hash) = Distance(h, ring[j].hash) /\ k <= j
  <2> DEFINE a == ring[k].hash
             b == ring[j].hash
  <2>1. a \in Nat /\ b \in Nat /\ a < D /\ b < D
    BY <1>4, <1>5, <1>8
  <2>2. /\ Distance(h, a) = IF a >= h THEN a - h ELSE a + D - h
        /\ Distance(h, b) = IF b >= h THEN b - h ELSE b + D - h
    BY <1>7, <1>8
  <2>3. CASE c = n
    <3>1. k = 1 /\ k <= j /\ 1 \in 1 .. n
      BY <1>1, <2>3
    <3>2. a <= b
      BY <1>6, <1>8, <3>1
    <3>3. a < h /\ b < h
      <4>1. k <= c /\ j <= c
        BY <1>1, <1>8, <2>3
      <4> QED BY <1>2, <1>8, <4>1
    <3> HIDE DEF a, b, k
    <3>4. Distance(h, a) = a + D - h /\ Distance(h, b) = b + D - h
      BY <1>5, <2>1, <2>2, <3>3
    <3>5. Distance(h, a) < Distance(h, b) \/ Distance(h, a) = Distance(h, b)
      BY <1>5, <2>1, <3>2, <3>4
    <3> QED BY <3>1, <3>5 DEF a, b
  <2>4. CASE c # n
    <3>1. k = c + 1
      BY <2>4
    <3>2. ~(a < h)
      <4>1. ~(k <= c)
        BY <1>2, <3>1
      <4> QED BY <1>2, <1>8, <4>1
    <3>3. CASE k <= j
      <4>1. a <= b
        BY <1>6, <1>8, <3>3
      <4> HIDE DEF a, b, k
      <4>2. Distance(h, a) = a - h /\ Distance(h, b) = b - h
        BY <1>5, <2>1, <2>2, <3>2, <4>1
      <4>3. Distance(h, a) < Distance(h, b) \/ Distance(h, a) = Distance(h, b)
        BY <1>5, <2>1, <4>1, <4>2
      <4> QED BY <3>3, <4>3 DEF a, b
    <3>4. CASE ~(k <= j)
      <4>1. j <= c
        BY <1>1, <1>2, <3>1, <3>4
      <4>2. b < h
        BY <1>2, <4>1
      <4> HIDE DEF a, b, k
      <4>3. Distance(h, a) = a - h /\ Distance(h, b) = b + D - h
        BY <1>5, <2>1, <2>2, <3>2, <4>2
      <4>4. Distance(h, a) < Distance(h, b)
        BY <1>5, <2>1, <4>3
      <4> QED BY <4>4 DEF a, b
    <3> QED BY <3>3, <3>4
  <2> QED BY <2>3, <2>4
<1>10. Nearest(ring, h, k)
  <2> HIDE DEF k
  <2> QED BY <1>1, <1>8, <1>9 DEF Nearest
<1> HIDE DEF k
<1> QED BY <1>3, <1>10

(* The lookup in a whole ring finds what the reference finds without one.   *)
LEMMA WholeLookup ==
    ASSUME NEW p \in Placements, NEW ring, Whole(p, ring), ring # <<>>, NEW h \in Hashes
    PROVE  getNode(ring, h) \in Successors(p, nodeSet(ring), h)
<1> DEFINE V == 0 .. VirtualNodes - 1
<1>1. ring \in Seq(Point) /\ Sorted(ring) /\ \A n \in nodeSet(ring) : HasPoints(p, ring, n)
  BY DEF Whole
<1>2. PICK k : Nearest(ring, h, k) /\ getNode(ring, h) = ring[k].node
  BY <1>1, LookupFindsNearest
<1> DEFINE n == ring[k].node
<1>3. k \in DOMAIN ring /\ n \in nodeSet(ring)
  BY <1>2 DEF Nearest, nodeSet
<1>4. \A j \in DOMAIN ring : Distance(h, ring[k].hash) <= Distance(h, ring[j].hash)
  <2> SUFFICES ASSUME NEW j \in DOMAIN ring
               PROVE  Distance(h, ring[k].hash) <= Distance(h, ring[j].hash)
    OBVIOUS
  <2>1. Distance(h, ring[k].hash) \in Nat /\ Distance(h, ring[j].hash) \in Nat
    BY <1>1, <1>3, PointTypes, DistanceForm
  <2>2. \/ Distance(h, ring[k].hash) < Distance(h, ring[j].hash)
        \/ Distance(h, ring[k].hash) = Distance(h, ring[j].hash)
    BY <1>2 DEF Nearest
  <2> QED BY <2>1, <2>2
<1>5. PICK v \in V : ring[k].hash = p[n][v]
  <2>1. HasPoints(p, ring, n)
    BY <1>1, <1>3
  <2> HIDE DEF n
  <2>2. PICK q \in [V -> DOMAIN ring] :
          /\ \A v \in V : ring[q[v]] = [hash |-> p[n][v], node |-> n]
          /\ \A i \in DOMAIN ring : ring[i].node = n => \E v \in V : q[v] = i
    BY <2>1 DEF HasPoints
  <2>3. PICK v \in V : q[v] = k
    BY <1>3, <2>2 DEF n
  <2>4. ring[k] = [hash |-> p[n][v], node |-> n]
    BY <2>2, <2>3
  <2>5. ring[k].hash = p[n][v]
    BY <2>4
  <2> QED BY <2>5
<1>6. ASSUME NEW m \in nodeSet(ring), NEW w \in V
      PROVE  Distance(h, ring[k].hash) <= Distance(h, p[m][w])
  <2>1. HasPoints(p, ring, m)
    BY <1>1
  <2>2. PICK q \in [V -> DOMAIN ring] : \A u \in V : ring[q[u]] = [hash |-> p[m][u], node |-> m]
    BY <2>1 DEF HasPoints
  <2> DEFINE i == q[w]
  <2>3. i \in DOMAIN ring /\ ring[i] = [hash |-> p[m][w], node |-> m]
    BY <2>2
  <2> HIDE DEF i
  <2>4. ring[i].hash = p[m][w]
    BY <2>3
  <2> QED BY <1>4, <2>3, <2>4
<1> HIDE DEF n
<1>7. n \in Successors(p, nodeSet(ring), h)
  BY <1>3, <1>5, <1>6 DEF Successors
<1> QED BY <1>2, <1>7 DEF n

(* Points of n added to a ring take hashes over, and leave all the others   *)
(* to the point they had: the nearest of the larger ring is n's, or was in  *)
(* the smaller ring, where then none can be nearer.                         *)
LEMMA EmbedsLookup ==
    ASSUME NEW x \in Seq(Point), NEW y \in Seq(Point), NEW n, Embeds(x, y, n),
           Sorted(x), Sorted(y), x # <<>>, y # <<>>, NEW h \in Hashes
    PROVE  getNode(y, h) = n \/ getNode(y, h) = getNode(x, h)
<1>1. PICK m \in [DOMAIN x -> DOMAIN y] :
        /\ \A i \in DOMAIN x : y[m[i]] = x[i] /\ x[i].node # n
        /\ \A i, j \in DOMAIN x : i < j /\ x[i].hash = x[j].hash => m[i] < m[j]
        /\ \A l \in DOMAIN y : y[l].node = n \/ \E i \in DOMAIN x : m[i] = l
  BY DEF Embeds
<1>2. PICK a : Nearest(x, h, a) /\ getNode(x, h) = x[a].node
  BY LookupFindsNearest
<1>3. PICK b : Nearest(y, h, b) /\ getNode(y, h) = y[b].node
  BY LookupFindsNearest
<1>4. a \in DOMAIN x /\ b \in DOMAIN y
  BY <1>2, <1>3 DEF Nearest
<1>5. CASE y[b].node = n
  BY <1>3, <1>5
<1>6. CASE y[b].node # n
  <2>1. PICK i \in DOMAIN x : m[i] = b
    BY <1>1, <1>4, <1>6
  <2>2. y[b] = x[i] /\ y[m[a]] = x[a] /\ m[a] \in DOMAIN y
    BY <1>1, <1>4, <2>1
  <2> DEFINE da == Distance(h, x[a].hash)
             di == Distance(h, x[i].hash)
  <2>3. da < di \/ (da = di /\ a <= i)
    BY <1>2 DEF Nearest
  <2>4. di < da \/ (di = da /\ b <= m[a])
    BY <1>3, <2>2 DEF Nearest
  <2>5. x[a].hash \in Hashes /\ x[i].hash \in Hashes
    BY <1>4, PointTypes
  <2>6. da \in Nat /\ di \in Nat
    BY <2>5, DistanceForm
  <2>7. da = di /\ a <= i /\ b <= m[a]
    <3> HIDE DEF da, di
    <3> QED BY <2>3, <2>4, <2>6
  <2>8. x[a].hash = x[i].hash
    <3>1. da = di
      BY <2>7
    <3> QED BY <2>5, <3>1, DistanceInjective
  <2>9. a \in Nat /\ i \in Nat /\ b \in Nat /\ m[a] \in Nat
    BY <1>4, <2>2
  <2>10. ~(a < i)
    <3> SUFFICES ASSUME a < i PROVE FALSE
      OBVIOUS
    <3>1. m[a] < m[i]
      BY <1>1, <1>4, <2>8
    <3> HIDE DEF da, di
    <3> QED BY <2>1, <2>7, <2>9, <3>1
  <2>11. a = i
    <3> HIDE DEF da, di
    <3> QED BY <2>7, <2>9, <2>10
  <2> QED BY <1>2, <1>3, <2>2, <2>11
<1> QED BY <1>5, <1>6

-----------------------------------------------------------------------------
(* The ring of the configured nodes, which add() builds one by one. *)

(* The function by which FoldLeft is defined, on the subsets of 1 .. n. *)
Adds(p, list, n, g) ==
    g = [S \in SUBSET (1 .. n) |->
            IF S = {} THEN <<>> ELSE add(p, g[S \ {Max(S)}], list[Max(S)])]

(* The recursion by which the fold is defined has a solution, by induction  *)
(* on the greatest index: so the chosen function is one.                    *)
LEMMA AddsExists ==
    ASSUME NEW p, NEW list, NEW n \in Nat
    PROVE  \E g : Adds(p, list, n, g)
<1> DEFINE T == {m \in Nat : \E g : Adds(p, list, m, g)}
<1>1. 0 \in T
  <2> DEFINE g == [S \in SUBSET (1 .. 0) |-> <<>>]
  <2>1. \A S \in SUBSET (1 .. 0) : S = {}
    OBVIOUS
  <2>2. Adds(p, list, 0, g)
    BY <2>1 DEF Adds
  <2> HIDE DEF g
  <2> QED BY <2>2
<1>2. ASSUME NEW m \in Nat, m \in T PROVE m + 1 \in T
  <2>1. PICK g : Adds(p, list, m, g)
    BY <1>2
  <2> DEFINE h == [S \in SUBSET (1 .. m + 1) |->
                      IF m + 1 \in S THEN add(p, g[S \ {m + 1}], list[m + 1]) ELSE g[S]]
             body(S) == IF S = {} THEN <<>> ELSE add(p, h[S \ {Max(S)}], list[Max(S)])
  <2>2. ASSUME NEW S \in SUBSET (1 .. m + 1) PROVE h[S] = body(S)
    <3>1. CASE m + 1 \in S
      <4>1. Max(S) = m + 1
        <5>1. m + 1 \in Nat /\ S # {}
          BY <3>1
        <5>2. Max(S) \in S /\ \A x \in S : x <= Max(S)
          BY <5>1, MaxExists
        <5>3. Max(S) \in 1 .. m + 1 /\ m + 1 <= Max(S)
          BY <3>1, <5>2
        <5> QED BY <5>3
      <4>2. S \ {m + 1} \in SUBSET (1 .. m + 1) /\ m + 1 \notin S \ {m + 1} /\ S # {}
        BY <3>1
      <4>3. h[S \ {m + 1}] = g[S \ {m + 1}]
        BY <4>2
      <4>4. h[S] = add(p, g[S \ {m + 1}], list[m + 1])
        BY <3>1
      <4> HIDE DEF h
      <4> QED BY <4>1, <4>2, <4>3, <4>4
    <3>2. CASE m + 1 \notin S
      <4>1. S \in SUBSET (1 .. m)
        BY <3>2
      <4>2. h[S] = g[S]
        BY <3>2
      <4>3. g[S] = IF S = {} THEN <<>> ELSE add(p, g[S \ {Max(S)}], list[Max(S)])
        BY <2>1, <4>1 DEF Adds
      <4>4. h[S \ {Max(S)}] = g[S \ {Max(S)}]
        BY <3>2
      <4> HIDE DEF h
      <4> QED BY <4>2, <4>3, <4>4
    <3> QED BY <3>1, <3>2
  <2>3. h = [S \in SUBSET (1 .. m + 1) |-> body(S)]
    BY <2>2
  <2>4. Adds(p, list, m + 1, h)
    <3> HIDE DEF h
    <3> QED BY <2>3 DEF Adds
  <2> HIDE DEF h
  <2> QED BY <2>4
<1> HIDE DEF T
<1>3. n \in T
  BY <1>1, <1>2, NatSetInduction
<1> QED BY <1>3 DEF T

(* The ring of the constructor is that solution, at the set of all indices. *)
LEMMA ConfiguredIsFold ==
    ASSUME NEW p, NEW list, NEW n \in Nat, DOMAIN list = 1 .. n
    PROVE  Configured(p, list) = (CHOOSE g : Adds(p, list, n, g))[1 .. n]
BY DEF Configured, FoldLeft, MapThenFoldSet, Adds

(* Nothing is in the empty ring. *)
LEMMA EmptyWhole ==
    ASSUME NEW p PROVE Whole(p, <<>>) /\ nodeSet(<<>>) = {}
<1> DEFINE e == <<>>
<1>1. e \in Seq(Point) /\ DOMAIN e = {} /\ Len(e) = 0
  BY EmptySeq
<1>2. nodeSet(e) = {}
  BY <1>1 DEF nodeSet
<1>3. IsFiniteSet(nodeSet(e)) /\ Cardinality(nodeSet(e)) = 0
  BY <1>2, FS_EmptySet
<1> HIDE DEF e
<1>4. Whole(p, e)
  BY <1>1, <1>2, <1>3, HashRingAssumption DEF Whole, Sorted
<1> QED BY <1>2, <1>4 DEF e

(* Whatever the order of the list, the ring is whole and has all the nodes. *)
LEMMA ConfiguredWhole ==
    ASSUME NEW p \in Placements, NEW list \in Lists
    PROVE  Whole(p, Configured(p, list)) /\ nodeSet(Configured(p, list)) = Nodes
<1> DEFINE n == Cardinality(Nodes)
           g == CHOOSE f : Adds(p, list, n, f)
           r(j) == g[1 .. j]
           T == {j \in Nat : j <= n =>
                   Whole(p, r(j)) /\ nodeSet(r(j)) = {list[i] : i \in 1 .. j}}
<1>1. n \in Nat /\ IsFiniteSet(Nodes)
  BY HashRingAssumption, FS_CardinalityType
<1>2. list \in [1 .. n -> Nodes] /\ \A i, j \in 1 .. n : list[i] = list[j] => i = j
  BY DEF Lists, IsInjective
<1> HIDE DEF n
<1>3. Adds(p, list, n, g)
  BY <1>1, AddsExists
<1>4. Configured(p, list) = r(n)
  BY <1>1, <1>2, ConfiguredIsFold
<1> HIDE DEF g
<1>5. \A S \in SUBSET (1 .. n) :
          g[S] = IF S = {} THEN <<>> ELSE add(p, g[S \ {Max(S)}], list[Max(S)])
  BY <1>3 DEF Adds
<1>6. 0 \in T
  <2>0. 1 .. 0 = {}
    OBVIOUS
  <2>1. r(0) = <<>>
    <3>1. g[{}] = <<>>
      BY <1>5
    <3> QED BY <2>0, <3>1
  <2>2. {list[i] : i \in 1 .. 0} = {}
    BY <2>0
  <2>3. Whole(p, r(0)) /\ nodeSet(r(0)) = {}
    BY <2>1, EmptyWhole
  <2> HIDE DEF r
  <2> QED BY <2>2, <2>3
<1>7. ASSUME NEW k \in Nat, k \in T PROVE k + 1 \in T
  <2> DEFINE j == k + 1
  <2> SUFFICES ASSUME j <= n
               PROVE  Whole(p, r(j)) /\ nodeSet(r(j)) = {list[i] : i \in 1 .. j}
    OBVIOUS
  <2>1. k <= n /\ j \in 1 .. n /\ j \in Nat
    BY <1>1
  <2>2. Whole(p, r(k)) /\ nodeSet(r(k)) = {list[i] : i \in 1 .. k}
    BY <1>7, <2>1
  <2> HIDE DEF T
  <2>3. (1 .. j) \ {j} = 1 .. k /\ 1 .. j \in SUBSET (1 .. n) /\ j \in 1 .. j /\ 1 .. j # {}
    BY <1>1, <2>1
  <2> HIDE DEF j
  <2>4. Max(1 .. j) = j
    <3>1. Max(1 .. j) \in 1 .. j /\ \A x \in 1 .. j : x <= Max(1 .. j)
      BY <2>1, <2>3, MaxExists
    <3> QED BY <2>1, <2>3, <3>1
  <2>5. r(j) = add(p, r(k), list[j])
    BY <1>5, <2>3, <2>4
  <2> HIDE DEF r
  <2>6. list[j] \in Nodes /\ list[j] \notin nodeSet(r(k))
    <3>1. list[j] \in Nodes
      BY <1>2, <2>1
    <3>2. ASSUME NEW i \in 1 .. k, list[i] = list[j] PROVE FALSE
      <4>1. i \in 1 .. n /\ i # j
        BY <1>1, <2>1 DEF j
      <4> QED BY <1>2, <2>1, <3>2, <4>1
    <3> QED BY <2>2, <3>1, <3>2
  <2>7. Whole(p, r(j)) /\ nodeSet(r(j)) = nodeSet(r(k)) \cup {list[j]}
    BY <2>2, <2>5, <2>6, WholeAdd
  <2>8. 1 .. j = (1 .. k) \cup {j}
    BY <2>1 DEF j
  <2>9. {list[i] : i \in 1 .. j} = {list[i] : i \in 1 .. k} \cup {list[j]}
    BY <2>8
  <2> QED BY <2>2, <2>7, <2>9
<1>8. n \in T
  <2> HIDE DEF T
  <2> QED BY <1>1, <1>6, <1>7, NatSetInduction
<1>9. Whole(p, r(n)) /\ nodeSet(r(n)) = {list[i] : i \in 1 .. n}
  BY <1>1, <1>8
<1>10. {list[i] : i \in 1 .. n} = Nodes
  <2>1. list \in Injection(1 .. n, Nodes)
    BY <1>2 DEF Injection, IsInjective
  <2>2. Cardinality(1 .. n) = n
    <3>1. 1 \in Int /\ n \in Int
      BY <1>1
    <3>2. Cardinality(1 .. n) = IF 1 > n THEN 0 ELSE n - 1 + 1
      BY <3>1, FS_Interval
    <3> QED BY <1>1, <3>2
  <2>3. list \in Surjection(1 .. n, Nodes)
    BY <1>1, <2>1, <2>2, FS_Injection DEF n
  <2>4. \A x \in Nodes : \E i \in 1 .. n : list[i] = x
    BY <2>3 DEF Surjection
  <2> QED BY <1>2, <2>4
<1> HIDE DEF r
<1> QED BY <1>4, <1>9, <1>10

-----------------------------------------------------------------------------
(* The invariants of the rings and of the rest of the state. *)

(* The gateways start with whole rings.                                     *)
LEMMA InitInv == Init => RingsInv /\ DataTypeOK
<1> SUFFICES ASSUME Init PROVE RingsInv /\ DataTypeOK
  OBVIOUS
<1>1. point \in Placements /\ rings \in [Gateways -> {Configured(point, list) : list \in Lists}]
  BY DEF Init
<1>2. \A g \in Gateways : \E list \in Lists : rings[g] = Configured(point, list)
  BY <1>1
<1>3. \A g \in Gateways : Whole(point, rings[g])
  BY <1>1, <1>2, ConfiguredWhole
<1>4. \A g \in Gateways : rings[g] \in Seq(Point)
  BY <1>3 DEF Whole
<1>5. RingsInv
  BY <1>1, <1>3, <1>4 DEF RingsInv
<1>6. DataTypeOK
  <2>1. 0 \in 0 .. MaxMoves
    BY RoutingAssumption
  <2>2. /\ up = Nodes /\ store = [n \in Nodes |-> Absent] /\ flights = {}
        /\ latest = Absent /\ homeLost = FALSE /\ moves = 0
    BY DEF Init
  <2> QED BY <2>1, <2>2 DEF DataTypeOK
<1> QED BY <1>5, <1>6

(* Every request goes to one of the nodes of the ring. *)
LEMMA NodeForType ==
    ASSUME RingsInv, NEW g \in Gateways, rings[g] # <<>>, NEW h \in Hashes
    PROVE  /\ nodeFor(g, h) \in Successors(point, nodeSet(rings[g]), h)
           /\ nodeFor(g, h) \in nodeSet(rings[g]) /\ nodeFor(g, h) \in Nodes
<1>1. point \in Placements /\ Whole(point, rings[g]) /\ rings[g] \in Seq(Point)
  BY DEF RingsInv
<1>2. nodeFor(g, h) \in Successors(point, nodeSet(rings[g]), h)
  BY <1>1, WholeLookup DEF nodeFor
<1>3. nodeFor(g, h) \in nodeSet(rings[g])
  BY <1>2 DEF Successors
<1>4. PICK i \in DOMAIN rings[g] : nodeFor(g, h) = rings[g][i].node
  BY <1>3 DEF nodeSet
<1>5. nodeFor(g, h) \in Nodes
  BY <1>1, <1>4, PointTypes
<1> QED BY <1>2, <1>3, <1>5

(* What a step does to the rings: nothing, or one node leaves or joins one. *)
LEMMA RingSteps ==
    ASSUME RingsInv, [Next]_vars
    PROVE  /\ point' = point /\ rings' \in [Gateways -> Seq(Point)]
           /\ \A g \in Gateways :
                 \/ rings'[g] = rings[g]
                 \/ \E n \in Nodes :
                       /\ rings'[g] = add(point, rings[g], n) /\ n \notin nodeSet(rings[g])
                       /\ Whole(point, rings'[g]) /\ Embeds(rings[g], rings'[g], n)
                       /\ nodeSet(rings'[g]) = nodeSet(rings[g]) \cup {n}
                 \/ \E n \in Nodes :
                       /\ rings'[g] = remove(rings[g], n) /\ n \in nodeSet(rings[g])
                       /\ Whole(point, rings'[g]) /\ Embeds(rings'[g], rings[g], n)
                       /\ nodeSet(rings'[g]) = nodeSet(rings[g]) \ {n}
                       /\ homeLost' = (homeLost \/ n \in Home)
<1>0. /\ point \in Placements /\ rings \in [Gateways -> Seq(Point)]
      /\ \A g \in Gateways : Whole(point, rings[g])
  BY DEF RingsInv
<1>1. ASSUME NEW g \in Gateways, NEW n \in Nodes, addNode(g, n)
      PROVE  /\ point' = point /\ rings' = [rings EXCEPT ![g] = add(point, rings[g], n)]
             /\ n \notin nodeSet(rings[g])
             /\ Whole(point, add(point, rings[g], n)) /\ Embeds(rings[g], add(point, rings[g], n), n)
             /\ nodeSet(add(point, rings[g], n)) = nodeSet(rings[g]) \cup {n}
  <2>1. /\ point' = point /\ rings' = [rings EXCEPT ![g] = add(point, rings[g], n)]
        /\ n \notin nodeSet(rings[g])
    BY <1>0, <1>1 DEF addNode
  <2> QED BY <1>0, <2>1, WholeAdd
<1>2. ASSUME NEW g \in Gateways, NEW n \in Nodes, removeNode(g, n)
      PROVE  /\ point' = point /\ rings' = [rings EXCEPT ![g] = remove(rings[g], n)]
             /\ n \in nodeSet(rings[g])
             /\ homeLost' = (homeLost \/ n \in Home)
             /\ Whole(point, remove(rings[g], n)) /\ Embeds(remove(rings[g], n), rings[g], n)
             /\ nodeSet(remove(rings[g], n)) = nodeSet(rings[g]) \ {n}
  <2>1. /\ point' = point /\ rings' = [rings EXCEPT ![g] = remove(rings[g], n)]
        /\ n \in nodeSet(rings[g]) /\ homeLost' = (homeLost \/ n \in Home)
    BY <1>0, <1>2 DEF removeNode
  <2> QED BY <1>0, <2>1, WholeRemove
<1>3. CASE \E g \in Gateways, n \in Nodes : addNode(g, n)
  <2>1. PICK g \in Gateways, n \in Nodes : addNode(g, n)
    BY <1>3
  <2> DEFINE r == add(point, rings[g], n)
  <2>2. /\ point' = point /\ rings' = [rings EXCEPT ![g] = r] /\ n \notin nodeSet(rings[g])
        /\ Whole(point, r) /\ Embeds(rings[g], r, n) /\ nodeSet(r) = nodeSet(rings[g]) \cup {n}
    BY <1>1, <2>1
  <2>3. r \in Seq(Point)
    BY <2>2 DEF Whole
  <2>4. /\ r = add(point, rings[g], n)
    OBVIOUS
  <2> HIDE DEF r
  <2>5. rings' \in [Gateways -> Seq(Point)] /\ rings'[g] = r /\ \A k \in Gateways \ {g} : rings'[k] = rings[k]
    BY <1>0, <2>2, <2>3
  <2> QED BY <2>2, <2>4, <2>5
<1>4. CASE \E g \in Gateways, n \in Nodes : removeNode(g, n)
  <2>1. PICK g \in Gateways, n \in Nodes : removeNode(g, n)
    BY <1>4
  <2> DEFINE r == remove(rings[g], n)
  <2>2. /\ point' = point /\ rings' = [rings EXCEPT ![g] = r] /\ n \in nodeSet(rings[g])
        /\ homeLost' = (homeLost \/ n \in Home)
        /\ Whole(point, r) /\ Embeds(r, rings[g], n) /\ nodeSet(r) = nodeSet(rings[g]) \ {n}
    BY <1>2, <2>1
  <2>3. r \in Seq(Point)
    BY <2>2 DEF Whole
  <2>4. /\ r = remove(rings[g], n)
    OBVIOUS
  <2> HIDE DEF r
  <2>5. rings' \in [Gateways -> Seq(Point)] /\ rings'[g] = r /\ \A k \in Gateways \ {g} : rings'[k] = rings[k]
    BY <1>0, <2>2, <2>3
  <2> QED BY <2>2, <2>4, <2>5
<1>5. CASE UNCHANGED <<point, rings>>
  BY <1>0, <1>5
<1>6. ASSUME Next PROVE \/ \E g \in Gateways, n \in Nodes : addNode(g, n)
                        \/ \E g \in Gateways, n \in Nodes : removeNode(g, n)
                        \/ UNCHANGED <<point, rings>>
  BY <1>6 DEF Next, Crash, Recover, Request, Serve, Unreachable
<1>7. ASSUME UNCHANGED vars PROVE UNCHANGED <<point, rings>>
  BY <1>7 DEF vars
<1> QED BY <1>3, <1>4, <1>5, <1>6, <1>7

(* A step keeps the rings whole.                                            *)
LEMMA RingsNext == RingsInv /\ [Next]_vars => RingsInv'
<1> SUFFICES ASSUME RingsInv, [Next]_vars PROVE RingsInv'
  OBVIOUS
<1>1. /\ point' = point /\ rings' \in [Gateways -> Seq(Point)]
      /\ \A g \in Gateways : rings'[g] = rings[g] \/ Whole(point, rings'[g])
  BY RingSteps
<1> QED BY <1>1 DEF RingsInv

(* A step keeps the types of the rest of the state.                         *)
LEMMA DataNext == RingsInv /\ DataTypeOK /\ [Next]_vars => DataTypeOK'
<1> SUFFICES ASSUME RingsInv, DataTypeOK, [Next]_vars PROVE DataTypeOK'
  OBVIOUS
<1> USE DEF DataTypeOK
<1>0. MaxMoves \in Nat /\ Key \in Hashes
  BY RoutingAssumption
<1>1. ASSUME NEW g \in Gateways, NEW n \in Nodes, addNode(g, n) PROVE DataTypeOK'
  BY <1>0, <1>1 DEF addNode
<1>2. ASSUME NEW g \in Gateways, NEW n \in Nodes, removeNode(g, n) PROVE DataTypeOK'
  <2>1. homeLost' \in BOOLEAN
    BY <1>2 DEF removeNode
  <2> QED BY <1>0, <1>2, <2>1 DEF removeNode
<1>3. ASSUME NEW n \in Nodes, Crash(n) PROVE DataTypeOK'
  <2>1. homeLost' \in BOOLEAN
    BY <1>3 DEF Crash
  <2> QED BY <1>0, <1>3, <2>1 DEF Crash
<1>4. ASSUME NEW n \in Nodes, Recover(n) PROVE DataTypeOK'
  BY <1>4 DEF Recover
<1>5. ASSUME NEW g \in Gateways, NEW op \in {"set", "get", "delete"}, NEW v \in Values \cup {Absent},
             Request(g, op, v)
      PROVE  DataTypeOK'
  <2>1. nodeFor(g, Key) \in Nodes
    BY <1>0, <1>5, NodeForType DEF Request
  <2>2. [node |-> nodeFor(g, Key), op |-> op, value |-> v] \in Flights
    BY <2>1 DEF Flights
  <2> QED BY <1>5, <2>2 DEF Request
<1>6. ASSUME NEW f \in flights, Serve(f) PROVE DataTypeOK'
  <2>1. f.node \in Nodes /\ f.value \in Values \cup {Absent}
    BY DEF Flights
  <2> QED BY <1>6, <2>1 DEF Serve
<1>7. ASSUME NEW f \in flights, Unreachable(f) PROVE DataTypeOK'
  BY <1>7 DEF Unreachable
<1>8. CASE UNCHANGED vars
  BY <1>8 DEF vars
<1> QED BY <1>1, <1>2, <1>3, <1>4, <1>5, <1>6, <1>7, <1>8 DEF Next

(* The rings are whole and the rest of the state is of its type, in every   *)
(* state.                                                                   *)
LEMMA InvHolds == Spec => [](RingsInv /\ DataTypeOK)
<1>1. Init => RingsInv /\ DataTypeOK
  BY InitInv
<1>2. (RingsInv /\ DataTypeOK) /\ [Next]_vars => (RingsInv /\ DataTypeOK)'
  BY RingsNext, DataNext
<1> QED BY <1>1, <1>2, PTL DEF Spec

-----------------------------------------------------------------------------
(* The theorems. *)

(* THE TYPES, AND THE SHAPE OF A RING (cluster.ts, hashring.ts): however    *)
(* the nodes are listed, leave and join, a ring has every virtual node of   *)
(* each of its nodes once and no other point, in the order of the hashes.   *)
THEOREM TypeCorrect == Spec => []TypeOK
<1>1. RingsInv /\ DataTypeOK => TypeOK
  <2> SUFFICES ASSUME RingsInv, DataTypeOK PROVE TypeOK
    OBVIOUS
  <2>1. ASSUME NEW g \in Gateways
        PROVE  /\ nodeSet(rings[g]) \subseteq Nodes
               /\ Len(rings[g]) = VirtualNodes * Cardinality(nodeSet(rings[g]))
               /\ \A i \in 2 .. Len(rings[g]) : rings[g][i - 1].hash <= rings[g][i].hash
    <3> DEFINE r == rings[g]
    <3>1. /\ r \in Seq(Point) /\ Sorted(r)
          /\ Len(r) = VirtualNodes * Cardinality(nodeSet(r))
      BY DEF RingsInv, Whole
    <3> HIDE DEF r
    <3>2. nodeSet(r) \subseteq Nodes
      BY <3>1, PointTypes DEF nodeSet
    <3>3. ASSUME NEW i \in 2 .. Len(r) PROVE r[i - 1].hash <= r[i].hash
      <4>1. i - 1 \in DOMAIN r /\ i \in DOMAIN r /\ i - 1 < i
        BY <3>1
      <4> QED BY <3>1, <4>1 DEF Sorted
    <3> QED BY <3>1, <3>2, <3>3 DEF r
  <2> QED BY <2>1 DEF RingsInv, DataTypeOK, TypeOK
<1> QED BY <1>1, InvHolds, PTL

(* THE BINARY SEARCH IS RIGHT (hashring.ts, getNode()): in every ring that  *)
(* can come about, for every hash - below, at, between and past the points, *)
(* and where points share a hash - getNode() returns a node that owns a     *)
(* nearest point clockwise.  So it does what its comment says, for any      *)
(* number of nodes and of virtual nodes.                                    *)
THEOREM LookupCorrect == Spec => []LookupFindsSuccessor
<1>1. RingsInv => LookupFindsSuccessor
  BY NodeForType DEF LookupFindsSuccessor
<1> QED BY <1>1, InvHolds, PTL

(* GATEWAYS AGREE: two gateways whose rings have the same nodes send a key  *)
(* to the same node, whatever the order in which each came to know them,    *)
(* unless nodes share the hash the key falls on.                            *)
THEOREM RoutesAgree == Spec => []GatewaysAgree
<1>1. RingsInv => GatewaysAgree
  <2> SUFFICES ASSUME RingsInv, NEW g1 \in Gateways, NEW g2 \in Gateways, NEW h \in Hashes,
                      nodeSet(rings[g1]) = nodeSet(rings[g2]),
                      Cardinality(Successors(point, nodeSet(rings[g1]), h)) = 1
               PROVE  nodeFor(g1, h) = nodeFor(g2, h)
    BY DEF GatewaysAgree
  <2> DEFINE S == nodeSet(rings[g1])
             A == Successors(point, S, h)
  <2>1. IsFiniteSet(S) /\ A \in SUBSET S
    BY DEF RingsInv, Whole, Successors
  <2> HIDE DEF S
  <2>2. IsFiniteSet(A)
    <3> HIDE DEF A
    <3> QED BY <2>1, FS_Subset
  <2>3. PICK x : A = {x}
    <3>1. Cardinality(A) = 1
      BY DEF S
    <3> HIDE DEF A
    <3> QED BY <2>2, <3>1, FS_Singleton
  <2>4. S # {}
    BY <2>1, <2>3
  <2>5. rings[g1] # <<>> /\ rings[g2] # <<>>
    BY <2>4, EmptyWhole DEF S
  <2>6. nodeFor(g1, h) \in A /\ nodeFor(g2, h) \in A
    BY <2>5, NodeForType DEF S
  <2> HIDE DEF A
  <2> QED BY <2>3, <2>6
<1> QED BY <1>1, InvHolds, PTL

(* ONLY ITS KEYS MOVE (hashring.ts, remove(): "Keys mapped to every *other* *)
(* node are unaffected"): when a node leaves or joins a ring, a key moves   *)
(* from the node that left, or to the node that joined, or not at all - at  *)
(* shared hashes too, where the order of the points decides.                *)
THEOREM KeysStayPut == Spec => OnlyItsKeysMove
<1>1. ASSUME RingsInv, [Next]_vars, NEW g \in Gateways, NEW h \in Hashes,
             rings[g] # <<>>, rings'[g] # <<>>
      PROVE  \/ getNode(rings[g], h) = getNode(rings'[g], h)
             \/ getNode(rings[g], h) \in nodeSet(rings[g]) \ nodeSet(rings'[g])
             \/ getNode(rings'[g], h) \in nodeSet(rings'[g]) \ nodeSet(rings[g])
  <2> DEFINE r == rings[g]
             s == rings'[g]
  <2>1. /\ r \in Seq(Point) /\ Sorted(r) /\ s \in Seq(Point) /\ Sorted(s)
    <3>1. Whole(point, rings[g]) /\ Whole(point', rings'[g])
      BY <1>1, RingsNext DEF RingsInv
    <3> QED BY <3>1 DEF Whole
  <2>2. \/ s = r
        \/ \E n \in Nodes : n \notin nodeSet(r) /\ Embeds(r, s, n) /\ nodeSet(s) = nodeSet(r) \cup {n}
        \/ \E n \in Nodes : n \in nodeSet(r) /\ Embeds(s, r, n) /\ nodeSet(s) = nodeSet(r) \ {n}
    BY <1>1, RingSteps
  <2>3. r # <<>> /\ s # <<>>
    BY <1>1
  <2> SUFFICES \/ getNode(r, h) = getNode(s, h)
               \/ getNode(r, h) \in nodeSet(r) \ nodeSet(s)
               \/ getNode(s, h) \in nodeSet(s) \ nodeSet(r)
    OBVIOUS
  <2> HIDE DEF r, s
  <2>4. CASE s = r
    BY <2>4
  <2>5. ASSUME NEW n \in Nodes, n \notin nodeSet(r), Embeds(r, s, n), nodeSet(s) = nodeSet(r) \cup {n}
        PROVE  getNode(r, h) = getNode(s, h) \/ getNode(s, h) \in nodeSet(s) \ nodeSet(r)
    <3>1. getNode(s, h) = n \/ getNode(s, h) = getNode(r, h)
      BY <2>1, <2>3, <2>5, EmbedsLookup
    <3> QED BY <2>5, <3>1
  <2>6. ASSUME NEW n \in Nodes, n \in nodeSet(r), Embeds(s, r, n), nodeSet(s) = nodeSet(r) \ {n}
        PROVE  getNode(r, h) = getNode(s, h) \/ getNode(r, h) \in nodeSet(r) \ nodeSet(s)
    <3>1. getNode(r, h) = n \/ getNode(r, h) = getNode(s, h)
      BY <2>1, <2>3, <2>6, EmbedsLookup
    <3> QED BY <2>6, <3>1
  <2> QED BY <2>2, <2>4, <2>5, <2>6
<1> DEFINE A == \A g \in Gateways, h \in Hashes :
                  LET left == nodeSet(rings[g]) \ nodeSet(rings'[g])
                      joined == nodeSet(rings'[g]) \ nodeSet(rings[g]) IN
                  rings[g] # <<>> /\ rings'[g] # <<>> =>
                      LET before == getNode(rings[g], h)
                          after == getNode(rings'[g], h) IN
                      before = after \/ before \in left \/ after \in joined
<1>2. (RingsInv /\ DataTypeOK) /\ [Next]_vars => [A]_vars
  BY <1>1
<1>3. Spec => [][A]_vars
  BY <1>2, InvHolds, PTL DEF Spec
<1> QED BY <1>3 DEF OnlyItsKeysMove

-----------------------------------------------------------------------------
(* The data of a key whose first owner stays. *)

(* As long as the only first owner is in a ring, the lookup finds it: no    *)
(* other node of the ring is nearer.                                        *)
LEMMA HomeIsFound ==
    ASSUME RingsInv, NEW x \in Nodes, Home = {x},
           NEW g \in Gateways, x \in nodeSet(rings[g])
    PROVE  rings[g] # <<>> /\ nodeFor(g, Key) = x
<1> DEFINE V == 0 .. VirtualNodes - 1
           S == nodeSet(rings[g])
           a == nodeFor(g, Key)
           d(n, v) == Distance(Key, point[n][v])
<1>0. Key \in Hashes
  BY RoutingAssumption
<1>1. rings[g] # <<>>
  BY EmptyWhole
<1>2. a \in Successors(point, S, Key) /\ a \in S /\ a \in Nodes
  BY <1>0, <1>1, NodeForType
<1>3. \A n \in Nodes, v \in V : d(n, v) \in Nat
  <2> SUFFICES ASSUME NEW n \in Nodes, NEW v \in V PROVE d(n, v) \in Nat
    OBVIOUS
  <2>1. point[n] \in [V -> Hashes]
    BY DEF RingsInv, Placements
  <2>2. point[n][v] \in Hashes
    BY <2>1
  <2> QED BY <1>0, <2>2, DistanceForm
<1>4. PICK i \in V : \A m \in Nodes, j \in V : d(x, i) <= d(m, j)
  <2>1. x \in Home
    OBVIOUS
  <2> QED BY <2>1 DEF Home, Successors
<1>5. PICK v \in V : \A m \in S, j \in V : d(a, v) <= d(m, j)
  BY <1>2 DEF Successors
<1>6. d(a, v) <= d(x, i)
  BY <1>5
<1> HIDE DEF a
<1>7. ASSUME NEW m \in Nodes, NEW j \in V PROVE d(a, v) <= d(m, j)
  <2>1. d(x, i) <= d(m, j)
    BY <1>4
  <2>2. d(a, v) \in Nat /\ d(x, i) \in Nat /\ d(m, j) \in Nat
    BY <1>2, <1>3
  <2> HIDE DEF d
  <2> QED BY <1>6, <2>1, <2>2
<1>8. a \in Home
  BY <1>2, <1>7 DEF Home, Successors
<1> QED BY <1>1, <1>8 DEF a

(* At the start every owner is in every ring, and no write was made.        *)
LEMMA HomeInit == Init => HomeInv
<1> SUFFICES ASSUME Init PROVE HomeInv
  OBVIOUS
<1>1. ASSUME NEW g \in Gateways PROVE nodeSet(rings[g]) = Nodes
  <2>1. point \in Placements /\ \E list \in Lists : rings[g] = Configured(point, list)
    BY DEF Init
  <2> QED BY <2>1, ConfiguredWhole
<1>2. Home \subseteq Nodes
  BY DEF Home, Successors
<1> QED BY <1>1, <1>2 DEF Init, HomeInv

(* A step that loses no first owner keeps them in the rings; then a new     *)
(* request goes to the only one, and a crash is another node's.             *)
LEMMA HomeNext == RingsInv /\ DataTypeOK /\ HomeInv /\ [Next]_vars => HomeInv'
<1> SUFFICES ASSUME RingsInv, DataTypeOK, HomeInv, [Next]_vars, ~homeLost'
             PROVE  HomeInv'
  BY DEF HomeInv
<1>1. point' = point /\ Home' = Home
  BY RingSteps DEF Home
<1>2. ~homeLost
  BY DEF Next, vars, addNode, removeNode, Crash, Recover, Request, Serve, Unreachable
<1>3. ASSUME NEW g \in Gateways PROVE Home \subseteq nodeSet(rings'[g])
  <2>1. Home \subseteq nodeSet(rings[g])
    BY <1>2 DEF HomeInv
  <2>2. \/ nodeSet(rings[g]) \subseteq nodeSet(rings'[g])
        \/ \E n : nodeSet(rings'[g]) = nodeSet(rings[g]) \ {n} /\ n \notin Home
    BY RingSteps
  <2> QED BY <2>1, <2>2
<1>4. ASSUME NEW x \in Nodes, Home = {x}
      PROVE  store'[x] = latest' /\ \A f \in flights' : f.node = x
  <2>1. store[x] = latest /\ \A f \in flights : f.node = x
    BY <1>2, <1>4 DEF HomeInv
  <2>2. CASE UNCHANGED <<store, flights, latest>>
    BY <2>1, <2>2
  <2>3. ASSUME NEW n \in Nodes, Crash(n) PROVE store'[x] = latest' /\ \A f \in flights' : f.node = x
    <3>1. n # x
      BY <1>4, <2>3 DEF Crash
    <3> QED BY <2>1, <2>3, <3>1 DEF Crash, DataTypeOK
  <2>4. ASSUME NEW g \in Gateways, NEW op, NEW v, Request(g, op, v)
        PROVE  store'[x] = latest' /\ \A f \in flights' : f.node = x
    <3>1. x \in nodeSet(rings[g])
      BY <1>2, <1>4 DEF HomeInv
    <3>2. nodeFor(g, Key) = x
      BY <1>4, <3>1, HomeIsFound
    <3>3. [node |-> nodeFor(g, Key), op |-> op, value |-> v].node = x
      BY <3>2
    <3> QED BY <2>1, <2>4, <3>3 DEF Request
  <2>5. ASSUME NEW f \in flights, Serve(f)
        PROVE  store'[x] = latest' /\ \A k \in flights' : k.node = x
    <3>1. f.node = x
      BY <2>1
    <3> QED BY <2>1, <2>5, <3>1 DEF Serve, DataTypeOK
  <2>6. ASSUME NEW f \in flights, Unreachable(f)
        PROVE  store'[x] = latest' /\ \A k \in flights' : k.node = x
    BY <2>1, <2>6 DEF Unreachable
  <2>7. ASSUME Next
        PROVE  \/ UNCHANGED <<store, flights, latest>>
               \/ \E n \in Nodes : Crash(n)
               \/ \E g \in Gateways : \E op, v : Request(g, op, v)
               \/ \E f \in flights : Serve(f)
               \/ \E f \in flights : Unreachable(f)
    BY <2>7 DEF Next, addNode, removeNode, Recover
  <2>8. ASSUME UNCHANGED vars PROVE UNCHANGED <<store, flights, latest>>
    BY <2>8 DEF vars
  <2> QED BY <2>2, <2>3, <2>4, <2>5, <2>6, <2>7, <2>8
<1> QED BY <1>1, <1>3, <1>4 DEF HomeInv

(* NO WRITE IS LOST BEHIND A STEADY OWNER: as long as the node that owns a  *)
(* key stays up and in every ring, every gateway finds the last write of    *)
(* the key there, whatever other nodes leave, join and crash with requests  *)
(* under way.                                                               *)
THEOREM HomeKeeps == Spec => []HomeKeepsItsKeys
<1>1. RingsInv /\ HomeInv => HomeKeepsItsKeys
  <2> SUFFICES ASSUME RingsInv, HomeInv, ~homeLost, Cardinality(Home) = 1, NEW g \in Gateways
               PROVE  store[nodeFor(g, Key)] = latest
    BY DEF HomeKeepsItsKeys
  <2>1. Home \in SUBSET Nodes /\ IsFiniteSet(Nodes)
    BY HashRingAssumption DEF Home, Successors
  <2>2. IsFiniteSet(Home)
    BY <2>1, FS_Subset
  <2>3. PICK x : Home = {x}
    BY <2>2, FS_Singleton
  <2>4. x \in Nodes
    BY <2>1, <2>3
  <2>5. store[x] = latest /\ x \in nodeSet(rings[g])
    BY <2>3, <2>4 DEF HomeInv
  <2> QED BY <2>3, <2>4, <2>5, HomeIsFound
<1>2. Init => HomeInv
  BY HomeInit
<1>3. (RingsInv /\ DataTypeOK) /\ HomeInv /\ [Next]_vars => HomeInv'
  BY HomeNext
<1> QED BY <1>1, <1>2, <1>3, InvHolds, PTL DEF Spec
=============================================================================
