--------------------------- MODULE SequenceLemmas ---------------------------
(***************************************************************************)
(* Facts about numbers and sequences that the proofs of several modules    *)
(* need: induction in a form without an operator as a parameter, what      *)
(* taking an element from a sequence leaves, the maximum of a set of       *)
(* indices, what putting a set of indices in order gives, what is left of  *)
(* a sequence at a set of its indices, what sorting one gives, and where a *)
(* binary search ends.                                                     *)
(***************************************************************************)
EXTENDS Ordering, SequencesExt, SequenceTheorems, FiniteSetTheorems, WellFoundedInduction, TLAPS

(* Induction: a set that holds 0 and, with a number, the next one, holds them *)
(* all.  A least number outside of it would have a predecessor inside.      *)
LEMMA NatSetInduction ==
    ASSUME NEW T, 0 \in T, \A n \in Nat : n \in T => n + 1 \in T
    PROVE  Nat \subseteq T
<1> DEFINE Less == OpToRel(<, Nat)
<1>1. SUFFICES ASSUME Nat \ T # {} PROVE FALSE
  OBVIOUS
<1>2. IsWellFoundedOn(Less, Nat)
  BY NatLessThanWellFounded
<1>3. PICK x \in Nat \ T : \A y \in Nat \ T : <<y, x>> \notin Less
  <2> HIDE DEF Less
  <2> QED BY <1>1, <1>2, WFMin
<1>4. x # 0 /\ x - 1 \in Nat \ T
  OBVIOUS
<1>5. <<x - 1, x>> \in Less
  BY <1>4 DEF OpToRel
<1> QED BY <1>3, <1>4, <1>5

(* A set of numbers that is not empty has a least one. *)
LEMMA LeastExists ==
    ASSUME NEW S \in SUBSET Nat, S # {}
    PROVE  \E x \in S : \A y \in S : x <= y
<1> DEFINE Less == OpToRel(<, Nat)
<1>1. IsWellFoundedOn(Less, Nat)
  BY NatLessThanWellFounded
<1>2. PICK x \in S : \A y \in S : <<y, x>> \notin Less
  <2>1. IsWellFoundedOn(Less, S)
    <3> HIDE DEF Less
    <3> QED BY <1>1, IsWellFoundedOnSubset
  <2> HIDE DEF Less
  <2> QED BY <2>1, WFMin
<1>3. \A y \in S : ~(y < x)
  BY <1>2 DEF OpToRel
<1> QED BY <1>3

(* What is left of a sequence without its first n elements. *)
LEMMA SuffixProperties ==
    ASSUME NEW S, NEW s \in Seq(S), NEW n \in 0 .. Len(s)
    PROVE  LET t == SubSeq(s, n + 1, Len(s)) IN
           /\ t \in Seq(S) /\ Len(t) = Len(s) - n
           /\ \A i \in 1 .. Len(s) - n : t[i] = s[n + i]
<1> DEFINE l == Len(s)
           t == SubSeq(s, n + 1, l)
<1>1. l \in Nat /\ n \in Nat /\ n <= l /\ \A i \in 1 .. l : s[i] \in S
  OBVIOUS
<1> HIDE DEF l
<1>2. \A i \in n + 1 .. l : s[i] \in S
  BY <1>1
<1>3. /\ t \in Seq(S) /\ Len(t) = IF n + 1 <= l THEN l - (n + 1) + 1 ELSE 0
      /\ \A i \in 1 .. l - (n + 1) + 1 : t[i] = s[n + 1 + i - 1]
  BY <1>1, <1>2, SubSeqProperties
<1> HIDE DEF t
<1>4. Len(t) = l - n
  <2>1. CASE n + 1 <= l
    BY <1>1, <1>3, <2>1
  <2>2. CASE ~(n + 1 <= l)
    BY <1>1, <1>3, <2>2
  <2> QED BY <2>1, <2>2
<1>5. \A i \in 1 .. l - n : t[i] = s[n + i]
  <2>1. \A i \in 1 .. l - n : i \in 1 .. l - (n + 1) + 1 /\ n + 1 + i - 1 = n + i
    BY <1>1
  <2> QED BY <1>3, <2>1
<1> QED BY <1>3, <1>4, <1>5 DEF l, t

(* What RemoveAt leaves of a sequence.                                      *)
LEMMA RemoveAtProperties ==
    ASSUME NEW S, NEW s \in Seq(S), NEW i \in 1 .. Len(s)
    PROVE  /\ RemoveAt(s, i) \in Seq(S)
           /\ Len(RemoveAt(s, i)) = Len(s) - 1
           /\ \A j \in 1 .. Len(s) - 1 :
                 RemoveAt(s, i)[j] = IF j < i THEN s[j] ELSE s[j + 1]
<1> DEFINE a == SubSeq(s, 1, i - 1)
           b == SubSeq(s, i + 1, Len(s))
<1>1. /\ a \in Seq(S) /\ Len(a) = i - 1
      /\ \A j \in 1 .. i - 1 : a[j] = s[j]
  <2>1. \A j \in 1 .. i - 1 : s[j] \in S
    OBVIOUS
  <2> QED BY <2>1
<1>2. /\ b \in Seq(S) /\ Len(b) = Len(s) - i
      /\ \A j \in 1 .. Len(s) - i : b[j] = s[j + i]
  OBVIOUS
<1>3. RemoveAt(s, i) = a \o b
  BY DEF RemoveAt
<1> HIDE DEF a, b
<1>4. /\ a \o b \in Seq(S)
      /\ Len(a \o b) = Len(a) + Len(b)
      /\ \A j \in 1 .. Len(a) + Len(b) :
            (a \o b)[j] = IF j <= Len(a) THEN a[j] ELSE b[j - Len(a)]
  BY <1>1, <1>2, ConcatProperties
<1>5. ASSUME NEW j \in 1 .. Len(s) - 1
      PROVE  (a \o b)[j] = IF j < i THEN s[j] ELSE s[j + 1]
  <2>1. CASE j < i
    BY <1>1, <1>2, <1>4, <2>1
  <2>2. CASE ~(j < i)
    <3>1. j - (i - 1) \in 1 .. Len(s) - i /\ j - (i - 1) + i = j + 1
      BY <2>2
    <3>2. (a \o b)[j] = b[j - (i - 1)]
      BY <1>1, <1>2, <1>4, <2>2
    <3> QED BY <1>2, <2>2, <3>1, <3>2
  <2> QED BY <2>1, <2>2
<1> QED BY <1>1, <1>2, <1>3, <1>4, <1>5

(* A set of indices that is not empty has a greatest one.                   *)
LEMMA MaxExists ==
    ASSUME NEW n \in Nat, NEW S \in SUBSET (1 .. n), S # {}
    PROVE  /\ Max(S) \in S
           /\ \A x \in S : x <= Max(S)
<1> DEFINE T == {m \in Nat : \A U \in SUBSET (1 .. m) :
                     U # {} => \E x \in U : \A y \in U : x >= y}
<1>1. 0 \in T
  <2>1. 1 .. 0 = {}
    OBVIOUS
  <2> QED BY <2>1
<1>2. ASSUME NEW m \in Nat, m \in T PROVE m + 1 \in T
  <2> SUFFICES ASSUME NEW U \in SUBSET (1 .. m + 1), U # {}
               PROVE  \E x \in U : \A y \in U : x >= y
    OBVIOUS
  <2>1. CASE m + 1 \in U
    BY <2>1
  <2>2. CASE m + 1 \notin U
    <3>1. U \in SUBSET (1 .. m)
      BY <2>2
    <3> QED BY <1>2, <3>1
  <2> QED BY <2>1, <2>2
<1>3. n \in T
  <2> HIDE DEF T
  <2> QED BY <1>1, <1>2, NatSetInduction
<1>4. \E x \in S : \A y \in S : x >= y
  BY <1>3
<1> QED BY <1>4 DEF Max

(* InOrder() lists the members of a finite set in a strict total order:     *)
(* each of them has its own number of predecessors, so every number below   *)
(* the size of the set is the number of predecessors of exactly one.        *)
LEMMA InOrderLists ==
    ASSUME NEW I, IsFiniteSet(I), NEW lt,
           \A i \in I : <<i, i>> \notin lt,
           \A i, j, k \in I : <<i, j>> \in lt /\ <<j, k>> \in lt => <<i, k>> \in lt,
           \A i, j \in I : i # j => <<i, j>> \in lt \/ <<j, i>> \in lt
    PROVE  /\ Cardinality(I) \in Nat
           /\ InOrder(I, lt) \in [1 .. Cardinality(I) -> I]
           /\ \A i \in I : \E r \in 1 .. Cardinality(I) : InOrder(I, lt)[r] = i
           /\ \A a, b \in 1 .. Cardinality(I) : a < b => <<InOrder(I, lt)[a], InOrder(I, lt)[b]>> \in lt
<1> DEFINE n == Cardinality(I)
           below(i) == {j \in I : <<j, i>> \in lt}
           rank == [i \in I |-> Cardinality(below(i))]
           f == InOrder(I, lt)
<1>1. n \in Nat
  BY FS_CardinalityType
<1>2. ASSUME NEW i \in I PROVE IsFiniteSet(below(i)) /\ rank[i] \in 0 .. n - 1
  <2>1. below(i) \in SUBSET (I \ {i})
    OBVIOUS
  <2>2. IsFiniteSet(I \ {i}) /\ Cardinality(I \ {i}) = n - 1
    BY FS_RemoveElement
  <2>3. IsFiniteSet(below(i)) /\ Cardinality(below(i)) <= n - 1
    <3> HIDE DEF below, n
    <3> QED BY <2>1, <2>2, FS_Subset
  <2>4. Cardinality(below(i)) \in Nat
    <3> HIDE DEF below
    <3> QED BY <2>3, FS_CardinalityType
  <2>5. rank[i] = Cardinality(below(i))
    OBVIOUS
  <2> HIDE DEF below, rank, n
  <2> QED BY <1>1, <2>3, <2>4, <2>5
<1>3. ASSUME NEW i \in I, NEW j \in I, <<i, j>> \in lt PROVE rank[i] < rank[j]
  <2>1. below(i) \in SUBSET below(j) /\ i \in below(j) /\ i \notin below(i)
    BY <1>3
  <2>2. IsFiniteSet(below(j)) /\ IsFiniteSet(below(i))
    BY <1>2
  <2>3. rank[i] = Cardinality(below(i)) /\ rank[j] = Cardinality(below(j))
    OBVIOUS
  <2> HIDE DEF below, rank
  <2>4. Cardinality(below(i)) <= Cardinality(below(j)) /\ Cardinality(below(i)) # Cardinality(below(j))
    BY <2>1, <2>2, FS_Subset
  <2>5. Cardinality(below(i)) \in Nat /\ Cardinality(below(j)) \in Nat
    BY <2>2, FS_CardinalityType
  <2> QED BY <2>3, <2>4, <2>5
<1>4. \A i, j \in I : rank[i] = rank[j] => i = j
  <2> SUFFICES ASSUME NEW i \in I, NEW j \in I, i # j PROVE rank[i] # rank[j]
    OBVIOUS
  <2>1. rank[i] \in Nat /\ rank[j] \in Nat
    <3>1. rank[i] \in 0 .. n - 1 /\ rank[j] \in 0 .. n - 1
      BY <1>2
    <3> HIDE DEF rank, n
    <3> QED BY <1>1, <3>1
  <2>2. rank[i] < rank[j] \/ rank[j] < rank[i]
    BY <1>3
  <2> HIDE DEF rank
  <2> QED BY <2>1, <2>2
<1>5. \A k \in 0 .. n - 1 : \E i \in I : rank[i] = k
  <2>1. rank \in [I -> 0 .. n - 1]
    BY <1>2
  <2> HIDE DEF rank
  <2>2. rank \in Injection(I, 0 .. n - 1)
    BY <1>4, <2>1 DEF Injection, IsInjective
  <2>3. IsFiniteSet(0 .. n - 1) /\ Cardinality(0 .. n - 1) = n
    <3> HIDE DEF n
    <3>1. 0 \in Int /\ n - 1 \in Int
      BY <1>1
    <3>2. IsFiniteSet(0 .. n - 1) /\ Cardinality(0 .. n - 1) = IF 0 > n - 1 THEN 0 ELSE n - 1 - 0 + 1
      BY <3>1, FS_Interval
    <3> QED BY <1>1, <3>2
  <2>4. rank \in Surjection(I, 0 .. n - 1)
    BY <2>2, <2>3, FS_Injection
  <2> QED BY <2>4 DEF Surjection
<1>6. ASSUME NEW r \in 1 .. n PROVE f[r] \in I /\ rank[f[r]] = r - 1
  <2>1. f[r] = CHOOSE i \in I : Cardinality(below(i)) = r - 1
    BY DEF InOrder
  <2>2. r - 1 \in 0 .. n - 1
    BY <1>1
  <2>3. PICK i \in I : rank[i] = r - 1
    BY <1>5, <2>2
  <2>4. \A j \in I : rank[j] = Cardinality(below(j))
    OBVIOUS
  <2> HIDE DEF f, below, rank, n
  <2> QED BY <2>1, <2>3, <2>4
<1>7. f \in [1 .. n -> I]
  <2> DEFINE value(r) == CHOOSE i \in I : Cardinality({j \in I : <<j, i>> \in lt}) = r - 1
  <2>1. f = [r \in 1 .. n |-> value(r)]
    BY DEF InOrder
  <2>2. \A r \in 1 .. n : value(r) = f[r]
    BY <2>1
  <2> HIDE DEF f, n, value
  <2> QED BY <1>6, <2>1, <2>2
<1>8. ASSUME NEW i \in I PROVE \E r \in 1 .. n : f[r] = i
  <2>1. rank[i] \in 0 .. n - 1
    BY <1>2
  <2> HIDE DEF rank, f, n
  <2>2. rank[i] + 1 \in 1 .. n /\ (rank[i] + 1) - 1 = rank[i]
    BY <1>1, <2>1
  <2>3. f[rank[i] + 1] = i
    BY <1>4, <1>6, <2>2
  <2> QED BY <2>2, <2>3
<1>9. ASSUME NEW a \in 1 .. n, NEW b \in 1 .. n, a < b PROVE <<f[a], f[b]>> \in lt
  <2>1. f[a] \in I /\ f[b] \in I /\ rank[f[a]] = a - 1 /\ rank[f[b]] = b - 1
    BY <1>6
  <2> HIDE DEF rank, f, n
  <2>2. rank[f[a]] < rank[f[b]] /\ ~(rank[f[b]] < rank[f[a]])
    BY <1>1, <1>9, <2>1
  <2>3. f[a] # f[b]
    BY <1>1, <2>1, <2>2
  <2> QED BY <1>3, <2>1, <2>2, <2>3
<1> HIDE DEF n, f
<1> QED BY <1>1, <1>7, <1>8, <1>9 DEF n, f

(* Nth() lists a set of indices in their order.                             *)
LEMMA NthLists ==
    ASSUME NEW n \in Nat, NEW I \in SUBSET (1 .. n)
    PROVE  /\ Cardinality(I) \in Nat
           /\ \A r \in 1 .. Cardinality(I) : Nth(I, r) \in I
           /\ \A i \in I : \E r \in 1 .. Cardinality(I) : Nth(I, r) = i
           /\ \A a, b \in 1 .. Cardinality(I) : a < b => Nth(I, a) < Nth(I, b)
<1> DEFINE lt == {p \in I \X I : p[1] < p[2]}
           e == InOrder(I, lt)
           m == Cardinality(I)
<1>1. IsFiniteSet(I)
  <2>1. 1 \in Int /\ n \in Int
    OBVIOUS
  <2> QED BY <2>1, FS_Interval, FS_Subset
<1>2. \A i, j \in I : <<i, j>> \in lt <=> i < j
  OBVIOUS
<1>3. \A i \in I : i \in Nat
  OBVIOUS
<1>4. ASSUME NEW r \in 1 .. m PROVE e[r] = Nth(I, r)
  <2>1. \A i \in I : {j \in I : <<j, i>> \in lt} = {j \in I : j < i}
    BY <1>2
  <2> HIDE DEF lt
  <2>2. e[r] = CHOOSE i \in I : Cardinality({j \in I : <<j, i>> \in lt}) = r - 1
    BY <1>4 DEF InOrder
  <2>3. \A i \in I : Cardinality({j \in I : <<j, i>> \in lt}) = r - 1
                   <=> Cardinality({j \in I : j < i}) = r - 1
    BY Zenon, <2>1
  <2>4. (CHOOSE i \in I : Cardinality({j \in I : <<j, i>> \in lt}) = r - 1)
        = (CHOOSE i \in I : Cardinality({j \in I : j < i}) = r - 1)
    BY Zenon, <2>3
  <2> QED BY <2>2, <2>4 DEF Nth
<1> HIDE DEF lt
<1>5. /\ m \in Nat /\ e \in [1 .. m -> I]
      /\ \A i \in I : \E r \in 1 .. m : e[r] = i
      /\ \A a, b \in 1 .. m : a < b => <<e[a], e[b]>> \in lt
  <2>1. \A i \in I : <<i, i>> \notin lt
    BY <1>2, <1>3
  <2>2. \A i, j, k \in I : <<i, j>> \in lt /\ <<j, k>> \in lt => <<i, k>> \in lt
    BY <1>2, <1>3
  <2>3. \A i, j \in I : i # j => <<i, j>> \in lt \/ <<j, i>> \in lt
    BY <1>2, <1>3
  <2>4. /\ Cardinality(I) \in Nat
        /\ InOrder(I, lt) \in [1 .. Cardinality(I) -> I]
        /\ \A i \in I : \E r \in 1 .. Cardinality(I) : InOrder(I, lt)[r] = i
        /\ \A a, b \in 1 .. Cardinality(I) : a < b => <<InOrder(I, lt)[a], InOrder(I, lt)[b]>> \in lt
    BY <1>1, <2>1, <2>2, <2>3, InOrderLists
  <2> QED BY <2>4
<1> HIDE DEF e
<1>6. \A a, b \in 1 .. m : a < b => e[a] < e[b]
  BY <1>2, <1>5
<1> HIDE DEF m
<1> QED BY <1>4, <1>5, <1>6 DEF m

(* Picked() leaves the elements at the indices I, each once, in their order. *)
LEMMA PickedProperties ==
    ASSUME NEW S, NEW s \in Seq(S), NEW I \in SUBSET DOMAIN s
    PROVE  \E m \in Nat : \E e :
               /\ e \in [1 .. m -> I]
               /\ Picked(s, I) \in Seq(S) /\ DOMAIN Picked(s, I) = 1 .. m /\ Len(Picked(s, I)) = m
               /\ \A r \in 1 .. m : Picked(s, I)[r] = s[e[r]]
               /\ \A i \in I : \E r \in 1 .. m : e[r] = i
               /\ \A a, b \in 1 .. m : a < b => e[a] < e[b]
<1> DEFINE m == Cardinality(I)
           e == [r \in 1 .. m |-> Nth(I, r)]
           t == Picked(s, I)
<1>1. DOMAIN s = 1 .. Len(s) /\ Len(s) \in Nat /\ I \in SUBSET (1 .. Len(s))
  OBVIOUS
<1>2. /\ m \in Nat
      /\ \A r \in 1 .. m : Nth(I, r) \in I
      /\ \A i \in I : \E r \in 1 .. m : Nth(I, r) = i
      /\ \A a, b \in 1 .. m : a < b => Nth(I, a) < Nth(I, b)
  <2> DEFINE n == Len(s)
  <2>1. n \in Nat /\ I \in SUBSET (1 .. n)
    BY <1>1
  <2> HIDE DEF n
  <2> QED BY <2>1, NthLists
<1>3. t = [r \in 1 .. m |-> s[Nth(I, r)]]
  BY DEF Picked
<1> HIDE DEF m, t
<1>4. /\ e \in [1 .. m -> I] /\ \A r \in 1 .. m : t[r] = s[e[r]] /\ t[r] \in S
      /\ \A i \in I : \E r \in 1 .. m : e[r] = i
      /\ \A a, b \in 1 .. m : a < b => e[a] < e[b]
  <2>1. \A r \in 1 .. m : e[r] = Nth(I, r) /\ t[r] = s[Nth(I, r)]
    BY <1>3
  <2>2. \A i \in I : s[i] \in S
    BY <1>1
  <2> QED BY <1>2, <2>1, <2>2
<1>5. t \in Seq(S) /\ DOMAIN t = 1 .. m /\ Len(t) = m
  <2>1. t \in [1 .. m -> S]
    BY <1>3, <1>4
  <2> QED BY <1>2, <2>1
<1> HIDE DEF e
<1>6. /\ e \in [1 .. m -> I]
      /\ Picked(s, I) \in Seq(S) /\ DOMAIN Picked(s, I) = 1 .. m /\ Len(Picked(s, I)) = m
      /\ \A r \in 1 .. m : Picked(s, I)[r] = s[e[r]]
      /\ \A i \in I : \E r \in 1 .. m : e[r] = i
      /\ \A a, b \in 1 .. m : a < b => e[a] < e[b]
  BY <1>4, <1>5 DEF t
<1>7. m \in Nat
  BY <1>2
<1> QED BY ZenonT(30), <1>6, <1>7

(* It leaves all of s when I holds all indices of it, *)
LEMMA PickedAll ==
    ASSUME NEW S, NEW s \in Seq(S)
    PROVE  Picked(s, DOMAIN s) = s
<1> DEFINE n == Len(s)
           I == DOMAIN s
<1>1. n \in Nat /\ I = 1 .. n /\ s = [r \in 1 .. n |-> s[r]]
  OBVIOUS
<1> HIDE DEF n, I
<1>2. \A k \in 0 .. n : Cardinality(1 .. k) = k
  <2> SUFFICES ASSUME NEW k \in 0 .. n PROVE Cardinality(1 .. k) = k
    OBVIOUS
  <2>1. 1 \in Int /\ k \in Int
    BY <1>1
  <2>2. Cardinality(1 .. k) = IF 1 > k THEN 0 ELSE k - 1 + 1
    BY <2>1, FS_Interval
  <2> QED BY <1>1, <2>2
<1>3. \A i \in I : Cardinality({j \in I : j < i}) = i - 1
  <2> SUFFICES ASSUME NEW i \in I PROVE Cardinality({j \in I : j < i}) = i - 1
    OBVIOUS
  <2>1. {j \in I : j < i} = 1 .. i - 1 /\ i - 1 \in 0 .. n
    BY <1>1
  <2> QED BY <1>2, <2>1
<1>4. ASSUME NEW r \in 1 .. n PROVE Nth(I, r) = r
  <2> DEFINE below(i) == Cardinality({j \in I : j < i})
  <2>1. \A i \in I : below(i) = i - 1
    BY <1>3
  <2>2. Nth(I, r) = CHOOSE i \in I : below(i) = r - 1
    BY DEF Nth
  <2> HIDE DEF below
  <2>3. r \in I /\ \A i \in I : below(i) = r - 1 <=> i = r
    BY <1>1, <2>1
  <2> QED BY <2>2, <2>3
<1>5. Cardinality(I) = n
  <2>1. n \in 0 .. n
    BY <1>1
  <2> QED BY <1>1, <1>2, <2>1
<1>6. Picked(s, I) = [r \in 1 .. n |-> s[Nth(I, r)]]
  BY <1>5 DEF Picked
<1> QED BY <1>1, <1>4, <1>6 DEF I

(* and the same of s however it goes on.                                    *)
LEMMA PickedAppend ==
    ASSUME NEW S, NEW s \in Seq(S), NEW x, NEW I \in SUBSET DOMAIN s
    PROVE  Picked(Append(s, x), I) = Picked(s, I)
<1> DEFINE n == Len(s)
           t == Append(s, x)
<1>1. n \in Nat /\ I \in SUBSET (1 .. n) /\ \A i \in 1 .. n : t[i] = s[i]
  OBVIOUS
<1> HIDE DEF n, t
<1>2. \A r \in 1 .. Cardinality(I) : Nth(I, r) \in I
  BY <1>1, NthLists
<1>3. \A r \in 1 .. Cardinality(I) : t[Nth(I, r)] = s[Nth(I, r)]
  BY <1>1, <1>2
<1> QED BY <1>3 DEF Picked, t

(* What sort() makes of a sequence: each element at one index, by their     *)
(* keys, and those of one key in the order in which they were.              *)
LEMMA SortedByProperties ==
    ASSUME NEW S, NEW s \in Seq(S), NEW keys, \A i \in DOMAIN s : keys[i] \in Nat
    PROVE  \E e \in [1 .. Len(s) -> 1 .. Len(s)] :
               /\ SortedBy(s, keys) \in Seq(S) /\ DOMAIN SortedBy(s, keys) = 1 .. Len(s)
               /\ \A r \in 1 .. Len(s) : SortedBy(s, keys)[r] = s[e[r]]
               /\ \A i \in 1 .. Len(s) : \E r \in 1 .. Len(s) : e[r] = i
               /\ \A a, b \in 1 .. Len(s) : a < b =>
                     \/ keys[e[a]] < keys[e[b]]
                     \/ keys[e[a]] = keys[e[b]] /\ e[a] < e[b]
<1> DEFINE n == Len(s)
           lt == {p \in (DOMAIN s) \X (DOMAIN s) :
                     \/ keys[p[1]] < keys[p[2]]
                     \/ keys[p[1]] = keys[p[2]] /\ p[1] < p[2]}
           e == InOrder(DOMAIN s, lt)
           t == SortedBy(s, keys)
<1>1. n \in Nat /\ DOMAIN s = 1 .. n /\ s \in [1 .. n -> S]
  OBVIOUS
<1> HIDE DEF n
<1>2. \A i, j \in DOMAIN s : <<i, j>> \in lt <=>
          keys[i] < keys[j] \/ (keys[i] = keys[j] /\ i < j)
  OBVIOUS
<1>3. IsFiniteSet(DOMAIN s) /\ Cardinality(DOMAIN s) = n
  <2>1. 1 \in Int /\ n \in Int
    BY <1>1
  <2>2. IsFiniteSet(1 .. n) /\ Cardinality(1 .. n) = IF 1 > n THEN 0 ELSE n - 1 + 1
    BY <2>1, FS_Interval
  <2> QED BY <1>1, <2>2
<1>4. t = [r \in DOMAIN s |-> s[e[r]]]
  BY DEF SortedBy
<1> HIDE DEF lt, t
<1>5. \A i \in DOMAIN s : i \in Nat
  BY <1>1
<1>6. /\ e \in [1 .. n -> DOMAIN s]
      /\ \A i \in DOMAIN s : \E r \in 1 .. n : e[r] = i
      /\ \A a, b \in 1 .. n : a < b => <<e[a], e[b]>> \in lt
  <2>1. \A i \in DOMAIN s : <<i, i>> \notin lt
    BY <1>2, <1>5
  <2>2. \A i, j, k \in DOMAIN s : <<i, j>> \in lt /\ <<j, k>> \in lt => <<i, k>> \in lt
    BY <1>2, <1>5
  <2>3. \A i, j \in DOMAIN s : i # j => <<i, j>> \in lt \/ <<j, i>> \in lt
    BY <1>2, <1>5
  <2> QED BY <1>3, <2>1, <2>2, <2>3, InOrderLists
<1> HIDE DEF e
<1>7. t \in [1 .. n -> S]
  BY <1>1, <1>4, <1>6
<1>8. t \in Seq(S)
  BY <1>1, <1>7
<1>9. \A a, b \in 1 .. n : a < b =>
          keys[e[a]] < keys[e[b]] \/ (keys[e[a]] = keys[e[b]] /\ e[a] < e[b])
  BY <1>2, <1>6
<1>10. \A r \in 1 .. n : t[r] = s[e[r]]
  BY <1>1, <1>4
<1>11. e \in [1 .. n -> 1 .. n] /\ DOMAIN t = 1 .. n
  BY <1>1, <1>6, <1>7
<1>12. \A i \in 1 .. n : \E r \in 1 .. n : e[r] = i
  BY <1>1, <1>6
<1> QED BY <1>8, <1>9, <1>10, <1>11, <1>12 DEF n, t

-----------------------------------------------------------------------------
(* The binary search. *)

(* The indices from lo to hi that come before c are those in `before'.      *)
Cuts(before, lo, hi, c) ==
    c \in lo .. hi /\ \A i \in lo .. hi - 1 : i \in before <=> i < c

(* A set of indices that is closed downward has such a cut.                 *)
LEMMA CutExists ==
    ASSUME NEW before, NEW lo \in Nat, NEW hi \in Nat, lo <= hi,
           \A i, j \in lo .. hi - 1 : i < j /\ j \in before => i \in before
    PROVE  \E c : Cuts(before, lo, hi, c)
<1> DEFINE S == {c \in lo .. hi : \A i \in lo .. hi - 1 : i \in before => i < c}
<1>1. S \in SUBSET Nat /\ S # {}
  <2>1. hi \in S
    OBVIOUS
  <2> QED BY <2>1
<1>2. PICK c \in S : \A d \in S : c <= d
  <2> HIDE DEF S
  <2> QED BY <1>1, LeastExists
<1>3. c \in lo .. hi /\ \A i \in lo .. hi - 1 : i \in before => i < c
  OBVIOUS
<1>4. ASSUME NEW i \in lo .. hi - 1, i < c PROVE i \in before
  <2>1. c - 1 \in lo .. hi /\ c - 1 \notin S
    BY <1>2, <1>3, <1>4
  <2>2. PICK j \in lo .. hi - 1 : j \in before /\ ~(j < c - 1)
    BY <2>1
  <2>3. i < j \/ i = j
    BY <1>3, <1>4, <2>2
  <2> QED BY <2>2, <2>3
<1> QED BY <1>3, <1>4 DEF Cuts

(* The search from lo to hi ends at the cut, or at the bound it is beyond;  *)
(* that this solves the equation of `search' makes it a function, and       *)
(* induction on hi - lo makes it the only one.                              *)
Clamp(c, lo, hi) ==
    IF lo >= hi \/ c <= lo THEN lo ELSE IF c >= hi THEN hi ELSE c

Searches(before, lo, hi, g) ==
    g = [w \in (lo .. hi) \X (lo .. hi) |->
            LET mid == (w[1] + w[2]) \div 2
            IN IF w[1] >= w[2] THEN w[1]
               ELSE IF mid \in before THEN g[<<mid + 1, w[2]>>] ELSE g[<<w[1], mid>>]]

(* The equation of the binary search has a solution.                        *)
LEMMA SearchExists ==
    ASSUME NEW before, NEW l \in Nat, NEW n \in Nat, NEW c, Cuts(before, l, n, c)
    PROVE  \E g : Searches(before, l, n, g)
<1> DEFINE g == [w \in (l .. n) \X (l .. n) |-> Clamp(c, w[1], w[2])]
<1>1. c \in l .. n /\ \A i \in l .. n - 1 : i \in before <=> i < c
  BY DEF Cuts
<1>2. \A lo, hi \in l .. n : g[<<lo, hi>>] = Clamp(c, lo, hi)
  OBVIOUS
<1>3. ASSUME NEW w \in (l .. n) \X (l .. n)
      PROVE  g[w] = LET mid == (w[1] + w[2]) \div 2
                    IN IF w[1] >= w[2] THEN w[1]
                       ELSE IF mid \in before THEN g[<<mid + 1, w[2]>>] ELSE g[<<w[1], mid>>]
  <2>1. PICK lo \in l .. n, hi \in l .. n : w = <<lo, hi>>
    OBVIOUS
  <2>2. w[1] = lo /\ w[2] = hi /\ g[w] = Clamp(c, lo, hi)
    BY <1>2, <2>1
  <2> DEFINE mid == (lo + hi) \div 2
  <2>3. CASE lo >= hi
    <3> HIDE DEF g
    <3> QED BY <2>2, <2>3 DEF Clamp
  <2>4. CASE ~(lo >= hi)
    <3>1. lo < hi /\ mid \in lo .. hi - 1
      BY <2>4
    <3> HIDE DEF mid
    <3>2. /\ mid \in l .. n - 1 /\ mid \in l .. n /\ mid + 1 \in l .. n
          /\ lo <= mid /\ mid < hi /\ mid + 1 <= hi
      BY <3>1
    <3>3. g[<<mid + 1, hi>>] = Clamp(c, mid + 1, hi) /\ g[<<lo, mid>>] = Clamp(c, lo, mid)
      BY <1>2, <3>2
    <3> HIDE DEF g
    <3>4. CASE mid \in before
      <4>1. mid + 1 <= c
        BY <1>1, <3>2, <3>4
      <4>2. Clamp(c, lo, hi) = Clamp(c, mid + 1, hi)
        BY <1>1, <3>1, <3>2, <4>1 DEF Clamp
      <4> QED BY <2>2, <2>4, <3>3, <3>4, <4>2 DEF mid
    <3>5. CASE mid \notin before
      <4>1. c <= mid
        BY <1>1, <3>2, <3>5
      <4>2. Clamp(c, lo, hi) = Clamp(c, lo, mid)
        BY <1>1, <3>1, <3>2, <4>1 DEF Clamp
      <4> QED BY <2>2, <2>4, <3>3, <3>5, <4>2 DEF mid
    <3> QED BY <3>4, <3>5
  <2> QED BY <2>3, <2>4
<1>4. Searches(before, l, n, g)
  BY <1>3 DEF Searches
<1> HIDE DEF g
<1> QED BY <1>4

(* Every solution of it finds the cut, by induction on the length of the    *)
(* part that is searched.                                                   *)
LEMMA SearchFindsCut ==
    ASSUME NEW before, NEW l \in Nat, NEW n \in Nat, NEW c, Cuts(before, l, n, c),
           NEW g, Searches(before, l, n, g)
    PROVE  g[<<l, n>>] = c
<1> DEFINE T == {k \in Nat : \A lo, hi \in l .. n : hi - lo <= k => g[<<lo, hi>>] = Clamp(c, lo, hi)}
<1>1. c \in l .. n /\ \A i \in l .. n - 1 : i \in before <=> i < c
  BY DEF Cuts
<1>2. ASSUME NEW lo \in l .. n, NEW hi \in l .. n
      PROVE  g[<<lo, hi>>] =
                LET mid == (lo + hi) \div 2
                IN IF lo >= hi THEN lo
                   ELSE IF mid \in before THEN g[<<mid + 1, hi>>] ELSE g[<<lo, mid>>]
  BY DEF Searches
<1>3. 0 \in T
  <2> SUFFICES ASSUME NEW lo \in l .. n, NEW hi \in l .. n, hi - lo <= 0
               PROVE  g[<<lo, hi>>] = Clamp(c, lo, hi)
    OBVIOUS
  <2>1. lo >= hi
    OBVIOUS
  <2> QED BY <1>2, <2>1 DEF Clamp
<1>4. ASSUME NEW k \in Nat, k \in T PROVE k + 1 \in T
  <2> SUFFICES ASSUME NEW lo \in l .. n, NEW hi \in l .. n, hi - lo <= k + 1
               PROVE  g[<<lo, hi>>] = Clamp(c, lo, hi)
    OBVIOUS
  <2>0. \A a, b \in l .. n : b - a <= k => g[<<a, b>>] = Clamp(c, a, b)
    BY <1>4
  <2> HIDE DEF T
  <2> DEFINE mid == (lo + hi) \div 2
  <2>1. CASE lo >= hi
    BY <1>2, <2>1 DEF Clamp
  <2>2. CASE ~(lo >= hi)
    <3>1. lo < hi /\ mid \in lo .. hi - 1
      BY <2>2
    <3>2. g[<<lo, hi>>] = IF mid \in before THEN g[<<mid + 1, hi>>] ELSE g[<<lo, mid>>]
      BY <1>2, <2>2
    <3> HIDE DEF mid
    <3>3. /\ mid \in l .. n - 1 /\ mid \in l .. n /\ mid + 1 \in l .. n
          /\ lo <= mid /\ mid < hi /\ mid + 1 <= hi
          /\ hi - (mid + 1) <= k /\ mid - lo <= k
      BY <3>1
    <3>4. g[<<mid + 1, hi>>] = Clamp(c, mid + 1, hi) /\ g[<<lo, mid>>] = Clamp(c, lo, mid)
      BY <2>0, <3>3
    <3>5. CASE mid \in before
      <4>1. mid + 1 <= c
        BY SMTT(30), <1>1, <3>3, <3>5
      <4>2. Clamp(c, lo, hi) = Clamp(c, mid + 1, hi)
        BY <1>1, <3>1, <3>3, <4>1 DEF Clamp
      <4> QED BY <3>2, <3>4, <3>5, <4>2
    <3>6. CASE mid \notin before
      <4>1. c <= mid
        BY SMTT(30), <1>1, <3>3, <3>6
      <4>2. Clamp(c, lo, hi) = Clamp(c, lo, mid)
        BY <1>1, <3>1, <3>3, <4>1 DEF Clamp
      <4> QED BY <3>2, <3>4, <3>6, <4>2
    <3> QED BY <3>5, <3>6
  <2> QED BY <2>1, <2>2
<1>5. n - l \in T
  <2> HIDE DEF T
  <2>1. n - l \in Nat
    BY <1>1
  <2> QED BY <1>3, <1>4, <2>1, NatSetInduction
<1>6. g[<<l, n>>] = Clamp(c, l, n)
  BY <1>1, <1>5
<1>7. Clamp(c, l, n) = c
  BY <1>1 DEF Clamp
<1> QED BY <1>6, <1>7

(* So BinarySearch does.                                                    *)
LEMMA BinarySearchFindsCut ==
    ASSUME NEW before, NEW lo \in Nat, NEW hi \in Nat, NEW c, Cuts(before, lo, hi, c)
    PROVE  BinarySearch(before, lo, hi) = c
<1> DEFINE g == CHOOSE f : Searches(before, lo, hi, f)
<1>1. Searches(before, lo, hi, g)
  BY SearchExists
<1>2. BinarySearch(before, lo, hi) = g[<<lo, hi>>]
  BY DEF BinarySearch, Searches
<1> HIDE DEF g
<1> QED BY <1>1, <1>2, SearchFindsCut
=============================================================================
