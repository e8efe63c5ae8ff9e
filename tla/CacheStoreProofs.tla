-------------------------- MODULE CacheStoreProofs --------------------------
(* Theorems about CacheStore and CacheHistory, for every number of keys,    *)
(* every capacity and every policy.                                         *)
EXTENDS CacheHistory, SequenceLemmas, TLAPS, FiniteSetTheorems

(* A TTL that makes the key expire one day. *)
Mortal(ttl) == ttl \notin {0, Never}

(* Deleting keys leaves well-typed entries in a well-typed order. *)
LEMMA DeleteAllType ==
    ASSUME TypeOK, NEW S, DeleteAll(S)
    PROVE  /\ entries' \in [Keys -> Entries \cup {Absent}]
           /\ Present' = Present \ S
           /\ older' \subseteq Present' \X Present'
<1>1. entries' \in [Keys -> Entries \cup {Absent}]
  BY DEF TypeOK, DeleteAll
<1>2. Present' = Present \ S
  BY DEF TypeOK, DeleteAll, Present
<1>3. older' \subseteq Present' \X Present'
  BY <1>2 DEF TypeOK, DeleteAll, Without
<1> QED BY <1>1, <1>2, <1>3

(* What set() leaves in the Map. *)
LEMMA SetEffect ==
    ASSUME TypeOK, NEW k \in Keys, NEW v \in Values, NEW ttl \in Ttls,
           NEW dropped \in SUBSET (Present \ {k}),
           entries' = [x \in Keys |-> IF x = k THEN NewEntry(v, ttl)
                                      ELSE IF x \in dropped THEN Absent ELSE entries[x]]
    PROVE  /\ NewEntry(v, ttl) \in Entries
           /\ entries' \in [Keys -> Entries \cup {Absent}]
           /\ Present' = ((Present \ {k}) \ dropped) \cup {k}
<1>1. NewEntry(v, ttl) \in Entries
  BY LimitsAssumption, MarkersAssumption DEF NewEntry, Entries, Ttls
<1>2. entries' \in [Keys -> Entries \cup {Absent}]
  BY <1>1 DEF TypeOK
<1>3. Present' = ((Present \ {k}) \ dropped) \cup {k}
  BY <1>1, AbsentAssumption DEF TypeOK, Present
<1> QED BY <1>1, <1>2, <1>3

(* A hit changes the entry's count, not the set of keys. *)
LEMMA HitEffect ==
    ASSUME TypeOK, NEW k \in Present, entries[k].hits < MaxHits,
           entries' = [entries EXCEPT ![k].hits = @ + 1]
    PROVE  /\ entries' \in [Keys -> Entries \cup {Absent}]
           /\ Present' = Present
           /\ \A x \in Keys : /\ entries'[x] = Absent <=> entries[x] = Absent
                              /\ entries[x] # Absent =>
                                    /\ entries'[x].left = entries[x].left
                                    /\ entries'[x].value = entries[x].value
<1>1. k \in Keys /\ entries[k] \in Entries
  BY DEF TypeOK, Present
<1>2. [entries[k] EXCEPT !.hits = @ + 1] \in Entries
  BY <1>1, LimitsAssumption DEF Entries
<1>3. entries' = [entries EXCEPT ![k] = [entries[k] EXCEPT !.hits = @ + 1]]
  OBVIOUS
<1>4. entries' \in [Keys -> Entries \cup {Absent}]
  BY <1>2, <1>3 DEF TypeOK
<1>5. \A x \in Keys : entries'[x] = Absent <=> entries[x] = Absent
  BY <1>1, <1>2, <1>3, AbsentAssumption DEF TypeOK
<1>6. \A x \in Keys : entries[x] # Absent => /\ entries'[x].left = entries[x].left
                                            /\ entries'[x].value = entries[x].value
  BY <1>1, <1>3 DEF TypeOK, Entries
<1> QED BY <1>4, <1>5, <1>6 DEF Present

(* Time changes the time left of an entry, not the set of keys. *)
LEMMA TickEffect ==
    ASSUME TypeOK, Tick
    PROVE  /\ entries' \in [Keys -> Entries \cup {Absent}]
           /\ Present' = Present
           /\ \A x \in Keys : /\ entries'[x] = Absent <=> entries[x] = Absent
                              /\ entries[x] # Absent =>
                                    /\ entries'[x].value = entries[x].value
                                    /\ entries'[x].left = Never <=> entries[x].left = Never
                                    /\ entries[x].left = 0 => entries'[x].left = 0
<1> DEFINE aged(x) == [value |-> entries[x].value, left |-> entries[x].left - 1, hits |-> entries[x].hits]
<1>1. ASSUME NEW x \in Keys, entries[x] # Absent, entries[x].left \notin {0, Never}
      PROVE  aged(x) \in Entries /\ aged(x).left # Never
  <2>1. entries[x] \in Entries
    BY <1>1 DEF TypeOK
  <2>2. entries[x].left - 1 \in 0 .. MaxTtl
    BY <1>1, <2>1, LimitsAssumption DEF Entries
  <2> QED BY <2>1, <2>2, MarkersAssumption DEF Entries
<1>2. \A x \in Keys : entries'[x] = IF entries[x] # Absent /\ entries[x].left \notin {0, Never}
                                    THEN aged(x) ELSE entries[x]
  BY DEF Tick
<1>3. entries' \in [Keys -> Entries \cup {Absent}]
  BY <1>1 DEF Tick, TypeOK
<1>4. \A x \in Keys : entries'[x] = Absent <=> entries[x] = Absent
  BY <1>1, <1>2, AbsentAssumption
<1>5. ASSUME NEW x \in Keys, entries[x] # Absent
      PROVE  /\ entries'[x].value = entries[x].value
             /\ entries'[x].left = Never <=> entries[x].left = Never
             /\ entries[x].left = 0 => entries'[x].left = 0
  <2>1. CASE entries[x].left \in {0, Never}
    <3>1. entries'[x] = entries[x]
      BY <1>2, <1>5, <2>1
    <3> QED BY <3>1
  <2>2. CASE entries[x].left \notin {0, Never}
    <3>1. entries'[x] = aged(x) /\ aged(x).left # Never
      BY <1>1, <1>2, <1>5, <2>2
    <3>2. aged(x).value = entries[x].value
      OBVIOUS
    <3> HIDE DEF aged
    <3> QED BY <2>2, <3>1, <3>2
  <2> QED BY <2>1, <2>2
<1> QED BY <1>3, <1>4, <1>5 DEF Present

(* The cases of set(): the keys kept, dropped and evicted. *)
LEMMA RoomMade ==
    ASSUME TypeOK, WithinCapacity, NEW k \in Keys,
           NEW gone \in (Present \ {k}) \cup {Absent}, NEW dropped \in SUBSET (Present \ {k}),
           MakeRoom(Present \ {k}, dropped, gone)
    PROVE  /\ IsFiniteSet(Present)
           /\ Cardinality((Present \ {k}) \ dropped) < MaxEntries
           /\ \/ dropped \subseteq ExpiredIn(Present) /\ gone = Absent
                 /\ Cardinality((Present \ {k}) \ ExpiredIn(Present)) < MaxEntries
              \/ /\ dropped = {gone} /\ gone \in Present \ {k}
                 /\ ExpiredIn(Present \ {k}) = {}
                 /\ Cardinality(Present \ {k}) = MaxEntries
<1> DEFINE kept == Present \ {k}
<1>1. IsFiniteSet(Present) /\ IsFiniteSet(kept)
  BY KeysAssumption, FS_Subset DEF Present
<1>2. Cardinality(kept) \in Nat /\ Cardinality(kept) <= Cardinality(Present) /\ Cardinality(Present) \in Nat
  BY <1>1, FS_Subset, FS_CardinalityType
<1>3. Cardinality(kept) <= MaxEntries /\ MaxEntries \in Nat
  BY <1>2, LimitsAssumption DEF WithinCapacity
<1>4. CASE Cardinality(kept) < MaxEntries
  <2>1. dropped = {} /\ gone = Absent
    BY <1>2, <1>3, <1>4 DEF MakeRoom
  <2>2. kept \ ExpiredIn(Present) \subseteq kept
    OBVIOUS
  <2>3. /\ Cardinality(kept \ ExpiredIn(Present)) \in Nat
        /\ Cardinality(kept \ ExpiredIn(Present)) <= Cardinality(kept)
    BY <1>1, <2>2, FS_Subset, FS_CardinalityType
  <2>4. kept \ dropped = kept
    BY <2>1
  <2>5. Cardinality(kept \ dropped) < MaxEntries
    BY <2>4, <1>4
  <2>6. Cardinality(kept \ ExpiredIn(Present)) < MaxEntries
    BY <2>3, <1>2, <1>3, <1>4
  <2> QED BY <1>1, <2>1, <2>5, <2>6
<1>5. CASE Cardinality(kept) = MaxEntries
  <2>1. evict(kept, dropped, gone)
    BY <1>2, <1>3, <1>5 DEF MakeRoom
  <2>2. ASSUME NEW T, T \in SUBSET kept, T # {} PROVE Cardinality(kept \ T) < MaxEntries
    <3>1. kept \ T \in SUBSET kept /\ kept \ T # kept
      BY <2>2
    <3>2. /\ Cardinality(kept \ T) <= Cardinality(kept)
          /\ Cardinality(kept) = Cardinality(kept \ T) => kept = kept \ T
          /\ IsFiniteSet(kept \ T)
      BY <1>1, <3>1, FS_Subset
    <3>3. Cardinality(kept \ T) \in Nat
      BY <3>2, FS_CardinalityType
    <3> QED BY <1>2, <1>3, <1>5, <3>1, <3>2, <3>3
  <2>3. CASE ExpiredIn(kept) # {}
    <3>1. dropped = ExpiredIn(kept) /\ gone = Absent
      BY <2>1, <2>3 DEF evict
    <3>2. ExpiredIn(kept) \subseteq kept /\ ExpiredIn(kept) \subseteq ExpiredIn(Present)
      BY DEF ExpiredIn
    <3>3. kept \ ExpiredIn(Present) = kept \ ExpiredIn(kept)
      BY DEF ExpiredIn
    <3>4. Cardinality(kept \ ExpiredIn(kept)) < MaxEntries
      BY <2>2, <2>3, <3>2
    <3> QED BY <1>1, <3>1, <3>2, <3>3, <3>4
  <2>4. CASE ExpiredIn(kept) = {}
    <3>1. dropped = {gone} /\ gone \in kept
      BY <2>1, <2>4 DEF evict
    <3>2. Cardinality(kept \ dropped) < MaxEntries
      BY <2>2, <3>1
    <3> QED BY <1>1, <1>5, <2>4, <3>1, <3>2
  <2> QED BY <2>3, <2>4
<1> QED BY <1>2, <1>3, <1>4, <1>5

-----------------------------------------------------------------------------
(* The type invariant and the capacity. *)

CapacityInv == TypeOK /\ WithinCapacity

LEMMA CapacityInit == Init => CapacityInv
<1> SUFFICES ASSUME Init PROVE CapacityInv
  OBVIOUS
<1>1. Present = {}
  BY DEF Init, Present
<1>2. TypeOK
  BY <1>1 DEF Init, TypeOK, NoCall
<1>3. WithinCapacity
  BY <1>1, FS_EmptySet, LimitsAssumption DEF WithinCapacity
<1> QED BY <1>2, <1>3 DEF CapacityInv

(* Removing keys only makes room. *)
LEMMA FewerKeys ==
    ASSUME WithinCapacity, Present' \subseteq Present PROVE WithinCapacity'
<1>1. IsFiniteSet(Present)
  BY KeysAssumption, FS_Subset DEF Present
<1>2. /\ Cardinality(Present') <= Cardinality(Present)
      /\ Cardinality(Present') \in Nat /\ Cardinality(Present) \in Nat
  BY <1>1, FS_Subset, FS_CardinalityType
<1> QED BY <1>2, LimitsAssumption DEF WithinCapacity

(* What an operation answers is well typed. *)
LEMMA AnswerType ==
    ASSUME NEW op \in {"none", "read", "write", "remove"}, NEW S \in SUBSET Keys,
           NEW told \in SUBSET (Keys \X Values), Answers(op, S, told)
    PROVE  /\ call' \in [op : {"none", "read", "write", "remove"}, keys : SUBSET Keys]
           /\ reply' \subseteq Keys \X Values
BY DEF Answers

LEMMA ToldType ==
    ASSUME TypeOK, NEW S \in SUBSET Keys PROVE Told(S) \in SUBSET (Keys \X Values)
BY DEF TypeOK, Told, Entries

LEMMA CapacityStep == CapacityInv /\ [Next]_vars => CapacityInv'
<1> SUFFICES ASSUME CapacityInv, [Next]_vars PROVE TypeOK' /\ WithinCapacity'
  BY DEF CapacityInv
<1> USE DEF CapacityInv
<1>1. CASE UNCHANGED vars
  <2>1. Present' = Present
    BY <1>1 DEF vars, Present
  <2> QED BY <1>1, <2>1, FewerKeys DEF vars, TypeOK
<1>2. ASSUME NEW k \in Keys, NEW v \in Values, NEW ttl \in Ttls, Set(k, v, ttl)
      PROVE  TypeOK' /\ WithinCapacity'
  <2> DEFINE kept == Present \ {k}
  <2>1. PICK gone \in kept \cup {Absent}, dropped \in SUBSET kept :
            /\ MakeRoom(kept, dropped, gone)
            /\ entries' = [x \in Keys |-> IF x = k THEN NewEntry(v, ttl)
                                          ELSE IF x \in dropped THEN Absent ELSE entries[x]]
            /\ older' = Without(dropped \cup {k}) \cup AtTheEnd(k, kept \ dropped)
            /\ evicted' = gone
            /\ Answers("write", {k}, {})
            /\ UNCHANGED policy
    BY <1>2 DEF Set
  <2>2. /\ entries' \in [Keys -> Entries \cup {Absent}]
        /\ Present' = (kept \ dropped) \cup {k}
    BY <2>1, SetEffect
  <2>3. older' \subseteq Present' \X Present'
    BY <2>1, <2>2 DEF TypeOK, Without, AtTheEnd
  <2>4. evicted' \in Keys \cup {Absent}
    BY <2>1 DEF Present
  <2>5. TypeOK'
    BY <2>1, <2>2, <2>3, <2>4, AnswerType DEF TypeOK
  <2>6. IsFiniteSet(kept \ dropped) /\ Cardinality(kept \ dropped) < MaxEntries
    BY <2>1, RoomMade, FS_Subset
  <2>7. k \notin kept \ dropped
    OBVIOUS
  <2>8. Cardinality(Present') = Cardinality(kept \ dropped) + 1 /\ Cardinality(kept \ dropped) \in Nat
    BY <2>2, <2>6, <2>7, FS_AddElement, FS_CardinalityType
  <2>9. WithinCapacity'
    BY <2>6, <2>8, LimitsAssumption DEF WithinCapacity
  <2> QED BY <2>5, <2>9
<1>3. ASSUME NEW k \in Keys, Get(k) PROVE TypeOK' /\ WithinCapacity'
  <2>0. evicted' = Absent /\ policy' = policy
    BY <1>3 DEF Get
  <2>1. CASE entries[k] = Absent /\ Answers("read", {k}, {}) /\ UNCHANGED <<entries, older>>
    <3>1. Present' = Present
      BY <2>1 DEF Present
    <3> QED BY <2>0, <2>1, <3>1, FewerKeys, AnswerType DEF TypeOK
  <2>2. CASE isExpired(k) /\ Answers("read", {k}, {}) /\ DeleteAll({k})
    BY <2>0, <2>2, DeleteAllType, FewerKeys, AnswerType DEF TypeOK
  <2>3. CASE /\ k \in Present /\ ~isExpired(k) /\ entries[k].hits < MaxHits
             /\ Answers("read", {k}, {<<k, entries[k].value>>})
             /\ entries' = [entries EXCEPT ![k].hits = @ + 1]
             /\ older' = Without({k}) \cup AtTheEnd(k, Present \ {k})
    <3>1. entries' \in [Keys -> Entries \cup {Absent}] /\ Present' = Present
      BY <2>3, HitEffect
    <3>2. older' \subseteq Present' \X Present'
      BY <2>3, <3>1 DEF TypeOK, Without, AtTheEnd
    <3>3. {<<k, entries[k].value>>} \in SUBSET (Keys \X Values)
      BY <2>3 DEF TypeOK, Present, Entries
    <3> QED BY <2>0, <2>3, <3>1, <3>2, <3>3, FewerKeys, AnswerType DEF TypeOK
  <2> QED BY <1>3, <2>1, <2>2, <2>3 DEF Get
<1>4. ASSUME NEW S \in SUBSET Keys, Listing(S) PROVE TypeOK' /\ WithinCapacity'
  <2>1. Told(S) \in SUBSET (Keys \X Values)
    BY ToldType
  <2> QED BY <1>4, <2>1, DeleteAllType, FewerKeys, AnswerType DEF Listing, TypeOK
<1>5. ASSUME NEW S \in SUBSET Keys, Discard(S) PROVE TypeOK' /\ WithinCapacity'
  BY <1>5, DeleteAllType, FewerKeys, AnswerType DEF Discard, TypeOK
<1>6. CASE Tick
  <2>1. entries' \in [Keys -> Entries \cup {Absent}] /\ Present' = Present
    BY <1>6, TickEffect
  <2> QED BY <1>6, <2>1, FewerKeys, AnswerType DEF Tick, Unasked, TypeOK
<1>7. CASE sweep
  BY <1>7, DeleteAllType, FewerKeys, AnswerType DEF sweep, Unasked, TypeOK
<1> QED
  BY <1>1, <1>2, <1>3, <1>4, <1>5, <1>6, <1>7, KeyPrefixesAssumption
  DEF Next, Peek, exportEntries, delete, deleteByPrefix, clear

(* Every variable keeps its type. *)
THEOREM TypeCorrect == Spec => []TypeOK
<1>1. CapacityInv => TypeOK
  BY DEF CapacityInv
<1> QED BY <1>1, CapacityInit, CapacityStep, PTL DEF Spec

(* The store never outgrows maxEntries, whatever the policy, the TTLs and   *)
(* the order of operations.                                                 *)
THEOREM CapacityHolds == Spec => []WithinCapacity
<1>1. CapacityInv => WithinCapacity
  BY DEF CapacityInv
<1> QED BY <1>1, CapacityInit, CapacityStep, PTL DEF Spec

-----------------------------------------------------------------------------
(* The store implements CacheContract. *)

(* A key is visible exactly if it is there and not expired. *)
LEMMA VisibleKeys ==
    ASSUME TypeOK
    PROVE  /\ DOMAIN Visible = Keys
           /\ \A x \in Keys : Visible[x] # Absent <=> x \in Present /\ ~isExpired(x)
           /\ Contract!Live = Present \ ExpiredIn(Present)
<1>1. \A x \in Keys : entries[x] # Absent =>
          [value |-> entries[x].value, mortal |-> entries[x].left # Never] # Absent
  <2> SUFFICES ASSUME NEW x \in Keys, entries[x] # Absent
               PROVE  [value |-> entries[x].value, mortal |-> entries[x].left # Never] # Absent
    OBVIOUS
  <2> DEFINE m == entries[x].left # Never
  <2>1. entries[x].value \in Values
    BY DEF TypeOK, Entries
  <2>2. m \in BOOLEAN
    OBVIOUS
  <2> HIDE DEF m
  <2>3. [value |-> entries[x].value, mortal |-> m] \in [value : Values, mortal : BOOLEAN]
    BY <2>1, <2>2
  <2>4. [value |-> entries[x].value, mortal |-> m] # Absent
    BY <2>3, AbsentAssumption
  <2> QED BY <2>4 DEF m
<1>2. \A x \in Keys : Visible[x] # Absent <=> x \in Present /\ ~isExpired(x)
  BY <1>1 DEF Visible, Present
<1> QED BY <1>2 DEF Visible, Contract!Live, ExpiredIn, Present

(* FiniteSets as the contract and as the store see it. *)
LEMMA SameCardinality == \A S : Contract!Cardinality(S) = Cardinality(S)
BY Zenon DEF Contract!Cardinality, Cardinality

LEMMA SetKeepsContract ==
    ASSUME CapacityInv, CapacityInv', NEW k \in Keys, NEW v \in Values, NEW ttl \in Ttls, Set(k, v, ttl)
    PROVE  Contract!Put(k, v, Mortal(ttl))
<1> DEFINE kept == Present \ {k}
<1>1. PICK gone \in kept \cup {Absent}, dropped \in SUBSET kept :
          /\ MakeRoom(kept, dropped, gone)
          /\ entries' = [x \in Keys |-> IF x = k THEN NewEntry(v, ttl)
                                        ELSE IF x \in dropped THEN Absent ELSE entries[x]]
          /\ Answers("write", {k}, {})
  BY DEF Set
<1> DEFINE lost == IF gone = Absent THEN {} ELSE {gone}
<1>2. \/ /\ dropped \subseteq ExpiredIn(Present) /\ gone = Absent
         /\ Cardinality(kept \ ExpiredIn(Present)) < MaxEntries
      \/ /\ dropped = {gone} /\ gone \in kept
         /\ ExpiredIn(kept) = {}
         /\ Cardinality(kept) = MaxEntries
  BY <1>1, RoomMade DEF CapacityInv
<1>3. Contract!Live \ {k} = kept \ ExpiredIn(Present)
  BY VisibleKeys DEF CapacityInv
<1>4. Absent \notin Present
  BY AbsentAssumption DEF Present
<1>5. lost \in SUBSET (Contract!Live \ {k}) /\ Contract!MakesRoom(lost, Contract!Live \ {k})
  <2>1. CASE gone = Absent
    <3>1. lost = {}
      BY <2>1
    <3>2. Cardinality(Contract!Live \ {k}) < MaxEntries
      BY <1>2, <1>3, <1>4, <2>1
    <3> QED BY <3>1, <3>2, SameCardinality DEF Contract!MakesRoom
  <2>2. CASE gone # Absent
    <3>1. gone \in kept /\ ExpiredIn(kept) = {} /\ Cardinality(kept) = MaxEntries
      BY <1>2, <2>2
    <3>2. Contract!Live \ {k} = kept
      BY <1>3, <3>1 DEF ExpiredIn
    <3>3. ~(Cardinality(Contract!Live \ {k}) < MaxEntries)
      BY <3>1, <3>2, LimitsAssumption
    <3>4. lost = {gone} /\ gone \in Contract!Live \ {k}
      BY <2>2, <3>1, <3>2
    <3> QED BY <3>3, <3>4, SameCardinality DEF Contract!MakesRoom
  <2> QED BY <2>1, <2>2
<1>6. ASSUME NEW x \in Keys
      PROVE  Visible'[x] = IF x = k THEN [value |-> v, mortal |-> Mortal(ttl)]
                           ELSE IF x \in lost THEN Absent ELSE Visible[x]
  <2>0. Visible'[x] = IF entries'[x] = Absent \/ (entries'[x] # Absent /\ entries'[x].left = 0) THEN Absent
                      ELSE [value |-> entries'[x].value, mortal |-> entries'[x].left # Never]
    BY DEF Visible, isExpired
  <2>1. CASE x = k
    <3>1. entries'[k] = NewEntry(v, ttl) /\ NewEntry(v, ttl) \in Entries
      BY <1>1, SetEffect DEF CapacityInv
    <3>2. NewEntry(v, ttl).left # 0 /\ NewEntry(v, ttl).value = v
      BY LimitsAssumption, MarkersAssumption DEF NewEntry, Ttls
    <3>3. (NewEntry(v, ttl).left # Never) = Mortal(ttl)
      BY LimitsAssumption, MarkersAssumption DEF NewEntry, Ttls, Mortal
    <3>4. entries'[k] # Absent
      BY <3>1, AbsentAssumption
    <3> QED BY <2>0, <2>1, <3>1, <3>2, <3>3, <3>4
  <2>2. CASE x # k /\ x \in dropped
    <3>1. entries'[x] = Absent
      BY <1>1, <2>2
    <3>2. x \in lost \/ Visible[x] = Absent
      BY <1>2, <1>4, <2>2 DEF Visible, ExpiredIn
    <3> QED BY <2>0, <2>2, <3>1, <3>2
  <2>3. CASE x # k /\ x \notin dropped
    <3>1. entries'[x] = entries[x]
      BY <1>1, <2>3
    <3>2. x \notin lost
      BY <1>2, <2>3
    <3>3. Visible'[x] = Visible[x]
      BY <2>0, <3>1 DEF Visible, isExpired
    <3> QED BY <2>3, <3>2, <3>3
  <2> QED BY <2>1, <2>2, <2>3
<1>7. Visible' = [x \in Keys |-> IF x = k THEN [value |-> v, mortal |-> Mortal(ttl)]
                                 ELSE IF x \in lost THEN Absent ELSE Visible[x]]
  <2>1. Visible' = [x \in Keys |-> Visible'[x]]
    BY DEF Visible
  <2> QED BY <1>6, <2>1
<1> HIDE DEF lost
<1> QED BY <1>1, <1>5, <1>7 DEF Contract!Put, Contract!Answers, Answers

(* Deleting an entry is, for a client, losing the key if it was visible. *)
LEMMA DeleteVisible ==
    ASSUME TypeOK, NEW S, DeleteAll(S)
    PROVE  Visible' = [x \in Keys |-> IF x \in S THEN Absent ELSE Visible[x]]
BY DEF DeleteAll, Visible, isExpired

LEMMA DeleteExpiredVisible ==
    ASSUME TypeOK, NEW S, \A x \in S : isExpired(x), DeleteAll(S)
    PROVE  Visible' = Visible
<1>1. \A x \in Keys : x \in S => Visible[x] = Absent
  BY DEF Visible
<1>2. Visible = [x \in Keys |-> Visible[x]]
  BY DEF Visible
<1> QED BY <1>1, <1>2, DeleteVisible

(* What the store tells of keys is what the contract has of them. *)
LEMMA ToldIsVisible ==
    ASSUME TypeOK, NEW S \in SUBSET Keys
    PROVE  Told(S) = {<<k, Visible[k].value>> : k \in S \cap Contract!Live}
<1> DEFINE seen == {x \in S : entries[x] # Absent /\ ~isExpired(x)}
<1>1. seen = S \cap Contract!Live
  BY VisibleKeys DEF ExpiredIn, Present
<1>2. \A x \in seen : Visible[x].value = entries[x].value
  BY DEF Visible
<1>3. Told(S) = {<<k, entries[k].value>> : k \in seen}
  BY DEF Told
<1> HIDE DEF seen
<1> QED BY <1>1, <1>2, <1>3

LEMMA GetKeepsContract ==
    ASSUME TypeOK, NEW k \in Keys, Get(k)
    PROVE  Contract!Read({k})
<1>0. Told({k}) = {<<x, Visible[x].value>> : x \in {k} \cap Contract!Live}
  BY ToldIsVisible
<1>1. CASE entries[k] = Absent /\ Answers("read", {k}, {}) /\ UNCHANGED <<entries, older>>
  <2>1. Visible' = Visible
    BY <1>1 DEF Visible, isExpired
  <2>2. Told({k}) = {}
    BY <1>1 DEF Told
  <2> QED BY <1>0, <1>1, <2>1, <2>2 DEF Contract!Read, Contract!Answers, Answers
<1>2. CASE isExpired(k) /\ Answers("read", {k}, {}) /\ DeleteAll({k})
  <2>1. Visible' = Visible
    BY <1>2, DeleteExpiredVisible
  <2>2. Told({k}) = {}
    BY <1>2 DEF Told
  <2> QED BY <1>0, <1>2, <2>1, <2>2 DEF Contract!Read, Contract!Answers, Answers
<1>3. CASE /\ k \in Present /\ ~isExpired(k) /\ entries[k].hits < MaxHits
           /\ Answers("read", {k}, {<<k, entries[k].value>>})
           /\ entries' = [entries EXCEPT ![k].hits = @ + 1]
  <2>1. \A x \in Keys : /\ entries'[x] = Absent <=> entries[x] = Absent
                        /\ entries[x] # Absent => /\ entries'[x].left = entries[x].left
                                                  /\ entries'[x].value = entries[x].value
    BY <1>3, HitEffect
  <2>2. Visible' = Visible
    BY <2>1 DEF Visible, isExpired
  <2>3. Told({k}) = {<<k, entries[k].value>>}
    BY <1>3 DEF Told, Present
  <2> QED BY <1>0, <1>3, <2>2, <2>3 DEF Contract!Read, Contract!Answers, Answers
<1> QED BY <1>1, <1>2, <1>3 DEF Get

LEMMA ListingKeepsContract ==
    ASSUME TypeOK, NEW S \in SUBSET Keys, Listing(S)
    PROVE  Contract!Read(S)
<1>1. Visible' = Visible
  <2>1. \A x \in ExpiredIn(S) : isExpired(x)
    BY DEF ExpiredIn
  <2> QED BY <2>1, DeleteExpiredVisible DEF Listing
<1> QED BY <1>1, ToldIsVisible DEF Listing, Contract!Read, Contract!Answers, Answers

LEMMA TickKeepsContract ==
    ASSUME TypeOK, Tick
    PROVE  \E S \in SUBSET Contract!Live : Contract!Expire(S)
<1> DEFINE S == {x \in Keys : Visible[x] # Absent /\ Visible'[x] = Absent}
<1>1. \A x \in Keys : /\ entries'[x] = Absent <=> entries[x] = Absent
                      /\ entries[x] # Absent =>
                            /\ entries'[x].value = entries[x].value
                            /\ entries'[x].left = Never <=> entries[x].left = Never
                            /\ entries[x].left = 0 => entries'[x].left = 0
  BY TickEffect
<1>2. S \in SUBSET Contract!Live
  BY DEF Contract!Live
<1>3. \A x \in Keys : Visible'[x] = IF entries'[x] = Absent \/ entries'[x].left = 0 THEN Absent
                          ELSE [value |-> entries'[x].value, mortal |-> entries'[x].left # Never]
  BY DEF Visible, isExpired
<1>4. \A x \in Keys : Visible[x] = IF entries[x] = Absent \/ entries[x].left = 0 THEN Absent
                          ELSE [value |-> entries[x].value, mortal |-> entries[x].left # Never]
  BY DEF Visible, isExpired
<1>5. \A x \in Keys : Visible'[x] = IF x \in S THEN Absent ELSE Visible[x]
  BY ZenonT(30), <1>1, <1>3, <1>4
<1>6. ASSUME NEW x \in S PROVE Visible[x].mortal
  <2>1. /\ entries[x] # Absent /\ entries[x].left # 0
        /\ entries[x].left # Never
    <3>1. entries[x] # Absent /\ entries[x].left # 0
      BY <1>4
    <3>2. CASE entries[x].left = Never
      <4>1. entries'[x] = entries[x]
        BY <3>1, <3>2 DEF Tick
      <4> QED BY <1>3, <1>4, <4>1
    <3> QED BY <3>1, <3>2
  <2>2. Visible[x] = [value |-> entries[x].value, mortal |-> entries[x].left # Never]
    BY <1>4, <2>1
  <2>3. Visible[x].mortal = (entries[x].left # Never)
    BY <2>2
  <2> QED BY <2>1, <2>3
<1>7. Visible' = [x \in Keys |-> IF x \in S THEN Absent ELSE Visible[x]]
  <2>1. Visible' = [x \in Keys |-> Visible'[x]]
    BY DEF Visible
  <2> QED BY <1>5, <2>1
<1>8. Contract!Answers("none", {}, {})
  BY DEF Tick, Unasked, Answers, Contract!Answers
<1> HIDE DEF S
<1> QED BY <1>2, <1>6, <1>7, <1>8 DEF Contract!Expire, Contract!Lose

(* A sweep is nothing to a caller. *)
LEMMA SweepKeepsContract ==
    ASSUME TypeOK, sweep
    PROVE  Contract!Expire({})
<1>1. Visible' = Visible
  <2>1. \A x \in ExpiredIn(Present) : isExpired(x)
    BY DEF ExpiredIn
  <2> QED BY <2>1, DeleteExpiredVisible DEF sweep
<1>2. Visible' = [x \in Keys |-> IF x \in {} THEN Absent ELSE Visible[x]]
  BY <1>1 DEF Visible
<1> QED BY <1>2 DEF sweep, Unasked, Answers, Contract!Answers, Contract!Expire, Contract!Lose

(* core/cache.ts implements the contract, for every number of keys and      *)
(* values, every capacity, policy and TTL: each call has the effect on the  *)
(* keys it names that the contract allows and tells what it may tell, and   *)
(* between the calls only keys written with a TTL are lost.                 *)
THEOREM Refinement == Spec => KeepsContract
<1>1. Init => Contract!Init
  BY DEF Init, NoCall, Contract!Init, Contract!NoCall, Visible
<1>2. CapacityInv /\ CapacityInv' /\ [Next]_vars => [Contract!Next]_<<Visible, call, reply>>
  <2> SUFFICES ASSUME CapacityInv, CapacityInv', [Next]_vars
               PROVE  Contract!Next \/ UNCHANGED <<Visible, call, reply>>
    OBVIOUS
  <2>1. CASE UNCHANGED vars
    BY <2>1 DEF vars, Visible, isExpired
  <2>2. ASSUME NEW k \in Keys, NEW v \in Values, NEW ttl \in Ttls, Set(k, v, ttl)
        PROVE  Contract!Next
    <3>1. Contract!Put(k, v, Mortal(ttl))
      BY <2>2, SetKeepsContract
    <3>2. Mortal(ttl) \in BOOLEAN
      BY DEF Mortal
    <3> QED BY <3>1, <3>2 DEF Contract!Next
  <2>3. ASSUME NEW k \in Keys, Get(k) PROVE Contract!Next
    BY <2>3, GetKeepsContract DEF Contract!Next, CapacityInv
  <2>4. ASSUME NEW S \in SUBSET Keys, Listing(S) PROVE Contract!Next
    BY <2>4, ListingKeepsContract DEF Contract!Next, CapacityInv
  <2>5. ASSUME NEW S \in SUBSET Keys, Discard(S) PROVE Contract!Next
    <3>1. Visible' = [x \in Keys |-> IF x \in S THEN Absent ELSE Visible[x]]
      BY <2>5, DeleteVisible DEF Discard, CapacityInv
    <3>2. Contract!Answers("remove", S, {})
      BY <2>5 DEF Discard, Answers, Contract!Answers
    <3> QED BY <3>1, <3>2 DEF Contract!Next, Contract!Remove, Contract!Lose
  <2>6. CASE Tick
    BY <2>6, TickKeepsContract DEF Contract!Next, CapacityInv
  <2>7. CASE sweep
    <3>1. Contract!Expire({})
      BY <2>7, SweepKeepsContract DEF CapacityInv
    <3> QED BY <3>1 DEF Contract!Next
  <2> QED
    BY <2>1, <2>2, <2>3, <2>4, <2>5, <2>6, <2>7, KeyPrefixesAssumption
    DEF Next, Peek, exportEntries, delete, deleteByPrefix, clear
<1> QED BY <1>1, <1>2, CapacityInit, CapacityStep, PTL DEF Spec, KeepsContract, Contract!Spec

-----------------------------------------------------------------------------

(* doEvict() is reached only for a new key, in a store full of live keys,   *)
(* and it chooses among all of them.                                        *)
LEMMA VictimOfAll ==
    ASSUME CapacityInv, NEW k \in Keys, NEW v \in Values, NEW ttl \in Ttls, Set(k, v, ttl),
           evicted' # Absent
    PROVE  /\ evicted' \in Present /\ Victim(evicted', Present)
           /\ ExpiredIn(Present) = {}
           /\ Present \ Present' = {evicted'}
           /\ Cardinality(Present) = MaxEntries
<1> DEFINE kept == Present \ {k}
<1>1. PICK gone \in kept \cup {Absent}, dropped \in SUBSET kept :
          /\ MakeRoom(kept, dropped, gone)
          /\ entries' = [x \in Keys |-> IF x = k THEN NewEntry(v, ttl)
                                        ELSE IF x \in dropped THEN Absent ELSE entries[x]]
          /\ evicted' = gone
  BY DEF Set
<1>2. /\ IsFiniteSet(Present)
      /\ dropped = {gone} /\ gone \in kept
      /\ ExpiredIn(kept) = {}
      /\ Cardinality(kept) = MaxEntries
  BY <1>1, RoomMade DEF CapacityInv
<1>3. k \notin Present
  <2>1. k \in Present => Cardinality(kept) = Cardinality(Present) - 1
    BY <1>2, FS_RemoveElement
  <2>2. Cardinality(Present) \in Nat /\ Cardinality(Present) <= MaxEntries
    BY <1>2, FS_CardinalityType DEF CapacityInv, WithinCapacity
  <2> QED BY <1>2, <2>1, <2>2, LimitsAssumption
<1>4. kept = Present
  BY <1>3
<1>5. Present' = (kept \ dropped) \cup {k}
  BY <1>1, SetEffect DEF CapacityInv
<1>6. Victim(gone, kept)
  BY <1>1, <1>2 DEF MakeRoom, evict
<1> QED BY <1>1, <1>2, <1>3, <1>4, <1>5, <1>6

(* The key doEvict() reports is live and the only one that goes, and only a *)
(* full store without expired entries gives one up.                         *)
THEOREM EvictionIsLastResort == Spec => EvictsOnlyWhenAllLive
<1> DEFINE LastResort ==
      evicted' \notin {evicted, Absent} =>
          /\ ExpiredIn(Present) = {}
          /\ Present \ Present' = {evicted'}
          /\ Cardinality(Present) = MaxEntries
<1>1. CapacityInv /\ [Next]_vars => [LastResort]_vars
  <2> SUFFICES ASSUME CapacityInv, Next, evicted' \notin {evicted, Absent}
               PROVE  /\ ExpiredIn(Present) = {}
                      /\ Present \ Present' = {evicted'}
                      /\ Cardinality(Present) = MaxEntries
    OBVIOUS
  <2>1. PICK k \in Keys, v \in Values, ttl \in Ttls : Set(k, v, ttl)
    BY DEF Next, Get, Peek, exportEntries, Listing, Discard, delete, deleteByPrefix, clear,
           sweep, Tick, Unasked
  <2> QED BY <2>1, VictimOfAll
<1> QED BY <1>1, CapacityInit, CapacityStep, PTL DEF Spec, EvictsOnlyWhenAllLive

-----------------------------------------------------------------------------
(* The eviction policies: CacheHistory keeps a log of the uses of the keys  *)
(* that the code does not see, and the order of the Map and the hits of the *)
(* entries always agree with it.                                            *)

(* log lists the keys S in the order `order'. *)
Lists(log, S, order) ==
    /\ log \in Seq(S)
    /\ \A x \in S : \E i \in DOMAIN log : log[i] = x
    /\ \A i, j \in DOMAIN log : <<log[i], log[j]>> \in order <=> i < j

LogInv ==
    /\ Lists(recent, Present, older)
    /\ \A x \in Present : reads[x] = entries[x].hits

(* No key is listed twice. *)
LEMMA ListedOnce ==
    ASSUME NEW log, NEW S, NEW order, Lists(log, S, order),
           NEW i \in DOMAIN log, NEW j \in DOMAIN log, log[i] = log[j]
    PROVE  i = j
<1>1. DOMAIN log = 1 .. Len(log) /\ Len(log) \in Nat
  BY DEF Lists
<1>2. i < j <=> j < i
  <2>1. /\ <<log[i], log[j]>> \in order <=> i < j
        /\ <<log[j], log[i]>> \in order <=> j < i
    BY DEF Lists
  <2> QED BY <2>1
<1> QED BY <1>1, <1>2

(* A log and an order without the keys D. *)
Rest(log, D) == Picked(log, {i \in DOMAIN log : log[i] \notin D})
OrderRest(order, D) == {p \in order : p[1] \notin D /\ p[2] \notin D}

(* Without the keys D the log still lists the others. *)
LEMMA PickedLists ==
    ASSUME NEW log, NEW S, NEW order, Lists(log, S, order), NEW D
    PROVE  Lists(Rest(log, D), S \ D, OrderRest(order, D))
<1> DEFINE I == {i \in DOMAIN log : log[i] \notin D}
           t == Rest(log, D)
<1>1. I \in SUBSET DOMAIN log /\ log \in Seq(S)
  BY DEF Lists
<1>2. \A i \in DOMAIN log : i \in I <=> log[i] \notin D
  OBVIOUS
<1>3. (\A i \in DOMAIN log : log[i] \in S) /\ t = Picked(log, I)
  BY <1>1 DEF Rest
<1> HIDE DEF I, t
<1>4. \E m \in Nat : \E e :
          /\ e \in [1 .. m -> I]
          /\ Picked(log, I) \in Seq(S) /\ DOMAIN Picked(log, I) = 1 .. m /\ Len(Picked(log, I)) = m
          /\ \A r \in 1 .. m : Picked(log, I)[r] = log[e[r]]
          /\ \A i \in I : \E r \in 1 .. m : e[r] = i
          /\ \A a, b \in 1 .. m : a < b => e[a] < e[b]
  BY SMTT(30), <1>1, PickedProperties
<1>5. PICK m \in Nat : \E e :
          /\ e \in [1 .. m -> I]
          /\ t \in Seq(S) /\ DOMAIN t = 1 .. m /\ Len(t) = m
          /\ \A r \in 1 .. m : t[r] = log[e[r]]
          /\ \A i \in I : \E r \in 1 .. m : e[r] = i
          /\ \A a, b \in 1 .. m : a < b => e[a] < e[b]
  BY Zenon, <1>3, <1>4
<1>6. PICK e :
          /\ e \in [1 .. m -> I]
          /\ t \in Seq(S) /\ DOMAIN t = 1 .. m /\ Len(t) = m
          /\ \A r \in 1 .. m : t[r] = log[e[r]]
          /\ \A i \in I : \E r \in 1 .. m : e[r] = i
          /\ \A a, b \in 1 .. m : a < b => e[a] < e[b]
  BY Zenon, <1>5
<1>7. \A r \in 1 .. m : e[r] \in DOMAIN log /\ e[r] \in Nat /\ t[r] \in S \ D
  <2>1. \A r \in 1 .. m : e[r] \in DOMAIN log /\ t[r] \in S \ D
    BY <1>1, <1>2, <1>3, <1>6
  <2>2. DOMAIN log = 1 .. Len(log)
    BY <1>1
  <2> QED BY <2>1, <2>2
<1>8. t \in Seq(S \ D)
  <2>1. t \in [1 .. m -> S \ D]
    BY <1>6, <1>7
  <2> QED BY <2>1
<1>9. ASSUME NEW x \in S \ D PROVE \E r \in DOMAIN t : t[r] = x
  <2>1. PICK i \in DOMAIN log : log[i] = x
    BY DEF Lists
  <2>2. PICK r \in 1 .. m : e[r] = i
    BY <1>2, <1>6, <2>1
  <2> QED BY <1>6, <2>1, <2>2
<1>10. ASSUME NEW a \in DOMAIN t, NEW b \in DOMAIN t
      PROVE  <<t[a], t[b]>> \in OrderRest(order, D) <=> a < b
  <2>1. t[a] \notin D /\ t[b] \notin D
    BY <1>6, <1>7
  <2>2. <<t[a], t[b]>> \in order <=> e[a] < e[b]
    <3>1. /\ t[a] = log[e[a]] /\ t[b] = log[e[b]]
          /\ e[a] \in DOMAIN log /\ e[b] \in DOMAIN log
      BY <1>6, <1>7
    <3>2. \A i, j \in DOMAIN log : <<log[i], log[j]>> \in order <=> i < j
      BY DEF Lists
    <3> QED BY <3>1, <3>2
  <2>3. e[a] < e[b] <=> a < b
    <3>1. a \in 1 .. m /\ b \in 1 .. m /\ e[a] \in Nat /\ e[b] \in Nat
      BY <1>6, <1>7
    <3>2. a < b => e[a] < e[b]
      BY <1>6, <3>1
    <3>3. b < a => e[b] < e[a]
      BY <1>6, <3>1
    <3> QED BY <3>1, <3>2, <3>3
  <2> QED BY <2>1, <2>2, <2>3 DEF OrderRest
<1> QED BY <1>8, <1>9, <1>10 DEF Lists, t

(* A key put at the end of both the log and the order. *)
LEMMA AppendLists ==
    ASSUME NEW log, NEW S, NEW order, Lists(log, S, order), order \subseteq S \X S, NEW k, k \notin S
    PROVE  Lists(Append(log, k), S \cup {k}, order \cup AtTheEnd(k, S))
<1> DEFINE t == Append(log, k)
           n == Len(log)
<1>1. log \in Seq(S) /\ n \in Nat /\ DOMAIN log = 1 .. n
  BY DEF Lists
<1>2. \A i \in 1 .. n : log[i] \in S
  BY <1>1
<1>3. /\ t \in Seq(S \cup {k}) /\ DOMAIN t = 1 .. n + 1
      /\ \A i \in 1 .. n : t[i] = log[i]
      /\ t[n + 1] = k
  <2>1. log \in Seq(S \cup {k})
    BY <1>1, <1>2
  <2> QED BY <1>1, <2>1
<1> HIDE DEF t, n
<1>4. ASSUME NEW x \in S \cup {k} PROVE \E i \in DOMAIN t : t[i] = x
  <2>1. CASE x = k
    BY <1>1, <1>3, <2>1
  <2>2. CASE x \in S
    <3>1. PICK i \in 1 .. n : log[i] = x
      BY <1>1, <2>2 DEF Lists
    <3> QED BY <1>1, <1>3, <3>1
  <2> QED BY <2>1, <2>2
<1>5. ASSUME NEW i \in DOMAIN t, NEW j \in DOMAIN t
      PROVE  <<t[i], t[j]>> \in order \cup AtTheEnd(k, S) <=> i < j
  <2>1. CASE i \in 1 .. n /\ j \in 1 .. n
    <3>1. t[i] = log[i] /\ t[j] = log[j] /\ t[j] # k
      BY <1>2, <1>3, <2>1
    <3>2. <<t[i], t[j]>> \notin AtTheEnd(k, S)
      BY <3>1 DEF AtTheEnd
    <3>3. <<t[i], t[j]>> \in order <=> i < j
      BY <1>1, <2>1, <3>1 DEF Lists
    <3> QED BY <3>2, <3>3
  <2>2. CASE i \in 1 .. n /\ j = n + 1
    <3>1. t[i] \in S /\ t[j] = k /\ i < j
      BY <1>1, <1>2, <1>3, <2>2
    <3> QED BY <3>1 DEF AtTheEnd
  <2>3. CASE i = n + 1
    <3>1. t[i] = k /\ ~(i < j)
      BY <1>1, <1>3, <2>3
    <3>2. <<t[i], t[j]>> \notin order /\ <<t[i], t[j]>> \notin AtTheEnd(k, S)
      BY <3>1 DEF AtTheEnd
    <3> QED BY <3>1, <3>2
  <2> QED BY <1>1, <1>3, <2>1, <2>2, <2>3
<1> QED BY <1>3, <1>4, <1>5 DEF Lists, t

(* Of the keys taken out of the order only those that are in it matter. *)
LEMMA WithoutSame ==
    ASSUME TypeOK, NEW S, NEW T, S \cap Present = T \cap Present
    PROVE  Without(S) = Without(T)
<1>1. \A p \in older : p[1] \in Present /\ p[2] \in Present
  BY DEF TypeOK
<1>2. \A x \in Present : x \in S <=> x \in T
  OBVIOUS
<1> QED BY <1>1, <1>2 DEF Without

(* Others() and Without() take keys out of the log and of the order. *)
LEMMA OthersList ==
    ASSUME LogInv, TypeOK, NEW S, NEW T, S \cap Present = T \cap Present
    PROVE  Lists(Others(S), Present \ S, Without(T))
<1>1. Lists(Others(S), Present \ S, Without(S))
  <2>1. Lists(recent, Present, older)
    BY DEF LogInv
  <2>2. Lists(Rest(recent, S), Present \ S, OrderRest(older, S))
    BY <2>1, PickedLists
  <2>3. Others(S) = Rest(recent, S) /\ Without(S) = OrderRest(older, S)
    BY DEF Others, Rest, Without, OrderRest
  <2> QED BY <2>2, <2>3
<1>2. Without(S) = Without(T)
  BY WithoutSame
<1> QED BY <1>1, <1>2

(* An operation that only takes keys out, or none, keeps the log right. *)
LEMMA LoggedStep ==
    ASSUME LogInv, TypeOK, NEW D, Present' = Present \ D, older' = Without(D),
           \A x \in Present' : entries'[x].hits = entries[x].hits,
           Forget({x \in Keys : entries'[x] = Absent})
    PROVE  LogInv'
<1> DEFINE gone == {x \in Keys : entries'[x] = Absent}
<1>1. Present' = Keys \ gone /\ Present \subseteq Keys
  BY DEF Present
<1>2. gone \cap Present = D \cap Present
  BY <1>1
<1>3. recent' = Others(gone) /\ reads' = [x \in Keys |-> IF x \in gone THEN 0 ELSE reads[x]]
  BY DEF Forget
<1> HIDE DEF gone
<1>4. Lists(recent', Present', older')
  <2>1. Lists(Others(gone), Present \ gone, Without(D))
    BY <1>2, OthersList
  <2>2. Present \ gone = Present'
    BY <1>2
  <2> QED BY <1>3, <2>1, <2>2
<1>5. \A x \in Present' : reads'[x] = entries'[x].hits
  <2> SUFFICES ASSUME NEW x \in Present' PROVE reads'[x] = entries'[x].hits
    OBVIOUS
  <2>1. x \in Keys /\ x \notin gone /\ x \in Present
    BY <1>1
  <2>2. reads'[x] = reads[x]
    BY <1>3, <2>1
  <2>3. reads[x] = entries[x].hits
    BY <2>1 DEF LogInv
  <2>4. entries'[x].hits = entries[x].hits
    OBVIOUS
  <2> QED BY <2>2, <2>3, <2>4
<1> QED BY <1>4, <1>5 DEF LogInv

(* An operation that puts k at the end and takes D out keeps the log right. *)
LEMMA UseStep ==
    ASSUME LogInv, TypeOK, NEW k \in Keys, NEW D, NEW n,
           Present' = ((Present \ {k}) \ D) \cup {k},
           older' = Without(D \cup {k}) \cup AtTheEnd(k, (Present \ {k}) \ D),
           entries'[k].hits = n,
           \A x \in Present' \ {k} : entries'[x].hits = entries[x].hits,
           Use(k, n)
    PROVE  LogInv'
<1> DEFINE gone == {x \in Keys : entries'[x] = Absent}
           S == (Present \ {k}) \ D
<1>1. Present' = Keys \ gone /\ Present \subseteq Keys
  BY DEF Present
<1>2. (gone \cup {k}) \cap Present = (D \cup {k}) \cap Present
  BY <1>1
<1>3. /\ recent' = Append(Others(gone \cup {k}), k)
      /\ reads' = [x \in Keys |-> IF x = k THEN n ELSE IF x \in gone THEN 0 ELSE reads[x]]
  BY DEF Use
<1> HIDE DEF gone
<1>4. Lists(recent', Present', older')
  <2>1. Lists(Others(gone \cup {k}), Present \ (gone \cup {k}), Without(D \cup {k}))
    BY <1>2, OthersList
  <2>2. Present \ (gone \cup {k}) = S
    BY <1>2
  <2>3. Without(D \cup {k}) \subseteq S \X S
    BY DEF Without, TypeOK
  <2>4. k \notin S
    OBVIOUS
  <2> DEFINE log == Others(gone \cup {k})
             order == Without(D \cup {k})
  <2>5. Lists(log, S, order) /\ order \subseteq S \X S
    BY <2>1, <2>2, <2>3
  <2>6. recent' = Append(log, k) /\ Present' = S \cup {k} /\ older' = order \cup AtTheEnd(k, S)
    BY <1>3
  <2> HIDE DEF S, log, order
  <2>7. Lists(Append(log, k), S \cup {k}, order \cup AtTheEnd(k, S))
    BY <2>4, <2>5, AppendLists
  <2> QED BY <2>6, <2>7
<1>5. \A x \in Present' : reads'[x] = entries'[x].hits
  <2> SUFFICES ASSUME NEW x \in Present' PROVE reads'[x] = entries'[x].hits
    OBVIOUS
  <2>1. CASE x = k
    BY <1>3, <2>1
  <2>2. CASE x # k
    <3>1. x \in Keys /\ x \notin gone /\ x \in Present /\ x \in Present' \ {k}
      BY <1>1, <2>2
    <3>2. reads'[x] = reads[x]
      BY <1>3, <2>2, <3>1
    <3>3. reads[x] = entries[x].hits
      BY <3>1 DEF LogInv
    <3>4. entries'[x].hits = entries[x].hits
      BY <3>1
    <3> QED BY <3>2, <3>3, <3>4
  <2> QED BY <2>1, <2>2
<1> QED BY <1>4, <1>5 DEF LogInv

(* A step that is logged is a step of the store. *)
LEMMA HistoryStep == HistoryNext => Next
BY DEF HistoryNext, Logged, Next

(* The log changes nothing the store does: all theorems of Spec hold of it. *)
LEMMA LogOnlyWatches == HistorySpec => Spec
<1>1. HistoryInit => Init
  BY DEF HistoryInit
<1>2. [HistoryNext]_historyVars => [Next]_vars
  BY HistoryStep DEF historyVars
<1> QED BY <1>1, <1>2, PTL DEF HistorySpec, Spec

LEMMA LogInit == HistoryInit => LogInv
<1> SUFFICES ASSUME HistoryInit PROVE LogInv
  OBVIOUS
<1>1. Present = {} /\ recent = <<>> /\ older = {}
  BY DEF HistoryInit, Init, Present
<1>2. recent \in Seq({}) /\ DOMAIN recent = {}
  BY <1>1
<1> QED BY <1>1, <1>2 DEF LogInv, Lists

LEMMA LogNext == CapacityInv /\ LogInv /\ [HistoryNext]_historyVars => LogInv'
<1> SUFFICES ASSUME CapacityInv, LogInv, [HistoryNext]_historyVars PROVE LogInv'
  OBVIOUS
<1>0. TypeOK
  BY DEF CapacityInv
<1>1. CASE UNCHANGED historyVars
  BY <1>1 DEF historyVars, vars, LogInv, Lists, Present
<1>2. ASSUME NEW k \in Keys, NEW v \in Values, NEW ttl \in Ttls, Set(k, v, ttl), Use(k, 0)
      PROVE  LogInv'
  <2> DEFINE kept == Present \ {k}
  <2>1. PICK gone \in kept \cup {Absent}, dropped \in SUBSET kept :
            /\ MakeRoom(kept, dropped, gone)
            /\ entries' = [x \in Keys |-> IF x = k THEN NewEntry(v, ttl)
                                          ELSE IF x \in dropped THEN Absent ELSE entries[x]]
            /\ older' = Without(dropped \cup {k}) \cup AtTheEnd(k, kept \ dropped)
    BY <1>2 DEF Set
  <2>2. Present' = (kept \ dropped) \cup {k}
    BY <1>0, <2>1, SetEffect
  <2>3. entries'[k].hits = 0
    BY <2>1 DEF NewEntry
  <2>4. \A x \in Present' \ {k} : entries'[x].hits = entries[x].hits
    BY <2>1, <2>2 DEF Present
  <2> QED BY <1>0, <1>2, <2>1, <2>2, <2>3, <2>4, UseStep
<1>3. ASSUME NEW k \in Keys, Get(k), entries'[k] # Absent, Use(k, reads[k] + 1)
      PROVE  LogInv'
  <2>1. /\ k \in Present /\ entries[k].hits < MaxHits
        /\ entries' = [entries EXCEPT ![k].hits = @ + 1]
        /\ older' = Without({k}) \cup AtTheEnd(k, Present \ {k})
    BY <1>3 DEF Get, DeleteAll
  <2>2. Present' = Present
    BY <1>0, <2>1, HitEffect
  <2>3. entries'[k].hits = reads[k] + 1
    <3>1. entries \in [Keys -> Entries \cup {Absent}] /\ entries[k] \in Entries
      BY <1>0, <2>1 DEF TypeOK, Present
    <3>2. entries'[k].hits = entries[k].hits + 1
      BY <2>1, <3>1 DEF Entries
    <3>3. reads[k] = entries[k].hits
      BY <2>1 DEF LogInv
    <3> QED BY <3>2, <3>3
  <2>4. \A x \in Present' \ {k} : entries'[x].hits = entries[x].hits
    BY <1>0, <2>1, <2>2 DEF TypeOK, Present
  <2>5. /\ Present' = ((Present \ {k}) \ {}) \cup {k}
        /\ older' = Without({} \cup {k}) \cup AtTheEnd(k, (Present \ {k}) \ {})
    <3>1. {} \cup {k} = {k} /\ (Present \ {k}) \ {} = Present \ {k} /\ Present = (Present \ {k}) \cup {k}
      BY <2>1
    <3> QED BY <2>1, <2>2, <3>1
  <2> QED BY <1>0, <1>3, <2>3, <2>4, <2>5, UseStep
<1>4. ASSUME NEW S, DeleteAll(S), Forget({x \in Keys : entries'[x] = Absent})
      PROVE  LogInv'
  <2>1. Present' = Present \ S /\ older' = Without(S)
    BY <1>0, <1>4, DeleteAllType DEF DeleteAll
  <2>2. \A x \in Present' : entries'[x].hits = entries[x].hits
    BY <1>4 DEF DeleteAll, Present
  <2> QED BY <1>0, <1>4, <2>1, <2>2, LoggedStep
<1>5. ASSUME Present' = Present, older' = older,
             \A x \in Present' : entries'[x].hits = entries[x].hits,
             Forget({x \in Keys : entries'[x] = Absent})
      PROVE  LogInv'
  <2>1. Present' = Present \ {} /\ older' = Without({})
    BY <1>0, <1>5 DEF Without, TypeOK
  <2> QED BY <1>0, <1>5, <2>1, LoggedStep
<1>6. ASSUME NEW k \in Keys, Logged(Get(k)), entries'[k] = Absent
      PROVE  LogInv'
  <2>1. CASE UNCHANGED <<entries, older>>
    <3>1. Present' = Present
      BY <2>1 DEF Present
    <3> QED BY <1>5, <1>6, <2>1, <3>1 DEF Logged
  <2>2. CASE DeleteAll({k})
    BY <1>4, <1>6, <2>2 DEF Logged
  <2>3. CASE k \in Present /\ entries[k].hits < MaxHits /\ entries' = [entries EXCEPT ![k].hits = @ + 1]
    <3>1. Present' = Present
      BY <1>0, <2>3, HitEffect
    <3> QED BY <1>6, <2>3, <3>1 DEF Present
  <2> QED BY <1>6, <2>1, <2>2, <2>3 DEF Logged, Get
<1>7. CASE Logged(Tick)
  <2>1. Present' = Present /\ older' = older
    BY <1>0, <1>7, TickEffect DEF Logged, Tick
  <2>2. \A x \in Keys : entries'[x].hits = entries[x].hits
    BY <1>7 DEF Logged, Tick
  <2>3. \A x \in Present' : entries'[x].hits = entries[x].hits
    BY <2>1, <2>2 DEF Present
  <2> QED BY <1>5, <1>7, <2>1, <2>3 DEF Logged
<1>8. ASSUME NEW S, Logged(Listing(S)) PROVE LogInv'
  BY <1>4, <1>8 DEF Logged, Listing
<1>9. ASSUME NEW S, Logged(Discard(S)) PROVE LogInv'
  BY <1>4, <1>9 DEF Logged, Discard
<1>10. CASE Logged(sweep)
  BY <1>4, <1>10 DEF Logged, sweep
<1> QED BY <1>1, <1>2, <1>3, <1>6, <1>7, <1>8, <1>9, <1>10
        DEF HistoryNext, Peek, exportEntries, delete, deleteByPrefix, clear

(* The number of keys before the one at i is i - 1. *)
LEMMA RankOfListed ==
    ASSUME LogInv, NEW i \in DOMAIN recent
    PROVE  Rank(recent[i], Present) = i - 1
<1> DEFINE before == {y \in Present : <<y, recent[i]>> \in older}
           f == [j \in 1 .. i - 1 |-> recent[j]]
<1>1. /\ recent \in Seq(Present) /\ DOMAIN recent = 1 .. Len(recent) /\ Len(recent) \in Nat
      /\ i \in Nat /\ 1 <= i /\ i <= Len(recent)
  BY DEF LogInv, Lists
<1>2. \A j \in 1 .. i - 1 : j \in DOMAIN recent /\ recent[j] \in before
  <2> SUFFICES ASSUME NEW j \in 1 .. i - 1 PROVE j \in DOMAIN recent /\ recent[j] \in before
    OBVIOUS
  <2>1. j \in DOMAIN recent /\ j < i
    BY <1>1
  <2>2. recent[j] \in Present
    BY <1>1, <2>1
  <2>3. <<recent[j], recent[i]>> \in older
    BY <2>1 DEF LogInv, Lists
  <2> QED BY <2>1, <2>2, <2>3
<1>3. ASSUME NEW y \in before PROVE \E j \in 1 .. i - 1 : recent[j] = y
  <2>1. PICK j \in DOMAIN recent : recent[j] = y
    BY DEF LogInv, Lists
  <2>2. j < i
    BY <2>1 DEF LogInv, Lists
  <2> QED BY <1>1, <2>1, <2>2
<1>4. \A a, b \in 1 .. i - 1 : recent[a] = recent[b] => a = b
  BY <1>2, ListedOnce DEF LogInv
<1> HIDE DEF before
<1>5. f \in Bijection(1 .. i - 1, before)
  BY <1>2, <1>3, <1>4 DEF Bijection, Injection, Surjection, IsInjective
<1>6. IsFiniteSet(1 .. i - 1) /\ Cardinality(1 .. i - 1) = i - 1
  <2>1. 1 \in Int /\ i - 1 \in Int
    BY <1>1
  <2>2. IsFiniteSet(1 .. i - 1) /\ Cardinality(1 .. i - 1) = IF 1 > i - 1 THEN 0 ELSE i - 1 - 1 + 1
    BY <2>1, FS_Interval
  <2> QED BY <1>1, <2>2
<1> HIDE DEF f
<1>7. ExistsBijection(1 .. i - 1, before)
  BY <1>5 DEF ExistsBijection
<1>8. Cardinality(before) = i - 1
  BY <1>6, <1>7, FS_Bijection
<1> QED BY <1>8 DEF Rank, before

(* The candidates of the access-aware scan are the first of the log. *)
LEMMA Candidates ==
    ASSUME LogInv
    PROVE  {y \in Present : Rank(y, Present) < SampleSize} = LeastRecent(SampleSize)
<1>1. /\ recent \in Seq(Present) /\ DOMAIN recent = 1 .. Len(recent) /\ Len(recent) \in Nat
      /\ SampleSize \in Nat
  BY LimitsAssumption DEF LogInv, Lists
<1> DEFINE m == IF SampleSize < Len(recent) THEN SampleSize ELSE Len(recent)
<1>2. \A i \in DOMAIN recent : recent[i] \in Present /\ i \in Nat /\ 1 <= i
  BY <1>1
<1>3. \A i \in DOMAIN recent : i - 1 < SampleSize <=> i \in 1 .. m
  BY <1>1
<1>4. \A i \in 1 .. m : i \in DOMAIN recent
  BY <1>1
<1>5. \A i \in DOMAIN recent : Rank(recent[i], Present) = i - 1
  BY RankOfListed
<1>6. LeastRecent(SampleSize) = {recent[i] : i \in 1 .. m}
  BY DEF LeastRecent
<1> HIDE DEF m
<1>7. ASSUME NEW y \in Present, Rank(y, Present) < SampleSize
      PROVE  \E i \in 1 .. m : y = recent[i]
  <2>1. PICK i \in DOMAIN recent : recent[i] = y
    BY DEF LogInv, Lists
  <2> QED BY <1>3, <1>5, <1>7, <2>1
<1>8. ASSUME NEW i \in 1 .. m
      PROVE  recent[i] \in Present /\ Rank(recent[i], Present) < SampleSize
  BY <1>2, <1>3, <1>4, <1>5
<1> QED BY <1>6, <1>7, <1>8

(* The first entry with the fewest reads is the coldest key. *)
LEMMA FewestIsColdest ==
    ASSUME LogInv, NEW C \in SUBSET Present, NEW x, FewestHits(x, C)
    PROVE  \A y \in C : Colder(x, y)
<1> SUFFICES ASSUME NEW y \in C PROVE Colder(x, y)
  OBVIOUS
<1>1. x \in C /\ x \in Present /\ y \in Present
  BY DEF FewestHits
<1>2. reads[x] = entries[x].hits /\ reads[y] = entries[y].hits
  BY <1>1 DEF LogInv
<1>3. PICK i \in DOMAIN recent, j \in DOMAIN recent : recent[i] = x /\ recent[j] = y
  BY <1>1 DEF LogInv, Lists
<1>4. DOMAIN recent = 1 .. Len(recent)
  BY DEF LogInv, Lists
<1>5. CASE y = x
  <2>1. UsedBefore(x, y)
    BY <1>3, <1>4, <1>5 DEF UsedBefore
  <2> QED BY <1>5, <2>1 DEF Colder
<1>6. CASE y # x /\ entries[x].hits < entries[y].hits
  BY <1>2, <1>6 DEF Colder
<1>7. CASE y # x /\ entries[x].hits = entries[y].hits /\ <<x, y>> \in older
  <2>1. i < j
    BY <1>3, <1>7 DEF LogInv, Lists
  <2>2. UsedBefore(x, y)
    BY <1>3, <1>4, <2>1 DEF UsedBefore
  <2> QED BY <1>2, <1>7, <2>2 DEF Colder
<1> QED BY <1>1, <1>5, <1>6, <1>7 DEF FewestHits

(* The key doEvict() takes out is the one its policy promises: by the uses  *)
(* of the keys and not by the order of the Map, the least recently used,    *)
(* the least read, or the least read of a sample of the least recent.       *)
THEOREM EvictionIsColdest == HistorySpec => EvictsTheColdest
<1> DEFINE Promise ==
      evicted' \notin {evicted, Absent} =>
          CASE policy = "lru" -> evicted' \in LeastRecent(1)
            [] policy = "lfu" -> \A y \in Present : Colder(evicted', y)
            [] OTHER -> /\ evicted' \in LeastRecent(SampleSize)
                        /\ \A y \in LeastRecent(SampleSize) : Colder(evicted', y)
<1>1. CapacityInv /\ LogInv /\ [HistoryNext]_historyVars => [Promise]_vars
  <2> SUFFICES ASSUME CapacityInv, LogInv, HistoryNext, evicted' \notin {evicted, Absent}
               PROVE  CASE policy = "lru" -> evicted' \in LeastRecent(1)
                        [] policy = "lfu" -> \A y \in Present : Colder(evicted', y)
                        [] OTHER -> /\ evicted' \in LeastRecent(SampleSize)
                                    /\ \A y \in LeastRecent(SampleSize) : Colder(evicted', y)
    BY DEF historyVars, vars
  <2>1. Next
    BY HistoryStep
  <2>2. PICK k \in Keys, v \in Values, ttl \in Ttls : Set(k, v, ttl)
    BY <2>1 DEF Next, Get, Peek, exportEntries, Listing, Discard, delete, deleteByPrefix, clear,
           sweep, Tick, Unasked
  <2> DEFINE x == evicted'
  <2>3. x \in Present /\ Victim(x, Present)
    BY <2>2, VictimOfAll
  <2> HIDE DEF x
  <2>4. CASE policy = "lru"
    <3>1. \A y \in Present \ {x} : <<x, y>> \in older
      BY <2>3, <2>4 DEF Victim, evictOldest
    <3>2. PICK i \in DOMAIN recent : recent[i] = x
      BY <2>3 DEF LogInv, Lists
    <3>3. DOMAIN recent = 1 .. Len(recent) /\ Len(recent) \in Nat /\ recent \in Seq(Present)
      BY DEF LogInv, Lists
    <3>4. 1 \in DOMAIN recent /\ recent[1] \in Present
      BY <3>2, <3>3
    <3>5. recent[1] = x
      <4>1. ASSUME recent[1] # x PROVE FALSE
        <5>1. <<recent[i], recent[1]>> \in older
          BY <3>1, <3>2, <3>4, <4>1
        <5>2. i < 1
          BY <3>2, <3>4, <5>1 DEF LogInv, Lists
        <5> QED BY <3>2, <3>3, <5>2
      <4> QED BY <4>1
    <3>6. 1 \in 1 .. (IF 1 < Len(recent) THEN 1 ELSE Len(recent))
      BY <3>3, <3>4
    <3>7. x \in LeastRecent(1)
      BY <3>5, <3>6 DEF LeastRecent
    <3> QED BY <2>4, <3>7 DEF x
  <2>5. CASE policy = "lfu"
    <3>1. FewestHits(x, Present)
      BY <2>3, <2>5 DEF Victim, evictLFU
    <3>2. \A y \in Present : Colder(x, y)
      BY <3>1, FewestIsColdest
    <3> QED BY <2>5, <3>2 DEF x
  <2>6. CASE policy \notin {"lru", "lfu"}
    <3>1. FewestHits(x, LeastRecent(SampleSize))
      BY <2>3, <2>6, Candidates DEF Victim, evictLeastAccessed
    <3>2. LeastRecent(SampleSize) \subseteq Present
      BY Candidates
    <3>3. \A y \in LeastRecent(SampleSize) : Colder(x, y)
      BY <3>1, <3>2, FewestIsColdest
    <3>4. x \in LeastRecent(SampleSize)
      BY <3>1 DEF FewestHits
    <3> QED BY <2>6, <3>3, <3>4 DEF x
  <2> QED BY <2>4, <2>5, <2>6
<1>2. [HistoryNext]_historyVars => [Next]_vars
  BY HistoryStep DEF historyVars
<1>3. HistoryInit => Init
  BY DEF HistoryInit
<1> HIDE DEF Promise
<1>4. HistorySpec => [][Promise]_vars
  BY <1>1, <1>2, <1>3, CapacityInit, CapacityStep, LogInit, LogNext, PTL DEF HistorySpec
<1> QED BY <1>4 DEF EvictsTheColdest, Promise

=============================================================================
