---------------------------- MODULE CacheContract ----------------------------
(***************************************************************************)
(* What the callers of one cache node may rely on, without recency lists,  *)
(* sweepers or eviction policies.  Every step names the call it answers,   *)
(* or no call if it is time that passes:                                   *)
(*   - a read of keys, one or all, tells exactly of those that are there,  *)
(*     each with the value last written, and changes nothing;              *)
(*   - a write puts its key and costs nothing else while there is room,    *)
(*     and one other key once the cache is full of live keys;              *)
(*   - a deletion takes the keys it names and no other;                    *)
(*   - without a call a key is lost only if it was written with a TTL.     *)
(***************************************************************************)
EXTENDS Naturals, FiniteSets

CONSTANTS Keys, Values, Absent, MaxEntries

VARIABLES
    store,  \* for every key its value and whether it has a TTL, or Absent
    call,   \* what the latest step was asked for, and of which keys
    reply   \* what it answered: the keys it found, with their values

Live == {k \in Keys : store[k] # Absent}

NoCall == [op |-> "none", keys |-> {}]

Answers(op, S, told) ==
    /\ call' = [op |-> op, keys |-> S]
    /\ reply' = told

Lose(S) == store' = [x \in Keys |-> IF x \in S THEN Absent ELSE store[x]]

(* Room for a new key is made by at most one live key. *)
MakesRoom(lost, others) ==
    IF Cardinality(others) < MaxEntries THEN lost = {} ELSE \E x \in others : lost = {x}

Put(k, v, mortal) ==
    /\ Answers("write", {k}, {})
    /\ \E lost \in SUBSET (Live \ {k}) :
          /\ MakesRoom(lost, Live \ {k})
          /\ store' = [x \in Keys |-> IF x = k THEN [value |-> v, mortal |-> mortal]
                                      ELSE IF x \in lost THEN Absent ELSE store[x]]

Read(S) ==
    /\ Answers("read", S, {<<k, store[k].value>> : k \in S \cap Live})
    /\ UNCHANGED store

Remove(S) ==
    /\ Answers("remove", S, {})
    /\ Lose(S)

Expire(S) ==
    /\ Answers("none", {}, {})
    /\ \A k \in S : store[k].mortal
    /\ Lose(S)

Init == store = [k \in Keys |-> Absent] /\ call = NoCall /\ reply = {}

Next ==
    \/ \E k \in Keys, v \in Values, mortal \in BOOLEAN : Put(k, v, mortal)
    \/ \E S \in SUBSET Keys : Read(S)
    \/ \E S \in SUBSET Keys : Remove(S)
    \/ \E S \in SUBSET Live : Expire(S)

Spec == Init /\ [][Next]_<<store, call, reply>>

=============================================================================
