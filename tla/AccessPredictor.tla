--------------------------- MODULE AccessPredictor ---------------------------
(***************************************************************************)
(* core/access-predictor.ts: which key tends to be read after which, as    *)
(* operators on the predictor's state: lastKey and the Map of transitions, *)
(* both Maps sequences in insertion order.                                 *)
(***************************************************************************)
EXTENDS Naturals, Sequences, SequencesExt, Ordering

CONSTANTS
    NoKey,                \* undefined
    maxTrackedKeys,
    maxCandidatesPerKey

ASSUME AccessPredictorAssumption ==
    maxTrackedKeys \in Nat \ {0} /\ maxCandidatesPerKey \in Nat \ {0}

NewPredictor == [lastKey |-> NoKey, transitions |-> <<>>]

Froms(transitions) == {transitions[i].from : i \in DOMAIN transitions}

FromIndex(transitions, from) == CHOOSE i \in DOMAIN transitions : transitions[i].from = from

Candidates(p, from) ==
    IF from \in Froms(p.transitions)
    THEN p.transitions[FromIndex(p.transitions, from)].candidates ELSE <<>>

(* Mutant: a full table forgets nobody. *)
WithFromUnbounded(transitions, from) ==
    IF from \in Froms(transitions) THEN transitions
    ELSE Append(transitions, [from |-> from, candidates |-> <<>>])

(* The entry of `from', for which a full table forgets its oldest. *)
WithFrom(transitions, from) ==
    IF from \in Froms(transitions) THEN transitions
    ELSE Append(IF Len(transitions) >= maxTrackedKeys THEN Tail(transitions) ELSE transitions,
                [from |-> from, candidates |-> <<>>])

(* Mutant: a candidate that comes back after it was dropped starts with the *)
(* count of the one it replaces.                                            *)
IncrementedInherits(candidates, key) ==
    IF \E i \in DOMAIN candidates : candidates[i].key = key
    THEN [i \in DOMAIN candidates |->
             IF candidates[i].key = key THEN [candidates[i] EXCEPT !.count = @ + 1]
             ELSE candidates[i]]
    ELSE Append(candidates, [key |-> key, count |-> Len(candidates) + 1])

Incremented(candidates, key) ==
    IF \E i \in DOMAIN candidates : candidates[i].key = key
    THEN [i \in DOMAIN candidates |->
             IF candidates[i].key = key THEN [candidates[i] EXCEPT !.count = @ + 1]
             ELSE candidates[i]]
    ELSE Append(candidates, [key |-> key, count |-> 1])

(* The first of the candidates with the fewest observations. *)
Worst(candidates) ==
    CHOOSE i \in DOMAIN candidates : \A j \in DOMAIN candidates :
        \/ candidates[i].count < candidates[j].count
        \/ candidates[i].count = candidates[j].count /\ i <= j

Bounded(candidates) ==
    IF Len(candidates) > maxCandidatesPerKey
    THEN RemoveAt(candidates, Worst(candidates)) ELSE candidates

(* record(): the same key twice in a row is no transition. *)
recordAccess(p, key) ==
    [lastKey |-> key,
     transitions |->
        IF p.lastKey \in {NoKey, key} THEN p.transitions
        ELSE LET ts == WithFrom(p.transitions, p.lastKey) IN
             [ts EXCEPT ![FromIndex(ts, p.lastKey)].candidates = Bounded(Incremented(@, key))]]

(* predict(): the topN most frequent candidates, ties in insertion order. *)
predict(p, key, topN) ==
    LET cs == Candidates(p, key)
        I == DOMAIN cs
        order == InOrder(I, {q \in I \X I :
                                \/ cs[q[1]].count > cs[q[2]].count
                                \/ cs[q[1]].count = cs[q[2]].count /\ q[1] < q[2]})
    IN [r \in 1 .. (IF topN < Len(cs) THEN topN ELSE Len(cs)) |-> cs[order[r]]]

=============================================================================
