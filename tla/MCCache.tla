------------------------------ MODULE MCCache ------------------------------
(* Two workloads for CacheHistory, and the sweeper's interval, which keeps  *)
(* firing: all keys with one value, so that a store that is full of live    *)
(* keys evicts, and the keys of one prefix with all values.                 *)
EXTENDS CacheHistory

VARIABLE scope  \* the keys and the values that are written

Scopes ==
    {[keys |-> Keys, values |-> {CHOOSE v \in Values : TRUE}]} \cup
    {[keys |-> P, values |-> Values] : P \in KeyPrefixes}

MCInit == HistoryInit /\ scope \in Scopes

InScope == \A k \in Keys : entries'[k] # Absent => k \in scope.keys /\ entries'[k].value \in scope.values

MCNext == HistoryNext /\ InScope /\ UNCHANGED scope

MCVars == <<historyVars, scope>>

MCSpec == MCInit /\ [][MCNext]_MCVars /\ startSweeper

(* What the latest call was and what it answered decides nothing of the     *)
(* next step: states that differ in nothing else count as one.              *)
CacheView == <<entries, older, policy, recent, reads, scope>>
=============================================================================
