---------------------------- MODULE MCReplication ----------------------------
(* Two workloads for Replication.  Every step of either is one of its Next. *)
(*                                                                          *)
(*   Keys  a replica without INKCACHE_PERSIST_PATH: writes of all keys that *)
(*         overtake and evict each other                                    *)
(*   {k}   a replica that saves its store at every point, on any number of  *)
(*         signals, and that is sent a single value of k                    *)
EXTENDS Replication, TLC

VARIABLE scope  \* the keys that are written

MCInit == Init /\ scope \in {Keys} \cup {{k} : k \in Keys}

(* What happens to the process and its store, a write apart. *)
AtTheReplica ==
    \/ Stays(StartProcess) \/ Stays(loadSnapshot) \/ Stays(Kill)
    \/ \E k \in Keys : ExpireHere(k)
    \/ \E op \in wire : Deliver(op)
    \/ Ask \/ Snapshot \/ SyncDone \/ SyncFails
    \/ SaveNext

MCNext ==
    /\ \/ scope = Keys /\ ReplicaNext
       \/ scope # Keys /\ changes = 0 /\ \E k \in scope, v \in Mortal : Set(k, v)
       \/ scope # Keys /\ AtTheReplica
    /\ UNCHANGED scope

MCSpec == MCInit /\ [][MCNext]_<<vars, scope>>

(* Signals are interchangeable, and so are keys. *)
Symmetry == Permutations(Signals) \cup Permutations(Keys)
=============================================================================
