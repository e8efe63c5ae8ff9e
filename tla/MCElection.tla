----------------------------- MODULE MCElection -----------------------------
(* Election on small groups: replicas with the same configuration are      *)
(* interchangeable.                                                         *)
EXTENDS Election, TLC

Symmetry ==
    {p \in Permutations(Replicas) : \A n \in Replicas :
        /\ n \in AutoPromote <=> p[n] \in AutoPromote
        /\ n \in Promotable <=> p[n] \in Promotable}
=============================================================================
