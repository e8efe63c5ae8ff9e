--------------------------- MODULE ElectionRestart ---------------------------
(***************************************************************************)
(* The replica group of Election with processes that stop and come back.   *)
(* Nothing about elections is persisted: ElectionState, ROLE and PRIMARY_- *)
(* URL are module-level variables that a new process initialises from its  *)
(* environment.                                                            *)
(***************************************************************************)
EXTENDS Election

CONSTANT MaxRestarts  \* bound: restarts in a behaviour

VARIABLE restarts     \* how many restarts there have been

restartVars == <<vars, restarts>>

(* The role and the primary the environment names. *)
Configured(n) ==
    /\ ROLE' = [ROLE EXCEPT ![n] = "replica"]
    /\ PRIMARY_URL' = [PRIMARY_URL EXCEPT ![n] = Origin]
    /\ REPLICA_URLS' = [REPLICA_URLS EXCEPT ![n] = {}]

(* The process of n ends and a new one starts with the same environment:    *)
(* the configured role and primary, term 0, no vote.  Its open calls are    *)
(* gone; calls addressed to it may still reach the new process.             *)
Restart(n) ==
    /\ restarts < MaxRestarts
    /\ restarts' = restarts + 1
    /\ currentTerm' = [currentTerm EXCEPT ![n] = 0]
    /\ votedFor' = [votedFor EXCEPT ![n] = None]
    /\ Configured(n)
    /\ electionInFlight' = [electionInFlight EXCEPT ![n] = FALSE]
    /\ campaign' = [campaign EXCEPT ![n] = NoCampaign]
    /\ monitor' = [monitor EXCEPT ![n] = [running |-> TRUE, target |-> Origin, failures |-> 0]]
    /\ orphans' = [orphans EXCEPT ![n] = {}]
    /\ replies' = {r \in replies : r.candidate # n}
    /\ UNCHANGED <<requests, announcements, historyVars>>

RestartInit == Init /\ restarts = 0

RestartNext ==
    \/ Next /\ UNCHANGED restarts
    \/ \E n \in Replicas : Restart(n)

RestartSpec == RestartInit /\ [][RestartNext]_restartVars

(* A term has at most one winner although the nodes forget their votes:     *)
(* docs/api.md calls the missing persistence "safe".                        *)
ElectionSafetyAcrossRestarts == ElectionSafety

=============================================================================
