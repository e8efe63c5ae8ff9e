-------------------------- MODULE ElectionFailover --------------------------
(***************************************************************************)
(* Failover in the replica group of Election: the configured primary died  *)
(* for good, every replica is up and stays up, and the network is faithful *)
(* once it is calm, if ever: a check fails only if its target is dead,     *)
(* every call is handled and answered in time.  Before that, checks of     *)
(* live nodes may fail, and calls may time out, come late, or never.       *)
(***************************************************************************)
EXTENDS Election

VARIABLE calm  \* there is no disturbance, or it is over

failoverVars == <<vars, calm>>

(* Once calm, a call brings no vote only if the peer refused it: it is no   *)
(* longer on the wire and no granted vote is on its way.                    *)
Refused(n, p) ==
    /\ [from |-> n, to |-> p, term |-> campaign[n].term] \notin requests
    /\ [voter |-> p, term |-> campaign[n].term, candidate |-> n] \notin replies

MayFail(target) == target = Origin \/ ~calm

Check(n) ==
    \/ monitor[n].target # Origin /\ CheckSucceeds(n)
    \/ MayFail(monitor[n].target) /\ CheckFails(n)
    \/ \E c \in orphans[n] : MayFail(c.target) /\ OrphanCheckFails(n, c)
    \/ \E c \in orphans[n] : OrphanCheckHarmless(n, c)

Vote == \E m \in requests : GrantVote(m) \/ RefuseVote(m)

Answer(n, p) ==
    \/ ReceiveGrant(n, p)
    \/ (~calm \/ Refused(n, p)) /\ VoteCallFails(n, p)

Conclude(n) == CampaignWon(n) \/ CampaignLost(n)

Hear == \E a \in announcements : StaleLeader(a) \/ AdoptLeader(a)

Step ==
    /\ \/ \E n \in Replicas : Check(n) \/ Conclude(n)
       \/ \E n, p \in Replicas : Answer(n, p)
       \/ Vote
       \/ Hear
       \/ \E n \in Replicas : \E urls \in {{}, PEER_URLS(n)} : Promote(n, urls)
    /\ UNCHANGED calm

Settle == ~calm /\ calm' = TRUE /\ UNCHANGED vars

(* What the runtime of a replica guarantees whatever becomes of the         *)
(* network: its timers fire, those that abort a call among them (no call of *)
(* requestVoteFrom() is awaited longer than timeoutMs), and an await that   *)
(* is settled continues.  A calm network delivers what was sent.            *)
FailoverFairness ==
    /\ \A n \in Replicas : WF_failoverVars(Check(n) /\ UNCHANGED calm)
    /\ \A n \in Replicas : WF_failoverVars(Conclude(n) /\ UNCHANGED calm)
    /\ \A n, p \in Replicas : WF_failoverVars(Answer(n, p) /\ UNCHANGED calm)
    /\ WF_failoverVars(calm /\ Vote /\ UNCHANGED calm)
    /\ WF_failoverVars(calm /\ Hear /\ UNCHANGED calm)

(* The network is calm throughout, from some time on, or never. *)
FailoverSpec ==
    Init /\ calm \in BOOLEAN /\ [][Step \/ Settle]_failoverVars /\ FailoverFairness

(* The bound on terms was reached (by votes that keep being split). *)
Exhausted == \E n \in Replicas : currentTerm[n] = MaxTerm

HasPrimary == \E n \in Replicas : ROLE[n] = "primary"

(* A former primary stepped down when it voted in a newer term.  It follows *)
(* nobody, so it has no monitor that would make it campaign again.          *)
SteppedDown == \E n \in Replicas : ROLE[n] = "replica" /\ PRIMARY_URL[n] = None

(* docs/api.md, on killing the primary: "exactly one of the three replicas  *)
(* wins the election and starts accepting direct writes".  With a calm      *)
(* network, the group has from some time on a primary that accepts writes.  *)
FailoverCompletes == []calm => <>[](Exhausted \/ HasPrimary)

(* The same of a network that is disturbed and calms down: whoever won, the *)
(* group has a primary in the end.  The code does not keep this: a primary  *)
(* that stepped down for a candidate whose call timed out has no monitor,   *)
(* and the candidate's own finds the node it watches alive.                 *)
AlwaysLedInTheEnd == <>[]calm => <>[](Exhausted \/ HasPrimary)

(* After disturbances that end, there is one way to be left without a       *)
(* primary for good: an elected primary stepped down for a candidate that   *)
(* did not get its vote in time.  Lost checks, refused and late votes and   *)
(* late announcements are all recovered from.                               *)
LeaderlessOnlyBySteppingDown ==
    <>[]calm => <>[](Exhausted \/ HasPrimary \/ SteppedDown)

=============================================================================
