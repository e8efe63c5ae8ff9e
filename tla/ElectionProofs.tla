--------------------------- MODULE ElectionProofs ---------------------------
(* Theorems about Election, and that ElectionFailover is a restriction of   *)
(* it, for every group size, threshold and bound on terms.                  *)
EXTENDS ElectionFailover, TLAPS, FiniteSetTheorems

(* Starting a campaign, or not starting one, keeps the variables in type. *)
LEMMA OnFailureType ==
    ASSUME TypeOK, NEW n \in Replicas, NEW f \in Nat, onFailure(n, f)
    PROVE  /\ currentTerm' \in [Replicas -> Terms]
           /\ votedFor' \in [Replicas -> Replicas \cup {None}]
           /\ electionInFlight' \in [Replicas -> BOOLEAN]
           /\ campaign' \in [Replicas -> Campaigns]
           /\ requests' \subseteq Requests
           /\ ballots' \subseteq Ballots
<1>1. CASE UNCHANGED <<electionVars, campaignVars, requests, ballots>>
  BY <1>1 DEF TypeOK, electionVars, campaignVars
<1>2. CASE ~electionInFlight[n] /\ startElection(n) /\ campaignForPrimary(n)
  <2>1. currentTerm[n] + 1 \in Terms
    BY <1>2, BoundsAssumption DEF startElection, TypeOK, Terms
  <2>2. PEER_URLS(n) \subseteq Replicas
    BY DEF PEER_URLS
  <2>3. /\ electionInFlight' = [electionInFlight EXCEPT ![n] = TRUE]
        /\ campaign' = [campaign EXCEPT ![n] =
               [term |-> currentTerm[n] + 1, pending |-> PEER_URLS(n), grants |-> {}]]
        /\ requests' = requests \cup
               {[from |-> n, to |-> p, term |-> currentTerm[n] + 1] : p \in PEER_URLS(n)}
    BY <1>2 DEF campaignForPrimary
  <2>4. campaign' \in [Replicas -> Campaigns]
    BY <2>1, <2>2, <2>3 DEF TypeOK, Campaigns
  <2>5. requests' \subseteq Requests
    BY <2>1, <2>2, <2>3 DEF TypeOK, Requests
  <2>6. /\ currentTerm' \in [Replicas -> Terms]
        /\ votedFor' \in [Replicas -> Replicas \cup {None}]
        /\ ballots' \subseteq Ballots
    BY <1>2, <2>1 DEF startElection, TypeOK, Ballots
  <2>7. electionInFlight' \in [Replicas -> BOOLEAN]
    BY <2>3 DEF TypeOK
  <2> QED BY <2>4, <2>5, <2>6, <2>7
<1> QED BY <1>1, <1>2 DEF onFailure, campaignForPrimary

LEMMA LongerType == ASSUME NEW s \in Streaks PROVE Longer(s) \in Streaks /\ s + 1 \in Nat
BY BoundsAssumption DEF Streaks, Longer

LEMMA OrphansAfterStopType ==
    ASSUME TypeOK, NEW n \in Replicas
    PROVE  OrphansAfterStop(n) \subseteq Checks
<1>1. monitor[n] \in Monitors /\ orphans[n] \subseteq Checks
  BY DEF TypeOK
<1>2. [target |-> monitor[n].target, failures |-> monitor[n].failures] \in Checks
  BY <1>1 DEF Monitors, Checks
<1> QED BY <1>1, <1>2 DEF OrphansAfterStop

LEMMA TypeInit == Init => TypeOK
BY BoundsAssumption, NamesAssumption
DEF Init, TypeOK, Terms, Urls, Campaigns, NoCampaign, Monitors, Checks, Streaks

LEMMA TypeStep == TypeOK /\ [Next]_vars => TypeOK'
<1> SUFFICES ASSUME TypeOK, [Next]_vars PROVE TypeOK'
  OBVIOUS
<1>1. CASE UNCHANGED vars
  BY <1>1 DEF TypeOK, vars, electionVars, roleVars, campaignVars, monitorVars,
              netVars, historyVars
<1>2. ASSUME NEW n \in Replicas, CheckSucceeds(n) PROVE TypeOK'
  <2>1. monitor' \in [Replicas -> Monitors]
    <3>1. 0 \in Streaks
      BY BoundsAssumption DEF Streaks
    <3> QED BY <1>2, <3>1 DEF CheckSucceeds, TypeOK, Monitors
  <2> QED BY <1>2, <2>1 DEF CheckSucceeds, TypeOK, electionVars, roleVars, campaignVars,
                            netVars, historyVars
<1>3. ASSUME NEW n \in Replicas, CheckFails(n) PROVE TypeOK'
  <2>1. monitor[n] \in Monitors /\ monitor[n].failures \in Streaks
    BY DEF TypeOK, Monitors
  <2>2. monitor' \in [Replicas -> Monitors]
    BY <1>3, <2>1, LongerType DEF CheckFails, TypeOK, Monitors
  <2>3. onFailure(n, monitor[n].failures + 1) /\ monitor[n].failures + 1 \in Nat
    BY <1>3, <2>1, LongerType DEF CheckFails
  <2> QED BY <1>3, <2>2, <2>3, OnFailureType DEF CheckFails, TypeOK, roleVars
<1>4. ASSUME NEW n \in Replicas, NEW c \in orphans[n], OrphanCheckFails(n, c) PROVE TypeOK'
  <2>1. c \in Checks /\ c.failures \in Streaks
    BY DEF TypeOK, Checks
  <2>2. onFailure(n, c.failures + 1) /\ c.failures + 1 \in Nat
    BY <1>4, <2>1, LongerType DEF OrphanCheckFails
  <2>3. orphans' \in [Replicas -> SUBSET Checks]
    BY <1>4 DEF OrphanCheckFails, TypeOK
  <2> QED BY <1>4, <2>2, <2>3, OnFailureType DEF OrphanCheckFails, TypeOK, roleVars
<1>5. ASSUME NEW n \in Replicas, NEW c \in orphans[n], OrphanCheckHarmless(n, c) PROVE TypeOK'
  BY <1>5 DEF OrphanCheckHarmless, TypeOK, electionVars, roleVars, campaignVars,
              netVars, historyVars
<1>6. ASSUME NEW m \in requests, GrantVote(m) PROVE TypeOK'
  <2>1. m \in Requests /\ m.to \in Replicas /\ m.from \in Replicas /\ m.term \in Terms
    BY DEF TypeOK, Requests
  <2>2. [voter |-> m.to, term |-> m.term, candidate |-> m.from] \in Ballots
    BY <2>1 DEF Ballots
  <2>3. ballots' \subseteq Ballots /\ replies' \subseteq Ballots
    BY <1>6, <2>2 DEF GrantVote, TypeOK
  <2>4. RoleAfterVote(m.to, m.term) \in {"primary", "replica"}
    BY <2>1 DEF RoleAfterVote, TypeOK
  <2>5. /\ currentTerm' \in [Replicas -> Terms]
        /\ votedFor' \in [Replicas -> Replicas \cup {None}]
        /\ ROLE' \in [Replicas -> {"primary", "replica"}]
        /\ requests' \subseteq Requests
    BY <1>6, <2>1, <2>4 DEF GrantVote, TypeOK
  <2> QED BY <1>6, <2>3, <2>5 DEF GrantVote, TypeOK, campaignVars, monitorVars
<1>7. ASSUME NEW m \in requests, RefuseVote(m) PROVE TypeOK'
  BY <1>7 DEF RefuseVote, TypeOK, electionVars, roleVars, campaignVars, monitorVars, historyVars
<1>8. ASSUME NEW n \in Replicas, NEW p \in Replicas, ReceiveGrant(n, p) PROVE TypeOK'
  <2>1. [term |-> campaign[n].term, pending |-> campaign[n].pending \ {p},
         grants |-> campaign[n].grants \cup {p}] \in Campaigns
    BY DEF TypeOK, Campaigns
  <2>2. campaign' \in [Replicas -> Campaigns]
    BY <1>8, <2>1 DEF ReceiveGrant, TypeOK
  <2> QED BY <1>8, <2>2 DEF ReceiveGrant, TypeOK, electionVars, roleVars, monitorVars, historyVars
<1>9. ASSUME NEW n \in Replicas, NEW p \in Replicas, VoteCallFails(n, p) PROVE TypeOK'
  <2> DEFINE c == [campaign[n] EXCEPT !.pending = @ \ {p}]
  <2>0. c \in Campaigns
    <3>1. campaign[n] \in Campaigns
      BY DEF TypeOK
    <3> QED BY <3>1 DEF Campaigns
  <2>1. campaign' \in [Replicas -> Campaigns]
    <3>1. campaign' = [campaign EXCEPT ![n] = c]
      BY <1>9 DEF VoteCallFails
    <3> HIDE DEF c
    <3> QED BY <2>0, <3>1 DEF TypeOK
  <2> QED BY <1>9, <2>1 DEF VoteCallFails, TypeOK, electionVars, roleVars, monitorVars, historyVars
<1>10. ASSUME NEW n \in Replicas, CampaignWon(n) PROVE TypeOK'
  <2>1. campaign[n].term \in Terms /\ PEER_URLS(n) \subseteq Replicas
    BY DEF TypeOK, Campaigns, PEER_URLS
  <2>2. announcements' \subseteq Announcements
    BY <1>10, <2>1 DEF CampaignWon, announceLeader, TypeOK, Announcements
  <2>3. wins' \subseteq Wins
    BY <1>10, <2>1 DEF CampaignWon, TypeOK, Wins
  <2>4. /\ ROLE' \in [Replicas -> {"primary", "replica"}]
        /\ PRIMARY_URL' \in [Replicas -> Urls \cup {None}]
        /\ REPLICA_URLS' \in [Replicas -> SUBSET Replicas]
    BY <1>10, <2>1 DEF CampaignWon, promoteToPrimary, TypeOK
  <2>5. orphans' \in [Replicas -> SUBSET Checks]
    BY <1>10, OrphansAfterStopType DEF CampaignWon, TypeOK
  <2>6. monitor' \in [Replicas -> Monitors]
    BY ZenonT(30), <1>10 DEF CampaignWon, TypeOK, Monitors
  <2>7. NoCampaign \in Campaigns
    BY BoundsAssumption DEF NoCampaign, Campaigns, Terms
  <2>8. campaign' \in [Replicas -> Campaigns] /\ electionInFlight' \in [Replicas -> BOOLEAN]
    BY <1>10, <2>7 DEF CampaignWon, TypeOK
  <2> QED BY <1>10, <2>2, <2>3, <2>4, <2>5, <2>6, <2>8 DEF CampaignWon, TypeOK, electionVars
<1>11. ASSUME NEW n \in Replicas, CampaignLost(n) PROVE TypeOK'
  <2>1. NoCampaign \in Campaigns
    BY BoundsAssumption DEF NoCampaign, Campaigns, Terms
  <2>2. campaign' \in [Replicas -> Campaigns] /\ electionInFlight' \in [Replicas -> BOOLEAN]
    BY <1>11, <2>1 DEF CampaignLost, TypeOK
  <2> QED BY <1>11, <2>2 DEF CampaignLost, TypeOK, electionVars, roleVars, monitorVars,
                             netVars, historyVars
<1>12. ASSUME NEW a \in announcements, StaleLeader(a) PROVE TypeOK'
  BY <1>12 DEF StaleLeader, TypeOK, electionVars, roleVars, campaignVars, monitorVars, historyVars
<1>13. ASSUME NEW a \in announcements, AdoptLeader(a) PROVE TypeOK'
  <2>1. a \in Announcements /\ a.to \in Replicas /\ a.primaryUrl \in Replicas /\ a.term \in Terms
    BY DEF TypeOK, Announcements
  <2>2. [running |-> TRUE, target |-> a.primaryUrl, failures |-> 0] \in Monitors
    BY <2>1, BoundsAssumption DEF Monitors, Urls, Streaks
  <2>3. monitor' \in [Replicas -> Monitors]
    BY <1>13, <2>1, <2>2 DEF AdoptLeader, TypeOK
  <2>4. orphans' \in [Replicas -> SUBSET Checks]
    BY <1>13, <2>1, OrphansAfterStopType DEF AdoptLeader, TypeOK
  <2>5. /\ currentTerm' \in [Replicas -> Terms]
        /\ votedFor' \in [Replicas -> Replicas \cup {None}]
        /\ announcements' \subseteq Announcements
    BY <1>13, <2>1 DEF AdoptLeader, observeTerm, TypeOK
  <2>6. /\ ROLE' \in [Replicas -> {"primary", "replica"}]
        /\ PRIMARY_URL' \in [Replicas -> Urls \cup {None}]
        /\ REPLICA_URLS' \in [Replicas -> SUBSET Replicas]
    BY <1>13, <2>1 DEF AdoptLeader, TypeOK, Urls
  <2> QED BY <1>13, <2>3, <2>4, <2>5, <2>6 DEF AdoptLeader, TypeOK, campaignVars, historyVars
<1>14. ASSUME NEW n \in Replicas, NEW urls \in {{}, PEER_URLS(n)}, Promote(n, urls) PROVE TypeOK'
  <2>1. urls \subseteq Replicas
    BY DEF PEER_URLS
  <2>2. /\ ROLE' \in [Replicas -> {"primary", "replica"}]
        /\ PRIMARY_URL' \in [Replicas -> Urls \cup {None}]
        /\ REPLICA_URLS' \in [Replicas -> SUBSET Replicas]
    BY <1>14, <2>1 DEF Promote, promoteToPrimary, TypeOK
  <2> QED BY <1>14, <2>2 DEF Promote, TypeOK, electionVars, campaignVars, monitorVars,
                             netVars, historyVars
<1> QED BY <1>1, <1>2, <1>3, <1>4, <1>5, <1>6, <1>7, <1>8, <1>9, <1>10, <1>11, <1>12,
           <1>13, <1>14 DEF Next

(* Every variable keeps its type, whatever the group does. *)
THEOREM TypeCorrect == Spec => []TypeOK
BY TypeInit, TypeStep, PTL DEF Spec

-----------------------------------------------------------------------------
(* Elections. *)

(* A vote that startElection() or requestVote() may give keeps the lock. *)
LEMMA VoteKeepsLock ==
    ASSUME TypeOK, VoteOncePerTerm, VotesLocked,
           NEW v \in Replicas, NEW t \in Terms, NEW c \in Replicas,
           t > currentTerm[v] \/ (t = currentTerm[v] /\ votedFor[v] \in {None, c}),
           ballots' = ballots \cup {[voter |-> v, term |-> t, candidate |-> c]},
           currentTerm' = [currentTerm EXCEPT ![v] = t],
           votedFor' = [votedFor EXCEPT ![v] = c]
    PROVE  VoteOncePerTerm' /\ VotesLocked'
<1> DEFINE new == [voter |-> v, term |-> t, candidate |-> c]
<1>0. currentTerm \in [Replicas -> Nat] /\ votedFor \in [Replicas -> Replicas \cup {None}] /\ t \in Nat
  BY DEF TypeOK, Terms
<1>1. \A b \in ballots : b.voter \in Replicas /\ b.term \in Nat /\ b.candidate \in Replicas
  BY DEF TypeOK, Ballots, Terms
<1>2. \A b \in ballots : b.voter = v /\ b.term = t => b.candidate = c
  BY <1>0, <1>1, NamesAssumption DEF VotesLocked
<1>3. VoteOncePerTerm'
  <2> SUFFICES ASSUME NEW b1 \in ballots', NEW b2 \in ballots', b1.voter = b2.voter, b1.term = b2.term
               PROVE  b1.candidate = b2.candidate
    BY DEF VoteOncePerTerm
  <2>1. CASE b1 \in ballots /\ b2 \in ballots
    BY <2>1 DEF VoteOncePerTerm
  <2>2. CASE b1 = new \/ b2 = new
    BY <2>2, <1>2
  <2> QED BY <2>1, <2>2
<1>4. VotesLocked'
  <2> SUFFICES ASSUME NEW b \in ballots'
               PROVE  /\ b.term <= currentTerm'[b.voter]
                      /\ b.term = currentTerm'[b.voter] => votedFor'[b.voter] = b.candidate
    BY DEF VotesLocked
  <2>1. CASE b = new
    BY <2>1, <1>0
  <2>2. CASE b \in ballots /\ b.voter = v
    BY <2>2, <1>0, <1>1, <1>2 DEF VotesLocked
  <2>3. CASE b \in ballots /\ b.voter # v
    BY <2>3, <1>0, <1>1 DEF VotesLocked
  <2> QED BY <2>1, <2>2, <2>3
<1> QED BY <1>3, <1>4

(* Votes are never taken back, so a majority remains one. *)
LEMMA WinsStayBacked ==
    ASSUME WinsBacked, ballots \subseteq ballots', wins' = wins
    PROVE  WinsBacked'
BY DEF WinsBacked

(* A failed check that starts a campaign is a vote for oneself; the         *)
(* campaign begins with nothing but that vote.                              *)
LEMMA OnFailureKeepsVotes ==
    ASSUME VoteInv, NEW n \in Replicas, NEW f \in Nat, onFailure(n, f), replies' = replies, wins' = wins
    PROVE  VoteOncePerTerm' /\ VotesLocked' /\ CampaignsBacked' /\ WinsBacked'
<1>1. CASE UNCHANGED <<electionVars, campaignVars, requests, ballots>>
  BY <1>1 DEF VoteInv, VoteOncePerTerm, VotesLocked, CampaignsBacked, WinsBacked,
              electionVars, campaignVars
<1>2. CASE ~electionInFlight[n] /\ startElection(n) /\ campaignForPrimary(n)
  <2>1. currentTerm[n] + 1 \in Terms /\ currentTerm[n] + 1 > currentTerm[n]
    BY <1>2, BoundsAssumption DEF startElection, VoteInv, TypeOK, Terms
  <2>2. /\ currentTerm' = [currentTerm EXCEPT ![n] = currentTerm[n] + 1]
        /\ votedFor' = [votedFor EXCEPT ![n] = n]
        /\ ballots' = ballots \cup {[voter |-> n, term |-> currentTerm[n] + 1, candidate |-> n]}
    BY <1>2 DEF startElection
  <2>3. VoteOncePerTerm' /\ VotesLocked'
    BY <2>1, <2>2, VoteKeepsLock DEF VoteInv
  <2>4. /\ electionInFlight' = [electionInFlight EXCEPT ![n] = TRUE]
        /\ campaign' = [campaign EXCEPT ![n] =
               [term |-> currentTerm[n] + 1, pending |-> PEER_URLS(n), grants |-> {}]]
    BY <1>2 DEF campaignForPrimary
  <2>5. CampaignsBacked'
    <3>1. replies' \subseteq ballots'
      BY <2>2 DEF VoteInv, CampaignsBacked
    <3>2. ASSUME NEW k \in Replicas, electionInFlight'[k]
          PROVE  /\ campaign'[k].pending \cup campaign'[k].grants \subseteq PEER_URLS(k)
                 /\ \A v \in campaign'[k].grants \cup {k} :
                        [voter |-> v, term |-> campaign'[k].term, candidate |-> k] \in ballots'
      <4>1. CASE k = n
        <5>1. campaign'[n] = [term |-> currentTerm[n] + 1, pending |-> PEER_URLS(n), grants |-> {}]
          BY <2>4 DEF VoteInv, TypeOK
        <5> QED BY <4>1, <5>1, <2>2
      <4>2. CASE k # n
        <5>1. campaign'[k] = campaign[k] /\ electionInFlight[k]
          BY <2>4, <3>2, <4>2 DEF VoteInv, TypeOK
        <5> QED BY <5>1, <2>2 DEF VoteInv, CampaignsBacked
      <4> QED BY <4>1, <4>2
    <3> QED BY <3>1, <3>2 DEF CampaignsBacked, PEER_URLS
  <2>6. WinsBacked'
    BY <2>2, WinsStayBacked DEF VoteInv
  <2> QED BY <2>3, <2>5, <2>6
<1> QED BY <1>1, <1>2 DEF onFailure, campaignForPrimary

(* The votes a won campaign counted are a majority of the group. *)
LEMMA WonIsMajority ==
    ASSUME VoteInv, NEW n \in Replicas, electionInFlight[n], Won(n)
    PROVE  2 * Cardinality(campaign[n].grants \cup {n}) > Cardinality(Replicas)
<1> DEFINE G == campaign[n].grants
<1>1. G \subseteq PEER_URLS(n)
  BY DEF VoteInv, CampaignsBacked
<1>2. IsFiniteSet(G) /\ n \notin G
  BY <1>1, ReplicasAssumption, FS_Subset DEF PEER_URLS
<1>3. Cardinality(G \cup {n}) = Cardinality(G) + 1 /\ Cardinality(G) \in Nat
  BY <1>2, FS_AddElement, FS_CardinalityType
<1>4. Cardinality(PEER_URLS(n)) = Cardinality(Replicas) - 1 /\ Cardinality(Replicas) \in Nat
  BY ReplicasAssumption, FS_RemoveElement, FS_CardinalityType DEF PEER_URLS
<1>5. 2 * (1 + Cardinality(G)) > Cardinality(PEER_URLS(n)) + 1
  BY DEF Won, hasMajority
<1> QED BY <1>3, <1>4, <1>5

LEMMA VoteInit == Init => VoteInv
<1> SUFFICES ASSUME Init PROVE VoteInv
  OBVIOUS
<1>1. TypeOK
  BY TypeInit
<1>2. VoteOncePerTerm /\ VotesLocked /\ WinsBacked
  BY DEF Init, VoteOncePerTerm, VotesLocked, WinsBacked
<1>3. CampaignsBacked
  BY DEF Init, CampaignsBacked
<1> QED BY <1>1, <1>2, <1>3 DEF VoteInv

LEMMA VoteStep == VoteInv /\ [Next]_vars => VoteInv'
<1> SUFFICES ASSUME VoteInv, [Next]_vars
             PROVE  VoteOncePerTerm' /\ VotesLocked' /\ CampaignsBacked' /\ WinsBacked'
  BY TypeStep DEF VoteInv
<1> USE DEF VoteInv
<1>1. ASSUME UNCHANGED <<electionVars, campaignVars, replies, ballots, wins>>
      PROVE  VoteOncePerTerm' /\ VotesLocked' /\ CampaignsBacked' /\ WinsBacked'
  BY <1>1 DEF VoteOncePerTerm, VotesLocked, CampaignsBacked, WinsBacked, electionVars, campaignVars
<1>2. CASE UNCHANGED vars
  BY <1>1, <1>2 DEF vars, netVars, historyVars
<1>3. ASSUME NEW n \in Replicas, CheckSucceeds(n)
      PROVE  VoteOncePerTerm' /\ VotesLocked' /\ CampaignsBacked' /\ WinsBacked'
  BY <1>1, <1>3 DEF CheckSucceeds, netVars, historyVars
<1>4. ASSUME NEW n \in Replicas, CheckFails(n)
      PROVE  VoteOncePerTerm' /\ VotesLocked' /\ CampaignsBacked' /\ WinsBacked'
  <2>1. monitor[n].failures + 1 \in Nat
    BY LongerType DEF TypeOK, Monitors
  <2> QED BY <1>4, <2>1, OnFailureKeepsVotes DEF CheckFails
<1>5. ASSUME NEW n \in Replicas, NEW c \in orphans[n], OrphanCheckFails(n, c)
      PROVE  VoteOncePerTerm' /\ VotesLocked' /\ CampaignsBacked' /\ WinsBacked'
  <2>1. c.failures + 1 \in Nat
    BY LongerType DEF TypeOK, Checks
  <2> QED BY <1>5, <2>1, OnFailureKeepsVotes DEF OrphanCheckFails
<1>6. ASSUME NEW n \in Replicas, NEW c \in orphans[n], OrphanCheckHarmless(n, c)
      PROVE  VoteOncePerTerm' /\ VotesLocked' /\ CampaignsBacked' /\ WinsBacked'
  BY <1>1, <1>6 DEF OrphanCheckHarmless, netVars, historyVars
<1>7. ASSUME NEW m \in requests, GrantVote(m)
      PROVE  VoteOncePerTerm' /\ VotesLocked' /\ CampaignsBacked' /\ WinsBacked'
  <2> DEFINE ballot == [voter |-> m.to, term |-> m.term, candidate |-> m.from]
  <2>1. m.to \in Replicas /\ m.from \in Replicas /\ m.term \in Terms
    BY DEF TypeOK, Requests
  <2>2. /\ ballots' = ballots \cup {ballot}
        /\ replies' \subseteq replies \cup {ballot}
        /\ UNCHANGED campaignVars /\ wins' = wins
    BY <1>7 DEF GrantVote
  <2>3. VoteOncePerTerm' /\ VotesLocked'
    BY <1>7, <2>1, <2>2, VoteKeepsLock DEF GrantVote, VoteGranted
  <2>4. CampaignsBacked'
    BY <2>2 DEF CampaignsBacked, campaignVars
  <2> QED BY <2>2, <2>3, <2>4, WinsStayBacked
<1>8. ASSUME NEW m \in requests, RefuseVote(m)
      PROVE  VoteOncePerTerm' /\ VotesLocked' /\ CampaignsBacked' /\ WinsBacked'
  BY <1>1, <1>8 DEF RefuseVote, historyVars
<1>9. ASSUME NEW n \in Replicas, NEW p \in Replicas, ReceiveGrant(n, p)
      PROVE  VoteOncePerTerm' /\ VotesLocked' /\ CampaignsBacked' /\ WinsBacked'
  <2>1. UNCHANGED <<electionVars, electionInFlight, ballots, wins>> /\ replies' \subseteq replies
    BY <1>9 DEF ReceiveGrant, historyVars
  <2>2. VoteOncePerTerm' /\ VotesLocked' /\ WinsBacked'
    BY <2>1 DEF VoteOncePerTerm, VotesLocked, WinsBacked, electionVars
  <2>3. /\ electionInFlight[n] /\ p \in campaign[n].pending
        /\ [voter |-> p, term |-> campaign[n].term, candidate |-> n] \in ballots
    BY <1>9 DEF ReceiveGrant, CallOpen, CampaignsBacked
  <2>4. /\ campaign'[n] = [term |-> campaign[n].term, pending |-> campaign[n].pending \ {p},
                            grants |-> campaign[n].grants \cup {p}]
        /\ \A k \in Replicas : k # n => campaign'[k] = campaign[k]
    BY <1>9 DEF ReceiveGrant, TypeOK
  <2>5. ASSUME NEW k \in Replicas, electionInFlight'[k]
        PROVE  /\ campaign'[k].pending \cup campaign'[k].grants \subseteq PEER_URLS(k)
               /\ \A v \in campaign'[k].grants \cup {k} :
                      [voter |-> v, term |-> campaign'[k].term, candidate |-> k] \in ballots'
    <3>1. CASE k = n
      BY <3>1, <2>1, <2>3, <2>4 DEF CampaignsBacked
    <3>2. CASE k # n
      BY <3>2, <2>1, <2>4, <2>5 DEF CampaignsBacked
    <3> QED BY <3>1, <3>2
  <2>6. CampaignsBacked'
    BY <2>1, <2>5 DEF CampaignsBacked, PEER_URLS
  <2> QED BY <2>2, <2>6
<1>10. ASSUME NEW n \in Replicas, NEW p \in Replicas, VoteCallFails(n, p)
       PROVE  VoteOncePerTerm' /\ VotesLocked' /\ CampaignsBacked' /\ WinsBacked'
  <2>1. UNCHANGED <<electionVars, electionInFlight, ballots, wins>> /\ replies' \subseteq replies
    BY <1>10 DEF VoteCallFails, historyVars
  <2>2. VoteOncePerTerm' /\ VotesLocked' /\ WinsBacked'
    BY <2>1 DEF VoteOncePerTerm, VotesLocked, WinsBacked, electionVars
  <2>3. \A k \in Replicas : /\ campaign'[k].term = campaign[k].term
                            /\ campaign'[k].grants = campaign[k].grants
                            /\ campaign'[k].pending \subseteq campaign[k].pending
    BY <1>10 DEF VoteCallFails, TypeOK, Campaigns
  <2>4. CampaignsBacked'
    BY <2>1, <2>3 DEF CampaignsBacked, PEER_URLS
  <2> QED BY <2>2, <2>4
<1>11. ASSUME NEW n \in Replicas, CampaignWon(n)
       PROVE  VoteOncePerTerm' /\ VotesLocked' /\ CampaignsBacked' /\ WinsBacked'
  <2>1. UNCHANGED <<electionVars, replies, ballots>>
    BY <1>11 DEF CampaignWon
  <2>2. VoteOncePerTerm' /\ VotesLocked'
    BY <2>1 DEF VoteOncePerTerm, VotesLocked, electionVars
  <2>3. \A k \in Replicas : electionInFlight'[k] => electionInFlight[k] /\ campaign'[k] = campaign[k]
    BY <1>11 DEF CampaignWon, TypeOK
  <2>4. CampaignsBacked'
    BY <2>1, <2>3 DEF CampaignsBacked, PEER_URLS
  <2>5. WinsBacked'
    <3> DEFINE Q == campaign[n].grants \cup {n}
               w0 == [node |-> n, term |-> campaign[n].term]
    <3>1. Q \in SUBSET Replicas
      BY DEF TypeOK, Campaigns
    <3>2. 2 * Cardinality(Q) > Cardinality(Replicas)
      BY <1>11, WonIsMajority DEF CampaignWon
    <3>3. \A v \in Q : [voter |-> v, term |-> w0.term, candidate |-> w0.node] \in ballots
      BY <1>11 DEF CampaignWon, CampaignsBacked
    <3>4. wins' = wins \cup {w0}
      BY <1>11 DEF CampaignWon
    <3> HIDE DEF Q, w0
    <3> QED BY <3>1, <3>2, <3>3, <3>4, <2>1 DEF WinsBacked
  <2> QED BY <2>2, <2>4, <2>5
<1>12. ASSUME NEW n \in Replicas, CampaignLost(n)
       PROVE  VoteOncePerTerm' /\ VotesLocked' /\ CampaignsBacked' /\ WinsBacked'
  <2>1. UNCHANGED <<electionVars, replies, ballots, wins>>
    BY <1>12 DEF CampaignLost, netVars, historyVars
  <2>2. \A k \in Replicas : electionInFlight'[k] => electionInFlight[k] /\ campaign'[k] = campaign[k]
    BY <1>12 DEF CampaignLost, TypeOK
  <2>3. CampaignsBacked'
    BY <2>1, <2>2 DEF CampaignsBacked, PEER_URLS
  <2> QED BY <2>1, <2>3 DEF VoteOncePerTerm, VotesLocked, WinsBacked, electionVars
<1>13. ASSUME NEW a \in announcements, StaleLeader(a)
       PROVE  VoteOncePerTerm' /\ VotesLocked' /\ CampaignsBacked' /\ WinsBacked'
  BY <1>1, <1>13 DEF StaleLeader, historyVars
<1>14. ASSUME NEW a \in announcements, AdoptLeader(a)
       PROVE  VoteOncePerTerm' /\ VotesLocked' /\ CampaignsBacked' /\ WinsBacked'
  <2>1. a.to \in Replicas /\ a.term \in Nat
    BY DEF TypeOK, Announcements, Terms
  <2>2. UNCHANGED <<campaignVars, replies, ballots, wins>>
    BY <1>14 DEF AdoptLeader, historyVars
  <2>3. currentTerm \in [Replicas -> Nat] /\ votedFor \in [Replicas -> Replicas \cup {None}]
    BY DEF TypeOK, Terms
  <2>4. \A b \in ballots : b.voter \in Replicas /\ b.term \in Nat
    BY DEF TypeOK, Ballots, Terms
  <2>5. VotesLocked'
    BY <1>14, <2>1, <2>2, <2>3, <2>4 DEF AdoptLeader, observeTerm, VotesLocked
  <2> QED BY <2>2, <2>5 DEF VoteOncePerTerm, CampaignsBacked, WinsBacked, campaignVars
<1>15. ASSUME NEW n \in Replicas, NEW urls \in {{}, PEER_URLS(n)}, Promote(n, urls)
       PROVE  VoteOncePerTerm' /\ VotesLocked' /\ CampaignsBacked' /\ WinsBacked'
  BY <1>1, <1>15 DEF Promote, netVars, historyVars
<1> QED BY <1>2, <1>3, <1>4, <1>5, <1>6, <1>7, <1>8, <1>9, <1>10, <1>11, <1>12, <1>13,
           <1>14, <1>15 DEF Next

(* Two majorities of the group share a voter, and that voter gave one vote. *)
LEMMA VoteInvImpliesElectionSafety == VoteInv => ElectionSafety
<1> SUFFICES ASSUME VoteInv, NEW w1 \in wins, NEW w2 \in wins, w1.term = w2.term
             PROVE  w1.node = w2.node
  BY DEF ElectionSafety
<1>1. PICK Q1 \in SUBSET Replicas :
          /\ 2 * Cardinality(Q1) > Cardinality(Replicas)
          /\ \A v \in Q1 : [voter |-> v, term |-> w1.term, candidate |-> w1.node] \in ballots
  BY DEF VoteInv, WinsBacked
<1>2. PICK Q2 \in SUBSET Replicas :
          /\ 2 * Cardinality(Q2) > Cardinality(Replicas)
          /\ \A v \in Q2 : [voter |-> v, term |-> w2.term, candidate |-> w2.node] \in ballots
  BY DEF VoteInv, WinsBacked
<1>3. Cardinality(Q1) \in Nat /\ Cardinality(Q2) \in Nat /\ Cardinality(Replicas) \in Nat
  BY ReplicasAssumption, FS_Subset, FS_CardinalityType
<1>4. Cardinality(Q1) + Cardinality(Q2) > Cardinality(Replicas)
  BY <1>1, <1>2, <1>3
<1>5. Q1 \cap Q2 # {}
  BY <1>4, ReplicasAssumption, FS_MajoritiesIntersect
<1>6. PICK v : v \in Q1 /\ v \in Q2
  BY <1>5
<1> QED BY <1>1, <1>2, <1>6 DEF VoteInv, VoteOncePerTerm

(* ElectionState's promise: no replica ever votes for two candidates in one *)
(* term, by whichever of its own candidacy, a request and an announcement   *)
(* the term moved.                                                          *)
THEOREM VoteOncePerTermHolds == Spec => []VoteOncePerTerm
<1>1. VoteInv => VoteOncePerTerm
  BY DEF VoteInv
<1> QED BY <1>1, VoteInit, VoteStep, PTL DEF Spec

(* No two replicas win the same term, whatever calls are lost, late or      *)
(* reordered, as long as no process restarts.                               *)
THEOREM ElectionSafetyHolds == Spec => []ElectionSafety
BY VoteInit, VoteStep, VoteInvImpliesElectionSafety, PTL DEF Spec

-----------------------------------------------------------------------------
(* Following a leader. *)

LEMMA FollowInit == Init => FollowInv
<1> SUFFICES ASSUME Init PROVE FollowInv
  OBVIOUS
<1>1. TypeOK
  BY TypeInit
<1>2. LeadersFollowed
  BY NamesAssumption DEF Init, LeadersFollowed
<1>3. MonitorsItsPrimary
  BY DEF Init, MonitorsItsPrimary
<1> QED BY <1>1, <1>2, <1>3 DEF FollowInv

LEMMA FollowStep == FollowInv /\ [Next]_vars => FollowInv'
<1> SUFFICES ASSUME FollowInv, [Next]_vars PROVE LeadersFollowed' /\ MonitorsItsPrimary'
  BY TypeStep DEF FollowInv
<1> USE DEF FollowInv
<1>1. ASSUME UNCHANGED <<roleVars, monitor, wins>>, announcements' \subseteq announcements
      PROVE  LeadersFollowed' /\ MonitorsItsPrimary'
  BY <1>1 DEF LeadersFollowed, MonitorsItsPrimary, roleVars, PEER_URLS
<1>2. CASE UNCHANGED vars
  BY <1>1, <1>2 DEF vars, netVars, historyVars, monitorVars
<1>3. ASSUME NEW n \in Replicas, CheckSucceeds(n) \/ CheckFails(n)
      PROVE  LeadersFollowed' /\ MonitorsItsPrimary'
  <2>1. UNCHANGED <<roleVars, announcements, wins>>
    BY <1>3 DEF CheckSucceeds, CheckFails, netVars, historyVars
  <2>2. \A k \in Replicas : /\ monitor'[k].running = monitor[k].running
                            /\ monitor'[k].target = monitor[k].target
    <3>1. PICK s : monitor' = [monitor EXCEPT ![n].failures = s]
      BY <1>3 DEF CheckSucceeds, CheckFails
    <3>2. monitor \in [Replicas -> Monitors]
      BY DEF TypeOK
    <3> QED BY <3>1, <3>2 DEF Monitors
  <2> QED BY <2>1, <2>2 DEF LeadersFollowed, MonitorsItsPrimary, roleVars, PEER_URLS
<1>4. ASSUME NEW n \in Replicas, NEW c \in orphans[n],
             OrphanCheckFails(n, c) \/ OrphanCheckHarmless(n, c)
      PROVE  LeadersFollowed' /\ MonitorsItsPrimary'
  BY <1>1, <1>4 DEF OrphanCheckFails, OrphanCheckHarmless, netVars, historyVars
<1>5. ASSUME NEW m \in requests, GrantVote(m)
      PROVE  LeadersFollowed' /\ MonitorsItsPrimary'
  <2>1. UNCHANGED <<PRIMARY_URL, REPLICA_URLS, monitor, announcements, wins>>
    BY <1>5 DEF GrantVote, monitorVars
  <2>2. \A p \in Replicas : ROLE'[p] = "primary" => ROLE[p] = "primary"
    BY <1>5 DEF GrantVote, RoleAfterVote, TypeOK
  <2> QED BY <2>1, <2>2 DEF LeadersFollowed, MonitorsItsPrimary, PEER_URLS
<1>6. ASSUME NEW m \in requests, RefuseVote(m)
      PROVE  LeadersFollowed' /\ MonitorsItsPrimary'
  BY <1>1, <1>6 DEF RefuseVote, monitorVars, historyVars
<1>7. ASSUME NEW n \in Replicas, NEW p \in Replicas, ReceiveGrant(n, p) \/ VoteCallFails(n, p)
      PROVE  LeadersFollowed' /\ MonitorsItsPrimary'
  BY <1>1, <1>7 DEF ReceiveGrant, VoteCallFails, monitorVars, historyVars
<1>8. ASSUME NEW n \in Replicas, CampaignWon(n)
      PROVE  LeadersFollowed' /\ MonitorsItsPrimary'
  <2>1. /\ PRIMARY_URL' = [PRIMARY_URL EXCEPT ![n] = None]
        /\ REPLICA_URLS' = [REPLICA_URLS EXCEPT ![n] = PEER_URLS(n)]
        /\ ROLE' = [ROLE EXCEPT ![n] = "primary"]
        /\ monitor' = [monitor EXCEPT ![n].running = FALSE]
        /\ wins' = wins \cup {[node |-> n, term |-> campaign[n].term]}
        /\ announcements' = announcements \cup
               {[to |-> p, term |-> campaign[n].term, primaryUrl |-> n] : p \in PEER_URLS(n)}
    BY <1>8 DEF CampaignWon, promoteToPrimary, announceLeader
  <2>2. MonitorsItsPrimary'
    BY <2>1 DEF MonitorsItsPrimary, TypeOK
  <2>3. \A a \in announcements' :
            a.to # a.primaryUrl /\ [node |-> a.primaryUrl, term |-> a.term] \in wins'
    <3> SUFFICES ASSUME NEW a \in announcements'
                 PROVE  a.to # a.primaryUrl /\ [node |-> a.primaryUrl, term |-> a.term] \in wins'
      OBVIOUS
    <3>1. CASE a \in announcements
      BY <3>1, <2>1 DEF LeadersFollowed
    <3>2. CASE a \notin announcements
      <4>1. PICK p \in PEER_URLS(n) :
                a = [to |-> p, term |-> campaign[n].term, primaryUrl |-> n]
        BY <3>2, <2>1
      <4> QED BY <4>1, <2>1 DEF PEER_URLS
    <3> QED BY <3>1, <3>2
  <2>4. \A p \in Replicas \ Promotable : ROLE'[p] = "primary" => REPLICA_URLS'[p] = PEER_URLS(p)
    BY <2>1 DEF LeadersFollowed, TypeOK
  <2>5. \A k \in Replicas : PRIMARY_URL'[k] # k
    BY <2>1, NamesAssumption DEF LeadersFollowed, TypeOK
  <2> QED BY <2>2, <2>3, <2>4, <2>5 DEF LeadersFollowed, PEER_URLS
<1>9. ASSUME NEW n \in Replicas, CampaignLost(n)
      PROVE  LeadersFollowed' /\ MonitorsItsPrimary'
  BY <1>1, <1>9 DEF CampaignLost, monitorVars, netVars, historyVars
<1>10. ASSUME NEW a \in announcements, StaleLeader(a)
       PROVE  LeadersFollowed' /\ MonitorsItsPrimary'
  BY <1>1, <1>10 DEF StaleLeader, monitorVars, historyVars
<1>11. ASSUME NEW a \in announcements, AdoptLeader(a)
       PROVE  LeadersFollowed' /\ MonitorsItsPrimary'
  <2>1. a.to \in Replicas /\ a.primaryUrl \in Replicas /\ a.to # a.primaryUrl
    BY DEF TypeOK, Announcements, LeadersFollowed
  <2>2. /\ PRIMARY_URL' = [PRIMARY_URL EXCEPT ![a.to] = a.primaryUrl]
        /\ REPLICA_URLS' = [REPLICA_URLS EXCEPT ![a.to] = {}]
        /\ ROLE' = [ROLE EXCEPT ![a.to] = "replica"]
        /\ monitor' = [monitor EXCEPT ![a.to] =
               [running |-> TRUE, target |-> a.primaryUrl, failures |-> 0]]
        /\ announcements' = announcements \ {a} /\ wins' = wins
    BY <1>11 DEF AdoptLeader, historyVars
  <2>3. MonitorsItsPrimary'
    BY <2>1, <2>2 DEF MonitorsItsPrimary, TypeOK
  <2>4. \A p \in Replicas \ Promotable : ROLE'[p] = "primary" => REPLICA_URLS'[p] = PEER_URLS(p)
    BY <2>1, <2>2 DEF LeadersFollowed, TypeOK
  <2> QED BY <2>1, <2>2, <2>3, <2>4 DEF LeadersFollowed, TypeOK, PEER_URLS
<1>12. ASSUME NEW n \in Replicas, NEW urls \in {{}, PEER_URLS(n)}, Promote(n, urls)
       PROVE  LeadersFollowed' /\ MonitorsItsPrimary'
  <2>1. /\ n \in Promotable
        /\ PRIMARY_URL' = [PRIMARY_URL EXCEPT ![n] = None]
        /\ REPLICA_URLS' = [REPLICA_URLS EXCEPT ![n] = urls]
        /\ ROLE' = [ROLE EXCEPT ![n] = "primary"]
        /\ UNCHANGED <<monitor, announcements, wins>>
    BY <1>12 DEF Promote, promoteToPrimary, monitorVars, netVars, historyVars
  <2>2. MonitorsItsPrimary'
    BY <2>1 DEF MonitorsItsPrimary, TypeOK
  <2>3. \A p \in Replicas \ Promotable : ROLE'[p] = "primary" => REPLICA_URLS'[p] = PEER_URLS(p)
    BY <2>1 DEF LeadersFollowed, TypeOK
  <2>4. \A k \in Replicas : PRIMARY_URL'[k] # k
    BY <2>1, NamesAssumption DEF LeadersFollowed, TypeOK
  <2> QED BY <2>1, <2>2, <2>3, <2>4 DEF LeadersFollowed, PEER_URLS
<1> QED BY <1>2, <1>3, <1>4, <1>5, <1>6, <1>7, <1>8, <1>9, <1>10, <1>11, <1>12 DEF Next

(* A replica that follows a primary watches exactly that primary. *)
THEOREM MonitorsItsPrimaryHolds == Spec => []MonitorsItsPrimary
<1>1. FollowInv => MonitorsItsPrimary
  BY DEF FollowInv
<1> QED BY <1>1, FollowInit, FollowStep, PTL DEF Spec

(* The writes of an elected primary go to every replica that follows it. *)
THEOREM FollowersReceiveWritesHolds == Spec => []FollowersReceiveWrites
<1>1. FollowInv => FollowersReceiveWrites
  BY DEF FollowInv, LeadersFollowed, FollowersReceiveWrites, PEER_URLS
<1> QED BY <1>1, FollowInit, FollowStep, PTL DEF Spec

(* Only POST /election/leader makes a node follow somebody new, and then it *)
(* is the winner of the term the node is in: an announcement that was       *)
(* overtaken by a later term never takes effect.                            *)
THEOREM AdoptsCurrentLeaderHolds == Spec => AdoptsCurrentLeader
<1> DEFINE Adopts ==
      \A n \in Replicas :
          PRIMARY_URL'[n] \notin {PRIMARY_URL[n], None} =>
              [node |-> PRIMARY_URL'[n], term |-> currentTerm'[n]] \in wins
<1>1. FollowInv /\ [Next]_vars => [Adopts]_vars
  <2> SUFFICES ASSUME FollowInv, Next PROVE Adopts
    OBVIOUS
  <2> USE DEF FollowInv
  <2>1. ASSUME UNCHANGED PRIMARY_URL PROVE Adopts
    BY <2>1
  <2>2. ASSUME NEW n \in Replicas, PRIMARY_URL' = [PRIMARY_URL EXCEPT ![n] = None] PROVE Adopts
    BY <2>2 DEF TypeOK
  <2>3. ASSUME NEW a \in announcements, AdoptLeader(a) PROVE Adopts
    <3>1. /\ a.to \in Replicas
          /\ PRIMARY_URL' = [PRIMARY_URL EXCEPT ![a.to] = a.primaryUrl]
          /\ [node |-> a.primaryUrl, term |-> a.term] \in wins
      BY <2>3 DEF AdoptLeader, TypeOK, Announcements, LeadersFollowed
    <3>2. a.term \in Nat /\ currentTerm[a.to] \in Nat
      BY <3>1 DEF TypeOK, Announcements, Terms
    <3>3. currentTerm'[a.to] = a.term
      BY <2>3, <3>1, <3>2 DEF AdoptLeader, IsStale, observeTerm, TypeOK
    <3> QED BY <3>1, <3>3 DEF TypeOK
  <2>4. \/ UNCHANGED PRIMARY_URL
        \/ \E n \in Replicas : PRIMARY_URL' = [PRIMARY_URL EXCEPT ![n] = None]
        \/ \E a \in announcements : AdoptLeader(a)
    BY DEF Next, CheckSucceeds, CheckFails, OrphanCheckFails, OrphanCheckHarmless, GrantVote,
           RefuseVote, ReceiveGrant, VoteCallFails, CampaignWon, CampaignLost, StaleLeader,
           Promote, promoteToPrimary, roleVars
  <2> QED BY <2>1, <2>2, <2>3, <2>4
<1> QED BY <1>1, FollowInit, FollowStep, PTL DEF Spec, AdoptsCurrentLeader

-----------------------------------------------------------------------------
(* Every step of a failover is one of Election: knowing which checks and    *)
(* vote calls can fail, it only takes fewer of them; the end of the         *)
(* disturbance is a stutter.                                                *)
LEMMA FailoverStep == [Step \/ Settle]_failoverVars => [Next]_vars
<1> SUFFICES ASSUME [Step \/ Settle]_failoverVars PROVE [Next]_vars
  OBVIOUS
<1>1. CASE Settle \/ UNCHANGED failoverVars
  BY <1>1 DEF Settle, failoverVars
<1>2. ASSUME NEW n \in Replicas, Check(n) PROVE Next
  BY <1>2 DEF Check, Next
<1>3. ASSUME NEW n \in Replicas, Conclude(n) PROVE Next
  BY <1>3 DEF Conclude, Next
<1>4. ASSUME NEW n \in Replicas, NEW p \in Replicas, Answer(n, p) PROVE Next
  BY <1>4 DEF Answer, Next
<1>5. ASSUME Vote PROVE Next
  BY <1>5 DEF Vote, Next
<1>6. ASSUME Hear PROVE Next
  BY <1>6 DEF Hear, Next
<1>7. ASSUME NEW n \in Replicas, NEW urls \in {{}, PEER_URLS(n)}, Promote(n, urls) PROVE Next
  BY <1>7 DEF Next
<1> QED BY <1>1, <1>2, <1>3, <1>4, <1>5, <1>6, <1>7 DEF Step

(* Every failover is a behaviour of the election, so that all that holds of *)
(* the election's votes, winners and followers holds while a group recovers *)
(* from the death of its primary.                                           *)
THEOREM FailoverImplementsElection == FailoverSpec => Spec
<1>1. [Step \/ Settle]_failoverVars => [Next]_vars
  BY FailoverStep
<1> QED BY <1>1, PTL DEF FailoverSpec, Spec

=============================================================================
