------------------------------ MODULE Election ------------------------------
(***************************************************************************)
(* Automatic primary promotion in a replica group.                         *)
(*                                                                         *)
(*   core/election.ts            the term and the vote of one node         *)
(*   network/election-client.ts  the candidate's calls to its peers        *)
(*   network/app.ts              ROLE, PRIMARY_URL, REPLICA_URLS and the   *)
(*                               /election/* and /promote handlers         *)
(*   network/server.ts           when a node campaigns, what a win does    *)
(*   network/primary-monitor.ts  the streak of failed checks               *)
(*                                                                         *)
(* A replica is named by its SELF_URL, which is also its CANDIDATE_ID.     *)
(* Every replica lists all the other replicas as its peers, the symmetric  *)
(* configuration docs/api.md asks for; those with INKCACHE_AUTO_PROMOTE    *)
(* set may campaign.  The configured primary, Origin, is nobody's peer: it    *)
(* never votes and is never told of an election, so it appears only as the *)
(* target of health checks.                                                *)
(*                                                                         *)
(* Calls between nodes are asynchronous: a request that was sent may be    *)
(* handled at any later time (also after the caller gave up on it), in any *)
(* order, or never.  A handler runs to completion, as in Node.js.          *)
(***************************************************************************)
EXTENDS Naturals, FiniteSets

CONSTANTS
    Replicas,    \* the replicas of the group, the voters of every election
    Origin,      \* the primary the replicas are configured with
    None,        \* JavaScript's undefined
    AutoPromote, \* the replicas with INKCACHE_AUTO_PROMOTE=true
    Threshold,   \* INKCACHE_AUTO_PROMOTE_THRESHOLD
    MaxTerm,     \* bound: no campaign starts beyond this term
    Promotable   \* the replicas an operator may promote by POST /promote

ASSUME ReplicasAssumption == IsFiniteSet(Replicas)
ASSUME NamesAssumption == Origin # None /\ Origin \notin Replicas /\ None \notin Replicas
ASSUME BoundsAssumption == Threshold \in Nat \ {0} /\ MaxTerm \in Nat
ASSUME AutoPromoteAssumption == AutoPromote \subseteq Replicas
ASSUME PromotableAssumption == Promotable \subseteq Replicas

VARIABLES
    currentTerm,       \* ElectionState.currentTerm
    votedFor,          \* ElectionState.votedFor
    ROLE,              \* "primary" or "replica"
    PRIMARY_URL,       \* the primary this node follows, or None
    REPLICA_URLS,      \* the nodes this node forwards its writes to
    electionInFlight,  \* the re-entrance guard of campaignForPrimary()
    campaign,          \* the runElection() in flight: its term, the calls still
                       \* open, the peers whose answer was a granted vote
    monitor,           \* primaryMonitorHandle: running?, target, streak
    orphans,           \* checks of stopped monitors that may be under way
    requests,          \* POST /election/request-vote on the wire
    replies,           \* answers with voteGranted, on the way back
    announcements,     \* POST /election/leader on the wire
    ballots,           \* history: every vote ever given
    wins               \* history: every election ever won

electionVars == <<currentTerm, votedFor>>
roleVars == <<ROLE, PRIMARY_URL, REPLICA_URLS>>
campaignVars == <<electionInFlight, campaign>>
monitorVars == <<monitor, orphans>>
netVars == <<requests, replies, announcements>>
historyVars == <<ballots, wins>>
vars == <<electionVars, roleVars, campaignVars, monitorVars, netVars, historyVars>>

-----------------------------------------------------------------------------

Terms == 0 .. MaxTerm
Urls == Replicas \cup {Origin}
Requests == [from : Replicas, to : Replicas, term : Terms]
Ballots == [voter : Replicas, term : Terms, candidate : Replicas]
Announcements == [to : Replicas, term : Terms, primaryUrl : Replicas]
Wins == [node : Replicas, term : Terms]
Campaigns == [term : Terms, pending : SUBSET Replicas, grants : SUBSET Replicas]
Streaks == 0 .. Threshold - 1
Monitors == [running : BOOLEAN, target : Urls, failures : Streaks]
Checks == [target : Urls, failures : Streaks]

(* No campaign in flight: runElection()'s locals are gone. *)
NoCampaign == [term |-> 0, pending |-> {}, grants |-> {}]

(* Mutant: the primary the node is configured with is among its peers. *)
PEER_URLSWithOrigin(n) == Urls \ {n}

(* INKCACHE_PEER_URLS: every other replica of the group. *)
PEER_URLS(n) == Replicas \ {n}

(* Mutant: half of the nodes, rounded down, wins. *)
hasMajorityRounded(votes, totalNodes) == votes >= totalNodes \div 2

(* A tie is not a majority. *)
hasMajority(votes, totalNodes) == 2 * votes > totalNodes

-----------------------------------------------------------------------------

(* start() of a replica: it follows the configured primary and watches it. *)
Init ==
    /\ currentTerm = [n \in Replicas |-> 0]
    /\ votedFor = [n \in Replicas |-> None]
    /\ ROLE = [n \in Replicas |-> "replica"]
    /\ PRIMARY_URL = [n \in Replicas |-> Origin]
    /\ REPLICA_URLS = [n \in Replicas |-> {}]
    /\ electionInFlight = [n \in Replicas |-> FALSE]
    /\ campaign = [n \in Replicas |-> NoCampaign]
    /\ monitor = [n \in Replicas |-> [running |-> TRUE, target |-> Origin, failures |-> 0]]
    /\ orphans = [n \in Replicas |-> {}]
    /\ requests = {}
    /\ replies = {}
    /\ announcements = {}
    /\ ballots = {}
    /\ wins = {}

-----------------------------------------------------------------------------
(* The liveness monitor and the start of a campaign. *)

(* The next length of a streak of failures.  Threshold - 1 stands for every *)
(* longer one as well: for all of them the next failure starts a campaign.  *)
Longer(streak) == IF streak + 1 < Threshold THEN streak + 1 ELSE streak

(* ElectionState.startElection(): the next term, with a vote for oneself. *)
startElection(n) ==
    /\ currentTerm[n] < MaxTerm
    /\ currentTerm' = [currentTerm EXCEPT ![n] = @ + 1]
    /\ votedFor' = [votedFor EXCEPT ![n] = n]
    /\ ballots' = ballots \cup {[voter |-> n, term |-> currentTerm[n] + 1, candidate |-> n]}

(* campaignForPrimary() up to the await in runElection(): one request to    *)
(* each peer, in parallel.  A campaign already in flight makes it a no-op.  *)
campaignForPrimary(n) ==
    \/ /\ electionInFlight[n]
       /\ UNCHANGED <<electionVars, campaignVars, requests, ballots>>
    \/ /\ ~electionInFlight[n]
       /\ startElection(n)
       /\ electionInFlight' = [electionInFlight EXCEPT ![n] = TRUE]
       /\ campaign' = [campaign EXCEPT ![n] =
              [term |-> currentTerm[n] + 1, pending |-> PEER_URLS(n), grants |-> {}]]
       /\ requests' = requests \cup
              {[from |-> n, to |-> p, term |-> currentTerm[n] + 1] : p \in PEER_URLS(n)}

(* The onFailure callback attachPrimaryMonitor() hands to the monitor. *)
onFailure(n, failures) ==
    IF n \notin AutoPromote \/ failures < Threshold
    THEN UNCHANGED <<electionVars, campaignVars, requests, ballots>>
    ELSE campaignForPrimary(n)

(* check() of the current monitor: the ping succeeded. *)
CheckSucceeds(n) ==
    /\ monitor[n].running
    /\ monitor' = [monitor EXCEPT ![n].failures = 0]
    /\ UNCHANGED <<electionVars, roleVars, campaignVars, orphans, netVars, historyVars>>

(* check() of the current monitor: the ping failed or timed out. *)
CheckFails(n) ==
    /\ monitor[n].running
    /\ monitor' = [monitor EXCEPT ![n].failures = Longer(@)]
    /\ onFailure(n, monitor[n].failures + 1)
    /\ UNCHANGED <<roleVars, orphans, replies, announcements, wins>>

(* stop() only clears the interval: the check that was under way still      *)
(* ends, with the streak of the stopped monitor, and may call onFailure.    *)
OrphanCheckFails(n, c) ==
    /\ c \in orphans[n]
    /\ orphans' = [orphans EXCEPT ![n] = @ \ {c}]
    /\ onFailure(n, c.failures + 1)
    /\ UNCHANGED <<roleVars, monitor, replies, announcements, wins>>

(* It succeeded, or no check was under way when the monitor was stopped. *)
OrphanCheckHarmless(n, c) ==
    /\ c \in orphans[n]
    /\ orphans' = [orphans EXCEPT ![n] = @ \ {c}]
    /\ UNCHANGED <<electionVars, roleVars, campaignVars, monitor, netVars, historyVars>>

(* The checks left behind once the current monitor is stopped. *)
OrphansAfterStop(n) ==
    orphans[n] \cup (IF monitor[n].running
                     THEN {[target |-> monitor[n].target, failures |-> monitor[n].failures]}
                     ELSE {})

-----------------------------------------------------------------------------
(* The voter: POST /election/request-vote. *)

(* Mutant: the vote lock is not looked at. *)
VoteGrantedUnlocked(v, term, candidate) == term >= currentTerm[v]

(* ElectionState.requestVote(): a newer term resets the vote lock, within   *)
(* the current term only the candidate already voted for is granted again.  *)
VoteGranted(v, term, candidate) ==
    \/ term > currentTerm[v]
    \/ term = currentTerm[v] /\ votedFor[v] \in {None, candidate}

(* A primary that votes in a newer term steps down; it keeps PRIMARY_URL    *)
(* and REPLICA_URLS, and starts no monitor.                                 *)
RoleAfterVote(v, term) ==
    IF term > currentTerm[v] THEN "replica" ELSE ROLE[v]

(* The call of candidate n to peer p, made for the given term, is open. *)
CallOpen(n, p, term) ==
    electionInFlight[n] /\ campaign[n].term = term /\ p \in campaign[n].pending

GrantVote(m) ==
    LET ballot == [voter |-> m.to, term |-> m.term, candidate |-> m.from] IN
    /\ m \in requests
    /\ VoteGranted(m.to, m.term, m.from)
    /\ requests' = requests \ {m}
    /\ currentTerm' = [currentTerm EXCEPT ![m.to] = m.term]
    /\ votedFor' = [votedFor EXCEPT ![m.to] = m.from]
    /\ ROLE' = [ROLE EXCEPT ![m.to] = RoleAfterVote(m.to, m.term)]
    /\ ballots' = ballots \cup {ballot}
    /\ replies' = IF CallOpen(m.from, m.to, m.term) THEN replies \cup {ballot} ELSE replies
    /\ UNCHANGED <<PRIMARY_URL, REPLICA_URLS, campaignVars, monitorVars, announcements, wins>>

(* A refusal changes nothing at the voter; for the candidate it is one of   *)
(* the ways in which its call brings no vote (VoteCallFails).               *)
RefuseVote(m) ==
    /\ m \in requests
    /\ ~VoteGranted(m.to, m.term, m.from)
    /\ requests' = requests \ {m}
    /\ UNCHANGED <<electionVars, roleVars, campaignVars, monitorVars,
                   replies, announcements, historyVars>>

-----------------------------------------------------------------------------
(* The candidate: requestVoteFrom(), runElection() and what follows them. *)

(* A granted vote arrives before the call's timeout. *)
ReceiveGrant(n, p) ==
    LET ballot == [voter |-> p, term |-> campaign[n].term, candidate |-> n] IN
    /\ CallOpen(n, p, campaign[n].term)
    /\ ballot \in replies
    /\ replies' = replies \ {ballot}
    /\ campaign' = [campaign EXCEPT ![n] =
           [term |-> @.term, pending |-> @.pending \ {p}, grants |-> @.grants \cup {p}]]
    /\ UNCHANGED <<electionVars, roleVars, electionInFlight, monitorVars,
                   requests, announcements, historyVars>>

(* Mutant: no abort timer, the call waits for the peer to handle it. *)
VoteCallFailsUntimed(n, p) ==
    /\ CallOpen(n, p, campaign[n].term)
    /\ [from |-> n, to |-> p, term |-> campaign[n].term] \notin requests
    /\ campaign' = [campaign EXCEPT ![n].pending = @ \ {p}]
    /\ replies' = replies \ {[voter |-> p, term |-> campaign[n].term, candidate |-> n]}
    /\ UNCHANGED <<electionVars, roleVars, electionInFlight, monitorVars,
                   requests, announcements, historyVars>>

(* Refused, unreachable, malformed or timed out: no vote.  The abort timer  *)
(* makes this possible whatever the peer did; an answer is lost with it.    *)
VoteCallFails(n, p) ==
    /\ CallOpen(n, p, campaign[n].term)
    /\ campaign' = [campaign EXCEPT ![n].pending = @ \ {p}]
    /\ replies' = replies \ {[voter |-> p, term |-> campaign[n].term, candidate |-> n]}
    /\ UNCHANGED <<electionVars, roleVars, electionInFlight, monitorVars,
                   requests, announcements, historyVars>>

Won(n) == hasMajority(1 + Cardinality(campaign[n].grants), Cardinality(PEER_URLS(n)) + 1)

(* Mutants: the old primary stays in PRIMARY_URL; the replicas are not set. *)
promoteToPrimaryStillFollowing(n, replicaUrls) ==
    /\ ROLE' = [ROLE EXCEPT ![n] = "primary"]
    /\ REPLICA_URLS' = [REPLICA_URLS EXCEPT ![n] = replicaUrls]
    /\ UNCHANGED PRIMARY_URL
promoteToPrimaryAlone(n, replicaUrls) ==
    /\ ROLE' = [ROLE EXCEPT ![n] = "primary"]
    /\ PRIMARY_URL' = [PRIMARY_URL EXCEPT ![n] = None]
    /\ REPLICA_URLS' = [REPLICA_URLS EXCEPT ![n] = {}]

(* promoteToPrimary(); its guard, ROLE[n] # "primary", is the caller's. *)
promoteToPrimary(n, replicaUrls) ==
    /\ ROLE' = [ROLE EXCEPT ![n] = "primary"]
    /\ PRIMARY_URL' = [PRIMARY_URL EXCEPT ![n] = None]
    /\ REPLICA_URLS' = [REPLICA_URLS EXCEPT ![n] = replicaUrls]

(* announceLeader(): one fire-and-forget call per peer. *)
announceLeader(n) ==
    announcements' = announcements \cup
        {[to |-> p, term |-> campaign[n].term, primaryUrl |-> n] : p \in PEER_URLS(n)}

(* The rest of campaignForPrimary(), once every call has been settled.  The *)
(* node's term may have moved on since; the code does not look.             *)
CampaignWon(n) ==
    /\ electionInFlight[n]
    /\ campaign[n].pending = {}
    /\ Won(n)
    /\ ROLE[n] # "primary"
    /\ promoteToPrimary(n, PEER_URLS(n))
    /\ announceLeader(n)
    /\ orphans' = [orphans EXCEPT ![n] = OrphansAfterStop(n)]
    /\ monitor' = [monitor EXCEPT ![n].running = FALSE]
    /\ electionInFlight' = [electionInFlight EXCEPT ![n] = FALSE]
    /\ campaign' = [campaign EXCEPT ![n] = NoCampaign]
    /\ wins' = wins \cup {[node |-> n, term |-> campaign[n].term]}
    /\ UNCHANGED <<electionVars, requests, replies, ballots>>

(* Mutant: no finally block on the losing path. *)
CampaignLostStuck(n) ==
    /\ electionInFlight[n]
    /\ campaign[n].pending = {}
    /\ ~Won(n) \/ ROLE[n] = "primary"
    /\ campaign' = [campaign EXCEPT ![n] = NoCampaign]
    /\ UNCHANGED <<electionVars, electionInFlight, roleVars, monitorVars, netVars, historyVars>>

(* Too few votes, or an operator promoted this node in the meantime. *)
CampaignLost(n) ==
    /\ electionInFlight[n]
    /\ campaign[n].pending = {}
    /\ ~Won(n) \/ ROLE[n] = "primary"
    /\ electionInFlight' = [electionInFlight EXCEPT ![n] = FALSE]
    /\ campaign' = [campaign EXCEPT ![n] = NoCampaign]
    /\ UNCHANGED <<electionVars, roleVars, monitorVars, netVars, historyVars>>

-----------------------------------------------------------------------------
(* POST /election/leader and POST /promote. *)

(* Mutant: every announcement is believed. *)
IsStaleNever(a) == FALSE

IsStale(a) == a.term < currentTerm[a.to]

(* ElectionState.observeTerm(): only a newer term is taken over. *)
observeTerm(n, term, candidateId) ==
    /\ currentTerm' = [currentTerm EXCEPT ![n] = IF term > @ THEN term ELSE @]
    /\ votedFor' = [votedFor EXCEPT ![n] = IF term > currentTerm[n] THEN candidateId ELSE @]

(* A stale announcement is answered with 409. *)
StaleLeader(a) ==
    /\ a \in announcements
    /\ IsStale(a)
    /\ announcements' = announcements \ {a}
    /\ UNCHANGED <<electionVars, roleVars, campaignVars, monitorVars,
                   requests, replies, historyVars>>

(* observeTerm(), the new role, and onLeaderElected: a fresh monitor on the *)
(* new primary (the re-sync of the data is not part of this module).        *)
AdoptLeader(a) ==
    LET n == a.to IN
    /\ a \in announcements
    /\ ~IsStale(a)
    /\ announcements' = announcements \ {a}
    /\ observeTerm(n, a.term, a.primaryUrl)
    /\ ROLE' = [ROLE EXCEPT ![n] = "replica"]
    /\ PRIMARY_URL' = [PRIMARY_URL EXCEPT ![n] = a.primaryUrl]
    /\ REPLICA_URLS' = [REPLICA_URLS EXCEPT ![n] = {}]
    /\ orphans' = [orphans EXCEPT ![n] = OrphansAfterStop(n)]
    /\ monitor' = [monitor EXCEPT ![n] =
           [running |-> TRUE, target |-> a.primaryUrl, failures |-> 0]]
    /\ UNCHANGED <<campaignVars, requests, replies, historyVars>>

(* POST /promote leaves the term alone and the monitor running. *)
Promote(n, replicaUrls) ==
    /\ n \in Promotable
    /\ ROLE[n] # "primary"
    /\ promoteToPrimary(n, replicaUrls)
    /\ UNCHANGED <<electionVars, campaignVars, monitorVars, netVars, historyVars>>

-----------------------------------------------------------------------------

Next ==
    \/ \E n \in Replicas : CheckSucceeds(n)
    \/ \E n \in Replicas : CheckFails(n)
    \/ \E n \in Replicas : \E c \in orphans[n] : OrphanCheckFails(n, c)
    \/ \E n \in Replicas : \E c \in orphans[n] : OrphanCheckHarmless(n, c)
    \/ \E m \in requests : GrantVote(m)
    \/ \E m \in requests : RefuseVote(m)
    \/ \E n, p \in Replicas : ReceiveGrant(n, p)
    \/ \E n, p \in Replicas : VoteCallFails(n, p)
    \/ \E n \in Replicas : CampaignWon(n)
    \/ \E n \in Replicas : CampaignLost(n)
    \/ \E a \in announcements : StaleLeader(a)
    \/ \E a \in announcements : AdoptLeader(a)
    \/ \E n \in Replicas : \E urls \in {{}, PEER_URLS(n)} : Promote(n, urls)

Spec == Init /\ [][Next]_vars

-----------------------------------------------------------------------------

(* The type invariant. *)
TypeOK ==
    /\ currentTerm \in [Replicas -> Terms]
    /\ votedFor \in [Replicas -> Replicas \cup {None}]
    /\ ROLE \in [Replicas -> {"primary", "replica"}]
    /\ PRIMARY_URL \in [Replicas -> Urls \cup {None}]
    /\ REPLICA_URLS \in [Replicas -> SUBSET Replicas]
    /\ electionInFlight \in [Replicas -> BOOLEAN]
    /\ campaign \in [Replicas -> Campaigns]
    /\ monitor \in [Replicas -> Monitors]
    /\ orphans \in [Replicas -> SUBSET Checks]
    /\ requests \subseteq Requests
    /\ replies \subseteq Ballots
    /\ announcements \subseteq Announcements
    /\ ballots \subseteq Ballots
    /\ wins \subseteq Wins

(* core/election.ts: "within a single term, this state grants a yes vote to *)
(* at most one distinct candidate", over all the ways the term can move:    *)
(* its own candidacy, a vote request, a leader's announcement.              *)
VoteOncePerTerm ==
    \A b1, b2 \in ballots :
        b1.voter = b2.voter /\ b1.term = b2.term => b1.candidate = b2.candidate

(* docs/api.md: "two replicas racing to promote at once cannot both win":   *)
(* a term has at most one winner, whatever is lost, late or reordered.      *)
ElectionSafety ==
    \A w1, w2 \in wins : w1.term = w2.term => w1.node = w2.node

(* attachPrimaryMonitor(): a node that follows a primary watches that very  *)
(* primary, through every promotion and every change of leader.             *)
MonitorsItsPrimary ==
    \A n \in Replicas :
        PRIMARY_URL[n] # None => monitor[n].running /\ monitor[n].target = PRIMARY_URL[n]

(* A node that follows an elected, reigning primary is among the nodes that *)
(* primary forwards its writes to (an operator may choose otherwise).       *)
FollowersReceiveWrites ==
    \A n \in Replicas, p \in Replicas \ Promotable :
        PRIMARY_URL[n] = p /\ ROLE[p] = "primary" => n \in REPLICA_URLS[p]

(* POST /election/leader: a late announcement never makes a node follow a   *)
(* deposed leader: whoever it newly adopts won the term it is in then.      *)
AdoptsCurrentLeader ==
    [][\A n \in Replicas :
          PRIMARY_URL'[n] \notin {PRIMARY_URL[n], None} =>
              [node |-> PRIMARY_URL'[n], term |-> currentTerm'[n]] \in wins]_vars

-----------------------------------------------------------------------------
(* The inductive strengthening behind ElectionSafety: a vote given in a     *)
(* term is locked in while the term lasts, ...                              *)
VotesLocked ==
    \A b \in ballots :
        /\ b.term <= currentTerm[b.voter]
        /\ b.term = currentTerm[b.voter] => votedFor[b.voter] = b.candidate

(* ... a candidate counts nothing but votes that were really given to it    *)
(* for the term it campaigns in, ...                                        *)
CampaignsBacked ==
    /\ replies \subseteq ballots
    /\ \A n \in Replicas : electionInFlight[n] =>
           /\ campaign[n].pending \cup campaign[n].grants \subseteq PEER_URLS(n)
           /\ \A v \in campaign[n].grants \cup {n} :
                  [voter |-> v, term |-> campaign[n].term, candidate |-> n] \in ballots

(* ... and so there is a majority behind every election won.                *)
WinsBacked ==
    \A w \in wins : \E Q \in SUBSET Replicas :
        /\ 2 * Cardinality(Q) > Cardinality(Replicas)
        /\ \A v \in Q : [voter |-> v, term |-> w.term, candidate |-> w.node] \in ballots

(* Everything a campaign relies on, as one inductive invariant. *)
VoteInv == TypeOK /\ VoteOncePerTerm /\ VotesLocked /\ CampaignsBacked /\ WinsBacked

(* What the adoption of leaders relies on: announcements come from winners, *)
(* an elected primary forwards to all its peers, nobody follows itself.     *)
LeadersFollowed ==
    /\ \A a \in announcements :
           a.to # a.primaryUrl /\ [node |-> a.primaryUrl, term |-> a.term] \in wins
    /\ \A p \in Replicas \ Promotable :
           ROLE[p] = "primary" => REPLICA_URLS[p] = PEER_URLS(p)
    /\ \A n \in Replicas : PRIMARY_URL[n] # n

FollowInv == TypeOK /\ LeadersFollowed /\ MonitorsItsPrimary

-----------------------------------------------------------------------------

(* campaignForPrimary() always gets to its finally block: no peer, however  *)
(* dead or slow, can leave electionInFlight set, which would silence every  *)
(* later campaign of this node.                                             *)
CampaignEnds ==
    \A n \in Replicas : electionInFlight[n] ~> ~electionInFlight[n]

(* Nothing is under way between the replicas any more. *)
Quiet ==
    /\ requests = {} /\ replies = {} /\ announcements = {}
    /\ \A n \in Replicas : ~electionInFlight[n]

(* network/app.ts, above /election/request-vote: "at most one primary can   *)
(* exist once every voter that matters has weighed in on the current term". *)
OnePrimaryOnceSettled ==
    Quiet /\ (\A m, n \in Replicas : currentTerm[m] = currentTerm[n]) =>
        \A m, n \in Replicas : ROLE[m] = "primary" /\ ROLE[n] = "primary" => m = n

=============================================================================
