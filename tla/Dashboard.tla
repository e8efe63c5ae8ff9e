----------------------------- MODULE Dashboard -----------------------------
(***************************************************************************)
(* The console page of the dashboard (pages/Dashboard.tsx) and one cache   *)
(* node.  The page polls the node's counters (useNode), fetches the keys   *)
(* anew when the counters say something was written (useKeyStats), sends   *)
(* synthetic traffic (simulator), and can be left and opened again while   *)
(* calls are out: what they bring then finds another page, or none.  (The  *)
(* home page polls in the same way; here it is not opened in between.)     *)
(* Every call of lib/api.ts is a fetch without a timeout:                  *)
(* it is sent, the node handles it or not, and it settles later, in any    *)
(* order.  The console and the flush button are clients of the node like   *)
(* any other, but for the poll they ask for when a command is done.        *)
(*                                                                         *)
(* Of a store the model has the counters of /metrics; the keys that        *)
(* /keys/stats lists are the counters at the time it was answered.         *)
(***************************************************************************)
EXTENDS Integers, Sequences, SequencesExt

CONSTANTS
    MaxChanges,    \* bound: sets and deletes of one process of the node
    MaxEvictions,  \* bound: evictions of one process of the node
    MaxRestarts,   \* bound: restarts of the node
    MaxPages,      \* bound: how often the page is opened
    MaxPolls,      \* bound: polls in flight
    MaxFetches,    \* bound: fetches of the keys in flight
    MaxCalls       \* bound: requests of the simulator in flight

ASSUME DashboardAssumption ==
    {MaxChanges, MaxEvictions, MaxRestarts, MaxPages, MaxPolls, MaxFetches, MaxCalls} \subseteq Nat

VARIABLES
    node,          \* [epoch, changes, evictions]: its process and /metrics
    page,          \* the page opened last; pages are numbered
    mounted,       \* it is open
    status,        \* of the open page
    seen,          \* for each page, the last answer taken in, or None
    polls,         \* tick() awaiting fetchMetrics(), oldest first: [page, answer]
    keyStats,      \* the counters when the keys were listed, or None
    fetches,       \* fetchKeyStats() in flight, oldest first
    timer,         \* of the simulator: a module variable, like inFlight
    inFlight,
    calls,         \* fireOnce() awaiting its answer, oldest first
    tokenEpoch,    \* history: the process whose counters last changed the token
    first,         \* history: for each page, the evictions at its first answer
    reports,       \* history: the evictions reported in the log
    again,         \* history: pages that reported an eviction they had reported
    overtaken      \* history: pages that took in an answer after a newer one

pageView == <<page, mounted, status>>
reportView == <<seen, first, reports, again, overtaken>>
keyView == <<keyStats, fetches, tokenEpoch>>
traffic == <<timer, inFlight, calls>>
vars == <<node, pageView, polls, reportView, keyView, traffic>>

Pages == 1 .. MaxPages

None == [epoch |-> -1, changes |-> 0, evictions |-> 0]
Sent == [epoch |-> -2, changes |-> 0, evictions |-> 0]
Failed == [epoch |-> -3, changes |-> 0, evictions |-> 0]

Answered(a) == a.epoch >= 0

Open(p) == mounted /\ p = page

(* What the open page has taken in. *)
metrics == IF mounted THEN seen[page] ELSE None

-----------------------------------------------------------------------------
(* useKeyStats(). *)

(* Dashboard(): "Any write-ish op invalidates the key views". *)
keyRefreshToken(m) == m.changes + m.evictions

(* Mutant: the cleanup forgets to cancel. *)
cancelledNone == fetches

(* The cleanup of the effect, for the next token or when the page is left.  *)
cancelled == [i \in DOMAIN fetches |-> [fetches[i] EXCEPT !.cancelled = TRUE]]

(* The effect, run when the token is another than at the last render. *)
useKeyStats(m) ==
    IF keyRefreshToken(m) = keyRefreshToken(metrics) THEN UNCHANGED keyView
    ELSE /\ Len(fetches) < MaxFetches
         /\ fetches' = Append(cancelled, [cancelled |-> FALSE, answer |-> Sent])
         /\ tokenEpoch' = m.epoch
         /\ UNCHANGED keyStats

(* then() and catch(): a failure shows no keys until the token changes. *)
KeyStatsSettle(i) ==
    /\ fetches[i].answer # Sent
    /\ fetches' = RemoveAt(fetches, i)
    /\ keyStats' = IF fetches[i].cancelled THEN keyStats
                   ELSE IF Answered(fetches[i].answer) THEN fetches[i].answer ELSE None
    /\ UNCHANGED <<node, pageView, polls, reportView, tokenEpoch, traffic>>

-----------------------------------------------------------------------------
(* useNode(). *)

(* tick() up to its await: by the interval, or by refreshNow(). *)
Ticked(p) == polls' = Append(polls, [page |-> p, answer |-> Sent])

Tick ==
    /\ mounted /\ Len(polls) < MaxPolls
    /\ Ticked(page)
    /\ UNCHANGED <<node, pageView, reportView, keyView, traffic>>

(* Mutant: what is counted at the first poll is reported too. *)
evictedSinceStart(p, m) == seen[p].evictions + 1 .. m.evictions

(* "lru evicted n keys (total t)": the evictions t - n + 1 .. t. *)
evicted(p, m) == IF seen[p] = None THEN {} ELSE seen[p].evictions + 1 .. m.evictions

(* The history of a page that takes in an answer. *)
Noted(p, m) ==
    LET reported == {e \in evicted(p, m) : \E r \in reports : r.page = p /\ r.eviction = e} IN
    /\ first' = IF seen[p] = None THEN [first EXCEPT ![p] = m.evictions] ELSE first
    /\ reports' = reports \cup
           {[page |-> p, eviction |-> e, late |-> ~Open(p)] : e \in evicted(p, m)}
    /\ again' = IF reported # {} THEN again \cup {p} ELSE again
    /\ overtaken' = IF keyRefreshToken(m) < keyRefreshToken(seen[p])
                    THEN overtaken \cup {p} ELSE overtaken

(* tick() behind its await.  Nothing cancels it: a page that was left takes *)
(* the answer in as well, and reports, but shows nothing.                   *)
TickSucceeds(i) ==
    LET p == polls[i].page
        m == polls[i].answer IN
    /\ Answered(m)
    /\ polls' = RemoveAt(polls, i)
    /\ seen' = [seen EXCEPT ![p] = m]
    /\ Noted(p, m)
    /\ \/ Open(p) /\ status' = "online" /\ useKeyStats(m)
       \/ ~Open(p) /\ UNCHANGED <<status, keyView>>
    /\ UNCHANGED <<node, page, mounted, traffic>>

TickFails(i) ==
    /\ polls[i].answer = Failed
    /\ polls' = RemoveAt(polls, i)
    /\ status' = IF Open(polls[i].page) THEN "offline" ELSE status
    /\ UNCHANGED <<node, page, mounted, reportView, keyView, traffic>>

-----------------------------------------------------------------------------
(* lib/simulator.ts *)

(* An operation on its way to the node: a set or a delete, or one that the  *)
(* token does not count (a get, a flush, an invalidation).                  *)
Ops == {"change", "uncounted"}

(* fire() up to the await in fireOnce(). *)
fire(op) ==
    /\ timer /\ ~inFlight
    /\ Len(calls) < MaxCalls
    /\ inFlight' = TRUE
    /\ calls' = Append(calls, op)
    /\ UNCHANGED <<node, pageView, polls, reportView, keyView, timer>>

(* Mutant: the one that is out is given up. *)
stopSimulatorAfresh == timer' = FALSE /\ inFlight' = FALSE

stopSimulator == timer' = FALSE /\ inFlight' = inFlight

(* The switch and the key "s", on the page only. *)
toggleSimulator ==
    /\ mounted
    /\ IF timer THEN stopSimulator ELSE timer' = TRUE /\ UNCHANGED inFlight
    /\ UNCHANGED <<node, pageView, polls, reportView, keyView, calls>>

(* fireOnce() behind its await, its catch, and the finally of fire(). *)
SimSettles(i) ==
    /\ calls[i] \notin Ops
    /\ timer' = (timer /\ calls[i] = "ok")
    /\ inFlight' = FALSE
    /\ calls' = RemoveAt(calls, i)
    /\ UNCHANGED <<node, pageView, polls, reportView, keyView>>

-----------------------------------------------------------------------------
(* The page. *)

(* The first effects of useNode() and useKeyStats(). *)
Mount ==
    /\ ~mounted /\ page < MaxPages
    /\ Len(polls) < MaxPolls /\ Len(fetches) < MaxFetches
    /\ mounted' = TRUE /\ page' = page + 1
    /\ Ticked(page + 1)
    /\ fetches' = Append(fetches, [cancelled |-> FALSE, answer |-> Sent])
    /\ UNCHANGED <<node, status, reportView, keyStats, tokenEpoch, traffic>>

(* The cleanups: the poll timer, the key view, the simulator. *)
Unmount ==
    /\ mounted
    /\ mounted' = FALSE /\ status' = "connecting"
    /\ keyStats' = None /\ fetches' = cancelled
    /\ tokenEpoch' = -1
    /\ stopSimulator
    /\ UNCHANGED <<node, page, polls, reportView, calls>>

-----------------------------------------------------------------------------
(* The node and the network. *)

(* What handling op does to the counters of /metrics: a set may evict, and  *)
(* POST /restore and replicated sets evict without being counted.           *)
Handled(op) ==
    IF op = "change"
    THEN {[node EXCEPT !.changes = @ + 1, !.evictions = @ + e] : e \in {0, 1}}
    ELSE {[node EXCEPT !.evictions = n] : n \in node.evictions .. MaxEvictions}

Handles(op) ==
    /\ node' \in Handled(op)
    /\ node'.changes <= MaxChanges /\ node'.evictions <= MaxEvictions

AnswerCall(i) ==
    /\ calls[i] \in Ops
    /\ Handles(calls[i])
    /\ calls' = [calls EXCEPT ![i] = "ok"]
    /\ UNCHANGED <<pageView, polls, reportView, keyView, timer, inFlight>>

(* The console, the flush button, another client, or the primary. *)
OtherClient(op) ==
    /\ Handles(op)
    /\ UNCHANGED <<pageView, polls, reportView, keyView, traffic>>

AnswerPoll(i) ==
    /\ polls[i].answer = Sent
    /\ polls' = [polls EXCEPT ![i].answer = node]
    /\ UNCHANGED <<node, pageView, reportView, keyView, traffic>>

AnswerFetch(i) ==
    /\ fetches[i].answer = Sent
    /\ fetches' = [fetches EXCEPT ![i].answer = node]
    /\ UNCHANGED <<node, pageView, polls, reportView, keyStats, tokenEpoch, traffic>>

(* A request or its answer is lost, or the answer is an error. *)
CallFails(i) ==
    /\ calls[i] # "failed"
    /\ calls' = [calls EXCEPT ![i] = "failed"]
    /\ UNCHANGED <<node, pageView, polls, reportView, keyView, timer, inFlight>>

PollFails(i) ==
    /\ polls[i].answer # Failed
    /\ polls' = [polls EXCEPT ![i].answer = Failed]
    /\ UNCHANGED <<node, pageView, reportView, keyView, traffic>>

FetchFails(i) ==
    /\ fetches[i].answer # Failed
    /\ fetches' = [fetches EXCEPT ![i].answer = Failed]
    /\ UNCHANGED <<node, pageView, polls, reportView, keyStats, tokenEpoch, traffic>>

(* The counters of a new process start at zero. *)
Restart ==
    /\ node.epoch < MaxRestarts
    /\ node' = [epoch |-> node.epoch + 1, changes |-> 0, evictions |-> 0]
    /\ UNCHANGED <<pageView, polls, reportView, keyView, traffic>>

-----------------------------------------------------------------------------

Init ==
    /\ node = [epoch |-> 0, changes |-> 0, evictions |-> 0]
    /\ page = 0 /\ mounted = FALSE /\ status = "connecting"
    /\ seen = [p \in Pages |-> None] /\ polls = <<>>
    /\ keyStats = None /\ fetches = <<>>
    /\ timer = FALSE /\ inFlight = FALSE /\ calls = <<>>
    /\ tokenEpoch = -1
    /\ first = [p \in Pages |-> 0] /\ reports = {} /\ again = {} /\ overtaken = {}

Next ==
    \/ Mount \/ Unmount \/ Tick \/ toggleSimulator \/ Restart
    \/ \E op \in Ops : fire(op) \/ OtherClient(op)
    \/ \E i \in DOMAIN polls : AnswerPoll(i) \/ PollFails(i) \/ TickSucceeds(i) \/ TickFails(i)
    \/ \E i \in DOMAIN fetches : AnswerFetch(i) \/ FetchFails(i) \/ KeyStatsSettle(i)
    \/ \E i \in DOMAIN calls : AnswerCall(i) \/ CallFails(i) \/ SimSettles(i)

Spec == Init /\ [][Next]_vars

-----------------------------------------------------------------------------

Counters ==
    [epoch : 0 .. MaxRestarts, changes : 0 .. MaxChanges, evictions : 0 .. MaxEvictions]

(* The type of every variable; of the fetches still out only the newest is  *)
(* not cancelled, and only while its page is open.                          *)
TypeOK ==
    /\ node \in Counters
    /\ page \in 0 .. MaxPages /\ mounted \in BOOLEAN
    /\ status \in {"connecting", "online", "offline"}
    /\ seen \in [Pages -> Counters \cup {None}]
    /\ \A i \in DOMAIN polls :
          polls[i] \in [page : 1 .. page, answer : Counters \cup {Sent, Failed}]
    /\ keyStats \in Counters \cup {None}
    /\ \A i \in DOMAIN fetches : i < Len(fetches) \/ ~mounted => fetches[i].cancelled
    /\ \A i \in DOMAIN calls : calls[i] \in Ops \cup {"ok", "failed"}

(* useKeyStats.ts: "with cancellation so a stale in-flight response can't   *)
(* clobber a newer one".  When no fetch of the page is out, its keys have   *)
(* every set, delete and eviction that its counters have, whichever order   *)
(* polls and fetches came back in and whatever an earlier page still        *)
(* awaits, as long as the process that is polled is the one whose counters  *)
(* last changed the token: a new process can count up to the same token,    *)
(* and nothing is fetched.                                                  *)
KeyViewFollowsMetrics ==
    (\A i \in DOMAIN fetches : fetches[i].cancelled) /\ keyStats # None /\ metrics # None /\ metrics.epoch = tokenEpoch =>
        \/ keyStats.epoch > metrics.epoch
        \/ /\ keyStats.epoch = metrics.epoch
           /\ keyRefreshToken(keyStats) >= keyRefreshToken(metrics)

(* useNode.ts: "diffs the eviction counter between polls so LRU evictions   *)
(* surface in the op stream".  While the node does not start anew:  no page *)
(* reports an eviction twice unless it took in an answer after a newer one; *)
(* a page reports what an earlier one has reported only if that one did so  *)
(* after it was left, from a poll that nothing cancels; and a page reports  *)
(* every eviction between its first answer and its last.                    *)
EvictionsReported ==
    node.epoch = 0 =>
        /\ again \subseteq overtaken
        /\ \A r, s \in reports : r.page < s.page /\ r.eviction = s.eviction => r.late
        /\ \A p \in Pages : seen[p] # None =>
              \A e \in first[p] + 1 .. seen[p].evictions :
                  \E r \in reports : r.page = p /\ r.eviction = e

(* simulator.ts: "keeps it to one at a time", and the traffic does not      *)
(* outlive the page: whatever is stopped, started, left and opened again,   *)
(* at most one request of the simulator is out, and no page, no timer.      *)
SimulatorContained ==
    /\ Len(calls) = IF inFlight THEN 1 ELSE 0
    /\ timer => mounted

=============================================================================
