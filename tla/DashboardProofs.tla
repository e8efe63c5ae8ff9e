--------------------------- MODULE DashboardProofs ---------------------------
(***************************************************************************)
(* Proofs about the Dashboard, for any number of pages, polls, fetches,    *)
(* requests, changes and restarts: the types; that the keys on the page    *)
(* follow the counters; that every eviction is reported, and no more often *)
(* than a late or an overtaken answer makes it; and that the simulator     *)
(* stays contained.                                                        *)
(***************************************************************************)
EXTENDS Dashboard, SequenceLemmas

-----------------------------------------------------------------------------
(* The inductive invariant. *)

(* The answers a call can settle with, and the state of a poll and a fetch. *)
Answers == Counters \cup {Sent, Failed}
Polls == [page : Pages, answer : Answers]
Fetches == [cancelled : BOOLEAN, answer : Answers]

(* TypeOK in its parts, with the types of what it leaves open; what is not  *)
(* opened yet has polled and reported nothing.                              *)
NodeType == node \in Counters

PageType ==
    /\ page \in 0 .. MaxPages /\ mounted \in BOOLEAN
    /\ mounted => page # 0
    /\ status \in {"connecting", "online", "offline"}

PollsType ==
    /\ seen \in [Pages -> Counters \cup {None}]
    /\ \A p \in Pages : p > page => seen[p] = None
    /\ polls \in Seq(Polls)
    /\ \A i \in DOMAIN polls : polls[i].page <= page

ReportsType ==
    /\ first \in [Pages -> Nat]
    /\ \A r \in reports : r.page \in Pages /\ r.page <= page /\ r.eviction \in Nat

KeysType ==
    /\ keyStats \in Counters \cup {None}
    /\ fetches \in Seq(Fetches)
    /\ \A i \in DOMAIN fetches : i < Len(fetches) \/ ~mounted => fetches[i].cancelled
    /\ tokenEpoch \in -1 .. MaxRestarts

TrafficType == calls \in Seq(Ops \cup {"ok", "failed"})

TypeInv == NodeType /\ PageType /\ PollsType /\ ReportsType /\ KeysType /\ TrafficType

(* The counters a was answered with are not newer than those of b. *)
Upto(a, b) == a.changes <= b.changes /\ a.evictions <= b.evictions

(* What a page knows of the counters, or is about to. *)
KnownTo(p) ==
    {a \in Counters :
        a = seen[p] \/ \E i \in DOMAIN polls : polls[i].page = p /\ polls[i].answer = a}

(* The counters of one process grow together: any two answers of it are     *)
(* ordered, and the process is at least as far as each of them.             *)
KnownInv ==
    \A p \in Pages : \A a \in KnownTo(p) :
        /\ a.epoch < node.epoch \/ (a.epoch = node.epoch /\ Upto(a, node))
        /\ \A b \in KnownTo(p) : a.epoch = b.epoch => Upto(a, b) \/ Upto(b, a)

(* The counters a have all that the token says was written. *)
Newer(a) ==
    \/ a.epoch > tokenEpoch
    \/ a.epoch = tokenEpoch /\ keyRefreshToken(a) >= keyRefreshToken(metrics)

(* The node is past the token; so is what a fetch that counts was answered, *)
(* and, when no such fetch is out, the keys on the page.                    *)
KeyInv ==
    /\ Newer(node)
    /\ \A i \in DOMAIN fetches :
          ~fetches[i].cancelled /\ Answered(fetches[i].answer) => Newer(fetches[i].answer)
    /\ (\A i \in DOMAIN fetches : fetches[i].cancelled) => keyStats = None \/ Newer(keyStats)

(* No report is missing; *)
Complete ==
    \A p \in Pages : seen[p] # None =>
        \A e \in first[p] + 1 .. seen[p].evictions :
            \E r \in reports : r.page = p /\ r.eviction = e

(* a page that takes in its answers in order reports nothing beyond the last; *)
InOrderReports ==
    /\ again \subseteq overtaken
    /\ \A r \in reports : r.page \notin overtaken => r.eviction <= seen[r.page].evictions

(* and what an open page has reported, every later page starts from.        *)
OpenReports ==
    \A r \in reports : ~r.late =>
        /\ r.eviction <= node.evictions
        /\ \A q \in Pages : r.page < q => \A a \in KnownTo(q) : r.eviction <= a.evictions
        /\ \A s \in reports : r.page < s.page => r.eviction < s.eviction

ReportInv == Complete /\ (node.epoch = 0 => InOrderReports /\ OpenReports)

-----------------------------------------------------------------------------
(* The counters. *)

(* The marks for no answer are no counters. *)
LEMMA Marks ==
    /\ None \notin Counters /\ Sent \notin Counters /\ Failed \notin Counters
    /\ Sent # Failed /\ ~Answered(Sent) /\ ~Answered(Failed)
    /\ \A a \in Answers : Answered(a) <=> a \in Counters
    /\ None.epoch = -1 /\ None.evictions = 0 /\ keyRefreshToken(None) = 0
<1>1. \A a \in Counters : a.epoch >= 0
  BY DashboardAssumption DEF Counters
<1>2. /\ None.epoch = -1 /\ Sent.epoch = -2 /\ Failed.epoch = -3
      /\ None.evictions = 0 /\ keyRefreshToken(None) = 0
  BY DEF None, Sent, Failed, keyRefreshToken
<1>3. None \notin Counters /\ Sent \notin Counters /\ Failed \notin Counters
  BY <1>1, <1>2
<1> QED BY <1>1, <1>2, <1>3 DEF Answers, Answered

(* What counters are. *)
LEMMA CounterTypes ==
    ASSUME NEW a \in Counters
    PROVE  /\ a.epoch \in 0 .. MaxRestarts /\ a.changes \in 0 .. MaxChanges
           /\ a.evictions \in 0 .. MaxEvictions /\ keyRefreshToken(a) \in Nat
           /\ MaxRestarts \in Nat /\ MaxChanges \in Nat /\ MaxEvictions \in Nat
BY DashboardAssumption DEF Counters, keyRefreshToken

(* The node's counters only grow while its process lives. *)
LEMMA HandledFacts ==
    ASSUME NodeType, NEW op \in Ops, Handles(op)
    PROVE  /\ NodeType'
           /\ node'.epoch = node.epoch /\ Upto(node, node')
<1>0. /\ node.epoch \in 0 .. MaxRestarts /\ node.changes \in 0 .. MaxChanges
      /\ node.evictions \in 0 .. MaxEvictions
      /\ MaxRestarts \in Nat /\ MaxChanges \in Nat /\ MaxEvictions \in Nat
  BY CounterTypes DEF NodeType
<1>1. CASE op = "change"
  <2>1. PICK e \in {0, 1} : node' = [node EXCEPT !.changes = @ + 1, !.evictions = @ + e]
    BY <1>1 DEF Handles, Handled
  <2>2. /\ node'.epoch = node.epoch /\ node'.changes = node.changes + 1
        /\ node'.evictions = node.evictions + e
        /\ node' \in [epoch : {node.epoch}, changes : {node.changes + 1},
                      evictions : {node.evictions + e}]
    BY <2>1 DEF NodeType, Counters
  <2>3. node.evictions + e \in 0 .. MaxEvictions /\ node.changes + 1 \in 0 .. MaxChanges
    BY <1>0, <2>2 DEF Handles
  <2>4. node' \in Counters
    BY <1>0, <2>2, <2>3 DEF Counters
  <2> QED BY <1>0, <2>2, <2>4 DEF NodeType, Upto
<1>2. CASE op # "change"
  <2>1. PICK n \in node.evictions .. MaxEvictions : node' = [node EXCEPT !.evictions = n]
    BY <1>2 DEF Handles, Handled
  <2>2. /\ node'.epoch = node.epoch /\ node'.changes = node.changes /\ node'.evictions = n
        /\ node' \in [epoch : {node.epoch}, changes : {node.changes}, evictions : {n}]
    BY <2>1 DEF NodeType, Counters
  <2>3. node' \in Counters
    BY <1>0, <2>2 DEF Counters
  <2> QED BY <1>0, <2>2, <2>3 DEF NodeType, Upto
<1> QED BY <1>1, <1>2

-----------------------------------------------------------------------------
(* The steps that touch the node, the page, its keys and its traffic. *)

LEMMA NodeSteps ==
    ASSUME [Next]_vars
    PROVE  \/ UNCHANGED node
           \/ UNCHANGED <<pageView, polls, reportView>> /\ Restart
           \/ UNCHANGED <<pageView, polls, reportView>> /\ \E op \in Ops : Handles(op)
BY DEF Next, vars, Mount, Unmount, Tick, toggleSimulator, Restart, fire, OtherClient, AnswerPoll, PollFails,
       TickSucceeds, TickFails, AnswerFetch, FetchFails, KeyStatsSettle, AnswerCall, CallFails, SimSettles

LEMMA PageSteps ==
    ASSUME [Next]_vars
    PROVE  \/ UNCHANGED <<pageView, polls, reportView>>
           \/ Mount \/ Unmount \/ Tick
           \/ \E i \in DOMAIN polls :
                 AnswerPoll(i) \/ PollFails(i) \/ TickSucceeds(i) \/ TickFails(i)
BY DEF Next, vars, toggleSimulator, Restart, fire, OtherClient, AnswerFetch, FetchFails,
       KeyStatsSettle, AnswerCall, CallFails, SimSettles

LEMMA KeysSteps ==
    ASSUME [Next]_vars
    PROVE  \/ UNCHANGED keyView
           \/ Mount \/ Unmount
           \/ \E i \in DOMAIN polls : TickSucceeds(i)
           \/ \E i \in DOMAIN fetches : AnswerFetch(i) \/ FetchFails(i) \/ KeyStatsSettle(i)
BY DEF Next, vars, Tick, toggleSimulator, Restart, fire, OtherClient, AnswerPoll, PollFails,
       TickFails, AnswerCall, CallFails, SimSettles

LEMMA TrafficSteps ==
    ASSUME [Next]_vars
    PROVE  \/ UNCHANGED traffic
           \/ Unmount \/ toggleSimulator
           \/ \E op \in Ops : fire(op)
           \/ \E i \in DOMAIN calls : AnswerCall(i) \/ CallFails(i) \/ SimSettles(i)
BY DEF Next, vars, Mount, Tick, Restart, OtherClient, AnswerPoll, PollFails, TickSucceeds,
       TickFails, AnswerFetch, FetchFails, KeyStatsSettle

(* What is left of the polls when one of them settles. *)
LEMMA PollsLeft ==
    ASSUME PollsType, NEW i \in DOMAIN polls, polls' = RemoveAt(polls, i)
    PROVE  /\ polls' \in Seq(Polls)
           /\ \A j \in DOMAIN polls' : \E k \in DOMAIN polls : polls'[j] = polls[k]
<1>1. polls \in Seq(Polls) /\ i \in 1 .. Len(polls)
  BY DEF PollsType
<1>2. /\ polls' \in Seq(Polls) /\ Len(polls') = Len(polls) - 1
      /\ \A j \in 1 .. Len(polls) - 1 : polls'[j] = IF j < i THEN polls[j] ELSE polls[j + 1]
  BY <1>1, RemoveAtProperties
<1>3. ASSUME NEW j \in DOMAIN polls' PROVE \E k \in DOMAIN polls : polls'[j] = polls[k]
  <2>1. j \in DOMAIN polls /\ j + 1 \in DOMAIN polls /\ j \in 1 .. Len(polls) - 1
    BY <1>1, <1>2
  <2> QED BY <1>2, <2>1
<1> QED BY <1>2, <1>3

(* What the page that takes in an answer is, and the answer. *)
LEMMA TickFacts ==
    ASSUME PageType, PollsType, NEW i \in DOMAIN polls, TickSucceeds(i)
    PROVE  /\ polls[i].page \in Pages /\ polls[i].page <= page
           /\ polls[i].answer \in Counters /\ polls[i].answer # None
           /\ polls[i].answer \in KnownTo(polls[i].page)
           /\ seen' = [seen EXCEPT ![polls[i].page] = polls[i].answer]
           /\ UNCHANGED <<node, page, mounted>>
<1>1. polls[i] \in Polls /\ polls[i].page <= page
  BY DEF PollsType
<1>2. polls[i].page \in Pages /\ polls[i].answer \in Answers
  BY <1>1 DEF Polls
<1>3. polls[i].answer \in Counters
  BY <1>2, Marks DEF TickSucceeds
<1> QED BY <1>1, <1>2, <1>3, Marks DEF TickSucceeds, KnownTo

-----------------------------------------------------------------------------
(* Types. *)

(* The inductive types imply those the runs check. *)
LEMMA TypeInvOK == TypeInv => TypeOK
<1> SUFFICES ASSUME TypeInv PROVE TypeOK
  OBVIOUS
<1> USE DEF TypeInv, NodeType, PageType, PollsType, KeysType, TrafficType
<1>1. ASSUME NEW i \in DOMAIN polls
      PROVE  polls[i] \in [page : 1 .. page, answer : Counters \cup {Sent, Failed}]
  <2>1. polls[i] \in Polls /\ polls[i].page <= page
    OBVIOUS
  <2>2. polls[i].page \in 1 .. page /\ polls[i].answer \in Counters \cup {Sent, Failed}
    BY <2>1, DashboardAssumption DEF Polls, Pages, Answers
  <2> QED BY <2>1, <2>2 DEF Polls
<1>2. \A i \in DOMAIN calls : calls[i] \in Ops \cup {"ok", "failed"}
  OBVIOUS
<1> QED BY <1>1, <1>2 DEF TypeOK

(* A freshly loaded page has the types. *)
LEMMA TypeInvInit == Init => TypeInv
<1> SUFFICES ASSUME Init PROVE TypeInv
  OBVIOUS
<1>1. NodeType
  BY DashboardAssumption DEF Init, NodeType, Counters
<1>2. PageType
  <2>1. page \in 0 .. MaxPages /\ status \in {"connecting", "online", "offline"}
    BY DashboardAssumption DEF Init
  <2>2. mounted \in BOOLEAN /\ ~mounted
    BY Zenon DEF Init
  <2> QED BY <2>1, <2>2 DEF PageType
<1>3. PollsType /\ ReportsType
  BY DEF Init, PollsType, ReportsType
<1>4. KeysType
  BY DashboardAssumption DEF Init, KeysType
<1>5. TrafficType
  BY DEF Init, TrafficType
<1> QED BY <1>1, <1>2, <1>3, <1>4, <1>5 DEF TypeInv

(* Whatever the page or another client asks, the node's counters stay    *)
(* counters.                                                                *)
LEMMA NodeTypeNext ==
    ASSUME TypeInv, [Next]_vars
    PROVE  NodeType'
<1>1. CASE UNCHANGED node
  BY <1>1 DEF TypeInv, NodeType
<1>2. CASE Restart
  <2>1. node.epoch \in 0 .. MaxRestarts /\ MaxRestarts \in Nat
        /\ MaxChanges \in Nat /\ MaxEvictions \in Nat
    BY CounterTypes DEF TypeInv, NodeType
  <2>2. node.epoch + 1 \in 0 .. MaxRestarts /\ 0 \in 0 .. MaxChanges /\ 0 \in 0 .. MaxEvictions
    BY <1>2, <2>1 DEF Restart
  <2> QED BY <1>2, <2>2 DEF Restart, NodeType, Counters
<1>3. ASSUME NEW op \in Ops, Handles(op) PROVE NodeType'
  BY <1>3, HandledFacts DEF TypeInv
<1> QED BY <1>1, <1>2, <1>3, NodeSteps

(* Pages are opened one after the other. *)
LEMMA PageTypeNext ==
    ASSUME TypeInv, [Next]_vars
    PROVE  PageType' /\ page <= page' /\ (page' # page => Mount)
<1>0. PageType /\ page \in Nat /\ MaxPages \in Nat
  BY DashboardAssumption DEF TypeInv, PageType
<1>1. CASE UNCHANGED pageView
  BY <1>0, <1>1 DEF PageType, pageView
<1>2. CASE Mount
  BY <1>0, <1>2 DEF Mount, PageType
<1>3. CASE Unmount
  <2>1. page' = page /\ status' \in {"connecting", "online", "offline"}
    BY <1>3 DEF Unmount
  <2>2. mounted' \in BOOLEAN /\ ~mounted'
    BY Zenon, <1>3 DEF Unmount
  <2> QED BY <1>0, <2>1, <2>2 DEF PageType
<1>4. CASE Tick
  BY <1>0, <1>4 DEF Tick, PageType, pageView
<1>5. ASSUME NEW i \in DOMAIN polls,
             AnswerPoll(i) \/ PollFails(i) \/ TickSucceeds(i) \/ TickFails(i)
      PROVE  PageType' /\ page' = page
  BY <1>0, <1>5 DEF AnswerPoll, PollFails, TickSucceeds, TickFails, PageType, pageView
<1> QED BY <1>0, <1>1, <1>2, <1>3, <1>4, <1>5, PageSteps

(* useNode.ts: what is polled and what was taken in stay typed. *)
LEMMA PollsTypeNext ==
    ASSUME TypeInv, [Next]_vars
    PROVE  PollsType'
<1>0. /\ PollsType /\ PageType /\ node \in Counters
      /\ page \in Nat /\ page' \in Nat /\ page <= page' /\ \A p \in Pages : p \in Nat
      /\ polls \in Seq(Polls)
  <2>1. page \in Nat /\ page' \in Nat /\ page <= page'
    BY PageTypeNext, DashboardAssumption DEF TypeInv, PageType
  <2> QED BY <2>1 DEF TypeInv, PollsType, NodeType, Pages
<1>1. Sent \in Answers /\ Failed \in Answers /\ node \in Answers
  BY <1>0 DEF Answers
<1>2. CASE UNCHANGED <<page, polls, seen>>
  BY <1>0, <1>2 DEF PollsType
<1>3. ASSUME NEW p \in Pages, Ticked(p), p <= page', UNCHANGED seen PROVE PollsType'
  <2>1. [page |-> p, answer |-> Sent] \in Polls
    BY <1>1 DEF Polls
  <2>2. /\ polls' \in Seq(Polls)
        /\ \A j \in DOMAIN polls' :
              polls'[j] = [page |-> p, answer |-> Sent] \/ (j \in DOMAIN polls /\ polls'[j] = polls[j])
    BY <1>0, <1>3, <2>1 DEF Ticked
  <2>3. \A j \in DOMAIN polls : polls[j] \in Polls
    BY <1>0
  <2>4. \A j \in DOMAIN polls' : polls'[j].page <= page'
    BY <1>0, <1>3, <2>2, <2>3 DEF PollsType, Polls
  <2> QED BY <1>0, <1>3, <2>2, <2>4 DEF PollsType
<1>4. CASE Mount
  <2>1. page + 1 \in Pages
    BY <1>0, <1>4, DashboardAssumption DEF Mount, Pages
  <2> QED BY <1>0, <1>3, <1>4, <2>1 DEF Mount, reportView
<1>5. CASE Unmount
  BY <1>2, <1>5 DEF Unmount, reportView
<1>6. CASE Tick
  <2>1. page \in Pages
    BY <1>0, <1>6 DEF Tick, PageType, Pages
  <2> QED BY <1>0, <1>3, <1>6, <2>1 DEF Tick, pageView, reportView
<1>7. ASSUME NEW i \in DOMAIN polls, AnswerPoll(i) \/ PollFails(i) PROVE PollsType'
  <2>1. PICK a \in Answers : polls' = [polls EXCEPT ![i].answer = a]
    BY <1>1, <1>7 DEF AnswerPoll, PollFails
  <2>2. polls[i] \in Polls
    BY <1>0
  <2>3. [polls[i] EXCEPT !.answer = a] \in Polls /\ [polls[i] EXCEPT !.answer = a].page = polls[i].page
    BY <2>2 DEF Polls
  <2>4. polls' \in Seq(Polls) /\ \A j \in DOMAIN polls' : j \in DOMAIN polls /\ polls'[j].page = polls[j].page
    BY <1>0, <2>1, <2>3
  <2>5. UNCHANGED <<page, seen>>
    BY <1>7 DEF AnswerPoll, PollFails, pageView, reportView
  <2> QED BY <1>0, <2>4, <2>5 DEF PollsType
<1>8. ASSUME NEW i \in DOMAIN polls, TickSucceeds(i) \/ TickFails(i) PROVE PollsType'
  <2>1. /\ polls' \in Seq(Polls)
        /\ \A j \in DOMAIN polls' : \E k \in DOMAIN polls : polls'[j] = polls[k]
    BY <1>0, <1>8, PollsLeft DEF TickSucceeds, TickFails
  <2>2. page' = page
    BY <1>8 DEF TickSucceeds, TickFails
  <2>3. \A j \in DOMAIN polls' : polls'[j].page <= page'
    BY <1>0, <2>1, <2>2 DEF PollsType
  <2>4. CASE TickFails(i)
    BY <1>0, <2>1, <2>2, <2>3, <2>4 DEF PollsType, TickFails, reportView
  <2>5. CASE TickSucceeds(i)
    <3>1. /\ polls[i].page \in Pages /\ polls[i].page <= page /\ polls[i].answer \in Counters
          /\ seen' = [seen EXCEPT ![polls[i].page] = polls[i].answer]
      BY <1>0, <2>5, TickFacts
    <3>2. \A p \in Pages : p > page' => seen'[p] = None
      BY <1>0, <2>2, <3>1 DEF PollsType
    <3> QED BY <1>0, <2>1, <2>3, <3>1, <3>2 DEF PollsType
  <2> QED BY <1>8, <2>4, <2>5
<1> QED BY <1>2, <1>4, <1>5, <1>6, <1>7, <1>8, PageSteps DEF pageView, reportView

(* The log of the reports stays typed. *)
LEMMA ReportsTypeNext ==
    ASSUME TypeInv, [Next]_vars
    PROVE  ReportsType'
<1>0. ReportsType /\ page \in Nat /\ page' \in Nat /\ page <= page' /\ \A p \in Pages : p \in Nat
  BY PageTypeNext, DashboardAssumption DEF TypeInv, PageType, Pages
<1>1. ASSUME UNCHANGED <<first, reports>> PROVE ReportsType'
  BY <1>0, <1>1 DEF ReportsType
<1>2. ASSUME NEW i \in DOMAIN polls, TickSucceeds(i) PROVE ReportsType'
  <2> DEFINE p == polls[i].page
             m == polls[i].answer
  <2>1. p \in Pages /\ p <= page /\ m \in Counters /\ page' = page
    BY <1>2, TickFacts DEF TypeInv
  <2>2. Noted(p, m) /\ m.evictions \in Nat /\ seen[p] \in Counters \cup {None}
    BY <1>2, <2>1, CounterTypes DEF TickSucceeds, TypeInv, PollsType
  <2> HIDE DEF p, m
  <2>3. first' \in [Pages -> Nat]
    BY <1>0, <2>1, <2>2 DEF Noted, ReportsType
  <2>4. evicted(p, m) \subseteq Nat
    <3>1. seen[p].evictions \in Nat
      BY <2>2, Marks, CounterTypes
    <3> QED BY <2>2, <3>1 DEF evicted
  <2>5. \A r \in reports' :
           r \in reports \/ (r.page = p /\ r.eviction \in evicted(p, m))
    BY <2>2 DEF Noted
  <2> QED BY <1>0, <2>1, <2>3, <2>4, <2>5 DEF ReportsType
<1>3. UNCHANGED <<first, reports>> \/ \E i \in DOMAIN polls : TickSucceeds(i)
  BY PageSteps DEF Mount, Unmount, Tick, AnswerPoll, PollFails, TickFails, reportView
<1> QED BY <1>1, <1>2, <1>3

(* The cleanup cancels every fetch and leaves its answer. *)
LEMMA CancelledFacts ==
    ASSUME KeysType
    PROVE  /\ cancelled \in Seq(Fetches) /\ Len(cancelled) = Len(fetches)
           /\ \A i \in DOMAIN cancelled : cancelled[i].cancelled
<1>1. \A i \in DOMAIN fetches : [fetches[i] EXCEPT !.cancelled = TRUE] \in Fetches
  <2>1. \A f \in Fetches : [f EXCEPT !.cancelled = TRUE] \in Fetches
    BY DEF Fetches
  <2> QED BY <2>1 DEF KeysType
<1>2. \A i \in DOMAIN fetches : [fetches[i] EXCEPT !.cancelled = TRUE].cancelled
  BY DEF KeysType, Fetches
<1>3. fetches \in Seq(Fetches) /\ DOMAIN cancelled = 1 .. Len(fetches) /\ Len(fetches) \in Nat
  BY DEF KeysType, cancelled
<1>4. \A i \in DOMAIN cancelled : cancelled[i] = [fetches[i] EXCEPT !.cancelled = TRUE]
  BY DEF cancelled
<1>5. cancelled \in [1 .. Len(fetches) -> Fetches]
  BY <1>1, <1>3, <1>4 DEF cancelled
<1>6. cancelled \in Seq(Fetches) /\ Len(cancelled) = Len(fetches)
  BY <1>3, <1>5
<1>7. ASSUME NEW i \in DOMAIN cancelled PROVE cancelled[i].cancelled
  <2>1. i \in DOMAIN fetches
    BY DEF cancelled
  <2> QED BY <1>2, <1>4, <2>1
<1> QED BY <1>6, <1>7

(* A fetch that is begun behind the fetches f, all cancelled, is the only   *)
(* one that counts.                                                         *)
LEMMA RefetchFacts ==
    ASSUME NEW f \in Seq(Fetches), \A i \in DOMAIN f : f[i].cancelled,
           fetches' = Append(f, [cancelled |-> FALSE, answer |-> Sent])
    PROVE  /\ fetches' \in Seq(Fetches) /\ Len(fetches') = Len(f) + 1 /\ Len(f) \in Nat
           /\ \A i \in 1 .. Len(f) : fetches'[i].cancelled
           /\ ~fetches'[Len(f) + 1].cancelled
           /\ fetches'[Len(f) + 1].answer = Sent
<1>1. [cancelled |-> FALSE, answer |-> Sent] \in Fetches
  BY DEF Fetches, Answers
<1>2. \A i \in 1 .. Len(f) : fetches'[i] = f[i]
  BY <1>1
<1>3. fetches'[Len(f) + 1] = [cancelled |-> FALSE, answer |-> Sent]
  BY <1>1
<1>4. fetches' \in Seq(Fetches) /\ Len(fetches') = Len(f) + 1
  BY <1>1
<1> QED BY <1>2, <1>3, <1>4

(* useKeyStats.ts: all fetches but the last are cancelled, through remounts, *)
(* refetches and answers that come out of order.                            *)
LEMMA KeysTypeNext ==
    ASSUME TypeInv, [Next]_vars
    PROVE  KeysType'
<1> USE DEF KeysType, TypeInv
<1>0. node \in Counters /\ page' \in Nat
  BY PageTypeNext, DashboardAssumption DEF NodeType, PageType
<1>1. ASSUME UNCHANGED keyView, mounted' = mounted PROVE KeysType'
  BY <1>1 DEF keyView
<1>2. CASE Mount
  <2>1. \A i \in DOMAIN fetches : fetches[i].cancelled
    BY <1>2 DEF Mount
  <2>2. /\ fetches' \in Seq(Fetches) /\ Len(fetches') = Len(fetches) + 1
        /\ \A i \in 1 .. Len(fetches) : fetches'[i].cancelled
    BY <1>2, <2>1, RefetchFacts DEF Mount
  <2>3. \A i \in DOMAIN fetches' : i < Len(fetches') => fetches'[i].cancelled
    BY <2>2
  <2> QED BY <1>2, <2>2, <2>3 DEF Mount
<1>3. CASE Unmount
  BY <1>3, CancelledFacts, DashboardAssumption DEF Unmount
<1>4. ASSUME NEW i \in DOMAIN polls, TickSucceeds(i) PROVE KeysType'
  <2>1. CASE UNCHANGED keyView
    BY <1>1, <1>4, <2>1 DEF TickSucceeds
  <2>2. CASE ~UNCHANGED keyView
    <3>1. /\ fetches' = Append(cancelled, [cancelled |-> FALSE, answer |-> Sent])
          /\ tokenEpoch' = polls[i].answer.epoch /\ keyStats' = keyStats /\ mounted'
      BY <1>4, <2>2 DEF TickSucceeds, useKeyStats, keyView, Open
    <3>2. polls[i].answer \in Counters
      BY <1>4, TickFacts
    <3>3. tokenEpoch' \in -1 .. MaxRestarts
      BY <3>1, <3>2, CounterTypes
    <3>4. /\ fetches' \in Seq(Fetches) /\ Len(fetches') = Len(cancelled) + 1
          /\ \A j \in 1 .. Len(cancelled) : fetches'[j].cancelled
      BY <3>1, CancelledFacts, RefetchFacts
    <3>5. \A j \in DOMAIN fetches' : j < Len(fetches') => fetches'[j].cancelled
      BY <3>4, CancelledFacts
    <3> QED BY <3>1, <3>3, <3>4, <3>5
  <2> QED BY <2>1, <2>2
<1>5. ASSUME NEW i \in DOMAIN fetches, AnswerFetch(i) \/ FetchFails(i) PROVE KeysType'
  <2>1. PICK a \in Answers : fetches' = [fetches EXCEPT ![i].answer = a]
    BY <1>0, <1>5 DEF AnswerFetch, FetchFails, Answers
  <2>2. fetches' \in Seq(Fetches) /\ Len(fetches') = Len(fetches)
    <3>1. [fetches[i] EXCEPT !.answer = a] \in Fetches
      <4>1. fetches[i] \in Fetches
        OBVIOUS
      <4> QED BY <4>1 DEF Fetches
    <3> QED BY <2>1, <3>1
  <2>3. \A j \in DOMAIN fetches : fetches'[j].cancelled = fetches[j].cancelled
    BY <2>1 DEF Fetches
  <2>4. UNCHANGED <<keyStats, tokenEpoch, mounted>>
    BY <1>5 DEF AnswerFetch, FetchFails, pageView
  <2> QED BY <2>2, <2>3, <2>4
<1>6. ASSUME NEW i \in DOMAIN fetches, KeyStatsSettle(i) PROVE KeysType'
  <2>1. /\ fetches' \in Seq(Fetches) /\ Len(fetches') = Len(fetches) - 1
        /\ \A j \in 1 .. Len(fetches) - 1 :
              fetches'[j] = IF j < i THEN fetches[j] ELSE fetches[j + 1]
    BY SMTT(30), <1>6, RemoveAtProperties DEF KeyStatsSettle
  <2>2. mounted' = mounted /\ UNCHANGED tokenEpoch
    BY <1>6 DEF KeyStatsSettle, pageView
  <2>3. ASSUME NEW j \in DOMAIN fetches', j < Len(fetches') \/ ~mounted' PROVE fetches'[j].cancelled
    <3>1. j \in DOMAIN fetches /\ j + 1 \in DOMAIN fetches /\ j \in 1 .. Len(fetches) - 1
      BY <2>1
    <3>2. j < Len(fetches') => j < Len(fetches) /\ j + 1 < Len(fetches)
      BY <2>1
    <3> QED BY <2>1, <2>2, <2>3, <3>1, <3>2
  <2>4. fetches[i].answer \in Answers
    <3>1. fetches[i] \in Fetches
      OBVIOUS
    <3> QED BY <3>1 DEF Fetches
  <2>5. keyStats' \in Counters \cup {None}
    BY <1>6, <2>4, Marks DEF KeyStatsSettle
  <2> QED BY <2>1, <2>2, <2>3, <2>5
<1>7. CASE UNCHANGED keyView /\ ~Mount /\ ~Unmount
  <2>1. mounted' = mounted
    BY <1>7, PageSteps DEF pageView, Tick, AnswerPoll, PollFails, TickSucceeds, TickFails
  <2> QED BY <1>1, <1>7, <2>1
<1> QED BY <1>2, <1>3, <1>4, <1>5, <1>6, <1>7, KeysSteps

(* simulator.ts: the requests still out stay typed. *)
LEMMA TrafficTypeNext ==
    ASSUME TypeInv, [Next]_vars
    PROVE  TrafficType'
<1> USE DEF TrafficType, TypeInv
<1>1. CASE UNCHANGED traffic
  BY <1>1 DEF traffic
<1>2. CASE Unmount \/ toggleSimulator
  BY <1>2 DEF Unmount, toggleSimulator
<1>3. ASSUME NEW op \in Ops, fire(op) PROVE TrafficType'
  BY <1>3 DEF fire
<1>4. ASSUME NEW i \in DOMAIN calls, AnswerCall(i) \/ CallFails(i) PROVE TrafficType'
  BY <1>4 DEF AnswerCall, CallFails
<1>5. ASSUME NEW i \in DOMAIN calls, SimSettles(i) PROVE TrafficType'
  BY <1>5, RemoveAtProperties DEF SimSettles
<1> QED BY <1>1, <1>2, <1>3, <1>4, <1>5, TrafficSteps

(* Every step keeps the types. *)
LEMMA TypeInvNext ==
    ASSUME TypeInv, [Next]_vars
    PROVE  TypeInv'
BY NodeTypeNext, PageTypeNext, PollsTypeNext, ReportsTypeNext, KeysTypeNext, TrafficTypeNext DEF TypeInv

(* The types the runs check hold of every behaviour, however many polls,    *)
(* fetches and calls overlap.                                               *)
THEOREM TypeCorrect == Spec => []TypeOK
BY TypeInvInit, TypeInvNext, TypeInvOK, PTL DEF Spec

-----------------------------------------------------------------------------
(* The simulator. *)

(* simulator.ts: fire() sends nothing while inFlight, only the end of that  *)
(* request clears it, and toggling or leaving the page stops the timer.     *)
LEMMA SimulatorNext ==
    ASSUME TypeInv, SimulatorContained, [Next]_vars
    PROVE  SimulatorContained'
<1>0. /\ Len(calls) \in Nat /\ (timer => mounted)
      /\ inFlight => Len(calls) = 1
      /\ ~inFlight => Len(calls) = 0
  BY DEF SimulatorContained, TypeInv, TrafficType
<1>1. SUFFICES /\ inFlight' => Len(calls') = 1
               /\ ~inFlight' => Len(calls') = 0
               /\ timer' => mounted'
  BY DEF SimulatorContained
<1>2. CASE UNCHANGED traffic /\ ~Unmount
  <2>1. mounted => mounted'
    BY <1>2, PageSteps DEF pageView, Mount, Tick, AnswerPoll, PollFails, TickSucceeds, TickFails
  <2> QED BY <1>0, <1>2, <2>1 DEF traffic
<1>3. CASE Unmount
  BY <1>0, <1>3 DEF Unmount, stopSimulator
<1>4. CASE toggleSimulator
  BY <1>0, <1>4 DEF toggleSimulator, stopSimulator, pageView
<1>5. ASSUME NEW op \in Ops, fire(op)
      PROVE  inFlight' /\ Len(calls') = 1 /\ (timer' => mounted')
  <2>1. calls \in Seq(Ops \cup {"ok", "failed"}) /\ Len(calls) = 0 /\ calls' = Append(calls, op)
    BY <1>0, <1>5 DEF fire, TypeInv, TrafficType
  <2>2. Len(calls') = 1
    BY <2>1
  <2> QED BY <1>0, <1>5, <2>2 DEF fire, pageView
<1>6. ASSUME NEW i \in DOMAIN calls, AnswerCall(i) \/ CallFails(i)
      PROVE  Len(calls') = Len(calls) /\ UNCHANGED <<timer, inFlight, mounted>>
  BY <1>6 DEF AnswerCall, CallFails, TypeInv, TrafficType, pageView
<1>7. ASSUME NEW i \in DOMAIN calls, SimSettles(i)
      PROVE  ~inFlight' /\ Len(calls') = 0 /\ (timer' => mounted')
  <2>1. calls \in Seq(Ops \cup {"ok", "failed"}) /\ i \in 1 .. Len(calls) /\ calls' = RemoveAt(calls, i)
    BY <1>7 DEF SimSettles, TypeInv, TrafficType
  <2>2. Len(calls') = Len(calls) - 1
    BY <2>1, RemoveAtProperties
  <2>3. Len(calls) = 1
    <3>1. CASE inFlight
      BY <1>0, <3>1
    <3>2. CASE ~inFlight
      BY <1>0, <2>1, <3>2
    <3> QED BY <3>1, <3>2
  <2>4. Len(calls') = 0
    BY <2>2, <2>3
  <2> QED BY <1>0, <1>7, <2>4 DEF SimSettles, pageView
<1> QED BY <1>0, <1>2, <1>3, <1>4, <1>5, <1>6, <1>7, TrafficSteps

(* simulator.ts: at most one request of the simulator is out and its timer  *)
(* does not outlive the page, whatever is started, stopped, left or opened  *)
(* again while that request is still out.                                   *)
THEOREM SimulatorStaysContained == Spec => []SimulatorContained
<1>1. Init => SimulatorContained
  BY DEF Init, SimulatorContained
<1> QED BY <1>1, TypeInvInit, TypeInvNext, SimulatorNext, PTL DEF Spec

-----------------------------------------------------------------------------
(* What the pages know of the counters. *)

(* A step adds to what a page knows at most the counters of the node now. *)
LEMMA KnownSteps ==
    ASSUME TypeInv, [Next]_vars
    PROVE  \/ \A p \in Pages : KnownTo(p)' \subseteq KnownTo(p)
           \/ UNCHANGED node /\ \A p \in Pages : KnownTo(p)' \subseteq KnownTo(p) \cup {node}
<1>0. PollsType /\ PageType /\ polls \in Seq(Polls)
  BY DEF TypeInv, PollsType
<1>1. CASE UNCHANGED <<pageView, polls, reportView>>
  BY <1>1 DEF KnownTo, reportView
<1>2. ASSUME NEW q \in Pages, Ticked(q), UNCHANGED seen
      PROVE  \A p \in Pages : KnownTo(p)' \subseteq KnownTo(p)
  <2>1. [page |-> q, answer |-> Sent] \in Polls
    BY DEF Polls, Answers
  <2>2. \A j \in DOMAIN polls' : polls'[j].answer = Sent \/ (j \in DOMAIN polls /\ polls'[j] = polls[j])
    BY <1>0, <1>2, <2>1 DEF Ticked
  <2> QED BY <1>2, <2>2, Marks DEF KnownTo
<1>3. CASE Mount
  <2>1. page + 1 \in Pages
    BY <1>0, <1>3, DashboardAssumption DEF Mount, Pages, PageType
  <2> QED BY <1>2, <1>3, <2>1 DEF Mount, reportView
<1>4. CASE Unmount
  BY <1>4 DEF Unmount, KnownTo, reportView
<1>5. CASE Tick
  <2>1. page \in Pages
    BY <1>0, <1>5, DashboardAssumption DEF Tick, PageType, Pages
  <2> QED BY <1>2, <1>5, <2>1 DEF Tick, reportView
<1>6. ASSUME NEW i \in DOMAIN polls, AnswerPoll(i) \/ PollFails(i)
      PROVE  UNCHANGED node /\ \A p \in Pages : KnownTo(p)' \subseteq KnownTo(p) \cup {node}
  <2>1. PICK a \in {node, Failed} : polls' = [polls EXCEPT ![i].answer = a]
    BY <1>6 DEF AnswerPoll, PollFails
  <2>2. \A j \in DOMAIN polls : polls[j] \in Polls
    BY <1>0
  <2>3. \A j \in DOMAIN polls' :
           /\ j \in DOMAIN polls /\ polls'[j].page = polls[j].page
           /\ polls'[j].answer = a \/ polls'[j].answer = polls[j].answer
    BY <1>0, <2>1, <2>2 DEF Polls
  <2>4. UNCHANGED <<node, seen>>
    BY <1>6 DEF AnswerPoll, PollFails, reportView
  <2> QED BY <2>3, <2>4, Marks DEF KnownTo
<1>7. ASSUME NEW i \in DOMAIN polls, TickSucceeds(i) \/ TickFails(i)
      PROVE  \A p \in Pages : KnownTo(p)' \subseteq KnownTo(p)
  <2>1. \A j \in DOMAIN polls' : \E k \in DOMAIN polls : polls'[j] = polls[k]
    BY <1>0, <1>7, PollsLeft DEF TickSucceeds, TickFails
  <2>2. ASSUME NEW p \in Pages
        PROVE  seen'[p] = seen[p] \/ (polls[i].page = p /\ seen'[p] = polls[i].answer)
    <3>1. CASE TickSucceeds(i)
      <4>1. polls[i].page \in Pages /\ seen' = [seen EXCEPT ![polls[i].page] = polls[i].answer]
        BY <1>0, <3>1, TickFacts
      <4> QED BY <1>0, <4>1 DEF PollsType
    <3>2. CASE TickFails(i)
      BY <3>2 DEF TickFails, reportView
    <3> QED BY <1>7, <3>1, <3>2
  <2>3. ASSUME NEW p \in Pages, NEW a \in KnownTo(p)' PROVE a \in KnownTo(p)
    <3>1. a \in Counters
      BY <2>3 DEF KnownTo
    <3>2. CASE a = seen'[p]
      BY <2>2, <3>1, <3>2 DEF KnownTo
    <3>3. CASE a # seen'[p]
      <4>1. PICK j \in DOMAIN polls' : polls'[j].page = p /\ polls'[j].answer = a
        BY <2>3, <3>3 DEF KnownTo
      <4> QED BY <2>1, <3>1, <4>1 DEF KnownTo
    <3> QED BY <3>2, <3>3
  <2> QED BY <2>3
<1> QED BY <1>1, <1>3, <1>4, <1>5, <1>6, <1>7, PageSteps

(* Everything a page knows stays below the node's counters of its epoch.    *)
LEMMA KnownInvNext ==
    ASSUME TypeInv, KnownInv, [Next]_vars
    PROVE  KnownInv'
<1>0. /\ node \in Counters /\ node' \in Counters
      /\ \A p : \A a \in KnownTo(p) : a \in Counters
  BY NodeTypeNext DEF TypeInv, NodeType, KnownTo
<1>1. Upto(node, node)
  BY <1>0, CounterTypes DEF Upto
<1>2. ASSUME UNCHANGED node, NEW p \in Pages, KnownTo(p)' \subseteq KnownTo(p) \cup {node},
             NEW a \in KnownTo(p)'
      PROVE  /\ a.epoch < node'.epoch \/ (a.epoch = node'.epoch /\ Upto(a, node'))
             /\ \A b \in KnownTo(p)' : a.epoch = b.epoch => Upto(a, b) \/ Upto(b, a)
  <2>1. \A b \in KnownTo(p)' : b.epoch < node.epoch \/ (b.epoch = node.epoch /\ Upto(b, node))
    BY <1>1, <1>2 DEF KnownInv
  <2>2. ASSUME NEW b \in KnownTo(p)', a.epoch = b.epoch PROVE Upto(a, b) \/ Upto(b, a)
    <3>1. CASE a \in KnownTo(p) /\ b \in KnownTo(p)
      BY <2>2, <3>1 DEF KnownInv
    <3>2. CASE a = node
      BY <1>0, <2>1, <2>2, <3>2, CounterTypes
    <3>3. CASE b = node
      BY <1>0, <2>1, <2>2, <3>3, CounterTypes
    <3> QED BY <1>2, <3>1, <3>2, <3>3
  <2> QED BY <1>2, <2>1, <2>2
<1>3. CASE UNCHANGED node
  <2>1. \A p \in Pages : KnownTo(p)' \subseteq KnownTo(p) \cup {node}
    BY KnownSteps
  <2> QED BY <1>2, <1>3, <2>1 DEF KnownInv
<1>4. ASSUME UNCHANGED <<pageView, polls, reportView>> PROVE \A p : KnownTo(p)' = KnownTo(p)
  BY <1>4 DEF reportView, KnownTo
<1>5. CASE UNCHANGED <<pageView, polls, reportView>> /\ Restart
  <2>1. node'.epoch = node.epoch + 1
    BY <1>5 DEF Restart
  <2>2. \A p \in Pages : \A a \in KnownTo(p) : a.epoch < node'.epoch
    BY <1>0, <2>1, CounterTypes DEF KnownInv
  <2> QED BY <1>4, <1>5, <2>2 DEF KnownInv
<1>6. ASSUME UNCHANGED <<pageView, polls, reportView>>, NEW op \in Ops, Handles(op)
      PROVE  KnownInv'
  <2>1. node'.epoch = node.epoch /\ Upto(node, node')
    BY <1>6, HandledFacts DEF TypeInv
  <2>2. \A a \in Counters : Upto(a, node) => Upto(a, node')
    BY <1>0, <2>1, CounterTypes DEF Upto
  <2> QED BY <1>0, <1>4, <1>6, <2>1, <2>2 DEF KnownInv
<1> QED BY <1>3, <1>5, <1>6, NodeSteps

(* The pages start knowing nothing. *)
LEMMA KnownInvInit == Init => KnownInv
<1> SUFFICES ASSUME Init PROVE KnownInv
  OBVIOUS
<1>1. \A p \in Pages : KnownTo(p) = {}
  BY Marks DEF Init, KnownTo
<1> QED BY <1>1 DEF KnownInv

-----------------------------------------------------------------------------
(* The reports of evictions. *)

(* A process is followed by a later one, and counts up until then. *)
LEMMA NodeGrows ==
    ASSUME TypeInv, [Next]_vars
    PROVE  /\ node.epoch \in Nat /\ node'.epoch \in Nat /\ node.epoch <= node'.epoch
           /\ node.evictions \in Nat /\ node'.evictions \in Nat
           /\ node.epoch = node'.epoch => node.evictions <= node'.evictions
<1>0. /\ node.epoch \in Nat /\ node'.epoch \in Nat
      /\ node.evictions \in Nat /\ node'.evictions \in Nat
  BY NodeTypeNext, CounterTypes DEF TypeInv, NodeType
<1>1. CASE UNCHANGED node
  BY <1>0, <1>1
<1>2. CASE Restart
  BY <1>0, <1>2 DEF Restart
<1>3. ASSUME NEW op \in Ops, Handles(op)
      PROVE  node'.epoch = node.epoch /\ node.evictions <= node'.evictions
  BY <1>3, HandledFacts DEF TypeInv, Upto
<1> QED BY <1>0, <1>1, <1>2, <1>3, NodeSteps

(* What is reported is what the counter gained since the page's last answer. *)
LEMMA ReportFacts ==
    ASSUME TypeInv, NEW i \in DOMAIN polls, TickSucceeds(i)
    PROVE  LET p == polls[i].page
               m == polls[i].answer
           IN /\ seen[p].evictions \in Nat /\ m.evictions \in Nat /\ first[p] \in Nat
              /\ seen'[p] = m
              /\ \A q \in Pages : q # p => seen'[q] = seen[q] /\ first'[q] = first[q]
              /\ first'[p] = IF seen[p] = None THEN m.evictions ELSE first[p]
              /\ reports \subseteq reports'
              /\ seen[p] # None => \A e \in seen[p].evictions + 1 .. m.evictions :
                    [page |-> p, eviction |-> e, late |-> ~Open(p)] \in reports'
              /\ \A r \in reports' \ reports :
                    /\ seen[p] # None /\ seen[p] \in KnownTo(p) /\ r.page = p
                    /\ seen[p].evictions < r.eviction /\ r.eviction <= m.evictions
                    /\ ~r.late => Open(p)
<1> DEFINE p == polls[i].page
           m == polls[i].answer
<1>1. /\ p \in Pages /\ m \in Counters /\ m # None /\ seen' = [seen EXCEPT ![p] = m]
  BY TickFacts DEF TypeInv
<1>2. Noted(p, m)
  BY DEF TickSucceeds
<1> HIDE DEF p, m
<1>3. seen \in [Pages -> Counters \cup {None}] /\ first \in [Pages -> Nat]
  BY DEF TypeInv, PollsType, ReportsType
<1>4. seen[p].evictions \in Nat /\ m.evictions \in Nat /\ first[p] \in Nat
  BY <1>1, <1>3, Marks, CounterTypes
<1>5. \A q \in Pages : q # p => seen'[q] = seen[q] /\ first'[q] = first[q]
  BY <1>1, <1>2, <1>3 DEF Noted
<1>6. first'[p] = (IF seen[p] = None THEN m.evictions ELSE first[p]) /\ seen'[p] = m
  BY <1>1, <1>2, <1>3 DEF Noted
<1>7. reports' = reports \cup {[page |-> p, eviction |-> e, late |-> ~Open(p)] : e \in evicted(p, m)}
  BY <1>2 DEF Noted
<1>8. seen[p] # None => evicted(p, m) = seen[p].evictions + 1 .. m.evictions
  BY DEF evicted
<1>9. ASSUME NEW r \in reports' \ reports
      PROVE  /\ seen[p] # None /\ seen[p] \in KnownTo(p) /\ r.page = p
             /\ seen[p].evictions < r.eviction /\ r.eviction <= m.evictions
             /\ ~r.late => Open(p)
  <2>1. PICK e \in evicted(p, m) : r = [page |-> p, eviction |-> e, late |-> ~Open(p)]
    BY <1>7
  <2>2. seen[p] # None
    BY <2>1 DEF evicted
  <2>3. seen[p] \in KnownTo(p)
    BY <1>1, <1>3, <2>2 DEF KnownTo
  <2>4. seen[p].evictions < e /\ e <= m.evictions
    BY <1>4, <1>8, <2>1, <2>2
  <2> QED BY <2>1, <2>2, <2>3, <2>4
<1>10. reports \subseteq reports'
  BY <1>7
<1>11. seen[p] # None => \A e \in seen[p].evictions + 1 .. m.evictions :
          [page |-> p, eviction |-> e, late |-> ~Open(p)] \in reports'
  BY <1>7, <1>8
<1> QED BY <1>4, <1>5, <1>6, <1>9, <1>10, <1>11 DEF p, m

(* useNode.ts: an answer taken in reports what is new since the last. *)
LEMMA TickReports ==
    ASSUME TypeInv, KnownInv, ReportInv, [Next]_vars, NEW i \in DOMAIN polls, TickSucceeds(i)
    PROVE  ReportInv'
<1> DEFINE p == polls[i].page
           m == polls[i].answer
<1>1. /\ p \in Pages /\ m \in Counters /\ m \in KnownTo(p)
      /\ UNCHANGED <<node, page, mounted>>
  BY TickFacts DEF TypeInv
<1>2. /\ seen[p].evictions \in Nat /\ m.evictions \in Nat /\ first[p] \in Nat
      /\ seen'[p] = m
      /\ \A q \in Pages : q # p => seen'[q] = seen[q] /\ first'[q] = first[q]
      /\ first'[p] = IF seen[p] = None THEN m.evictions ELSE first[p]
      /\ reports \subseteq reports'
  BY ReportFacts
<1>3. seen[p] # None => \A e \in seen[p].evictions + 1 .. m.evictions :
         [page |-> p, eviction |-> e, late |-> ~Open(p)] \in reports'
  BY ReportFacts
<1>4. \A r \in reports' \ reports :
         /\ seen[p] # None /\ seen[p] \in KnownTo(p) /\ r.page = p
         /\ seen[p].evictions < r.eviction /\ r.eviction <= m.evictions
         /\ ~r.late => Open(p)
  BY ReportFacts
<1>5. \A r \in reports \cup reports' : r.page \in Pages /\ r.page <= page /\ r.eviction \in Nat
  BY <1>1, ReportsTypeNext DEF TypeInv, ReportsType
<1>6. \A q \in Pages : q \in Nat
  BY DashboardAssumption DEF Pages
<1>7. Noted(p, m)
  BY DEF TickSucceeds
<1> HIDE DEF p, m
<1>8. Complete'
  <2> SUFFICES ASSUME NEW q \in Pages, seen'[q] # None,
                      NEW e \in first'[q] + 1 .. seen'[q].evictions
               PROVE  \E r \in reports' : r.page = q /\ r.eviction = e
    BY DEF Complete
  <2>1. CASE q # p
    BY <1>2, <2>1 DEF ReportInv, Complete
  <2>2. CASE q = p /\ seen[p] = None
    BY <1>2, <2>2
  <2>3. CASE q = p /\ seen[p] # None
    <3>1. e \in Int /\ first[p] + 1 <= e /\ e <= m.evictions
      BY <1>2, <2>3
    <3>2. CASE e <= seen[p].evictions
      <4>1. e \in first[p] + 1 .. seen[p].evictions
        BY <1>2, <3>1, <3>2
      <4> QED BY <1>1, <1>2, <2>3, <4>1 DEF ReportInv, Complete
    <3>3. CASE ~(e <= seen[p].evictions)
      <4>1. e \in seen[p].evictions + 1 .. m.evictions
        BY <1>2, <3>1, <3>3
      <4> QED BY <1>3, <2>3, <4>1
    <3> QED BY <3>2, <3>3
  <2> QED BY <2>1, <2>2, <2>3
<1>9. ASSUME node.epoch = 0 PROVE InOrderReports'
  <2>0. InOrderReports
    BY <1>9 DEF ReportInv
  <2>1. ASSUME p \notin overtaken' PROVE seen[p].evictions <= m.evictions /\ p \notin overtaken
    <3>1. p \notin overtaken /\ ~(keyRefreshToken(m) < keyRefreshToken(seen[p]))
      BY <1>7, <2>1 DEF Noted
    <3>2. CASE seen[p] = None
      BY <1>2, <3>1, <3>2, Marks
    <3>3. CASE seen[p] # None
      <4>1. seen[p] \in Counters /\ seen[p] \in KnownTo(p)
        BY <1>1, <3>3 DEF TypeInv, PollsType, KnownTo
      <4>2. m.epoch = 0 /\ seen[p].epoch = 0
        BY <1>1, <1>9, <4>1, CounterTypes DEF KnownInv
      <4>3. Upto(m, seen[p]) \/ Upto(seen[p], m)
        BY <1>1, <4>1, <4>2 DEF KnownInv
      <4>4. CASE Upto(m, seen[p]) /\ m.evictions < seen[p].evictions
        <5>1. keyRefreshToken(m) < keyRefreshToken(seen[p])
          BY <1>1, <4>1, <4>4, CounterTypes DEF keyRefreshToken, Upto
        <5> QED BY <3>1, <5>1
      <4> QED BY <1>2, <3>1, <4>3, <4>4 DEF Upto
    <3> QED BY <3>2, <3>3
  <2>2. overtaken \subseteq overtaken'
    BY <1>7 DEF Noted
  <2>3. again' \subseteq overtaken'
    <3> SUFFICES ASSUME p \in again', p \notin again PROVE p \in overtaken'
      BY <1>7, <2>0, <2>2 DEF Noted, InOrderReports
    <3>1. PICK e \in evicted(p, m) : \E r \in reports : r.page = p /\ r.eviction = e
      BY <1>7 DEF Noted
    <3>2. e > seen[p].evictions
      BY <1>2, <3>1 DEF evicted
    <3>3. p \in overtaken
      BY <1>2, <1>5, <2>0, <3>1, <3>2 DEF InOrderReports
    <3> QED BY <2>2, <3>3
  <2>4. ASSUME NEW r \in reports', r.page \notin overtaken' PROVE r.eviction <= seen'[r.page].evictions
    <3>1. CASE r \in reports /\ r.page # p
      BY <1>2, <1>5, <2>0, <2>2, <2>4, <3>1 DEF InOrderReports
    <3>2. CASE r \in reports /\ r.page = p
      <4>1. r.eviction <= seen[p].evictions /\ r.eviction \in Nat
        BY <1>5, <2>0, <2>1, <2>4, <3>2 DEF InOrderReports
      <4> QED BY <1>2, <2>1, <2>4, <3>2, <4>1
    <3>3. CASE r \notin reports
      BY <1>2, <1>4, <2>4, <3>3
    <3> QED BY <3>1, <3>2, <3>3
  <2> QED BY <2>3, <2>4 DEF InOrderReports
<1>10. ASSUME node.epoch = 0 PROVE OpenReports'
  <2>0. OpenReports
    BY <1>10 DEF ReportInv
  <2>1. node.evictions \in Nat /\ m.evictions <= node.evictions
    BY <1>1, <1>10, NodeGrows, CounterTypes DEF KnownInv, Upto
  <2>2. ASSUME NEW r \in reports, ~r.late
        PROVE  /\ r.eviction <= node.evictions
               /\ \A q \in Pages : r.page < q => \A a \in KnownTo(q)' : r.eviction <= a.evictions
               /\ \A s \in reports' : r.page < s.page => r.eviction < s.eviction
    <3>1. r.eviction <= node.evictions
      BY <2>0, <2>2 DEF OpenReports
    <3>2. \A q \in Pages : KnownTo(q)' \subseteq KnownTo(q) \cup {node}
      BY KnownSteps
    <3>3. ASSUME NEW s \in reports' \ reports, r.page < s.page PROVE r.eviction < s.eviction
      <4>1. r.page < p /\ seen[p] \in KnownTo(p) /\ seen[p].evictions < s.eviction
        BY <1>4, <3>3
      <4>2. r.eviction <= seen[p].evictions
        BY <1>1, <2>0, <2>2, <4>1 DEF OpenReports
      <4> QED BY <1>2, <1>5, <3>3, <4>1, <4>2
    <3> QED BY <2>0, <2>2, <3>1, <3>2, <3>3 DEF OpenReports
  <2>3. ASSUME NEW r \in reports' \ reports, ~r.late
        PROVE  /\ r.eviction <= node.evictions
               /\ \A q \in Pages : r.page < q => KnownTo(q)' = {}
               /\ \A s \in reports' : ~(r.page < s.page)
    <3>1. r.page = page /\ page \in Pages
      BY <1>1, <1>4, <2>3 DEF Open
    <3>2. r.eviction <= node.evictions
      BY <1>2, <1>4, <1>5, <2>1, <2>3
    <3>3. ASSUME NEW q \in Pages, page < q PROVE KnownTo(q)' = {}
      <4>1. seen'[q] = None
        BY <1>1, <1>6, <3>1, <3>3, PollsTypeNext DEF PollsType
      <4>2. \A j \in DOMAIN polls' : polls'[j].page # q
        <5>1. \A j \in DOMAIN polls' : polls'[j].page <= page
          BY <1>1, PollsTypeNext DEF PollsType
        <5> QED BY <1>6, <3>1, <3>3, <5>1
      <4> QED BY <4>1, <4>2, Marks DEF KnownTo
    <3>4. \A s \in reports' : ~(r.page < s.page)
      BY <1>5, <1>6, <3>1
    <3> QED BY <3>1, <3>2, <3>3, <3>4
  <2> QED BY <1>1, <2>2, <2>3 DEF OpenReports
<1> QED BY <1>1, <1>8, <1>9, <1>10 DEF ReportInv

(* Whatever else happens, the reports stay what they are, and what is still *)
(* to be taken in does not get older.                                       *)
LEMMA ReportInvNext ==
    ASSUME TypeInv, KnownInv, ReportInv, [Next]_vars
    PROVE  ReportInv'
<1>1. CASE \E i \in DOMAIN polls : TickSucceeds(i)
  BY <1>1, TickReports
<1>2. CASE UNCHANGED reportView
  <2>1. UNCHANGED <<seen, first, reports, again, overtaken>>
    BY <1>2 DEF reportView
  <2>2. Complete'
    BY <2>1 DEF ReportInv, Complete
  <2>3. ASSUME node'.epoch = 0 PROVE node.epoch = 0 /\ node.evictions <= node'.evictions
    BY <2>3, NodeGrows
  <2>4. ASSUME node'.epoch = 0 PROVE InOrderReports'
    BY <2>1, <2>3, <2>4 DEF ReportInv, InOrderReports
  <2>5. ASSUME node'.epoch = 0 PROVE OpenReports'
    <3>1. OpenReports
      BY <2>3, <2>5 DEF ReportInv
    <3>2. SUFFICES ASSUME NEW r \in reports, ~r.late
                   PROVE  /\ r.eviction <= node'.evictions
                          /\ \A q \in Pages : r.page < q => \A a \in KnownTo(q)' : r.eviction <= a.evictions
                          /\ \A s \in reports : r.page < s.page => r.eviction < s.eviction
      BY <2>1 DEF OpenReports
    <3>3. r.eviction <= node.evictions /\ r.eviction \in Nat
      BY <3>1, <3>2 DEF OpenReports, TypeInv, ReportsType
    <3>4. r.eviction <= node'.evictions
      BY <2>3, <2>5, <3>3, NodeGrows
    <3>5. \A q \in Pages : KnownTo(q)' \subseteq KnownTo(q) \cup {node}
      BY KnownSteps
    <3> QED BY <3>1, <3>2, <3>3, <3>4, <3>5 DEF OpenReports
  <2> QED BY <2>2, <2>4, <2>5 DEF ReportInv
<1> QED BY <1>1, <1>2, PageSteps DEF Mount, Unmount, Tick, AnswerPoll, PollFails, TickFails

(* useNode.ts: while the node does not start anew, every eviction between   *)
(* the first answer of a page and its last is reported; by one page twice   *)
(* only after an answer was overtaken, and by two pages only if the earlier *)
(* one reported it after it was left.                                       *)
THEOREM EvictionReports == Spec => []EvictionsReported
<1>1. Init => ReportInv
  BY DEF Init, ReportInv, Complete, InOrderReports, OpenReports
<1>2. TypeInv /\ ReportInv => EvictionsReported
  <2> SUFFICES ASSUME TypeInv, ReportInv, node.epoch = 0
               PROVE  /\ again \subseteq overtaken
                      /\ \A r, s \in reports : r.page < s.page /\ r.eviction = s.eviction => r.late
                      /\ Complete
    BY DEF EvictionsReported, Complete
  <2>1. \A r \in reports : r.eviction \in Nat
    BY DEF TypeInv, ReportsType
  <2> QED BY <2>1 DEF ReportInv, InOrderReports, OpenReports
<1> QED BY <1>1, <1>2, TypeInvInit, TypeInvNext, KnownInvInit, KnownInvNext, ReportInvNext, PTL DEF Spec

-----------------------------------------------------------------------------
(* The keys on the page. *)

(* Whatever is newer than the token stays so while the token does. *)
LEMMA NewerSame ==
    ASSUME tokenEpoch' = tokenEpoch, keyRefreshToken(metrics') = keyRefreshToken(metrics)
    PROVE  \A a : Newer(a)' <=> Newer(a)
BY DEF Newer

(* What the page shows changes when it is left and by an answer it awaited.  *)
LEMMA MetricsSteps ==
    ASSUME TypeInv, [Next]_vars
    PROVE  \/ metrics' = metrics
           \/ Unmount
           \/ \E i \in DOMAIN polls : TickSucceeds(i) /\ Open(polls[i].page)
<1>0. PageType /\ PollsType
  BY DEF TypeInv
<1>1. CASE UNCHANGED <<mounted, page, seen>>
  BY <1>1 DEF metrics
<1>2. CASE Mount
  <2>1. page + 1 \in Pages /\ page + 1 > page
    BY <1>0, <1>2, DashboardAssumption DEF Mount, Pages, PageType
  <2>2. ~mounted /\ mounted' /\ page' = page + 1 /\ seen'[page + 1] = None
    BY <1>0, <1>2, <2>1 DEF Mount, PollsType, reportView
  <2> QED BY <2>2 DEF metrics
<1>3. ASSUME NEW i \in DOMAIN polls, TickSucceeds(i), ~Open(polls[i].page) PROVE metrics' = metrics
  <2>1. /\ polls[i].page \in Pages /\ UNCHANGED <<page, mounted>>
        /\ seen' = [seen EXCEPT ![polls[i].page] = polls[i].answer]
    BY <1>0, <1>3, TickFacts
  <2>2. mounted => page # polls[i].page
    BY <1>3 DEF Open
  <2>3. \A p : p # polls[i].page => seen'[p] = seen[p]
    BY <1>0, <2>1 DEF PollsType
  <2> QED BY <2>1, <2>2, <2>3 DEF metrics
<1> QED BY <1>1, <1>2, <1>3, PageSteps
        DEF pageView, reportView, Tick, AnswerPoll, PollFails, TickFails

(* The keys shown, or the fetch that counts, are at least as new as the     *)
(* token of the metrics shown.                                              *)
LEMMA KeyInvNext ==
    ASSUME TypeInv, KnownInv, KeyInv, [Next]_vars
    PROVE  KeyInv'
<1>0. /\ node \in Counters /\ node' \in Counters
      /\ tokenEpoch \in Int /\ keyRefreshToken(metrics) \in Int
      /\ fetches \in Seq(Fetches) /\ KeysType
  <2>1. node \in Counters /\ node' \in Counters
    BY NodeTypeNext DEF TypeInv, NodeType
  <2>2. keyRefreshToken(metrics) \in Int
    <3>1. metrics \in Counters \cup {None}
      BY DEF metrics, TypeInv, PageType, PollsType, Pages
    <3> QED BY <3>1, Marks, CounterTypes
  <2>3. tokenEpoch \in Int
    BY DashboardAssumption DEF TypeInv, KeysType
  <2> QED BY <2>1, <2>2, <2>3 DEF TypeInv, KeysType
<1>1. ASSUME UNCHANGED tokenEpoch, keyRefreshToken(metrics') = keyRefreshToken(metrics)
      PROVE  /\ \A a : Newer(a)' <=> Newer(a)
             /\ Newer(node)'
  <2>1. \A a : Newer(a)' <=> Newer(a)
    BY <1>1, NewerSame
  <2>2. CASE UNCHANGED node
    BY <2>1, <2>2 DEF KeyInv
  <2>3. CASE Restart
    <3>1. node'.epoch = node.epoch + 1
      BY <2>3 DEF Restart
    <3>2. node.epoch >= tokenEpoch
      BY <1>0, CounterTypes DEF KeyInv, Newer
    <3>3. Newer(node')
      BY <1>0, <3>1, <3>2, CounterTypes DEF Newer
    <3> QED BY <2>1, <3>3
  <2>4. ASSUME NEW op \in Ops, Handles(op) PROVE Newer(node)'
    <3>1. node'.epoch = node.epoch /\ Upto(node, node')
      BY <2>4, HandledFacts DEF TypeInv
    <3>2. keyRefreshToken(node') >= keyRefreshToken(node)
      BY SMTT(30), <1>0, <3>1, CounterTypes DEF Upto, keyRefreshToken
    <3>3. Newer(node')
      BY <1>0, <3>1, <3>2, CounterTypes DEF KeyInv, Newer
    <3> QED BY <2>1, <3>3
  <2> QED BY <2>1, <2>2, <2>3, <2>4, NodeSteps
<1>2. CASE UNCHANGED <<keyStats, fetches, tokenEpoch>>
           /\ keyRefreshToken(metrics') = keyRefreshToken(metrics)
  BY <1>1, <1>2 DEF KeyInv
<1>3. CASE Mount
  <2>1. UNCHANGED tokenEpoch /\ metrics' = metrics
    <3>1. ~Unmount /\ ~\E i \in DOMAIN polls : Open(polls[i].page)
      BY <1>3 DEF Mount, Unmount, Open
    <3> QED BY <1>3, <3>1, MetricsSteps DEF Mount
  <2>2. \A i \in DOMAIN fetches : fetches[i].cancelled
    BY <1>3 DEF Mount, TypeInv, KeysType
  <2>3. /\ DOMAIN fetches' = 1 .. Len(fetches) + 1 /\ Len(fetches) \in Nat
        /\ \A j \in 1 .. Len(fetches) : fetches'[j].cancelled
        /\ ~fetches'[Len(fetches) + 1].cancelled /\ fetches'[Len(fetches) + 1].answer = Sent
    BY <1>0, <1>3, <2>2, RefetchFacts DEF Mount
  <2>4. \A j \in DOMAIN fetches' : fetches'[j].cancelled \/ ~Answered(fetches'[j].answer)
    BY <2>3, Marks
  <2>5. \E j \in DOMAIN fetches' : ~fetches'[j].cancelled
    BY <2>3
  <2>6. Newer(node)'
    BY <1>1, <2>1
  <2> QED BY <2>4, <2>5, <2>6 DEF KeyInv
<1>4. CASE Unmount
  <2>1. Newer(node)'
    BY <1>0, <1>4, CounterTypes DEF Unmount, Newer
  <2>2. \A i \in DOMAIN fetches' : fetches'[i].cancelled
    BY <1>0, <1>4, CancelledFacts DEF Unmount
  <2> QED BY <1>4, <2>1, <2>2 DEF Unmount, KeyInv
<1>5. ASSUME NEW i \in DOMAIN polls, TickSucceeds(i), Open(polls[i].page) PROVE KeyInv'
  <2> DEFINE m == polls[i].answer
  <2>0. /\ m \in Counters /\ polls[i].page \in Pages /\ m \in KnownTo(polls[i].page)
        /\ seen' = [seen EXCEPT ![polls[i].page] = m]
        /\ UNCHANGED <<node, page, mounted>>
    BY <1>5, TickFacts DEF TypeInv
  <2>1. metrics' = m /\ UNCHANGED node
    BY <1>5, <2>0 DEF Open, metrics, TypeInv, PollsType
  <2>2. CASE keyRefreshToken(m) = keyRefreshToken(metrics)
    BY <1>2, <1>5, <2>1, <2>2 DEF TickSucceeds, useKeyStats, keyView
  <2>3. CASE keyRefreshToken(m) # keyRefreshToken(metrics)
    <3>1. /\ fetches' = Append(cancelled, [cancelled |-> FALSE, answer |-> Sent])
          /\ tokenEpoch' = m.epoch
      BY <1>5, <2>3 DEF TickSucceeds, useKeyStats, keyView
    <3>4. Newer(node)'
      <4>1. m.epoch < node.epoch \/ (m.epoch = node.epoch /\ Upto(m, node))
        BY <2>0 DEF KnownInv
      <4>2. Upto(m, node) => keyRefreshToken(node) >= keyRefreshToken(m)
        BY SMTT(30), <1>0, <2>0, CounterTypes DEF Upto, keyRefreshToken
      <4> QED BY <1>0, <2>0, <2>1, <3>1, <4>1, <4>2, CounterTypes DEF Newer
    <3>5. /\ DOMAIN fetches' = 1 .. Len(cancelled) + 1 /\ Len(cancelled) \in Nat
          /\ \A j \in 1 .. Len(cancelled) : fetches'[j].cancelled
          /\ ~fetches'[Len(cancelled) + 1].cancelled /\ fetches'[Len(cancelled) + 1].answer = Sent
      BY <1>0, <3>1, CancelledFacts, RefetchFacts
    <3>6. \A j \in DOMAIN fetches' : fetches'[j].cancelled \/ ~Answered(fetches'[j].answer)
      BY <3>5, Marks
    <3>7. \E j \in DOMAIN fetches' : ~fetches'[j].cancelled
      BY <3>5
    <3> QED BY <3>4, <3>6, <3>7 DEF KeyInv
  <2> QED BY <2>2, <2>3
<1>6. ASSUME NEW i \in DOMAIN fetches, AnswerFetch(i) \/ FetchFails(i) PROVE KeyInv'
  <2>1. PICK a \in {node, Failed} : fetches' = [fetches EXCEPT ![i].answer = a]
    BY <1>6 DEF AnswerFetch, FetchFails
  <2>2. /\ DOMAIN fetches' = DOMAIN fetches
        /\ \A j \in DOMAIN fetches :
              /\ fetches'[j].cancelled = fetches[j].cancelled
              /\ fetches'[j].answer = IF j = i THEN a ELSE fetches[j].answer
    BY <1>0, <2>1 DEF Fetches
  <2>3. UNCHANGED <<tokenEpoch, metrics, keyStats>>
    BY <1>6 DEF AnswerFetch, FetchFails, pageView, reportView, metrics
  <2>4. Newer(node)' /\ \A b : Newer(b)' <=> Newer(b)
    BY <1>1, <2>3
  <2>5. Answered(a) => Newer(a)
    BY <2>1, Marks DEF KeyInv
  <2> QED BY <2>2, <2>3, <2>4, <2>5 DEF KeyInv
<1>7. ASSUME NEW i \in DOMAIN fetches, KeyStatsSettle(i) PROVE KeyInv'
  <2>1. /\ DOMAIN fetches' = 1 .. Len(fetches) - 1
        /\ \A j \in 1 .. Len(fetches) - 1 :
              fetches'[j] = IF j < i THEN fetches[j] ELSE fetches[j + 1]
    <3>1. fetches' = RemoveAt(fetches, i) /\ i \in 1 .. Len(fetches)
      BY <1>0, <1>7 DEF KeyStatsSettle
    <3>2. /\ fetches' \in Seq(Fetches) /\ Len(fetches') = Len(fetches) - 1
          /\ \A j \in 1 .. Len(fetches) - 1 :
                fetches'[j] = IF j < i THEN fetches[j] ELSE fetches[j + 1]
      BY <1>0, <3>1, RemoveAtProperties
    <3> QED BY <3>2
  <2>2. ASSUME NEW j \in DOMAIN fetches' PROVE \E k \in DOMAIN fetches : fetches'[j] = fetches[k]
    <3>1. j \in DOMAIN fetches /\ j + 1 \in DOMAIN fetches
      BY <1>0, <2>1
    <3> QED BY <2>1, <3>1
  <2>3. UNCHANGED <<tokenEpoch, metrics>>
    BY <1>7 DEF KeyStatsSettle, pageView, reportView, metrics
  <2>4. Newer(node)' /\ \A b : Newer(b)' <=> Newer(b)
    BY <1>1, <2>3
  <2>5. CASE fetches[i].cancelled
    <3>1. keyStats' = keyStats
      BY <1>7, <2>5 DEF KeyStatsSettle
    <3>2. ASSUME \A j \in DOMAIN fetches' : fetches'[j].cancelled, NEW k \in DOMAIN fetches
          PROVE  fetches[k].cancelled
      <4>1. CASE k = i
        BY <2>5, <4>1
      <4>2. CASE k < i
        BY <1>0, <2>1, <3>2, <4>2
      <4>3. CASE k > i
        <5>1. k - 1 \in DOMAIN fetches' /\ ~(k - 1 < i) /\ (k - 1) + 1 = k
          BY <1>0, <2>1, <4>3
        <5> QED BY <2>1, <3>2, <5>1
      <4> QED BY <1>0, <4>1, <4>2, <4>3
    <3> QED BY <2>2, <2>4, <3>1, <3>2 DEF KeyInv
  <2>6. CASE ~fetches[i].cancelled
    <3>1. keyStats' = None \/ Newer(keyStats')
      BY <1>7, <2>6 DEF KeyStatsSettle, KeyInv
    <3> QED BY <2>2, <2>4, <3>1 DEF KeyInv
  <2> QED BY <2>5, <2>6
<1>8. CASE UNCHANGED keyView /\ metrics' = metrics
  BY <1>2, <1>8 DEF keyView
<1>9. ASSUME NEW i \in DOMAIN polls, TickSucceeds(i), ~Open(polls[i].page) PROVE UNCHANGED keyView
  BY <1>9 DEF TickSucceeds
<1> QED BY <1>3, <1>4, <1>5, <1>6, <1>7, <1>8, <1>9, KeysSteps, MetricsSteps

(* useKeyStats.ts: when no fetch of the page is out, its keys have every    *)
(* change that its counters have: the answer of a cancelled                *)
(* fetch never replaces newer keys, whichever order the answers come in.    *)
THEOREM KeyViewIsFresh == Spec => []KeyViewFollowsMetrics
<1>1. Init => KeyInv
  BY Marks DEF Init, KeyInv, Newer
<1>2. KeyInv => KeyViewFollowsMetrics
  BY DEF KeyInv, Newer, KeyViewFollowsMetrics
<1> QED BY <1>1, <1>2, TypeInvInit, TypeInvNext, KnownInvInit, KnownInvNext, KeyInvNext, PTL DEF Spec
=============================================================================
