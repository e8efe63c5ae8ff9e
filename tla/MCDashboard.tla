----------------------------- MODULE MCDashboard -----------------------------
(* Three workloads for Dashboard.  Every step of each is a step of its Next.*)
(*                                                                          *)
(*   simulator  everything happens, but little of it at the same time       *)
(*   keys       counters move and the node restarts while polls and fetches *)
(*              overlap; without the simulator, without evictions, and      *)
(*              without polls that fail, which change the status alone      *)
(*   reports    the node evicts while more polls overlap; fetches fail, as  *)
(*              the keys do not matter                                      *)
EXTENDS Dashboard

VARIABLE workload

MCInit == Init /\ workload \in {"simulator", "keys", "reports"}

Simulator ==
    /\ Next
    /\ node'.epoch = 0 /\ node'.changes <= 1 /\ node'.evictions <= 1
    /\ Len(polls') <= 1 /\ Len(fetches') <= 1

PageNext ==
    \/ Mount \/ Unmount \/ Tick \/ \E op \in Ops : OtherClient(op)
    \/ \E i \in DOMAIN polls : AnswerPoll(i) \/ TickSucceeds(i)
    \/ \E i \in DOMAIN fetches : FetchFails(i) \/ KeyStatsSettle(i)

KeysNext ==
    /\ PageNext \/ Restart \/ \E i \in DOMAIN fetches : AnswerFetch(i)
    /\ node'.evictions = 0 /\ node'.changes + node'.epoch <= 2
    /\ Len(polls') <= 2

Reports ==
    /\ PageNext
    /\ node'.changes = 0
    /\ Len(fetches') <= 1

MCNext ==
    /\ \/ workload = "simulator" /\ Simulator
       \/ workload = "keys" /\ KeysNext
       \/ workload = "reports" /\ Reports
    /\ UNCHANGED workload

MCSpec == MCInit /\ [][MCNext]_<<vars, workload>>
=============================================================================
