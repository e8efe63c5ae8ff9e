----------------------------- MODULE MCRequests -----------------------------
(* Three workloads for RequestHistory, each aimed at one of the summaries.  *)
(* Every step of each is a step of its Next.  Clients and keys are numbers, *)
(* and come into play in their order: any other order is the same but for   *)
(* the names.                                                               *)
(*                                                                          *)
(*   limits  what becomes of a request the limiter let in does not matter   *)
(*   mix     one client, two keys, everything a request can be              *)
(*   reads   clients the limiter does not know, which read and wait for the *)
(*           answer, at the same time: so none is refused                   *)
EXTENDS RequestHistory

VARIABLE workload

MCInit == HistoryInit /\ workload \in {"limits", "mix", "reads"}

ClientsInTurn == \A c, d \in Clients : d < c /\ passed'[c] # <<>> => passed'[d] # <<>>

KeysInTurn ==
    \A i \in DOMAIN reads' : \A k \in Keys : k < reads'[i] => k \in {reads'[j] : j \in 1 .. i}

Limits ==
    /\ \/ \E c \in Clients : Refused(c) \/ LetIn(c)
       \/ Tick /\ UNCHANGED history
    /\ PassedSoFar <= 7
    /\ ClientsInTurn

Mix ==
    /\ \/ \E c \in Clients : c = 1 /\ PassedSoFar < 4 /\ Arrival(c) /\ passed' # passed
       \/ Route
       \/ Tick /\ UNCHANGED history
    /\ \A i \in DOMAIN reads' : reads'[i] <= 2

Reads ==
    \/ \E c \in Clients \ Tracked(buckets) : reading = 0 /\ LetIn(c) /\ ClientsInTurn
    \/ \E k \in Keys : Read(k, TRUE) /\ KeysInTurn

MCNext ==
    /\ \/ workload = "limits" /\ Limits
       \/ workload = "mix" /\ Mix
       \/ workload = "reads" /\ Reads
    /\ UNCHANGED workload

MCSpec == MCInit /\ [][MCNext]_<<vars, workload>>

Latencies == [get |-> 1, set |-> 2, delete |-> 3]
=============================================================================
