--------------------------- MODULE GatewayProofs ---------------------------
(* Theorems about Gateway, for every set of gateways and of nodes. *)
EXTENDS Gateway, TLAPS

Lists == [from : Gateways, to : Gateways, nodes : SUBSET Nodes]
Healths == [Gateways -> [Nodes -> {"up", "down", "unknown"}]]
Rings == [Gateways -> SUBSET Nodes]

(* The map and the router move together, whoever calls addNode(), ... *)
LEMMA AddNodesEffect ==
    ASSUME NEW g \in Gateways, NEW S \in SUBSET Nodes,
           health \in Healths, ring \in Rings, RingMatchesHealth, addNodes(g, S)
    PROVE  health' \in Healths /\ ring' \in Rings /\ RingMatchesHealth'
<1> DEFINE new == S \ Known(g)
<1>1. /\ health' = [health EXCEPT ![g] = [n \in Nodes |-> IF n \in new THEN "up" ELSE health[g][n]]]
      /\ ring' = [ring EXCEPT ![g] = ring[g] \cup new]
  BY DEF addNodes, Healths, Rings
<1>2. new \subseteq Nodes
  OBVIOUS
<1> HIDE DEF new
<1>3. health' \in Healths /\ ring' \in Rings
  BY <1>1, <1>2 DEF Healths, Rings
<1>4. ring'[g] = {n \in Nodes : health'[g][n] = "up"}
  BY <1>1, <1>2 DEF Healths, Rings, RingMatchesHealth
<1>5. \A h \in Gateways \ {g} : health'[h] = health[h] /\ ring'[h] = ring[h]
  BY <1>1 DEF Healths, Rings
<1> QED BY <1>3, <1>4, <1>5 DEF RingMatchesHealth

(* ... removeNode() ... *)
LEMMA RemoveNodeEffect ==
    ASSUME NEW g \in Gateways, NEW n \in Nodes,
           health \in Healths, ring \in Rings, RingMatchesHealth, removeNode(g, n)
    PROVE  health' \in Healths /\ ring' \in Rings /\ RingMatchesHealth'
<1>1. /\ health' = [health EXCEPT ![g] = [health[g] EXCEPT ![n] = "unknown"]]
      /\ ring' = [ring EXCEPT ![g] = ring[g] \ {n}]
  BY DEF removeNode, Healths, Rings
<1>2. health' \in Healths /\ ring' \in Rings
  BY <1>1 DEF Healths, Rings
<1>3. ring'[g] = {x \in Nodes : health'[g][x] = "up"}
  BY <1>1 DEF Healths, Rings, RingMatchesHealth
<1>4. \A h \in Gateways \ {g} : health'[h] = health[h] /\ ring'[h] = ring[h]
  BY <1>1 DEF Healths, Rings
<1> QED BY <1>2, <1>3, <1>4 DEF RingMatchesHealth

(* ... or ends a check; and a check makes no node known or unknown. *)
LEMMA VerdictEffect ==
    ASSUME NEW g \in Gateways, NEW n \in Nodes, NEW healthy \in BOOLEAN,
           health \in Healths, ring \in Rings, RingMatchesHealth, Verdict(g, n, healthy)
    PROVE  /\ health' \in Healths /\ ring' \in Rings /\ RingMatchesHealth'
           /\ \A h \in Gateways : Known(h)' = Known(h)
<1> DEFINE verdict == IF healthy THEN "up" ELSE "down"
<1>1. CASE health[g][n] \in {"unknown", verdict}
  BY <1>1 DEF Verdict, RingMatchesHealth, Known
<1>2. CASE health[g][n] \notin {"unknown", verdict}
  <2>1. /\ health' = [health EXCEPT ![g] = [health[g] EXCEPT ![n] = verdict]]
        /\ ring' = [ring EXCEPT ![g] = IF healthy THEN ring[g] \cup {n} ELSE ring[g] \ {n}]
    BY <1>2 DEF Verdict, Healths, Rings
  <2>2. health' \in Healths /\ ring' \in Rings
    BY <2>1 DEF Healths, Rings
  <2>3. ring'[g] = {x \in Nodes : health'[g][x] = "up"}
    <3>1. CASE healthy
      BY <2>1, <3>1 DEF Healths, Rings, RingMatchesHealth
    <3>2. CASE ~healthy
      BY <2>1, <3>2 DEF Healths, Rings, RingMatchesHealth
    <3> QED BY <3>1, <3>2
  <2>4. \A h \in Gateways \ {g} : health'[h] = health[h] /\ ring'[h] = ring[h]
    BY <2>1 DEF Healths, Rings
  <2>5. \A x \in Nodes : health'[g][x] = "unknown" <=> health[g][x] = "unknown"
    BY <1>2, <2>1 DEF Healths
  <2>6. \A h \in Gateways : Known(h)' = Known(h)
    BY <2>4, <2>5 DEF Known
  <2> QED BY <2>2, <2>3, <2>4, <2>6 DEF RingMatchesHealth
<1> QED BY <1>1, <1>2

-----------------------------------------------------------------------------

(* The inductive invariant. *)
GatewayInv == TypeOK /\ RingMatchesHealth

LEMMA GatewayInit == Init => GatewayInv
  BY ConfiguredAssumption, MaxChangesAssumption
     DEF Init, GatewayInv, TypeOK, RingMatchesHealth

LEMMA GatewayStep == GatewayInv /\ [Next]_vars => GatewayInv'
<1> SUFFICES ASSUME GatewayInv, [Next]_vars PROVE GatewayInv'
  OBVIOUS
<1>0. /\ TypeOK /\ RingMatchesHealth /\ health \in Healths /\ ring \in Rings
      /\ syncRequests \subseteq Lists /\ syncReplies \subseteq Lists
  BY DEF GatewayInv, TypeOK, Healths, Rings, Lists
<1>1. CASE UNCHANGED vars
  BY <1>0, <1>1 DEF GatewayInv, TypeOK, RingMatchesHealth, vars, checkVars, syncVars, historyVars
<1>2. ASSUME NEW n \in Nodes, Crash(n) \/ Recover(n) PROVE GatewayInv'
  BY <1>0, <1>2 DEF Crash, Recover, GatewayInv, TypeOK, RingMatchesHealth,
                    checkVars, syncVars, historyVars
<1>3. ASSUME NEW g \in Gateways, NEW n \in Nodes, Register(g, n) PROVE GatewayInv'
  <2>1. health' \in Healths /\ ring' \in Rings /\ RingMatchesHealth'
    BY <1>0, <1>3, AddNodesEffect DEF Register
  <2>2. removed' \in [Gateways -> SUBSET Nodes] /\ changes' \in 0 .. MaxChanges
    BY <1>0, <1>3, MaxChangesAssumption DEF Register, TypeOK
  <2> QED BY <1>0, <1>3, <2>1, <2>2
          DEF Register, GatewayInv, TypeOK, Healths, Rings, checkVars, syncVars
<1>4. ASSUME NEW g \in Gateways, NEW n \in Nodes, Deregister(g, n) PROVE GatewayInv'
  <2>1. health' \in Healths /\ ring' \in Rings /\ RingMatchesHealth'
    BY <1>0, <1>4, RemoveNodeEffect DEF Deregister
  <2>2. removed' \in [Gateways -> SUBSET Nodes] /\ changes' \in 0 .. MaxChanges
    BY <1>0, <1>4, MaxChangesAssumption DEF Deregister, TypeOK
  <2> QED BY <1>0, <1>4, <2>1, <2>2
          DEF Deregister, GatewayInv, TypeOK, Healths, Rings, checkVars, syncVars
<1>5. ASSUME NEW g \in Gateways, checkAll(g) PROVE GatewayInv'
  <2>1. asked' \in [Gateways -> SUBSET Nodes]
    BY <1>0, <1>5 DEF checkAll, TypeOK, Known
  <2> QED BY <1>0, <1>5, <2>1
          DEF checkAll, GatewayInv, TypeOK, RingMatchesHealth, syncVars, historyVars
<1>6. ASSUME NEW g \in Gateways, NEW n \in Nodes, Answer(g, n) PROVE GatewayInv'
  BY <1>0, <1>6 DEF Answer, GatewayInv, TypeOK, RingMatchesHealth, syncVars, historyVars
<1>7. ASSUME NEW g \in Gateways, NEW n \in Nodes, CheckOk(g, n) PROVE GatewayInv'
  <2>1. health' \in Healths /\ ring' \in Rings /\ RingMatchesHealth'
    BY <1>0, <1>7, VerdictEffect DEF CheckOk
  <2>2. answered' \in [Gateways -> SUBSET Nodes]
    BY <1>0, <1>7 DEF CheckOk, TypeOK
  <2> QED BY <1>0, <1>7, <2>1, <2>2
          DEF CheckOk, GatewayInv, TypeOK, Healths, Rings, syncVars, historyVars
<1>8. ASSUME NEW g \in Gateways, NEW n \in Nodes, CheckFailed(g, n) PROVE GatewayInv'
  <2>1. health' \in Healths /\ ring' \in Rings /\ RingMatchesHealth'
    BY <1>0, <1>8, VerdictEffect DEF CheckFailed
  <2>2. asked' \in [Gateways -> SUBSET Nodes] /\ answered' \in [Gateways -> SUBSET Nodes]
    BY <1>0, <1>8 DEF CheckFailed, TypeOK
  <2> QED BY <1>0, <1>8, <2>1, <2>2
          DEF CheckFailed, GatewayInv, TypeOK, Healths, Rings, syncVars, historyVars
<1>9. ASSUME NEW g \in Gateways, NEW h \in Peers(g), SendSync(g, h) PROVE GatewayInv'
  <2>1. [from |-> g, to |-> h, nodes |-> Known(g)] \in Lists /\ h # g
    BY DEF Lists, Peers, Known
  <2>2. /\ syncRequests' \subseteq Lists
        /\ \A m \in syncRequests' \cup syncReplies' : m.from # m.to
    BY <1>0, <1>9, <2>1 DEF SendSync, TypeOK
  <2> QED BY <1>0, <1>9, <2>2
          DEF SendSync, GatewayInv, TypeOK, RingMatchesHealth, Lists, checkVars, historyVars
<1>10. ASSUME NEW m \in syncRequests, HandleSync(m) PROVE GatewayInv'
  <2>1. m \in Lists /\ m.to \in Gateways /\ m.from \in Gateways /\ m.nodes \in SUBSET Nodes
        /\ m.from # m.to
    BY <1>0 DEF Lists, TypeOK
  <2>2. health' \in Healths /\ ring' \in Rings /\ RingMatchesHealth'
    BY <1>0, <1>10, <2>1, AddNodesEffect DEF HandleSync
  <2> DEFINE answer == [from |-> m.to, to |-> m.from, nodes |-> Known(m.to) \cup m.nodes]
  <2>3. answer \in Lists /\ answer.from # answer.to
    BY <2>1 DEF Lists, Known
  <2>5. syncRequests' = syncRequests \ {m} /\ syncReplies' = syncReplies \cup {answer}
    BY <1>10 DEF HandleSync
  <2> HIDE DEF answer
  <2>4. /\ syncRequests' \subseteq Lists /\ syncReplies' \subseteq Lists
        /\ \A x \in syncRequests' \cup syncReplies' : x.from # x.to
    BY <1>0, <2>3, <2>5 DEF TypeOK
  <2> QED BY <1>0, <1>10, <2>2, <2>4
          DEF HandleSync, GatewayInv, TypeOK, Healths, Rings, Lists, checkVars, historyVars
<1>11. ASSUME NEW m \in syncReplies, ReceiveSync(m) PROVE GatewayInv'
  <2>1. m.to \in Gateways /\ m.nodes \in SUBSET Nodes
    BY <1>0 DEF Lists
  <2>2. health' \in Healths /\ ring' \in Rings /\ RingMatchesHealth'
    BY <1>0, <1>11, <2>1, AddNodesEffect DEF ReceiveSync
  <2> QED BY <1>0, <1>11, <2>2
          DEF ReceiveSync, GatewayInv, TypeOK, Healths, Rings, checkVars, historyVars
<1>12. ASSUME NEW m \in syncRequests \cup syncReplies, SyncFails(m) PROVE GatewayInv'
  BY <1>0, <1>12 DEF SyncFails, GatewayInv, TypeOK, RingMatchesHealth, checkVars, historyVars
<1> QED BY <1>1, <1>2, <1>3, <1>4, <1>5, <1>6, <1>7, <1>8, <1>9, <1>10, <1>11, <1>12 DEF Next

-----------------------------------------------------------------------------

(* The gateway's state is well typed in every reachable state: what gossip  *)
(* and registration put into the map and the ring are nodes, and a gateway  *)
(* never gossips with itself.                                               *)
THEOREM TypeCorrect == Spec => []TypeOK
<1> QED BY GatewayInit, GatewayStep, PTL DEF Spec, GatewayInv

(* addNode(), removeNode() and checkAll() keep the hash ring equal to the   *)
(* known nodes with a good verdict, for any number of gateways and nodes    *)
(* and any interleaving of checks, registrations and gossip.                *)
THEOREM RingMatchesHealthHolds == Spec => []RingMatchesHealth
<1> QED BY GatewayInit, GatewayStep, PTL DEF Spec, GatewayInv

(* checkAll() looks the node up again after its await: the end of a check   *)
(* brings no deregistered node back into the map or the ring.               *)
THEOREM ChecksNeverResurrectHolds == Spec => ChecksNeverResurrect
<1> DEFINE Harmless ==
      \A g \in Gateways :
          asked'[g] \cup answered'[g] # asked[g] \cup answered[g] =>
              Known(g)' = Known(g) /\ ring'[g] \subseteq Known(g)
<1>1. GatewayInv /\ GatewayInv' /\ [Next]_vars => [Harmless]_vars
  <2> SUFFICES ASSUME GatewayInv, GatewayInv', Next PROVE Harmless
    OBVIOUS
  <2>0. TypeOK /\ RingMatchesHealth /\ health \in Healths /\ ring \in Rings
    BY DEF GatewayInv, TypeOK, Healths, Rings
  <2>1. ASSUME UNCHANGED checkVars PROVE Harmless
    BY <2>1 DEF checkVars
  <2>2. ASSUME \A g \in Gateways : Known(g)' = Known(g) PROVE Harmless
    <3>1. \A g \in Gateways : ring'[g] \subseteq Known(g)'
      BY DEF GatewayInv, RingMatchesHealth, Known
    <3> QED BY <2>2, <3>1
  <2>3. ASSUME UNCHANGED health PROVE Harmless
    BY <2>2, <2>3 DEF Known
  <2>4. ASSUME NEW g \in Gateways, NEW n \in Nodes, CheckOk(g, n) \/ CheckFailed(g, n)
        PROVE  Harmless
    <3>1. Verdict(g, n, TRUE) \/ Verdict(g, n, FALSE)
      BY <2>4 DEF CheckOk, CheckFailed
    <3>2. \A h \in Gateways : Known(h)' = Known(h)
      BY <2>0, <3>1, VerdictEffect
    <3> QED BY <2>2, <3>2
  <2>5. \/ UNCHANGED checkVars
        \/ UNCHANGED health
        \/ \E g \in Gateways, n \in Nodes : CheckOk(g, n) \/ CheckFailed(g, n)
    BY DEF Next, Crash, Recover, Register, Deregister, checkAll, Answer, SendSync,
           HandleSync, ReceiveSync, SyncFails
  <2> HIDE DEF Harmless
  <2> QED BY <2>1, <2>3, <2>4, <2>5
<1> QED BY <1>1, GatewayInit, GatewayStep, PTL DEF Spec, ChecksNeverResurrect

=============================================================================
