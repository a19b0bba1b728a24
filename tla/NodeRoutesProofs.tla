--------------------------- MODULE NodeRoutesProofs ---------------------------
(***************************************************************************)
(* For any nodes, keys and configurations: a bridge ends only as           *)
(* BridgesSurvive allows, and only silent nodes are marked offline.  Both  *)
(* are properties of single steps; the invariant they need is the shape of *)
(* the tables and that what runs is about a node.  And the permanent rows  *)
(* of a node are of one declaration: that of the list in the heartbeat     *)
(* under way comes from a configuration is the invariant behind it.        *)
(***************************************************************************)
EXTENDS NodeRoutes, DataLemmas

Shaped(rows) == \A k \in DOMAIN rows : DOMAIN rows[k] = {"kind", "upstream"}

Tables ==
  /\ DOMAIN status = Nodes /\ DOMAIN routes = Nodes
  /\ \A n \in Nodes : Shaped(routes[n])
  /\ loop.at \in {"write", "sync"} => loop.node \in Nodes

-----------------------------------------------------------------------------
\* The rows after a sync: what it kept, then the declared ones.
LEMMA SyncedRows ==
  ASSUME NEW rows, NEW list
  PROVE  LET after == Synced(rows, list) IN
         /\ \A k \in DOMAIN after :
              \/ k \in DOMAIN rows /\ after[k] = rows[k]
              \/ DOMAIN after[k] = {"kind", "upstream"}
         /\ \A k \in DOMAIN rows :
              rows[k].kind # "permanent" => k \in DOMAIN after /\ after[k] = rows[k]
  BY DEF Synced, Kept, PermanentRows

LEMMA RegisteredRows ==
  ASSUME NEW rows, NEW k, NEW u, Shaped(rows)
  PROVE  LET after == Put(rows, k, [kind |-> "temporary", upstream |-> u]) IN
         /\ Shaped(after)
         /\ \A j \in DOMAIN rows : j # k => j \in DOMAIN after /\ after[j] = rows[j]
  BY DEF Shaped, Put

LEMMA InitTables == Init => Tables
  BY DEF Init, Tables, Shaped, Empty, Idle

-----------------------------------------------------------------------------
LEMMA StepTables == Tables /\ [Next]_vars => Tables'
<1> SUFFICES ASSUME Tables, [Next]_vars PROVE Tables'
  OBVIOUS
<1>1. CASE UNCHANGED vars BY <1>1 DEF vars, nodeVars, Tables, Shaped
<1>2. CASE HeartbeatWrite
  <2>1. DOMAIN status' = Nodes /\ routes' = routes BY <1>2 DEF HeartbeatWrite, Tables
  <2>2. loop'.at \in {"write", "sync"} => loop'.node \in Nodes
    BY <1>2 DEF HeartbeatWrite, Tables, Idle
  <2> QED BY <2>1, <2>2 DEF Tables, Shaped
<1>3. CASE SyncNodeRoutes
  <2> DEFINE n == loop.node
             list == Accepted(n, loop.routes)
             after == Synced(routes[n], list)
  <2>1. n \in Nodes BY <1>3 DEF SyncNodeRoutes, Tables
  <2>2. Shaped(after)
    <3>1. \A k \in DOMAIN after : \/ k \in DOMAIN routes[n] /\ after[k] = routes[n][k]
                                 \/ DOMAIN after[k] = {"kind", "upstream"}
      BY SyncedRows
    <3>2. Shaped(routes[n]) BY <2>1 DEF Tables
    <3> HIDE DEF after
    <3> QED BY <3>1, <3>2 DEF Shaped
  <2>3. routes' = routes \/ routes' = [routes EXCEPT ![n] = after] BY <1>3 DEF SyncNodeRoutes
  <2> HIDE DEF after
  <2>4. DOMAIN routes' = Nodes /\ \A m \in Nodes : Shaped(routes'[m])
    BY <2>1, <2>2, <2>3 DEF Tables
  <2> QED BY <1>3, <2>4 DEF SyncNodeRoutes, Tables, Idle, nodeVars
<1>4. CASE SelectCandidates BY <1>4 DEF SelectCandidates, Tables, Shaped, nodeVars
<1>5. CASE MarkOffline BY <1>5 DEF MarkOffline, Tables, Shaped
<1>6. CASE ClearRoutes
  <2>1. \A n \in Nodes : Shaped(routes'[n]) BY <1>6 DEF ClearRoutes, Tables, Shaped, Empty
  <2> QED BY <1>6, <2>1 DEF ClearRoutes, Tables, nodeVars
<1>7. CASE ReapTempRoutes
  <2>1. \A n \in Nodes : Shaped(routes'[n]) BY <1>7 DEF ReapTempRoutes, Tables, Shaped, Only
  <2> QED BY <1>7, <2>1 DEF ReapTempRoutes, Tables, nodeVars
<1>8. CASE Crash BY <1>8 DEF Crash, Tables, Shaped, nodeVars, Idle
<1>9. ASSUME NEW n \in Nodes, HeartbeatRead(n) \/ StatusRequest(n) PROVE Tables'
  BY <1>9 DEF HeartbeatRead, StatusRequest, Tables, Shaped, nodeVars
<1>10. ASSUME NEW n \in Nodes, Approve(n) \/ FallSilent(n) \/ Reconfigure(n) PROVE Tables'
  BY <1>10 DEF Approve, FallSilent, Reconfigure, Tables, Shaped
<1>11. ASSUME NEW n \in Nodes, DeleteNode(n) PROVE Tables'
  <2>1. \A m \in Nodes : Shaped(routes'[m]) BY <1>11 DEF DeleteNode, Tables, Shaped, Empty
  <2> QED BY <1>11, <2>1 DEF DeleteNode, Tables
<1>12. ASSUME NEW n \in Nodes, NEW k \in Keys, DeleteNodeRoute(n, k) PROVE Tables'
  <2>1. \A m \in Nodes : Shaped(routes'[m]) BY <1>12 DEF DeleteNodeRoute, Tables, Shaped, Only
  <2> QED BY <1>12, <2>1 DEF DeleteNodeRoute, Tables, nodeVars
<1>13. ASSUME NEW n \in Nodes, NEW k \in Keys, Expire(n, k) PROVE Tables'
  <2>1. \A m \in Nodes : Shaped(routes'[m]) BY <1>13 DEF Expire, Tables, Shaped
  <2> QED BY <1>13, <2>1 DEF Expire, Tables, nodeVars
<1>14. ASSUME NEW n \in Nodes, NEW k \in Keys, NEW u, RegisterTempRoute(n, k, u) PROVE Tables'
  <2>1. routes' = [routes EXCEPT ![n] = Put(routes[n], k, [kind |-> "temporary", upstream |-> u])]
    BY <1>14 DEF RegisterTempRoute
  <2>2. Shaped(Put(routes[n], k, [kind |-> "temporary", upstream |-> u]))
    BY RegisteredRows DEF Tables
  <2>3. DOMAIN routes' = Nodes /\ \A m \in Nodes : Shaped(routes'[m]) BY <2>1, <2>2 DEF Tables
  <2> QED BY <1>14, <2>3 DEF RegisterTempRoute, Tables, nodeVars
<1> QED
  BY <1>1, <1>2, <1>3, <1>4, <1>5, <1>6, <1>7, <1>8, <1>9, <1>10, <1>11, <1>12, <1>13, <1>14
  DEF Next, Maintenance

LEMMA TablesInvariant == Spec => []Tables
  BY InitTables, StepTables, PTL DEF Spec

-----------------------------------------------------------------------------
\* What may end a bridge, for one row.
Kin(n, k) == k \in DOMAIN routes'[n] /\ routes'[n][k].upstream = routes[n][k].upstream

LEMMA StepKeepsBridge ==
  ASSUME Tables, Next, NEW n \in Nodes, NEW k \in Keys, Bridge(n, k)
  PROVE  \/ Kin(n, k)
         \/ DeleteNodeRoute(n, k) \/ DeleteNode(n)
         \/ \E u \in Origins \cup {Path, Bare} : RegisterTempRoute(n, k, u)
         \/ watch.at = "clear" /\ n \in watch.nodes
<1> DEFINE Goal == \/ Kin(n, k)
                   \/ DeleteNodeRoute(n, k) \/ DeleteNode(n)
                   \/ \E u \in Origins \cup {Path, Bare} : RegisterTempRoute(n, k, u)
                   \/ watch.at = "clear" /\ n \in watch.nodes
<1> SUFFICES Goal
  OBVIOUS
<1>1. CASE routes' = routes BY <1>1 DEF Bridge, Kin
<1>2. CASE SyncNodeRoutes
  <2> DEFINE m == loop.node
             list == Accepted(m, loop.routes)
             after == Synced(routes[m], list)
  <2>1. m \in Nodes BY <1>2 DEF SyncNodeRoutes, Tables
  <2>2. CASE m # n BY <1>2, <2>1, <2>2 DEF SyncNodeRoutes, Tables, Bridge, Kin
  <2>3. CASE m = n
    <3>1. k \in DOMAIN after /\ after[k] = routes[n][k] BY <2>3, SyncedRows DEF Bridge
    <3>2. routes' = routes \/ routes' = [routes EXCEPT ![m] = after] BY <1>2 DEF SyncNodeRoutes
    <3> HIDE DEF after
    <3> QED BY <2>3, <3>1, <3>2, <1>1 DEF Tables, Kin
  <2> QED BY <2>2, <2>3
<1>3. CASE ClearRoutes BY <1>3 DEF ClearRoutes, Bridge, Kin
<1>4. CASE ReapTempRoutes BY <1>4 DEF ReapTempRoutes, Lapsed, Only, Bridge, Kin
<1>5. ASSUME NEW m \in Nodes, DeleteNode(m) PROVE Goal
  BY <1>5 DEF DeleteNode, Tables, Bridge, Kin
<1>6. ASSUME NEW m \in Nodes, NEW j \in Keys, DeleteNodeRoute(m, j) PROVE Goal
  <2>1. CASE m = n /\ j = k BY <1>6, <2>1
  <2>2. CASE ~(m = n /\ j = k) BY <1>6, <2>2 DEF DeleteNodeRoute, Only, Tables, Bridge, Kin
  <2> QED BY <2>1, <2>2
<1>7. ASSUME NEW m \in Nodes, NEW j \in Keys, Expire(m, j) PROVE Goal
  BY <1>7 DEF Expire, Tables, Shaped, Bridge, Kin
<1>8. ASSUME NEW m \in Nodes, NEW j \in Keys, NEW u \in Origins \cup {Path, Bare},
             RegisterTempRoute(m, j, u)
      PROVE  Goal
  <2>1. CASE m = n /\ j = k BY <1>8, <2>1
  <2>2. CASE m = n /\ j # k
    <3> DEFINE after == Put(routes[n], j, [kind |-> "temporary", upstream |-> u])
    <3>1. k \in DOMAIN after /\ after[k] = routes[n][k]
      BY <2>2, RegisteredRows DEF Tables, Bridge
    <3>2. routes' = [routes EXCEPT ![n] = after] BY <1>8, <2>2 DEF RegisterTempRoute
    <3> HIDE DEF after
    <3> QED BY <3>1, <3>2 DEF Tables, Kin
  <2>3. CASE m # n BY <1>8, <2>3 DEF RegisterTempRoute, Tables, Bridge, Kin
  <2> QED BY <2>1, <2>2, <2>3
<1>9. CASE HeartbeatWrite BY <1>1, <1>9 DEF HeartbeatWrite
<1>10. CASE SelectCandidates \/ MarkOffline BY <1>1, <1>10 DEF SelectCandidates, MarkOffline
<1>11. CASE Crash BY <1>1, <1>11 DEF Crash
<1>12. ASSUME NEW m \in Nodes, HeartbeatRead(m) \/ StatusRequest(m) PROVE Goal
  BY <1>1, <1>12 DEF HeartbeatRead, StatusRequest
<1>13. ASSUME NEW m \in Nodes, Approve(m) \/ FallSilent(m) \/ Reconfigure(m) PROVE Goal
  BY <1>1, <1>13 DEF Approve, FallSilent, Reconfigure
<1> HIDE DEF Goal
<1> QED
  BY <1>2, <1>3, <1>4, <1>5, <1>6, <1>7, <1>8, <1>9, <1>10, <1>11, <1>12, <1>13
  DEF Next, Maintenance

\* Neither a heartbeat nor the reaper ends a bridge that has not lapsed (T-123).
THEOREM BridgesKept == Spec => BridgesSurvive
<1>1. Tables /\ [Next]_vars =>
        [\A n \in Nodes : \A k \in Keys :
           Bridge(n, k) =>
             \/ k \in DOMAIN routes'[n] /\ routes'[n][k].upstream = routes[n][k].upstream
             \/ DeleteNodeRoute(n, k) \/ DeleteNode(n)
             \/ \E u \in Origins \cup {Path, Bare} : RegisterTempRoute(n, k, u)
             \/ watch.at = "clear" /\ n \in watch.nodes]_vars
  BY StepKeepsBridge DEF Kin
<1> QED BY <1>1, TablesInvariant, PTL DEF Spec, BridgesSurvive

-----------------------------------------------------------------------------
\* A node heard of since the candidates were selected stays live: the second
\* look at last_seen in mark_offline_nodes.
THEOREM SilentNodesMarked == Spec => OnlySilentNodesAreMarked
<1> DEFINE Safe == \A n \in Nodes :
             /\ Live(n) /\ status'[n] = "offline" /\ fresh[n] => loop.at = "write" /\ loop.node = n
             /\ watch'.at = "clear" /\ n \in watch'.nodes /\ watch # watch' => status'[n] = "offline"
<1>1. Tables /\ [Next]_vars => [Safe]_vars
  <2> SUFFICES ASSUME Tables, Next PROVE Safe
    OBVIOUS
  <2>1. CASE status' = status /\ watch' = watch BY <2>1 DEF Live
  <2>2. CASE HeartbeatWrite BY <2>2 DEF HeartbeatWrite, Tables, Live
  <2>3. CASE SelectCandidates BY <2>3 DEF SelectCandidates, nodeVars, Live
  <2>4. CASE MarkOffline BY <2>4 DEF MarkOffline, Silent, Resting, Live, Tables
  <2>5. CASE ClearRoutes BY <2>5 DEF ClearRoutes, nodeVars, Resting, Live
  <2>6. CASE Crash BY <2>6 DEF Crash, nodeVars, Resting, Live
  <2>7. CASE SyncNodeRoutes \/ ReapTempRoutes
    BY <2>1, <2>7 DEF SyncNodeRoutes, ReapTempRoutes, nodeVars
  <2>8. ASSUME NEW n \in Nodes, Approve(n) \/ DeleteNode(n) PROVE Safe
    BY <2>8 DEF Approve, DeleteNode, Tables, Live
  <2>9. ASSUME NEW n \in Nodes,
               HeartbeatRead(n) \/ StatusRequest(n) \/ FallSilent(n) \/ Reconfigure(n)
        PROVE  Safe
    BY <2>1, <2>9 DEF HeartbeatRead, StatusRequest, FallSilent, Reconfigure, nodeVars
  <2>10. ASSUME NEW n \in Nodes, NEW k \in Keys,
                \/ DeleteNodeRoute(n, k) \/ Expire(n, k)
                \/ \E u \in Origins \cup {Path, Bare} : RegisterTempRoute(n, k, u)
         PROVE  Safe
    BY <2>1, <2>10 DEF DeleteNodeRoute, Expire, RegisterTempRoute, nodeVars
  <2> HIDE DEF Safe
  <2> QED BY <2>2, <2>3, <2>4, <2>5, <2>6, <2>7, <2>8, <2>9, <2>10 DEF Next, Maintenance
<1> QED BY <1>1, TablesInvariant, PTL DEF Spec, OnlySilentNodesAreMarked

-----------------------------------------------------------------------------
FromConfig(list) == \E c \in Configs : list = c.routes

(* The permanent rows are all of one configuration's declaration.          *)
OfConfig(rows, c) ==
  \A k \in DOMAIN rows : rows[k].kind = "permanent" =>
    \E i \in 1..Len(c.routes) : c.routes[i] = [key |-> k, upstream |-> rows[k].upstream]

OfOneConfig(rows) == \E c \in Configs : OfConfig(rows, c)

(* What a heartbeat carries from its read to its sync is the list of some  *)
(* configuration, the node's own of that time.                             *)
Declarations ==
  /\ \A n \in Nodes : config[n] \in Configs
  /\ loop.at = "write" => loop.routes = None \/ FromConfig(loop.routes)
  /\ loop.at = "sync" => FromConfig(loop.routes)
  /\ \A n \in Nodes : OfOneConfig(routes[n])

(* Fewer permanent rows are still of that configuration.                   *)
LEMMA FewerRows ==
  ASSUME NEW before, NEW after, OfOneConfig(before),
         \A k \in DOMAIN after : after[k].kind = "permanent" =>
           k \in DOMAIN before /\ after[k] = before[k]
  PROVE  OfOneConfig(after)
BY DEF OfOneConfig, OfConfig

(* The accepted routes are declared ones.                                  *)
LEMMA AcceptedIsDeclared ==
  ASSUME NEW c \in Configs, NEW n
  PROVE  \A i \in 1..Len(Accepted(n, c.routes)) :
           \E j \in 1..Len(c.routes) : Accepted(n, c.routes)[i] = c.routes[j]
<1> DEFINE T == [key : Keys, upstream : Origins \cup {Path, Bare}]
           keep == {r \in Range(c.routes) : Storable(r.upstream, endpoint[n])}
           sub == Sublist(c.routes, keep)
<1> HIDE DEF T, keep
<1>0. c \in [endpoint : Origins \cup {None}, worker : BOOLEAN, routes : Seq(T)]
  BY ConfigAssumption DEF T
<1>1. c.routes \in Seq(T)
  BY <1>0
<1>2. PICK place : Places(c.routes, keep, Len(c.routes), sub, place)
  BY <1>1, SublistPlaces
<1> HIDE DEF sub
<1>3. \A i \in 1..Len(sub) : place[i] \in 1..Len(c.routes) /\ sub[i] = c.routes[place[i]]
  BY <1>2 DEF Places
<1>4. Accepted(n, c.routes) = sub
  BY DEF Accepted, sub, keep
<1> QED
  BY <1>3, <1>4

(* The rows of one list, without a clash or with one, are its elements.    *)
LEMMA SyncedDeclaration ==
  ASSUME NEW c \in Configs, NEW n, NEW rows
  PROVE  OfOneConfig(Synced(rows, Accepted(n, c.routes)))
<1> DEFINE T == [key : Keys, upstream : Origins \cup {Path, Bare}]
           list == Accepted(n, c.routes)
           after == Synced(rows, list)
<1>1. \A j \in 1..Len(c.routes) : c.routes[j] \in T
  <2> HIDE DEF T
  <2>1. c \in [endpoint : Origins \cup {None}, worker : BOOLEAN, routes : Seq(T)]
    BY ConfigAssumption DEF T
  <2>2. c.routes \in Seq(T)
    BY <2>1
  <2> QED
    BY <2>2
<1>2. \A i \in 1..Len(list) : \E j \in 1..Len(c.routes) : list[i] = c.routes[j]
  BY AcceptedIsDeclared
<1> HIDE DEF list
<1>3. ASSUME NEW k \in DOMAIN after, after[k].kind = "permanent"
      PROVE  \E j \in 1..Len(c.routes) : c.routes[j] = [key |-> k, upstream |-> after[k].upstream]
  <2>1. k \notin Kept(rows)
    <3>1. k \in Kept(rows) => after[k] = rows[k] /\ rows[k].kind # "permanent"
      BY DEF Synced, Kept
    <3> QED
      BY <1>3, <3>1
  <2>2. k \in KeysOf(list) /\ after[k] = PermanentRows(list)[k]
    BY <1>3, <2>1 DEF Synced
  <2>3. PICK i \in 1..Len(list) : list[i].key = k /\ after[k].upstream = list[i].upstream
    <3> DEFINE i == CHOOSE x \in 1..Len(list) : list[x].key = k
    <3>1. i \in 1..Len(list) /\ list[i].key = k
      BY <2>2 DEF KeysOf
    <3>2. after[k].upstream = list[i].upstream
      BY <2>2 DEF PermanentRows
    <3> QED
      BY <3>1, <3>2
  <2>4. PICK j \in 1..Len(c.routes) : list[i] = c.routes[j]
    BY <1>2
  <2>5. c.routes[j] = [key |-> c.routes[j].key, upstream |-> c.routes[j].upstream]
    BY <1>1
  <2> QED
    BY <2>3, <2>4, <2>5
<1> QED
  BY <1>3 DEF OfOneConfig, OfConfig, list

LEMMA InitDeclarations == Init => Declarations
BY DEF Init, Declarations, Idle, Empty, OfOneConfig, OfConfig

LEMMA StepDeclarations == Tables /\ Declarations /\ [Next]_vars => Declarations'
<1> SUFFICES ASSUME Tables, Declarations, [Next]_vars
             PROVE  Declarations'
  OBVIOUS
<1> DEFINE Carried == /\ \A n \in Nodes : config'[n] \in Configs
                      /\ loop'.at = "write" => loop'.routes = None \/ FromConfig(loop'.routes)
                      /\ loop'.at = "sync" => FromConfig(loop'.routes)
           Fewer   == \A n \in Nodes : \A k \in DOMAIN routes'[n] :
                        routes'[n][k].kind = "permanent" =>
                          k \in DOMAIN routes[n] /\ routes'[n][k] = routes[n][k]
<1>1. ASSUME Carried, Fewer
      PROVE  Declarations'
  <2>1. \A n \in Nodes : OfOneConfig(routes'[n])
    BY <1>1, FewerRows DEF Declarations
  <2> QED
    BY <1>1, <2>1 DEF Declarations
<1>2. UNCHANGED <<config, loop>> => Carried
  BY DEF Declarations
<1>3. routes' = routes => Fewer
  OBVIOUS
<1>4. CASE UNCHANGED vars
  BY <1>1, <1>2, <1>3, <1>4 DEF vars, nodeVars
<1>5. CASE HeartbeatWrite
  <2>1. loop'.at = "sync" => loop'.routes = loop.routes /\ loop.routes # None
    BY <1>5 DEF HeartbeatWrite, Idle
  <2>2. Carried
    BY <1>5, <2>1 DEF HeartbeatWrite, Declarations, Idle
  <2> QED
    BY <1>1, <1>3, <1>5, <2>2 DEF HeartbeatWrite
<1>6. CASE SyncNodeRoutes
  <2>1. PICK c \in Configs : loop.routes = c.routes
    BY <1>6 DEF SyncNodeRoutes, Declarations, FromConfig
  <2> DEFINE m == loop.node
             after == Synced(routes[m], Accepted(m, c.routes))
  <2>2. m \in Nodes
    BY <1>6 DEF SyncNodeRoutes, Tables
  <2>3. OfOneConfig(after)
    BY SyncedDeclaration
  <2>4. routes' = routes \/ routes' = [routes EXCEPT ![m] = after]
    BY <1>6, <2>1 DEF SyncNodeRoutes
  <2> HIDE DEF after
  <2>5. \A n \in Nodes : OfOneConfig(routes'[n])
    BY <2>2, <2>3, <2>4 DEF Declarations, Tables
  <2>6. Carried
    BY <1>6 DEF SyncNodeRoutes, Declarations, Idle, nodeVars
  <2> QED
    BY <2>5, <2>6 DEF Declarations
<1>7. CASE SelectCandidates \/ MarkOffline
  BY <1>1, <1>2, <1>3, <1>7 DEF SelectCandidates, MarkOffline, nodeVars
<1>8. CASE ClearRoutes
  <2>1. Fewer
    BY <1>8 DEF ClearRoutes, Empty
  <2> QED
    BY <1>1, <1>2, <1>8, <2>1 DEF ClearRoutes, nodeVars
<1>9. CASE ReapTempRoutes
  <2>1. Fewer
    BY <1>9 DEF ReapTempRoutes, Only
  <2> QED
    BY <1>1, <1>2, <1>9, <2>1 DEF ReapTempRoutes, nodeVars
<1>10. CASE Crash
  BY <1>1, <1>3, <1>10 DEF Crash, Declarations, Idle, nodeVars
<1>11. ASSUME NEW n \in Nodes, HeartbeatRead(n)
       PROVE  Declarations'
  <2>1. Carried
    BY <1>11 DEF HeartbeatRead, Declarations, FromConfig, Sent, nodeVars
  <2> QED
    BY <1>1, <1>3, <1>11, <2>1 DEF HeartbeatRead
<1>12. ASSUME NEW n \in Nodes, StatusRequest(n)
       PROVE  Declarations'
  <2>1. Carried
    BY <1>12 DEF StatusRequest, Declarations, nodeVars
  <2> QED
    BY <1>1, <1>3, <1>12, <2>1 DEF StatusRequest
<1>13. ASSUME NEW n \in Nodes, Approve(n) \/ FallSilent(n)
       PROVE  Declarations'
  BY <1>1, <1>2, <1>3, <1>13 DEF Approve, FallSilent
<1>14. ASSUME NEW n \in Nodes, Reconfigure(n)
       PROVE  Declarations'
  <2>1. PICK c \in Configs : config' = [config EXCEPT ![n] = c]
    BY <1>14 DEF Reconfigure
  <2>2. \A m \in Nodes : config'[m] \in Configs
    BY <2>1 DEF Declarations
  <2>3. Carried
    BY <1>14, <2>2 DEF Reconfigure, Declarations
  <2> QED
    BY <1>1, <1>3, <1>14, <2>3 DEF Reconfigure
<1>15. ASSUME NEW n \in Nodes, DeleteNode(n)
       PROVE  Declarations'
  <2>1. Fewer
    BY <1>15 DEF DeleteNode, Empty, Tables
  <2> QED
    BY <1>1, <1>2, <1>15, <2>1 DEF DeleteNode
<1>16. ASSUME NEW n \in Nodes, NEW k \in Keys, DeleteNodeRoute(n, k)
       PROVE  Declarations'
  <2>1. Fewer
    BY <1>16 DEF DeleteNodeRoute, Only, Tables
  <2> QED
    BY <1>1, <1>2, <1>16, <2>1 DEF DeleteNodeRoute, nodeVars
<1>17. ASSUME NEW n \in Nodes, NEW k \in Keys, Expire(n, k)
       PROVE  Declarations'
  <2>1. Fewer
    BY <1>17 DEF Expire, Tables, Shaped
  <2> QED
    BY <1>1, <1>2, <1>17, <2>1 DEF Expire, nodeVars
<1>18. ASSUME NEW n \in Nodes, NEW k \in Keys, NEW u, RegisterTempRoute(n, k, u)
       PROVE  Declarations'
  <2>1. Fewer
    BY <1>18 DEF RegisterTempRoute, Put, Tables
  <2> QED
    BY <1>1, <1>2, <1>18, <2>1 DEF RegisterTempRoute, nodeVars
<1> HIDE DEF Carried, Fewer
<1> QED
  BY <1>4, <1>5, <1>6, <1>7, <1>8, <1>9, <1>10, <1>11, <1>12, <1>13, <1>14, <1>15, <1>16, <1>17, <1>18
  DEF Next, Maintenance

\* The permanent rows of a node are never a mixture of two declarations,
\* however syncs fail, requests interfere and nodes are reconfigured
\* (_sync_node_routes).
THEOREM OneDeclaration == Spec => []RoutesAreOneDeclaration
<1>1. Init => Tables /\ Declarations
  BY InitTables, InitDeclarations
<1>2. Tables /\ Declarations /\ [Next]_vars => (Tables /\ Declarations)'
  BY StepTables, StepDeclarations
<1>3. Declarations => RoutesAreOneDeclaration
  BY DEF Declarations, RoutesAreOneDeclaration, OfOneConfig, OfConfig
<1> QED
  BY <1>1, <1>2, <1>3, PTL DEF Spec
=============================================================================
