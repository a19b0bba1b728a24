------------------------------ MODULE NodeRoutes ------------------------------
(***************************************************************************)
(* Dynamic node routes: core/route_registry.py, the route part of the      *)
(* heartbeat and of mark_offline_nodes in core/discovery.py, the reaper in *)
(* core/maintenance.py and the target guard of core/net_guard.py.          *)
(*                                                                         *)
(* A node declares permanent routes in its heartbeat and registers         *)
(* temporary bridges by request; both are rows of one table with one key.  *)
(* Requests run one after the other on the event loop, but a heartbeat     *)
(* commits twice, and the maintenance thread, which commits twice as well, *)
(* runs beside it.                                                         *)
(*                                                                         *)
(* A key is a path with its method.  An upstream is an origin (an absolute *)
(* URL there), a path, or bare text that is neither.                       *)
(***************************************************************************)
EXTENDS Naturals, Functions, Sublists

CONSTANTS
  Nodes, Keys,
  Bridges,         \* keys under the prefixes for temporary routes
  Origins,
  Blocked,         \* origins that no route may lead to (_BLOCKED_ATTRS)
  Allowed,         \* route_target_allow_hosts
  Path, Bare, None,
  Configs,         \* what nodes may be configured to send
  MaxDisturbances  \* bound: requests, silences, reconfigurations, crashes

ASSUME ConfigAssumption ==
  Configs \subseteq [endpoint : Origins \cup {None}, worker : BOOLEAN,
                    routes : Seq([key : Keys, upstream : Origins \cup {Path, Bare}])]

VARIABLES
  config,    \* the node's own configuration
  status,    \* nodes.status: pending, live, offline, or gone
  fresh,     \* nodes.last_seen is within the heartbeat timeout
  endpoint,  \* nodes.endpoint
  routes,    \* rows of node_routes, by node and key
  loop,      \* the heartbeat the event loop is in
  watch,     \* the pass of mark_offline_nodes the maintenance thread is in
  disturbances

nodeVars == <<config, status, fresh, endpoint>>
vars == <<nodeVars, routes, loop, watch, disturbances>>

Idle    == [at |-> "idle"]
Resting == [at |-> "idle", nodes |-> {}]

Empty == [k \in {} |-> None]

Only(f, S) == [k \in DOMAIN f \cap S |-> f[k]]

Put(f, k, v) == [j \in DOMAIN f \cup {k} |-> IF j = k THEN v ELSE f[j]]

Disturb == disturbances < MaxDisturbances /\ disturbances' = disturbances + 1

Live(n) == status[n] = "live"

-----------------------------------------------------------------------------
(* The target guard.                                                       *)

\* validate_endpoint
Eligible(e) == e \in Origins /\ (e \notin Blocked \/ e \in Allowed)

OwnOrAllowed(u, e) == u \in Allowed \/ (u \notin Blocked /\ u = e)

\* upstream_reject_reason, when a route is stored: only whether the node has
\* an endpoint at all is asked of a relative upstream.
Storable(u, e) == IF u \in Origins THEN OwnOrAllowed(u, e) ELSE e # None

\* resolve_route_target, when a request arrives: where it is sent.
Target(u, e) ==
  CASE u \in Origins -> IF OwnOrAllowed(u, e) THEN u ELSE None
    [] u = Path      -> IF Eligible(e) THEN e ELSE None
    [] OTHER         -> None

\* _lookup_route: only rows of live nodes that have not expired.
Found(n, k) == Live(n) /\ k \in DOMAIN routes[n] /\ routes[n][k].kind # "expired"

\* proxy_node_route: where a request for a route is sent.
Reaches(n, k) == IF Found(n, k) THEN Target(routes[n][k].upstream, endpoint[n]) ELSE None

-----------------------------------------------------------------------------
(* Heartbeats.                                                             *)

\* What a heartbeat makes of the status it read, unasked: an offline node
\* comes back, a live one may turn busy or idle by its load.
Recovered(s) ==
  CASE s = "offline" -> {"live"}
    [] s = "live"    -> {"live", "keep"}
    [] s = "pending" -> {"keep"}

\* The statuses it may ask for (node_can_transition, by category).
Askable(s) ==
  CASE s = "live"    -> {"live", "offline"}
    [] s = "offline" -> {"live", "pending"}
    [] s = "pending" -> {"live", "offline"}

\* discovery_heartbeat drops an empty list; the worker endpoint passes it on.
Sent(c) == IF c.routes = <<>> /\ ~c.worker THEN None ELSE c.routes

\* heartbeat: the row is read, and what to write is computed from it.
HeartbeatRead(n) ==
  /\ loop = Idle /\ status[n] \in {"pending", "live", "offline"}
  /\ \E to \in Recovered(status[n]) :
       loop' = [at |-> "write", node |-> n, to |-> to,
                endpoint |-> config[n].endpoint, routes |-> Sent(config[n])]
  /\ UNCHANGED <<nodeVars, routes, watch, disturbances>>

\* A heartbeat that only asks for a status (node-cli node busy).
StatusRequest(n) ==
  /\ loop = Idle /\ status[n] \in {"pending", "live", "offline"}
  /\ \E to \in Askable(status[n]) :
       loop' = [at |-> "write", node |-> n, to |-> to, endpoint |-> None, routes |-> None]
  /\ Disturb
  /\ UNCHANGED <<nodeVars, routes, watch>>

\* The UPDATE and its commit.  An endpoint that is not eligible is stored as
\* NULL.
HeartbeatWrite ==
  LET n == loop.node IN
  /\ loop.at = "write"
  /\ fresh' = [fresh EXCEPT ![n] = TRUE]
  /\ status' = IF loop.to = "keep" THEN status ELSE [status EXCEPT ![n] = loop.to]
  /\ endpoint' = IF loop.endpoint = None THEN endpoint
                 ELSE [endpoint EXCEPT ![n] = IF Eligible(loop.endpoint) THEN loop.endpoint ELSE None]
  /\ loop' = IF loop.routes = None THEN Idle
             ELSE [at |-> "sync", node |-> n, routes |-> loop.routes]
  /\ UNCHANGED <<config, routes, watch, disturbances>>

\* Slips: temporary rows go too; old permanent rows stay.
Kept_Nothing(rows) == {}
Kept_All(rows) == DOMAIN rows

\* The keys of the rows a sync leaves in place.
Kept(rows) == {k \in DOMAIN rows : rows[k].kind # "permanent"}

\* The declared routes that pass the guard; the others are skipped.
Accepted(n, declared) ==
  Sublist(declared, {r \in Range(declared) : Storable(r.upstream, endpoint[n])})

\* The plain INSERT meets a row with its key: an earlier route of the list,
\* or a temporary one.
Clashes(rows, list) ==
  \/ \E i, j \in 1..Len(list) : i # j /\ list[i].key = list[j].key
  \/ \E i \in 1..Len(list) : list[i].key \in Kept(rows)

KeysOf(list) == {list[i].key : i \in 1..Len(list)}

PermanentRows(list) ==
  [k \in KeysOf(list) |->
     [kind |-> "permanent",
      upstream |-> list[CHOOSE i \in 1..Len(list) : list[i].key = k].upstream]]

\* The declared rows beside those that stay.
Synced(rows, list) ==
  [k \in Kept(rows) \cup KeysOf(list) |-> IF k \in Kept(rows) THEN rows[k] ELSE PermanentRows(list)[k]]

\* _sync_node_routes: one transaction, and one clash rolls it back.  The
\* heartbeat logs that and goes on.
SyncNodeRoutes ==
  LET n    == loop.node
      list == Accepted(n, loop.routes)
  IN /\ loop.at = "sync"
     /\ routes' = IF Clashes(routes[n], list) THEN routes
                  ELSE [routes EXCEPT ![n] = Synced(@, list)]
     /\ loop' = Idle
     /\ UNCHANGED <<nodeVars, watch, disturbances>>

-----------------------------------------------------------------------------
(* Requests.                                                               *)

\* register_temp_route: an upsert, which takes over a permanent row as well.
RegisterTempRoute(n, k, u) ==
  /\ loop = Idle /\ status[n] # "gone"
  /\ k \in Bridges /\ Storable(u, endpoint[n])
  /\ routes' = [routes EXCEPT ![n] = Put(@, k, [kind |-> "temporary", upstream |-> u])]
  /\ Disturb
  /\ UNCHANGED <<nodeVars, loop, watch>>

\* delete_node_route: by its owner, whatever kind the row is.
DeleteNodeRoute(n, k) ==
  /\ loop = Idle /\ k \in DOMAIN routes[n]
  /\ routes' = [routes EXCEPT ![n] = Only(@, DOMAIN @ \ {k})]
  /\ Disturb
  /\ UNCHANGED <<nodeVars, loop, watch>>

\* approve_node: the endpoint, the administrator's or the node's own, is
\* validated here too.
Approve(n) ==
  /\ loop = Idle /\ status[n] = "pending"
  /\ \E e \in Origins \cup {endpoint[n]} :
       endpoint' = [endpoint EXCEPT ![n] = IF Eligible(e) THEN e ELSE None]
  /\ status' = [status EXCEPT ![n] = "live"]
  /\ fresh' = [fresh EXCEPT ![n] = TRUE]
  /\ UNCHANGED <<config, routes, loop, watch, disturbances>>

\* admin_delete_node: the foreign key takes the routes along.
DeleteNode(n) ==
  /\ loop = Idle /\ status[n] # "gone"
  /\ status' = [status EXCEPT ![n] = "gone"]
  /\ routes' = [routes EXCEPT ![n] = Empty]
  /\ Disturb
  /\ UNCHANGED <<config, fresh, endpoint, loop, watch>>

-----------------------------------------------------------------------------
(* The maintenance thread.                                                 *)

\* mark_offline_nodes: the live nodes not seen lately.
SelectCandidates ==
  LET silent == {n \in Nodes : Live(n) /\ ~fresh[n]} IN
  /\ watch = Resting /\ silent # {}
  /\ watch' = [at |-> "mark", nodes |-> silent]
  /\ UNCHANGED <<nodeVars, routes, loop, disturbances>>

\* A slip: last_seen is not looked at again.
Silent_AsSelected(n) == TRUE

Silent(n) == ~fresh[n]

\* The first commit.  The nodes to clear are the candidates offline by then,
\* whoever made them so.  A candidate whose row is gone raises, and the pass
\* ends with nothing written; so does a pass that found none offline.
MarkOffline ==
  LET marked == [n \in Nodes |-> IF n \in watch.nodes /\ Silent(n) THEN "offline" ELSE status[n]]
      found  == {n \in watch.nodes : marked[n] = "offline"}
  IN /\ watch.at = "mark"
     /\ IF \E n \in watch.nodes : status[n] = "gone"
        THEN status' = status /\ watch' = Resting
        ELSE /\ status' = marked
             /\ watch' = IF found = {} THEN Resting ELSE [at |-> "clear", nodes |-> found]
     /\ UNCHANGED <<config, fresh, endpoint, routes, loop, disturbances>>

\* The second commit: whatever the nodes are by now.
ClearRoutes ==
  /\ watch.at = "clear"
  /\ routes' = [n \in Nodes |-> IF n \in watch.nodes THEN Empty ELSE routes[n]]
  /\ watch' = Resting
  /\ UNCHANGED <<nodeVars, loop, disturbances>>

\* A slip: nothing is reaped.
Lapsed_Never(row) == FALSE

Lapsed(row) == row.kind = "expired"

\* _temp_route_cleanup
ReapTempRoutes ==
  /\ watch = Resting
  /\ \E n \in Nodes : \E k \in DOMAIN routes[n] : Lapsed(routes[n][k])
  /\ routes' = [n \in Nodes |->
                  Only(routes[n], {k \in DOMAIN routes[n] : ~Lapsed(routes[n][k])})]
  /\ UNCHANGED <<nodeVars, loop, watch, disturbances>>

-----------------------------------------------------------------------------
(* Time, nodes and faults.                                                 *)

\* expires_at passes.
Expire(n, k) ==
  /\ k \in DOMAIN routes[n] /\ routes[n][k].kind = "temporary"
  /\ routes' = [routes EXCEPT ![n][k].kind = "expired"]
  /\ UNCHANGED <<nodeVars, loop, watch, disturbances>>

\* A node is not heard of for the timeout.  A pass compares with the time it
\* started, so it sees no candidate that was heard of since age again.
FallSilent(n) ==
  /\ fresh[n] /\ status[n] # "gone" /\ n \notin watch.nodes
  /\ fresh' = [fresh EXCEPT ![n] = FALSE]
  /\ Disturb
  /\ UNCHANGED <<config, status, endpoint, routes, loop, watch>>

Reconfigure(n) ==
  /\ \E c \in Configs \ {config[n]} : config' = [config EXCEPT ![n] = c]
  /\ status[n] # "gone"
  /\ Disturb
  /\ UNCHANGED <<status, fresh, endpoint, routes, loop, watch>>

\* The process stops and starts again: what was not committed is lost.
Crash ==
  /\ loop # Idle \/ watch # Resting
  /\ loop' = Idle /\ watch' = Resting
  /\ Disturb
  /\ UNCHANGED <<nodeVars, routes>>

-----------------------------------------------------------------------------
Init ==
  /\ config \in [Nodes -> Configs]
  /\ status = [n \in Nodes |-> "pending"] /\ fresh = [n \in Nodes |-> TRUE]
  /\ endpoint = [n \in Nodes |-> config[n].endpoint]
  /\ routes = [n \in Nodes |-> Empty]
  /\ loop = Idle /\ watch = Resting /\ disturbances = 0

Maintenance == SelectCandidates \/ MarkOffline \/ ClearRoutes

Next ==
  \/ HeartbeatWrite \/ SyncNodeRoutes \/ Maintenance \/ ReapTempRoutes \/ Crash
  \/ \E n \in Nodes :
    \/ HeartbeatRead(n) \/ StatusRequest(n)
    \/ Approve(n) \/ DeleteNode(n) \/ FallSilent(n) \/ Reconfigure(n)
    \/ \E k \in Keys : \/ DeleteNodeRoute(n, k) \/ Expire(n, k)
                       \/ \E u \in Origins \cup {Path, Bare} : RegisterTempRoute(n, k, u)

Spec == Init /\ [][Next]_vars

(* The event loop finishes a heartbeat, the maintenance loop runs its      *)
(* tasks again and again, lifetimes end, and nodes heartbeat periodically. *)
Fairness ==
  /\ WF_vars(HeartbeatWrite) /\ WF_vars(SyncNodeRoutes)
  /\ WF_vars(Maintenance) /\ SF_vars(ReapTempRoutes)
  /\ \A n \in Nodes : /\ SF_vars(HeartbeatRead(n))
                      /\ \A k \in Keys : WF_vars(Expire(n, k))

LiveSpec == Spec /\ Fairness

-----------------------------------------------------------------------------
(* Properties.                                                             *)

\* The permanent rows of a node are never a mixture of two declarations,
\* though a sync may fail and a request may take rows away (_sync_node_routes).
RoutesAreOneDeclaration ==
  \A n \in Nodes : \E c \in Configs :
    \A k \in DOMAIN routes[n] : routes[n][k].kind = "permanent" =>
      \E i \in 1..Len(c.routes) : c.routes[i] = [key |-> k, upstream |-> routes[n][k].upstream]

Bridge(n, k) == k \in DOMAIN routes[n] /\ routes[n][k].kind = "temporary"

\* A bridge lives until it lapses, unless its owner takes or replaces it, or
\* its node is deleted or was found offline by the pass that is under way: no
\* heartbeat and no reaper ends it (T-123, T-125).
BridgesSurvive ==
  [][\A n \in Nodes : \A k \in Keys :
       Bridge(n, k) =>
         \/ k \in DOMAIN routes'[n] /\ routes'[n][k].upstream = routes[n][k].upstream
         \/ DeleteNodeRoute(n, k) \/ DeleteNode(n)
         \/ \E u \in Origins \cup {Path, Bare} : RegisterTempRoute(n, k, u)
         \/ watch.at = "clear" /\ n \in watch.nodes]_vars

\* A node that has been heard of lately does not go offline, unless it asks to,
\* and a pass clears the routes of no node but those it found offline.
OnlySilentNodesAreMarked ==
  [][\A n \in Nodes :
       /\ Live(n) /\ status'[n] = "offline" /\ fresh[n] => loop.at = "write" /\ loop.node = n
       /\ watch'.at = "clear" /\ n \in watch'.nodes /\ watch # watch' => status'[n] = "offline"]_vars

\* What a node's configuration should have brought about: its routes, no
\* others, and each leads somewhere once the endpoint is eligible.
CaughtUp(n) ==
  LET list == Accepted(n, Sent(config[n])) IN
  /\ Live(n) /\ routes[n] = PermanentRows(list)
  /\ \A i \in 1..Len(list) :
       Eligible(endpoint[n]) /\ list[i].upstream # Bare => Reaches(n, list[i].key) # None

\* However heartbeats, passes, bridges and failures interleave, a node that
\* goes on heartbeating ends with exactly the routes it declares, if it
\* declares no key twice and sends its list at all.
RoutesCatchUp ==
  \A n \in Nodes :
    <>[](\/ status[n] \in {"gone", "pending"} \/ Sent(config[n]) = None
         \/ \E i, j \in 1..Len(config[n].routes) :
              i # j /\ config[n].routes[i].key = config[n].routes[j].key
         \/ CaughtUp(n))

\* The pass clears the routes of offline nodes: what the comment T-075 in
\* mark_offline_nodes says.
OnlyOfflineAreCleared ==
  [][\A n \in Nodes : watch.at = "clear" /\ routes'[n] # routes[n] /\ watch' = Resting
       => status[n] # "live"]_vars
=============================================================================
