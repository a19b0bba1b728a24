---------------------------- MODULE TaskScheduler ----------------------------
(***************************************************************************)
(* The multi-stage task scheduler (core/scheduler.py), the heartbeat and   *)
(* offline watchdog (core/discovery.py) and the node deletion of the admin *)
(* API (api/v2/admin.py), which share the tables nodes, tasks, task_stages *)
(* and node_capabilities.                                                  *)
(*                                                                         *)
(* Two kinds of thread run.  The event loop (loop) serves one request at a *)
(* time, from its first SELECT to its COMMIT.  A maintenance thread        *)
(* (maint[w]) runs the watchdogs one after another; during shutdown the    *)
(* final run_all may overlap a sweep that is still running, so there may   *)
(* be two.  A handler reads in autocommit mode until its first DML         *)
(* statement, which takes SQLite's write lock until COMMIT: every handler  *)
(* is therefore a read step, which keeps a snapshot in loop or maint[w],   *)
(* and one atomic write step, which applies the snapshot to a database     *)
(* another thread may have changed in between.                             *)
(***************************************************************************)
EXTENDS Integers, FiniteSets, StatusRegistry

CONSTANTS
  Nodes,        \* registered worker nodes; role admin is not one of them
  Tasks,        \* ids of the tasks that may be submitted
  Stages,       \* ids of their stages
  TaskOf,       \* the task of a stage
  Seq,          \* its position in the task's stage list
  Capability,   \* the capability it needs
  CapSets,      \* capability sets a node may advertise
  Requests,     \* shapes of the create requests clients send
  MaxRetries,   \* settings.max_retries
  Sweepers,     \* maintenance threads
  NoNode        \* NULL in a column that refers to nodes

StagesOf(t) == {s \in Stages : TaskOf[s] = t}

(* A request: priority, optional owner, the stages that carry a depends_on *)
(* list of their own with that list, and the pin of every stage.           *)
RequestType ==
  [ priority : Int,
    owner    : Nodes \cup {NoNode},
    explicit : SUBSET Stages,
    depends  : [Stages -> SUBSET Stages],
    pin      : [Stages -> Nodes \cup {NoNode}] ]

CapNames == UNION CapSets

ASSUME NoNodeAssumption  == NoNode \notin Nodes
ASSUME ShapeAssumption   == TaskOf \in [Stages -> Tasks] /\ Seq \in [Stages -> Nat]
ASSUME SeqAssumption     == \A a, b \in Stages : TaskOf[a] = TaskOf[b] /\ Seq[a] = Seq[b] => a = b
ASSUME RequestAssumption == Requests \subseteq RequestType
ASSUME RetryAssumption   == MaxRetries \in Nat

VARIABLES
  node,     \* nodes.status by category, "deleted" once the row is gone
  seen,     \* age of nodes.last_seen: fresh, late (offline timeout), lost (grace)
  caps,     \* nodes.capabilities, the JSON column
  index,    \* node_capabilities, the index kept beside it
  tStatus,  \* tasks.status, "none" before the task is created
  owner,    \* tasks.owner_node_id
  prio,     \* tasks.priority
  earlier,  \* tasks created before this one: the order of tasks.created_at
  st,       \* task_stages.status, "none" before creation
  by,       \* task_stages.claimed_by
  expired,  \* claim_expires_at < now
  retry,    \* task_stages.retry_count
  claims,   \* times the stage was claimed: stands for claimed_at, which each claim rewrites
  note,     \* age of last_note_at: none, fresh, overdue (long-run TTL), dead (orphaned TTL)
  pin,      \* task_stages.target_node_id
  deps,     \* task_stages.depends_on
  loop,     \* the request the event loop has read for, and not yet written
  maint     \* maint[w]: the sweep thread w has read for, and not yet written

nodeVars  == <<node, seen, caps, index>>
taskVars  == <<tStatus, owner, prio, earlier>>
claimVars == <<by, expired, retry, claims>>
planVars  == <<pin, deps>>
stageVars == <<st, claimVars, note, planVars>>
vars      == <<nodeVars, taskVars, stageVars, loop, maint>>

-----------------------------------------------------------------------------
(* Vocabulary of the handlers.                                             *)

HeldStatuses  == {"claimed", "accepted", "orphaned"}
LongStatuses  == {"accepted", "orphaned"}
FinalTask     == StatusesIn(TaskStatuses, {"TERMINAL"})

Idle    == [op |-> "idle"]
Live(n) == node[n] \in LiveCategories

-----------------------------------------------------------------------------
(* Plausible slips in the operators below, each named after the operator   *)
(* it replaces when the sensitivity of a property is tested.               *)

OpenStatuses_ForgetsLongRun    == {"pending", "claimed"}
Holds_AnyStatus(n, s)          == by[s] = n
RowsOf_ClaimedOnly(n)          == {s \in Stages : by[s] = n /\ st[s] = "claimed"}
PinAllows_Anyone(s, n)         == TRUE
DepsDone_NoneFailed(s)         == \A d \in deps[s] : st[d] # "failed"
Before_LowFirst(a, b)          == prio[TaskOf[a]] < prio[TaskOf[b]] \/ TaskOf[a] \in earlier[TaskOf[b]]
Before_LastStage(a, b)         == TaskOf[a] = TaskOf[b] /\ Seq[a] > Seq[b]
Covered_AnyNode(s)             == \E n \in Nodes : Capability[s] \in index[n]
Completes_AnyTask(t, status)   ==
  \A s \in StagesOf(t) : status[s] \notin StatusesIn(StageStatuses, {"PENDING", "BUSY"})
Stale_AvailableOnly            == {n \in Nodes : node[n] = "AVAILABLE" /\ seen[n] # "fresh"}
ExpiredClaims_WithBudget       == {s \in Stages : st[s] = "claimed" /\ expired[s] /\ retry[s] < MaxRetries}
SameClaim_AnyStatus(s, sweep)  == claims[s] = sweep.claims[s]
BudgetSpent_OneMore(count)     == count > MaxRetries + 1
LeaseDead_Held(status)         == {s \in Stages : status[s] = "orphaned" /\ note[s] = "dead" /\ by[s] # NoNode}

-----------------------------------------------------------------------------
(* A stage that still counts as open work of its task.                     *)
OpenStatuses == StatusesIn(StageStatuses, {"PENDING", "BUSY"})

(* The row complete_stage selects, and checks again when it updates.       *)
Holds(n, s)        == by[s] = n /\ st[s] \in HeldStatuses

(* A node's rows, and those of them admin_delete_node fails.               *)
RowsOf(n)    == {s \in Stages : by[s] = n}
ClaimedOf(n) == {s \in Stages : by[s] = n /\ st[s] = "claimed"}

PinAllows(s, n) == pin[s] \in {NoNode, n}

Previous(s) == {p \in Stages : TaskOf[p] = TaskOf[s] /\ Seq[p] + 1 = Seq[s]}
DepsDone(s) == \A d \in deps[s] : st[d] = "completed"

(* The order of the claim query: priority DESC, created_at, sequence.      *)
Before(a, b) ==
  LET ta == TaskOf[a]
      tb == TaskOf[b]
  IN  \/ prio[ta] > prio[tb]
      \/ prio[ta] = prio[tb] /\ ta \in earlier[tb]
      \/ ta = tb /\ Seq[a] < Seq[b]

(* A live node advertises the stage's capability, claimable now or not.    *)
Covered(s) == \E n \in Nodes : Live(n) /\ Capability[s] \in index[n]
DeadPin(s) == pin[s] # NoNode /\ node[pin[s]] = "deleted"

(* _fail_tasks_if_all_stages_done, over the stage statuses to be.          *)
DoneTasks(status, affected, terminal) ==
  {t \in affected : /\ tStatus[t] \notin FinalTask
                    /\ \A s \in StagesOf(t) : status[s] \in terminal}

(* _fail_tasks_with_failed_critical_stages, the linear failure policy.     *)
FailedTasks(status, affected) ==
  {t \in affected : /\ tStatus[t] \notin FinalTask
                    /\ \E s \in StagesOf(t) : status[s] = "failed"}

(* A task starts with its first claim, and completes when no stage of it   *)
(* is open any more; neither touches a task that has ended.                *)
StartTask(t) ==
  tStatus' = IF tStatus[t] = "pending" THEN [tStatus EXCEPT ![t] = "running"] ELSE tStatus

Completes(t, status) ==
  /\ \A s \in StagesOf(t) : status[s] \notin OpenStatuses
  /\ tStatus[t] \notin FinalTask

FailTasks(ts)     == tStatus' = [t \in Tasks |-> IF t \in ts THEN "failed" ELSE tStatus[t]]
SetStatus(S, new) == [s \in Stages |-> IF s \in S THEN new ELSE st[s]]
TasksOf(S)        == {TaskOf[s] : s \in S}

(* A column of the selected rows.                                          *)
Column(col, rows) == [s \in Stages |-> IF s \in rows THEN col[s] ELSE 0]

(* claimed_by, claimed_at and claim_expires_at of these rows become NULL.  *)
ClearClaims(S) ==
  /\ by'      = [s \in Stages |-> IF s \in S THEN NoNode ELSE by[s]]
  /\ expired' = [s \in Stages |-> s \notin S /\ expired[s]]

-----------------------------------------------------------------------------
(* Requests of the event loop.                                             *)

(* create_task: one transaction for the task and all of its stages.  The   *)
(* submitter may be an admin node, so no worker has to be live.  A stage   *)
(* without its own depends_on depends on the previous one; the foreign     *)
(* keys refuse an owner or a pin that is not a node, and a client knows    *)
(* the ids of existing stages only.                                        *)
CreateTask(t, r) ==
  LET mine == StagesOf(t) IN
  /\ loop = Idle
  /\ tStatus[t] = "none"
  /\ \A n \in {r.owner} \cup {r.pin[s] : s \in mine} : n \in Nodes => node[n] # "deleted"
  /\ \A s \in mine \cap r.explicit : \A d \in r.depends[s] : st[d] # "none"
  /\ tStatus' = [tStatus EXCEPT ![t] = "pending"]
  /\ owner'   = [owner EXCEPT ![t] = r.owner]
  /\ prio'    = [prio EXCEPT ![t] = r.priority]
  /\ earlier' = [earlier EXCEPT ![t] = {u \in Tasks : tStatus[u] # "none"}]
  /\ st'      = SetStatus(mine, "pending")
  /\ pin'     = [s \in Stages |-> IF s \in mine THEN r.pin[s] ELSE pin[s]]
  /\ deps'    = [s \in Stages |->
                   IF s \notin mine THEN deps[s]
                   ELSE IF s \in r.explicit THEN r.depends[s] ELSE Previous(s)]
  /\ UNCHANGED <<nodeVars, claimVars, note, loop, maint>>

(* claim_stage up to its candidate query: the node gate, the capabilities  *)
(* (all the node has, those of a type, or the one asked for) and the pins. *)
ClaimRead(n) ==
  LET offered == IF index[n] = {} THEN caps[n] ELSE index[n] IN
  /\ loop = Idle
  /\ node[n] \in ClaimCategories
  /\ \E wanted \in SUBSET offered :
       LET rows == {s \in Stages : /\ st[s] = "pending"
                                   /\ Capability[s] \in wanted
                                   /\ PinAllows(s, n)}
       IN  /\ rows # {}
           /\ loop' = [op |-> "claim", node |-> n, rows |-> rows]
  /\ UNCHANGED <<nodeVars, taskVars, stageVars, maint>>

(* The rest of claim_stage: the candidates in order.  The first DML that   *)
(* finds its row still pending takes the stage; a stage addressed to a     *)
(* deleted owner is failed on the way.                                     *)
ClaimWrite ==
  LET n     == loop.node
      ready == {s \in loop.rows : st[s] = "pending" /\ DepsDone(s)}
      mine  == {s \in ready : owner[TaskOf[s]] \in {NoNode, n}}
      gone  == {s \in ready \ mine : node[owner[TaskOf[s]]] = "deleted"}
  IN
  /\ loop.op = "claim"
  /\ loop' = Idle
  /\ \/ /\ mine = {}
        /\ st' = SetStatus(gone, "failed")
        /\ UNCHANGED <<taskVars, claimVars>>
     \/ \E s \in mine :
          LET t == TaskOf[s] IN
          /\ \A o \in mine \ {s} : Before(s, o)
          /\ st' = [SetStatus({g \in gone : Before(g, s)}, "failed") EXCEPT ![s] = "claimed"]
          /\ by'      = [by EXCEPT ![s] = n]
          /\ claims'  = [claims EXCEPT ![s] = @ + 1]
          /\ expired' = [expired EXCEPT ![s] = FALSE]
          /\ owner'   = IF StagesOf(t) = {s} /\ owner[t] = NoNode
                        THEN [owner EXCEPT ![t] = n] ELSE owner
          /\ StartTask(t)
          /\ UNCHANGED <<prio, earlier, retry>>
  /\ UNCHANGED <<nodeVars, note, planVars, maint>>

(* complete_stage: the alive gate and the SELECT of the held row.          *)
CompleteRead(n, s) ==
  /\ loop = Idle
  /\ Live(n)
  /\ Holds(n, s)
  /\ loop' = [op |-> "complete", node |-> n, stage |-> s]
  /\ UNCHANGED <<nodeVars, taskVars, stageVars, maint>>

(* complete_stage: the guarded UPDATE, and the task when no work is open.  *)
CompleteWrite ==
  LET s == loop.stage
      t == TaskOf[s]
  IN
  /\ loop.op = "complete"
  /\ loop' = Idle
  /\ \/ /\ Holds(loop.node, s)
        /\ st' = [st EXCEPT ![s] = "completed"]
        /\ tStatus' = IF Completes(t, st') THEN [tStatus EXCEPT ![t] = "completed"] ELSE tStatus
     \/ /\ ~ Holds(loop.node, s)
        /\ UNCHANGED <<st, tStatus>>
  /\ UNCHANGED <<nodeVars, owner, prio, earlier, claimVars, note, planVars, maint>>

(* add_note: the alive gate.  A note of a node that holds no stage of the  *)
(* task changes no stage and is left out.                                  *)
NoteRead(n, t) ==
  /\ loop = Idle
  /\ Live(n)
  /\ \E s \in StagesOf(t) : by[s] = n
  /\ \E kind \in {"info", "longrun"} :
       loop' = [op |-> "note", node |-> n, task |-> t, kind |-> kind]
  /\ UNCHANGED <<nodeVars, taskVars, stageVars, maint>>

(* add_note: every row of the task the node holds gets a new lease; a      *)
(* longrun note accepts its claims, any note revives its orphans.          *)
NoteWrite ==
  LET held  == {s \in StagesOf(loop.task) : by[s] = loop.node}
      moved == {s \in held : \/ st[s] = "orphaned"
                             \/ st[s] = "claimed" /\ loop.kind = "longrun"}
  IN
  /\ loop.op = "note"
  /\ loop' = Idle
  /\ note' = [s \in Stages |-> IF s \in held THEN "fresh" ELSE note[s]]
  /\ st'   = SetStatus(moved, "accepted")
  /\ UNCHANGED <<nodeVars, taskVars, claimVars, planVars, maint>>

(* The statuses a heartbeat may write for a node it read in category c:    *)
(* the explicit one if the registry allows it, auto-busy and its revert,   *)
(* and online for a node read offline; "keep" leaves the column alone.     *)
HeartbeatWrites(c) ==
  {"AVAILABLE", "BUSY"} \cup IF c = "OFFLINE" THEN {"PENDING"} ELSE {"OFFLINE", "keep"}

(* heartbeat: reads the row and computes the status from the one it read.  *)
HeartbeatRead(n) ==
  /\ loop = Idle
  /\ node[n] # "deleted"
  /\ \E to \in HeartbeatWrites(node[n]), merge \in BOOLEAN :
       \E report \in {{}} \cup {{c} : c \in CapSets} :
         loop' = [op |-> "beat", node |-> n, status |-> to,
                  caps |-> IF merge THEN {caps[n] \cup c : c \in report} ELSE report]
  /\ UNCHANGED <<nodeVars, taskVars, stageVars, maint>>

(* heartbeat: last_seen always, the status only if one was computed.       *)
HeartbeatWrite ==
  LET n == loop.node IN
  /\ loop.op = "beat"
  /\ seen' = [seen EXCEPT ![n] = "fresh"]
  /\ node' = IF loop.status = "keep" THEN node ELSE [node EXCEPT ![n] = loop.status]
  /\ \/ /\ loop.caps = {}
        /\ loop' = Idle
        /\ UNCHANGED caps
     \/ \E c \in loop.caps :
          /\ caps' = [caps EXCEPT ![n] = c]
          /\ loop' = [op |-> "sync", node |-> n, caps |-> c]
  /\ UNCHANGED <<index, taskVars, stageVars, maint>>

(* sync_node_capabilities, a second transaction after the first committed. *)
SyncCapabilities ==
  /\ loop.op = "sync"
  /\ index' = [index EXCEPT ![loop.node] = loop.caps]
  /\ loop' = Idle
  /\ UNCHANGED <<node, seen, caps, taskVars, stageVars, maint>>

(* approve_node, without a new capability list: then it syncs the old one. *)
AdminApprove(n) ==
  /\ loop = Idle
  /\ node[n] = "PENDING"
  /\ node' = [node EXCEPT ![n] = "AVAILABLE"]
  /\ seen' = [seen EXCEPT ![n] = "fresh"]
  /\ loop' = [op |-> "sync", node |-> n, caps |-> caps[n]]
  /\ UNCHANGED <<caps, index, taskVars, stageVars, maint>>

(* admin_delete_node with fail_stages_of_deleted_node: its first statement *)
(* that counts is a DELETE, so the whole handler is one transaction.       *)
AdminDelete(n) ==
  /\ loop = Idle
  /\ node[n] # "deleted"
  /\ node'  = [node EXCEPT ![n] = "deleted"]
  /\ index' = [index EXCEPT ![n] = {}]
  /\ pin'   = [s \in Stages |-> IF pin[s] = n THEN NoNode ELSE pin[s]]
  /\ owner' = [t \in Tasks |-> IF owner[t] = n THEN NoNode ELSE owner[t]]
  /\ st'    = SetStatus(ClaimedOf(n), "failed")
  /\ ClearClaims(RowsOf(n))
  /\ FailTasks(FailedTasks(st', TasksOf(ClaimedOf(n))))
  /\ UNCHANGED <<seen, caps, prio, earlier, retry, claims, note, deps, loop, maint>>

-----------------------------------------------------------------------------
(* Watchdogs of the maintenance thread.                                    *)

(* mark_offline_nodes: the candidates.                                     *)
Stale == {n \in Nodes : Live(n) /\ seen[n] # "fresh"}

OfflineRead(w) ==
  /\ maint[w] = Idle
  /\ Stale # {}
  /\ maint' = [maint EXCEPT ![w] = [op |-> "offline", nodes |-> Stale]]
  /\ UNCHANGED <<nodeVars, taskVars, stageVars, loop>>

(* mark_offline_nodes: last_seen is checked again, and a candidate found   *)
(* offline afterwards loses its claims, whoever took it offline.  A        *)
(* candidate whose row is gone raises, which rolls the sweep back.         *)
OfflineWrite(w) ==
  LET cands   == maint[w].nodes
      status  == [n \in Nodes |-> IF n \in cands /\ seen[n] # "fresh" THEN "OFFLINE" ELSE node[n]]
      offline == {n \in cands : status[n] = "OFFLINE"}
      lost    == {s \in Stages : st[s] = "claimed" /\ by[s] \in offline}
  IN
  /\ maint[w].op = "offline"
  /\ maint' = [maint EXCEPT ![w] = Idle]
  /\ \/ /\ \E n \in cands : node[n] = "deleted"
        /\ UNCHANGED <<node, st, by, expired, tStatus>>
     \/ /\ \A n \in cands : node[n] # "deleted"
        /\ node' = status
        /\ st' = SetStatus(lost, "failed")
        /\ ClearClaims(lost)
        /\ FailTasks(DoneTasks(st', TasksOf(lost), {"completed", "failed", "timed_out"}))
  /\ UNCHANGED <<seen, caps, index, owner, prio, earlier, retry, claims, note, planVars, loop>>

ExpiredClaims == {s \in Stages : st[s] = "claimed" /\ expired[s]}

(* The status and claimed_at predicates of both UPDATEs.                   *)
SameClaim(s, sweep) == st[s] = "claimed" /\ claims[s] = sweep.claims[s]

BudgetSpent(count) == count > MaxRetries

(* release_or_fail_claims: expired claims with their retry_count and       *)
(* claimed_at.                                                             *)
ReleaseRead(w) ==
  LET rows == ExpiredClaims IN
  /\ maint[w] = Idle
  /\ rows # {}
  /\ maint' = [maint EXCEPT ![w] =
       [op |-> "release", rows |-> rows,
        retry |-> Column(retry, rows), claims |-> Column(claims, rows)]]
  /\ UNCHANGED <<nodeVars, taskVars, stageVars, loop>>

(* release_or_fail_claims: a claim that is still the one read goes back to *)
(* pending, or fails with its task once the retry budget is spent.         *)
ReleaseWrite(w) ==
  LET sweep == maint[w]
      hit   == {s \in sweep.rows : SameClaim(s, sweep)}
      spent == {s \in hit : BudgetSpent(sweep.retry[s] + 1)}
  IN
  /\ sweep.op = "release"
  /\ maint' = [maint EXCEPT ![w] = Idle]
  /\ st' = [s \in Stages |-> IF s \in spent THEN "failed" ELSE IF s \in hit THEN "pending" ELSE st[s]]
  /\ retry' = [s \in Stages |-> IF s \in hit THEN sweep.retry[s] + 1 ELSE retry[s]]
  /\ ClearClaims(hit)
  /\ FailTasks(DoneTasks(st', TasksOf(spent), {"failed"}) \cup FailedTasks(st', TasksOf(spent)))
  /\ UNCHANGED <<nodeVars, owner, prio, earlier, claims, note, planVars, loop>>

(* fail_orphaned_stages: pending stages with a dead pin or without a live  *)
(* provider.                                                               *)
OrphanRead(w) ==
  LET dead == {s \in Stages : st[s] = "pending" /\ DeadPin(s)}
      rows == {s \in Stages : st[s] = "pending" /\ ~ Covered(s)}
  IN
  /\ maint[w] = Idle
  /\ dead \cup rows # {}
  /\ maint' = [maint EXCEPT ![w] = [op |-> "orphan", dead |-> dead, rows |-> rows]]
  /\ UNCHANGED <<nodeVars, taskVars, stageVars, loop>>

(* fail_orphaned_stages: only the status is checked again.  With a dead    *)
(* pin to fail, the second query already runs inside the transaction.      *)
OrphanWrite(w) ==
  LET dead == {s \in maint[w].dead : st[s] = "pending" /\ DeadPin(s)}
      rows == IF maint[w].dead = {} THEN maint[w].rows ELSE {s \in Stages : ~ Covered(s)}
      hit  == dead \cup {s \in rows : st[s] = "pending"}
  IN
  /\ maint[w].op = "orphan"
  /\ maint' = [maint EXCEPT ![w] = Idle]
  /\ st' = SetStatus(hit, "failed")
  /\ FailTasks(DoneTasks(st', TasksOf(hit), {"failed"}) \cup FailedTasks(st', TasksOf(hit)))
  /\ UNCHANGED <<nodeVars, owner, prio, earlier, claimVars, note, planVars, loop>>

(* enforce_longrun_leases: what each of its three rules selects, over the  *)
(* stage statuses at the time of the query.                                *)
LeaseOverdue(status) == {s \in Stages : status[s] = "accepted" /\ note[s] \in {"overdue", "dead"}}
LeaseDead(status)    == {s \in Stages : status[s] = "orphaned" /\ note[s] \in {"none", "dead"}}
HolderGone(status)   ==
  {s \in Stages : /\ status[s] \in LongStatuses
                  /\ by[s] # NoNode
                  /\ ~ (Live(by[s]) /\ seen[by[s]] # "lost")}

(* The first query that finds rows is the last one outside the transaction.*)
LeaseRead(w) ==
  LET rows == <<LeaseOverdue(st), LeaseDead(st), HolderGone(st)>> IN
  /\ maint[w] = Idle
  /\ \E rule \in 1..3 :
       /\ rows[rule] # {}
       /\ \A r \in 1..(rule - 1) : rows[r] = {}
       /\ maint' = [maint EXCEPT ![w] = [op |-> "lease", rule |-> rule, rows |-> rows[rule]]]
  /\ UNCHANGED <<nodeVars, taskVars, stageVars, loop>>

(* enforce_longrun_leases: the three rules in order, each UPDATE with its  *)
(* own status predicate.                                                   *)
LeaseWrite(w) ==
  LET sweep   == maint[w]
      overdue == IF sweep.rule = 1 THEN {s \in sweep.rows : st[s] = "accepted"} ELSE {}
      st1     == SetStatus(overdue, "orphaned")
      dead    == CASE sweep.rule = 1 -> LeaseDead(st1)
                   [] sweep.rule = 2 -> {s \in sweep.rows : st1[s] = "orphaned"}
                   [] sweep.rule = 3 -> {}
      st2     == [s \in Stages |-> IF s \in dead THEN "failed" ELSE st1[s]]
      gone    == IF sweep.rule = 3 THEN {s \in sweep.rows : st2[s] \in LongStatuses}
                                   ELSE HolderGone(st2)
  IN
  /\ sweep.op = "lease"
  /\ maint' = [maint EXCEPT ![w] = Idle]
  /\ st' = [s \in Stages |-> IF s \in gone THEN "failed" ELSE st2[s]]
  /\ FailTasks(DoneTasks(st', TasksOf(overdue \cup dead \cup gone), {"failed", "timed_out", "cancelled"}))
  /\ UNCHANGED <<nodeVars, owner, prio, earlier, claimVars, note, planVars, loop>>

-----------------------------------------------------------------------------
(* The environment: time, and the loss of a request or a sweep.            *)

(* claim_expires_at passes.                                                *)
ClaimExpires(s) ==
  /\ st[s] = "claimed" /\ ~ expired[s]
  /\ expired' = [expired EXCEPT ![s] = TRUE]
  /\ UNCHANGED <<nodeVars, taskVars, st, by, retry, claims, note, planVars, loop, maint>>

(* last_note_at ages; only long-run leases read it, and a stage enters one *)
(* with a new note.                                                        *)
NoteAges(s) ==
  /\ st[s] \in LongStatuses
  /\ \/ note[s] = "fresh"   /\ note' = [note EXCEPT ![s] = "overdue"]
     \/ note[s] = "overdue" /\ note' = [note EXCEPT ![s] = "dead"]
  /\ UNCHANGED <<nodeVars, taskVars, st, claimVars, planVars, loop, maint>>

(* last_seen ages.  mark_offline_nodes compares with the time it started   *)
(* at, so nothing ages for it until it has written.                        *)
NodeAges(n) ==
  /\ node[n] # "deleted"
  /\ \A w \in Sweepers : maint[w].op # "offline"
  /\ \/ seen[n] = "fresh" /\ seen' = [seen EXCEPT ![n] = "late"]
     \/ seen[n] = "late"  /\ seen' = [seen EXCEPT ![n] = "lost"]
  /\ UNCHANGED <<node, caps, index, taskVars, stageVars, loop, maint>>

(* The transaction is given up between its read and its write: the process *)
(* dies and restarts, or the database stays locked and the call is retried *)
(* or refused.  What was committed stays.                                  *)
LoopAborts ==
  /\ loop # Idle
  /\ loop' = Idle
  /\ UNCHANGED <<nodeVars, taskVars, stageVars, maint>>

SweepAborts(w) ==
  /\ maint[w] # Idle
  /\ maint' = [maint EXCEPT ![w] = Idle]
  /\ UNCHANGED <<nodeVars, taskVars, stageVars, loop>>

-----------------------------------------------------------------------------
(* A running server: registered nodes, approved or not, and no task yet.   *)
Init ==
  /\ node \in [Nodes -> {"PENDING", "AVAILABLE"}]
  /\ seen = [n \in Nodes |-> "fresh"]
  /\ caps \in [Nodes -> CapSets]
  /\ index = caps
  /\ tStatus = [t \in Tasks |-> "none"]
  /\ owner = [t \in Tasks |-> NoNode]
  /\ prio = [t \in Tasks |-> 0]
  /\ earlier = [t \in Tasks |-> {}]
  /\ st = [s \in Stages |-> "none"]
  /\ by = [s \in Stages |-> NoNode]
  /\ expired = [s \in Stages |-> FALSE]
  /\ retry = [s \in Stages |-> 0]
  /\ claims = [s \in Stages |-> 0]
  /\ note = [s \in Stages |-> "none"]
  /\ pin = [s \in Stages |-> NoNode]
  /\ deps = [s \in Stages |-> {}]
  /\ loop = Idle
  /\ maint = [w \in Sweepers |-> Idle]

Requested ==
  \/ \E t \in Tasks, r \in Requests : CreateTask(t, r)
  \/ \E n \in Nodes :
       \/ ClaimRead(n)
       \/ \E s \in Stages : CompleteRead(n, s)
       \/ \E t \in Tasks : NoteRead(n, t)
       \/ HeartbeatRead(n)
       \/ AdminApprove(n)
       \/ AdminDelete(n)

LoopWrite == ClaimWrite \/ CompleteWrite \/ NoteWrite \/ HeartbeatWrite \/ SyncCapabilities

SweepRead(w)  == OfflineRead(w) \/ ReleaseRead(w) \/ OrphanRead(w) \/ LeaseRead(w)
SweepWrite(w) == OfflineWrite(w) \/ ReleaseWrite(w) \/ OrphanWrite(w) \/ LeaseWrite(w)

Environment ==
  \/ \E s \in Stages : ClaimExpires(s) \/ NoteAges(s)
  \/ \E n \in Nodes : NodeAges(n)
  \/ LoopAborts
  \/ \E w \in Sweepers : SweepAborts(w)

Next == Requested \/ LoopWrite \/ (\E w \in Sweepers : SweepRead(w) \/ SweepWrite(w)) \/ Environment

Spec == Init /\ [][Next]_vars

(* Fairness.  A sweep that has read is written or given up; run_due gives  *)
(* a watchdog with work to do its turn again and again, and not every one  *)
(* of its sweeps is given up; time passes.  Nothing is assumed of nodes:   *)
(* none has to claim, complete, note or heartbeat.  Each liveness property *)
(* assumes the turns of one watchdog only: the others may starve.          *)
SweepsEnd == \A w \in Sweepers : WF_vars(SweepWrite(w))

ReleaseTurns ==
  /\ SweepsEnd
  /\ \A w \in Sweepers : SF_vars(ReleaseRead(w)) /\ SF_vars(ReleaseWrite(w))
  /\ \A s \in Stages : WF_vars(ClaimExpires(s))

LeaseTurns ==
  /\ SweepsEnd
  /\ \A w \in Sweepers : SF_vars(LeaseRead(w)) /\ SF_vars(LeaseWrite(w))
  /\ \A s \in Stages : WF_vars(NoteAges(s))

OrphanTurns ==
  /\ SweepsEnd
  /\ \A w \in Sweepers : SF_vars(OrphanRead(w)) /\ SF_vars(OrphanWrite(w))

OfflineTurns ==
  /\ SweepsEnd
  /\ \A w \in Sweepers : SF_vars(OfflineRead(w)) /\ SF_vars(OfflineWrite(w))

-----------------------------------------------------------------------------
(* Types of the requests and sweeps that are read and not yet written.     *)

NodeStatus == {"deleted"} \cup {NodeStatuses[n].category : n \in DOMAIN NodeStatuses}
Age        == {"fresh", "late", "lost"}
NoteAge    == {"none", "fresh", "overdue", "dead"}
TaskState  == {"none", "pending", "running", "completed", "failed"}
StageState == {"none", "pending", "claimed", "accepted", "orphaned", "completed", "failed"}

LoopState ==
  {Idle}
  \cup [op : {"claim"}, node : Nodes, rows : SUBSET Stages]
  \cup [op : {"complete"}, node : Nodes, stage : Stages]
  \cup [op : {"note"}, node : Nodes, task : Tasks, kind : {"info", "longrun"}]
  \cup [op : {"beat"}, node : Nodes, status : NodeStatus \cup {"keep"}, caps : SUBSET (SUBSET CapNames)]
  \cup [op : {"sync"}, node : Nodes, caps : SUBSET CapNames]

SweepState ==
  {Idle}
  \cup [op : {"offline"}, nodes : SUBSET Nodes]
  \cup [op : {"release"}, rows : SUBSET Stages, retry : [Stages -> Nat], claims : [Stages -> Nat]]
  \cup [op : {"orphan"}, dead : SUBSET Stages, rows : SUBSET Stages]
  \cup [op : {"lease"}, rule : 1..3, rows : SUBSET Stages]

NodesOK ==
  /\ node \in [Nodes -> NodeStatus]
  /\ seen \in [Nodes -> Age]
  /\ caps \in [Nodes -> SUBSET CapNames] /\ index \in [Nodes -> SUBSET CapNames]

TasksOK ==
  /\ tStatus \in [Tasks -> TaskState]
  /\ owner \in [Tasks -> Nodes \cup {NoNode}]
  /\ prio \in [Tasks -> Int]
  /\ earlier \in [Tasks -> SUBSET Tasks]

StagesOK ==
  /\ st \in [Stages -> StageState]
  /\ by \in [Stages -> Nodes \cup {NoNode}]
  /\ expired \in [Stages -> BOOLEAN]
  /\ retry \in [Stages -> Nat] /\ claims \in [Stages -> Nat]
  /\ note \in [Stages -> NoteAge]
  /\ pin \in [Stages -> Nodes \cup {NoNode}]
  /\ deps \in [Stages -> SUBSET Stages]

(* The columns, requests and sweeps only ever hold values the handlers     *)
(* know; in particular no task or stage is ever cancelled or timed_out.    *)
TypeOK ==
  /\ NodesOK /\ TasksOK /\ StagesOK
  /\ loop \in LoopState
  /\ maint \in [Sweepers -> SweepState]

-----------------------------------------------------------------------------
(* Safety.                                                                 *)

(* Foreign keys and F-19: no owner, pin or claim refers to a deleted node, *)
(* whatever deletion, claim and sweep interleave; so the branches of       *)
(* claim_stage and fail_orphaned_stages for a dead owner or pin stay dead. *)
NoDanglingReference ==
  \A n \in Nodes : node[n] = "deleted" =>
    /\ \A s \in Stages : by[s] # n /\ pin[s] # n
    /\ \A t \in Tasks : owner[t] # n

(* A claimed stage has a holder, an open one has none and no claim that    *)
(* could expire: a claim is never half made or half released.              *)
ClaimIsWhole ==
  \A s \in Stages :
    /\ st[s] = "claimed" => by[s] # NoNode
    /\ st[s] \in {"none", "pending"} => by[s] = NoNode /\ ~ expired[s]

(* T-060: each return to pending costs exactly one retry, and only so many *)
(* are granted, so a stage is handed out at most max_retries + 1 times     *)
(* however the sweeps race with completions, takeovers and each other.     *)
RetryAccounting ==
  \A s \in Stages :
    /\ st[s] \in {"none", "pending"} => claims[s] = retry[s]
    /\ st[s] \in HeldStatuses \cup {"completed"} => claims[s] = retry[s] + 1
    /\ st[s] # "failed" => retry[s] <= MaxRetries
    /\ claims[s] <= MaxRetries + 1

(* A stage is only ever worked on after everything it depends on is        *)
(* completed, and stays so: no watchdog takes a completion back.           *)
DepsRespected ==
  \A s \in Stages : claims[s] > 0 => \A d \in deps[s] : st[d] = "completed"

(* The addressed owner and the pin decide who works on a stage: a stage is *)
(* never held past them, also after the owner flip of a single-stage task. *)
HolderIsAddressed ==
  \A s \in Stages : by[s] # NoNode =>
    /\ owner[TaskOf[s]] \in {NoNode, by[s]}
    /\ pin[s] \in {NoNode, by[s]}

(* What a claim records is believable: made and released as a whole, and   *)
(* held by nobody but the node the task or the stage is addressed to.      *)
ClaimsAreSound == ClaimIsWhole /\ HolderIsAddressed

(* A completed task has no open stage left: nobody can still be handed     *)
(* work of a task that was reported completed.                             *)
CompletedTaskIsClosed ==
  \A t \in Tasks : tStatus[t] = "completed" =>
    \A s \in StagesOf(t) : st[s] \in {"completed", "failed"}

(* T-189 F-05: a stage whose retry budget is spent fails its task, whatever*)
(* the other stages are doing.                                             *)
ExhaustedStageFailsTask ==
  \A s \in Stages : retry[s] > MaxRetries => tStatus[TaskOf[s]] = "failed"

(* A task is shown pending exactly as long as no stage of it has been      *)
(* handed out, unless it has failed before that.                           *)
PendingMeansUntouched ==
  \A s \in Stages :
    /\ tStatus[TaskOf[s]] = "pending" => claims[s] = 0
    /\ tStatus[TaskOf[s]] = "running" => \E o \in StagesOf(TaskOf[s]) : claims[o] > 0

(* The status of a task tells the truth about its stages, although claims, *)
(* completions and four sweeps each update the two tables in their own way.*)
TaskFollowsStages ==
  CompletedTaskIsClosed /\ ExhaustedStageFailsTask /\ PendingMeansUntouched

(* T-257, SF3, SF4: a completed or failed stage or task is final; a sweep, *)
(* a completion or a claim that lost its race changes nothing.             *)
TerminalIsFinal ==
  [][/\ \A s \in Stages : st[s] \in {"completed", "failed"} => st'[s] = st[s]
     /\ \A t \in Tasks : tStatus[t] \in FinalTask => tStatus'[t] = tStatus[t]]_vars

(* T-154: a stage a worker has taken over is not handed to another one: it *)
(* is revived, completed or failed, never pending or claimed again.        *)
LongRunIsNotReclaimed ==
  [][\A s \in Stages : st[s] \in LongStatuses =>
       st'[s] \in LongStatuses \cup {"completed", "failed"}]_vars

(* T-257: the claim-TTL watchdog takes back expired claims only; a claim   *)
(* made, or taken over, after the watchdog looked keeps its holder.        *)
OnlyExpiredClaimsReturn ==
  [][\A s \in Stages : retry'[s] # retry[s] => st[s] = "claimed" /\ expired[s]]_vars

(* What a worker holds stays with it, for a claim until its TTL is over,   *)
(* for a long run until it ends, however late a sweep writes.              *)
HeldWorkIsKept == LongRunIsNotReclaimed /\ OnlyExpiredClaimsReturn

(* In the same task before s, or of an older task that is no less urgent.  *)
CameFirst(o, s) ==
  LET a == TaskOf[o]
      b == TaskOf[s]
  IN  \/ a = b /\ Seq[o] < Seq[s]
      \/ a \in earlier[b] /\ prio[a] >= prio[b]

(* T-229: no stage overtakes another one.  If s was ever handed out, and o *)
(* came first, asks for no more than s does and is open to every node, then*)
(* o was handed out too or failed before its turn: no claim, read before   *)
(* sweeps and retries moved other stages, passes it over.  A deletion opens*)
(* stages that were addressed to the node, so none may have happened.      *)
NoQueueJumping ==
  (\A n \in Nodes : node[n] # "deleted") =>
    \A s, o \in Stages :
      /\ claims[s] > 0 /\ CameFirst(o, s)
      /\ Capability[o] = Capability[s] /\ deps[o] \subseteq deps[s]
      /\ pin[o] = NoNode /\ owner[TaskOf[o]] = NoNode
      => claims[o] > 0 \/ st[o] = "failed"

-----------------------------------------------------------------------------
(* Liveness.                                                               *)

(* T-060: given the claim-TTL watchdog's turns, no stage stays with a      *)
(* worker that neither completes it nor takes it over: every claim ends.   *)
ClaimsEnd ==
  ReleaseTurns => \A s \in Stages : st[s] = "claimed" ~> st[s] # "claimed"

(* T-154: given the lease watchdog's turns, a long-run stage whose node    *)
(* was deleted, so that nobody can complete or revive it, fails at last.   *)
AbandonedLongRunFails ==
  LeaseTurns => \A s \in Stages : (st[s] \in LongStatuses /\ by[s] = NoNode) ~> st[s] = "failed"

(* T-063: given the orphan watchdog's turns, a pending stage does not wait *)
(* forever for a capability no live node advertises.                       *)
UncoveredStagesFail ==
  OrphanTurns =>
    \A s \in Stages :
      []<>(st[s] = "pending" => \E n \in Nodes : /\ node[n] \in {"AVAILABLE", "BUSY"}
                                                 /\ Capability[s] \in index[n])

(* T-080: given the offline watchdog's turns, a node that stopped          *)
(* heartbeating does not stay live.                                        *)
SilentNodesGoOffline ==
  OfflineTurns => \A n \in Nodes : []<>(Live(n) => seen[n] = "fresh")

-----------------------------------------------------------------------------
(* What comments and docstrings say and the code does not do.              *)

(* _fail_tasks_with_failed_critical_stages: one failed stage fails the     *)
(* whole task, so a completed task has only completed stages.              *)
CompletedTaskHasNoFailedStage ==
  \A t \in Tasks : tStatus[t] = "completed" => \A s \in StagesOf(t) : st[s] # "failed"

(* _fail_tasks_if_all_stages_done: a task is failed as soon as all of its  *)
(* stages have reached a terminal status.                                  *)
ClosedTaskIsFinal ==
  \A t \in Tasks : tStatus[t] # "none" /\ (\A s \in StagesOf(t) : st[s] \notin OpenStatuses)
                     => tStatus[t] \in FinalTask

(* Both together: when its last stage has ended, a task has ended, and one *)
(* failed stage has failed it.                                             *)
TaskEndsWithItsStages == CompletedTaskHasNoFailedStage /\ ClosedTaskIsFinal

(* enforce_longrun_leases: a long-run stage of a node is failed for its    *)
(* absence only after node_offline_grace_seconds.                          *)
GraceRespected ==
  [][\A s \in Stages :
       st[s] \in LongStatuses /\ st'[s] = "failed" /\ note[s] = "fresh" /\ by[s] # NoNode
         => seen[by[s]] = "lost"]_vars
=============================================================================
