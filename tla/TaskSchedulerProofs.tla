------------------------- MODULE TaskSchedulerProofs -------------------------
(***************************************************************************)
(* Theorems about TaskScheduler, for every set of nodes, tasks, stages,    *)
(* requests and maintenance threads and every retry limit: types; retries, *)
(* finality and held work; references, claims and dependencies; what a     *)
(* task's status says; the order of claims; and the refinement of          *)
(* WorkQueue.                                                              *)
(***************************************************************************)
EXTENDS TaskSchedulerRefines, TLAPS

(* The categories of the registry, spelled out.                            *)
LEMMA Registry ==
  /\ OpenStatuses = {"pending", "claimed", "accepted", "orphaned"}
  /\ FinalTask = {"completed", "failed", "timed_out", "cancelled"}
  /\ NodeStatus = {"deleted", "OFFLINE", "PENDING", "AVAILABLE", "BUSY"}
<1>1. OpenStatuses = {"pending", "claimed", "accepted", "orphaned"}
  BY DEF OpenStatuses, StatusesIn, StageStatuses, Def
<1>2. FinalTask = {"completed", "failed", "timed_out", "cancelled"}
  BY DEF FinalTask, StatusesIn, TaskStatuses, Def
<1>3. NodeStatus = {"deleted", "OFFLINE", "PENDING", "AVAILABLE", "BUSY"}
  BY DEF NodeStatus, NodeStatuses, Def
<1> QED BY <1>1, <1>2, <1>3

(* What a pending request or sweep carries, by its kind.                   *)
LEMMA LoopFields ==
  ASSUME loop \in LoopState
  PROVE  /\ loop.op = "claim" => loop.node \in Nodes /\ loop.rows \in SUBSET Stages
         /\ loop.op = "complete" => loop.node \in Nodes /\ loop.stage \in Stages
         /\ loop.op = "note" => loop.node \in Nodes /\ loop.task \in Tasks
         /\ loop.op = "beat" => /\ loop.node \in Nodes
                               /\ loop.status \in NodeStatus \cup {"keep"}
                               /\ loop.caps \in SUBSET (SUBSET CapNames)
         /\ loop.op = "sync" => loop.node \in Nodes /\ loop.caps \in SUBSET CapNames
BY DEF LoopState, Idle

(* The same for the sweep of a maintenance thread.                        *)
LEMMA SweepFields ==
  ASSUME NEW w \in Sweepers, maint \in [Sweepers -> SweepState]
  PROVE  /\ maint[w].op = "offline" => maint[w].nodes \in SUBSET Nodes
         /\ maint[w].op = "release" => /\ maint[w].rows \in SUBSET Stages
                                      /\ maint[w].retry \in [Stages -> Nat]
                                      /\ maint[w].claims \in [Stages -> Nat]
         /\ maint[w].op = "orphan" => /\ maint[w].dead \in SUBSET Stages
                                     /\ maint[w].rows \in SUBSET Stages
         /\ maint[w].op = "lease" => maint[w].rule \in 1..3 /\ maint[w].rows \in SUBSET Stages
BY DEF SweepState, Idle

(* A running server without tasks is well typed.                           *)
LEMMA TypeInit == Init => TypeOK
BY Registry, RetryAssumption
   DEF Init, TypeOK, NodesOK, TasksOK, StagesOK, LoopState, SweepState, TaskState,
       StageState, Age, NoteAge, CapNames

(* No action of the event loop, of a sweep or of the environment writes a  *)
(* value outside the columns' types: one step per action, each split into  *)
(* the tables and the pending requests and sweeps.                         *)
LEMMA TypeStep ==
  ASSUME TypeOK, [Next]_vars
  PROVE  TypeOK'
<1> USE NoNodeAssumption, ShapeAssumption, RequestAssumption, RetryAssumption, Registry
<1>1. ASSUME NEW t \in Tasks, NEW r \in Requests, CreateTask(t, r) PROVE TypeOK'
  <2>1. (NodesOK /\ TasksOK /\ StagesOK)'
    BY <1>1
       DEF CreateTask, TypeOK, NodesOK, TasksOK, StagesOK, nodeVars, taskVars,
           stageVars, claimVars, planVars, RequestType, SetStatus, Previous, TaskState,
           StageState
  <2>2. (loop \in LoopState /\ maint \in [Sweepers -> SweepState])'
    BY <1>1 DEF CreateTask, TypeOK
  <2> QED BY <2>1, <2>2 DEF TypeOK
<1>2. ASSUME NEW n \in Nodes, ClaimRead(n) PROVE TypeOK'
  <2>1. (NodesOK /\ TasksOK /\ StagesOK)'
    BY <1>2
       DEF ClaimRead, TypeOK, NodesOK, TasksOK, StagesOK, nodeVars, taskVars, stageVars,
           claimVars, planVars
  <2>2. (loop \in LoopState /\ maint \in [Sweepers -> SweepState])'
    BY <1>2 DEF ClaimRead, TypeOK, Idle, LoopState
  <2> QED BY <2>1, <2>2 DEF TypeOK
<1>3. ASSUME ClaimWrite PROVE TypeOK'
  <2>1. (NodesOK /\ TasksOK /\ StagesOK)'
    <3>1. loop.node \in Nodes
      BY <1>3, LoopFields DEF ClaimWrite, TypeOK
    <3>2. NodesOK' /\ UNCHANGED <<note, pin, deps>>
      BY <1>3 DEF ClaimWrite, TypeOK, NodesOK, nodeVars, planVars
    <3>3. st' \in [Stages -> StageState]
      <4>1. "failed" \in StageState /\ "claimed" \in StageState /\ st \in [Stages -> StageState]
        BY DEF StageState, TypeOK, StagesOK
      <4>2. \A S \in SUBSET Stages : SetStatus(S, "failed") \in [Stages -> StageState]
        BY <4>1 DEF SetStatus
      <4>3. CASE \E S \in SUBSET Stages : st' = SetStatus(S, "failed")
        BY <4>2, <4>3
      <4>4. CASE \E S \in SUBSET Stages, s \in Stages :
                   st' = [SetStatus(S, "failed") EXCEPT ![s] = "claimed"]
        BY <4>1, <4>2, <4>4
      <4> QED BY <1>3, <4>3, <4>4, LoopFields DEF ClaimWrite, TypeOK
    <3>6. claims' \in [Stages -> Nat]
      <4>1. claims' = claims \/ \E s \in Stages : claims' = [claims EXCEPT ![s] = claims[s] + 1]
        BY <1>3, LoopFields DEF ClaimWrite, TypeOK, claimVars
      <4> QED BY <4>1 DEF TypeOK, StagesOK
    <3>4. /\ by' \in [Stages -> Nodes \cup {NoNode}]
          /\ expired' \in [Stages -> BOOLEAN]
          /\ retry' = retry
      BY <1>3, <3>1 DEF ClaimWrite, TypeOK, StagesOK, claimVars
    <3>5. TasksOK'
      BY <1>3, <3>1 DEF ClaimWrite, StartTask, TypeOK, TasksOK, TaskState, taskVars
    <3> QED BY <3>2, <3>3, <3>4, <3>5, <3>6 DEF TypeOK, StagesOK
  <2>2. (loop \in LoopState /\ maint \in [Sweepers -> SweepState])'
    BY <1>3 DEF ClaimWrite, TypeOK, Idle, LoopState
  <2> QED BY <2>1, <2>2 DEF TypeOK
<1>4. ASSUME NEW n \in Nodes, NEW s \in Stages, CompleteRead(n, s) PROVE TypeOK'
  <2>1. (NodesOK /\ TasksOK /\ StagesOK)'
    BY <1>4
       DEF CompleteRead, TypeOK, NodesOK, TasksOK, StagesOK, nodeVars, taskVars,
           stageVars, claimVars, planVars
  <2>2. (loop \in LoopState /\ maint \in [Sweepers -> SweepState])'
    BY <1>4 DEF CompleteRead, TypeOK, Idle, LoopState
  <2> QED BY <2>1, <2>2 DEF TypeOK
<1>5. ASSUME CompleteWrite PROVE TypeOK'
  <2>1. (NodesOK /\ TasksOK /\ StagesOK)'
    BY <1>5
       DEF CompleteWrite, TypeOK, NodesOK, TasksOK, StagesOK, nodeVars, taskVars,
           stageVars, claimVars, planVars, TaskState, StageState, LoopState
  <2>2. (loop \in LoopState /\ maint \in [Sweepers -> SweepState])'
    BY <1>5 DEF CompleteWrite, TypeOK, Idle, LoopState
  <2> QED BY <2>1, <2>2 DEF TypeOK
<1>6. ASSUME NEW n \in Nodes, NEW t \in Tasks, NoteRead(n, t) PROVE TypeOK'
  <2>1. (NodesOK /\ TasksOK /\ StagesOK)'
    BY <1>6
       DEF NoteRead, TypeOK, NodesOK, TasksOK, StagesOK, nodeVars, taskVars, stageVars,
           claimVars, planVars
  <2>2. (loop \in LoopState /\ maint \in [Sweepers -> SweepState])'
    BY <1>6 DEF NoteRead, TypeOK, Idle, LoopState
  <2> QED BY <2>1, <2>2 DEF TypeOK
<1>7. ASSUME NoteWrite PROVE TypeOK'
  <2>1. (NodesOK /\ TasksOK /\ StagesOK)'
    BY <1>7
       DEF NoteWrite, TypeOK, NodesOK, TasksOK, StagesOK, nodeVars, taskVars, stageVars,
           claimVars, planVars, SetStatus, StageState, NoteAge
  <2>2. (loop \in LoopState /\ maint \in [Sweepers -> SweepState])'
    BY <1>7 DEF NoteWrite, TypeOK, Idle, LoopState
  <2> QED BY <2>1, <2>2 DEF TypeOK
<1>8. ASSUME NEW n \in Nodes, HeartbeatRead(n) PROVE TypeOK'
  <2>1. (NodesOK /\ TasksOK /\ StagesOK)'
    BY <1>8
       DEF HeartbeatRead, TypeOK, NodesOK, TasksOK, StagesOK, nodeVars, taskVars,
           stageVars, claimVars, planVars
  <2>2. (loop \in LoopState /\ maint \in [Sweepers -> SweepState])'
    <3>1. PICK to \in HeartbeatWrites(node[n]), merge \in BOOLEAN,
               report \in {{}} \cup {{c} : c \in CapSets} :
            loop' = [op |-> "beat", node |-> n, status |-> to,
                     caps |-> IF merge THEN {caps[n] \cup c : c \in report} ELSE report]
      BY <1>8 DEF HeartbeatRead
    <3>2. to \in NodeStatus \cup {"keep"}
      BY DEF HeartbeatWrites
    <3>3. report \in SUBSET (SUBSET CapNames) /\ caps[n] \in SUBSET CapNames
      BY DEF CapNames, TypeOK, NodesOK
    <3>4. loop'.caps \in SUBSET (SUBSET CapNames)
      BY <3>1, <3>3
    <3> QED BY <1>8, <3>1, <3>2, <3>4 DEF HeartbeatRead, TypeOK, LoopState
  <2> QED BY <2>1, <2>2 DEF TypeOK
<1>9. ASSUME HeartbeatWrite PROVE TypeOK'
  <2>1. (NodesOK /\ TasksOK /\ StagesOK)'
    BY <1>9, LoopFields
       DEF HeartbeatWrite, TypeOK, NodesOK, TasksOK, StagesOK, nodeVars, taskVars,
           stageVars, claimVars, planVars, Age
  <2>2. (loop \in LoopState /\ maint \in [Sweepers -> SweepState])'
    BY <1>9 DEF HeartbeatWrite, TypeOK, Idle, LoopState
  <2> QED BY <2>1, <2>2 DEF TypeOK
<1>10. ASSUME SyncCapabilities PROVE TypeOK'
  <2>1. (NodesOK /\ TasksOK /\ StagesOK)'
    BY <1>10, LoopFields
       DEF SyncCapabilities, TypeOK, NodesOK, TasksOK, StagesOK, nodeVars, taskVars,
           stageVars, claimVars, planVars
  <2>2. (loop \in LoopState /\ maint \in [Sweepers -> SweepState])'
    BY <1>10 DEF SyncCapabilities, TypeOK, Idle, LoopState
  <2> QED BY <2>1, <2>2 DEF TypeOK
<1>11. ASSUME NEW n \in Nodes, AdminApprove(n) PROVE TypeOK'
  <2>1. (NodesOK /\ TasksOK /\ StagesOK)'
    BY <1>11
       DEF AdminApprove, TypeOK, NodesOK, TasksOK, StagesOK, nodeVars, taskVars,
           stageVars, claimVars, planVars, Age
  <2>2. (loop \in LoopState /\ maint \in [Sweepers -> SweepState])'
    BY <1>11 DEF AdminApprove, TypeOK, NodesOK, LoopState
  <2> QED BY <2>1, <2>2 DEF TypeOK
<1>12. ASSUME NEW n \in Nodes, AdminDelete(n) PROVE TypeOK'
  <2>1. (NodesOK /\ TasksOK /\ StagesOK)'
    BY <1>12
       DEF AdminDelete, TypeOK, NodesOK, TasksOK, StagesOK, nodeVars, taskVars,
           stageVars, claimVars, planVars, SetStatus, ClearClaims, FailTasks, TaskState,
           StageState
  <2>2. (loop \in LoopState /\ maint \in [Sweepers -> SweepState])'
    BY <1>12 DEF AdminDelete, TypeOK
  <2> QED BY <2>1, <2>2 DEF TypeOK
<1>13. ASSUME NEW w \in Sweepers, OfflineRead(w) PROVE TypeOK'
  <2>1. (NodesOK /\ TasksOK /\ StagesOK)'
    BY <1>13
       DEF OfflineRead, TypeOK, NodesOK, TasksOK, StagesOK, nodeVars, taskVars,
           stageVars, claimVars, planVars
  <2>2. (loop \in LoopState /\ maint \in [Sweepers -> SweepState])'
    BY <1>13 DEF OfflineRead, TypeOK, Idle, SweepState, Stale
  <2> QED BY <2>1, <2>2 DEF TypeOK
<1>14. ASSUME NEW w \in Sweepers, OfflineWrite(w) PROVE TypeOK'
  <2>1. (NodesOK /\ TasksOK /\ StagesOK)'
    <3>1. node' \in [Nodes -> NodeStatus]
      BY <1>14 DEF OfflineWrite, TypeOK, NodesOK
    <3>2. st' \in [Stages -> StageState]
      BY <1>14 DEF OfflineWrite, TypeOK, StagesOK, SetStatus, StageState
    <3>4. by' \in [Stages -> Nodes \cup {NoNode}]
      BY <1>14 DEF OfflineWrite, TypeOK, StagesOK, ClearClaims
    <3>5. expired' \in [Stages -> BOOLEAN]
      BY <1>14 DEF OfflineWrite, TypeOK, StagesOK, ClearClaims
    <3>3. tStatus' \in [Tasks -> TaskState]
      BY <1>14 DEF OfflineWrite, TypeOK, TasksOK, FailTasks, TaskState
    <3> QED BY <1>14, <3>1, <3>2, <3>3, <3>4, <3>5
       DEF OfflineWrite, TypeOK, NodesOK, TasksOK, StagesOK, planVars
  <2>2. (loop \in LoopState /\ maint \in [Sweepers -> SweepState])'
    BY <1>14 DEF OfflineWrite, TypeOK, Idle, SweepState
  <2> QED BY <2>1, <2>2 DEF TypeOK
<1>15. ASSUME NEW w \in Sweepers, ReleaseRead(w) PROVE TypeOK'
  <2>1. (NodesOK /\ TasksOK /\ StagesOK)'
    BY <1>15
       DEF ReleaseRead, TypeOK, NodesOK, TasksOK, StagesOK, nodeVars, taskVars,
           stageVars, claimVars, planVars
  <2>2. (loop \in LoopState /\ maint \in [Sweepers -> SweepState])'
    BY <1>15 DEF ReleaseRead, TypeOK, StagesOK, SweepState, ExpiredClaims, Column
  <2> QED BY <2>1, <2>2 DEF TypeOK
<1>16. ASSUME NEW w \in Sweepers, ReleaseWrite(w) PROVE TypeOK'
  <2>1. (NodesOK /\ TasksOK /\ StagesOK)'
    <3>1. /\ st' \in [Stages -> StageState]
          /\ by' \in [Stages -> Nodes \cup {NoNode}]
          /\ expired' \in [Stages -> BOOLEAN]
      BY <1>16 DEF ReleaseWrite, TypeOK, StagesOK, ClearClaims, StageState
    <3>2. retry' \in [Stages -> Nat]
      BY <1>16, SweepFields DEF ReleaseWrite, TypeOK, StagesOK
    <3>3. tStatus' \in [Tasks -> TaskState]
      BY <1>16 DEF ReleaseWrite, TypeOK, TasksOK, FailTasks, TaskState
    <3> QED BY <1>16, <3>1, <3>2, <3>3
       DEF ReleaseWrite, TypeOK, NodesOK, TasksOK, StagesOK, nodeVars, planVars
  <2>2. (loop \in LoopState /\ maint \in [Sweepers -> SweepState])'
    BY <1>16 DEF ReleaseWrite, TypeOK, Idle, SweepState
  <2> QED BY <2>1, <2>2 DEF TypeOK
<1>17. ASSUME NEW w \in Sweepers, OrphanRead(w) PROVE TypeOK'
  <2>1. (NodesOK /\ TasksOK /\ StagesOK)'
    BY <1>17
       DEF OrphanRead, TypeOK, NodesOK, TasksOK, StagesOK, nodeVars, taskVars,
           stageVars, claimVars, planVars
  <2>2. (loop \in LoopState /\ maint \in [Sweepers -> SweepState])'
    BY <1>17 DEF OrphanRead, TypeOK, Idle, SweepState
  <2> QED BY <2>1, <2>2 DEF TypeOK
<1>18. ASSUME NEW w \in Sweepers, OrphanWrite(w) PROVE TypeOK'
  <2>1. (NodesOK /\ TasksOK /\ StagesOK)'
    BY <1>18
       DEF OrphanWrite, TypeOK, NodesOK, TasksOK, StagesOK, nodeVars, taskVars,
           stageVars, claimVars, planVars, SetStatus, FailTasks, TaskState, StageState
  <2>2. (loop \in LoopState /\ maint \in [Sweepers -> SweepState])'
    BY <1>18 DEF OrphanWrite, TypeOK, Idle, SweepState
  <2> QED BY <2>1, <2>2 DEF TypeOK
<1>19. ASSUME NEW w \in Sweepers, LeaseRead(w) PROVE TypeOK'
  <2>1. (NodesOK /\ TasksOK /\ StagesOK)'
    BY <1>19
       DEF LeaseRead, TypeOK, NodesOK, TasksOK, StagesOK, nodeVars, taskVars, stageVars,
           claimVars, planVars
  <2>2. (loop \in LoopState /\ maint \in [Sweepers -> SweepState])'
    BY <1>19 DEF LeaseRead, TypeOK, Idle, SweepState, LeaseOverdue, LeaseDead, HolderGone
  <2> QED BY <2>1, <2>2 DEF TypeOK
<1>20. ASSUME NEW w \in Sweepers, LeaseWrite(w) PROVE TypeOK'
  <2>1. (NodesOK /\ TasksOK /\ StagesOK)'
    BY <1>20
       DEF LeaseWrite, TypeOK, NodesOK, TasksOK, StagesOK, nodeVars, taskVars,
           stageVars, claimVars, planVars, SetStatus, FailTasks, TaskState, StageState
  <2>2. (loop \in LoopState /\ maint \in [Sweepers -> SweepState])'
    BY <1>20 DEF LeaseWrite, TypeOK, Idle, SweepState
  <2> QED BY <2>1, <2>2 DEF TypeOK
<1>21. ASSUME NEW s \in Stages, ClaimExpires(s) PROVE TypeOK'
  <2>1. (NodesOK /\ TasksOK /\ StagesOK)'
    BY <1>21
       DEF ClaimExpires, TypeOK, NodesOK, TasksOK, StagesOK, nodeVars, taskVars,
           stageVars, claimVars, planVars
  <2>2. (loop \in LoopState /\ maint \in [Sweepers -> SweepState])'
    BY <1>21 DEF ClaimExpires, TypeOK
  <2> QED BY <2>1, <2>2 DEF TypeOK
<1>22. ASSUME NEW s \in Stages, NoteAges(s) PROVE TypeOK'
  <2>1. (NodesOK /\ TasksOK /\ StagesOK)'
    BY <1>22
       DEF NoteAges, TypeOK, NodesOK, TasksOK, StagesOK, nodeVars, taskVars, stageVars,
           claimVars, planVars, NoteAge
  <2>2. (loop \in LoopState /\ maint \in [Sweepers -> SweepState])'
    BY <1>22 DEF NoteAges, TypeOK
  <2> QED BY <2>1, <2>2 DEF TypeOK
<1>23. ASSUME NEW n \in Nodes, NodeAges(n) PROVE TypeOK'
  <2>1. (NodesOK /\ TasksOK /\ StagesOK)'
    BY <1>23
       DEF NodeAges, TypeOK, NodesOK, TasksOK, StagesOK, nodeVars, taskVars, stageVars,
           claimVars, planVars, Age
  <2>2. (loop \in LoopState /\ maint \in [Sweepers -> SweepState])'
    BY <1>23 DEF NodeAges, TypeOK
  <2> QED BY <2>1, <2>2 DEF TypeOK
<1>24. ASSUME LoopAborts PROVE TypeOK'
  <2>1. (NodesOK /\ TasksOK /\ StagesOK)'
    BY <1>24
       DEF LoopAborts, TypeOK, NodesOK, TasksOK, StagesOK, nodeVars, taskVars,
           stageVars, claimVars, planVars
  <2>2. (loop \in LoopState /\ maint \in [Sweepers -> SweepState])'
    BY <1>24 DEF LoopAborts, TypeOK, Idle, LoopState
  <2> QED BY <2>1, <2>2 DEF TypeOK
<1>25. ASSUME NEW w \in Sweepers, SweepAborts(w) PROVE TypeOK'
  <2>1. (NodesOK /\ TasksOK /\ StagesOK)'
    BY <1>25
       DEF SweepAborts, TypeOK, NodesOK, TasksOK, StagesOK, nodeVars, taskVars,
           stageVars, claimVars, planVars
  <2>2. (loop \in LoopState /\ maint \in [Sweepers -> SweepState])'
    BY <1>25 DEF SweepAborts, TypeOK, Idle, SweepState
  <2> QED BY <2>1, <2>2 DEF TypeOK
<1>U. CASE UNCHANGED vars
  BY <1>U
     DEF TypeOK, NodesOK, TasksOK, StagesOK, vars, nodeVars, taskVars, stageVars,
         claimVars, planVars
<1> QED
  BY <1>1, <1>2, <1>3, <1>4, <1>5, <1>6, <1>7, <1>8, <1>9, <1>10,
     <1>11, <1>12, <1>13, <1>14, <1>15, <1>16, <1>17, <1>18, <1>19,
     <1>20, <1>21, <1>22, <1>23, <1>24, <1>25, <1>U
     DEF Next, Requested, LoopWrite, SweepRead, SweepWrite, Environment

(* Every table column, pending request and sweep has its type, always.     *)
THEOREM TypeInvariant == Spec => []TypeOK
BY TypeInit, TypeStep, PTL DEF Spec

-----------------------------------------------------------------------------
(* The retry budget of a stage, the finality of what has ended and the     *)
(* promises about claims and takeovers.  The inductive invariant says what *)
(* a pending release sweep may still assume about the rows it read, which  *)
(* is all the write step's predicates check.                               *)

(* A task that does not exist has no stage that exists.                    *)
StagesAreCreated == \A s \in Stages : tStatus[TaskOf[s]] = "none" => st[s] = "none"

(* A release sweep has read claims that had cost one more than the retries *)
(* so far; such a claim, if it is still the current one, has expired.      *)
SweepsReadClaims ==
  \A w \in Sweepers : maint[w].op = "release" => \A s \in maint[w].rows :
    /\ maint[w].claims[s] = maint[w].retry[s] + 1
    /\ maint[w].claims[s] <= claims[s]
    /\ st[s] = "claimed" /\ claims[s] = maint[w].claims[s] => expired[s]

Inductive == TypeOK /\ StagesAreCreated /\ RetryAccounting /\ SweepsReadClaims

(* What one step may do to a stage: nothing, create it, hand it out, keep  *)
(* or complete it, fail it, or take back its expired claim at the price of *)
(* one retry.                                                              *)
CountersSame(s) == claims'[s] = claims[s] /\ retry'[s] = retry[s]

StageMove(s) ==
  \/ st'[s] = st[s] /\ CountersSame(s)
  \/ /\ st[s] = "none" /\ st'[s] = "pending" /\ tStatus'[TaskOf[s]] # "none"
     /\ CountersSame(s)
  \/ /\ st[s] = "pending" /\ st'[s] = "claimed"
     /\ claims'[s] = claims[s] + 1 /\ retry'[s] = retry[s]
  \/ st[s] \in HeldStatuses /\ st'[s] \in LongStatuses \cup {"completed"} /\ CountersSame(s)
  \/ st[s] \in HeldStatuses \cup {"pending"} /\ st'[s] = "failed" /\ CountersSame(s)
  \/ /\ st[s] = "claimed" /\ expired[s]
     /\ claims'[s] = claims[s] /\ retry'[s] = retry[s] + 1
     /\ st'[s] = IF retry'[s] > MaxRetries THEN "failed" ELSE "pending"

(* A claim that has expired stays so until somebody else holds the stage.  *)
ExpiryMove(s) == expired[s] /\ st'[s] = "claimed" => expired'[s] \/ claims'[s] = claims[s] + 1

(* A task stays created, and ended once it has ended.                      *)
TaskMove(t) ==
  /\ tStatus[t] # "none" => tStatus'[t] # "none"
  /\ tStatus[t] \in FinalTask => tStatus'[t] = tStatus[t]

(* A release sweep is the one that was pending, or has just read.          *)
SweepMove(w) ==
  maint'[w].op = "release" =>
    \/ maint'[w] = maint[w]
    \/ /\ UNCHANGED <<st, claims, retry, expired>>
       /\ \A s \in maint'[w].rows : /\ expired[s] /\ st[s] = "claimed"
                                    /\ maint'[w].claims[s] = claims[s]
                                    /\ maint'[w].retry[s] = retry[s]

Moves ==
  /\ \A s \in Stages : StageMove(s) /\ ExpiryMove(s)
  /\ \A t \in Tasks : TaskMove(t)
  /\ \A w \in Sweepers : SweepMove(w)

(* Init establishes the invariant.                                         *)
LEMMA InductiveInit == Init => Inductive
<1> SUFFICES ASSUME Init PROVE Inductive
  OBVIOUS
<1>1. TypeOK
  BY TypeInit
<1>2. StagesAreCreated /\ SweepsReadClaims
  BY DEF Init, StagesAreCreated, SweepsReadClaims, Idle
<1>3. RetryAccounting
  BY RetryAssumption DEF Init, RetryAccounting, HeldStatuses
<1> QED BY <1>1, <1>2, <1>3 DEF Inductive

(* FailTasks leaves ended tasks alone when it is given others only.        *)
LEMMA FailTasksMoves ==
  ASSUME NEW T, \A t \in T : tStatus[t] \notin FinalTask, FailTasks(T)
  PROVE  \A t \in Tasks : TaskMove(t)
BY DEF FailTasks, TaskMove

(* The steps that touch neither a stage's status and counters nor a task's *)
(* status, and read for no release sweep.                                  *)
LEMMA QuietMoves ==
  ASSUME UNCHANGED <<st, claims, retry, expired, tStatus>>,
         \A w \in Sweepers : SweepMove(w)
  PROVE  Moves
BY DEF Moves, StageMove, ExpiryMove, TaskMove, CountersSame

(* Every action makes only these moves.                                    *)
LEMMA NextMoves ==
  ASSUME Inductive, [Next]_vars
  PROVE  Moves
<1> USE ShapeAssumption, RetryAssumption, Registry
<1>0. TypeOK /\ StagesAreCreated /\ RetryAccounting /\ SweepsReadClaims
  BY DEF Inductive
<1>1. ASSUME NEW n \in Nodes, ClaimRead(n) PROVE Moves
  <2>1. UNCHANGED <<st, claims, retry, expired, tStatus, maint>>
    BY <1>1 DEF ClaimRead, stageVars, taskVars, claimVars
  <2> QED BY <2>1, QuietMoves DEF SweepMove
<1>2. ASSUME NEW n \in Nodes, NEW s \in Stages, CompleteRead(n, s) PROVE Moves
  <2>1. UNCHANGED <<st, claims, retry, expired, tStatus, maint>>
    BY <1>2 DEF CompleteRead, stageVars, taskVars, claimVars
  <2> QED BY <2>1, QuietMoves DEF SweepMove
<1>3. ASSUME NEW n \in Nodes, NEW t \in Tasks, NoteRead(n, t) PROVE Moves
  <2>1. UNCHANGED <<st, claims, retry, expired, tStatus, maint>>
    BY <1>3 DEF NoteRead, stageVars, taskVars, claimVars
  <2> QED BY <2>1, QuietMoves DEF SweepMove
<1>4. ASSUME NEW n \in Nodes, HeartbeatRead(n) PROVE Moves
  <2>1. UNCHANGED <<st, claims, retry, expired, tStatus, maint>>
    BY <1>4 DEF HeartbeatRead, stageVars, taskVars, claimVars
  <2> QED BY <2>1, QuietMoves DEF SweepMove
<1>5. ASSUME HeartbeatWrite PROVE Moves
  <2>1. UNCHANGED <<st, claims, retry, expired, tStatus, maint>>
    BY <1>5 DEF HeartbeatWrite, stageVars, taskVars, claimVars
  <2> QED BY <2>1, QuietMoves DEF SweepMove
<1>6. ASSUME SyncCapabilities PROVE Moves
  <2>1. UNCHANGED <<st, claims, retry, expired, tStatus, maint>>
    BY <1>6 DEF SyncCapabilities, stageVars, taskVars, claimVars
  <2> QED BY <2>1, QuietMoves DEF SweepMove
<1>7. ASSUME NEW n \in Nodes, AdminApprove(n) PROVE Moves
  <2>1. UNCHANGED <<st, claims, retry, expired, tStatus, maint>>
    BY <1>7 DEF AdminApprove, stageVars, taskVars, claimVars
  <2> QED BY <2>1, QuietMoves DEF SweepMove
<1>8. ASSUME NEW s \in Stages, NoteAges(s) PROVE Moves
  <2>1. UNCHANGED <<st, claims, retry, expired, tStatus, maint>>
    BY <1>8 DEF NoteAges, stageVars, taskVars, claimVars
  <2> QED BY <2>1, QuietMoves DEF SweepMove
<1>9. ASSUME NEW n \in Nodes, NodeAges(n) PROVE Moves
  <2>1. UNCHANGED <<st, claims, retry, expired, tStatus, maint>>
    BY <1>9 DEF NodeAges, stageVars, taskVars, claimVars
  <2> QED BY <2>1, QuietMoves DEF SweepMove
<1>10. ASSUME LoopAborts PROVE Moves
  <2>1. UNCHANGED <<st, claims, retry, expired, tStatus, maint>>
    BY <1>10 DEF LoopAborts, stageVars, taskVars, claimVars
  <2> QED BY <2>1, QuietMoves DEF SweepMove
<1>11. ASSUME NEW w \in Sweepers, OfflineRead(w) PROVE Moves
  <2>1. UNCHANGED <<st, claims, retry, expired, tStatus>>
    BY <1>11 DEF OfflineRead, stageVars, taskVars, claimVars
  <2>2. \A v \in Sweepers : SweepMove(v)
    BY <1>0, <1>11, <2>1 DEF OfflineRead, SweepMove, TypeOK
  <2> QED BY <2>1, <2>2, QuietMoves
<1>12. ASSUME NEW w \in Sweepers, ReleaseRead(w) PROVE Moves
  <2>1. UNCHANGED <<st, claims, retry, expired, tStatus>>
    BY <1>12 DEF ReleaseRead, stageVars, taskVars, claimVars
  <2>2. \A v \in Sweepers : SweepMove(v)
    BY <1>0, <1>12, <2>1 DEF ReleaseRead, SweepMove, TypeOK, ExpiredClaims, Column
  <2> QED BY <2>1, <2>2, QuietMoves
<1>13. ASSUME NEW w \in Sweepers, OrphanRead(w) PROVE Moves
  <2>1. UNCHANGED <<st, claims, retry, expired, tStatus>>
    BY <1>13 DEF OrphanRead, stageVars, taskVars, claimVars
  <2>2. \A v \in Sweepers : SweepMove(v)
    BY <1>0, <1>13, <2>1 DEF OrphanRead, SweepMove, TypeOK
  <2> QED BY <2>1, <2>2, QuietMoves
<1>14. ASSUME NEW w \in Sweepers, LeaseRead(w) PROVE Moves
  <2>1. UNCHANGED <<st, claims, retry, expired, tStatus>>
    BY <1>14 DEF LeaseRead, stageVars, taskVars, claimVars
  <2>2. \A v \in Sweepers : SweepMove(v)
    BY <1>0, <1>14, <2>1 DEF LeaseRead, SweepMove, TypeOK
  <2> QED BY <2>1, <2>2, QuietMoves
<1>15. ASSUME NEW w \in Sweepers, SweepAborts(w) PROVE Moves
  <2>1. UNCHANGED <<st, claims, retry, expired, tStatus>>
    BY <1>15 DEF SweepAborts, stageVars, taskVars, claimVars
  <2>2. \A v \in Sweepers : SweepMove(v)
    BY <1>0, <1>15, <2>1 DEF SweepAborts, SweepMove, TypeOK, Idle
  <2> QED BY <2>1, <2>2, QuietMoves
<1>16. ASSUME NEW t \in Tasks, NEW r \in Requests, CreateTask(t, r) PROVE Moves
  <2>1. \A s \in Stages : StageMove(s)
    BY <1>0, <1>16
       DEF CreateTask, StageMove, CountersSame, TypeOK, StagesOK, TasksOK,
           StagesAreCreated, StagesOf, SetStatus, claimVars
  <2>2. \A s \in Stages : ExpiryMove(s)
    BY <1>0, <1>16
       DEF CreateTask, ExpiryMove, TypeOK, StagesOK, StagesAreCreated, StagesOf,
           SetStatus, claimVars
  <2>3. \A u \in Tasks : TaskMove(u)
    BY <1>0, <1>16 DEF CreateTask, TaskMove, TypeOK, TasksOK, claimVars
  <2>4. \A w \in Sweepers : SweepMove(w)
    BY <1>16 DEF CreateTask, SweepMove
  <2> QED BY <2>1, <2>2, <2>3, <2>4 DEF Moves
<1>17. ASSUME ClaimWrite PROVE Moves
  <2>1. \A s \in Stages : StageMove(s)
    <3>1. PICK gone \in SUBSET {s \in Stages : st[s] = "pending"} :
            \/ st' = SetStatus(gone, "failed") /\ UNCHANGED claimVars
            \/ \E s \in Stages :
                 /\ st[s] = "pending"
                 /\ st' = [SetStatus(gone, "failed") EXCEPT ![s] = "claimed"]
                 /\ claims' = [claims EXCEPT ![s] = @ + 1]
                 /\ retry' = retry
      BY <1>0, <1>17, LoopFields, Zenon DEF ClaimWrite, TypeOK
    <3>2. st \in [Stages -> StageState] /\ claims \in [Stages -> Nat]
      BY <1>0 DEF TypeOK, StagesOK
    <3>3. SetStatus(gone, "failed") = [s \in Stages |-> IF s \in gone THEN "failed" ELSE st[s]]
      BY DEF SetStatus
    <3>4. CASE st' = SetStatus(gone, "failed") /\ UNCHANGED claimVars
      BY <3>3, <3>4 DEF StageMove, CountersSame, claimVars
    <3>5. ASSUME NEW c \in Stages,
                 st[c] = "pending",
                 st' = [SetStatus(gone, "failed") EXCEPT ![c] = "claimed"],
                 claims' = [claims EXCEPT ![c] = @ + 1],
                 retry' = retry
          PROVE  \A s \in Stages : StageMove(s)
      BY <3>2, <3>3, <3>5 DEF StageMove, CountersSame
    <3> QED BY <3>1, <3>4, <3>5
  <2>2. \A s \in Stages : ExpiryMove(s)
    BY <1>0, <1>17
       DEF ClaimWrite, ExpiryMove, TypeOK, StagesOK, SetStatus, HeldStatuses,
           LongStatuses, claimVars, StageState
  <2>3. \A t \in Tasks : TaskMove(t)
    BY <1>0, <1>17 DEF ClaimWrite, TaskMove, TypeOK, TasksOK, StartTask, taskVars
  <2>4. \A w \in Sweepers : SweepMove(w)
    BY <1>17 DEF ClaimWrite, SweepMove
  <2> QED BY <2>1, <2>2, <2>3, <2>4 DEF Moves
<1>18. ASSUME CompleteWrite PROVE Moves
  <2>1. \A s \in Stages : StageMove(s)
    BY <1>0, <1>18
       DEF CompleteWrite, StageMove, CountersSame, TypeOK, StagesOK, TasksOK, Holds,
           HeldStatuses, claimVars
  <2>2. \A s \in Stages : ExpiryMove(s)
    BY <1>0, <1>18
       DEF CompleteWrite, ExpiryMove, TypeOK, StagesOK, Holds, HeldStatuses, claimVars
  <2>3. \A t \in Tasks : TaskMove(t)
    BY <1>0, <1>18 DEF CompleteWrite, TaskMove, TypeOK, TasksOK, Completes
  <2>4. \A w \in Sweepers : SweepMove(w)
    BY <1>18 DEF CompleteWrite, SweepMove
  <2> QED BY <2>1, <2>2, <2>3, <2>4 DEF Moves
<1>19. ASSUME NoteWrite PROVE Moves
  <2>1. \A s \in Stages : StageMove(s)
    BY <1>0, <1>19
       DEF NoteWrite, StageMove, CountersSame, TypeOK, StagesOK, TasksOK, SetStatus,
           HeldStatuses, LongStatuses, claimVars
  <2>2. \A s \in Stages : ExpiryMove(s)
    BY <1>0, <1>19
       DEF NoteWrite, ExpiryMove, TypeOK, StagesOK, SetStatus, HeldStatuses,
           LongStatuses, claimVars
  <2>3. \A t \in Tasks : TaskMove(t)
    BY <1>0, <1>19 DEF NoteWrite, TaskMove, TypeOK, TasksOK, taskVars
  <2>4. \A w \in Sweepers : SweepMove(w)
    BY <1>19 DEF NoteWrite, SweepMove
  <2> QED BY <2>1, <2>2, <2>3, <2>4 DEF Moves
<1>20. ASSUME NEW n \in Nodes, AdminDelete(n) PROVE Moves
  <2>1. \A s \in Stages : StageMove(s)
    BY <1>0, <1>20
       DEF AdminDelete, StageMove, CountersSame, TypeOK, StagesOK, TasksOK, SetStatus,
           ClaimedOf, HeldStatuses, ClearClaims, RowsOf
  <2>2. \A s \in Stages : ExpiryMove(s)
    BY <1>0, <1>20
       DEF AdminDelete, ExpiryMove, TypeOK, StagesOK, SetStatus, ClaimedOf,
           HeldStatuses, ClearClaims, RowsOf
  <2>3. \A t \in Tasks : TaskMove(t)
    BY <1>20, FailTasksMoves DEF AdminDelete, FailedTasks
  <2>4. \A w \in Sweepers : SweepMove(w)
    BY <1>20 DEF AdminDelete, SweepMove
  <2> QED BY <2>1, <2>2, <2>3, <2>4 DEF Moves
<1>21. ASSUME NEW s \in Stages, ClaimExpires(s) PROVE Moves
  <2>1. \A r \in Stages : StageMove(r)
    BY <1>21 DEF ClaimExpires, StageMove, CountersSame
  <2>2. \A r \in Stages : ExpiryMove(r)
    BY <1>0, <1>21 DEF ClaimExpires, ExpiryMove, TypeOK, StagesOK
  <2>3. \A t \in Tasks : TaskMove(t)
    BY <1>0, <1>21 DEF ClaimExpires, TaskMove, TypeOK, TasksOK, taskVars
  <2>4. \A w \in Sweepers : SweepMove(w)
    BY <1>21 DEF ClaimExpires, SweepMove
  <2> QED BY <2>1, <2>2, <2>3, <2>4 DEF Moves
<1>22. ASSUME NEW w \in Sweepers, OfflineWrite(w) PROVE Moves
  <2>1. \A s \in Stages : StageMove(s)
    BY <1>0, <1>22, SweepFields
       DEF OfflineWrite, StageMove, CountersSame, TypeOK, StagesOK, SetStatus,
           ClearClaims, HeldStatuses
  <2>2. \A s \in Stages : ExpiryMove(s)
    BY <1>0, <1>22
       DEF OfflineWrite, ExpiryMove, TypeOK, StagesOK, SetStatus, ClearClaims,
           HeldStatuses
  <2>3. \A t \in Tasks : TaskMove(t)
    BY <1>22, FailTasksMoves DEF OfflineWrite, DoneTasks, TaskMove
  <2>4. \A v \in Sweepers : SweepMove(v)
    BY <1>0, <1>22 DEF OfflineWrite, SweepMove, TypeOK, Idle
  <2> QED BY <2>1, <2>2, <2>3, <2>4 DEF Moves
<1>23. ASSUME NEW w \in Sweepers, ReleaseWrite(w) PROVE Moves
  <2>1. \A s \in Stages : StageMove(s)
    BY <1>0, <1>23, SweepFields
       DEF ReleaseWrite, StageMove, CountersSame, TypeOK, StagesOK, SameClaim,
           BudgetSpent, ClearClaims, SweepsReadClaims, RetryAccounting, HeldStatuses
  <2>2. \A s \in Stages : ExpiryMove(s)
    BY <1>0, <1>23
       DEF ReleaseWrite, ExpiryMove, TypeOK, StagesOK, SameClaim, BudgetSpent,
           ClearClaims, SweepsReadClaims, RetryAccounting, HeldStatuses
  <2>3. \A t \in Tasks : TaskMove(t)
    BY <1>23, FailTasksMoves DEF ReleaseWrite, DoneTasks, FailedTasks, TaskMove
  <2>4. \A v \in Sweepers : SweepMove(v)
    BY <1>0, <1>23 DEF ReleaseWrite, SweepMove, TypeOK, Idle
  <2> QED BY <2>1, <2>2, <2>3, <2>4 DEF Moves
<1>24. ASSUME NEW w \in Sweepers, OrphanWrite(w) PROVE Moves
  <2>1. \A s \in Stages : StageMove(s)
    BY <1>0, <1>24, SweepFields
       DEF OrphanWrite, StageMove, CountersSame, TypeOK, StagesOK, SetStatus,
           HeldStatuses, claimVars
  <2>2. \A s \in Stages : ExpiryMove(s)
    BY <1>0, <1>24
       DEF OrphanWrite, ExpiryMove, TypeOK, StagesOK, SetStatus, HeldStatuses, claimVars
  <2>3. \A t \in Tasks : TaskMove(t)
    BY <1>24, FailTasksMoves DEF OrphanWrite, DoneTasks, FailedTasks, TaskMove
  <2>4. \A v \in Sweepers : SweepMove(v)
    BY <1>0, <1>24 DEF OrphanWrite, SweepMove, TypeOK, Idle
  <2> QED BY <2>1, <2>2, <2>3, <2>4 DEF Moves
<1>25. ASSUME NEW w \in Sweepers, LeaseWrite(w) PROVE Moves
  <2>1. \A s \in Stages : StageMove(s)
    <3> DEFINE sweep   == maint[w]
               overdue == IF sweep.rule = 1 THEN {s \in sweep.rows : st[s] = "accepted"} ELSE {}
               st1     == SetStatus(overdue, "orphaned")
               dead    == CASE sweep.rule = 1 -> LeaseDead(st1)
                            [] sweep.rule = 2 -> {s \in sweep.rows : st1[s] = "orphaned"}
                            [] sweep.rule = 3 -> {}
               st2     == [s \in Stages |-> IF s \in dead THEN "failed" ELSE st1[s]]
               gone    == IF sweep.rule = 3 THEN {s \in sweep.rows : st2[s] \in LongStatuses}
                                            ELSE HolderGone(st2)
    <3>1. sweep.rule \in 1..3 /\ \A s \in Stages : CountersSame(s)
      BY <1>0, <1>25, SweepFields DEF LeaseWrite, TypeOK, CountersSame, claimVars
    <3>2. st' = [s \in Stages |-> IF s \in gone THEN "failed" ELSE st2[s]]
      BY <1>25 DEF LeaseWrite
    <3>3. \A s \in Stages : s \in gone => st2[s] \in LongStatuses
      BY DEF HolderGone
    <3> HIDE DEF gone
    <3>4. \A s \in Stages : s \in dead => st1[s] = "orphaned"
      BY <3>1 DEF LeaseDead
    <3> HIDE DEF dead
    <3>5. \A s \in Stages : st2[s] = IF s \in dead THEN "failed" ELSE st1[s]
      OBVIOUS
    <3> HIDE DEF st2
    <3>6. \A s \in Stages : s \in overdue => st[s] = "accepted"
      OBVIOUS
    <3> HIDE DEF overdue
    <3>7. \A s \in Stages : st1[s] = IF s \in overdue THEN "orphaned" ELSE st[s]
      BY DEF SetStatus
    <3> HIDE DEF st1
    <3> QED BY <3>1, <3>2, <3>3, <3>4, <3>5, <3>6, <3>7 DEF StageMove, HeldStatuses, LongStatuses
  <2>2. \A s \in Stages : ExpiryMove(s)
    BY <1>0, <1>25
       DEF LeaseWrite, ExpiryMove, TypeOK, StagesOK, SetStatus, HeldStatuses,
           LongStatuses, claimVars, LeaseOverdue, LeaseDead, HolderGone
  <2>3. \A t \in Tasks : TaskMove(t)
    BY <1>25, FailTasksMoves DEF LeaseWrite, DoneTasks, TaskMove
  <2>4. \A v \in Sweepers : SweepMove(v)
    BY <1>0, <1>25 DEF LeaseWrite, SweepMove, TypeOK, Idle
  <2> QED BY <2>1, <2>2, <2>3, <2>4 DEF Moves
<1>U. CASE UNCHANGED vars
  BY <1>U, QuietMoves DEF vars, stageVars, taskVars, claimVars, SweepMove
<1> QED
  BY <1>1, <1>2, <1>3, <1>4, <1>5, <1>6, <1>7, <1>8, <1>9, <1>10, <1>11, <1>12,
     <1>13, <1>14, <1>15, <1>16, <1>17, <1>18, <1>19, <1>20, <1>21, <1>22, <1>23,
     <1>24, <1>25, <1>U
     DEF Next, Requested, LoopWrite, SweepRead, SweepWrite, Environment

(* The moves preserve the invariant.                                       *)
LEMMA InductiveStep ==
  ASSUME Inductive, [Next]_vars
  PROVE  Inductive'
<1> USE ShapeAssumption, RetryAssumption
<1>1. Moves
  BY NextMoves
<1>2. TypeOK /\ TypeOK'
  BY TypeStep DEF Inductive
<1>3. StagesAreCreated'
  BY <1>1 DEF Inductive, StagesAreCreated, Moves, StageMove, TaskMove, HeldStatuses
<1>4. RetryAccounting'
  <2> SUFFICES ASSUME NEW s \in Stages
               PROVE  /\ st'[s] \in {"none", "pending"} => claims'[s] = retry'[s]
                      /\ st'[s] \in HeldStatuses \cup {"completed"} => claims'[s] = retry'[s] + 1
                      /\ st'[s] # "failed" => retry'[s] <= MaxRetries
                      /\ claims'[s] <= MaxRetries + 1
    BY DEF RetryAccounting
  <2>1. StageMove(s) /\ claims[s] \in Nat /\ retry[s] \in Nat
    BY <1>1, <1>2 DEF Moves, TypeOK, StagesOK
  <2>2. RetryAccounting
    BY DEF Inductive
  <2> QED BY <2>1, <2>2 DEF RetryAccounting, StageMove, CountersSame, HeldStatuses, LongStatuses
<1>5. SweepsReadClaims'
  <2> SUFFICES ASSUME NEW w \in Sweepers, maint'[w].op = "release", NEW s \in maint'[w].rows
               PROVE  /\ maint'[w].claims[s] = maint'[w].retry[s] + 1
                      /\ maint'[w].claims[s] <= claims'[s]
                      /\ st'[s] = "claimed" /\ claims'[s] = maint'[w].claims[s] => expired'[s]
    BY DEF SweepsReadClaims
  <2>1. s \in Stages /\ maint'[w].claims[s] \in Nat
    BY <1>2, SweepFields DEF TypeOK, SweepState, Idle
  <2>2. /\ StageMove(s) /\ ExpiryMove(s) /\ SweepMove(w)
        /\ claims[s] \in Nat /\ retry[s] \in Nat /\ claims'[s] \in Nat
    BY <1>1, <1>2, <2>1 DEF Moves, TypeOK, StagesOK
  <2>3. SweepsReadClaims /\ RetryAccounting
    BY DEF Inductive
  <2>4. CASE maint'[w] = maint[w]
    BY <2>1, <2>2, <2>3, <2>4 DEF SweepsReadClaims, StageMove, ExpiryMove, CountersSame, LongStatuses
  <2>5. CASE maint'[w] # maint[w]
    BY <2>1, <2>2, <2>3, <2>5 DEF SweepMove, RetryAccounting, HeldStatuses
  <2> QED BY <2>4, <2>5
<1> QED BY <1>2, <1>3, <1>4, <1>5 DEF Inductive

(* The invariant holds always.                                             *)
THEOREM InductiveInvariant == Spec => []Inductive
BY InductiveInit, InductiveStep, PTL DEF Spec

(* T-060: whatever sweeps, completions, takeovers and deletions interleave,*)
(* every return to pending costs exactly one retry and a stage is handed   *)
(* out at most max_retries + 1 times.                                      *)
THEOREM RetryBudget == Spec => []RetryAccounting
BY InductiveInvariant, PTL DEF Inductive

(* T-257: no request and no sweep, however late it writes, changes the     *)
(* status of a stage that completed or failed or of a task that ended.     *)
THEOREM Finality == Spec => TerminalIsFinal
<1>1. ASSUME Inductive, [Next]_vars
      PROVE  [/\ \A s \in Stages : st[s] \in {"completed", "failed"} => st'[s] = st[s]
              /\ \A t \in Tasks : tStatus[t] \in FinalTask => tStatus'[t] = tStatus[t]]_vars
  BY <1>1, NextMoves DEF Moves, StageMove, TaskMove, HeldStatuses
<1> QED BY <1>1, InductiveInvariant, PTL DEF Spec, TerminalIsFinal

(* T-154: a stage a node took over is never pending or claimed again.      *)
THEOREM LongRunsAreKept == Spec => LongRunIsNotReclaimed
<1>1. ASSUME Inductive, [Next]_vars
      PROVE  [\A s \in Stages : st[s] \in LongStatuses =>
                st'[s] \in LongStatuses \cup {"completed", "failed"}]_vars
  BY <1>1, NextMoves DEF Moves, StageMove, LongStatuses, HeldStatuses
<1> QED BY <1>1, InductiveInvariant, PTL DEF Spec, LongRunIsNotReclaimed

(* T-257: only an expired claim is taken back, also by a sweep that looked *)
(* before the stage was completed, taken over or handed out anew.          *)
THEOREM LiveClaimsAreKept == Spec => OnlyExpiredClaimsReturn
<1>1. ASSUME Inductive, [Next]_vars
      PROVE  [\A s \in Stages : retry'[s] # retry[s] => st[s] = "claimed" /\ expired[s]]_vars
  BY <1>1, NextMoves DEF Moves, StageMove, CountersSame
<1> QED BY <1>1, InductiveInvariant, PTL DEF Spec, OnlyExpiredClaimsReturn

(* Both together: no worker loses what it took over, and none a claim that  *)
(* has not run out, to a sweep, however late that writes.                  *)
THEOREM HeldWorkKept == Spec => HeldWorkIsKept
BY LongRunsAreKept, LiveClaimsAreKept DEF HeldWorkIsKept

-----------------------------------------------------------------------------
(* References, addressing and dependencies of the stages.  A claim is      *)
(* written from what an earlier read selected, so the invariant says what  *)
(* a request may still assume when it writes: its node is registered, and  *)
(* the stages it selected are open to that node.                           *)

(* A request that has read was made by a node that is still registered, a  *)
(* heartbeat keeps it so, and a claim selected only stages whose pin       *)
(* admits the node.                                                        *)
LoopIsCurrent ==
  /\ loop # Idle => node[loop.node] # "deleted"
  /\ loop.op = "beat" => loop.status # "deleted"
  /\ loop.op = "claim" => \A s \in loop.rows : PinAllows(s, loop.node)

(* A stage that does not exist was never handed out.                       *)
CountFromZero == \A s \in Stages : st[s] = "none" => claims[s] = 0

References == NoDanglingReference /\ ClaimsAreSound
Claimed    == References /\ DepsRespected /\ CountFromZero

Strong == Inductive /\ Claimed /\ LoopIsCurrent

NodesStay == \A n \in Nodes : node'[n] = "deleted" => node[n] = "deleted"

(* Init establishes the invariant.                                         *)
LEMMA StrongInit == Init => Strong
<1> SUFFICES ASSUME Init PROVE Strong
  OBVIOUS
<1>1. Inductive
  BY InductiveInit
<1>2. Claimed /\ LoopIsCurrent
  BY NoNodeAssumption, ShapeAssumption
     DEF Init, Claimed, References, NoDanglingReference, ClaimsAreSound, ClaimIsWhole,
         HolderIsAddressed, DepsRespected, CountFromZero, LoopIsCurrent, Idle
<1> QED BY <1>1, <1>2 DEF Strong

(* What is completed stays so, hence a step that hands nothing out and     *)
(* writes no dependencies keeps them respected.                            *)
LEMMA DepsKept ==
  ASSUME Strong, Moves, UNCHANGED <<claims, deps>>
  PROVE  DepsRespected' /\ CountFromZero'
<1>1. \A s \in Stages : deps[s] \subseteq Stages
  BY DEF Strong, Inductive, TypeOK, StagesOK
<1>2. \A d \in Stages : st[d] = "completed" => st'[d] = "completed"
  BY DEF Moves, StageMove, HeldStatuses, LongStatuses
<1>3. DepsRespected'
  BY <1>1, <1>2 DEF Strong, Claimed, DepsRespected
<1>4. CountFromZero'
  BY DEF Strong, Claimed, CountFromZero, Moves, StageMove, HeldStatuses, LongStatuses
<1> QED BY <1>3, <1>4

(* A step that leaves holders, owners, pins and dependencies alone.        *)
LEMMA HoldersKept ==
  ASSUME Strong, Moves, NodesStay, UNCHANGED <<claimVars, owner, planVars>>
  PROVE  Claimed'
<1>1. DepsRespected' /\ CountFromZero'
  BY DepsKept DEF claimVars, planVars
<1>2. NoDanglingReference'
  BY DEF Strong, Claimed, References, NoDanglingReference, NodesStay, claimVars, planVars
<1>3. HolderIsAddressed'
  BY DEF Strong, Claimed, References, ClaimsAreSound, HolderIsAddressed, claimVars, planVars
<1>4. ClaimIsWhole'
  <2> SUFFICES ASSUME NEW s \in Stages
               PROVE  /\ st'[s] = "claimed" => by'[s] # NoNode
                      /\ st'[s] \in {"none", "pending"} => by'[s] = NoNode /\ ~ expired'[s]
    BY DEF ClaimIsWhole
  <2>1. StageMove(s) /\ claims[s] \in Nat /\ retry[s] \in Nat
    BY DEF Moves, Strong, Inductive, TypeOK, StagesOK
  <2>2. /\ st[s] = "claimed" => by[s] # NoNode
        /\ st[s] \in {"none", "pending"} => by[s] = NoNode /\ ~ expired[s]
    BY DEF Strong, Claimed, References, ClaimsAreSound, ClaimIsWhole
  <2> QED BY <2>1, <2>2 DEF StageMove, CountersSame, claimVars, HeldStatuses, LongStatuses
<1> QED BY <1>1, <1>2, <1>3, <1>4 DEF Claimed, References, ClaimsAreSound

(* A step that takes claims back, and leaves other stages where they are.  *)
LEMMA ClaimsLost ==
  ASSUME Strong, Moves, NodesStay, UNCHANGED <<claims, owner, planVars>>,
         NEW S \in SUBSET Stages, ClearClaims(S),
         \A s \in S : st'[s] \in {"pending", "failed"},
         \A s \in Stages \ S : st'[s] = st[s]
  PROVE  Claimed'
<1>1. DepsRespected' /\ CountFromZero'
  BY DepsKept DEF planVars
<1>2. \A s \in Stages : /\ by'[s] = IF s \in S THEN NoNode ELSE by[s]
                        /\ expired'[s] = (s \notin S /\ expired[s])
  BY DEF ClearClaims
<1>3. NoDanglingReference'
  BY <1>2, NoNodeAssumption DEF Strong, Claimed, References, NoDanglingReference, NodesStay, planVars
<1>4. HolderIsAddressed'
  BY <1>2 DEF Strong, Claimed, References, ClaimsAreSound, HolderIsAddressed, planVars
<1>5. ClaimIsWhole'
  BY <1>2 DEF Strong, Claimed, References, ClaimsAreSound, ClaimIsWhole
<1> QED BY <1>1, <1>3, <1>4, <1>5 DEF Claimed, References, ClaimsAreSound

(* create_task: the stages are new, and nobody holds one of them.          *)
LEMMA CreateKeeps ==
  ASSUME Strong, Moves, NEW t \in Tasks, NEW r \in Requests, CreateTask(t, r)
  PROVE  Claimed'
<1> USE ShapeAssumption, RequestAssumption, NoNodeAssumption
<1> DEFINE mine == StagesOf(t)
<1>1. \A s \in mine : s \in Stages /\ TaskOf[s] = t /\ st[s] = "none"
  BY DEF CreateTask, StagesOf, Strong, Inductive, StagesAreCreated
<1>2. /\ \A s \in mine : by[s] = NoNode /\ ~ expired[s] /\ claims[s] = 0
      /\ \A s \in Stages \ mine : TaskOf[s] # t
  BY <1>1 DEF Strong, Claimed, References, ClaimsAreSound, ClaimIsWhole, CountFromZero, StagesOf
<1>3. /\ r.owner \in Nodes \cup {NoNode} /\ r.pin \in [Stages -> Nodes \cup {NoNode}]
      /\ owner \in [Tasks -> Nodes \cup {NoNode}] /\ st \in [Stages -> StageState]
  BY DEF RequestType, Strong, Inductive, TypeOK, TasksOK, StagesOK
<1>4. /\ UNCHANGED <<node, by, expired, claims>>
      /\ \A s \in Stages : st'[s] = IF s \in mine THEN "pending" ELSE st[s]
      /\ \A s \in Stages : pin'[s] = IF s \in mine THEN r.pin[s] ELSE pin[s]
      /\ \A s \in Stages \ mine : deps'[s] = deps[s]
      /\ \A u \in Tasks : owner'[u] = IF u = t THEN r.owner ELSE owner[u]
      /\ \A n \in {r.owner} \cup {r.pin[s] : s \in mine} : n \in Nodes => node[n] # "deleted"
  BY <1>3 DEF CreateTask, SetStatus, nodeVars, claimVars
<1> HIDE DEF mine
<1>5. NoDanglingReference'
  <2> SUFFICES ASSUME NEW n \in Nodes, node'[n] = "deleted"
               PROVE  /\ \A s \in Stages : by'[s] # n /\ pin'[s] # n
                      /\ \A u \in Tasks : owner'[u] # n
    BY DEF NoDanglingReference
  <2>1. /\ \A s \in Stages : by[s] # n /\ pin[s] # n
        /\ \A u \in Tasks : owner[u] # n
    BY <1>4 DEF Strong, Claimed, References, NoDanglingReference
  <2> QED BY <1>4, <2>1
<1>6. HolderIsAddressed'
  BY <1>1, <1>2, <1>4 DEF Strong, Claimed, References, ClaimsAreSound, HolderIsAddressed
<1>7. ClaimIsWhole'
  BY <1>1, <1>2, <1>4 DEF Strong, Claimed, References, ClaimsAreSound, ClaimIsWhole
<1>8. DepsRespected'
  <2>1. \A d \in Stages : st[d] = "completed" => st'[d] = "completed"
    BY <1>1, <1>4
  <2>2. \A s \in Stages : deps[s] \subseteq Stages
    BY DEF Strong, Inductive, TypeOK, StagesOK
  <2> QED BY <1>2, <1>4, <2>1, <2>2 DEF Strong, Claimed, DepsRespected
<1>9. CountFromZero'
  BY <1>4 DEF Strong, Claimed, CountFromZero
<1> QED BY <1>5, <1>6, <1>7, <1>8, <1>9 DEF Claimed, References, ClaimsAreSound

(* claim_stage: the stage is open to the node, ready, and held by nobody.  *)
LEMMA ClaimKeeps ==
  ASSUME Strong, Moves, ClaimWrite
  PROVE  Claimed'
<1> USE ShapeAssumption, NoNodeAssumption
<1> DEFINE n     == loop.node
           ready == {s \in loop.rows : st[s] = "pending" /\ DepsDone(s)}
           mine  == {s \in ready : owner[TaskOf[s]] \in {NoNode, n}}
<1>1. n \in Nodes /\ loop.rows \subseteq Stages /\ node[n] # "deleted" /\ node' = node
  BY LoopFields
     DEF ClaimWrite, Strong, Inductive, TypeOK, LoopIsCurrent, Idle, nodeVars
<1>2. /\ owner \in [Tasks -> Nodes \cup {NoNode}] /\ by \in [Stages -> Nodes \cup {NoNode}]
      /\ expired \in [Stages -> BOOLEAN] /\ claims \in [Stages -> Nat]
      /\ \A s \in Stages : deps[s] \subseteq Stages
      /\ pin' = pin /\ deps' = deps
  BY DEF ClaimWrite, Strong, Inductive, TypeOK, TasksOK, StagesOK, planVars
<1>3. PICK gone \in SUBSET {s \in Stages : st[s] = "pending"} :
        \/ st' = SetStatus(gone, "failed") /\ UNCHANGED <<claimVars, owner>>
        \/ \E s \in mine :
             /\ st' = [SetStatus(gone, "failed") EXCEPT ![s] = "claimed"]
             /\ by' = [by EXCEPT ![s] = n]
             /\ claims' = [claims EXCEPT ![s] = @ + 1]
             /\ expired' = [expired EXCEPT ![s] = FALSE]
             /\ owner' = IF StagesOf(TaskOf[s]) = {s} /\ owner[TaskOf[s]] = NoNode
                         THEN [owner EXCEPT ![TaskOf[s]] = n] ELSE owner
  BY <1>1, Zenon DEF ClaimWrite, taskVars
<1>4. CASE st' = SetStatus(gone, "failed") /\ UNCHANGED <<claimVars, owner>>
  BY <1>1, <1>2, <1>4, HoldersKept DEF NodesStay, planVars
<1>5. ASSUME NEW c \in mine,
             st' = [SetStatus(gone, "failed") EXCEPT ![c] = "claimed"],
             by' = [by EXCEPT ![c] = n],
             claims' = [claims EXCEPT ![c] = @ + 1],
             expired' = [expired EXCEPT ![c] = FALSE],
             owner' = IF StagesOf(TaskOf[c]) = {c} /\ owner[TaskOf[c]] = NoNode
                      THEN [owner EXCEPT ![TaskOf[c]] = n] ELSE owner
      PROVE  Claimed'
  <2>1. /\ c \in Stages /\ st[c] = "pending" /\ DepsDone(c)
        /\ owner[TaskOf[c]] \in {NoNode, n} /\ pin[c] \in {NoNode, n}
    BY <1>1 DEF ClaimWrite, Strong, LoopIsCurrent, PinAllows
  <2>2. /\ \A s \in Stages : st'[s] = IF s = c THEN "claimed" ELSE IF s \in gone THEN "failed" ELSE st[s]
        /\ \A s \in Stages : by'[s] = IF s = c THEN n ELSE by[s]
        /\ \A s \in Stages : claims'[s] = IF s = c THEN claims[s] + 1 ELSE claims[s]
        /\ \A s \in Stages : expired'[s] = (s # c /\ expired[s])
        /\ \A u \in Tasks : \/ owner'[u] = owner[u]
                            \/ u = TaskOf[c] /\ owner'[u] = n /\ \A s \in Stages : TaskOf[s] = u => s = c
    <3>1. \A s \in Stages : st'[s] = IF s = c THEN "claimed" ELSE IF s \in gone THEN "failed" ELSE st[s]
      BY <1>5, <2>1 DEF SetStatus
    <3>2. \A s \in Stages : by'[s] = IF s = c THEN n ELSE by[s]
      BY <1>2, <1>5, <2>1
    <3>3. \A s \in Stages : claims'[s] = IF s = c THEN claims[s] + 1 ELSE claims[s]
      BY <1>2, <1>5, <2>1
    <3>4. \A s \in Stages : expired'[s] = (s # c /\ expired[s])
      BY <1>2, <1>5, <2>1
    <3>5. \A u \in Tasks : \/ owner'[u] = owner[u]
                           \/ u = TaskOf[c] /\ owner'[u] = n /\ \A s \in Stages : TaskOf[s] = u => s = c
      BY <1>2, <1>5, <2>1 DEF StagesOf
    <3> QED
      BY <3>1, <3>2, <3>3, <3>4, <3>5
  <2> HIDE DEF mine, n
  <2>3. NoDanglingReference'
    BY <1>1, <1>2, <2>2 DEF Strong, Claimed, References, NoDanglingReference
  <2>4. HolderIsAddressed'
    BY <1>1, <1>2, <2>1, <2>2 DEF Strong, Claimed, References, ClaimsAreSound, HolderIsAddressed
  <2>5. ClaimIsWhole'
    <3>1. ClaimIsWhole
      BY DEF Strong, Claimed, References, ClaimsAreSound
    <3>2. ASSUME NEW s \in Stages, st'[s] = "claimed" PROVE by'[s] # NoNode
      BY <1>1, <2>2, <3>1, <3>2 DEF ClaimIsWhole
    <3>3. ASSUME NEW s \in Stages, st'[s] \in {"none", "pending"}
          PROVE  by'[s] = NoNode /\ ~ expired'[s]
      <4>1. s # c /\ st[s] = st'[s]
        BY <2>2, <3>3
      <4> QED BY <2>2, <3>1, <3>3, <4>1 DEF ClaimIsWhole
    <3> QED BY <3>2, <3>3 DEF ClaimIsWhole
  <2>6. DepsRespected'
    <3>1. \A d \in Stages : st[d] = "completed" => st'[d] = "completed"
      BY <2>1, <2>2
    <3> QED BY <1>2, <2>1, <2>2, <3>1 DEF Strong, Claimed, DepsRespected, DepsDone
  <2>7. CountFromZero'
    BY <2>2 DEF Strong, Claimed, CountFromZero
  <2> QED BY <2>3, <2>4, <2>5, <2>6, <2>7 DEF Claimed, References, ClaimsAreSound
<1> QED BY <1>3, <1>4, <1>5

(* admin_delete_node: every reference goes with the row.                   *)
LEMMA DeleteKeeps ==
  ASSUME Strong, Moves, NEW n \in Nodes, AdminDelete(n)
  PROVE  Claimed'
<1> USE NoNodeAssumption, ShapeAssumption
<1>1. DepsRespected' /\ CountFromZero'
  BY DepsKept DEF AdminDelete
<1>2. /\ \A m \in Nodes : node'[m] = IF m = n THEN "deleted" ELSE node[m]
      /\ \A s \in Stages : /\ pin'[s] = IF pin[s] = n THEN NoNode ELSE pin[s]
                           /\ by'[s] = IF by[s] = n THEN NoNode ELSE by[s]
                           /\ expired'[s] = (by[s] # n /\ expired[s])
                           /\ st'[s] = IF by[s] = n /\ st[s] = "claimed" THEN "failed" ELSE st[s]
      /\ \A t \in Tasks : owner'[t] = IF owner[t] = n THEN NoNode ELSE owner[t]
  BY DEF AdminDelete, ClearClaims, RowsOf, ClaimedOf, SetStatus, Strong, Inductive, TypeOK, NodesOK
<1>3. NoDanglingReference'
  BY <1>2 DEF Strong, Claimed, References, NoDanglingReference
<1>4. HolderIsAddressed'
  BY <1>2 DEF Strong, Claimed, References, ClaimsAreSound, HolderIsAddressed
<1>5. ClaimIsWhole'
  BY <1>2 DEF Strong, Claimed, References, ClaimsAreSound, ClaimIsWhole
<1> QED BY <1>1, <1>3, <1>4, <1>5 DEF Claimed, References, ClaimsAreSound

(* Every step keeps the references, the addressing and the dependencies.   *)
LEMMA ClaimedStep ==
  ASSUME Strong, [Next]_vars
  PROVE  Claimed' /\ (NodesStay \/ loop = Idle)
<1>M. Moves
  BY NextMoves DEF Strong
<1>T. /\ TypeOK /\ node \in [Nodes -> NodeStatus] /\ loop \in LoopState
      /\ LoopIsCurrent
  BY DEF Strong, Inductive, TypeOK, NodesOK
<1> USE <1>M
<1>1. ASSUME NEW n \in Nodes, ClaimRead(n) PROVE Claimed' /\ NodesStay
  BY <1>1, HoldersKept DEF ClaimRead, NodesStay, nodeVars, taskVars, stageVars
<1>2. ASSUME NEW n \in Nodes, NEW s \in Stages, CompleteRead(n, s) PROVE Claimed' /\ NodesStay
  BY <1>2, HoldersKept DEF CompleteRead, NodesStay, nodeVars, taskVars, stageVars
<1>3. ASSUME NEW n \in Nodes, NEW t \in Tasks, NoteRead(n, t) PROVE Claimed' /\ NodesStay
  BY <1>3, HoldersKept DEF NoteRead, NodesStay, nodeVars, taskVars, stageVars
<1>4. ASSUME NEW n \in Nodes, HeartbeatRead(n) PROVE Claimed' /\ NodesStay
  BY <1>4, HoldersKept DEF HeartbeatRead, NodesStay, nodeVars, taskVars, stageVars
<1>5. ASSUME SyncCapabilities PROVE Claimed' /\ NodesStay
  BY <1>5, HoldersKept DEF SyncCapabilities, NodesStay, nodeVars, taskVars, stageVars
<1>6. ASSUME CompleteWrite PROVE Claimed' /\ NodesStay
  BY <1>6, HoldersKept DEF CompleteWrite, NodesStay, nodeVars, taskVars, stageVars
<1>7. ASSUME NoteWrite PROVE Claimed' /\ NodesStay
  BY <1>7, HoldersKept DEF NoteWrite, NodesStay, nodeVars, taskVars, stageVars
<1>8. ASSUME NEW s \in Stages, NoteAges(s) PROVE Claimed' /\ NodesStay
  BY <1>8, HoldersKept DEF NoteAges, NodesStay, nodeVars, taskVars, stageVars
<1>9. ASSUME NEW n \in Nodes, NodeAges(n) PROVE Claimed' /\ NodesStay
  BY <1>9, HoldersKept DEF NodeAges, NodesStay, nodeVars, taskVars, stageVars
<1>10. ASSUME LoopAborts PROVE Claimed' /\ NodesStay
  BY <1>10, HoldersKept DEF LoopAborts, NodesStay, nodeVars, taskVars, stageVars
<1>11. ASSUME NEW w \in Sweepers, SweepAborts(w) PROVE Claimed' /\ NodesStay
  BY <1>11, HoldersKept DEF SweepAborts, NodesStay, nodeVars, taskVars, stageVars
<1>12. ASSUME NEW w \in Sweepers, OfflineRead(w) PROVE Claimed' /\ NodesStay
  BY <1>12, HoldersKept DEF OfflineRead, NodesStay, nodeVars, taskVars, stageVars
<1>13. ASSUME NEW w \in Sweepers, ReleaseRead(w) PROVE Claimed' /\ NodesStay
  BY <1>13, HoldersKept DEF ReleaseRead, NodesStay, nodeVars, taskVars, stageVars
<1>14. ASSUME NEW w \in Sweepers, OrphanRead(w) PROVE Claimed' /\ NodesStay
  BY <1>14, HoldersKept DEF OrphanRead, NodesStay, nodeVars, taskVars, stageVars
<1>15. ASSUME NEW w \in Sweepers, LeaseRead(w) PROVE Claimed' /\ NodesStay
  BY <1>15, HoldersKept DEF LeaseRead, NodesStay, nodeVars, taskVars, stageVars
<1>16. ASSUME NEW w \in Sweepers, OrphanWrite(w) PROVE Claimed' /\ NodesStay
  BY <1>16, HoldersKept DEF OrphanWrite, NodesStay, nodeVars, taskVars, stageVars
<1>17. ASSUME NEW w \in Sweepers, LeaseWrite(w) PROVE Claimed' /\ NodesStay
  BY <1>17, HoldersKept DEF LeaseWrite, NodesStay, nodeVars, taskVars, stageVars
<1>18. ASSUME HeartbeatWrite PROVE Claimed' /\ NodesStay
  <2>1. /\ node[loop.node] # "deleted" /\ loop.status # "deleted"
        /\ node \in [Nodes -> NodeStatus]
    BY <1>T, <1>18, LoopFields DEF HeartbeatWrite, LoopIsCurrent, Idle
  <2>2. NodesStay
    BY <1>18, <2>1 DEF HeartbeatWrite, NodesStay
  <2> QED BY <1>18, <2>2, HoldersKept DEF HeartbeatWrite, taskVars, stageVars
<1>19. ASSUME NEW n \in Nodes, AdminApprove(n) PROVE Claimed' /\ NodesStay
  <2>1. NodesStay
    BY <1>T, <1>19 DEF AdminApprove, NodesStay
  <2> QED BY <1>19, <2>1, HoldersKept DEF AdminApprove, taskVars, stageVars
<1>20. ASSUME NEW s \in Stages, ClaimExpires(s) PROVE Claimed' /\ NodesStay
  <2>1. DepsRespected' /\ CountFromZero'
    BY <1>20, DepsKept DEF ClaimExpires, planVars
  <2>2. (NoDanglingReference /\ HolderIsAddressed)' /\ NodesStay
    BY <1>20
       DEF ClaimExpires, Strong, Claimed, References, ClaimsAreSound, NoDanglingReference,
           HolderIsAddressed, NodesStay, nodeVars, taskVars, planVars
  <2>3. ClaimIsWhole'
    BY <1>T, <1>20
       DEF ClaimExpires, Strong, Claimed, References, ClaimsAreSound, ClaimIsWhole, TypeOK, StagesOK
  <2> QED BY <2>1, <2>2, <2>3 DEF Claimed, References, ClaimsAreSound
<1>21. ASSUME NEW w \in Sweepers, OfflineWrite(w) PROVE Claimed' /\ NodesStay
  <2>1. CASE UNCHANGED <<node, st, by, expired, tStatus>>
    BY <1>21, <2>1, HoldersKept DEF OfflineWrite, NodesStay, claimVars
  <2>2. CASE ~ UNCHANGED <<node, st, by, expired, tStatus>>
    <3> DEFINE cands   == maint[w].nodes
               status  == [n \in Nodes |-> IF n \in cands /\ seen[n] # "fresh" THEN "OFFLINE" ELSE node[n]]
               offline == {n \in cands : status[n] = "OFFLINE"}
               lost    == {s \in Stages : st[s] = "claimed" /\ by[s] \in offline}
    <3>1. /\ node' = status /\ st' = SetStatus(lost, "failed") /\ ClearClaims(lost)
          /\ UNCHANGED <<claims, owner, planVars>>
      BY <1>21, <2>2 DEF OfflineWrite
    <3>2. NodesStay
      BY <3>1 DEF NodesStay
    <3> HIDE DEF offline, status
    <3> QED BY <3>1, <3>2, ClaimsLost DEF SetStatus
  <2> QED BY <2>1, <2>2
<1>22. ASSUME NEW w \in Sweepers, ReleaseWrite(w) PROVE Claimed' /\ NodesStay
  <2> DEFINE hit == {s \in maint[w].rows : SameClaim(s, maint[w])}
  <2>1. hit \in SUBSET Stages /\ ClearClaims(hit)
    BY <1>T, <1>22, SweepFields DEF ReleaseWrite, TypeOK
  <2>2. /\ \A s \in hit : st'[s] \in {"pending", "failed"}
        /\ \A s \in Stages \ hit : st'[s] = st[s]
    BY <1>22, <2>1 DEF ReleaseWrite
  <2>3. NodesStay /\ UNCHANGED <<claims, owner, planVars>>
    BY <1>22 DEF ReleaseWrite, NodesStay, nodeVars
  <2> HIDE DEF hit
  <2> QED BY <2>1, <2>2, <2>3, ClaimsLost
<1>23. ASSUME ClaimWrite PROVE Claimed' /\ NodesStay
  BY <1>23, ClaimKeeps DEF ClaimWrite, NodesStay, nodeVars
<1>24. ASSUME NEW t \in Tasks, NEW r \in Requests, CreateTask(t, r) PROVE Claimed' /\ loop = Idle
  BY <1>24, CreateKeeps DEF CreateTask
<1>25. ASSUME NEW n \in Nodes, AdminDelete(n) PROVE Claimed' /\ loop = Idle
  BY <1>25, DeleteKeeps DEF AdminDelete
<1>U. ASSUME UNCHANGED vars PROVE Claimed' /\ NodesStay
  BY <1>U, HoldersKept DEF vars, NodesStay, nodeVars, taskVars, stageVars
<1> QED
  BY <1>1, <1>2, <1>3, <1>4, <1>5, <1>6, <1>7, <1>8, <1>9, <1>10, <1>11,
     <1>12, <1>13, <1>14, <1>15, <1>16, <1>17, <1>18, <1>19, <1>20, <1>21,
     <1>22, <1>23, <1>24, <1>25, <1>U
     DEF Next, Requested, LoopWrite, SweepRead, SweepWrite, Environment

(* A read keeps what it saw; while it is pending the loop deletes no node  *)
(* and creates no stage, and no sweep touches a pin.                       *)
LEMMA LoopStep ==
  ASSUME Strong, [Next]_vars
  PROVE  LoopIsCurrent'
<1>1. TypeOK /\ LoopIsCurrent /\ (NodesStay \/ loop = Idle)
  BY ClaimedStep DEF Strong, Inductive
<1>2. loop \in LoopState /\ (loop # Idle => loop.node \in Nodes)
  BY <1>1 DEF TypeOK, LoopState
<1>3. CASE loop' = Idle
  BY <1>3 DEF LoopIsCurrent, Idle
<1>4. CASE loop' = loop /\ pin' = pin /\ loop # Idle
  BY <1>1, <1>2, <1>4 DEF LoopIsCurrent, NodesStay, PinAllows
<1>5. CASE loop' = loop /\ loop = Idle
  BY <1>5 DEF LoopIsCurrent, Idle
<1>6. ASSUME NEW n \in Nodes, ClaimRead(n) PROVE LoopIsCurrent'
  <2>1. node[n] # "deleted" /\ UNCHANGED <<node, pin>>
    BY <1>1, <1>6 DEF ClaimRead, ClaimCategories, nodeVars, stageVars, planVars
  <2> QED BY <1>6, <2>1 DEF ClaimRead, LoopIsCurrent, PinAllows
<1>7. ASSUME NEW n \in Nodes, NEW s \in Stages, CompleteRead(n, s) PROVE LoopIsCurrent'
  BY <1>7 DEF CompleteRead, LoopIsCurrent, Live, LiveCategories, nodeVars
<1>8. ASSUME NEW n \in Nodes, NEW t \in Tasks, NoteRead(n, t) PROVE LoopIsCurrent'
  BY <1>8 DEF NoteRead, LoopIsCurrent, Live, LiveCategories, nodeVars
<1>9. ASSUME NEW n \in Nodes, HeartbeatRead(n) PROVE LoopIsCurrent'
  BY <1>9 DEF HeartbeatRead, HeartbeatWrites, LoopIsCurrent, nodeVars
<1>10. ASSUME HeartbeatWrite PROVE LoopIsCurrent'
  BY <1>1, <1>2, <1>10 DEF HeartbeatWrite, LoopIsCurrent, NodesStay, Idle
<1>11. ASSUME NEW n \in Nodes, AdminApprove(n) PROVE LoopIsCurrent'
  BY <1>1, <1>11 DEF AdminApprove, LoopIsCurrent, TypeOK, NodesOK
<1>12. CASE UNCHANGED vars
  BY <1>4, <1>5, <1>12 DEF vars, stageVars, planVars
<1>13. CASE \E w \in Sweepers : SweepRead(w) \/ SweepWrite(w) \/ SweepAborts(w)
  BY <1>4, <1>5, <1>13
     DEF SweepRead, SweepWrite, OfflineRead, ReleaseRead, OrphanRead, LeaseRead,
         OfflineWrite, ReleaseWrite, OrphanWrite, LeaseWrite, SweepAborts,
         stageVars, planVars
<1>14. CASE \/ \E s \in Stages : ClaimExpires(s) \/ NoteAges(s)
            \/ \E n \in Nodes : NodeAges(n)
  BY <1>4, <1>5, <1>14 DEF ClaimExpires, NoteAges, NodeAges, stageVars, planVars
<1>15. CASE \/ \E t \in Tasks, r \in Requests : CreateTask(t, r)
            \/ \E n \in Nodes : AdminDelete(n)
  BY <1>5, <1>15 DEF CreateTask, AdminDelete
<1>16. CASE ClaimWrite \/ CompleteWrite \/ NoteWrite \/ SyncCapabilities \/ LoopAborts
  BY <1>3, <1>16 DEF ClaimWrite, CompleteWrite, NoteWrite, SyncCapabilities, LoopAborts
<1> QED
  BY <1>6, <1>7, <1>8, <1>9, <1>10, <1>11, <1>12, <1>13, <1>14, <1>15, <1>16
     DEF Next, Requested, LoopWrite, Environment

(* The invariant holds always.                                             *)
THEOREM StrongInvariant == Spec => []Strong
<1>1. Strong /\ [Next]_vars => Strong'
  BY InductiveStep, ClaimedStep, LoopStep DEF Strong
<1> QED BY <1>1, StrongInit, PTL DEF Spec

(* Foreign keys and F-19: no owner, pin or claim refers to a deleted node, *)
(* although claims are written from what an earlier query selected.        *)
THEOREM ReferencesHold == Spec => []NoDanglingReference
BY StrongInvariant, PTL DEF Strong, Claimed, References

(* A claim is made and released as a whole, and nobody holds a stage past  *)
(* its owner or pin, whatever flips, deletions and sweeps interleave.      *)
THEOREM ClaimsSound == Spec => []ClaimsAreSound
BY StrongInvariant, PTL DEF Strong, Claimed, References

(* Nothing is worked on before what it depends on is completed, and what   *)
(* was once completed is never taken back.                                 *)
THEOREM DependenciesHold == Spec => []DepsRespected
BY StrongInvariant, PTL DEF Strong, Claimed

-----------------------------------------------------------------------------
(* The status of a task against its stages.                                *)

(* A task that exists has all of its stages.                               *)
StagesComeTogether == \A s \in Stages : tStatus[TaskOf[s]] # "none" => st[s] # "none"

Truthful == TaskFollowsStages /\ StagesComeTogether

(* What one step may do to the status of a task.                           *)
TaskTurn(t) ==
  \/ tStatus'[t] = tStatus[t]
  \/ /\ tStatus[t] = "none" /\ tStatus'[t] = "pending"
     /\ \A s \in StagesOf(t) : st[s] = "none" /\ st'[s] # "none"
  \/ /\ tStatus[t] = "pending" /\ tStatus'[t] = "running"
     /\ \E s \in StagesOf(t) : claims'[s] = claims[s] + 1
  \/ tStatus[t] \notin FinalTask \cup {"none"} /\ tStatus'[t] = "failed"
  \/ /\ tStatus[t] \notin FinalTask \cup {"none"} /\ tStatus'[t] = "completed"
     /\ \A s \in StagesOf(t) : st'[s] \notin OpenStatuses

(* What its stages do to it: one handed out starts it, one whose budget is *)
(* spent fails it, and none exists before it.                              *)
StageTurn(s) ==
  LET t == TaskOf[s] IN
  /\ claims'[s] # claims[s] => tStatus'[t] # "pending"
  /\ retry'[s] # retry[s] /\ retry'[s] > MaxRetries
       => tStatus[t] = "completed" \/ tStatus'[t] = "failed"
  /\ st[s] # "none" => st'[s] # "none"

Turns ==
  /\ \A t \in Tasks : TaskTurn(t)
  /\ \A s \in Stages : StageTurn(s)

(* The stages of a task that is failed were there.                         *)
LEMMA FailTurns ==
  ASSUME Strong, Moves, NEW T, FailTasks(T),
         \A t \in T : tStatus[t] \notin FinalTask \cup {"none"}
  PROVE  \A t \in Tasks : TaskTurn(t)
BY DEF FailTasks, TaskTurn

(* A step that changes no task, no claim and no retry.                     *)
LEMMA QuietTurns ==
  ASSUME Moves, UNCHANGED <<tStatus, claims, retry>>
  PROVE  Turns
BY DEF Turns, TaskTurn, StageTurn, Moves, StageMove, HeldStatuses, LongStatuses

(* A step that changes no claim and no retry.                              *)
LEMMA StageTurns ==
  ASSUME Moves, UNCHANGED <<claims, retry>>
  PROVE  \A s \in Stages : StageTurn(s)
BY DEF StageTurn, Moves, StageMove, HeldStatuses, LongStatuses

(* Whoever has a stage that is there exists.                               *)
LEMMA TasksOfRows ==
  ASSUME Strong, NEW S \in SUBSET Stages, \A s \in S : st[s] # "none"
  PROVE  \A t \in TasksOf(S) : t \in Tasks /\ tStatus[t] # "none"
BY ShapeAssumption DEF TasksOf, Strong, Inductive, StagesAreCreated

(* Every action makes only these turns.                                    *)
LEMMA NextTurns ==
  ASSUME Strong, [Next]_vars
  PROVE  Turns
<1> USE ShapeAssumption, RetryAssumption, Registry
<1>M. Moves
  BY NextMoves DEF Strong
<1>T. /\ TypeOK /\ tStatus \in [Tasks -> TaskState]
      /\ st \in [Stages -> StageState] /\ claims \in [Stages -> Nat]
      /\ retry \in [Stages -> Nat]
  BY DEF Strong, Inductive, TypeOK, TasksOK, StagesOK
<1>1. ASSUME NEW t \in Tasks, NEW r \in Requests, CreateTask(t, r) PROVE Turns
  <2>1. UNCHANGED <<claims, retry>>
    BY <1>1 DEF CreateTask, claimVars
  <2>2. \A s \in StagesOf(t) : st[s] = "none" /\ st'[s] = "pending"
    BY <1>1 DEF CreateTask, SetStatus, StagesOf, Strong, Inductive, StagesAreCreated
  <2>3. \A u \in Tasks : TaskTurn(u)
    BY <1>T, <1>1, <2>2 DEF CreateTask, TaskTurn
  <2> QED BY <1>M, <2>1, <2>3, StageTurns DEF Turns
<1>2. ASSUME ClaimWrite PROVE Turns
  <2>1. \/ UNCHANGED <<tStatus, claims, retry>>
        \/ \E s \in loop.rows :
             /\ st[s] = "pending" /\ StartTask(TaskOf[s])
             /\ claims' = [claims EXCEPT ![s] = @ + 1] /\ retry' = retry
    BY <1>2, Zenon DEF ClaimWrite, taskVars, claimVars
  <2>2. loop.rows \subseteq Stages
    BY <1>T, <1>2, LoopFields DEF ClaimWrite, TypeOK
  <2>3. ASSUME NEW c \in Stages, st[c] = "pending", StartTask(TaskOf[c]),
               claims' = [claims EXCEPT ![c] = @ + 1], retry' = retry
        PROVE  Turns
    <3>1. \A t \in Tasks : TaskTurn(t)
      BY <1>T, <2>3 DEF StartTask, TaskTurn, StagesOf
    <3>2. \A s \in Stages : StageTurn(s)
      BY <1>T, <1>M, <2>3
         DEF StartTask, StageTurn, Moves, StageMove, HeldStatuses, LongStatuses
    <3> QED BY <3>1, <3>2 DEF Turns
  <2> QED BY <1>M, <2>1, <2>2, <2>3, QuietTurns
<1>3. ASSUME CompleteWrite PROVE Turns
  <2>1. UNCHANGED <<claims, retry>>
    BY <1>3 DEF CompleteWrite, claimVars
  <2>2. loop.stage \in Stages
    BY <1>T, <1>3, LoopFields DEF CompleteWrite, TypeOK
  <2>3. \A t \in Tasks : TaskTurn(t)
    BY <1>T, <1>3, <2>2
       DEF CompleteWrite, Completes, Holds, HeldStatuses, TaskTurn, Strong, Inductive, StagesAreCreated
  <2> QED BY <1>M, <2>1, <2>3, StageTurns DEF Turns
<1>4. ASSUME NEW n \in Nodes, AdminDelete(n) PROVE Turns
  <2>1. \A t \in TasksOf(ClaimedOf(n)) : t \in Tasks /\ tStatus[t] # "none"
    BY TasksOfRows DEF ClaimedOf
  <2>2. \A t \in Tasks : TaskTurn(t)
    BY <1>M, <1>4, <2>1, FailTurns DEF AdminDelete, FailedTasks
  <2> QED BY <1>M, <1>4, <2>2, StageTurns DEF AdminDelete, Turns
<1>5. ASSUME NEW w \in Sweepers, OfflineWrite(w) PROVE Turns
  <2>1. CASE UNCHANGED <<node, st, by, expired, tStatus>>
    BY <1>M, <1>5, <2>1, QuietTurns DEF OfflineWrite
  <2>2. CASE ~ UNCHANGED <<node, st, by, expired, tStatus>>
    <3>1. PICK lost \in SUBSET {s \in Stages : st[s] = "claimed"} :
            FailTasks(DoneTasks(st', TasksOf(lost), {"completed", "failed", "timed_out"}))
      BY <1>5, <2>2, Zenon DEF OfflineWrite
    <3>2. \A t \in TasksOf(lost) : t \in Tasks /\ tStatus[t] # "none"
      BY TasksOfRows
    <3>3. \A t \in Tasks : TaskTurn(t)
      BY <1>M, <3>1, <3>2, FailTurns DEF DoneTasks
    <3> QED BY <1>M, <1>5, <3>3, StageTurns DEF OfflineWrite, Turns
  <2> QED BY <2>1, <2>2
<1>6. ASSUME NEW w \in Sweepers, ReleaseWrite(w) PROVE Turns
  <2> DEFINE sweep == maint[w]
             hit   == {s \in sweep.rows : SameClaim(s, sweep)}
             spent == {s \in hit : BudgetSpent(sweep.retry[s] + 1)}
  <2>1. /\ hit \subseteq Stages /\ spent \subseteq hit
        /\ \A s \in hit : st[s] = "claimed"
    BY <1>T, <1>6, SweepFields DEF ReleaseWrite, TypeOK, SameClaim
  <2>2. \A t \in TasksOf(spent) : t \in Tasks /\ tStatus[t] # "none"
    BY <2>1, TasksOfRows
  <2>3. /\ claims' = claims
        /\ \A s \in Stages : retry'[s] = IF s \in hit THEN sweep.retry[s] + 1 ELSE retry[s]
        /\ \A s \in spent : st'[s] = "failed"
        /\ FailTasks(DoneTasks(st', TasksOf(spent), {"failed"}) \cup FailedTasks(st', TasksOf(spent)))
    BY <1>6, <2>1 DEF ReleaseWrite
  <2>4. \A t \in Tasks : TaskTurn(t)
    BY <1>M, <2>2, <2>3, FailTurns DEF DoneTasks, FailedTasks
  <2>5. ASSUME NEW s \in Stages, retry'[s] # retry[s], retry'[s] > MaxRetries
        PROVE  tStatus[TaskOf[s]] = "completed" \/ tStatus'[TaskOf[s]] = "failed"
    <3>1. s \in spent
      BY <2>1, <2>3, <2>5 DEF BudgetSpent
    <3> HIDE DEF spent, hit
    <3>2. TaskOf[s] \in TasksOf(spent) /\ s \in StagesOf(TaskOf[s])
      BY <3>1 DEF TasksOf, StagesOf
    <3>3. tStatus[TaskOf[s]] \in FinalTask \/ TaskOf[s] \in FailedTasks(st', TasksOf(spent))
      BY <2>3, <3>1, <3>2 DEF FailedTasks
    <3> QED BY <1>T, <2>3, <3>3 DEF FailTasks, TaskState
  <2>6. \A s \in Stages : StageTurn(s)
    BY <1>M, <2>3, <2>5 DEF StageTurn, Moves, StageMove, HeldStatuses, LongStatuses
  <2> QED BY <2>4, <2>6 DEF Turns
<1>7. ASSUME NEW w \in Sweepers, OrphanWrite(w) PROVE Turns
  <2>1. PICK hit \in SUBSET {s \in Stages : st[s] = "pending"} :
          FailTasks(DoneTasks(st', TasksOf(hit), {"failed"}) \cup FailedTasks(st', TasksOf(hit)))
    <3>1. maint[w].dead \subseteq Stages /\ maint[w].rows \subseteq Stages
      BY <1>T, <1>7, SweepFields DEF OrphanWrite, TypeOK
    <3> QED BY <1>7, <3>1, Zenon DEF OrphanWrite
  <2>2. \A t \in TasksOf(hit) : t \in Tasks /\ tStatus[t] # "none"
    BY TasksOfRows
  <2>3. \A t \in Tasks : TaskTurn(t)
    BY <1>M, <2>1, <2>2, FailTurns DEF DoneTasks, FailedTasks
  <2> QED BY <1>M, <1>7, <2>3, StageTurns DEF OrphanWrite, Turns, claimVars
<1>8. ASSUME NEW w \in Sweepers, LeaseWrite(w) PROVE Turns
  <2>1. PICK hit \in SUBSET Stages :
          /\ \A s \in hit : st[s] # "none"
          /\ FailTasks(DoneTasks(st', TasksOf(hit), {"failed", "timed_out", "cancelled"}))
    <3> DEFINE sweep   == maint[w]
               overdue == IF sweep.rule = 1 THEN {s \in sweep.rows : st[s] = "accepted"} ELSE {}
               st1     == SetStatus(overdue, "orphaned")
               dead    == CASE sweep.rule = 1 -> LeaseDead(st1)
                            [] sweep.rule = 2 -> {s \in sweep.rows : st1[s] = "orphaned"}
                            [] sweep.rule = 3 -> {}
               st2     == [s \in Stages |-> IF s \in dead THEN "failed" ELSE st1[s]]
               gone    == IF sweep.rule = 3 THEN {s \in sweep.rows : st2[s] \in LongStatuses}
                                            ELSE HolderGone(st2)
    <3>1. sweep.rule \in 1..3 /\ sweep.rows \subseteq Stages
      BY <1>T, <1>8, SweepFields DEF LeaseWrite, TypeOK
    <3>2. FailTasks(DoneTasks(st', TasksOf(overdue \cup dead \cup gone), {"failed", "timed_out", "cancelled"}))
      BY <1>8 DEF LeaseWrite
    <3>3. overdue \subseteq Stages /\ \A s \in overdue : st[s] # "none"
      BY <3>1
    <3>4. dead \subseteq Stages /\ \A s \in dead : st1[s] = "orphaned"
      BY <3>1 DEF LeaseDead
    <3>5. gone \subseteq Stages /\ \A s \in gone : st2[s] \in LongStatuses
      BY <3>1 DEF HolderGone
    <3> HIDE DEF overdue, dead, gone
    <3>6. \A s \in Stages : st1[s] # "none" => st[s] # "none"
      BY <3>3 DEF SetStatus
    <3> HIDE DEF st1
    <3>7. \A s \in Stages : st2[s] # "none" => st[s] # "none"
      BY <3>4, <3>6
    <3>8. \A s \in overdue \cup dead \cup gone : s \in Stages /\ st[s] # "none"
      BY <3>3, <3>4, <3>5, <3>6, <3>7 DEF LongStatuses
    <3> QED BY <3>2, <3>8
  <2>2. \A t \in TasksOf(hit) : t \in Tasks /\ tStatus[t] # "none"
    BY <2>1, TasksOfRows
  <2>3. \A t \in Tasks : TaskTurn(t)
    BY <1>M, <2>1, <2>2, FailTurns DEF DoneTasks
  <2> QED BY <1>M, <1>8, <2>3, StageTurns DEF LeaseWrite, Turns, claimVars
<1>9. CASE \/ \E n \in Nodes : \/ ClaimRead(n) \/ HeartbeatRead(n) \/ AdminApprove(n)
                               \/ \E s \in Stages : CompleteRead(n, s)
                               \/ \E t \in Tasks : NoteRead(n, t)
           \/ NoteWrite \/ HeartbeatWrite \/ SyncCapabilities
           \/ \E w \in Sweepers : SweepRead(w)
           \/ Environment \/ UNCHANGED vars
  <2>1. UNCHANGED <<tStatus, claims, retry>>
    BY <1>9
       DEF ClaimRead, HeartbeatRead, AdminApprove, CompleteRead, NoteRead, NoteWrite,
           HeartbeatWrite, SyncCapabilities, SweepRead, OfflineRead, ReleaseRead,
           OrphanRead, LeaseRead, Environment, ClaimExpires, NoteAges, NodeAges,
           LoopAborts, SweepAborts, vars, taskVars, stageVars, claimVars
  <2> QED BY <1>M, <2>1, QuietTurns
<1> QED
  BY <1>1, <1>2, <1>3, <1>4, <1>5, <1>6, <1>7, <1>8, <1>9
     DEF Next, Requested, LoopWrite, SweepWrite

(* The turns keep the task truthful.                                       *)
LEMMA TruthStep ==
  ASSUME Strong, Truthful, [Next]_vars
  PROVE  Truthful'
<1> USE ShapeAssumption, RetryAssumption, Registry
<1>1. Moves /\ Turns /\ TypeOK /\ TypeOK'
  BY NextMoves, NextTurns, TypeStep DEF Strong, Inductive
<1>2. \A s \in Stages : /\ TaskOf[s] \in Tasks /\ s \in StagesOf(TaskOf[s])
                        /\ StageMove(s) /\ StageTurn(s) /\ TaskTurn(TaskOf[s])
                        /\ claims[s] \in Nat /\ claims'[s] \in Nat
                        /\ retry[s] \in Nat /\ st'[s] \in StageState
                        /\ tStatus[TaskOf[s]] \in TaskState /\ tStatus'[TaskOf[s]] \in TaskState
  BY <1>1 DEF Moves, Turns, StagesOf, TypeOK, StagesOK, TasksOK
<1>3. StagesComeTogether'
  BY <1>2 DEF Truthful, StagesComeTogether, TaskTurn, StageTurn
<1>4. CompletedTaskIsClosed'
  <2> SUFFICES ASSUME NEW t \in Tasks, tStatus'[t] = "completed", NEW s \in StagesOf(t)
               PROVE  st'[s] \in {"completed", "failed"}
    BY DEF CompletedTaskIsClosed
  <2>1. s \in Stages /\ TaskOf[s] = t /\ TaskTurn(t)
    BY <1>1 DEF StagesOf, Turns
  <2>2. CASE tStatus[t] = "completed"
    BY <1>2, <2>1, <2>2
       DEF Truthful, TaskFollowsStages, CompletedTaskIsClosed, StageMove, HeldStatuses, LongStatuses
  <2>3. CASE tStatus[t] # "completed"
    BY <1>2, <1>3, <2>1, <2>3 DEF TaskTurn, StagesComeTogether, StageState
  <2> QED BY <2>2, <2>3
<1>5. ExhaustedStageFailsTask'
  <2> SUFFICES ASSUME NEW s \in Stages, retry'[s] > MaxRetries
               PROVE  tStatus'[TaskOf[s]] = "failed"
    BY DEF ExhaustedStageFailsTask
  <2>1. CASE retry'[s] = retry[s]
    BY <1>2, <2>1 DEF Truthful, TaskFollowsStages, ExhaustedStageFailsTask, TaskTurn
  <2>2. CASE retry'[s] # retry[s]
    <3>1. st[s] = "claimed"
      BY <1>2, <2>2 DEF StageMove, CountersSame
    <3>2. tStatus[TaskOf[s]] # "completed"
      BY <1>2, <3>1 DEF Truthful, TaskFollowsStages, CompletedTaskIsClosed
    <3> QED BY <1>2, <2>2, <3>2 DEF StageTurn
  <2> QED BY <2>1, <2>2
<1>6. PendingMeansUntouched'
  <2> SUFFICES ASSUME NEW s \in Stages
               PROVE  /\ tStatus'[TaskOf[s]] = "pending" => claims'[s] = 0
                      /\ tStatus'[TaskOf[s]] = "running" => \E o \in StagesOf(TaskOf[s]) : claims'[o] > 0
    BY DEF PendingMeansUntouched
  <2>1. \A o \in Stages : claims'[o] >= claims[o]
    BY <1>2 DEF StageMove, CountersSame
  <2>2. \A o \in StagesOf(TaskOf[s]) : o \in Stages
    BY DEF StagesOf
  <2>3. ASSUME tStatus'[TaskOf[s]] = "pending" PROVE claims'[s] = 0
    BY <1>2, <2>3
       DEF Strong, Claimed, CountFromZero, Truthful, TaskFollowsStages,
           PendingMeansUntouched, TaskTurn, StageTurn
  <2>4. ASSUME tStatus'[TaskOf[s]] = "running"
        PROVE  \E o \in StagesOf(TaskOf[s]) : claims'[o] > 0
    <3>1. CASE tStatus[TaskOf[s]] = "running"
      <4>1. PICK o \in StagesOf(TaskOf[s]) : claims[o] > 0
        BY <3>1 DEF Truthful, TaskFollowsStages, PendingMeansUntouched
      <4> QED BY <1>2, <2>1, <2>2, <4>1
    <3>2. CASE tStatus[TaskOf[s]] # "running"
      BY <1>2, <2>2, <2>4, <3>2 DEF TaskTurn
    <3> QED BY <3>1, <3>2
  <2> QED BY <2>3, <2>4
<1> QED BY <1>3, <1>4, <1>5, <1>6 DEF Truthful, TaskFollowsStages

(* The status of a task tells the truth about its stages: a completed one  *)
(* has no open stage, one with an exhausted stage has failed, and one is   *)
(* pending as long as nothing of it was handed out.                        *)
THEOREM TaskStatusIsTrue == Spec => []TaskFollowsStages
<1>1. Init => Truthful
  BY ShapeAssumption, RetryAssumption
     DEF Init, Truthful, TaskFollowsStages, CompletedTaskIsClosed, ExhaustedStageFailsTask,
         PendingMeansUntouched, StagesComeTogether
<1>2. Strong /\ Truthful /\ [Next]_vars => Truthful'
  BY TruthStep
<1>3. Truthful => TaskFollowsStages
  BY DEF Truthful
<1> QED BY <1>1, <1>2, <1>3, StrongInvariant, PTL DEF Spec

-----------------------------------------------------------------------------
(* The order in which stages are handed out.                               *)

(* The earlier tasks of a task exist, and none of two tasks is earlier     *)
(* than the other and later.                                               *)
EarlierIsOrder ==
  \A a, b \in Tasks : a \in earlier[b] => tStatus[a] # "none" /\ b \notin earlier[a]

(* create_task alone writes created_at, and only claim_stage hands out.    *)
LEMMA OthersKeepOrder ==
  ASSUME [Next]_vars
  PROVE  /\ earlier' = earlier \/ \E t \in Tasks, r \in Requests : CreateTask(t, r)
         /\ claims' = claims \/ ClaimWrite
<1>1. CASE (\E t \in Tasks, r \in Requests : CreateTask(t, r)) \/ ClaimWrite
  BY <1>1 DEF CreateTask, ClaimWrite, claimVars, taskVars
<1>2. CASE \/ \E n \in Nodes : \/ ClaimRead(n) \/ HeartbeatRead(n) \/ AdminApprove(n)
                               \/ AdminDelete(n)
                               \/ \E s \in Stages : CompleteRead(n, s)
                               \/ \E t \in Tasks : NoteRead(n, t)
           \/ CompleteWrite \/ NoteWrite \/ HeartbeatWrite \/ SyncCapabilities
  BY <1>2
     DEF ClaimRead, HeartbeatRead, AdminApprove, AdminDelete, CompleteRead, NoteRead,
         CompleteWrite, NoteWrite, HeartbeatWrite, SyncCapabilities, taskVars,
         stageVars, claimVars
<1>3. CASE \/ \E w \in Sweepers : SweepRead(w) \/ SweepWrite(w)
           \/ Environment \/ UNCHANGED vars
  BY <1>3
     DEF SweepRead, SweepWrite, OfflineRead, ReleaseRead, OrphanRead, LeaseRead,
         OfflineWrite, ReleaseWrite, OrphanWrite, LeaseWrite, Environment,
         ClaimExpires, NoteAges, NodeAges, LoopAborts, SweepAborts, vars, taskVars,
         stageVars, claimVars
<1> QED BY <1>1, <1>2, <1>3 DEF Next, Requested, LoopWrite

(* A new task comes after all that exist.                                  *)
LEMMA OrderStep ==
  ASSUME Strong, EarlierIsOrder, [Next]_vars
  PROVE  EarlierIsOrder'
<1>1. \A t \in Tasks : tStatus[t] # "none" => tStatus'[t] # "none"
  BY NextTurns, Registry DEF Turns, TaskTurn
<1>2. earlier \in [Tasks -> SUBSET Tasks] /\ tStatus \in [Tasks -> TaskState]
  BY DEF Strong, Inductive, TypeOK, TasksOK
<1>3. CASE earlier' = earlier
  BY <1>1, <1>3 DEF EarlierIsOrder
<1>4. ASSUME NEW t \in Tasks, NEW r \in Requests, CreateTask(t, r)
      PROVE  EarlierIsOrder'
  BY <1>1, <1>2, <1>4 DEF CreateTask, EarlierIsOrder
<1> QED BY <1>3, <1>4, OthersKeepOrder

(* Stages that o precedes: it came first, asks for no more, and is open to *)
(* every node.                                                             *)
Precedes(o, s) ==
  /\ CameFirst(o, s)
  /\ Capability[o] = Capability[s] /\ deps[o] \subseteq deps[s]
  /\ pin[o] = NoNode /\ owner[TaskOf[o]] = NoNode

NoneDeleted == \A n \in Nodes : node[n] # "deleted"

(* What a claim has read it may still rely on: with a stage it has read    *)
(* every stage that precedes it, is open and was never handed out.         *)
SnapshotIsComplete ==
  NoneDeleted /\ loop.op = "claim" =>
    \A s \in loop.rows, o \in Stages :
      Precedes(o, s) /\ st[o] \in {"none", "pending"} /\ claims[o] = 0 => o \in loop.rows

Ordered == Strong /\ Truthful /\ EarlierIsOrder /\ SnapshotIsComplete /\ NoQueueJumping

(* What a stage precedes is settled when its task is created; a claim can  *)
(* only end it, and nothing but a deletion takes an address away.          *)
OrderKept ==
  /\ NoneDeleted' => NoneDeleted
  /\ UNCHANGED <<prio, earlier, planVars>>
  /\ \A t \in Tasks : owner'[t] = NoNode => owner[t] = NoNode

LEMMA OrderFrame ==
  ASSUME Strong, [Next]_vars
  PROVE  \/ \E t \in Tasks, r \in Requests : CreateTask(t, r)
         \/ ~ NoneDeleted'
         \/ /\ OrderKept
            /\ loop' = loop \/ loop'.op # "claim" \/ \E n \in Nodes : ClaimRead(n)
<1>1. /\ node \in [Nodes -> NodeStatus] /\ owner \in [Tasks -> Nodes \cup {NoNode}]
      /\ LoopIsCurrent /\ loop \in LoopState
  BY DEF Strong, Inductive, TypeOK, NodesOK, TasksOK
<1>2. CASE \E n \in Nodes : AdminDelete(n)
  BY <1>1, <1>2 DEF AdminDelete, NoneDeleted
<1>3. CASE ClaimWrite
  <2>1. loop.node \in Nodes /\ loop' = Idle
    BY <1>1, <1>3, LoopFields DEF ClaimWrite, Idle
  <2>2. \/ owner' = owner
        \/ \E t : owner' = [owner EXCEPT ![t] = loop.node]
    BY <1>3 DEF ClaimWrite, taskVars
  <2>3. \A t \in Tasks : owner'[t] = NoNode => owner[t] = NoNode
    BY <1>1, <2>1, <2>2, NoNodeAssumption
  <2>4. UNCHANGED <<node, prio, earlier, planVars>>
    BY <1>3 DEF ClaimWrite, nodeVars, taskVars
  <2> QED BY <2>1, <2>3, <2>4 DEF OrderKept, NoneDeleted, Idle
<1>4. CASE HeartbeatWrite
  <2>1. node[loop.node] # "deleted"
    BY <1>1, <1>4 DEF HeartbeatWrite, LoopIsCurrent, Idle
  <2> QED BY <1>1, <1>4, <2>1
         DEF HeartbeatWrite, OrderKept, NoneDeleted, taskVars, stageVars, Idle
<1>5. ASSUME NEW n \in Nodes, AdminApprove(n)
      PROVE  OrderKept /\ loop'.op # "claim"
  BY <1>1, <1>5 DEF AdminApprove, OrderKept, NoneDeleted, taskVars, stageVars
<1>6. ASSUME NEW w \in Sweepers, OfflineWrite(w)
      PROVE  OrderKept /\ loop' = loop
  <2>1. UNCHANGED <<loop, prio, earlier, owner, planVars>>
    BY <1>6 DEF OfflineWrite
  <2>2. NoneDeleted' => NoneDeleted
    BY <1>1, <1>6 DEF OfflineWrite, NoneDeleted
  <2> QED BY <2>1, <2>2 DEF OrderKept
<1>7. CASE \E n \in Nodes : \/ HeartbeatRead(n)
                            \/ \E s \in Stages : CompleteRead(n, s)
                            \/ \E t \in Tasks : NoteRead(n, t)
  BY <1>7 DEF HeartbeatRead, CompleteRead, NoteRead, OrderKept, NoneDeleted, nodeVars, taskVars, stageVars
<1>8. CASE CompleteWrite \/ NoteWrite \/ SyncCapabilities \/ LoopAborts
  BY <1>8 DEF CompleteWrite, NoteWrite, SyncCapabilities, LoopAborts, OrderKept, NoneDeleted,
              nodeVars, taskVars, stageVars, Idle
<1>9. ASSUME NEW w \in Sweepers,
             SweepRead(w) \/ ReleaseWrite(w) \/ OrphanWrite(w) \/ LeaseWrite(w) \/ SweepAborts(w)
      PROVE  OrderKept /\ loop' = loop
  BY <1>9 DEF SweepRead, OfflineRead, ReleaseRead, OrphanRead, LeaseRead, ReleaseWrite, OrphanWrite,
              LeaseWrite, SweepAborts, OrderKept, NoneDeleted, nodeVars, taskVars, stageVars
<1>10. CASE \/ \E s \in Stages : ClaimExpires(s) \/ NoteAges(s)
            \/ \E n \in Nodes : NodeAges(n)
            \/ UNCHANGED vars
  BY <1>10 DEF ClaimExpires, NoteAges, NodeAges, vars, OrderKept, NoneDeleted, nodeVars, taskVars, stageVars
<1>11. CASE \E n \in Nodes : ClaimRead(n)
  BY <1>11 DEF ClaimRead, OrderKept, NoneDeleted, nodeVars, taskVars, stageVars
<1> QED
  BY <1>2, <1>3, <1>4, <1>5, <1>6, <1>7, <1>8, <1>9, <1>10, <1>11
     DEF Next, Requested, LoopWrite, SweepWrite, Environment

(* Nothing comes to precede a stage, and what has failed, or was handed    *)
(* out once, stays so.                                                     *)
LEMMA PrecedesKept ==
  ASSUME OrderKept, NEW s \in Stages, NEW o \in Stages, Precedes(o, s)'
  PROVE  Precedes(o, s)
BY ShapeAssumption DEF OrderKept, Precedes, CameFirst, planVars

(* What precedes a stage that exists, exists.                              *)
LEMMA PrecedingExists ==
  ASSUME Strong, Truthful, EarlierIsOrder,
         NEW s \in Stages, NEW o \in Stages, Precedes(o, s), st[s] # "none"
  PROVE  st[o] # "none" /\ o # s
<1>1. TaskOf[s] \in Tasks /\ TaskOf[o] \in Tasks /\ Seq[s] \in Nat
  BY ShapeAssumption
<1>2. tStatus[TaskOf[o]] # "none"
  BY <1>1 DEF Precedes, CameFirst, EarlierIsOrder, Strong, Inductive, StagesAreCreated
<1>3. st[o] # "none"
  BY <1>2 DEF Truthful, StagesComeTogether
<1>4. o # s
  BY <1>1 DEF Precedes, CameFirst, EarlierIsOrder
<1> QED BY <1>3, <1>4

(* A claim has read, or another step has changed what it relies on.        *)
LEMMA SnapshotStep ==
  ASSUME Ordered, [Next]_vars
  PROVE  SnapshotIsComplete'
<1>1. Moves /\ st \in [Stages -> StageState] /\ claims \in [Stages -> Nat] /\ loop \in LoopState
  BY NextMoves DEF Ordered, Strong, Inductive, TypeOK, StagesOK
<1>2. ASSUME NEW n \in Nodes, ClaimRead(n)
      PROVE  SnapshotIsComplete'
  <2>1. /\ UNCHANGED <<st, claims, prio, earlier, owner, pin, deps>>
        /\ \E wanted : loop'.rows = {s \in Stages : /\ st[s] = "pending" /\ Capability[s] \in wanted
                                                    /\ PinAllows(s, n)}
    BY <1>2 DEF ClaimRead, taskVars, stageVars, claimVars, planVars
  <2>2. ASSUME NEW s \in loop'.rows, NEW o \in Stages, Precedes(o, s)', st[o] \in {"none", "pending"}
        PROVE  o \in loop'.rows
    <3>1. s \in Stages /\ st[s] = "pending" /\ Precedes(o, s)
      BY <2>1, <2>2 DEF Precedes, CameFirst
    <3>2. st[o] = "pending"
      BY <2>2, <3>1, PrecedingExists DEF Ordered
    <3> QED BY <2>1, <3>1, <3>2 DEF Precedes, PinAllows
  <2> QED BY <2>1, <2>2 DEF SnapshotIsComplete
<1>3. CASE loop'.op # "claim" \/ ~ NoneDeleted'
  BY <1>3 DEF SnapshotIsComplete
<1>4. ASSUME OrderKept, loop' = loop, NoneDeleted', loop.op = "claim",
             NEW s \in loop.rows, NEW o \in Stages,
             Precedes(o, s)', st'[o] \in {"none", "pending"}, claims'[o] = 0
      PROVE  o \in loop.rows
  <2>1. s \in Stages
    BY <1>1, <1>4, LoopFields
  <2>2. NoneDeleted /\ Precedes(o, s)
    BY <1>4, <2>1, PrecedesKept DEF OrderKept
  <2>3. st[o] \in HeldStatuses \cup {"completed"} => claims[o] = retry[o] + 1 /\ retry[o] \in Nat
    BY DEF Ordered, Strong, Inductive, RetryAccounting, TypeOK, StagesOK
  <2>4. st[o] \in {"none", "pending"} /\ claims[o] = 0
    BY <1>1, <1>4, <2>3 DEF Moves, StageMove, CountersSame, HeldStatuses, LongStatuses
  <2> QED BY <1>4, <2>2, <2>4 DEF Ordered, SnapshotIsComplete
<1>5. ASSUME NEW t \in Tasks, NEW r \in Requests, CreateTask(t, r)
      PROVE  SnapshotIsComplete'
  BY <1>5 DEF CreateTask, SnapshotIsComplete, Idle
<1>6. OrderKept /\ loop' = loop => SnapshotIsComplete'
  BY <1>4 DEF SnapshotIsComplete
<1> QED BY <1>2, <1>3, <1>5, <1>6, OrderFrame DEF Ordered

(* claim_stage takes the first of the candidates it can take: whatever     *)
(* precedes it and is neither handed out nor failed would have been one.   *)
LEMMA ClaimsInOrder ==
  ASSUME Ordered, Moves, ClaimWrite, NoneDeleted,
         NEW s \in Stages, NEW o \in Stages,
         claims[s] = 0, claims'[s] > 0, Precedes(o, s), claims[o] = 0, st[o] # "failed"
  PROVE  FALSE
<1> USE ShapeAssumption
<1> DEFINE ready == {c \in loop.rows : st[c] = "pending" /\ DepsDone(c)}
           mine  == {c \in ready : owner[TaskOf[c]] \in {NoNode, loop.node}}
<1>1. /\ claims \in [Stages -> Nat] /\ prio \in [Tasks -> Int] /\ loop.rows \subseteq Stages
      /\ loop.op = "claim" /\ st \in [Stages -> StageState] /\ retry \in [Stages -> Nat]
  BY LoopFields DEF ClaimWrite, Ordered, Strong, Inductive, TypeOK, TasksOK, StagesOK
<1>0. claims' # claims
  BY <1>1
<1>2. PICK c \in mine : /\ \A d \in mine \ {c} : Before(c, d)
                        /\ claims' = [claims EXCEPT ![c] = @ + 1]
  BY <1>0, <1>1, Zenon DEF ClaimWrite, claimVars
<1>3. c = s
  BY <1>1, <1>2
<1>4. s \in loop.rows /\ st[s] = "pending" /\ DepsDone(s)
  BY <1>2, <1>3
<1>5. st[o] # "none" /\ o # s
  BY <1>4, PrecedingExists DEF Ordered
<1>6. st[o] = "pending"
  <2>1. st[o] \in HeldStatuses \cup {"completed"} => claims[o] = retry[o] + 1
    BY DEF Ordered, Strong, Inductive, RetryAccounting
  <2> QED BY <1>1, <1>5, <2>1 DEF StageState, HeldStatuses
<1>7. o \in mine
  <2>1. o \in loop.rows
    BY <1>1, <1>4, <1>6 DEF Ordered, SnapshotIsComplete
  <2>2. DepsDone(o) /\ owner[TaskOf[o]] = NoNode
    BY <1>4 DEF Precedes, DepsDone
  <2> QED BY <1>6, <2>1, <2>2
<1>8. Before(s, o)
  BY <1>2, <1>3, <1>5, <1>7
<1> QED BY <1>1, <1>8 DEF Before, Precedes, CameFirst, Ordered, EarlierIsOrder

LEMMA QueueStep ==
  ASSUME Ordered, [Next]_vars
  PROVE  NoQueueJumping'
<1>1. /\ Moves /\ claims \in [Stages -> Nat] /\ retry \in [Stages -> Nat] /\ Turns
      /\ st \in [Stages -> StageState]
  BY NextMoves, NextTurns DEF Ordered, Strong, Inductive, TypeOK, StagesOK
<1>2. \A s \in Stages : /\ claims[s] \in Nat /\ claims'[s] \in Nat /\ claims'[s] >= claims[s]
                        /\ st[s] = "failed" => st'[s] = "failed"
  BY <1>1 DEF Moves, StageMove, CountersSame, HeldStatuses, LongStatuses
<1>3. ASSUME NoneDeleted, OrderKept, NEW s \in Stages, NEW o \in Stages, claims'[s] > 0, Precedes(o, s)'
      PROVE  claims'[o] > 0 \/ st'[o] = "failed"
  <2>1. Precedes(o, s)
    BY <1>3, PrecedesKept
  <2>2. CASE claims[s] > 0
    <3>1. claims[o] > 0 \/ st[o] = "failed"
      BY <1>3, <2>1, <2>2 DEF Ordered, NoQueueJumping, Precedes, NoneDeleted
    <3> QED BY <1>1, <1>2, <3>1
  <2>3. CASE claims[s] = 0
    <3>1. ClaimWrite
      BY <1>3, <2>3, OthersKeepOrder
    <3>2. claims[o] # 0 \/ st[o] = "failed"
      BY <1>1, <1>3, <2>1, <2>3, <3>1, ClaimsInOrder
    <3> QED BY <1>2, <3>2
  <2> QED BY <1>1, <2>2, <2>3
<1>4. OrderKept => NoQueueJumping'
  BY <1>3 DEF NoQueueJumping, Precedes, NoneDeleted, OrderKept
<1>5. ~ NoneDeleted' => NoQueueJumping'
  BY DEF NoQueueJumping, NoneDeleted
<1>6. ASSUME NEW t \in Tasks, NEW r \in Requests, CreateTask(t, r)
      PROVE  NoQueueJumping'
  <2>1. /\ tStatus[t] = "none" /\ UNCHANGED <<node, claims>>
        /\ \A u \in Tasks \ {t} : owner'[u] = owner[u] /\ prio'[u] = prio[u] /\ earlier'[u] = earlier[u]
        /\ \A s \in Stages : TaskOf[s] # t => pin'[s] = pin[s] /\ deps'[s] = deps[s]
    BY <1>6, ShapeAssumption
       DEF CreateTask, nodeVars, claimVars, StagesOf, Ordered, Strong, Inductive, TypeOK, TasksOK
  <2>2. \A s \in Stages : TaskOf[s] = t => claims[s] = 0
    BY <2>1 DEF Ordered, Strong, Inductive, StagesAreCreated, Claimed, CountFromZero
  <2>3. ASSUME NoneDeleted, NEW s \in Stages, NEW o \in Stages, claims'[s] > 0, Precedes(o, s)'
        PROVE  claims'[o] > 0 \/ st'[o] = "failed"
    <3>1. TaskOf[s] # t /\ TaskOf[s] \in Tasks /\ TaskOf[o] \in Tasks
      BY <2>1, <2>2, <2>3, ShapeAssumption
    <3>2. TaskOf[o] # t
      BY <2>1, <2>3, <3>1 DEF Precedes, CameFirst, Ordered, EarlierIsOrder
    <3>3. Precedes(o, s)
      BY <2>1, <2>3, <3>1, <3>2 DEF Precedes, CameFirst
    <3>4. claims[o] > 0 \/ st[o] = "failed"
      BY <2>1, <2>3, <3>3 DEF Ordered, NoQueueJumping, Precedes, NoneDeleted
    <3> QED BY <1>2, <2>1, <3>4
  <2> QED BY <2>1, <2>3 DEF NoQueueJumping, Precedes, NoneDeleted
<1>7. (\E t \in Tasks, r \in Requests : CreateTask(t, r)) => NoQueueJumping'
  BY <1>6
<1> QED BY <1>4, <1>5, <1>7, OrderFrame DEF Ordered

(* T-229: whatever was claimed, completed, returned or swept since a claim *)
(* read its candidates, no stage overtakes one that came first and could   *)
(* have been had by the same node.                                         *)
THEOREM NobodyOvertakes == Spec => []NoQueueJumping
<1>1. Init => EarlierIsOrder /\ SnapshotIsComplete /\ NoQueueJumping /\ Truthful
  BY ShapeAssumption, RetryAssumption
     DEF Init, EarlierIsOrder, SnapshotIsComplete, NoQueueJumping, Idle,
         Truthful, TaskFollowsStages, CompletedTaskIsClosed, ExhaustedStageFailsTask,
         PendingMeansUntouched, StagesComeTogether
<1>2. Ordered /\ [Next]_vars => (EarlierIsOrder /\ SnapshotIsComplete /\ NoQueueJumping /\ Truthful)'
  BY OrderStep, SnapshotStep, QueueStep, TruthStep DEF Ordered
<1> QED BY <1>1, <1>2, StrongInvariant, PTL DEF Spec, Ordered

-----------------------------------------------------------------------------
(* The refinement of the abstract work queue.                              *)

(* The abstract variables, stage by stage.                                 *)
Phases  == [s \in Stages |-> PhaseOf(st[s])]
Holders == [s \in Stages |-> HolderOf(s)]

(* The phases tell the statuses apart as far as the queue does.            *)
LEMMA PhaseCases ==
  ASSUME NEW status \in StageState
  PROVE  /\ PhaseOf(status) = "new" <=> status = "none"
         /\ PhaseOf(status) = "open" <=> status = "pending"
         /\ PhaseOf(status) = "leased" <=> status = "claimed"
         /\ PhaseOf(status) = "kept" <=> status \in LongStatuses
         /\ PhaseOf(status) = "done" <=> status = "completed"
         /\ PhaseOf(status) = "dead" <=> status = "failed"
BY DEF StageState, PhaseOf, LongStatuses

(* A step that moves no phase, holder or count is a stutter.               *)
LEMMA StutterRefines ==
  ASSUME UNCHANGED <<st, by, claims>>
  PROVE  UNCHANGED WQ!vars
BY DEF WQ!vars, HolderOf

(* A sweep that returns claims and fails stages is a Sweep, or a Stutter.  *)
LEMMA SweepRefines ==
  ASSUME Strong, Moves, UNCHANGED claims,
         \A s \in Stages :
           \/ st'[s] = st[s]
           \/ st[s] # "none" /\ st'[s] = "failed"
           \/ st[s] = "claimed" /\ st'[s] = "pending"
           \/ st[s] = "accepted" /\ st'[s] = "orphaned",
         \A s \in Stages : st'[s] \in HeldStatuses => by'[s] = by[s]
  PROVE  WQ!Next
<1> DEFINE back == {s \in Stages : st[s] = "claimed" /\ st'[s] = "pending"}
           dead == {s \in Stages : st[s] # "failed" /\ st'[s] = "failed"}
<1>1. /\ st \in [Stages -> StageState] /\ claims \in [Stages -> Nat] /\ retry \in [Stages -> Nat]
      /\ \A s \in Stages : StageMove(s)
      /\ MaxRetries \in Nat
  BY RetryAssumption DEF Strong, Inductive, TypeOK, StagesOK, Moves
<1>2. \A s \in back : PhaseOf(st[s]) = "leased" /\ claims[s] < MaxRetries + 1
  <2> SUFFICES ASSUME NEW s \in back
               PROVE  PhaseOf(st[s]) = "leased" /\ claims[s] < MaxRetries + 1
    OBVIOUS
  <2>1. claims[s] = retry[s] + 1 /\ retry'[s] = retry[s] + 1 /\ ~ (retry'[s] > MaxRetries)
    BY <1>1 DEF StageMove, CountersSame, Strong, Inductive, RetryAccounting, HeldStatuses, LongStatuses
  <2> QED BY <1>1, <2>1, PhaseCases
<1>3. \A s \in dead : PhaseOf(st[s]) \in {"open", "leased", "kept"}
  <2> SUFFICES ASSUME NEW s \in dead PROVE PhaseOf(st[s]) \in {"open", "leased", "kept"}
    OBVIOUS
  <2>1. st[s] \in HeldStatuses \cup {"pending"}
    BY <1>1 DEF StageMove, HeldStatuses, LongStatuses
  <2> QED BY <1>1, <2>1, PhaseCases DEF HeldStatuses, LongStatuses
<1>4. Phases' = [s \in Stages |-> IF s \in dead THEN "dead" ELSE IF s \in back THEN "open" ELSE Phases[s]]
  <2> SUFFICES ASSUME NEW s \in Stages
               PROVE  PhaseOf(st'[s]) = IF s \in dead THEN "dead"
                                        ELSE IF s \in back THEN "open" ELSE PhaseOf(st[s])
    BY DEF Phases
  <2>1. /\ PhaseOf("failed") = "dead" /\ PhaseOf("pending") = "open"
        /\ PhaseOf("accepted") = PhaseOf("orphaned")
    BY DEF PhaseOf, LongStatuses
  <2> QED BY <2>1
<1>5. Holders' = [s \in Stages |-> IF s \in back \cup dead THEN NoNode ELSE Holders[s]]
  <2> SUFFICES ASSUME NEW s \in Stages
               PROVE  HolderOf(s)' = IF s \in back \cup dead THEN NoNode ELSE HolderOf(s)
    BY DEF Holders
  <2> QED BY DEF HolderOf, HeldStatuses
<1>6. back \in SUBSET Stages /\ dead \in SUBSET Stages
  OBVIOUS
<1> HIDE DEF back, dead
<1>7. WQ!Sweep(back, dead)
  BY <1>2, <1>3, <1>4, <1>5, <1>6 DEF WQ!Sweep, WQ!Drop, Phases, Holders
<1> QED BY <1>6, <1>7 DEF WQ!Next

(* create_task submits the stages of its task.                             *)
LEMMA CreateRefines ==
  ASSUME Strong, NEW t \in Tasks, NEW r \in Requests, CreateTask(t, r)
  PROVE  WQ!Next
<1> DEFINE mine == StagesOf(t)
<1>1. mine \in SUBSET Stages /\ \A s \in mine : st[s] = "none"
  BY DEF CreateTask, StagesOf, Strong, Inductive, StagesAreCreated
<1>2. /\ UNCHANGED <<by, claims>>
      /\ \A s \in Stages : st'[s] = IF s \in mine THEN "pending" ELSE st[s]
  BY DEF CreateTask, SetStatus, claimVars
<1> HIDE DEF mine
<1>3. PhaseOf("none") = "new" /\ PhaseOf("pending") = "open"
  BY DEF PhaseOf, LongStatuses
<1>4. Phases' = [s \in Stages |-> IF s \in mine THEN "open" ELSE Phases[s]]
  BY <1>2, <1>3 DEF Phases
<1>5. Holders' = Holders
  BY <1>1, <1>2 DEF Holders, HolderOf, HeldStatuses, LongStatuses
<1>6. WQ!Submit(mine)
  BY <1>1, <1>2, <1>3, <1>4, <1>5 DEF WQ!Submit, WQ!Move, Phases, Holders
<1> QED BY <1>1, <1>6 DEF WQ!Next

(* claim_stage leases the stage, if it finds one.                          *)
LEMMA ClaimRefines ==
  ASSUME Strong, Moves, ClaimWrite
  PROVE  WQ!Next \/ UNCHANGED WQ!vars
<1> USE ShapeAssumption, NoNodeAssumption, RetryAssumption
<1> DEFINE n     == loop.node
           ready == {s \in loop.rows : st[s] = "pending" /\ DepsDone(s)}
           mine  == {s \in ready : owner[TaskOf[s]] \in {NoNode, n}}
           gone  == {s \in ready \ mine : node[owner[TaskOf[s]]] = "deleted"}
<1>1. /\ n \in Nodes /\ loop.rows \subseteq Stages
      /\ st \in [Stages -> StageState] /\ claims \in [Stages -> Nat]
      /\ by \in [Stages -> Nodes \cup {NoNode}] /\ owner \in [Tasks -> Nodes \cup {NoNode}]
  BY LoopFields DEF ClaimWrite, Strong, Inductive, TypeOK, TasksOK, StagesOK
<1>2. gone = {}
  BY <1>1 DEF Strong, Claimed, References, NoDanglingReference
<1>3. \/ st' = SetStatus(gone, "failed") /\ UNCHANGED <<by, claims>>
      \/ \E s \in mine :
           /\ st' = [SetStatus({g \in gone : Before(g, s)}, "failed") EXCEPT ![s] = "claimed"]
           /\ by' = [by EXCEPT ![s] = n]
           /\ claims' = [claims EXCEPT ![s] = @ + 1]
  BY Zenon DEF ClaimWrite, claimVars
<1>4. CASE st' = SetStatus(gone, "failed") /\ UNCHANGED <<by, claims>>
  <2>1. st' = st
    BY <1>1, <1>2, <1>4 DEF SetStatus
  <2> QED BY <1>4, <2>1, StutterRefines
<1>5. ASSUME NEW c \in mine,
             st' = [SetStatus({g \in gone : Before(g, c)}, "failed") EXCEPT ![c] = "claimed"],
             by' = [by EXCEPT ![c] = n], claims' = [claims EXCEPT ![c] = @ + 1]
      PROVE  WQ!Next
  <2>1. c \in Stages /\ st[c] = "pending"
    BY <1>1
  <2>2. st' = [st EXCEPT ![c] = "claimed"]
    BY <1>1, <1>2, <1>5 DEF SetStatus
  <2>3. claims[c] < MaxRetries + 1
    BY <1>1, <2>1 DEF Strong, Inductive, RetryAccounting, TypeOK, StagesOK
  <2> HIDE DEF mine, n
  <2>4. PhaseOf("pending") = "open" /\ PhaseOf("claimed") = "leased"
    BY DEF PhaseOf, LongStatuses
  <2>5. Phases' = [s \in Stages |-> IF s \in {c} THEN "leased" ELSE Phases[s]]
    BY <1>1, <2>1, <2>2, <2>4 DEF Phases
  <2>6. Holders' = [Holders EXCEPT ![c] = n]
    BY <1>1, <1>5, <2>1, <2>2 DEF Holders, HolderOf, HeldStatuses, LongStatuses
  <2>7. WQ!Lease(c, n)
    BY <1>5, <2>1, <2>3, <2>4, <2>5, <2>6 DEF WQ!Lease, WQ!Move, Phases, Holders
  <2> QED BY <1>1, <2>1, <2>7 DEF WQ!Next
<1> QED BY <1>3, <1>4, <1>5

(* complete_stage finishes the stage, if its node still holds it.          *)
LEMMA CompleteRefines ==
  ASSUME Strong, CompleteWrite
  PROVE  WQ!Next \/ UNCHANGED WQ!vars
<1> DEFINE c == loop.stage
           n == loop.node
<1>1. /\ c \in Stages /\ n \in Nodes /\ UNCHANGED <<by, claims>>
      /\ st \in [Stages -> StageState]
  BY LoopFields DEF CompleteWrite, Strong, Inductive, TypeOK, StagesOK, claimVars
<1>2. CASE ~ Holds(n, c)
  BY <1>1, <1>2, StutterRefines DEF CompleteWrite
<1>3. CASE Holds(n, c)
  <2>1. st' = [st EXCEPT ![c] = "completed"] /\ by[c] = n /\ st[c] \in HeldStatuses
    BY <1>3 DEF CompleteWrite, Holds
  <2> HIDE DEF c, n
  <2>2. PhaseOf("completed") = "done"
    BY DEF PhaseOf, LongStatuses
  <2>3. Phases' = [s \in Stages |-> IF s \in {c} THEN "done" ELSE Phases[s]]
    BY <1>1, <2>1, <2>2 DEF Phases
  <2>4. Holders' = [s \in Stages |-> IF s \in {c} THEN NoNode ELSE Holders[s]]
    BY <1>1, <2>1 DEF Holders, HolderOf, HeldStatuses, LongStatuses
  <2>5. Holders[c] = n
    BY <1>1, <2>1 DEF Holders, HolderOf
  <2>6. WQ!Finish(c, n)
    BY <1>1, <2>3, <2>4, <2>5 DEF WQ!Finish, WQ!Move, WQ!Drop, Phases, Holders
  <2> QED BY <1>1, <2>6 DEF WQ!Next
<1> QED BY <1>2, <1>3

(* add_note keeps the claims it accepts, and the orphans it revives.       *)
LEMMA NoteRefines ==
  ASSUME Strong, NoteWrite
  PROVE  WQ!Next
<1> DEFINE held  == {s \in StagesOf(loop.task) : by[s] = loop.node}
           moved == {s \in held : \/ st[s] = "orphaned"
                                  \/ st[s] = "claimed" /\ loop.kind = "longrun"}
<1>1. /\ loop.node \in Nodes /\ UNCHANGED <<by, claims>> /\ moved \in SUBSET Stages
      /\ \A s \in Stages : st'[s] = IF s \in moved THEN "accepted" ELSE st[s]
      /\ \A s \in moved : by[s] = loop.node /\ st[s] \in HeldStatuses
  BY LoopFields
     DEF NoteWrite, Strong, Inductive, TypeOK, StagesOf, SetStatus, claimVars, HeldStatuses
<1> HIDE DEF moved
<1>2. PhaseOf("accepted") = "kept"
  BY DEF PhaseOf, LongStatuses
<1>3. Phases' = [s \in Stages |-> IF s \in moved THEN "kept" ELSE Phases[s]]
  BY <1>1, <1>2 DEF Phases
<1>4. Holders' = Holders
  BY <1>1 DEF Holders, HolderOf, HeldStatuses
<1>5. \A s \in moved : Holders[s] = loop.node
  BY <1>1 DEF Holders, HolderOf
<1>6. WQ!Keep(moved, loop.node)
  BY <1>1, <1>3, <1>4, <1>5 DEF WQ!Keep, WQ!HeldBy, WQ!Move, Phases, Holders
<1> QED BY <1>1, <1>6 DEF WQ!Next

(* admin_delete_node is the leave of a worker.                             *)
LEMMA DeleteRefines ==
  ASSUME Strong, NEW n \in Nodes, AdminDelete(n)
  PROVE  WQ!Next
<1> USE NoNodeAssumption
<1>1. st \in [Stages -> StageState] /\ by \in [Stages -> Nodes \cup {NoNode}]
  BY DEF Strong, Inductive, TypeOK, StagesOK
<1>2. /\ claims' = claims
      /\ \A s \in Stages : /\ by'[s] = IF by[s] = n THEN NoNode ELSE by[s]
                           /\ st'[s] = IF by[s] = n /\ st[s] = "claimed" THEN "failed" ELSE st[s]
  BY DEF AdminDelete, ClearClaims, RowsOf, ClaimedOf, SetStatus
<1> DEFINE left == {s \in Stages : Holders[s] = n}
           lost == {s \in left : Phases[s] = "leased"}
<1>3. /\ \A s \in Stages : s \in left <=> by[s] = n /\ st[s] \in HeldStatuses
      /\ \A s \in Stages : s \in lost <=> by[s] = n /\ st[s] = "claimed"
  BY <1>1, PhaseCases DEF Holders, HolderOf, Phases, HeldStatuses, LongStatuses
<1> HIDE DEF left, lost
<1>4. PhaseOf("failed") = "dead"
  BY DEF PhaseOf, LongStatuses
<1>5. Phases' = [s \in Stages |-> IF s \in lost THEN "dead" ELSE Phases[s]]
  BY <1>2, <1>3, <1>4 DEF Phases
<1>6. Holders' = [s \in Stages |-> IF s \in left THEN NoNode ELSE Holders[s]]
  BY <1>2, <1>3 DEF Holders, HolderOf, HeldStatuses, LongStatuses
<1>7. WQ!Leave(n)
  BY <1>2, <1>5, <1>6 DEF WQ!Leave, WQ!HeldBy, WQ!Move, WQ!Drop, Phases, Holders, left, lost
<1> QED BY <1>7 DEF WQ!Next

(* The sweeps, each by what its UPDATEs do to a row.                       *)
LEMMA SweepsRefine ==
  ASSUME Strong, Moves, NEW w \in Sweepers, SweepWrite(w)
  PROVE  WQ!Next \/ UNCHANGED WQ!vars
<1>T. maint \in [Sweepers -> SweepState] /\ st \in [Stages -> StageState]
  BY DEF Strong, Inductive, TypeOK, StagesOK
<1>1. CASE OfflineWrite(w)
  <2>1. CASE UNCHANGED <<node, st, by, expired, tStatus>>
    BY <1>1, <2>1, StutterRefines DEF OfflineWrite
  <2>2. CASE ~ UNCHANGED <<node, st, by, expired, tStatus>>
    <3>1. PICK lost \in SUBSET {s \in Stages : st[s] = "claimed"} :
            st' = SetStatus(lost, "failed") /\ ClearClaims(lost) /\ claims' = claims
      BY <1>1, <2>2, Zenon DEF OfflineWrite
    <3> QED BY <3>1, SweepRefines DEF SetStatus, ClearClaims, HeldStatuses, LongStatuses
  <2> QED BY <2>1, <2>2
<1>2. CASE ReleaseWrite(w)
  <2> DEFINE hit   == {s \in maint[w].rows : SameClaim(s, maint[w])}
             spent == {s \in hit : BudgetSpent(maint[w].retry[s] + 1)}
  <2>1. /\ claims' = claims /\ ClearClaims(hit)
        /\ st' = [s \in Stages |-> IF s \in spent THEN "failed" ELSE IF s \in hit THEN "pending" ELSE st[s]]
    BY <1>2 DEF ReleaseWrite
  <2>2. spent \subseteq hit /\ \A s \in hit : st[s] = "claimed"
    BY DEF SameClaim
  <2> HIDE DEF hit, spent
  <2> QED BY <2>1, <2>2, SweepRefines DEF ClearClaims, HeldStatuses, LongStatuses
<1>3. CASE OrphanWrite(w)
  <2>1. PICK hit \in SUBSET {s \in Stages : st[s] = "pending"} :
          st' = SetStatus(hit, "failed") /\ UNCHANGED <<by, claims>>
    <3>1. maint[w].dead \subseteq Stages /\ maint[w].rows \subseteq Stages
      BY <1>T, <1>3, SweepFields DEF OrphanWrite
    <3> QED BY <1>3, <3>1, Zenon DEF OrphanWrite, claimVars
  <2> QED BY <2>1, SweepRefines DEF SetStatus
<1>4. CASE LeaseWrite(w)
  <2> DEFINE sweep   == maint[w]
             overdue == IF sweep.rule = 1 THEN {s \in sweep.rows : st[s] = "accepted"} ELSE {}
             st1     == SetStatus(overdue, "orphaned")
             dead    == CASE sweep.rule = 1 -> LeaseDead(st1)
                          [] sweep.rule = 2 -> {s \in sweep.rows : st1[s] = "orphaned"}
                          [] sweep.rule = 3 -> {}
             st2     == [s \in Stages |-> IF s \in dead THEN "failed" ELSE st1[s]]
             gone    == IF sweep.rule = 3 THEN {s \in sweep.rows : st2[s] \in LongStatuses}
                                          ELSE HolderGone(st2)
  <2>1. sweep.rule \in 1..3 /\ UNCHANGED <<by, claims>>
    BY <1>T, <1>4, SweepFields DEF LeaseWrite, claimVars
  <2>2. st' = [s \in Stages |-> IF s \in gone THEN "failed" ELSE st2[s]]
    BY <1>4 DEF LeaseWrite
  <2>3. \A s \in Stages : s \in gone => st2[s] \in LongStatuses
    BY DEF HolderGone
  <2> HIDE DEF gone
  <2>4. \A s \in Stages : s \in dead => st1[s] = "orphaned"
    BY <2>1 DEF LeaseDead
  <2> HIDE DEF dead
  <2>5. \A s \in Stages : st2[s] = IF s \in dead THEN "failed" ELSE st1[s]
    OBVIOUS
  <2> HIDE DEF st2
  <2>6. \A s \in Stages : s \in overdue => st[s] = "accepted"
    OBVIOUS
  <2> HIDE DEF overdue
  <2>7. \A s \in Stages : st1[s] = IF s \in overdue THEN "orphaned" ELSE st[s]
    BY DEF SetStatus
  <2> HIDE DEF st1
  <2>8. \A s \in Stages : \/ st'[s] = st[s]
                          \/ st[s] # "none" /\ st'[s] = "failed"
                          \/ st[s] = "accepted" /\ st'[s] = "orphaned"
    BY <2>2, <2>3, <2>4, <2>5, <2>6, <2>7 DEF LongStatuses
  <2> QED BY <2>1, <2>8, SweepRefines
<1> QED BY <1>1, <1>2, <1>3, <1>4 DEF SweepWrite

(* Every step of the scheduler is a step of the queue or none.             *)
LEMMA RefineStep ==
  ASSUME Strong, [Next]_vars
  PROVE  WQ!Next \/ UNCHANGED WQ!vars
<1>M. Moves
  BY NextMoves DEF Strong
<1>1. CASE (\E t \in Tasks, r \in Requests : CreateTask(t, r)) \/ (\E n \in Nodes : AdminDelete(n))
  BY <1>1, CreateRefines, DeleteRefines
<1>2. CASE ClaimWrite \/ CompleteWrite \/ NoteWrite
  BY <1>M, <1>2, ClaimRefines, CompleteRefines, NoteRefines
<1>3. CASE \E w \in Sweepers : SweepWrite(w)
  BY <1>M, <1>3, SweepsRefine
<1>4. CASE \/ \E n \in Nodes : \/ ClaimRead(n) \/ HeartbeatRead(n) \/ AdminApprove(n)
                               \/ \E s \in Stages : CompleteRead(n, s)
                               \/ \E t \in Tasks : NoteRead(n, t)
           \/ HeartbeatWrite \/ SyncCapabilities
           \/ \E w \in Sweepers : SweepRead(w)
           \/ Environment \/ UNCHANGED vars
  <2>1. UNCHANGED <<st, by, claims>>
    BY <1>4
       DEF ClaimRead, HeartbeatRead, AdminApprove, CompleteRead, NoteRead,
           HeartbeatWrite, SyncCapabilities, SweepRead, OfflineRead, ReleaseRead,
           OrphanRead, LeaseRead, Environment, ClaimExpires, NoteAges, NodeAges,
           LoopAborts, SweepAborts, vars, stageVars, claimVars
  <2> QED BY <2>1, StutterRefines
<1> QED BY <1>1, <1>2, <1>3, <1>4 DEF Next, Requested, LoopWrite

(* The scheduler is a work queue: with any number of nodes, stages and     *)
(* maintenance threads, a stage is leased to one node at a time and at     *)
(* most max_retries + 1 times, kept by the node that took it over,         *)
(* finished by its holder alone, and ends once.                            *)
THEOREM SchedulerIsWorkQueue == Spec => ImplementsWorkQueue
<1>1. Init => WQ!Init
  BY DEF Init, WQ!Init, PhaseOf, HolderOf, HeldStatuses, LongStatuses
<1>2. Strong /\ [Next]_vars => [WQ!Next]_(WQ!vars)
  BY RefineStep
<1> QED BY <1>1, <1>2, StrongInvariant, PTL DEF Spec, ImplementsWorkQueue, WQ!Spec
=============================================================================
