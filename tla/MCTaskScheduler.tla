--------------------------- MODULE MCTaskScheduler ---------------------------
(***************************************************************************)
(* Small instances of TaskScheduler for TLC.                               *)
(***************************************************************************)
EXTENDS TaskSchedulerRefines, TLC

CONSTANTS n1, n2, t1, t2, s1, s2, s3

(* One capability; a node may also advertise none.                         *)
MCCap     == [s \in Stages |-> "c"]
MCCapSets == {{"c"}}
MCFickleCaps == {{"c"}, {}}

(* t1 has the stages s1, s2, t2 the stage s3, as far as they are there.    *)
MCTaskOf  == [s \in Stages |-> IF s = s3 THEN t2 ELSE t1]
MCSeq     == [s \in Stages |-> IF s = s2 THEN 1 ELSE 0]

Request(p, o, own, pinned) ==
  [ priority |-> p, owner |-> o, explicit |-> own,
    depends |-> [s \in Stages |-> {}], pin |-> [s \in Stages |-> pinned] ]

(* Default dependencies; an explicit empty list for every stage.           *)
LinearRequest   == Request(0, NoNode, {}, NoNode)
ParallelRequest == Request(0, NoNode, Stages, NoNode)
MCLinear        == {LinearRequest}
MCParallel      == {ParallelRequest}
MCEither        == {LinearRequest, ParallelRequest}
MCPriorities    == {ParallelRequest, Request(1, NoNode, Stages, NoNode)}
MCAddressed     == {LinearRequest} \cup {Request(0, n, {}, NoNode) : n \in Nodes}
                                   \cup {Request(0, NoNode, {}, n) : n \in Nodes}

NodeSymmetry    == Permutations(Nodes)

(* HeartbeatWrites is what the registry allows, by category, and what      *)
(* auto-busy and its revert write on their own.                            *)
Allowed(c) ==
  { NodeStatuses[to].category : to \in
      { to \in DOMAIN NodeStatuses : \E from \in DOMAIN NodeStatuses :
          NodeStatuses[from].category = c /\ CanTransition(NodeStatuses, from, to) } }

ASSUME HeartbeatAssumption ==
  \A c \in {def.category : def \in {NodeStatuses[name] : name \in DOMAIN NodeStatuses}} :
    HeartbeatWrites(c) =
      Allowed(c) \cup {"AVAILABLE", "BUSY"} \cup (IF c = "OFFLINE" THEN {} ELSE {"keep"})
=============================================================================
