------------------------ MODULE TaskSchedulerRefines ------------------------
(***************************************************************************)
(* TaskScheduler implements WorkQueue: stages are the items and nodes the  *)
(* workers; a claim is a lease and claims counts the tries; accepted and   *)
(* orphaned stages are kept.  The claim columns a finished stage retains   *)
(* as history do not count as holding it.                                  *)
(***************************************************************************)
EXTENDS TaskScheduler

PhaseOf(status) ==
  CASE status = "none"       -> "new"
    [] status = "pending"    -> "open"
    [] status = "claimed"    -> "leased"
    [] status \in LongStatuses -> "kept"
    [] status = "completed"  -> "done"
    [] status = "failed"     -> "dead"

HolderOf(s) == IF st[s] \in HeldStatuses THEN by[s] ELSE NoNode

WQ == INSTANCE WorkQueue WITH
  Items    <- Stages,
  Workers  <- Nodes,
  Nobody   <- NoNode,
  MaxTries <- MaxRetries + 1,
  phase    <- [s \in Stages |-> PhaseOf(st[s])],
  holder   <- [s \in Stages |-> HolderOf(s)],
  tries    <- claims

(* Whatever the threads interleave, a stage is worked on by one node at a  *)
(* time, at most max_retries + 1 times, is not taken from a node that took *)
(* it over, is completed by its holder alone, and ends once.               *)
ImplementsWorkQueue == WQ!Spec
=============================================================================
