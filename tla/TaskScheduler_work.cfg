\* One node, one task of two stages, dependent or not, no retry: claims,
\* completions and takeovers against every sweep, and the task's status.
SPECIFICATION Spec
CONSTANTS
  n1 = n1
  n2 = n2
  t1 = t1
  t2 = t2
  s1 = s1
  s2 = s2
  s3 = s3
  NoNode = NoNode
  Nodes = {n1}
  Tasks = {t1}
  Stages = {s1, s2}
  Sweepers = {w1}
  TaskOf <- MCTaskOf
  Seq <- MCSeq
  Capability <- MCCap
  CapSets <- MCCapSets
  Requests <- MCEither
  MaxRetries = 0
CHECK_DEADLOCK FALSE
INVARIANTS
  DepsRespected
  TaskFollowsStages
  NoQueueJumping
PROPERTIES
  ImplementsWorkQueue
  TerminalIsFinal
