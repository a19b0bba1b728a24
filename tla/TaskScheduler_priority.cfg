\* One node, two single-stage tasks of two priorities: the claim order across
\* tasks.  No maintenance thread: run work has the order against the sweeps.
SPECIFICATION Spec
CONSTANTS
  n1 = n1
  n2 = n2
  t1 = t1
  t2 = t2
  s1 = s1
  s2 = s2
  s3 = s3
  NoNode = NoNode
  Nodes = {n1}
  Tasks = {t1, t2}
  Stages = {s1, s3}
  Sweepers = {}
  TaskOf <- MCTaskOf
  Seq <- MCSeq
  Capability <- MCCap
  CapSets <- MCCapSets
  Requests <- MCPriorities
  MaxRetries = 0
CHECK_DEADLOCK FALSE
INVARIANTS
  NoQueueJumping
