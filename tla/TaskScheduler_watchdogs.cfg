\* One node that may lose its capability, one stage, one retry: what the
\* watchdogs may take back, and what each brings about, given its turns.
SPECIFICATION Spec
CONSTANTS
  n1 = n1
  n2 = n2
  t1 = t1
  t2 = t2
  s1 = s1
  s2 = s2
  s3 = s3
  NoNode = NoNode
  Nodes = {n1}
  Tasks = {t1}
  Stages = {s1}
  Sweepers = {w1}
  TaskOf <- MCTaskOf
  Seq <- MCSeq
  Capability <- MCCap
  CapSets <- MCFickleCaps
  Requests <- MCLinear
  MaxRetries = 1
CHECK_DEADLOCK FALSE
INVARIANTS
  RetryAccounting
PROPERTIES
  HeldWorkIsKept
  ClaimsEnd
  AbandonedLongRunFails
  UncoveredStagesFail
  SilentNodesGoOffline
