\* Two nodes, one single-stage task, free, owned or pinned: claims of
\* several nodes, owner flips and deletions.
SPECIFICATION Spec
CONSTANTS
  n1 = n1
  n2 = n2
  t1 = t1
  t2 = t2
  s1 = s1
  s2 = s2
  s3 = s3
  NoNode = NoNode
  Nodes = {n1, n2}
  Tasks = {t1}
  Stages = {s1}
  Sweepers = {w1}
  TaskOf <- MCTaskOf
  Seq <- MCSeq
  Capability <- MCCap
  CapSets <- MCCapSets
  Requests <- MCAddressed
  MaxRetries = 0
SYMMETRY NodeSymmetry
CHECK_DEADLOCK FALSE
INVARIANTS
  NoDanglingReference
  ClaimsAreSound
