\* Two streams, a slow one or both, and two publishing threads; queues of
\* one event, so that the second event may be lost.
SPECIFICATION Spec
CONSTANTS
  a = a
  b = b
  Loop = loop
  Sweepers = {w1}
  Subs = {a, b}
  Types = {"task_created"}
  Filters <- MCFilters
  QueueSize = 1
  HistorySize = 1
  LagAt = 1
  MaxEvents = 2
CHECK_DEADLOCK FALSE
INVARIANTS
  LossIsReported
  HistoryIsRecent
PROPERTIES
  StreamsDrain
