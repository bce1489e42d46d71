\* Two starts, one outage, datagrams of two sizes, reordered presentation
\* times; two small datagrams fill the queue, and two packets reach its duration.
SPECIFICATION Spec
CONSTANTS
  MaxQueueBytes = 2
  MaxQueueDuration = 1
  Sizes = {1, 2}
  Reorder = 1
  MaxPackets = 2
  MaxDatagrams = 3
  MaxReconnects = 1
  MaxRuns = 2
INVARIANTS TypeOK QueueLedger QueueBounded
CHECK_DEADLOCK FALSE
