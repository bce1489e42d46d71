\* One start, one outage and enough datagrams for a hole and what follows it.
SPECIFICATION FairSpec
CONSTANTS
  MaxQueueBytes = 2
  MaxQueueDuration = 5
  Sizes = {1}
  Reorder = 0
  MaxPackets = 3
  MaxDatagrams = 3
  MaxReconnects = 1
  MaxRuns = 1
PROPERTIES NoSplice StaleAtMostOne StopCompletes
CHECK_DEADLOCK FALSE
