\* A keyframe of two datagrams and a queue limit that the second one hits.
SPECIFICATION Spec
CONSTANTS
  MaxQueueBytes = 2
  MaxQueueDuration = 5
  Sizes = {1}
  Reorder = 0
  MaxPackets = 2
  MaxDatagrams = 3
  MaxReconnects = 1
  MaxRuns = 1
PROPERTIES ResumeWithFreshTables
CHECK_DEADLOCK FALSE
