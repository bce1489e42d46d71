SPECIFICATION Spec
CONSTANTS
  MaxObjects = 1
  MaxStarts = 1
INVARIANT ActiveMeansRunning
CHECK_DEADLOCK FALSE
