\* Two objects and three starts: a failed start that is repeated, a second run.
SPECIFICATION FairSpec
CONSTANTS
  MaxObjects = 2
  MaxStarts = 3
INVARIANTS TypeOK NothingSurvives NoDangling
PROPERTIES OwnErrorOnly FatalErrorStops
CHECK_DEADLOCK FALSE
