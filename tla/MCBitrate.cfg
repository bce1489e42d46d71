SPECIFICATION FairSpec
CONSTANTS
  MinBitrate = 3
  Maxima = {4, 7}
  Manuals = {3, 9}
  Originals = {5}
  Rounding = 2
  IncreaseMin = 1
  IncreaseScale = 4
  DecreaseMin = 2
  DecreaseScale = 4
  MaxChanges = 2
CHECK_DEADLOCK FALSE
INVARIANTS TypeOK ManualHolds RestoredWhenStopped
PROPERTIES CapIsRepaired FallsToMinimum
