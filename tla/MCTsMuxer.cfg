\* Audio and video, datagrams of two units, packets below, at and above that.
SPECIFICATION Spec
CONSTANTS
  DatagramSize = 2
  MaxUnits = 3
  HasAudio = TRUE
  MaxPackets = 5
  MaxSections = 3
INVARIANTS TypeOK StreamIntact NewContextOnly NothingStuck
CHECK_DEADLOCK FALSE
