SPECIFICATION Spec
CONSTANTS
  Links = {wifi, modem}
  ControlCapacity = 2
  MaxToggles = 2
  MaxPlugs = 0
  MaxStarts = 1
PROPERTY LastLinkStays
CHECK_DEADLOCK FALSE
