\* Two adapters, one of which may come or go; clicks race the timers.
SPECIFICATION Spec
CONSTANTS
  Links = {wifi, modem}
  ControlCapacity = 2
  MaxToggles = 3
  MaxPlugs = 2
  MaxStarts = 2
SYMMETRY LinkSymmetry
INVARIANTS TypeOK NewLinksOptIn AdminStateApplied
CHECK_DEADLOCK FALSE
