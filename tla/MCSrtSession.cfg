\* Two sessions with up to four connection attempts between them, stop at any
\* moment of the connector's loop.
SPECIFICATION FairSpec
CONSTANTS
  MaxSockets = 4
  MaxSessions = 2
INVARIANTS TypeOK ClosedOnce NoSocketLeak SendsWhenAllowed CallbacksEnd
PROPERTIES ReconnectsIndefinitely ToldBeforeResume StoppedIsFinal KeepsContract StopReturns
CHECK_DEADLOCK FALSE
