\* Two actors, so channels of capacity two, one of them with a handler that may
\* never return; three broadcasts, one of which may make a handler panic; one
\* close_one.
CONSTANTS
  N = 2
  Call = {k1, k2, k3}
  NoCall = NoCall
  Panicky = {k2}
  Impatient = {k3}
  Slow = {2}
  AllowBroadcast = TRUE
  OnArbiters = FALSE
  Mpsc = FALSE
  MaxCloses = 1
SPECIFICATION FairSpec
INVARIANTS ResultMatchesFate GoneReportedClosed
PROPERTIES BroadcastEnds
CHECK_DEADLOCK FALSE
