\* Requests that pass and that fail every check of the handshake; a heartbeat of
\* 2 ticks with a timeout of 3, or none; two pieces from the client and two
\* messages of the program.
CONSTANTS
  Requests <- MCRequests
  Known <- MCKnown
  none = none
  NoTimer = none
  Heartbeats = {2, none}
  Timeout = 3
  ServerPings = TRUE
  MaxTime = 7
  MaxFrames <- MCMaxFrames
  MaxPushes <- MCMaxPushes
SPECIFICATION FairSpec
INVARIANTS InOrder NoLostWake DeadPeerCloses HandshakeRight
PROPERTIES NoFalseClose BodyEnds
CHECK_DEADLOCK FALSE
