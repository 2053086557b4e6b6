\* A delayed message whose Address is dropped before its deadline.
CONSTANTS
  Client = {c1}
  Actor = {a1}
  First = c1
  Calls = {}
  DoSends = {}
  Delays = {l1}
  Closes = {}
  Panicky = {}
  NoMsg = NoMsg
  RestartOnErr = FALSE
  HandleDelayOnShutdown = FALSE
  AllowBroadcast = FALSE
  DrainOnClose = FALSE
  MaxGeneration = 1
SPECIFICATION FairSpec
PROPERTIES PendingLostWithAddress
\* Quiescence is legitimate: every actor gone, or no client that asks for more.
CHECK_DEADLOCK FALSE
