\* restart_on_err after the last Address is dropped.
CONSTANTS
  Client = {c1, c2}
  Actor = {a1}
  First = c1
  Calls = {k1}
  DoSends = {}
  Delays = {}
  Closes = {}
  Panicky = {}
  NoMsg = NoMsg
  RestartOnErr = TRUE
  HandleDelayOnShutdown = FALSE
  AllowBroadcast = FALSE
  DrainOnClose = FALSE
  MaxGeneration = 1
SPECIFICATION FairSpec
PROPERTIES StopsWhenReleased
\* Quiescence is legitimate: every actor gone, or no client that asks for more.
CHECK_DEADLOCK FALSE
