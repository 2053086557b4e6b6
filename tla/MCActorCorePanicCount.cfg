\* A handler that may panic, in a group that restarts on errors.
CONSTANTS
  Client = {c1, c2}
  Actor = {a1}
  First = c1
  Calls = {k1}
  DoSends = {}
  Delays = {}
  Closes = {}
  Panicky = {k1}
  NoMsg = NoMsg
  RestartOnErr = TRUE
  HandleDelayOnShutdown = FALSE
  AllowBroadcast = FALSE
  DrainOnClose = FALSE
  MaxGeneration = 1
SPECIFICATION Spec
INVARIANTS ActiveActorsExist
\* Quiescence is legitimate: every actor gone, or no client that asks for more.
CHECK_DEADLOCK FALSE
