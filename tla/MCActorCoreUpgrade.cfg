\* An upgrade on one client races the drop of the last Address on another.
CONSTANTS
  Client = {c1, c2}
  Actor = {a1, a2}
  First = c1
  Calls = {}
  DoSends = {}
  Delays = {}
  Closes = {}
  Panicky = {}
  NoMsg = NoMsg
  RestartOnErr = FALSE
  HandleDelayOnShutdown = FALSE
  AllowBroadcast = TRUE
  DrainOnClose = FALSE
  MaxGeneration = 1
SPECIFICATION Spec
INVARIANTS GroupUpgrades
\* Quiescence is legitimate: every actor gone, or no client that asks for more.
CHECK_DEADLOCK FALSE
