\* Two work-stealing actors: a call whose handler may panic, a fire-and-forget
\* message, a delayed one and a close_one; broadcasting is allowed.
CONSTANTS
  Client = {c1, c2}
  Actor = {a1, a2}
  First = c1
  Calls = {k1}
  DoSends = {d1}
  Delays = {l1}
  Closes = {x1}
  Panicky = {k1}
  NoMsg = NoMsg
  RestartOnErr = FALSE
  HandleDelayOnShutdown = FALSE
  AllowBroadcast = TRUE
  DrainOnClose = FALSE
  MaxGeneration = 1
SPECIFICATION FairSpec
INVARIANTS OnePlace NoSilentLoss LeavesWhenDrained CloseStopsOne ReplyMatchesFate
PROPERTIES NoRevival ImplementsMailbox StopsWhenReleased AnsweredUnlessKilled DelayedHandled
\* Quiescence is legitimate: every actor gone, or no client that asks for more.
CHECK_DEADLOCK FALSE
