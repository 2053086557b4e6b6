\* Two intervals on two actors.  The future of c2 panics when it is run, and its
\* handle was dropped; c1 cancels up to twice.
CONSTANTS
  Caller = {c1, c2}
  Actor = {a1, a2}
  Panicky = {c2}
  Keeper = {c2}
  NoOne = NoOne
  MaxCancels = 2
  MaxBacklog = 1
SPECIFICATION FairSpec
INVARIANTS UncancelledStays NoLeak
PROPERTIES CancelIsFinal CancelTakesEffect KeepsRunning EndsWithAddress
\* Quiescence is legitimate: every actor gone and no client that asks for more.
CHECK_DEADLOCK FALSE
