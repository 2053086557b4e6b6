\* Two actors that may be declared in 24 ways; a stream of As and a skip stream
\* of Bs, one item of each may make its handler panic; one close_one.
CONSTANTS
  s1 = s1
  s2 = s2
  x1 = x1
  x2 = x2
  y1 = y1
  y2 = y2
  skip = skip
  None = skip
  NoMsg = NoMsg
  NamedBlocking = {}
  Chopped = Chopped
  Runtime = "tokio"
  Programs <- MCPrograms
  Actor = {a1, a2}
  Stream = {s1, s2}
  MsgType <- MCMsgType
  Skips = {s2}
  Items <- MCItems
  Panicky = {x1}
  Mpsc = FALSE
  MaxCloses = 1
SPECIFICATION FairSpec
INVARIANTS OneAnswerEach FailsOnlyIfKilled DispatchesRight
PROPERTIES StreamEnds
CHECK_DEADLOCK FALSE
