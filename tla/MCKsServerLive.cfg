CONSTANTS
  MaxClients = 2
  MaxRequest = 0
  Slack = 1
  AcceptBudget = 1
  BackoffTicks = 1
  Fds = {1, 2, 3}
  FdSetSize = 3
  Channels = {c}
  Chunks <- SingleBytes
  ReplyLens = {1}
  MsgLens = {2}
  MaxConnections = 2
SPECIFICATION Spec
INVARIANTS StreamWellFormed ConnectionsConsistent ReadyBitsAreOwn
PROPERTIES LoopTurns DroppedIsClosed StopsOnSignal
CHECK_DEADLOCK FALSE
