CONSTANTS
  MaxClients = 1
  MaxRequest = 1
  Slack = 1
  AcceptBudget = 1
  BackoffTicks = 1
  Fds = {1, 2}
  FdSetSize = 2
  Channels = {c}
  Chunks <- AllChunks
  ReplyLens = {1, 2}
  MsgLens = {2}
  MaxConnections = 1
SPECIFICATION Spec
INVARIANTS TypeOK NoStrandedRequest ReadSeesNoLine EveryRequestAnswered StreamWellFormed
CHECK_DEADLOCK FALSE
