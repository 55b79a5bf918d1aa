CONSTANTS
  MaxRequest = 65536
  Conversations <- MCConversations
  ReaderCap = 6
  HeaderCap = 8
  BulkHeaderCap = 5
  MaxBulk = 10
  MaxElements = 3
SPECIFICATION Spec
INVARIANT ShowsWhatWasSent
PROPERTY ShowsAll
CHECK_DEADLOCK FALSE
