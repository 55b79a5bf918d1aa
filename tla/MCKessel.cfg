CONSTANTS
  Keys = {k1}
  Data = {d1, d2}
  NULL = NULL
  MsPerSec = 2
  UintMax = 7
  Channels = {h1}
  Clients = {c1, c2}
  Number <- MCNumber
  Texts <- MCTexts
  IntMax = 3
  Messages = {1, 2}
  OutputCap = 2
  MaxTime = 2
  MaxCommands = 3
SPECIFICATION Spec
SYMMETRY Symmetry
INVARIANTS StoreIsAsAsked MessagesAsSubscribed
PROPERTIES RepliesAreTrue
