CONSTANTS
  Lines = {"sub"}
  Pieces = 2
  MaxAddresses = 1
  MaxCommands = 1
  MaxMessages = 1
SPECIFICATION Spec
PROPERTIES MessagesAppear
CHECK_DEADLOCK FALSE
