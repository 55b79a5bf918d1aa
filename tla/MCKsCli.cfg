CONSTANTS
  Lines = {"plain", "sub", "badsub", "longsub", "crsub", "quoted"}
  Pieces = 2
  MaxAddresses = 2
  MaxCommands = 2
  MaxMessages = 2
SPECIFICATION Spec
INVARIANTS ReplyIsOwn Aligned PromptIsQuiet
PROPERTIES CtrlCLeaves
CHECK_DEADLOCK FALSE
