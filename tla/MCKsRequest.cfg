CONSTANTS
  Typed <- MCTyped
  Others <- MCOthers
  Upper <- MCUpper
  MaxRequest = 6
  MaxArgs = 1
SPECIFICATION Spec
INVARIANTS InBounds ParsesAsGrammar CliAgreesWithServer
CHECK_DEADLOCK FALSE
