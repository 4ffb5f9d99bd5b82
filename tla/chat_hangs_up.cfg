\* A client that closes the connection when it reads done, as api-reference.md says.
SPECIFICATION Spec
CONSTANTS
  N = 2
  Limit = 4
  MaxTokens = 1
  Client = "hangsUp"
  Faults = {}
INVARIANTS
  CompletedTurnsAreRemembered
CHECK_DEADLOCK FALSE
