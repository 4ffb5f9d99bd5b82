\* A client that waits for each stream to end; more turns than the history holds.
SPECIFICATION FairSpec
CONSTANTS
  N = 3
  Limit = 3
  MaxTokens = 1
  Client = "patient"
  Faults = {"embed", "llm", "db", "disconnect", "delete"}
PROPERTIES
  ImplementsConversation StreamEnds
CHECK_DEADLOCK FALSE
