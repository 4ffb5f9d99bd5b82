\* Two questions in flight at once, a reader who leaves, every failure.
SPECIFICATION Spec
CONSTANTS
  N = 2
  Limit = 4
  MaxTokens = 1
  Client = "concurrent"
  Faults = {"embed", "llm", "db", "disconnect", "delete"}
INVARIANTS
  TypeOK AnswerFollowsQuestion NothingPartialIsSaved OwnQuestionNotInHistory
  UnsavedTurnIsReported EventsInOrder
PROPERTIES
  LateQuestionKeepsTitle
CHECK_DEADLOCK FALSE
