SPECIFICATION Spec
CONSTANTS
  Queries = {"q1", "q2"}
  NoQuery = "none"
  Passages = {"a"}
  Versions = {1, 2}
  ModelUse <- MCModelUse
  Messages <- MCMessages
  Searches = {"search_law", "search_rulings"}
  ReadTools = {"check_fact_gaps"}
  LoopLimit = 6
  Unscoped = {"q2"}
  Foreign = {}
  RouteCalls = {2}
  Dynamic = TRUE
  ToolTurns = {1}
  ModelLimit = 6
  ActionLimit = 2
  SearchLimit = 2
  MaxTurns = 3
  MaxMoves = 1
INVARIANTS PartsKept QuestionBound LoopEnds AnswerHasRoom CitationsSingle
PROPERTIES SuspendedKept
