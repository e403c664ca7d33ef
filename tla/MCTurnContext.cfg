\* A budget of about three short messages, which some histories fill exactly, and
\* chunks that fit, nearly fit and do not fit beside the question.
CONSTANTS
  QuestionSizes = {1, 4}
  AnswerSizes = {2, 6}
  ChunkSizes = {0, 7, 25}
  SystemTokens = 7
  CondenseTokens = 6
  HasSchema = FALSE
  MaxContext = 50
  Buffer = 5
  MaxMessages = 10
SPECIFICATION Spec
INVARIANTS
  TypeOK
  FitsBudget
  KeepsMost
  ConverseAccepts
\* Without room for another message only forgetting goes on.
CHECK_DEADLOCK TRUE
