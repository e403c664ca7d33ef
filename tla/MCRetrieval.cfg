\* Spellings that differ from the normal form, caps that bite, and weights of a
\* third and a sixth, with relevances of 1, a half and a quarter.
CONSTANTS
  Keys = {1, 2, 3, 4}
  NormalKey <- MCNormalKey
  Excluded = {2}
  Values = {"Go", "go", "java"}
  NormalValue <- MCNormalValue
  Schemas <- MCSchemas
  MaxFields = 2
  MaxValues = 2
  MaxEntries = 2
  Chunks <- MCChunks
  NoYear = NoYear
  Distances <- MCDistances
  Now = 5
  Window = 2
  Unit = 12
  FilterWeight = 4
  RecencyWeight = 2
  TopK = 2
  Overfetch = 2
SPECIFICATION Spec
INVARIANTS
  TypeOK
  PromptMatchesGrammar
  BestReturned
  OvertakenForReason
PROPERTIES
  GrammarSurvives
  OnlyKnown
CHECK_DEADLOCK TRUE
