\* The retries of llm.py.
CONSTANTS
  m1 = m1
  m2 = m2
  m3 = m3
  Models <- MCModels
  Dimension <- MCDimension
  ClearsInPlace = TRUE
  MaxVersions = 2
  NoCollection = NoCollection
  NoEngine = NoEngine
  MaxAttempts <- MCMaxAttempts
  Proper = Proper
  Malformed = Malformed
  Environments <- MCEnvironments
  Arguments <- MCArguments
  NoSettings = NoSettings
SPECIFICATION Spec
INVARIANTS
  AttemptsAsStated
