\* Ingestion never clears a collection in place, but creates it again.
CONSTANTS
  m1 = m1
  m2 = m2
  m3 = m3
  Models <- MCModels
  Dimension <- MCDimension
  ClearsInPlace = FALSE
  MaxVersions = 2
  NoCollection = NoCollection
  NoEngine = NoEngine
  MaxAttempts <- MCMaxAttempts
  Proper = Proper
  Malformed = Malformed
  Environments <- MCEnvironments
  Arguments <- MCArguments
  NoSettings = NoSettings
SPECIFICATION Spec
INVARIANTS
  SameModel
