\* A collection that is published twice, by models of which two have the same
\* dimension, and is cleared as well as created again.
CONSTANTS
  m1 = m1
  m2 = m2
  m3 = m3
  Models <- MCModels
  Dimension <- MCDimension
  ClearsInPlace = TRUE
  MaxVersions = 2
  NoCollection = NoCollection
  NoEngine = NoEngine
  MaxAttempts <- MCMaxAttempts
  Proper = Proper
  Malformed = Malformed
  Environments <- MCEnvironments
  Arguments <- MCArguments
  NoSettings = NoSettings
SPECIFICATION FairSpec
INVARIANTS
  TypeOK
  ResponseNamesFailure
PROPERTIES
  EveryTurnEnds
